---------------------------- MODULE ValuesProofs ----------------------------
(***************************************************************************)
(* What an application reads from a field is what was written, for any     *)
(* field of the types that the library reads.                              *)
(***************************************************************************)
EXTENDS Values, EventFormatProofs, SequenceTheorems

\* The fields are written the way a master writes those of the supported types.
FieldsSupported == \A f \in Fields : SupportedField(f)

\* The value the application reads from is the one that update_row() found.
Read == written \in Fields /\ field = Decode

LEMMA ReadInit == Init => Read
BY DEF Init, Read

LEMMA CallsChangeNothing ==
    ASSUME [Next]_vars
    PROVE  written' = written /\ field' = field
BY DEF Next, vars, Answer, AsInt, AsBoolean, AsDouble, AsString, AsBlob,
       DecimalAsString, AsTimestamp, AsYear, AsDate, AsTime, AsDatetime, AsEnum,
       AsSet

LEMMA ReadStep ==
    ASSUME Read, [Next]_vars
    PROVE  Read'
<1>1. written' = written /\ field' = field
  BY CallsChangeNothing
<1>2. Decode' = Decode
  BY <1>1 DEF Decode, Reset
<1> QED
  BY <1>1, <1>2 DEF Read

LEMMA NullHasNoBytes ==
    ASSUME Read, written.sort = "null"
    PROVE  /\ field = NullValue
           /\ \A n : ~HasBytes(n)
BY DEF Read, Decode, Reset, NullValue, HasBytes, is_null

\* A function that is defined from 0 on, each value from the one before.
Follows(f, z, G, n) ==
    f = [k \in 0..n |-> IF k = 0 THEN z ELSE G[<<k, f[k - 1]>>]]

LEMMA Recursion ==
    ASSUME NEW V, NEW n \in Nat, NEW z \in V, NEW G \in [(1..n) \X V -> V]
    PROVE  \E f \in [0..n -> V] : Follows(f, z, G, n)
<1> DEFINE S == {m \in Nat : m <= n => \E f \in [0..m -> V] : Follows(f, z, G, m)}
<1>1. 0 \in S
  <2> DEFINE f == [k \in 0..0 |-> z]
  <2>1. f \in [0..0 -> V] /\ Follows(f, z, G, 0)
    BY DEF Follows
  <2> QED
    BY <2>1
<1>2. ASSUME NEW m \in Nat, m \in S PROVE m + 1 \in S
  <2> SUFFICES ASSUME m + 1 <= n
               PROVE  \E f \in [0..(m + 1) -> V] : Follows(f, z, G, m + 1)
    OBVIOUS
  <2>1. PICK f \in [0..m -> V] : Follows(f, z, G, m)
    BY <1>2
  <2> DEFINE next == G[<<m + 1, f[m]>>]
             g == [k \in 0..(m + 1) |-> IF k <= m THEN f[k] ELSE next]
  <2>2. next \in V
    <3>1. f[m] \in V /\ m + 1 \in 1..n
      OBVIOUS
    <3>2. <<m + 1, f[m]>> \in (1..n) \X V
      BY <3>1
    <3> QED
      BY <3>2
  <2>3. g \in [0..(m + 1) -> V]
    <3> HIDE DEF next
    <3> QED
      BY <2>2
  <2>4. ASSUME NEW k \in 0..(m + 1)
        PROVE  g[k] = IF k = 0 THEN z ELSE G[<<k, g[k - 1]>>]
    <3>1. CASE k <= m
      <4>1. f[k] = IF k = 0 THEN z ELSE G[<<k, f[k - 1]>>]
        BY <2>1, <3>1 DEF Follows
      <4>2. g[k] = f[k] /\ (k # 0 => g[k - 1] = f[k - 1])
        BY <3>1
      <4> HIDE DEF g
      <4> QED
        BY <4>1, <4>2
    <3>2. CASE k = m + 1
      <4>1. k # 0 /\ k - 1 = m /\ g[m] = f[m] /\ g[m + 1] = next
        BY <3>2
      <4> HIDE DEF g
      <4> QED
        BY <3>2, <4>1
    <3> QED
      BY <3>1, <3>2
  <2>5. g = [k \in 0..(m + 1) |-> g[k]]
    OBVIOUS
  <2>6. Follows(g, z, G, m + 1)
    <3> HIDE DEF g
    <3> QED
      BY <2>4, <2>5, Zenon DEF Follows
  <2> HIDE DEF g
  <2> QED
    BY <2>3, <2>6
<1>3. n \in S
  <2> HIDE DEF S
  <2> QED
    BY <1>1, <1>2, NatSetInduction
<1> QED
  BY <1>3

LEMMA SeqOfMore ==
    ASSUME NEW S, NEW T, S \subseteq T, NEW s \in Seq(S)
    PROVE  s \in Seq(T)
OBVIOUS

\* The same from n down.
FollowsDown(f, z, G, n) ==
    f[n] = z /\ \A k \in 0..(n - 1) : f[k] = G[<<k, f[k + 1]>>]

StepsDown(V, n) == [(0..(n - 1)) \X V -> V]

LEMMA Downward ==
    ASSUME NEW V, NEW n \in Nat, NEW z \in V, NEW G \in StepsDown(V, n)
    PROVE  \E f \in [0..n -> V] : FollowsDown(f, z, G, n)
<1>1. G \in [(0..(n - 1)) \X V -> V]
  BY DEF StepsDown
<1> DEFINE H == [kv \in (1..n) \X V |-> G[<<n - kv[1], kv[2]>>]]
<1>2. H \in [(1..n) \X V -> V]
  <2>1. ASSUME NEW kv \in (1..n) \X V PROVE G[<<n - kv[1], kv[2]>>] \in V
    <3>1. <<n - kv[1], kv[2]>> \in (0..(n - 1)) \X V
      OBVIOUS
    <3> QED
      BY <1>1, <3>1
  <2> QED
    BY <2>1
<1>3. \E h \in [0..n -> V] : Follows(h, z, H, n)
  <2> HIDE DEF H
  <2> QED
    BY <1>2, Recursion
<1>4. PICK h \in [0..n -> V] : Follows(h, z, H, n)
  BY <1>3
<1> DEFINE f == [k \in 0..n |-> h[n - k]]
<1>5. f \in [0..n -> V]
  OBVIOUS
<1>6. f[n] = z
  <2>1. h[0] = z
    BY <1>4 DEF Follows
  <2>2. n \in 0..n /\ n - n = 0
    OBVIOUS
  <2> QED
    BY <2>1, <2>2
<1>7. ASSUME NEW k \in 0..(n - 1) PROVE f[k] = G[<<k, f[k + 1]>>]
  <2> DEFINE m == n - k
  <2>1. /\ m \in 1..n /\ m \in 0..n /\ m # 0 /\ n - m = k
        /\ n - (k + 1) = m - 1 /\ m - 1 \in 0..n
        /\ k \in 0..n /\ k + 1 \in 0..n
    OBVIOUS
  <2>2. f[k] = h[m] /\ f[k + 1] = h[m - 1]
    BY <2>1
  <2> HIDE DEF f, m
  <2>3. h[m] = H[<<m, h[m - 1]>>]
    <3> HIDE DEF H
    <3> QED
      BY <1>4, <2>1 DEF Follows
  <2>4. H[<<m, h[m - 1]>>] = G[<<n - m, h[m - 1]>>]
    <3>1. <<m, h[m - 1]>> \in (1..n) \X V
      BY <2>1
    <3> QED
      BY <3>1
  <2> QED
    BY <2>1, <2>2, <2>3, <2>4
<1> HIDE DEF f
<1> QED
  BY <1>5, <1>6, <1>7 DEF FollowsDown

-----------------------------------------------------------------------------
(* The elements of a column *)

LEMMA MinIs ==
    ASSUME NEW S, S \subseteq Nat, S # {}
    PROVE  Min(S) \in S /\ \A y \in S : Min(S) <= y
<1>1. \E x \in S : \A y \in S : ~(<<y, x>> \in OpToRel(<, Nat))
  BY WFMin, NatLessThanWellFounded
<1>2. PICK x \in S : \A y \in S : ~(<<y, x>> \in OpToRel(<, Nat))
  BY <1>1
<1>3. ASSUME NEW y \in S PROVE x <= y
  <2>1. <<y, x>> \in Nat \X Nat
    OBVIOUS
  <2>2. ~(y < x)
    BY <1>2, <2>1, Zenon DEF OpToRel
  <2>3. x \in Nat /\ y \in Nat
    OBVIOUS
  <2> QED
    BY <2>2, <2>3
<1>4. \E z \in S : \A y \in S : z <= y
  BY <1>3
<1> QED
  BY <1>4 DEF Min

IsQuote(k) == written.text[k] = "'"

\* The first quote from p on is at q, and 0 stands for none.
QuoteFrom(p, q) ==
    \/ q = 0 /\ \A k \in p..Len(written.text) : ~IsQuote(k)
    \/ /\ q \in p..Len(written.text) /\ IsQuote(q)
       /\ \A k \in p..(q - 1) : ~IsQuote(k)

LEMMA QuoteIs ==
    ASSUME NEW p \in Nat, p # 0, Len(written.text) \in Nat
    PROVE  QuoteFrom(p, Quote(p))
<1> DEFINE quotes == {k \in p..Len(written.text) : written.text[k] = "'"}
<1>1. Quote(p) = IF quotes = {} THEN 0 ELSE Min(quotes)
  BY DEF Quote
<1>2. CASE quotes = {}
  BY <1>1, <1>2 DEF QuoteFrom, IsQuote
<1>3. CASE quotes # {}
  <2>1. quotes \subseteq Nat
    OBVIOUS
  <2>2. Min(quotes) \in quotes /\ \A y \in quotes : Min(quotes) <= y
    <3> HIDE DEF quotes
    <3> QED
      BY <1>3, <2>1, MinIs
  <2>3. Quote(p) \in quotes /\ \A y \in quotes : Quote(p) <= y
    BY <1>1, <1>3, <2>2
  <2> QED
    BY <2>3 DEF QuoteFrom, IsQuote
<1> QED
  BY <1>2, <1>3

\* What an element that opens with the first quote from p on is followed by.
Closing(p) == Quote(Quote(p) + 1)
NoElement(p) == Quote(p) = 0 \/ Closing(p) = 0
Element(p) == SubSeq(written.text, Quote(p) + 1, Closing(p) - 1)

\* The function that update() computes, from place low on.
Lists(V, low) ==
    V = [p \in low..(Len(written.text) + 2) |->
           IF NoElement(p) THEN <<>> ELSE <<Element(p)>> \o V[Closing(p) + 1]]

LEMMA ClosingIs ==
    ASSUME NEW T, written.text \in Seq(T), NEW p \in Nat, p # 0, ~NoElement(p)
    PROVE  /\ Closing(p) + 1 \in (p + 1)..(Len(written.text) + 2)
           /\ Element(p) \in Seq(T)
<1> DEFINE l == Len(written.text)
           q == Quote(p)
           c == Closing(p)
<1>1. l \in Nat
  OBVIOUS
<1>2. q \in p..l
  <2>1. QuoteFrom(p, Quote(p))
    BY <1>1, QuoteIs
  <2> QED
    BY <2>1 DEF QuoteFrom, NoElement
<1>3. c \in (q + 1)..l
  <2>1. q + 1 \in Nat /\ q + 1 # 0
    BY <1>2
  <2>2. QuoteFrom(q + 1, Quote(q + 1))
    BY <1>1, <2>1, QuoteIs
  <2> QED
    BY <2>2 DEF QuoteFrom, NoElement, Closing
<1>4. SubSeq(written.text, q + 1, c - 1) \in Seq(T)
  <2> DEFINE t == written.text
  <2>1. t \in Seq(T) /\ q + 1 \in Int /\ c - 1 \in Int
        /\ \A i \in (q + 1)..(c - 1) : i \in 1..Len(t)
    BY <1>2, <1>3
  <2>2. \A i \in (q + 1)..(c - 1) : t[i] \in T
    BY <2>1
  <2> DEFINE a == q + 1
             b == c - 1
  <2>3. a \in Int /\ b \in Int /\ \A i \in a..b : t[i] \in T
    BY <2>1, <2>2
  <2> HIDE DEF t, q, c, a, b
  <2>4. SubSeq(t, a, b) \in Seq(T)
    BY <2>3, SubSeqProperties
  <2> QED
    BY <2>4 DEF t, a, b
<1>5. c + 1 \in (p + 1)..(l + 2)
  <2> HIDE DEF q, c, l
  <2> QED
    BY <1>1, <1>2, <1>3
<1> QED
  BY <1>4, <1>5 DEF Element

LEMMA VariantsAre ==
    ASSUME NEW T, written.text \in Seq(T)
    PROVE  /\ Lists(Variants, 1)
           /\ \A p \in 1..(Len(written.text) + 2) : Variants[p] \in Seq(Seq(T))
<1> DEFINE l == Len(written.text)
           Exist(low) == \E V \in [low..(l + 2) -> Seq(Seq(T))] : Lists(V, low)
           S == {m \in Nat : m <= l + 2 => Exist(l + 3 - m)}
<1>1. l \in Nat
  OBVIOUS
<1>2. 0 \in S
  <2> DEFINE V == [p \in (l + 3)..(l + 2) |-> <<>>]
  <2>1. (l + 3)..(l + 2) = {} /\ l + 3 - 0 = l + 3
    BY <1>1
  <2>2. V \in [(l + 3)..(l + 2) -> Seq(Seq(T))]
    BY <2>1
  <2>3. Lists(V, l + 3)
    BY <2>1 DEF Lists
  <2>4. Exist(l + 3)
    BY <2>2, <2>3
  <2> QED
    BY <2>1, <2>4
<1>3. ASSUME NEW m \in Nat, m \in S PROVE m + 1 \in S
  <2> SUFFICES ASSUME m + 1 <= l + 2 PROVE Exist(l + 3 - (m + 1))
    OBVIOUS
  <2> DEFINE o == l + 2 - m
  <2>1. /\ o \in 1..(l + 2) /\ o \in Nat /\ o # 0
        /\ l + 3 - m = o + 1 /\ l + 3 - (m + 1) = o
    BY <1>1
  <2>2. Exist(o + 1)
    BY <1>3, <2>1
  <2> HIDE DEF S, o
  <2>3. PICK V \in [(o + 1)..(l + 2) -> Seq(Seq(T))] : Lists(V, o + 1)
    BY <2>2
  <2> DEFINE First == IF NoElement(o) THEN <<>>
                      ELSE <<Element(o)>> \o V[Closing(o) + 1]
             W == [p \in o..(l + 2) |-> IF p = o THEN First ELSE V[p]]
  <2>4. First \in Seq(Seq(T))
    <3>1. CASE NoElement(o)
      BY <3>1
    <3>2. CASE ~NoElement(o)
      <4>1. Closing(o) + 1 \in (o + 1)..(l + 2) /\ Element(o) \in Seq(T)
        BY <2>1, <3>2, ClosingIs
      <4>2. V[Closing(o) + 1] \in Seq(Seq(T)) /\ <<Element(o)>> \in Seq(Seq(T))
        BY <2>3, <4>1
      <4>3. <<Element(o)>> \o V[Closing(o) + 1] \in Seq(Seq(T))
        BY <4>2
      <4> QED
        BY <3>2, <4>3
    <3> QED
      BY <3>1, <3>2
  <2> HIDE DEF First
  <2>5. W \in [o..(l + 2) -> Seq(Seq(T))]
    <3>1. ASSUME NEW p \in o..(l + 2) PROVE W[p] \in Seq(Seq(T))
      <4>1. CASE p = o
        BY <2>4, <4>1
      <4>2. CASE p \in (o + 1)..(l + 2)
        BY <2>1, <2>3, <4>2, SMTT(30)
      <4> QED
        BY <1>1, <2>1, <4>1, <4>2
    <3> QED
      BY <3>1
  <2>6. ASSUME NEW p \in o..(l + 2)
        PROVE  W[p] = IF NoElement(p) THEN <<>>
                      ELSE <<Element(p)>> \o W[Closing(p) + 1]
    <3>1. p \in Nat /\ p # 0
      BY <2>1
    <3>2. ~NoElement(p) => W[Closing(p) + 1] = V[Closing(p) + 1]
      <4> SUFFICES ASSUME ~NoElement(p) PROVE W[Closing(p) + 1] = V[Closing(p) + 1]
        OBVIOUS
      <4> DEFINE c == Closing(p) + 1
      <4>1. c \in (p + 1)..(l + 2)
        BY <3>1, ClosingIs
      <4>2. c \in o..(l + 2) /\ c # o
        <5> HIDE DEF c
        <5> QED
          BY <1>1, <2>1, <4>1
      <4> HIDE DEF c
      <4>3. W[c] = V[c]
        BY <4>2
      <4> QED
        BY <4>3 DEF c
    <3>3. CASE p = o
      <4>1. W[p] = First
        BY <3>3
      <4> HIDE DEF W
      <4> QED
        BY <3>2, <3>3, <4>1, Zenon DEF First
    <3>4. CASE p # o
      <4>1. p \in (o + 1)..(l + 2)
        BY <1>1, <2>1, <3>4
      <4>2. W[p] = V[p]
        BY <3>4
      <4>3. V[p] = IF NoElement(p) THEN <<>> ELSE <<Element(p)>> \o V[Closing(p) + 1]
        BY <2>3, <4>1, Zenon DEF Lists
      <4> HIDE DEF W
      <4> QED
        BY <3>2, <4>2, <4>3, Zenon
    <3> QED
      BY <3>3, <3>4
  <2>7. Lists(W, o)
    <3>1. W = [p \in o..(l + 2) |-> W[p]]
      OBVIOUS
    <3> HIDE DEF W
    <3> QED
      BY <2>6, <3>1, Zenon DEF Lists
  <2>8. Exist(o)
    <3> HIDE DEF W
    <3> QED
      BY <2>5, <2>7
  <2> QED
    BY <2>1, <2>8
<1>4. Exist(1)
  <2> HIDE DEF Exist
  <2>1. l + 2 \in Nat /\ l + 3 - (l + 2) = 1 /\ l + 2 <= l + 2
    BY <1>1
  <2>2. l + 2 \in S
    <3> HIDE DEF S
    <3> QED
      BY <1>2, <1>3, <2>1, NatSetInduction
  <2> QED
    BY <2>1, <2>2
<1>5. Variants = CHOOSE V : Lists(V, 1)
  BY DEF Variants, Lists, NoElement, Element, Closing
<1>6. Lists(Variants, 1)
  BY <1>4, <1>5
<1> DEFINE V == Variants
           Typed == {m \in Nat : \A p \in 1..(l + 2) :
                       p >= l + 3 - m => V[p] \in Seq(Seq(T))}
<1> HIDE DEF V
<1>7. 0 \in Typed
  BY <1>1
<1>8. ASSUME NEW m \in Nat, m \in Typed PROVE m + 1 \in Typed
  <2> SUFFICES ASSUME NEW p \in 1..(l + 2), p >= l + 3 - (m + 1)
               PROVE  V[p] \in Seq(Seq(T))
    OBVIOUS
  <2>1. V[p] = IF NoElement(p) THEN <<>> ELSE <<Element(p)>> \o V[Closing(p) + 1]
    BY <1>6 DEF Lists, V
  <2>2. CASE NoElement(p)
    BY <2>1, <2>2
  <2>3. CASE ~NoElement(p)
    <3>1. p \in Nat /\ p # 0
      OBVIOUS
    <3>2. Closing(p) + 1 \in (p + 1)..(l + 2) /\ Element(p) \in Seq(T)
      BY <2>3, <3>1, ClosingIs
    <3> DEFINE c == Closing(p) + 1
    <3>3. c \in 1..(l + 2) /\ c >= l + 3 - m
      <4> HIDE DEF c, l
      <4>1. c \in (p + 1)..(l + 2)
        BY <3>2 DEF c
      <4> QED
        BY <1>1, <4>1
    <3>4. V[c] \in Seq(Seq(T))
      BY <1>8, <3>3
    <3> HIDE DEF c
    <3>5. <<Element(p)>> \o V[c] \in Seq(Seq(T))
      BY <3>2, <3>4
    <3> QED
      BY <2>1, <2>3, <3>5 DEF c
  <2> QED
    BY <2>2, <2>3
<1>9. l + 2 \in Typed
  <2> HIDE DEF Typed
  <2>1. l + 2 \in Nat
    BY <1>1
  <2> QED
    BY <1>7, <1>8, <2>1, NatSetInduction
<1>10. \A p \in 1..(l + 2) : V[p] \in Seq(Seq(T))
  BY <1>1, <1>9
<1> QED
  BY <1>6, <1>10 DEF V
LEMMA GetVariantsType ==
    ASSUME written.text \in Seq(STRING)
    PROVE  get_variants \in Seq(Seq(STRING))
<1>1. 1 \in 1..(Len(written.text) + 2)
  OBVIOUS
<1>2. Variants[1] \in Seq(Seq(STRING))
  BY <1>1, VariantsAre
<1>3. get_variants \in {Variants[1], <<>>}
  BY Zenon DEF get_variants
<1>4. <<>> \in Seq(Seq(STRING))
  OBVIOUS
<1> QED
  BY <1>2, <1>3, <1>4, Zenon

\* What the text of a column has between the names.
Comma == ","
Marks == {"'", Comma, "(", ")", "enum", "set"}

\* How ColumnText puts an element into the text of a column.
Part(e, k) ==
    <<"'">> \o e[k] \o (IF k = Len(e) THEN <<"'">> ELSE <<"'", Comma>>)
Parts(e) == [k \in 1..Len(e) |-> Part(e, k)]

\* The place of the quote in front of element k.
Opening(e, k) == 3 + Len(Before(Parts(e), k))

\* Element k stands at its place in the text t, with what is behind it.
ElementAt(t, e, k) ==
    LET o == Opening(e, k)
        n == Len(e[k])
    IN  /\ o \in Nat /\ o >= 3 /\ n \in Nat /\ o + n + 1 < Len(t)
        /\ t[o] = "'" /\ t[o + n + 1] = "'"
        /\ \A j \in 1..n : t[o + j] = e[k][j]
        /\ k < Len(e) => /\ o + n + 2 < Len(t) /\ t[o + n + 2] = Comma
                         /\ Opening(e, k + 1) = o + n + 3
        /\ k = Len(e) => Len(t) = o + n + 2 /\ t[o + n + 2] = ")"

LEMMA PartIs ==
    ASSUME NEW T, Marks \subseteq T, NEW e \in Seq(Seq(T)), NEW k \in 1..Len(e),
           NEW t, NEW q \in Nat, At(t, q, Part(e, k))
    PROVE  /\ Part(e, k) \in Seq(T) /\ Len(e[k]) \in Nat
           /\ Len(Part(e, k)) = IF k = Len(e) THEN Len(e[k]) + 2 ELSE Len(e[k]) + 3
           /\ Byte(t, q) = "'" /\ Byte(t, q + Len(e[k]) + 1) = "'"
           /\ \A j \in 1..Len(e[k]) : Byte(t, q + j) = e[k][j]
           /\ k < Len(e) => Byte(t, q + Len(e[k]) + 2) = Comma
<1> DEFINE a == <<"'">>
           b == e[k]
           c == IF k = Len(e) THEN <<"'">> ELSE <<"'", Comma>>
           n == Len(b)
<1>1. "'" \in T /\ Comma \in T
  BY DEF Marks
<1>2. /\ a \in Seq(T) /\ Len(a) = 1 /\ b \in Seq(T) /\ n \in Nat
      /\ c \in Seq(T) /\ Len(c) = IF k = Len(e) THEN 1 ELSE 2
  BY <1>1
<1>3. a \o b \in Seq(T) /\ Len(a \o b) = 1 + n
  BY <1>2
<1>4. (a \o b) \o c \in Seq(T) /\ Len((a \o b) \o c) = 1 + n + Len(c)
  <2>1. (a \o b) \o c \in Seq(T) /\ Len((a \o b) \o c) = Len(a \o b) + Len(c)
    <3> HIDE DEF a, b, c, n
    <3> QED
      BY <1>2, <1>3, ConcatIs
  <2> HIDE DEF a, b, c, n
  <2> QED
    BY <1>3, <2>1
<1>5. Part(e, k) = (a \o b) \o c
  BY DEF Part
<1>6. At(t, q, a \o b) /\ At(t, q + Len(a \o b), c)
  <2> HIDE DEF a, b, c, n
  <2> QED
    BY <1>2, <1>3, <1>5, AtSplit
<1>7. At(t, q, a) /\ At(t, q + Len(a), b)
  <2> HIDE DEF a, b, c, n
  <2> QED
    BY <1>2, <1>6, AtSplit
<1>8. Byte(t, q) = "'"
  BY <1>7, AtOne
<1>9. \A j \in 1..n : Byte(t, q + j) = b[j]
  <2>1. \A j \in 1..n : Byte(t, q + 1 + j - 1) = b[j]
    <3>1. At(t, q + 1, b)
      BY <1>2, <1>7
    <3> QED
      BY <3>1 DEF At
  <2>2. \A j \in 1..n : q + 1 + j - 1 = q + j
    BY <1>2
  <2> QED
    BY <2>1, <2>2
<1>10. At(t, q + n + 1, c) /\ q + n + 1 \in Nat /\ q + n + 1 + 1 = q + n + 2
  <2>1. q + Len(a \o b) = q + n + 1
    <3> HIDE DEF a, b, n
    <3> QED
      BY <1>2, <1>3
  <2> QED
    BY <1>2, <1>6, <2>1
<1>11. /\ Byte(t, q + n + 1) = "'"
       /\ k < Len(e) => Byte(t, q + n + 2) = Comma
  <2>1. CASE k = Len(e)
    <3>1. At(t, q + n + 1, <<"'">>)
      BY <1>10, <2>1
    <3> QED
      BY <1>10, <2>1, <3>1, AtOne
  <2>2. CASE k # Len(e)
    <3>1. At(t, q + n + 1, <<"'", Comma>>)
      BY <1>10, <2>2
    <3>2. Byte(t, q + n + 1) = "'" /\ Byte(t, q + n + 1 + 1) = Comma
      <4> HIDE DEF n
      <4> QED
        BY <1>10, <3>1, AtTwo
    <3> QED
      BY <1>10, <3>2
  <2> QED
    BY <2>1, <2>2
<1>12. Len(Part(e, k)) = IF k = Len(e) THEN n + 2 ELSE n + 3
  <2> HIDE DEF a, b, c, n
  <2> QED
    BY <1>2, <1>4, <1>5
<1> QED
  BY <1>2, <1>4, <1>5, <1>8, <1>9, <1>11, <1>12

LEMMA PartsType ==
    ASSUME NEW T, Marks \subseteq T, NEW e \in Seq(Seq(T))
    PROVE  Parts(e) \in [1..Len(e) -> Seq(T)]
<1> SUFFICES ASSUME NEW k \in 1..Len(e) PROVE Part(e, k) \in Seq(T)
  BY DEF Parts
<1>1. e[k] \in Seq(T) /\ "'" \in T /\ Comma \in T
  BY DEF Marks
<1> QED
  BY <1>1 DEF Part

\* The text around the elements.
LEMMA TextIs ==
    ASSUME NEW T, Marks \subseteq T, NEW kind \in T, NEW e \in Seq(Seq(T)), e # <<>>
    PROVE  LET t == ColumnText(kind, e)
               F == FlattenSeq(Parts(e))
           IN  /\ t \in Seq(T) /\ F \in Seq(T)
               /\ t[1] = kind /\ t[2] = "(" /\ t[Len(t)] = ")"
               /\ Len(t) = Len(F) + 3
               /\ At(t, 3, F)
               /\ \A q \in 1..Len(t) : Byte(t, q) = t[q]
<1> DEFINE F == FlattenSeq(Parts(e))
           a == <<kind, "(">>
           z == <<")">>
           t == (a \o F) \o z
<1>1. ColumnText(kind, e) = t
  <2>1. DOMAIN e = 1..Len(e)
    OBVIOUS
  <2> QED
    BY <2>1, Zenon DEF ColumnText, Parts, Part, Comma
<1>2. F \in Seq(T)
  <2>1. Len(e) \in Nat /\ Len(e) \in 1..Len(e)
    OBVIOUS
  <2>2. Parts(e) \in [1..Len(e) -> Seq(T)]
    BY PartsType
  <2> QED
    BY <2>1, <2>2, BeforeBegins
<1>3. a \in Seq(T) /\ z \in Seq(T) /\ Len(a) = 2 /\ Len(z) = 1
  <2>1. "(" \in T /\ ")" \in T
    BY DEF Marks
  <2> QED
    BY <2>1
<1>4. a \o F \in Seq(T) /\ Len(a \o F) = 2 + Len(F) /\ Len(F) \in Nat
  <2> HIDE DEF a, F
  <2>1. a \o F \in Seq(T) /\ Len(a \o F) = Len(a) + Len(F)
    BY <1>2, <1>3, ConcatIs
  <2> QED
    BY <1>2, <1>3, <2>1
<1>5. t \in Seq(T) /\ Len(t) = Len(F) + 3
  <2> DEFINE b == a \o F
  <2> HIDE DEF b, F, z
  <2>1. b \o z \in Seq(T) /\ Len(b \o z) = Len(b) + Len(z)
    BY <1>3, <1>4, ConcatIs DEF b
  <2>2. t = b \o z
    BY DEF b
  <2> QED
    BY <1>3, <1>4, <2>1, <2>2 DEF b
<1>6. At(t, 1, t)
  <2> HIDE DEF t
  <2> QED
    BY <1>5, AtItself
<1>7. At(t, 1, a \o F) /\ At(t, 1 + Len(a \o F), z)
  <2> HIDE DEF a, F, z
  <2> QED
    BY <1>3, <1>4, <1>6, AtSplit
<1>8. At(t, 1, a) /\ At(t, 1 + Len(a), F)
  <2> HIDE DEF a, F, z, t
  <2> QED
    BY <1>2, <1>3, <1>7, AtSplit
<1>9. \A q \in 1..Len(t) : Byte(t, q) = t[q]
  BY DEF Byte
<1> HIDE DEF F, t
<1>10. t[1] = kind /\ t[2] = "("
  <2>1. Byte(t, 1) = kind /\ Byte(t, 1 + 1) = "("
    BY <1>8, AtTwo
  <2> QED
    BY <1>4, <1>5, <1>9, <2>1
<1>11. t[Len(t)] = ")"
  <2>1. Len(t) \in Nat /\ Len(t) \in 1..Len(t)
    BY <1>4, <1>5
  <2>2. At(t, Len(t), <<")">>)
    <3>1. 1 + Len(a \o F) = Len(t)
      BY <1>4, <1>5
    <3> QED
      BY <1>7, <3>1
  <2>3. Byte(t, Len(t)) = ")"
    BY <2>1, <2>2, AtOne
  <2> QED
    BY <1>9, <2>1, <2>3
<1>12. At(t, 3, F)
  BY <1>3, <1>8
<1> QED
  BY <1>1, <1>2, <1>5, <1>9, <1>10, <1>11, <1>12 DEF F

LEMMA ElementsAt ==
    ASSUME NEW T, Marks \subseteq T, NEW kind \in T, NEW e \in Seq(Seq(T)), NEW k \in 1..Len(e)
    PROVE  ElementAt(ColumnText(kind, e), e, k)
<1> DEFINE t == ColumnText(kind, e)
           F == FlattenSeq(Parts(e))
           N == Len(e)
           n == Len(e[k])
           b == Len(Before(Parts(e), k))
<1>1. N \in Nat /\ N >= 1 /\ Parts(e) \in [1..N -> Seq(T)] /\ k \in Nat
  BY PartsType
<1>2. /\ t \in Seq(T) /\ F \in Seq(T) /\ t[Len(t)] = ")"
      /\ Len(t) = Len(F) + 3 /\ At(t, 3, F)
      /\ \A q \in 1..Len(t) : Byte(t, q) = t[q]
  <2>1. e # <<>>
    BY <1>1
  <2> QED
    BY <2>1, TextIs, SMTT(30)
<1>3. Parts(e)[k] = Part(e, k)
  BY DEF Parts
<1> HIDE DEF F, t
<1>4. /\ b \in Nat /\ b + Len(Part(e, k)) <= Len(F)
      /\ At(t, 3 + b, Part(e, k))
  <2>1. /\ Len(Before(Parts(e), k)) \in Nat
        /\ Len(Before(Parts(e), k)) + Len(Parts(e)[k]) <= Len(FlattenSeq(Parts(e)))
        /\ At(t, 3 + Len(Before(Parts(e), k)), Parts(e)[k])
    <3>1. At(t, 3, FlattenSeq(Parts(e)))
      BY <1>2 DEF F
    <3> QED
      BY <1>1, <3>1, AtJoined
  <2> QED
    BY <1>3, <2>1 DEF F
<1>5. Len(Before(Parts(e), k + 1)) = b + Len(Part(e, k))
  <2>1. Grows(T, Parts(e), k)
    BY <1>1, BeforeGrows
  <2> QED
    BY <1>3, <2>1 DEF Grows
<1>6. k = N => Len(F) = b + Len(Part(e, k))
  <2>1. F = Before(Parts(e), N + 1)
    BY <1>1, BeforeBegins DEF F
  <2> QED
    BY <1>5, <2>1
<1> DEFINE o == 3 + b
<1>7. o \in Nat
  BY <1>4
<1> HIDE DEF b, N
<1>8. /\ n \in Nat
      /\ Len(Part(e, k)) = IF k = Len(e) THEN n + 2 ELSE n + 3
      /\ Byte(t, o) = "'" /\ Byte(t, o + n + 1) = "'"
      /\ \A j \in 1..n : Byte(t, o + j) = e[k][j]
      /\ k < Len(e) => Byte(t, o + n + 2) = Comma
  <2> HIDE DEF o
  <2>1. At(t, o, Part(e, k))
    BY <1>4 DEF o
  <2>2. /\ Len(e[k]) \in Nat
        /\ Len(Part(e, k)) = IF k = Len(e) THEN Len(e[k]) + 2 ELSE Len(e[k]) + 3
        /\ Byte(t, o) = "'" /\ Byte(t, o + Len(e[k]) + 1) = "'"
        /\ \A j \in 1..Len(e[k]) : Byte(t, o + j) = e[k][j]
        /\ k < Len(e) => Byte(t, o + Len(e[k]) + 2) = Comma
    BY <1>7, <2>1, PartIs
  <2> QED
    BY <2>2
<1> DEFINE lt == Len(t)
           lf == Len(F)
           lp == Len(Part(e, k))
<1>9. /\ lt \in Nat /\ lf \in Nat /\ lt = lf + 3 /\ b \in Nat /\ b + lp <= lf
      /\ lp = IF k = N THEN n + 2 ELSE n + 3
      /\ k = N => lf = b + lp
      /\ n \in Nat /\ N \in Nat
  BY <1>1, <1>2, <1>4, <1>6, <1>8 DEF N
<1> HIDE DEF lt, lf, lp, n
<1>10. /\ o + n + 1 < lt /\ o >= 3 /\ o \in 1..lt /\ o + n + 1 \in 1..lt
       /\ \A j \in 1..n : o + j \in 1..lt
       /\ k < N => o + n + 2 < lt /\ o + n + 2 \in 1..lt
       /\ k = N => lt = o + n + 2
  BY <1>1, <1>9
<1>11. t[o] = "'" /\ t[o + n + 1] = "'"
  BY <1>2, <1>8, <1>10 DEF lt
<1>12. \A j \in 1..n : t[o + j] = e[k][j]
  BY <1>2, <1>8, <1>10 DEF lt
<1>13. k < N => o + n + 2 < lt /\ t[o + n + 2] = Comma /\ Opening(e, k + 1) = o + n + 3
  <2> SUFFICES ASSUME k < N
               PROVE  o + n + 2 < lt /\ t[o + n + 2] = Comma /\ Opening(e, k + 1) = o + n + 3
    OBVIOUS
  <2>1. t[o + n + 2] = Comma
    BY <1>2, <1>8, <1>10 DEF lt, N
  <2>2. Opening(e, k + 1) = 3 + (b + lp)
    BY <1>5 DEF Opening, lp
  <2>3. lp = n + 3
    BY <1>1, <1>9
  <2> QED
    BY <1>9, <1>10, <2>1, <2>2, <2>3
<1>14. k = N => lt = o + n + 2 /\ t[o + n + 2] = ")"
  BY <1>2, <1>10 DEF lt
<1>15. Opening(e, k) = o
  BY DEF Opening, b
<1> QED
  BY <1>7, <1>9, <1>10, <1>11, <1>12, <1>13, <1>14, <1>15
     DEF ElementAt, n, lt, N, t

\* The elements from the k-th on, and the place where the search for them ends.
ElementsFrom(e, k) == [j \in 1..(Len(e) + 1 - k) |-> e[k + j - 1]]
Stop(e, k) == IF k <= Len(e) THEN Opening(e, k) ELSE Len(written.text) + 1

\* The text of the column has been made of these elements.
MadeOf(T, kind, e) ==
    /\ Marks \subseteq T /\ kind \in {"enum", "set"} /\ kind \in T
    /\ e \in Seq(Seq(T)) /\ e # <<>>
    /\ \A k \in 1..Len(e) : \A j \in 1..Len(e[k]) : e[k][j] # "'"
    /\ written.text = ColumnText(kind, e)

LEMMA ElementsFromNext ==
    ASSUME NEW T, NEW e \in Seq(Seq(T)), NEW k \in 1..Len(e)
    PROVE  <<e[k]>> \o ElementsFrom(e, k + 1) = ElementsFrom(e, k)
<1> DEFINE N == Len(e)
           r == ElementsFrom(e, k + 1)
           x == e[k]
           s == <<x>> \o r
           t == ElementsFrom(e, k)
<1>1. N \in Nat /\ x \in Seq(T) /\ k \in Nat /\ k >= 1 /\ k <= N
  OBVIOUS
<1>2. r \in Seq(Seq(T)) /\ Len(r) = N - k
  <2>1. N + 1 - (k + 1) = N - k /\ N - k \in Nat
    BY <1>1
  <2>2. \A j \in 1..(N - k) : (k + 1) + j - 1 \in 1..N
    BY <1>1
  <2>3. r = [j \in 1..(N - k) |-> e[(k + 1) + j - 1]]
    BY <2>1 DEF ElementsFrom
  <2>4. \A i \in 1..N : e[i] \in Seq(T)
    OBVIOUS
  <2> DEFINE m == N - k
             Q == Seq(T)
  <2> HIDE DEF r, N, m, Q
  <2>5. \A j \in 1..m : e[(k + 1) + j - 1] \in Q
    BY <2>2, <2>4 DEF m, Q
  <2>6. m \in Nat /\ r = [j \in 1..m |-> e[(k + 1) + j - 1]]
    BY <2>1, <2>3 DEF m
  <2>7. r \in Seq(Q) /\ Len(r) = m
    BY <2>5, <2>6
  <2> QED
    BY <2>7 DEF m, Q
<1>3. Len(t) = N + 1 - k /\ t = [j \in 1..(N + 1 - k) |-> e[k + j - 1]]
  BY <1>1 DEF ElementsFrom
<1>4. ASSUME NEW j \in 1..(N - k) PROVE r[j] = t[j + 1]
  <2>1. j \in 1..(N + 1 - (k + 1)) /\ j + 1 \in 1..(N + 1 - k)
        /\ k + (j + 1) - 1 = (k + 1) + j - 1
    BY <1>1
  <2> QED
    BY <1>3, <2>1 DEF ElementsFrom
<1>5. t[1] = x
  <2>1. 1 \in 1..(N + 1 - k) /\ k + 1 - 1 = k
    BY <1>1
  <2> QED
    BY <1>3, <2>1
<1> HIDE DEF r, x, t, N
<1>6. <<x>> \in Seq(Seq(T)) /\ Len(<<x>>) = 1 /\ <<x>>[1] = x
  BY <1>1
<1>7. s \in Seq(Seq(T)) /\ Len(s) = 1 + (N - k)
  BY <1>1, <1>2, <1>6, ConcatIs
<1>8. ASSUME NEW j \in 1..(N + 1 - k) PROVE s[j] = t[j]
  <2>1. CASE j = 1
    BY <1>2, <1>5, <1>6, <2>1
  <2>2. CASE j # 1
    <3>1. j - 1 \in 1..(N - k) /\ (j - 1) + 1 = j
      BY <1>1, <2>2
    <3>2. s[j] = r[j - 1]
      BY <1>2, <1>6, <3>1, <2>2
    <3> QED
      BY <1>4, <3>1, <3>2
  <2> QED
    BY <2>1, <2>2
<1>9. s = [j \in 1..(N + 1 - k) |-> s[j]]
  <2>1. 1 + (N - k) = N + 1 - k
    BY <1>1
  <2> QED
    BY <1>7, <2>1
<1>10. s = t
  <2> HIDE DEF s
  <2> QED
    BY <1>3, <1>8, <1>9
<1> QED
  BY <1>10 DEF s, t, r, x

\* update() finds an element and goes on behind it.
LEMMA ElementFound ==
    ASSUME NEW T, NEW kind, NEW e, MadeOf(T, kind, e), NEW k \in 1..Len(e),
           NEW p \in Nat, p # 0, p <= Opening(e, k),
           \A i \in p..(Opening(e, k) - 1) : ~IsQuote(i)
    PROVE  LET next == Closing(p) + 1
           IN  /\ ~NoElement(p)
               /\ Element(p) = e[k]
               /\ next \in 1..(Len(written.text) + 2)
               /\ next <= Stop(e, k + 1)
               /\ \A i \in next..(Stop(e, k + 1) - 1) : ~IsQuote(i)
<1> DEFINE t == written.text
           l == Len(t)
           o == Opening(e, k)
           n == Len(e[k])
<1>1. /\ kind \in T /\ e \in Seq(Seq(T)) /\ e # <<>> /\ Marks \subseteq T
      /\ \A j \in 1..Len(e[k]) : e[k][j] # "'"
      /\ t = ColumnText(kind, e)
  BY DEF MadeOf
<1>2. ElementAt(t, e, k)
  BY <1>1, ElementsAt
<1>3. t \in Seq(T) /\ l \in Nat
  <2>1. ColumnText(kind, e) \in Seq(T)
    BY <1>1, TextIs
  <2> QED
    BY <1>1, <2>1
<1>4. /\ o \in Nat /\ o >= 3 /\ n \in Nat /\ o + n + 1 < l
      /\ t[o] = "'" /\ t[o + n + 1] = "'"
      /\ \A j \in 1..n : t[o + j] = e[k][j]
      /\ k < Len(e) => /\ o + n + 2 < l /\ t[o + n + 2] = Comma
                       /\ Opening(e, k + 1) = o + n + 3
      /\ k = Len(e) => l = o + n + 2 /\ t[o + n + 2] = ")"
  BY <1>2 DEF ElementAt
<1>5. Len(e) \in Nat /\ k \in Nat /\ k <= Len(e) /\ e[k] \in Seq(T)
  BY <1>1
<1> HIDE DEF o, n, l
<1>6. /\ o \in Nat /\ o >= 3 /\ n \in Nat /\ l \in Nat /\ o + n + 1 < l
      /\ k < Len(e) => o + n + 2 < l
      /\ k = Len(e) => l = o + n + 2
  BY <1>3, <1>4
<1>7. Quote(p) = o
  <2>1. QuoteFrom(p, Quote(p))
    BY <1>3, QuoteIs DEF l
  <2>2. IsQuote(o) /\ o \in p..l /\ \A i \in p..(o - 1) : ~IsQuote(i)
    BY <1>3, <1>4 DEF IsQuote, o
  <2> DEFINE q == Quote(p)
  <2> HIDE DEF q
  <2>3. \/ q = 0 /\ \A i \in p..l : ~IsQuote(i)
        \/ q \in p..l /\ IsQuote(q) /\ \A i \in p..(q - 1) : ~IsQuote(i)
    BY <2>1 DEF QuoteFrom, q, l
  <2>4. q \in p..l /\ IsQuote(q) /\ \A i \in p..(q - 1) : ~IsQuote(i)
    BY <2>2, <2>3
  <2>5. ~(q < o)
    BY <2>2, <2>4, <1>4
  <2>6. ~(o < q)
    BY <2>2, <2>4, <1>4
  <2> QED
    BY <1>3, <1>4, <2>4, <2>5, <2>6 DEF q
<1>8. Closing(p) = o + n + 1
  <2> DEFINE d == o + 1
             z == o + n + 1
             q == Quote(d)
  <2>1. d \in Nat /\ d # 0 /\ z \in d..l
    BY <1>6
  <2>2. QuoteFrom(d, q)
    BY <1>3, <2>1, QuoteIs DEF l
  <2>3. IsQuote(z)
    BY <1>4 DEF IsQuote
  <2>4. ASSUME NEW i \in d..(z - 1) PROVE ~IsQuote(i)
    <3>1. i - o \in 1..n /\ o + (i - o) = i
      BY <1>4
    <3>2. t[i] = e[k][i - o]
      BY <1>4, <3>1
    <3> QED
      BY <1>1, <3>1, <3>2 DEF IsQuote, n
  <2> HIDE DEF q, z, d
  <2>5. \/ q = 0 /\ \A i \in d..l : ~IsQuote(i)
        \/ q \in d..l /\ IsQuote(q) /\ \A i \in d..(q - 1) : ~IsQuote(i)
    BY <2>2 DEF QuoteFrom, l
  <2>6. q \in d..l /\ IsQuote(q) /\ \A i \in d..(q - 1) : ~IsQuote(i)
    BY <2>1, <2>3, <2>5
  <2>7. ~(q < z) /\ ~(z < q)
    BY <1>3, <2>1, <2>3, <2>4, <2>6
  <2>8. q = z
    BY <1>3, <2>1, <2>6, <2>7
  <2> QED
    BY <1>7, <2>8 DEF Closing, q, d, z
<1>9. ~NoElement(p)
  BY <1>4, <1>7, <1>8 DEF NoElement
<1>10. Element(p) = e[k]
  <2>1. Element(p) = SubSeq(t, o + 1, o + n)
    <3>1. (o + n + 1) - 1 = o + n
      BY <1>4
    <3> QED
      BY <1>7, <1>8, <3>1 DEF Element
  <2> DEFINE a == o + 1
             b == o + n
             w == e[k]
  <2>2. w \in Seq(T) /\ Len(w) = n
    BY <1>5 DEF n
  <2>3. a \in Int /\ b \in Int /\ b - a + 1 = n /\ (a <= b <=> n # 0)
    BY <1>6
  <2>4. \A i \in a..b : t[i] \in T
    <3>1. \A i \in a..b : i \in 1..l
      BY <1>6
    <3> QED
      BY <1>3, <3>1 DEF l
  <2>5. \A j \in 1..n : t[a + j - 1] = w[j]
    BY <1>4
  <2> HIDE DEF a, b, w, t
  <2>6. /\ SubSeq(t, a, b) \in Seq(T)
        /\ Len(SubSeq(t, a, b)) = IF a <= b THEN b - a + 1 ELSE 0
        /\ \A i \in 1..(b - a + 1) : SubSeq(t, a, b)[i] = t[a + i - 1]
    BY <2>3, <2>4, SubSeqProperties
  <2> DEFINE u == SubSeq(t, a, b)
  <2> HIDE DEF u
  <2>7. u \in Seq(T) /\ Len(u) = n /\ \A j \in 1..n : u[j] = w[j]
    BY <1>4, <2>3, <2>5, <2>6 DEF u
  <2>8. u = w
    BY <2>2, <2>7
  <2> QED
    BY <2>1, <2>8 DEF u, w, a, b
<1> DEFINE next == Closing(p) + 1
<1>11. next = o + n + 2
  BY <1>4, <1>8
<1>12. next \in 1..(l + 2)
  <2> HIDE DEF next
  <2> QED
    BY <1>5, <1>11, <1>6
<1>13. ~IsQuote(o + n + 2)
  <2>1. Comma # "'" /\ ")" # "'"
    BY DEF Comma
  <2>2. t[o + n + 2] = Comma \/ t[o + n + 2] = ")"
    BY <1>5, <1>4
  <2> QED
    BY <2>1, <2>2 DEF IsQuote
<1>14. Stop(e, k + 1) = o + n + 3
  <2>1. CASE k < Len(e)
    <3>1. k + 1 <= Len(e) /\ Opening(e, k + 1) = o + n + 3
      BY <1>5, <1>4, <2>1
    <3> QED
      BY <3>1 DEF Stop
  <2>2. CASE k = Len(e)
    <3>1. ~(k + 1 <= Len(e)) /\ l + 1 = o + n + 3
      BY <1>5, <1>6, <2>2
    <3> QED
      BY <3>1 DEF Stop, l
  <2> QED
    BY <1>5, <2>1, <2>2
<1>15. next <= Stop(e, k + 1)
  BY <1>11, <1>6, <1>14
<1>16. ASSUME NEW i \in next..(Stop(e, k + 1) - 1) PROVE ~IsQuote(i)
  <2>1. i = o + n + 2
    BY <1>11, <1>6, <1>14
  <2> QED
    BY <1>13, <2>1
<1> QED
  BY <1>9, <1>10, <1>12, <1>15, <1>16 DEF l

\* The text of an ENUM or SET column is read as the elements it was made of,
\* whatever characters but quotes they have.
THEOREM VariantsFound ==
    ASSUME NEW T, NEW kind, NEW e, MadeOf(T, kind, e)
    PROVE  get_variants = e
<1> DEFINE t == written.text
           l == Len(t)
           N == Len(e)
           Found(k) == \A p \in 1..(l + 2) :
               /\ p <= Stop(e, k)
               /\ \A i \in p..(Stop(e, k) - 1) : ~IsQuote(i)
               => Variants[p] = ElementsFrom(e, k)
           S == {m \in Nat : m <= N => Found(N + 1 - m)}
<1>1. /\ kind \in T /\ e \in Seq(Seq(T)) /\ e # <<>> /\ Marks \subseteq T
      /\ t = ColumnText(kind, e) /\ kind \in {"enum", "set"}
  BY DEF MadeOf
<1>2. /\ t \in Seq(T) /\ t[1] = kind /\ t[2] = "("
  <2>1. /\ ColumnText(kind, e) \in Seq(T) /\ ColumnText(kind, e)[1] = kind
        /\ ColumnText(kind, e)[2] = "("
    BY <1>1, TextIs
  <2> QED
    BY <1>1, <2>1
<1>3. l \in Nat /\ N \in Nat /\ N >= 1
  BY <1>1, <1>2
<1>4. Lists(Variants, 1)
  BY <1>2, VariantsAre
<1>5. \A p \in 1..(l + 2) :
        Variants[p] = IF NoElement(p) THEN <<>>
                      ELSE <<Element(p)>> \o Variants[Closing(p) + 1]
  BY <1>4, Zenon DEF Lists
<1> HIDE DEF l, N, t
<1>6. 0 \in S
  <2> SUFFICES ASSUME NEW p \in 1..(l + 2), p <= Stop(e, N + 1),
                      \A i \in p..(Stop(e, N + 1) - 1) : ~IsQuote(i)
               PROVE  Variants[p] = ElementsFrom(e, N + 1)
    <3>1. N + 1 - 0 = N + 1
      BY <1>3
    <3> QED
      BY <3>1
  <2>1. Stop(e, N + 1) = l + 1
    <3>1. ~(N + 1 <= N)
      BY <1>3
    <3> QED
      BY <3>1 DEF Stop, N, l, t
  <2>2. p \in Nat /\ p # 0
    BY <1>3
  <2>3. Quote(p) = 0
    <3>1. QuoteFrom(p, Quote(p))
      BY <1>3, <2>2, QuoteIs DEF l, t
    <3>2. \A i \in p..l : ~IsQuote(i)
      BY <1>3, <2>1
    <3> QED
      BY <3>1, <3>2 DEF QuoteFrom, l, t
  <2>4. Variants[p] = <<>>
    BY <1>5, <2>3 DEF NoElement
  <2>5. ElementsFrom(e, N + 1) = <<>>
    <3>1. N + 1 - (N + 1) = 0
      BY <1>3
    <3> QED
      BY <3>1 DEF ElementsFrom, N
  <2> QED
    BY <2>4, <2>5
<1>7. ASSUME NEW m \in Nat, m \in S PROVE m + 1 \in S
  <2> SUFFICES ASSUME m + 1 <= N PROVE Found(N + 1 - (m + 1))
    OBVIOUS
  <2> DEFINE k == N - m
  <2>1. k \in 1..N /\ N + 1 - (m + 1) = k /\ N + 1 - m = k + 1 /\ m <= N
    BY <1>3
  <2>2. Found(k + 1)
    BY <1>7, <2>1
  <2> HIDE DEF S, k
  <2> SUFFICES ASSUME NEW p \in 1..(l + 2), p <= Stop(e, k),
                      \A i \in p..(Stop(e, k) - 1) : ~IsQuote(i)
               PROVE  Variants[p] = ElementsFrom(e, k)
    BY <2>1
  <2>3. Stop(e, k) = Opening(e, k)
    BY <2>1 DEF Stop, N
  <2> DEFINE next == Closing(p) + 1
  <2>4. /\ ~NoElement(p)
        /\ Element(p) = e[k]
        /\ next \in 1..(l + 2)
        /\ next <= Stop(e, k + 1)
        /\ \A i \in next..(Stop(e, k + 1) - 1) : ~IsQuote(i)
    <3>1. p \in Nat /\ p # 0
      BY <1>3
    <3>2. k \in 1..Len(e)
      BY <2>1 DEF N
    <3>3. p <= Opening(e, k) /\ \A i \in p..(Opening(e, k) - 1) : ~IsQuote(i)
      BY <2>3
    <3> QED
      BY <3>1, <3>2, <3>3, ElementFound DEF l, t
  <2>5. Variants[next] = ElementsFrom(e, k + 1)
    <3> HIDE DEF next
    <3> QED
      BY <2>2, <2>4
  <2>6. Variants[p] = <<e[k]>> \o ElementsFrom(e, k + 1)
    BY <1>5, <2>4, <2>5
  <2>7. <<e[k]>> \o ElementsFrom(e, k + 1) = ElementsFrom(e, k)
    BY <1>1, <2>1, ElementsFromNext DEF N
  <2> QED
    BY <2>6, <2>7
<1>8. Found(1)
  <2> HIDE DEF Found
  <2>1. N \in S
    <3> HIDE DEF S
    <3> QED
      BY <1>3, <1>6, <1>7, NatSetInduction
  <2>2. N + 1 - N = 1
    BY <1>3
  <2> QED
    BY <1>3, <2>1, <2>2
<1>9. Stop(e, 1) = 3
  <2>1. Opening(e, 1) = 3
    BY BeforeNone DEF Opening
  <2> QED
    BY <1>3, <2>1 DEF Stop, N
<1>10. ASSUME NEW i \in 1..(3 - 1) PROVE ~IsQuote(i)
  <2>1. i = 1 \/ i = 2
    OBVIOUS
  <2> QED
    BY <1>1, <1>2, <2>1 DEF IsQuote, t
<1>11. Variants[1] = ElementsFrom(e, 1)
  <2>1. 1 \in 1..(l + 2)
    BY <1>3
  <2> QED
    BY <1>8, <1>9, <1>10, <2>1
<1>12. ElementsFrom(e, 1) = e
  <2>1. N + 1 - 1 = N /\ \A j \in 1..N : 1 + j - 1 = j
    BY <1>3
  <2>2. ElementsFrom(e, 1) = [j \in 1..N |-> e[j]]
    BY <2>1 DEF ElementsFrom, N
  <2>3. e = [j \in 1..N |-> e[j]]
    BY <1>1 DEF N
  <2> QED
    BY <2>2, <2>3
<1>13. t # <<>>
  <2>1. ElementAt(t, e, 1)
    <3>1. 1 \in 1..Len(e)
      BY <1>3 DEF N
    <3>2. ElementAt(ColumnText(kind, e), e, 1)
      BY <1>1, <3>1, ElementsAt
    <3> QED
      BY <1>1, <3>2
  <2>2. Len(t) # 0
    BY <2>1, <1>2 DEF ElementAt
  <2> QED
    BY <2>2
<1> QED
  BY <1>1, <1>2, <1>11, <1>12, <1>13 DEF get_variants, t

-----------------------------------------------------------------------------
(* ENUM and SET *)

\* The function that as_set() computes for the bits of a mask.
Names(From, mask) ==
    From = [pos \in 0..32 |->
              CASE \A b \in mask : b < pos -> <<>>
                [] pos \in mask /\ pos < Len(get_variants) ->
                     <<get_variants[pos + 1]>> \o From[pos + 1]
                [] pos \in mask /\ pos >= Len(get_variants) -> <<>>
                [] OTHER -> From[pos + 1]]

\* The bits of the value of a field.
MaskOf == IF IsElement THEN BitsKorr(field.bytes, 1, Len(field.bytes)) ELSE {}

LEMMA AsSetIs ==
    ASSUME AsSet
    PROVE  asked' = "set" /\ answer' = (CHOOSE From : Names(From, MaskOf))[0]
BY DEF AsSet, Answer, Names, MaskOf

LEMMA NamesAre ==
    ASSUME NEW From, NEW mask, Names(From, mask), NEW pos \in 0..32
    PROVE  /\ (\A b \in mask : b < pos) => From[pos] = <<>>
           /\ Len(get_variants) \in Nat /\ pos \in mask /\ pos < Len(get_variants)
                => From[pos] = <<get_variants[pos + 1]>> \o From[pos + 1]
           /\ pos \notin mask /\ ~(\A b \in mask : b < pos) =>
                From[pos] = From[pos + 1]
<1> DEFINE Above == \A b \in mask : b < pos
           Named == pos < Len(get_variants)
           First == <<get_variants[pos + 1]>> \o From[pos + 1]
           Next1 == From[pos + 1]
<1>1. From[pos] = CASE Above -> <<>>
                    [] pos \in mask /\ Named -> First
                    [] pos \in mask /\ pos >= Len(get_variants) -> <<>>
                    [] OTHER -> Next1
  BY DEF Names
<1>2. pos \in mask => ~Above
  OBVIOUS
<1>3. Len(get_variants) \in Nat => (Named => ~(pos >= Len(get_variants)))
  OBVIOUS
<1> HIDE DEF Above, Named, First, Next1
<1> QED
  BY <1>1, <1>2, <1>3 DEF Above, Named, First, Next1

\* The names from bit pos on, with those that stand behind it.
NamesAt(mask, pos, behind) ==
    CASE \A b \in mask : b < pos -> <<>>
      [] pos \in mask /\ pos < Len(get_variants) ->
           <<get_variants[pos + 1]>> \o behind
      [] pos \in mask /\ pos >= Len(get_variants) -> <<>>
      [] OTHER -> behind

LEMMA NamesAtType ==
    ASSUME NEW T, get_variants \in Seq(Seq(T)), NEW mask, NEW pos \in 0..32,
           NEW behind \in Seq(Seq(T))
    PROVE  NamesAt(mask, pos, behind) \in Seq(Seq(T))
<1> DEFINE V == Seq(Seq(T))
           Above == \A b \in mask : b < pos
           Named == pos < Len(get_variants)
           First == <<get_variants[pos + 1]>> \o behind
<1>1. NamesAt(mask, pos, behind) =
          CASE Above -> <<>>
            [] pos \in mask /\ Named -> First
            [] pos \in mask /\ pos >= Len(get_variants) -> <<>>
            [] OTHER -> behind
  BY Zenon DEF NamesAt
<1>2. pos \in mask => ~Above
  OBVIOUS
<1>3. (Named => ~(pos >= Len(get_variants))) /\ (~Named => pos >= Len(get_variants))
  OBVIOUS
<1>4. <<>> \in V /\ behind \in V
  OBVIOUS
<1>5. Named => First \in V
  <2> SUFFICES ASSUME Named PROVE First \in V
    OBVIOUS
  <2> DEFINE x == get_variants[pos + 1]
  <2>1. x \in Seq(T)
    <3>1. pos + 1 \in 1..Len(get_variants)
      OBVIOUS
    <3> QED
      BY <3>1
  <2> HIDE DEF x
  <2>2. <<x>> \in Seq(Seq(T))
    BY <2>1
  <2>3. <<x>> \o behind \in Seq(Seq(T))
    BY <2>2, ConcatIs
  <2> QED
    BY <2>3 DEF x
<1> HIDE DEF Above, Named, First, V
<1>6. NamesAt(mask, pos, behind) \in V
  BY <1>1, <1>2, <1>3, <1>4, <1>5
<1> QED
  BY <1>6 DEF V

LEMMA LowBits ==
    ASSUME NEW mask, mask \subseteq 0..31
    PROVE  (\A b \in mask : b < 32) /\ 32 \notin mask
OBVIOUS

\* There is such a function for each mask of up to 32 bits.
LEMMA NamesExist ==
    ASSUME NEW T, get_variants \in Seq(Seq(T)), NEW mask, mask \subseteq 0..31
    PROVE  \E From : Names(From, mask)
<1> DEFINE V == Seq(Seq(T))
           G == [kv \in (0..(32 - 1)) \X V |-> NamesAt(mask, kv[1], kv[2])]
<1>1. G \in [(0..(32 - 1)) \X V -> V]
  <2>1. ASSUME NEW kv \in (0..(32 - 1)) \X V PROVE NamesAt(mask, kv[1], kv[2]) \in V
    <3>1. kv[1] \in 0..32 /\ kv[2] \in V
      <4> HIDE DEF V
      <4> QED
        OBVIOUS
    <3> QED
      BY <3>1, NamesAtType
  <2> HIDE DEF V
  <2> QED
    BY <2>1
<1>2. <<>> \in V /\ 32 \in Nat
  OBVIOUS
<1> HIDE DEF V
<1>3. \E f \in [0..32 -> V] : FollowsDown(f, <<>>, G, 32)
  <2>1. G \in StepsDown(V, 32)
    BY <1>1 DEF StepsDown
  <2> HIDE DEF G
  <2> QED
    BY <1>2, <2>1, Downward
<1>4. PICK From \in [0..32 -> V] : FollowsDown(From, <<>>, G, 32)
  BY <1>3
<1>5. ASSUME NEW pos \in 0..32 PROVE From[pos] = NamesAt(mask, pos, From[pos + 1])
  <2>1. CASE pos = 32
    <3>1. (\A b \in mask : b < pos) /\ pos \notin mask
      BY <2>1, LowBits
    <3>2. NamesAt(mask, pos, From[pos + 1]) = <<>>
      BY <3>1, Zenon DEF NamesAt
    <3> QED
      BY <1>4, <2>1, <3>2 DEF FollowsDown
  <2>2. CASE pos \in 0..(32 - 1)
    <3> DEFINE v == From[pos + 1]
    <3>1. v \in V
      <4>1. pos + 1 \in 0..32
        BY <2>2
      <4> QED
        BY <4>1
    <3>2. From[pos] = G[<<pos, v>>]
      BY <1>4, <2>2 DEF FollowsDown
    <3> HIDE DEF v
    <3>3. G[<<pos, v>>] = NamesAt(mask, pos, v)
      <4>1. <<pos, v>> \in (0..(32 - 1)) \X V
        BY <2>2, <3>1
      <4> QED
        BY <4>1
    <3> QED
      BY <3>2, <3>3 DEF v
  <2> QED
    BY <2>1, <2>2
<1>6. From = [pos \in 0..32 |-> From[pos]]
  OBVIOUS
<1>7. From = [pos \in 0..32 |-> NamesAt(mask, pos, From[pos + 1])]
  BY <1>5, <1>6
<1>8. Names(From, mask)
  BY <1>7, Zenon DEF Names, NamesAt
<1> QED
  BY <1>8

\* A mask without a bit.
LEMMA EmptySet ==
    ASSUME AsSet, ~IsElement
    PROVE  asked' = "set" /\ answer' = <<>>
<1>1. MaskOf = {}
  BY DEF MaskOf
<1>2. Names([pos \in 0..32 |-> <<>>], {})
  BY DEF Names
<1> DEFINE c == CHOOSE From : Names(From, {})
<1>3. Names(c, {})
  BY <1>2
<1> HIDE DEF c
<1>4. c[0] = <<>>
  BY <1>3, NamesAre
<1> QED
  BY <1>1, <1>4, AsSetIs DEF c

\* The value of a field whose bytes all belong to it.
Whole(type) == [type |-> type, is_null |-> FALSE, bytes |-> written.bytes]

LEMMA WholeStretch ==
    ASSUME NEW S, NEW s \in Seq(S)
    PROVE  Stretch(s, 1, Len(s)) = s
<1>1. At(s, 1, s)
  BY AtItself
<1> QED
  BY <1>1, AtStretch

LEMMA ElementBytes ==
    ASSUME SupportedElements(written)
    PROVE  LET size == written.metadata \div 256
           IN  /\ size \in 1..4
               /\ written.bytes \in Seq(Bytes) /\ Len(written.bytes) = size
<1> DEFINE size == written.metadata \div 256
<1>1. CASE written.sort = "enum"
  <2>1. size \in 1..2
    BY <1>1 DEF SupportedElements
  <2>2. PICK x \in Nat : written.bytes = LengthBytes(x, size)
    <3>1. CASE written.bytes = LengthBytes(0, size)
      BY <3>1
    <3>2. CASE Len(written.picked) = 1 /\ written.bytes = LengthBytes(written.picked[1], size)
      <4>1. written.picked \in Seq(DOMAIN written.elements)
            /\ written.elements \in Seq(Seq(STRING))
        BY DEF SupportedElements
      <4>2. DOMAIN written.elements = 1..Len(written.elements)
        BY <4>1
      <4>3. written.picked[1] \in 1..Len(written.elements) /\ Len(written.elements) \in Nat
        BY <3>2, <4>1, <4>2
      <4> QED
        BY <3>2, <4>3
    <3> QED
      BY <1>1, <3>1, <3>2 DEF SupportedElements
  <2>3. size \in 0..4
    BY <2>1
  <2> HIDE DEF size
  <2>4. size \in 1..4
    BY <2>1
  <2>5. LengthBytes(x, size) \in Seq(Bytes) /\ Len(LengthBytes(x, size)) = size
    BY <2>2, <2>3, LengthBytesAre
  <2>6. written.bytes \in Seq(Bytes) /\ Len(written.bytes) = size
    BY <2>2, <2>5
  <2> QED
    BY <2>4, <2>6 DEF size
<1>2. CASE written.sort = "set"
  <2>1. size \in 1..4
    BY <1>2 DEF SupportedElements
  <2>2. PICK bits : written.bytes = Bitmap(bits, 8 * size)
    BY <1>2 DEF SupportedElements
  <2>3. 8 * size \in Nat /\ (8 * size + 7) \div 8 = size
    BY <2>1
  <2> QED
    BY <2>1, <2>2, <2>3, BitmapIs
<1> QED
  BY <1>1, <1>2 DEF SupportedElements

LEMMA ElementField ==
    ASSUME Read, SupportedElements(written)
    PROVE  /\ field = Whole(IF written.sort = "enum" THEN "ENUM" ELSE "SET")
           /\ IsElement
<1> DEFINE size == written.metadata \div 256
           type == IF written.sort = "enum" THEN "ENUM" ELSE "SET"
<1>1. /\ size \in 1..4
      /\ written.bytes \in Seq(Bytes) /\ Len(written.bytes) = size
  BY ElementBytes
<1>2. /\ written.type = "STRING"
      /\ \/ written.sort = "enum" /\ written.metadata % 256 = ENUM_CODE
         \/ written.sort = "set" /\ written.metadata % 256 = SET_CODE
  BY DEF SupportedElements
<1>3. field = TuneString(written.bytes, 1, written.metadata,
                         calc_field_size(written.type, written.bytes, 1,
                                         written.metadata))
  BY <1>2 DEF Read, Decode, TuneValue
<1>4. \A length : TuneString(written.bytes, 1, written.metadata, length)
        = Shows(type, written.bytes, 1, size)
  BY <1>2 DEF TuneString, TypeOfCode, ENUM_CODE, SET_CODE, STRING_CODE, JSON_CODE
<1>5. Stretch(written.bytes, 1, size) = written.bytes
  <2>1. Stretch(written.bytes, 1, Len(written.bytes)) = written.bytes
    BY <1>1, WholeStretch
  <2> QED
    BY <1>1, <2>1
<1>6. field = Whole(type)
  BY <1>3, <1>4, <1>5 DEF Whole, Shows
<1>7. IsElement
  <2>1. written.bytes # <<>> /\ Len(written.bytes) >= 1 /\ Len(written.bytes) <= 4
    BY <1>1
  <2>2. field.bytes = written.bytes /\ ~field.is_null /\ field.type \in {"ENUM", "SET"}
    BY <1>6 DEF Whole
  <2> QED
    BY <2>1, <2>2 DEF IsElement, HasBytes, is_valid, is_null
<1> QED
  BY <1>6, <1>7

LEMMA ElementVariants ==
    ASSUME SupportedElements(written)
    PROVE  get_variants = written.elements
<1> DEFINE T == STRING \union Marks
           e == written.elements
<1>1. /\ e \in Seq(Seq(STRING)) /\ e # <<>> /\ written.sort \in {"enum", "set"}
      /\ \A k \in DOMAIN e : \A j \in DOMAIN e[k] : e[k][j] # "'"
      /\ written.text = ColumnText(written.sort, e)
  BY DEF SupportedElements
<1>2. e \in Seq(Seq(T)) /\ \A k \in 1..Len(e) : \A j \in 1..Len(e[k]) : e[k][j] # "'"
  <2>1. ASSUME NEW k \in 1..Len(e)
        PROVE  e[k] \in Seq(T) /\ \A j \in 1..Len(e[k]) : e[k][j] # "'"
    <3>1. k \in DOMAIN e /\ e[k] \in Seq(STRING)
      BY <1>1
    <3> DEFINE w == e[k]
    <3>2. DOMAIN w = 1..Len(w) /\ w \in Seq(STRING)
      BY <3>1
    <3>3. STRING \subseteq T
      OBVIOUS
    <3> HIDE DEF T
    <3>4. w \in Seq(T)
      <4> HIDE DEF w
      <4> QED
        BY <3>2, <3>3, SeqOfMore
    <3> QED
      BY <1>1, <3>1, <3>2, <3>4
  <2> DEFINE U == Seq(T)
  <2>2. Len(e) \in Nat /\ e = [k \in 1..Len(e) |-> e[k]]
    BY <1>1
  <2>3. \A k \in 1..Len(e) : e[k] \in U
    BY <2>1
  <2> HIDE DEF e, U, T
  <2>4. e \in Seq(U)
    BY <2>2, <2>3
  <2> QED
    BY <2>1, <2>4 DEF U
<1>3. Marks \subseteq T /\ written.sort \in T
  BY <1>1 DEF Marks
<1>4. MadeOf(T, written.sort, e)
  <2> HIDE DEF T, e
  <2>1. e # <<>> /\ written.text = ColumnText(written.sort, e)
    BY <1>1 DEF e
  <2> QED
    BY <1>1, <1>2, <1>3, <2>1 DEF MadeOf
<1> QED
  BY <1>4, VariantsFound

LEMMA EnumAnswer ==
    ASSUME Read, SupportedElements(written), written.sort = "enum", AsEnum
    PROVE  answer' = written.means
<1> DEFINE size == written.metadata \div 256
           e == written.elements
<1>1. /\ size \in 1..4
      /\ written.bytes \in Seq(Bytes) /\ Len(written.bytes) = size
  BY ElementBytes
<1>2. field.bytes = written.bytes /\ IsElement
  BY ElementField DEF Whole
<1>3. get_variants = e /\ e \in Seq(Seq(STRING)) /\ Len(e) \in Nat /\ Len(e) < 256^size
      /\ DOMAIN e = 1..Len(e)
  <2>1. e \in Seq(Seq(STRING)) /\ Len(e) < 256^size
    BY DEF SupportedElements
  <2> QED
    BY <2>1, ElementVariants
<1> DEFINE n == UintKorr(written.bytes, 1, size)
<1>4. answer' = IF n \in DOMAIN get_variants THEN get_variants[n] ELSE <<>>
  BY <1>1, <1>2 DEF AsEnum, Answer, Korr
<1>5. ASSUME NEW x \in Nat, x <= Len(e), written.bytes = LengthBytes(x, size)
      PROVE  n = x
  <2>1. At(written.bytes, 1, LengthBytes(x, size))
    BY <1>1, <1>5, AtItself
  <2>2. x < 256^size
    <3>1. 256^size \in Int
      BY <1>1
    <3> QED
      BY <1>3, <1>5, <3>1
  <2>3. size \in 0..4 /\ written.bytes \in Seq(Bytes)
    BY <1>1
  <2> HIDE DEF size
  <2> QED
    BY <2>1, <2>2, <2>3, NumberAt
<1>6. CASE /\ written.picked = <<>> /\ written.means = <<>>
           /\ written.bytes = LengthBytes(0, size)
  <2>1. n = 0
    BY <1>3, <1>5, <1>6
  <2> HIDE DEF n
  <2>2. n \notin DOMAIN get_variants
    BY <1>3, <2>1
  <2> QED
    BY <1>4, <1>6, <2>2
<1>7. CASE /\ Len(written.picked) = 1 /\ written.means = e[written.picked[1]]
           /\ written.bytes = LengthBytes(written.picked[1], size)
  <2> DEFINE x == written.picked[1]
  <2>1. x \in 1..Len(e)
    <3>1. written.picked \in Seq(1..Len(e))
      BY <1>3 DEF SupportedElements
    <3> QED
      BY <1>7, <3>1
  <2>2. n = x
    <3> HIDE DEF n
    <3> QED
      BY <1>3, <1>5, <1>7, <2>1
  <2> HIDE DEF n, x, e
  <2>3. n \in DOMAIN get_variants /\ get_variants[n] = e[x]
    BY <1>3, <2>1, <2>2
  <2> QED
    BY <1>4, <1>7, <2>3 DEF x
<1> QED
  BY <1>6, <1>7 DEF SupportedElements

\* The elements of the mask from bit pos on are those from the j-th on.
Splits(picked, pos, j) ==
    /\ \A k \in 1..(j - 1) : picked[k] - 1 < pos
    /\ \A k \in j..Len(picked) : picked[k] - 1 >= pos

\* The elements that are picked.
Picks(e, picked) == [k \in 1..Len(picked) |-> e[picked[k]]]

\* What a SET with these elements has picked.
Picked(e, picked) ==
    /\ picked \in Seq(1..Len(e)) /\ Len(e) \in 0..32
    /\ \A j, k \in 1..Len(picked) : j < k => picked[j] < picked[k]

LEMMA NamesGive ==
    ASSUME NEW T, NEW e \in Seq(Seq(T)), NEW picked, Picked(e, picked), get_variants = e,
           NEW From, Names(From, {picked[k] - 1 : k \in 1..Len(picked)})
    PROVE  From[0] = Picks(e, picked)
<1> DEFINE n == Len(picked)
           mask == {picked[k] - 1 : k \in 1..Len(picked)}
           p == Picks(e, picked)
           Gives(pos) == \A j \in 1..(n + 1) :
               Splits(picked, pos, j) => From[pos] = ElementsFrom(p, j)
           S == {m \in Nat : m <= 32 => Gives(32 - m)}
<1>1. /\ n \in Nat /\ Len(e) \in 0..32
      /\ \A k \in 1..n : picked[k] \in 1..Len(e)
      /\ \A j, k \in 1..n : j < k => picked[j] < picked[k]
  BY DEF Picked
<1>2. /\ p \in Seq(Seq(T)) /\ Len(p) = n /\ \A k \in 1..n : p[k] = e[picked[k]]
  BY <1>1 DEF Picks
<1>3. \A pos \in 0..32 : pos \in mask <=> \E k \in 1..n : picked[k] - 1 = pos
  OBVIOUS
<1>4. \A b \in mask : \E k \in 1..n : b = picked[k] - 1
  OBVIOUS
<1>5. Names(From, mask)
  OBVIOUS
<1>6. \A k \in 1..n : picked[k] - 1 \in mask
  OBVIOUS
<1> HIDE DEF mask, p, n
<1>7. ASSUME NEW k \in 1..n
      PROVE  /\ picked[k] \in Int /\ picked[k] - 1 + 1 = picked[k]
             /\ picked[k] - 1 < Len(e) /\ picked[k] - 1 < 32
  <2> DEFINE x == picked[k]
             l == Len(e)
  <2>1. x \in 1..l /\ l \in 0..32
    BY <1>1
  <2> HIDE DEF x, l
  <2>2. x \in Int /\ x - 1 + 1 = x
    BY <2>1
  <2>3. x - 1 < l /\ x - 1 < 32
    BY <2>1
  <2> QED
    BY <2>2, <2>3 DEF x, l
<1>8. ASSUME NEW pos \in 0..32, pos < 32 => Gives(pos + 1) PROVE Gives(pos)
  <2> SUFFICES ASSUME NEW j \in 1..(n + 1), Splits(picked, pos, j)
               PROVE  From[pos] = ElementsFrom(p, j)
    OBVIOUS
  <2>1. /\ (\A b \in mask : b < pos) => From[pos] = <<>>
        /\ Len(get_variants) \in Nat /\ pos \in mask /\ pos < Len(get_variants)
             => From[pos] = <<get_variants[pos + 1]>> \o From[pos + 1]
        /\ pos \notin mask /\ ~(\A b \in mask : b < pos) =>
             From[pos] = From[pos + 1]
    BY <1>5, NamesAre
  <2>2. /\ \A k \in 1..(j - 1) : picked[k] - 1 < pos
        /\ \A k \in j..n : picked[k] - 1 >= pos
    BY DEF Splits, n
  <2>3. CASE j = n + 1
    <3>1. ASSUME NEW b \in mask PROVE b < pos
      <4>1. PICK k \in 1..n : b = picked[k] - 1
        BY <1>4
      <4>2. k \in 1..(j - 1)
        BY <1>1, <2>3
      <4> QED
        BY <2>2, <4>1, <4>2
    <3>2. From[pos] = <<>>
      BY <2>1, <3>1
    <3>3. ElementsFrom(p, n + 1) = <<>>
      BY <1>1, <1>2 DEF ElementsFrom
    <3> QED
      BY <2>3, <3>2, <3>3
  <2>4. CASE j \in 1..n /\ picked[j] - 1 = pos
    <3>1. pos \in mask /\ pos < Len(e) /\ pos + 1 = picked[j]
          /\ pos < 32 /\ Len(e) \in Nat
      BY <1>1, <1>7, <1>6, <2>4
    <3>2. Splits(picked, pos + 1, j + 1)
      <4>1. ASSUME NEW k \in 1..(j + 1 - 1) PROVE picked[k] - 1 < pos + 1
        <5>1. k \in 1..n /\ (k = j \/ k \in 1..(j - 1))
          BY <1>1, <2>4
        <5>2. picked[k] \in Int
          BY <1>1, <5>1
        <5> QED
          BY <2>2, <2>4, <5>1, <5>2
      <4>2. ASSUME NEW k \in (j + 1)..n PROVE picked[k] - 1 >= pos + 1
        <5>1. k \in 1..n /\ j < k
          BY <1>1, <2>4
        <5>2. picked[k] \in Int /\ picked[j] \in Int /\ picked[j] < picked[k]
          BY <1>1, <2>4, <5>1
        <5> QED
          BY <2>4, <5>2
      <4> QED
        BY <4>1, <4>2 DEF Splits, n
    <3>3. From[pos + 1] = ElementsFrom(p, j + 1)
      <4>1. j + 1 \in 1..(n + 1)
        BY <1>1, <2>4
      <4> QED
        BY <1>8, <3>1, <3>2, <4>1
    <3>4. From[pos] = <<e[pos + 1]>> \o From[pos + 1]
      BY <2>1, <3>1
    <3>5. p[j] = e[pos + 1]
      BY <1>2, <2>4, <3>1
    <3>6. <<p[j]>> \o ElementsFrom(p, j + 1) = ElementsFrom(p, j)
      BY <1>2, <2>4, ElementsFromNext
    <3> QED
      BY <3>3, <3>4, <3>5, <3>6
  <2>5. CASE j \in 1..n /\ picked[j] - 1 # pos
    <3>1. picked[j] - 1 > pos /\ picked[j] - 1 < 32 /\ picked[j] - 1 \in mask
      <4>1. picked[j] - 1 >= pos
        <5>1. j \in j..n
          BY <1>1, <2>5
        <5> QED
          BY <2>2, <5>1
      <4> QED
        BY <1>7, <1>6, <2>5, <4>1
    <3>2. pos \notin mask
      <4> SUFFICES ASSUME NEW k \in 1..n, picked[k] - 1 = pos PROVE FALSE
        BY <1>3
      <4>1. k \in j..n
        BY <1>1, <2>2, <2>5
      <4>2. k = j \/ picked[j] < picked[k]
        BY <1>1, <2>5, <4>1
      <4>3. picked[k] \in Int /\ picked[j] \in Int
        BY <1>1, <2>5
      <4> QED
        BY <3>1, <4>2, <4>3
    <3>3. ~(\A b \in mask : b < pos)
      <4>1. picked[j] \in Int
        BY <1>1, <2>5
      <4> QED
        BY <3>1, <4>1
    <3>4. From[pos] = From[pos + 1]
      BY <2>1, <3>2, <3>3
    <3>5. Splits(picked, pos + 1, j)
      <4>1. ASSUME NEW k \in 1..(j - 1) PROVE picked[k] - 1 < pos + 1
        <5>1. picked[k] \in Int /\ picked[k] - 1 < pos
          BY <1>1, <2>2, <2>5
        <5> QED
          BY <5>1
      <4>2. ASSUME NEW k \in j..n PROVE picked[k] - 1 >= pos + 1
        <5>1. k \in 1..n /\ picked[k] \in Int /\ picked[j] \in Int
              /\ (k = j \/ picked[j] < picked[k])
          BY <1>1, <2>5
        <5> QED
          BY <3>1, <5>1
      <4> QED
        BY <4>1, <4>2 DEF Splits, n
    <3>6. pos < 32
      <4>1. picked[j] \in Int
        BY <1>1, <2>5
      <4> QED
        BY <3>1, <4>1
    <3> QED
      BY <1>8, <3>4, <3>5, <3>6
  <2> QED
    BY <1>1, <2>3, <2>4, <2>5
<1> HIDE DEF Gives
<1>9. 0 \in S
  <2>1. 32 \in 0..32 /\ ~(32 < 32) /\ 32 - 0 = 32
    OBVIOUS
  <2> QED
    BY <1>8, <2>1
<1>10. ASSUME NEW m \in Nat, m \in S PROVE m + 1 \in S
  <2> SUFFICES ASSUME m + 1 <= 32 PROVE Gives(32 - (m + 1))
    OBVIOUS
  <2> DEFINE pos == 32 - (m + 1)
  <2>1. pos \in 0..32 /\ pos + 1 = 32 - m /\ m <= 32
    OBVIOUS
  <2>2. Gives(pos + 1)
    BY <1>10, <2>1
  <2> HIDE DEF pos
  <2>3. Gives(pos)
    BY <1>8, <2>1, <2>2
  <2> QED
    BY <2>3 DEF pos
<1>11. Gives(0)
  <2>1. 32 \in S
    <3> HIDE DEF S
    <3> QED
      BY <1>9, <1>10, NatSetInduction
  <2>2. 32 <= 32 /\ 32 - 32 = 0
    OBVIOUS
  <2> QED
    BY <2>1, <2>2
<1>12. From[0] = ElementsFrom(p, 1)
  <2>1. Splits(picked, 0, 1)
    <3>1. \A k \in 1..n : picked[k] - 1 >= 0
      BY <1>1
    <3> QED
      BY <3>1 DEF Splits, n
  <2>2. 1 \in 1..(n + 1)
    BY <1>1
  <2> QED
    BY <1>11, <2>1, <2>2 DEF Gives
<1>13. ElementsFrom(p, 1) = p
  <2>1. n + 1 - 1 = n /\ \A j \in 1..n : 1 + j - 1 = j
    BY <1>1
  <2>2. ElementsFrom(p, 1) = [j \in 1..n |-> p[j]]
    BY <1>2, <2>1 DEF ElementsFrom
  <2>3. p = [j \in 1..n |-> p[j]]
    BY <1>2
  <2> QED
    BY <2>2, <2>3
<1> QED
  BY <1>12, <1>13 DEF p

LEMMA SetAnswer ==
    ASSUME Read, SupportedElements(written), written.sort = "set", AsSet
    PROVE  answer' = written.means
<1> DEFINE size == written.metadata \div 256
           e == written.elements
           picked == written.picked
           bits == {picked[k] - 1 : k \in DOMAIN picked}
<1>1. /\ size \in 1..4
      /\ written.bytes \in Seq(Bytes) /\ Len(written.bytes) = size
  BY ElementBytes
<1>2. field.bytes = written.bytes /\ IsElement
  BY ElementField DEF Whole
<1>3. /\ e \in Seq(Seq(STRING)) /\ picked \in Seq(DOMAIN e)
      /\ Len(e) <= 8 * size
      /\ \A j, k \in DOMAIN picked : j < k => picked[j] < picked[k]
      /\ written.bytes = Bitmap(bits, 8 * size)
      /\ written.means = [k \in DOMAIN picked |-> e[picked[k]]]
  BY DEF SupportedElements
<1>4. get_variants = e
  BY ElementVariants
<1>5. Len(e) \in Nat /\ DOMAIN e = 1..Len(e) /\ DOMAIN picked = 1..Len(picked)
  BY <1>3
<1>6. Picked(e, picked)
  <2> DEFINE l == Len(e)
             d == DOMAIN picked
  <2>1. l \in Nat /\ l <= 8 * size
    BY <1>3, <1>5
  <2> HIDE DEF l, size
  <2>2. l \in 0..32
    BY <1>1, <2>1
  <2> HIDE DEF e, picked
  <2> QED
    BY <1>3, <1>5, <2>2 DEF Picked, l
<1>7. ASSUME NEW k \in 1..Len(picked)
      PROVE  picked[k] - 1 \in 0..(8 * size - 1) /\ picked[k] - 1 \in 0..31
  <2> DEFINE x == picked[k]
             l == Len(e)
             d == DOMAIN e
  <2>1. l \in Nat /\ l <= 8 * size /\ d = 1..l /\ picked \in Seq(d)
    BY <1>3, <1>5
  <2> HIDE DEF l, size, d, picked
  <2>2. x \in d
    BY <2>1
  <2>3. x \in 1..l
    BY <2>1, <2>2
  <2> HIDE DEF x
  <2>4. x - 1 \in 0..(8 * size - 1) /\ x - 1 \in 0..31
    BY <1>1, <2>1, <2>3
  <2> QED
    BY <2>4 DEF x
<1>8. bits = {picked[k] - 1 : k \in 1..Len(picked)}
  BY <1>5
<1>9. bits \subseteq 0..(8 * size - 1) /\ bits \subseteq 0..31
  BY <1>7, <1>8, ZenonT(40)
<1>10. MaskOf = bits
  <2>1. MaskOf = BitsKorr(written.bytes, 1, size)
    BY <1>1, <1>2 DEF MaskOf
  <2>2. At(written.bytes, 1, Bitmap(bits, 8 * size))
    <3>1. At(written.bytes, 1, written.bytes)
      BY <1>1, AtItself
    <3> QED
      BY <1>3, <3>1
  <2> HIDE DEF size, bits
  <2>3. 8 * size \in Nat /\ (8 * size + 7) \div 8 = size
    BY <1>1
  <2>4. BitsKorr(written.bytes, 1, (8 * size + 7) \div 8) = bits
    BY <1>9, <2>2, <2>3, BitsAt
  <2> QED
    BY <2>1, <2>3, <2>4
<1> HIDE DEF size, bits, picked, e
<1> DEFINE c == CHOOSE From : Names(From, bits)
<1>11. Names(c, bits)
  <2>1. \E From : Names(From, bits)
    BY <1>3, <1>4, <1>9, NamesExist
  <2> QED
    BY <2>1
<1>12. answer' = c[0]
  BY <1>10, AsSetIs
<1> HIDE DEF c
<1>13. c[0] = Picks(e, picked)
  BY <1>3, <1>4, <1>6, <1>8, <1>11, NamesGive
<1>14. written.means = Picks(e, picked)
  BY <1>3, <1>5 DEF Picks
<1> QED
  BY <1>12, <1>13, <1>14

\* What sort of field it is says which type it has and how it is written.
LEMMA SortOf ==
    ASSUME NEW f, SupportedField(f)
    PROVE  \/ f.sort = "date" /\ f.type = "DATE" /\ SupportedDate(f)
           \/ f.sort = "time" /\ f.type = "TIME" /\ SupportedTime(f)
           \/ f.sort = "datetime" /\ f.type = "DATETIME" /\ SupportedDatetime(f)
           \/ f.sort = "timestamp" /\ f.type = "TIMESTAMP2" /\ SupportedTimestamp(f)
           \/ f.sort = "year" /\ f.type = "YEAR" /\ SupportedYear(f)
           \/ f.sort = "decimal" /\ f.type = "NEWDECIMAL" /\ SupportedDecimal(f)
           \/ f.sort \in {"enum", "set"} /\ SupportedElements(f)
           \/ f.sort = "null"
           \/ f.sort \in {"int", "double", "varchar"}
                /\ f.type \in {"TINY", "SHORT", "INT24", "LONG", "LONGLONG",
                               "FLOAT", "DOUBLE", "VARCHAR", "BLOB"}
<1>1. CASE SupportedTemporal(f)
  <2>1. SupportedDate(f) => f.sort = "date" /\ f.type = "DATE"
    BY Zenon DEF SupportedDate
  <2>2. SupportedTime(f) => f.sort = "time" /\ f.type = "TIME"
    BY Zenon DEF SupportedTime
  <2>3. SupportedDatetime(f) => f.sort = "datetime" /\ f.type = "DATETIME"
    BY DEF SupportedDatetime
  <2>4. SupportedTimestamp(f) => f.sort = "timestamp" /\ f.type = "TIMESTAMP2"
    BY Zenon DEF SupportedTimestamp
  <2>5. SupportedYear(f) => f.sort = "year" /\ f.type = "YEAR"
    BY DEF SupportedYear
  <2> QED
    BY <1>1, <2>1, <2>2, <2>3, <2>4, <2>5 DEF SupportedTemporal
<1>2. CASE SupportedDecimal(f)
  <2>1. f.sort = "decimal" /\ f.type = "NEWDECIMAL"
    BY <1>2, Zenon DEF SupportedDecimal
  <2> QED
    BY <1>2, <2>1
<1>3. CASE SupportedElements(f)
  <2>1. f.sort \in {"enum", "set"}
    BY <1>3, Zenon DEF SupportedElements
  <2> QED
    BY <1>3, <2>1
<1>4. CASE SupportedOther(f)
  BY <1>4 DEF SupportedOther
<1> QED
  BY <1>1, <1>2, <1>3, <1>4, Zenon DEF SupportedField

LEMMA NoElements ==
    ASSUME FieldsSupported, Read, written.sort \notin {"enum", "set"}
    PROVE  ~IsElement
<1>1. SupportedField(written)
  BY DEF FieldsSupported, Read
<1>2. CASE written.sort = "null"
  BY <1>2, NullHasNoBytes DEF IsElement
<1>3. CASE written.sort # "null"
  <2>1. \/ written.type \in {"DATE", "TIME", "DATETIME", "TIMESTAMP2", "YEAR",
                             "NEWDECIMAL"}
        \/ written.type \in {"TINY", "SHORT", "INT24", "LONG", "LONGLONG", "FLOAT",
                             "DOUBLE", "VARCHAR", "BLOB"}
    BY <1>1, <1>3, SortOf
  <2>2. field.type = written.type
    BY <1>3, <2>1 DEF Read, Decode, TuneValue, Shows, NullValue
  <2> QED
    BY <2>1, <2>2 DEF IsElement
<1> QED
  BY <1>2, <1>3

LEMMA ElementsStep ==
    ASSUME FieldsSupported, Read, ElementsAsWritten, [Next]_vars
    PROVE  ElementsAsWritten'
<1>1. written' = written
  BY CallsChangeNothing
<1>2. SupportedField(written)
  BY DEF FieldsSupported, Read
<1>3. written.sort \in {"enum", "set"} => SupportedElements(written)
  BY <1>2, SortOf
<1>4. CASE UNCHANGED vars
  BY <1>4 DEF vars, ElementsAsWritten
<1>5. CASE AsEnum
  <2>1. asked' = "enum"
    BY <1>5 DEF AsEnum, Answer
  <2>2. CASE written.sort = "enum"
    BY <1>1, <1>3, <1>5, <2>1, <2>2, EnumAnswer DEF ElementsAsWritten
  <2>3. CASE written.sort \notin {"enum", "set"}
    <3>1. ~IsElement
      BY <2>3, NoElements
    <3>2. 0 \notin DOMAIN get_variants
      <4>1. get_variants \in Seq(Seq(STRING))
        BY <1>2, GetVariantsType DEF SupportedField
      <4> QED
        BY <4>1
    <3> QED
      BY <1>1, <1>5, <2>1, <2>3, <3>1, <3>2 DEF AsEnum, Answer, ElementsAsWritten
  <2>4. CASE written.sort = "set"
    BY <1>1, <2>1, <2>4 DEF ElementsAsWritten
  <2> QED
    BY <2>2, <2>3, <2>4
<1>6. CASE AsSet
  <2>1. asked' = "set"
    BY <1>6, AsSetIs
  <2>2. CASE written.sort = "set"
    BY <1>1, <1>3, <1>6, <2>1, <2>2, SetAnswer DEF ElementsAsWritten
  <2>3. CASE written.sort \notin {"enum", "set"}
    BY <1>1, <1>6, <2>1, <2>3, NoElements, EmptySet DEF ElementsAsWritten
  <2>4. CASE written.sort = "enum"
    BY <1>1, <2>1, <2>4 DEF ElementsAsWritten
  <2> QED
    BY <2>2, <2>3, <2>4
<1>7. CASE Next /\ ~AsEnum /\ ~AsSet
  <2>1. asked' \notin {"enum", "set"}
    BY <1>7 DEF Next, Answer, AsInt, AsBoolean, AsDouble, AsString,
                DecimalAsString, AsBlob, AsTimestamp, AsYear, AsDate, AsTime,
                AsDatetime
  <2> QED
    BY <2>1 DEF ElementsAsWritten
<1> QED
  BY <1>4, <1>5, <1>6, <1>7

\* The names of the elements of an ENUM or a SET are found from the bytes of
\* the field and the text of its column: those that were written, for any
\* elements without a quote and any number of them, and none for any other type.
THEOREM ElementsReadAsWritten ==
    ASSUME FieldsSupported
    PROVE  Spec => []ElementsAsWritten
<1>1. Init => Read /\ ElementsAsWritten
  BY ReadInit DEF Init, ElementsAsWritten
<1>2. Read /\ ElementsAsWritten /\ [Next]_vars => (Read /\ ElementsAsWritten)'
  BY ReadStep, ElementsStep
<1> QED
  BY <1>1, <1>2, PTL DEF Spec

-----------------------------------------------------------------------------
(* DATE, TIME, DATETIME, TIMESTAMP and YEAR *)

\* A value of a type with a size of its own, and of none that has a length in
\* front, is all its bytes.
LEMMA FixedField ==
    ASSUME Read, written.sort # "null",
           written.type \in {"DATE", "TIME", "DATETIME", "TIMESTAMP2", "YEAR"},
           written.bytes \in Seq(Bytes),
           Len(written.bytes) = FixedSize[written.type]
    PROVE  field = Whole(written.type)
<1>1. /\ written.type \in DOMAIN FixedSize
      /\ written.type \notin {"STRING", "VARCHAR", "BLOB"}
  BY DEF FixedSize
<1>2. calc_field_size(written.type, written.bytes, 1, written.metadata)
        = FixedSize[written.type]
  BY <1>1, Zenon DEF calc_field_size
<1>3. \A n : TuneValue(written.type, written.bytes, 1, written.metadata, n)
        = Shows(written.type, written.bytes, 1, n)
  BY <1>1 DEF TuneValue
<1>4. field = Shows(written.type, written.bytes, 1, Len(written.bytes))
  BY <1>2, <1>3 DEF Read, Decode
<1> QED
  BY <1>4, WholeStretch DEF Shows, Whole

LEMMA WholeHasBytes ==
    ASSUME field = Whole(written.type), written.type # "NULL",
           NEW n \in Nat, written.bytes \in Seq(Bytes), Len(written.bytes) = n, n > 0
    PROVE  HasBytes(n) /\ field.bytes = written.bytes /\ field.type = written.type
<1>1. field.bytes = written.bytes /\ ~field.is_null /\ field.type = written.type
  BY DEF Whole
<1>2. written.bytes # <<>> /\ Len(written.bytes) >= n
  OBVIOUS
<1> QED
  BY <1>1, <1>2 DEF HasBytes, is_null, is_valid

\* Three bytes with the lowest first.
LEMMA ThreeBytes ==
    ASSUME NEW x \in Nat, x < 256^3, written.bytes = LengthBytes(x, 3)
    PROVE  /\ written.bytes \in Seq(Bytes) /\ Len(written.bytes) = 3
           /\ UintKorr(written.bytes, 1, 3) = x
<1>1. 3 \in 0..4
  OBVIOUS
<1>2. written.bytes \in Seq(Bytes) /\ Len(written.bytes) = 3
  BY <1>1, LengthBytesAre
<1>3. At(written.bytes, 1, LengthBytes(x, 3))
  BY <1>2, AtItself
<1> QED
  BY <1>1, <1>2, <1>3, NumberAt

\* A number of three bytes is this date, or this time.
HasDate(n, y, m, d) ==
    /\ n \in Nat /\ n < 256^3
    /\ n \div 512 = y /\ (n \div 32) % 16 = m /\ n % 32 = d

HasTime(n, h, m, s) ==
    /\ n \in Nat /\ n < 256^3
    /\ (n \div 10000) % 256 = h /\ (n % 10000) \div 100 = m /\ n % 100 = s

LEMMA DateNumber ==
    ASSUME NEW y \in Nat, y <= LastYear, NEW m \in 0..12, NEW d \in 0..31,
           NEW n, n = y * 512 + m * 32 + d
    PROVE  HasDate(n, y, m, d)
<1>1. y <= 9999 /\ m \in Nat /\ m <= 12 /\ d \in Nat /\ d <= 31
  BY DEF LastYear
<1>2. n \in Nat /\ n < 16777216
  BY <1>1, SMT
<1>3. n \div 512 = y
  BY <1>1, SMT
<1>4. n \div 32 = 16 * y + m /\ n % 32 = d
  BY <1>1, SMT
<1>5. (16 * y + m) % 16 = m
  BY <1>1, SMT
<1> QED
  BY <1>2, <1>3, <1>4, <1>5, Powers, SMT DEF HasDate

LEMMA TimeNumber ==
    ASSUME NEW h \in Bytes, NEW m \in Nat, m <= 59, NEW s \in Nat, s <= 59,
           NEW n, n = h * 10000 + m * 100 + s
    PROVE  HasTime(n, h, m, s)
<1>1. h \in Nat /\ h < 256
  BY SMT DEF Bytes
<1>2. n \in Nat /\ n < 16777216
  BY <1>1, SMT
<1>3. /\ n \div 10000 = h /\ n % 10000 = m * 100 + s
      /\ (m * 100 + s) \div 100 = m /\ n % 100 = s
  BY <1>1, SMT
<1>4. h % 256 = h
  BY <1>1, SMT
<1>5. (n \div 10000) % 256 = h /\ (n % 10000) \div 100 = m /\ n % 100 = s
  <2> DEFINE q == n \div 10000
             r == n % 10000
             z == m * 100 + s
  <2>1. q = h /\ r = z /\ z \div 100 = m
    BY <1>3
  <2> HIDE DEF q, r, z
  <2>2. q % 256 = h /\ r \div 100 = m
    BY <1>4, <2>1
  <2> QED
    BY <1>3, <2>2 DEF q, r
<1> QED
  BY <1>2, <1>5, Powers, SMT DEF HasTime

LEMMA DateAnswer ==
    ASSUME Read, SupportedDate(written), AsDate
    PROVE  answer' = written.means
<1> DEFINE v == written.means
           n == v.y * 512 + v.m * 32 + v.d
<1>1. /\ v \in Dates /\ written.bytes = LengthBytes(n, 3)
      /\ written.sort = "date" /\ written.type = "DATE"
  BY DEF SupportedDate, StoredDate
<1>2. /\ v.y \in Nat /\ v.y <= LastYear /\ v.m \in 0..12 /\ v.d \in 0..31
      /\ v = [y |-> v.y, m |-> v.m, d |-> v.d]
  <2> HIDE DEF v
  <2>1. v.y \in 0..LastYear /\ v.m \in 0..12 /\ v.d \in 0..31
        /\ v = [y |-> v.y, m |-> v.m, d |-> v.d]
    BY <1>1 DEF Dates
  <2> QED
    BY <2>1
<1>3. /\ n \in Nat /\ n < 256^3
      /\ n \div 512 = v.y /\ (n \div 32) % 16 = v.m /\ n % 32 = v.d
  <2> DEFINE y == v.y
             m == v.m
             d == v.d
  <2>1. n = y * 512 + m * 32 + d
    OBVIOUS
  <2>2. y \in Nat /\ y <= LastYear /\ m \in 0..12 /\ d \in 0..31
    BY <1>2
  <2> HIDE DEF n, y, m, d
  <2>3. HasDate(n, y, m, d)
    BY <2>1, <2>2, DateNumber
  <2>4. /\ n \in Nat /\ n < 256^3
        /\ n \div 512 = y /\ (n \div 32) % 16 = m /\ n % 32 = d
    BY <2>3 DEF HasDate
  <2> QED
    BY <2>4 DEF y, m, d
<1> HIDE DEF n, v
<1>4. /\ written.bytes \in Seq(Bytes) /\ Len(written.bytes) = 3
      /\ UintKorr(written.bytes, 1, 3) = n
  BY <1>1, <1>3, ThreeBytes
<1>5. field = Whole(written.type)
  <2>1. FixedSize["DATE"] = 3
    BY DEF FixedSize
  <2> QED
    BY <1>1, <1>4, <2>1, FixedField
<1>6. HasBytes(3) /\ field.bytes = written.bytes
  <2>1. 3 \in Nat /\ 3 > 0 /\ written.type # "NULL"
    BY <1>1
  <2>2. written.bytes \in Seq(Bytes) /\ Len(written.bytes) = 3
    BY <1>4
  <2> QED
    BY <1>5, <2>1, <2>2, WholeHasBytes
<1>7. answer' = DateOf(n)
  BY <1>4, <1>6 DEF AsDate, Answer, Korr
<1>8. DateOf(n) = v
  BY <1>2, <1>3 DEF DateOf, Date
<1> QED
  BY <1>7, <1>8 DEF v

LEMMA TimeOfNumber ==
    ASSUME NEW v \in Times
    PROVE  LET n == v.h * 10000 + v.m * 100 + v.s
           IN  n \in Nat /\ n < 256^3 /\ TimeOf(n) = v
<1> DEFINE n == v.h * 10000 + v.m * 100 + v.s
<1>1. /\ v.h \in Bytes /\ v.m \in 0..59 /\ v.s \in 0..59
      /\ v = [h |-> v.h, m |-> v.m, s |-> v.s]
  BY DEF Times, Bytes
<1>2. /\ n \in Nat /\ n < 256^3 /\ (n \div 10000) % 256 = v.h
      /\ (n % 10000) \div 100 = v.m /\ n % 100 = v.s
  <2> DEFINE h == v.h
             m == v.m
             s == v.s
  <2>1. n = h * 10000 + m * 100 + s
    OBVIOUS
  <2>2. h \in Bytes /\ m \in Nat /\ m <= 59 /\ s \in Nat /\ s <= 59
    BY <1>1
  <2> HIDE DEF n, h, m, s
  <2>3. HasTime(n, h, m, s)
    BY <2>1, <2>2, TimeNumber
  <2>4. /\ n \in Nat /\ n < 256^3 /\ (n \div 10000) % 256 = h
        /\ (n % 10000) \div 100 = m /\ n % 100 = s
    BY <2>3 DEF HasTime
  <2> QED
    BY <2>4 DEF h, m, s
<1>3. 2^8 = 256
  BY SMT
<1> HIDE DEF n
<1>4. TimeOf(n) = v
  BY <1>1, <1>2, <1>3 DEF TimeOf, Time
<1> QED
  BY <1>2, <1>4 DEF n

LEMMA TimeAnswer ==
    ASSUME Read, SupportedTime(written), AsTime
    PROVE  answer' = written.means
<1> DEFINE v == written.means
           n == v.h * 10000 + v.m * 100 + v.s
<1>1. /\ v \in Times /\ written.bytes = LengthBytes(n, 3)
      /\ written.sort = "time" /\ written.type = "TIME"
  BY DEF SupportedTime, StoredTime
<1>2. n \in Nat /\ n < 256^3 /\ TimeOf(n) = v
  BY <1>1, TimeOfNumber
<1> HIDE DEF n, v
<1>3. /\ written.bytes \in Seq(Bytes) /\ Len(written.bytes) = 3
      /\ UintKorr(written.bytes, 1, 3) = n
  BY <1>1, <1>2, ThreeBytes
<1>4. field = Whole(written.type)
  <2>1. FixedSize["TIME"] = 3
    BY DEF FixedSize
  <2> QED
    BY <1>1, <1>3, <2>1, FixedField
<1>5. HasBytes(3) /\ field.bytes = written.bytes
  <2>1. 3 \in Nat /\ 3 > 0 /\ written.type # "NULL"
    BY <1>1
  <2>2. written.bytes \in Seq(Bytes) /\ Len(written.bytes) = 3
    BY <1>3
  <2> QED
    BY <1>4, <2>1, <2>2, WholeHasBytes
<1>6. answer' = TimeOf(n)
  BY <1>3, <1>5 DEF AsTime, Answer, Korr
<1> QED
  BY <1>2, <1>6 DEF v

LEMMA TimestampAnswer ==
    ASSUME Read, SupportedTimestamp(written), AsTimestamp
    PROVE  answer' = written.means
<1> DEFINE v == written.means
<1>1. /\ v \in Seq(Bytes) /\ Len(v) = 4 /\ written.bytes = Reverse(v)
      /\ written.sort = "timestamp" /\ written.type = "TIMESTAMP2"
  BY DEF SupportedTimestamp, Bytes
<1> HIDE DEF v
<1>2. /\ written.bytes \in Seq(Bytes) /\ Len(written.bytes) = 4
      /\ \A k \in 1..4 : written.bytes[5 - k] = v[k]
  <2>1. Reverse(v) = [i \in 1..4 |-> v[(4 - i) + 1]]
    BY <1>1 DEF Reverse
  <2>2. written.bytes = Reverse(v)
    BY <1>1
  <2>3. written.bytes = [i \in 1..4 |-> v[(4 - i) + 1]]
    BY <2>1, <2>2, Zenon
  <2>4. v \in Seq(Bytes) /\ Len(v) = 4
    BY <1>1
  <2>5. \A i \in 1..4 : v[i] \in Bytes
    BY <2>4
  <2>6. \A i \in 1..4 : (4 - i) + 1 \in 1..4
    OBVIOUS
  <2>7. \A i \in 1..4 : v[(4 - i) + 1] \in Bytes
    BY <2>5, <2>6
  <2>8. written.bytes \in Seq(Bytes) /\ Len(written.bytes) = 4
    BY <2>3, <2>7
  <2>9. ASSUME NEW k \in 1..4 PROVE written.bytes[5 - k] = v[k]
    <3>1. 5 - k \in 1..4 /\ (4 - (5 - k)) + 1 = k
      OBVIOUS
    <3> DEFINE i == 5 - k
    <3> HIDE DEF i
    <3>2. written.bytes[i] = v[(4 - i) + 1]
      BY <2>3, <3>1 DEF i
    <3> QED
      BY <3>1, <3>2 DEF i
  <2> QED
    BY <2>8, <2>9
<1>3. field = Whole(written.type)
  <2>1. FixedSize["TIMESTAMP2"] = 4
    BY DEF FixedSize
  <2> QED
    BY <1>1, <1>2, <2>1, FixedField
<1>4. HasBytes(4) /\ field.bytes = written.bytes
  BY <1>1, <1>2, <1>3, WholeHasBytes
<1>5. answer' = [k \in 1..4 |-> written.bytes[5 - k]]
  BY <1>2, <1>4 DEF AsTimestamp, Answer
<1>6. v = [k \in 1..4 |-> v[k]]
  BY <1>1
<1> QED
  BY <1>2, <1>5, <1>6 DEF v

LEMMA YearAnswer ==
    ASSUME Read, SupportedYear(written), AsYear
    PROVE  answer' = written.means
<1> DEFINE v == written.means
           b == v - 1900
<1>1. /\ v \in 1901..2155 /\ written.bytes = <<b>>
      /\ written.sort = "year" /\ written.type = "YEAR"
  BY DEF SupportedYear
<1>2. b \in Bytes /\ 1900 + b = v
  BY <1>1 DEF Bytes
<1> HIDE DEF b, v
<1>3. written.bytes \in Seq(Bytes) /\ Len(written.bytes) = 1 /\ written.bytes[1] = b
  BY <1>1, <1>2
<1>4. field = Whole(written.type)
  <2>1. FixedSize["YEAR"] = 1
    BY DEF FixedSize
  <2> QED
    BY <1>1, <1>3, <2>1, FixedField
<1>5. HasBytes(1) /\ field.bytes = written.bytes
  BY <1>1, <1>3, <1>4, WholeHasBytes
<1>6. answer' = 1900 + b
  BY <1>3, <1>5 DEF AsYear, Answer
<1> QED
  BY <1>2, <1>6 DEF v

\* What is left of a number d * 10^6 + t without its lowest byte, and that byte.
Numbers == [d : Nat, t : 0..(Million - 1)]
Left(low) == [d |-> low.d \div 256, t |-> ((low.d % 256) * Million + low.t) \div 256]
Lowest(low) == ((low.d % 256) * Million + low.t) % 256

\* The quotient and the rest by 10^6 with one more byte behind.
Shift(above, b) ==
    LET n == above.rem * 256 + b
    IN  [quot |-> above.quot * 256 + n \div Million, rem |-> n % Million]

LEMMA MillionIs == Million \in Int
BY DEF Million

LEMMA BelowMillion ==
    ASSUME NEW t
    PROVE  t \in 0..(Million - 1) <=> t \in Nat /\ t < Million
BY MillionIs

LEMMA LowestArithmetic ==
    ASSUME NEW d \in Nat, NEW t \in Nat, t < 1000000
    PROVE  LET n == (d % 256) * 1000000 + t
           IN  /\ n \in Nat /\ n \div 256 \in Nat /\ n \div 256 < 1000000
               /\ n % 256 \in Nat /\ n % 256 < 256
               /\ (n \div 256) * 256 + (n % 256) = n
               /\ n \div 1000000 = d % 256 /\ n % 1000000 = t
<1> DEFINE e == d % 256
           n == e * 1000000 + t
<1>1. e \in Nat /\ e < 256
  OBVIOUS
<1> HIDE DEF e
<1>2. n \in Nat /\ n < 256000000
  BY <1>1, SMT
<1>3. n \div 1000000 = e /\ n % 1000000 = t
  BY <1>1, SMT
<1> HIDE DEF n
<1>4. /\ n \div 256 \in Nat /\ n \div 256 < 1000000
      /\ n % 256 \in Nat /\ n % 256 < 256
      /\ (n \div 256) * 256 + (n % 256) = n
  BY <1>2, SMT
<1> QED
  BY <1>2, <1>3, <1>4 DEF n, e

LEMMA HigherByte ==
    ASSUME NEW d \in Nat
    PROVE  /\ d \div 256 \in Nat /\ (d \div 256) * 256 + (d % 256) = d
BY SMT

LEMMA LeftType ==
    ASSUME NEW low \in Numbers
    PROVE  /\ low.d \in Nat /\ low.t \in Nat /\ low.t < Million
           /\ Left(low) \in Numbers /\ Lowest(low) \in Bytes
           /\ Shift([quot |-> Left(low).d, rem |-> Left(low).t], Lowest(low))
                = [quot |-> low.d, rem |-> low.t]
<1> DEFINE d == low.d
           t == low.t
           n == (d % 256) * Million + t
<1>1. Million = 1000000
  BY DEF Million
<1>2. d \in Nat /\ t \in Nat /\ t < 1000000
  <2>1. d \in Nat /\ t \in 0..(Million - 1)
    BY DEF Numbers
  <2> HIDE DEF d, t
  <2>2. t \in Nat /\ t < Million
    BY <2>1, BelowMillion
  <2>3. d \in Nat
    BY <2>1
  <2> QED
    BY <1>1, <2>2, <2>3, SMT
<1>3. /\ n \in Nat /\ n \div 256 \in Nat /\ n \div 256 < Million
      /\ n % 256 \in Nat /\ n % 256 < 256
      /\ (n \div 256) * 256 + (n % 256) = n
      /\ n \div Million = d % 256 /\ n % Million = t
  <2> HIDE DEF d, t
  <2> QED
    BY <1>1, <1>2, LowestArithmetic
<1>4. Left(low) = [d |-> d \div 256, t |-> n \div 256] /\ Lowest(low) = n % 256
  BY DEF Left, Lowest
<1>5. d \div 256 \in Nat /\ (d \div 256) * 256 + (d % 256) = d
  <2> HIDE DEF d
  <2> QED
    BY <1>2, HigherByte
<1>6. t < Million
  BY <1>1, <1>2
<1> DEFINE a == d \div 256
           b == n \div 256
           c == n % 256
           e == d % 256
<1> HIDE DEF a, b, c, e, n
<1>7. a \in Nat /\ a * 256 + e = d /\ b \in Nat /\ b < Million /\ c \in Nat /\ c < 256
      /\ b * 256 + c = n /\ n \div Million = e /\ n % Million = t
  BY <1>3, <1>5 DEF a, b, c, e
<1>8. Left(low) = [d |-> a, t |-> b] /\ Lowest(low) = c
  BY <1>4 DEF a, b, c
<1>9. Left(low) \in Numbers
  <2>1. b \in 0..(Million - 1)
    BY <1>7, BelowMillion
  <2> QED
    BY <1>7, <1>8, <2>1 DEF Numbers
<1>10. Lowest(low) \in Bytes
  BY <1>7, <1>8 DEF Bytes
<1>11. Shift([quot |-> a, rem |-> b], c) = [quot |-> d, rem |-> t]
  <2>1. Shift([quot |-> a, rem |-> b], c)
          = [quot |-> a * 256 + (b * 256 + c) \div Million,
             rem |-> (b * 256 + c) % Million]
    BY DEF Shift
  <2> HIDE DEF d, t
  <2> QED
    BY <1>7, <2>1
<1>12. Left(low).d = a /\ Left(low).t = b
  BY <1>8
<1> QED
  BY <1>2, <1>6, <1>8, <1>9, <1>10, <1>11, <1>12

\* The function that the bytes of a DATETIME come from.
Rests(R, d, t) ==
    R = [k \in 0..8 |-> IF k = 0 THEN [d |-> d, t |-> t] ELSE Left(R[k - 1])]

Stores(R, d, t) ==
    /\ R[0] = [d |-> d, t |-> t]
    /\ \A k \in 1..8 : R[k] = Left(R[k - 1])
    /\ StoredDatetime(d, t) = [k \in 1..8 |-> Lowest(R[k - 1])]

LEMMA StoredDatetimeIs ==
    ASSUME NEW d \in Nat, NEW t \in Nat, t < Million
    PROVE  \E R \in [0..8 -> Numbers] : Stores(R, d, t)
<1> DEFINE z == [d |-> d, t |-> t]
           G == [kv \in (1..8) \X Numbers |-> Left(kv[2])]
<1>1. z \in Numbers
  <2>1. t \in 0..(Million - 1)
    BY BelowMillion
  <2> QED
    BY <2>1 DEF Numbers
<1>2. G \in [(1..8) \X Numbers -> Numbers]
  <2>1. ASSUME NEW kv \in (1..8) \X Numbers PROVE Left(kv[2]) \in Numbers
    <3>1. kv[2] \in Numbers
      OBVIOUS
    <3> QED
      BY <3>1, LeftType
  <2> QED
    BY <2>1
<1>3. \E f \in [0..8 -> Numbers] : Follows(f, z, G, 8)
  <2>1. 8 \in Nat
    OBVIOUS
  <2> HIDE DEF z, G
  <2> QED
    BY <1>1, <1>2, <2>1, Recursion
<1>4. PICK f \in [0..8 -> Numbers] : Follows(f, z, G, 8)
  BY <1>3
<1> HIDE DEF z
<1>5. f[0] = z
  BY <1>4 DEF Follows
<1>6. ASSUME NEW k \in 1..8 PROVE f[k] = Left(f[k - 1])
  <2>1. f[k] = G[<<k, f[k - 1]>>]
    <3>1. k # 0 /\ k \in 0..8
      OBVIOUS
    <3> HIDE DEF G
    <3> QED
      BY <1>4, <3>1 DEF Follows
  <2>2. <<k, f[k - 1]>> \in (1..8) \X Numbers
    <3>1. k - 1 \in 0..8
      OBVIOUS
    <3> QED
      BY <3>1
  <2> QED
    BY <2>1, <2>2
<1>7. Rests(f, d, t)
  <2>1. f = [k \in 0..8 |-> f[k]]
    OBVIOUS
  <2>2. \A k \in 0..8 : f[k] = IF k = 0 THEN z ELSE Left(f[k - 1])
    BY <1>5, <1>6
  <2> QED
    BY <2>1, <2>2, Zenon DEF Rests, z
<1> DEFINE R == CHOOSE r : Rests(r, d, t)
<1>8. Rests(R, d, t)
  BY <1>7
<1>9. StoredDatetime(d, t) = [k \in 1..8 |-> Lowest(R[k - 1])]
  BY Zenon DEF StoredDatetime, Rests, Left, Lowest
<1> HIDE DEF R
<1>10. R[0] = z /\ \A k \in 1..8 : R[k] = Left(R[k - 1])
  BY <1>8 DEF Rests, z
<1>11. R \in [0..8 -> Numbers]
  <2>1. \A k \in 0..7 : R[k] \in Numbers => R[k + 1] \in Numbers
    <3> SUFFICES ASSUME NEW k \in 0..7, R[k] \in Numbers PROVE R[k + 1] \in Numbers
      OBVIOUS
    <3>1. k + 1 \in 1..8 /\ (k + 1) - 1 = k
      OBVIOUS
    <3>2. R[k + 1] = Left(R[k])
      BY <1>10, <3>1
    <3> QED
      BY <3>2, LeftType
  <2>2. R[0] \in Numbers
    BY <1>1, <1>10
  <2>3. /\ R[1] \in Numbers /\ R[2] \in Numbers /\ R[3] \in Numbers
        /\ R[4] \in Numbers /\ R[5] \in Numbers /\ R[6] \in Numbers
        /\ R[7] \in Numbers /\ R[8] \in Numbers
    BY <2>1, <2>2
  <2>4. \A k \in 0..8 : R[k] \in Numbers
    BY <2>2, <2>3
  <2>5. R = [k \in 0..8 |-> R[k]]
    BY <1>8 DEF Rests
  <2> QED
    BY <2>4, <2>5
<1> QED
  BY <1>9, <1>10, <1>11 DEF z, Stores

\* The function that as_datetime() divides by.
Divides(Q) ==
    Q = [k \in 0..8 |-> IF k = 0 THEN [quot |-> 0, rem |-> 0]
                        ELSE Shift(Q[k - 1], Byte(field.bytes, 9 - k))]

LEMMA DivMillionIs ==
    ASSUME field.bytes \in Seq(Bytes)
    PROVE  /\ DivMillion[0] = [quot |-> 0, rem |-> 0]
           /\ \A k \in 1..8 :
                DivMillion[k] = Shift(DivMillion[k - 1], Byte(field.bytes, 9 - k))
<1> DEFINE V == [quot : Nat, rem : Nat]
           z == [quot |-> 0, rem |-> 0]
           B(k) == Byte(field.bytes, 9 - k)
           G == [kv \in (1..8) \X V |-> Shift(kv[2], B(kv[1]))]
<1>1. ASSUME NEW v \in V, NEW b \in Nat PROVE Shift(v, b) \in V
  <2> DEFINE n == v.rem * 256 + b
  <2>1. n \in Nat /\ v.quot \in Nat
    OBVIOUS
  <2> HIDE DEF n
  <2>2. n \div Million \in Nat /\ n % Million \in Nat
    BY <2>1, SMT DEF Million
  <2> QED
    BY <2>1, <2>2 DEF Shift, n
<1>2. ASSUME NEW k \in 1..8 PROVE B(k) \in Nat
  <2>1. Byte(field.bytes, 9 - k) \in Bytes
    <3> DEFINE q == 9 - k
    <3>1. q \in Int
      OBVIOUS
    <3> HIDE DEF q
    <3>2. Byte(field.bytes, q) \in Bytes
      BY <3>1, ByteIsNumber
    <3> QED
      BY <3>2 DEF q
  <2>2. \A b \in Bytes : b \in Nat
    BY DEF Bytes
  <2> QED
    BY <2>1, <2>2
<1>3. G \in [(1..8) \X V -> V]
  <2> HIDE DEF B
  <2>1. ASSUME NEW kv \in (1..8) \X V PROVE Shift(kv[2], B(kv[1])) \in V
    <3> HIDE DEF V
    <3>1. kv[2] \in V /\ kv[1] \in 1..8
      OBVIOUS
    <3> QED
      BY <1>1, <1>2, <3>1
  <2> HIDE DEF V
  <2> QED
    BY <2>1
<1>4. z \in V /\ 8 \in Nat
  OBVIOUS
<1>5. \E f \in [0..8 -> V] : Follows(f, z, G, 8)
  <2> HIDE DEF z, G, V
  <2> QED
    BY <1>3, <1>4, Recursion
<1>6. PICK f \in [0..8 -> V] : Follows(f, z, G, 8)
  BY <1>5
<1> HIDE DEF z, V, B
<1>7. ASSUME NEW k \in 0..8 PROVE f[k] = IF k = 0 THEN z ELSE Shift(f[k - 1], B(k))
  <2>1. CASE k = 0
    BY <1>6, <2>1 DEF Follows
  <2>2. CASE k # 0
    <3>1. f[k] = G[<<k, f[k - 1]>>]
      <4> HIDE DEF G
      <4> QED
        BY <1>6, <2>2 DEF Follows
    <3>2. <<k, f[k - 1]>> \in (1..8) \X V
      <4>1. k - 1 \in 0..8 /\ k \in 1..8
        BY <2>2
      <4> QED
        BY <4>1
    <3> QED
      BY <2>2, <3>1, <3>2
  <2> QED
    BY <2>1, <2>2
<1>8. Divides(f)
  <2>1. f = [k \in 0..8 |-> f[k]]
    OBVIOUS
  <2> QED
    BY <1>7, <2>1, Zenon DEF Divides, z, B
<1>9. Divides(DivMillion)
  <2>1. DivMillion = CHOOSE Q : Divides(Q)
    BY Zenon DEF DivMillion, Divides, Shift
  <2> QED
    BY <1>8, <2>1
<1> QED
  BY <1>9 DEF Divides

LEMMA LeftFades ==
    ASSUME NEW low \in Numbers
    PROVE  /\ Left(low).d = low.d \div 256
           /\ low.d = 0 => Left(low).t = low.t \div 256
<1> DEFINE d == low.d
           t == low.t
           n == (d % 256) * Million + t
<1>1. Left(low).d = d \div 256 /\ Left(low).t = n \div 256
  BY DEF Left
<1>2. t \in Nat
  BY LeftType
<1>3. d = 0 => n = t
  <2> HIDE DEF d, t
  <2>1. d = 0 => d % 256 = 0
    OBVIOUS
  <2> QED
    BY <1>2, <2>1, MillionIs
<1> HIDE DEF n
<1> QED
  BY <1>1, <1>3

\* A date as a number has eight digits.
DateLimit == 100000000

\* Nothing is left behind eight bytes.
LEMMA RestsEnd ==
    ASSUME NEW R \in [0..8 -> Numbers], \A k \in 1..8 : R[k] = Left(R[k - 1]),
           R[0].d < DateLimit
    PROVE  R[8] = [d |-> 0, t |-> 0]
<1> DEFINE D(k) == R[k].d
           T(k) == R[k].t
<1>1. ASSUME NEW k \in 0..8
      PROVE  D(k) \in Nat /\ T(k) \in Nat /\ T(k) < Million
  <2>1. R[k] \in Numbers
    OBVIOUS
  <2> QED
    BY <2>1, LeftType
<1>2. ASSUME NEW k \in 0..7
      PROVE  /\ D(k + 1) = D(k) \div 256
             /\ D(k) = 0 => T(k + 1) = T(k) \div 256
  <2>1. R[k] \in Numbers
    OBVIOUS
  <2>2. k + 1 \in 1..8 /\ (k + 1) - 1 = k
    OBVIOUS
  <2>3. R[k + 1] = Left(R[k])
    BY <2>2
  <2> QED
    BY <2>1, <2>3, LeftFades
<1>3. D(0) \in Nat /\ D(0) < DateLimit
  BY <1>1
<1>4. /\ D(0 + 1) = D(0) \div 256 /\ D(1 + 1) = D(1) \div 256
      /\ D(2 + 1) = D(2) \div 256 /\ D(3 + 1) = D(3) \div 256
      /\ D(4 + 1) = D(4) \div 256 /\ D(5 + 1) = D(5) \div 256
      /\ D(6 + 1) = D(6) \div 256 /\ D(7 + 1) = D(7) \div 256
  <2> HIDE DEF D, T
  <2> QED
    BY <1>2
<1>5. /\ D(4) = 0 => T(4 + 1) = T(4) \div 256
      /\ D(5) = 0 => T(5 + 1) = T(5) \div 256
      /\ D(6) = 0 => T(6 + 1) = T(6) \div 256
      /\ D(7) = 0 => T(7 + 1) = T(7) \div 256
  <2> HIDE DEF D, T
  <2> QED
    BY <1>2
<1>6. /\ D(1) = D(0) \div 256 /\ D(2) = D(1) \div 256
      /\ D(3) = D(2) \div 256 /\ D(4) = D(3) \div 256
      /\ D(5) = D(4) \div 256 /\ D(6) = D(5) \div 256
      /\ D(7) = D(6) \div 256 /\ D(8) = D(7) \div 256
  BY <1>4
<1>7. /\ D(4) = 0 => T(5) = T(4) \div 256
      /\ D(5) = 0 => T(6) = T(5) \div 256
      /\ D(6) = 0 => T(7) = T(6) \div 256
      /\ D(7) = 0 => T(8) = T(7) \div 256
  BY <1>5
<1>8. R[8] = [d |-> D(8), t |-> T(8)]
  <2>1. R[8] \in Numbers
    OBVIOUS
  <2> QED
    BY <2>1 DEF Numbers
<1>9. T(4) \in Nat /\ T(4) < 1000000
  <2>1. T(4) \in Nat /\ T(4) < Million
    BY <1>1
  <2> HIDE DEF T
  <2> QED
    BY <2>1, SMT DEF Million
<1> HIDE DEF D, T
<1>10. D(1) \in Nat /\ D(1) < 390626
  BY <1>3, <1>6, SMT DEF DateLimit
<1>11. D(2) \in Nat /\ D(2) < 1526
  BY <1>6, <1>10, SMT
<1>12. D(3) \in Nat /\ D(3) < 6
  BY <1>6, <1>11, SMT
<1>13. D(4) = 0 /\ D(5) = 0 /\ D(6) = 0 /\ D(7) = 0 /\ D(8) = 0
  <2>1. D(4) = 0
    BY <1>6, <1>12, SMT
  <2> QED
    BY <1>6, <2>1, SMT
<1>14. T(5) \in Nat /\ T(5) < 3907
  BY <1>7, <1>9, <1>13, SMT
<1>15. T(6) \in Nat /\ T(6) < 16
  BY <1>7, <1>13, <1>14, SMT
<1>16. T(7) = 0
  BY <1>7, <1>13, <1>15, SMT
<1>17. T(8) = 0
  BY <1>7, <1>13, <1>16, SMT
<1> QED
  BY <1>8, <1>13, <1>17

LEMMA DivMillionGives ==
    ASSUME field.bytes \in Seq(Bytes),
           NEW R \in [0..8 -> Numbers], \A k \in 1..8 : R[k] = Left(R[k - 1]),
           field.bytes = [k \in 1..8 |-> Lowest(R[k - 1])],
           R[8] = [d |-> 0, t |-> 0]
    PROVE  DivMillion[8] = [quot |-> R[0].d, rem |-> R[0].t]
<1> DEFINE Pair(low) == [quot |-> low.d, rem |-> low.t]
           S == {j \in Nat : j <= 8 => DivMillion[j] = Pair(R[8 - j])}
<1>1. /\ DivMillion[0] = [quot |-> 0, rem |-> 0]
      /\ \A k \in 1..8 :
           DivMillion[k] = Shift(DivMillion[k - 1], Byte(field.bytes, 9 - k))
  BY DivMillionIs
<1>2. Len(field.bytes) = 8 /\ \A k \in 1..8 : field.bytes[k] = Lowest(R[k - 1])
  OBVIOUS
<1>3. 0 \in S
  BY <1>1
<1>4. ASSUME NEW j \in Nat, j \in S PROVE j + 1 \in S
  <2> SUFFICES ASSUME j + 1 <= 8 PROVE DivMillion[j + 1] = Pair(R[8 - (j + 1)])
    OBVIOUS
  <2> DEFINE i == 8 - (j + 1)
             low == R[i]
  <2>1. /\ i \in 0..8 /\ 8 - j = i + 1 /\ i + 1 \in 1..8 /\ (i + 1) - 1 = i
        /\ 9 - (j + 1) = i + 1 /\ (j + 1) - 1 = j /\ j + 1 \in 1..8 /\ j <= 8
    OBVIOUS
  <2>2. DivMillion[j] = Pair(R[8 - j])
    BY <1>4, <2>1
  <2> HIDE DEF S, i
  <2>3. R[i + 1] = Left(low)
    BY <2>1
  <2>4. Byte(field.bytes, i + 1) = Lowest(low)
    BY <1>2, <2>1 DEF Byte
  <2>5. low \in Numbers
    BY <2>1
  <2>6. DivMillion[j + 1] = Shift(DivMillion[j], Byte(field.bytes, i + 1))
    BY <1>1, <2>1
  <2>7. DivMillion[j] = Pair(Left(low))
    BY <2>1, <2>2, <2>3
  <2> HIDE DEF low
  <2>8. Shift(Pair(Left(low)), Lowest(low)) = Pair(low)
    BY <2>5, LeftType
  <2>9. DivMillion[j + 1] = Pair(low)
    BY <2>4, <2>6, <2>7, <2>8
  <2> QED
    BY <2>9 DEF low, i
<1>5. 8 \in S
  <2> HIDE DEF S
  <2> QED
    BY <1>3, <1>4, NatSetInduction
<1>6. 8 <= 8 /\ 8 - 8 = 0
  OBVIOUS
<1> QED
  BY <1>5, <1>6

HasDay(n, y, m, d) ==
    /\ n \in Nat /\ n < DateLimit
    /\ n \div 10000 = y /\ (n % 10000) \div 100 = m /\ n % 100 = d

LEMMA DayNumber ==
    ASSUME NEW y \in Nat, y <= LastYear, NEW m \in Nat, m <= 12, NEW d \in Nat, d <= 31,
           NEW n, n = y * 10000 + m * 100 + d
    PROVE  HasDay(n, y, m, d)
<1>1. y <= 9999
  BY DEF LastYear
<1>2. n \in Nat /\ n < DateLimit
  BY <1>1, SMT DEF DateLimit
<1>3. /\ n \div 10000 = y /\ n % 10000 = m * 100 + d
      /\ (m * 100 + d) \div 100 = m /\ n % 100 = d
  BY SMT
<1>4. n \div 10000 = y /\ (n % 10000) \div 100 = m /\ n % 100 = d
  BY <1>3
<1> QED
  BY <1>2, <1>4 DEF HasDay

LEMMA DatetimeAnswer ==
    ASSUME Read, SupportedDatetime(written), AsDatetime
    PROVE  answer' = written.means
<1> DEFINE v == written.means
           date == v.date
           time == v.time
           d == date.y * 10000 + date.m * 100 + date.d
           t == time.h * 10000 + time.m * 100 + time.s
<1>1. /\ v \in [date : Dates, time : Times] /\ time.h <= 23
      /\ written.bytes = StoredDatetime(d, t)
      /\ written.sort = "datetime" /\ written.type = "DATETIME"
  BY DEF SupportedDatetime
<1>2. date \in Dates /\ time \in Times /\ v = [date |-> date, time |-> time]
  <2>1. v \in [date : Dates, time : Times]
    BY <1>1
  <2> HIDE DEF v
  <2> QED
    BY <2>1
<1> HIDE DEF v
<1>3. /\ d \in Nat /\ d < DateLimit
      /\ Date(d \div 10000, (d % 10000) \div 100, d % 100) = date
  <2> DEFINE y == date.y
             m == date.m
             e == date.d
  <2>1. y \in 0..LastYear /\ m \in 0..12 /\ e \in 0..31
        /\ date = [y |-> y, m |-> m, d |-> e]
    BY <1>2 DEF Dates
  <2>2. d = y * 10000 + m * 100 + e
    OBVIOUS
  <2> HIDE DEF date, d, y, m, e
  <2>3. y \in Nat /\ y <= LastYear /\ m \in Nat /\ m <= 12 /\ e \in Nat /\ e <= 31
    BY <2>1
  <2>4. HasDay(d, y, m, e)
    BY <2>2, <2>3, DayNumber
  <2>5. /\ d \in Nat /\ d < DateLimit
        /\ d \div 10000 = y /\ (d % 10000) \div 100 = m /\ d % 100 = e
    BY <2>4 DEF HasDay
  <2> QED
    BY <2>1, <2>5, SMT DEF Date
<1>4. t \in Nat /\ t < Million /\ TimeOf(t) = time
  <2>1. t \in Nat /\ TimeOf(t) = time
    <3> HIDE DEF time
    <3> QED
      BY <1>2, TimeOfNumber
  <2>2. t < Million
    <3> DEFINE h == time.h
               m == time.m
               s == time.s
    <3>1. h \in Bytes /\ m \in 0..59 /\ s \in 0..59 /\ h <= 23
      BY <1>1, <1>2 DEF Times, Bytes
    <3>2. t = h * 10000 + m * 100 + s
      OBVIOUS
    <3> HIDE DEF t, h, m, s
    <3>3. h \in Nat /\ m \in Nat /\ m <= 59 /\ s \in Nat /\ s <= 59
      BY <3>1 DEF Bytes
    <3> QED
      BY <3>1, <3>2, <3>3, SMT DEF Million
  <2> QED
    BY <2>1, <2>2
<1> HIDE DEF d, t, date, time
<1>5. \E R \in [0..8 -> Numbers] : Stores(R, d, t)
  <2>1. d \in Nat /\ t \in Nat /\ t < Million
    BY <1>3, <1>4
  <2> QED
    BY <2>1, StoredDatetimeIs
<1>6. PICK R \in [0..8 -> Numbers] : Stores(R, d, t)
  BY <1>5
<1>7. /\ R[0] = [d |-> d, t |-> t]
      /\ \A k \in 1..8 : R[k] = Left(R[k - 1])
      /\ StoredDatetime(d, t) = [k \in 1..8 |-> Lowest(R[k - 1])]
  BY <1>6 DEF Stores
<1>8. R[8] = [d |-> 0, t |-> 0]
  <2>1. R[0].d < DateLimit
    BY <1>3, <1>7
  <2> QED
    BY <1>7, <2>1, RestsEnd
<1>9. written.bytes \in Seq(Bytes) /\ Len(written.bytes) = 8
  <2>1. ASSUME NEW k \in 1..8 PROVE Lowest(R[k - 1]) \in Bytes
    <3>1. R[k - 1] \in Numbers
      <4>1. k - 1 \in 0..8
        OBVIOUS
      <4> QED
        BY <1>7, <4>1
    <3> QED
      BY <3>1, LeftType
  <2>2. written.bytes = [k \in 1..8 |-> Lowest(R[k - 1])]
    BY <1>1, <1>7
  <2> QED
    BY <2>1, <2>2
<1>10. field = Whole(written.type)
  <2>1. FixedSize["DATETIME"] = 8
    BY DEF FixedSize
  <2> QED
    BY <1>1, <1>9, <2>1, FixedField
<1>11. HasBytes(8) /\ field.bytes = written.bytes /\ field.type = "DATETIME"
  <2>1. 8 \in Nat /\ 8 > 0 /\ written.type # "NULL"
    BY <1>1
  <2>2. HasBytes(8) /\ field.bytes = written.bytes /\ field.type = written.type
    BY <1>9, <1>10, <2>1, WholeHasBytes
  <2> QED
    BY <1>1, <2>2
<1>12. DivMillion[8] = [quot |-> d, rem |-> t]
  <2>1. DivMillion[8] = [quot |-> R[0].d, rem |-> R[0].t]
    <3>1. /\ field.bytes \in Seq(Bytes)
          /\ field.bytes = [k \in 1..8 |-> Lowest(R[k - 1])]
      BY <1>1, <1>7, <1>9, <1>11
    <3> QED
      BY <1>7, <1>8, <3>1, DivMillionGives
  <2> QED
    BY <1>7, <2>1
<1>13. _as_datetime = v
  <2>1. DivMillion[8].quot = d /\ DivMillion[8].rem = t
    BY <1>12
  <2>2. _as_datetime = [date |-> Date(d \div 10000, (d % 10000) \div 100, d % 100),
                        time |-> TimeOf(t)]
    BY <1>11, <2>1 DEF _as_datetime
  <2> QED
    BY <1>2, <1>3, <1>4, <2>2
<1>14. answer' = _as_datetime
  BY <1>11 DEF AsDatetime, Answer
<1> QED
  BY <1>13, <1>14 DEF v

\* No field but a DATETIME reads as one.
LEMMA NoDatetimeAnswer ==
    ASSUME FieldsSupported, Read, written.sort # "datetime", AsDatetime
    PROVE  answer' = NoDatetime
<1>1. SupportedField(written)
  BY DEF FieldsSupported, Read
<1>2. field.type \notin {"DATETIME", "DATETIME2"}
  <2>1. CASE written.sort = "null"
    BY <2>1, NullHasNoBytes DEF NullValue
  <2>2. CASE written.sort # "null" /\ SupportedElements(written)
    BY <2>2, ElementField DEF Whole
  <2>3. CASE written.sort # "null" /\ ~SupportedElements(written)
    <3>1. \/ written.type \in {"DATE", "TIME", "TIMESTAMP2", "YEAR", "NEWDECIMAL"}
          \/ written.type \in {"TINY", "SHORT", "INT24", "LONG", "LONGLONG", "FLOAT",
                               "DOUBLE", "VARCHAR", "BLOB"}
      BY <1>1, <2>3, SortOf
    <3>2. field.type = written.type
      BY <2>3, <3>1 DEF Read, Decode, TuneValue, Shows, NullValue
    <3> QED
      BY <3>1, <3>2
  <2> QED
    BY <2>1, <2>2, <2>3
<1> QED
  BY <1>2 DEF AsDatetime, Answer

LEMMA TemporalStep ==
    ASSUME FieldsSupported, Read, TemporalAsWritten, [Next]_vars
    PROVE  TemporalAsWritten'
<1>1. written' = written
  BY CallsChangeNothing
<1>2. SupportedField(written)
  BY DEF FieldsSupported, Read
<1>3. CASE UNCHANGED vars
  BY <1>3 DEF vars, TemporalAsWritten
<1>4. CASE AsDate
  <2>1. asked' = "date"
    BY <1>4 DEF AsDate, Answer
  <2>2. written.sort = "date" => answer' = written.means
    <3>1. written.sort = "date" => SupportedDate(written)
      BY <1>2, SortOf
    <3> QED
      BY <1>4, <3>1, DateAnswer
  <2> QED
    BY <1>1, <2>1, <2>2 DEF TemporalAsWritten
<1>5. CASE AsTime
  <2>1. asked' = "time"
    BY <1>5 DEF AsTime, Answer
  <2>2. written.sort = "time" => answer' = written.means
    <3>1. written.sort = "time" => SupportedTime(written)
      BY <1>2, SortOf
    <3> QED
      BY <1>5, <3>1, TimeAnswer
  <2> QED
    BY <1>1, <2>1, <2>2 DEF TemporalAsWritten
<1>6. CASE AsDatetime
  <2>1. asked' = "datetime"
    BY <1>6 DEF AsDatetime, Answer
  <2>2. written.sort = "datetime" => answer' = written.means
    <3>1. written.sort = "datetime" => SupportedDatetime(written)
      BY <1>2, SortOf
    <3> QED
      BY <1>6, <3>1, DatetimeAnswer
  <2>3. written.sort # "datetime" => answer' = NoDatetime
    BY <1>6, NoDatetimeAnswer
  <2>4. NoDatetime' = NoDatetime
    BY DEF NoDatetime, Date, Time
  <2> QED
    BY <1>1, <2>1, <2>2, <2>3, <2>4 DEF TemporalAsWritten
<1>7. CASE AsTimestamp
  <2>1. asked' = "timestamp"
    BY <1>7 DEF AsTimestamp, Answer
  <2>2. written.sort = "timestamp" => answer' = written.means
    <3>1. written.sort = "timestamp" => SupportedTimestamp(written)
      BY <1>2, SortOf
    <3> QED
      BY <1>7, <3>1, TimestampAnswer
  <2> QED
    BY <1>1, <2>1, <2>2 DEF TemporalAsWritten
<1>8. CASE AsYear
  <2>1. asked' = "year"
    BY <1>8 DEF AsYear, Answer
  <2>2. written.sort = "year" => answer' = written.means
    <3>1. written.sort = "year" => SupportedYear(written)
      BY <1>2, SortOf
    <3> QED
      BY <1>8, <3>1, YearAnswer
  <2> QED
    BY <1>1, <2>1, <2>2 DEF TemporalAsWritten
<1>9. CASE /\ Next
           /\ ~AsDate /\ ~AsTime /\ ~AsDatetime /\ ~AsTimestamp /\ ~AsYear
  <2>1. asked' \notin {"date", "time", "datetime", "timestamp", "year"}
    BY <1>9 DEF Next, Answer, AsInt, AsBoolean, AsDouble, AsString,
                DecimalAsString, AsBlob, AsEnum, AsSet
  <2> QED
    BY <2>1 DEF TemporalAsWritten
<1> QED
  BY <1>3, <1>4, <1>5, <1>6, <1>7, <1>8, <1>9

\* A DATE, TIME, DATETIME, TIMESTAMP or YEAR reads as it was written, for every
\* date up to the year 9999 and every time up to 255:59:59, and no other field
\* reads as a DATETIME.
THEOREM TemporalReadAsWritten ==
    ASSUME FieldsSupported
    PROVE  Spec => []TemporalAsWritten
<1>1. Init => Read /\ TemporalAsWritten
  BY ReadInit DEF Init, TemporalAsWritten
<1>2. Read /\ TemporalAsWritten /\ [Next]_vars => (Read /\ TemporalAsWritten)'
  BY ReadStep, TemporalStep
<1> QED
  BY <1>1, <1>2, PTL DEF Spec

-----------------------------------------------------------------------------
(* Sums *)

\* The function that SumOf is defined by.
Adds(f, t, n) ==
    f = [k \in 0..n |-> IF k = 0 THEN 0 ELSE f[k - 1] + t[k]]

LEMMA AddsType ==
    ASSUME NEW n \in Nat, NEW t, \A k \in 1..n : t[k] \in Int,
           NEW f, Adds(f, t, n), NEW k \in 0..n
    PROVE  f[k] \in Int
<1> DEFINE S == {m \in Nat : m <= n => f[m] \in Int}
<1>1. 0 \in S
  <2>1. f[0] = 0
    BY DEF Adds
  <2> QED
    BY <2>1
<1>2. ASSUME NEW m \in Nat, m \in S PROVE m + 1 \in S
  <2> SUFFICES ASSUME m + 1 <= n PROVE f[m + 1] \in Int
    OBVIOUS
  <2>1. f[m + 1] = f[m] + t[m + 1]
    <3>1. m + 1 \in 0..n /\ m + 1 # 0 /\ (m + 1) - 1 = m
      OBVIOUS
    <3> QED
      BY <3>1 DEF Adds
  <2>2. f[m] \in Int /\ t[m + 1] \in Int
    BY <1>2
  <2> QED
    BY <2>1, <2>2
<1>3. k \in Nat /\ k <= n
  OBVIOUS
<1>4. k \in S
  <2> HIDE DEF S
  <2> QED
    BY <1>1, <1>2, <1>3, NatSetInduction
<1> QED
  BY <1>3, <1>4

LEMMA AddsAgree ==
    ASSUME NEW m \in Nat, NEW n \in Nat, m <= n,
           NEW t, NEW u, \A k \in 1..m : t[k] = u[k],
           NEW f, NEW g, Adds(f, t, m), Adds(g, u, n)
    PROVE  f[m] = g[m]
<1> DEFINE S == {k \in Nat : k <= m => f[k] = g[k]}
<1>1. 0 \in S
  <2>1. f[0] = 0 /\ g[0] = 0
    BY DEF Adds
  <2> QED
    BY <2>1
<1>2. ASSUME NEW k \in Nat, k \in S PROVE k + 1 \in S
  <2> SUFFICES ASSUME k + 1 <= m PROVE f[k + 1] = g[k + 1]
    OBVIOUS
  <2>1. k + 1 \in 0..m /\ k + 1 \in 0..n /\ k + 1 # 0 /\ (k + 1) - 1 = k
    OBVIOUS
  <2>2. f[k + 1] = f[k] + t[k + 1]
    BY <2>1 DEF Adds
  <2>3. g[k + 1] = g[k] + u[k + 1]
    BY <2>1 DEF Adds
  <2>4. t[k + 1] = u[k + 1] /\ f[k] = g[k]
    BY <1>2
  <2> QED
    BY <2>2, <2>3, <2>4
<1>3. m \in S
  <2> HIDE DEF S
  <2> QED
    BY <1>1, <1>2, NatSetInduction
<1> QED
  BY <1>3

LEMMA SumOfIs ==
    ASSUME NEW s, NEW n \in Nat, Len(s) = n, \A k \in 1..n : s[k] \in Int
    PROVE  \E f : Adds(f, s, n) /\ SumOf(s) = f[n]
<1> DEFINE G == [kv \in (1..n) \X Int |-> kv[2] + s[kv[1]]]
<1>1. G \in [(1..n) \X Int -> Int]
  <2>1. ASSUME NEW kv \in (1..n) \X Int PROVE kv[2] + s[kv[1]] \in Int
    <3>1. kv[2] \in Int /\ s[kv[1]] \in Int
      OBVIOUS
    <3> QED
      BY <3>1
  <2> QED
    BY <2>1
<1>2. \E f \in [0..n -> Int] : Follows(f, 0, G, n)
  <2>1. 0 \in Int
    OBVIOUS
  <2> HIDE DEF G
  <2> QED
    BY <1>1, <2>1, Recursion
<1>3. PICK f \in [0..n -> Int] : Follows(f, 0, G, n)
  BY <1>2
<1>4. ASSUME NEW k \in 0..n PROVE f[k] = IF k = 0 THEN 0 ELSE f[k - 1] + s[k]
  <2>1. f[k] = IF k = 0 THEN 0 ELSE G[<<k, f[k - 1]>>]
    <3> HIDE DEF G
    <3> QED
      BY <1>3 DEF Follows
  <2>2. k # 0 => <<k, f[k - 1]>> \in (1..n) \X Int
    <3>1. k # 0 => k \in 1..n /\ k - 1 \in 0..n
      OBVIOUS
    <3> QED
      BY <3>1
  <2> QED
    BY <2>1, <2>2
<1>5. Adds(f, s, n)
  <2>1. f = [k \in 0..n |-> f[k]]
    OBVIOUS
  <2> QED
    BY <1>4, <2>1, Zenon DEF Adds
<1>6. SumOf(s) = (CHOOSE g : Adds(g, s, n))[n]
  BY Zenon DEF SumOf, Adds
<1> QED
  BY <1>5, <1>6

\* The sum of the first n.
Total(s, n) == SumOf([k \in 1..n |-> s[k]])

LEMMA TotalFrom ==
    ASSUME NEW N \in Nat, NEW s, \A k \in 1..N : s[k] \in Int, NEW n \in 0..N
    PROVE  \E f : /\ Adds(f, s, n) /\ Total(s, n) = f[n]
                  /\ Total(s, n) \in Int
<1> DEFINE t == [k \in 1..n |-> s[k]]
<1>1. /\ n \in Nat /\ Len(t) = n /\ \A k \in 1..n : t[k] = s[k]
      /\ \A k \in 1..n : s[k] \in Int
  OBVIOUS
<1> HIDE DEF t
<1>2. PICK f : Adds(f, t, n) /\ SumOf(t) = f[n]
  BY <1>1, SumOfIs
<1>3. Adds(f, s, n)
  <2>1. \A k \in 0..n : (IF k = 0 THEN 0 ELSE f[k - 1] + t[k])
                          = (IF k = 0 THEN 0 ELSE f[k - 1] + s[k])
    BY <1>1
  <2> QED
    BY <1>2, <2>1 DEF Adds
<1>4. f[n] \in Int
  BY <1>1, <1>3, AddsType
<1> QED
  BY <1>2, <1>3, <1>4 DEF Total, t

LEMMA TotalIs ==
    ASSUME NEW N \in Nat, NEW s, \A k \in 1..N : s[k] \in Int
    PROVE  /\ Total(s, 0) = 0
           /\ \A n \in 0..N : Total(s, n) \in Int
           /\ \A n \in 1..N : Total(s, n) = Total(s, n - 1) + s[n]
<1>1. Total(s, 0) = 0
  <2>1. 0 \in 0..N
    OBVIOUS
  <2>2. PICK f : Adds(f, s, 0) /\ Total(s, 0) = f[0]
    BY <2>1, TotalFrom
  <2> QED
    BY <2>2 DEF Adds
<1>2. ASSUME NEW n \in 0..N PROVE Total(s, n) \in Int
  BY TotalFrom
<1>3. ASSUME NEW n \in 1..N PROVE Total(s, n) = Total(s, n - 1) + s[n]
  <2> DEFINE m == n - 1
  <2>1. n \in 0..N /\ m \in 0..N /\ n \in Nat /\ m \in Nat /\ m <= n /\ m \in 0..n
    OBVIOUS
  <2> HIDE DEF m
  <2>2. PICK f : Adds(f, s, n) /\ Total(s, n) = f[n]
    BY <2>1, TotalFrom
  <2>3. PICK g : Adds(g, s, m) /\ Total(s, m) = g[m]
    BY <2>1, TotalFrom
  <2>4. g[m] = f[m]
    BY <2>1, <2>2, <2>3, AddsAgree
  <2>5. f[n] = f[n - 1] + s[n]
    <3>1. n \in 0..n /\ n # 0
      OBVIOUS
    <3> QED
      BY <2>2, <3>1 DEF Adds
  <2>6. n - 1 = m
    BY DEF m
  <2> QED
    BY <2>2, <2>3, <2>4, <2>5, <2>6
<1> QED
  BY <1>1, <1>2, <1>3

\* A sum over what one function shows of another one, too.
LEMMA TotalSame ==
    ASSUME NEW s, NEW t, NEW n \in Nat, \A k \in 1..n : t[k] = s[k]
    PROVE  Total(t, n) = Total(s, n)
<1>1. [k \in 1..n |-> t[k]] = [k \in 1..n |-> s[k]]
  OBVIOUS
<1> QED
  BY <1>1 DEF Total

LEMMA SumOfTotal ==
    ASSUME NEW T, NEW s \in Seq(T)
    PROVE  SumOf(s) = Total(s, Len(s))
<1>1. s = [k \in 1..Len(s) |-> s[k]]
  OBVIOUS
<1> QED
  BY <1>1 DEF Total

\* The same number n times.
Runs(s, a, n, c) == Total(s, a + n) = Total(s, a) + c * n

LEMMA TotalRun ==
    ASSUME NEW N \in Nat, NEW s, \A k \in 1..N : s[k] \in Int,
           NEW a \in Nat, NEW n \in Nat, a + n <= N,
           NEW c \in Int, \A k \in (a + 1)..(a + n) : s[k] = c
    PROVE  Runs(s, a, n, c)
<1> DEFINE S == {m \in Nat : m <= n => Total(s, a + m) = Total(s, a) + c * m}
<1>1. 0 \in S
  <2>1. a + 0 = a /\ c * 0 = 0 /\ a \in 0..N
    OBVIOUS
  <2>2. Total(s, a) \in Int
    BY <2>1, TotalIs
  <2> QED
    BY <2>1, <2>2
<1>2. ASSUME NEW m \in Nat, m \in S PROVE m + 1 \in S
  <2> SUFFICES ASSUME m + 1 <= n
               PROVE  Total(s, a + (m + 1)) = Total(s, a) + c * (m + 1)
    OBVIOUS
  <2> DEFINE k == a + (m + 1)
  <2>1. /\ k \in 1..N /\ k - 1 = a + m /\ k \in (a + 1)..(a + n)
        /\ a \in 0..N /\ a + m \in 0..N
    OBVIOUS
  <2>2. Total(s, k) = Total(s, k - 1) + s[k]
    <3> HIDE DEF k
    <3> QED
      BY <2>1, TotalIs
  <2>3. s[k] = c
    BY <2>1
  <2>4. Total(s, a + m) = Total(s, a) + c * m
    BY <1>2
  <2> DEFINE x == Total(s, a)
  <2>5. x \in Int
    BY <2>1, TotalIs
  <2> HIDE DEF x
  <2>6. (x + c * m) + c = x + c * (m + 1)
    BY <2>5
  <2>7. Total(s, k) = (x + c * m) + c
    <3> HIDE DEF k
    <3> QED
      BY <2>1, <2>2, <2>3, <2>4 DEF x
  <2> QED
    BY <2>6, <2>7 DEF x
<1>3. n \in S
  <2> HIDE DEF S
  <2> QED
    BY <1>1, <1>2, NatSetInduction
<1> QED
  BY <1>3 DEF Runs

-----------------------------------------------------------------------------
(* Groups of digits *)

\* How many groups n digits take, and the digits of group k of the integer
\* part and of the fraction.
Count(n) == n \div 9 + (IF n % 9 > 0 THEN 1 ELSE 0)
IntgGroup(n, k) == IF k = 1 /\ n % 9 > 0 THEN n % 9 ELSE 9
FracGroup(n, k) == IF k > n \div 9 THEN n % 9 ELSE 9

LEMMA CountIs ==
    ASSUME NEW n \in Nat
    PROVE  /\ Count(n) \in Nat /\ n \div 9 \in Nat /\ n % 9 \in 0..8
           /\ n = 9 * (n \div 9) + (n % 9)
           /\ n % 9 = 0 => Count(n) = n \div 9
           /\ n % 9 > 0 => Count(n) = n \div 9 + 1
           /\ n > 0 => Count(n) > 0
<1>1. /\ n \div 9 \in Nat /\ n % 9 \in 0..8 /\ n = 9 * (n \div 9) + (n % 9)
  OBVIOUS
<1> DEFINE a == n \div 9
           b == n % 9
<1> HIDE DEF a, b
<1>2. a \in Nat /\ b \in Nat /\ n = 9 * a + b
  BY <1>1 DEF a, b
<1>3. Count(n) = a + (IF b > 0 THEN 1 ELSE 0)
  BY DEF Count, a, b
<1>4. /\ Count(n) \in Nat /\ (b = 0 => Count(n) = a)
      /\ (b > 0 => Count(n) = a + 1) /\ (n > 0 => Count(n) > 0)
  BY <1>2, <1>3
<1> QED
  BY <1>1, <1>4 DEF a, b

\* Sequences of m and n elements that are put together.
JoinedAt(a, b, m, n) ==
    /\ \A k \in 1..m : (a \o b)[k] = a[k]
    /\ \A k \in 1..n : (a \o b)[m + k] = b[k]

LEMMA ConcatAt ==
    ASSUME NEW T, NEW a \in Seq(T), NEW b \in Seq(T)
    PROVE  JoinedAt(a, b, Len(a), Len(b))
BY DEF JoinedAt

LEMMA ConcatOf ==
    ASSUME NEW T, NEW a \in Seq(T), NEW b \in Seq(T), NEW m, NEW n,
           m = Len(a), n = Len(b)
    PROVE  JoinedAt(a, b, m, n)
BY DEF JoinedAt

LEMMA IntgGroupsAre ==
    ASSUME NEW p \in Nat, NEW s \in Nat, s <= p
    PROVE  /\ IntgGroups(p, s) \in Seq(1..9)
           /\ Len(IntgGroups(p, s)) = Count(p - s)
           /\ \A k \in 1..Count(p - s) : IntgGroups(p, s)[k] = IntgGroup(p - s, k)
<1> DEFINE n == p - s
           a == n \div 9
           b == n % 9
           left == IF b > 0 THEN <<b>> ELSE <<>>
           full == [k \in 1..a |-> 9]
<1>1. n \in Nat
  OBVIOUS
<1> HIDE DEF n
<1>2. /\ a \in Nat /\ b \in 0..8 /\ Count(n) \in Nat
      /\ (b = 0 => Count(n) = a) /\ (b > 0 => Count(n) = a + 1)
  BY <1>1, CountIs
<1>3. IntgGroups(p, s) = left \o full
  BY DEF IntgGroups, DIG_PER_DEC1, n
<1>4. \A k : IntgGroup(n, k) = IF k = 1 /\ b > 0 THEN b ELSE 9
  BY DEF IntgGroup
<1> HIDE DEF a, b
<1>5. full \in Seq(1..9) /\ Len(full) = a /\ \A k \in 1..a : full[k] = 9
  BY <1>2
<1>6. CASE b > 0
  <2>1. left = <<b>> /\ b \in 1..9
    BY <1>2, <1>6
  <2> HIDE DEF left, full
  <2>2. left \in Seq(1..9) /\ Len(left) = 1 /\ left[1] = b
    BY <2>1
  <2>3. left \o full \in Seq(1..9) /\ Len(left \o full) = 1 + a
    BY <1>5, <2>2, ConcatIs
  <2>4. ASSUME NEW k \in 1..(1 + a) PROVE (left \o full)[k] = IF k = 1 THEN b ELSE 9
    <3>1. JoinedAt(left, full, Len(left), Len(full))
      BY <1>5, <2>2, ConcatAt
    <3>2. JoinedAt(left, full, 1, a)
      BY <1>5, <2>2, <3>1
    <3>3. CASE k = 1
      <4>1. 1 \in 1..1
        OBVIOUS
      <4>2. (left \o full)[1] = left[1]
        BY <3>2, <4>1, Zenon DEF JoinedAt
      <4> QED
        BY <2>2, <3>3, <4>2
    <3>4. CASE k # 1
      <4>1. k - 1 \in 1..a /\ k = 1 + (k - 1)
        BY <1>2, <3>4
      <4> DEFINE j == k - 1
      <4> HIDE DEF j
      <4>2. (left \o full)[1 + j] = 9
        BY <1>5, <3>2, <4>1 DEF JoinedAt, j
      <4> QED
        BY <3>4, <4>1, <4>2 DEF j
    <3> QED
      BY <3>3, <3>4
  <2>5. Count(n) = 1 + a
    BY <1>2, <1>6
  <2>6. \A k \in 1..(1 + a) : (left \o full)[k] = IntgGroup(n, k)
    BY <1>4, <1>6, <2>4
  <2> QED
    BY <1>3, <2>3, <2>5, <2>6 DEF n
<1>7. CASE ~(b > 0)
  <2>1. left = <<>>
    BY <1>7
  <2>2. left \o full = full
    <3> HIDE DEF full, left
    <3> QED
      BY <1>5, <2>1
  <2>3. Count(n) = a
    BY <1>2, <1>7
  <2>4. \A k : IntgGroup(n, k) = 9
    BY <1>4, <1>7
  <2> HIDE DEF full, left
  <2> QED
    BY <1>3, <1>5, <2>2, <2>3, <2>4 DEF n
<1> QED
  BY <1>6, <1>7

LEMMA FracGroupsAre ==
    ASSUME NEW s \in Nat
    PROVE  /\ FracGroups(s) \in Seq(1..9)
           /\ Len(FracGroups(s)) = Count(s)
           /\ \A k \in 1..Count(s) : FracGroups(s)[k] = FracGroup(s, k)
<1> DEFINE a == s \div 9
           b == s % 9
           left == IF b > 0 THEN <<b>> ELSE <<>>
           full == [k \in 1..a |-> 9]
<1>1. /\ a \in Nat /\ b \in 0..8 /\ Count(s) \in Nat
      /\ (b = 0 => Count(s) = a) /\ (b > 0 => Count(s) = a + 1)
  BY CountIs
<1>2. FracGroups(s) = full \o left
  BY DEF FracGroups, DIG_PER_DEC1
<1>3. \A k : FracGroup(s, k) = IF k > a THEN b ELSE 9
  BY DEF FracGroup
<1> HIDE DEF a, b
<1>4. full \in Seq(1..9) /\ Len(full) = a /\ \A k \in 1..a : full[k] = 9
  BY <1>1
<1>5. CASE b > 0
  <2>1. left = <<b>> /\ b \in 1..9
    BY <1>1, <1>5
  <2> HIDE DEF left, full
  <2>2. left \in Seq(1..9) /\ Len(left) = 1 /\ left[1] = b
    BY <2>1
  <2>3. full \o left \in Seq(1..9) /\ Len(full \o left) = a + 1
    BY <1>4, <2>2, ConcatIs
  <2>4. ASSUME NEW k \in 1..(a + 1) PROVE (full \o left)[k] = IF k > a THEN b ELSE 9
    <3>1. JoinedAt(full, left, Len(full), Len(left))
      BY <1>4, <2>2, ConcatAt
    <3>2. JoinedAt(full, left, a, 1)
      BY <1>4, <2>2, <3>1
    <3>3. CASE k = a + 1
      <4>1. (full \o left)[a + 1] = b /\ k > a
        <5>1. 1 \in 1..1 /\ a + 1 > a
          BY <1>1
        <5>2. (full \o left)[a + 1] = left[1]
          BY <3>2, <5>1, Zenon DEF JoinedAt
        <5> QED
          BY <2>2, <3>3, <5>1, <5>2
      <4> QED
        BY <3>3, <4>1
    <3>4. CASE k # a + 1
      <4>1. k \in 1..a /\ ~(k > a)
        BY <1>1, <3>4
      <4> QED
        BY <1>4, <3>2, <4>1 DEF JoinedAt
    <3> QED
      BY <3>3, <3>4
  <2>5. Count(s) = a + 1
    BY <1>1, <1>5
  <2> QED
    BY <1>2, <1>3, <2>3, <2>4, <2>5
<1>6. CASE ~(b > 0)
  <2>1. left = <<>>
    BY <1>6
  <2>2. full \o left = full
    <3> HIDE DEF full, left
    <3> QED
      BY <1>4, <2>1
  <2>3. Count(s) = a
    BY <1>1, <1>6
  <2>4. \A k \in 1..a : FracGroup(s, k) = 9
    BY <1>1, <1>3
  <2> HIDE DEF full, left
  <2> QED
    BY <1>2, <1>4, <2>2, <2>3, <2>4
<1> QED
  BY <1>5, <1>6

\* All the groups of a number.
GroupsOf(p, s) == IntgGroups(p, s) \o FracGroups(s)

LEMMA GroupsAre ==
    ASSUME NEW p \in Nat, NEW s \in Nat, s <= p
    PROVE  /\ GroupsOf(p, s) \in Seq(1..9)
           /\ Len(GroupsOf(p, s)) = Count(p - s) + Count(s)
           /\ \A k \in 1..Count(p - s) : GroupsOf(p, s)[k] = IntgGroup(p - s, k)
           /\ \A k \in 1..Count(s) :
                GroupsOf(p, s)[Count(p - s) + k] = FracGroup(s, k)
<1> DEFINE a == IntgGroups(p, s)
           b == FracGroups(s)
           m == Count(p - s)
           n == Count(s)
<1>1. /\ a \in Seq(1..9) /\ Len(a) = m
      /\ \A k \in 1..m : a[k] = IntgGroup(p - s, k)
  BY IntgGroupsAre
<1>2. /\ b \in Seq(1..9) /\ Len(b) = n
      /\ \A k \in 1..n : b[k] = FracGroup(s, k)
  BY FracGroupsAre
<1> HIDE DEF a, b, m, n
<1>3. a \o b \in Seq(1..9) /\ Len(a \o b) = m + n /\ JoinedAt(a, b, m, n)
  BY <1>1, <1>2, ConcatIs, ConcatAt
<1>4. /\ \A k \in 1..m : (a \o b)[k] = IntgGroup(p - s, k)
      /\ \A k \in 1..n : (a \o b)[m + k] = FracGroup(s, k)
  BY <1>1, <1>2, <1>3, Zenon DEF JoinedAt
<1> QED
  BY <1>3, <1>4 DEF GroupsOf, a, b, m, n

\* What the groups of the integer part add up to, when each counts c but for
\* the first, which counts l if it has fewer digits.
FrontCounts(t, n, c, l) ==
    \A k \in 1..Count(n) : t[k] = IF k = 1 /\ n % 9 > 0 THEN l ELSE c

FrontSums(t, n, c, l) ==
    /\ Total(t, Count(n)) = (IF n % 9 > 0 THEN l ELSE 0) + c * (n \div 9)
    /\ \A k \in 1..Count(n) : Total(t, k) = t[1] + c * (k - 1)

LEMMA FrontTotal ==
    ASSUME NEW N \in Nat, NEW t, \A k \in 1..N : t[k] \in Int,
           NEW n \in Nat, Count(n) <= N, NEW c \in Int, NEW l \in Int,
           FrontCounts(t, n, c, l)
    PROVE  FrontSums(t, n, c, l)
<1> DEFINE m == Count(n)
           a == n \div 9
           b == n % 9
<1>1. /\ m \in Nat /\ a \in Nat /\ b \in 0..8
      /\ (b = 0 => m = a) /\ (b > 0 => m = a + 1)
  BY CountIs
<1>2. \A k \in 1..m : t[k] = IF k = 1 /\ b > 0 THEN l ELSE c
  BY DEF FrontCounts
<1>3. m <= N
  OBVIOUS
<1> HIDE DEF m, a, b
<1>4. Total(t, 0) = 0
  BY TotalIs
<1>5. ASSUME NEW k \in 1..m PROVE Total(t, k) = t[1] + c * (k - 1)
  <2>1. 1 \in 1..N /\ k - 1 \in Nat /\ 1 + (k - 1) = k /\ k <= N
    BY <1>1, <1>3
  <2>2. Total(t, 1) = t[1]
    <3>1. Total(t, 1) = Total(t, 1 - 1) + t[1] /\ 1 - 1 = 0
      BY <2>1, TotalIs
    <3>2. t[1] \in Int
      BY <2>1
    <3> QED
      BY <1>4, <3>1, <3>2
  <2> DEFINE j == k - 1
  <2>3. \A i \in (1 + 1)..(1 + j) : t[i] = c
    <3> TAKE i \in (1 + 1)..(1 + j)
    <3>1. i \in 1..m /\ i # 1
      BY <1>1
    <3> QED
      BY <1>2, <3>1
  <2>4. j \in Nat /\ 1 + j <= N /\ 1 \in Nat
    BY <2>1
  <2> HIDE DEF j
  <2>5. Total(t, 1 + j) = Total(t, 1) + c * j
    BY <2>3, <2>4, TotalRun DEF Runs
  <2> QED
    BY <2>1, <2>2, <2>5 DEF j
<1>6. Total(t, m) = (IF b > 0 THEN l ELSE 0) + c * a
  <2>1. CASE m = 0
    <3>1. a = 0 /\ ~(b > 0)
      BY <1>1, <2>1
    <3>2. c * a = 0
      BY <3>1
    <3> QED
      BY <1>4, <2>1, <3>1, <3>2
  <2>2. CASE m # 0
    <3>1. m \in 1..m /\ 1 \in 1..m
      BY <1>1, <2>2
    <3>2. Total(t, m) = t[1] + c * (m - 1)
      BY <1>5, <3>1
    <3>3. CASE b > 0
      <4>1. t[1] = l /\ m - 1 = a
        BY <1>1, <1>2, <3>1, <3>3
      <4> QED
        BY <3>2, <3>3, <4>1
    <3>4. CASE ~(b > 0)
      <4>1. t[1] = c /\ m = a
        BY <1>1, <1>2, <3>1, <3>4
      <4>2. c + c * (a - 1) = 0 + c * a
        BY <1>1
      <4> QED
        BY <3>2, <3>4, <4>1, <4>2
    <3> QED
      BY <3>3, <3>4
  <2> QED
    BY <2>1, <2>2
<1> QED
  BY <1>5, <1>6 DEF m, a, b, FrontSums

\* The same of the fraction, whose last group may have fewer digits.
BackCounts(t, from, n, c, l) ==
    \A k \in 1..Count(n) : t[from + k] = IF k > n \div 9 THEN l ELSE c

BackSums(t, from, n, c, l) ==
    /\ Total(t, from + Count(n))
         = Total(t, from) + c * (n \div 9) + (IF n % 9 > 0 THEN l ELSE 0)
    /\ \A k \in 1..Count(n) :
         Total(t, from + (k - 1)) = Total(t, from) + c * (k - 1)

LEMMA BackTotal ==
    ASSUME NEW N \in Nat, NEW t, \A k \in 1..N : t[k] \in Int,
           NEW from \in Nat, NEW n \in Nat, from + Count(n) <= N,
           NEW c \in Int, NEW l \in Int, BackCounts(t, from, n, c, l)
    PROVE  BackSums(t, from, n, c, l)
<1> DEFINE m == Count(n)
           a == n \div 9
           b == n % 9
<1>1. /\ m \in Nat /\ a \in Nat /\ b \in 0..8
      /\ (b = 0 => m = a) /\ (b > 0 => m = a + 1)
  BY CountIs
<1>2. \A k \in 1..m : t[from + k] = IF k > a THEN l ELSE c
  BY DEF BackCounts
<1>3. from + m <= N
  OBVIOUS
<1> HIDE DEF m, a, b
<1>4. ASSUME NEW j \in Nat, j <= a
      PROVE  Total(t, from + j) = Total(t, from) + c * j
  <2>1. from + j <= N
    BY <1>1, <1>3, <1>4
  <2>2. \A i \in (from + 1)..(from + j) : t[i] = c
    <3> TAKE i \in (from + 1)..(from + j)
    <3> DEFINE k == i - from
    <3>1. k \in 1..m /\ ~(k > a) /\ from + k = i
      BY <1>1, <1>4
    <3> HIDE DEF k
    <3> QED
      BY <1>2, <3>1
  <2>3. \A k \in 1..N : t[k] \in Int
    OBVIOUS
  <2>4. Runs(t, from, j, c)
    BY <2>1, <2>2, <2>3, TotalRun, Zenon
  <2> QED
    BY <2>4 DEF Runs
<1>5. \A k \in 1..m : Total(t, from + (k - 1)) = Total(t, from) + c * (k - 1)
  <2> TAKE k \in 1..m
  <2> DEFINE j == k - 1
  <2>1. j \in Nat /\ j <= a
    BY <1>1
  <2> HIDE DEF j
  <2>2. Total(t, from + j) = Total(t, from) + c * j
    BY <1>4, <2>1
  <2> QED
    BY <2>2 DEF j
<1> DEFINE x == Total(t, from)
<1>6. x \in Int
  <2>1. from \in 0..N
    BY <1>1, <1>3
  <2> QED
    BY <2>1, TotalIs
<1>7. Total(t, from + m) = x + c * a + (IF b > 0 THEN l ELSE 0)
  <2>1. a \in Nat /\ a <= a /\ Total(t, from + a) = x + c * a
    BY <1>1, <1>4
  <2> HIDE DEF x
  <2>2. CASE b > 0
    <3> DEFINE k == from + m
    <3>1. k \in 1..N /\ k - 1 = from + a /\ m \in 1..m /\ m > a
      BY <1>1, <1>3, <2>2
    <3>2. t[k] = l
      BY <1>2, <3>1
    <3> HIDE DEF k
    <3>3. Total(t, k) = Total(t, k - 1) + t[k]
      BY <3>1, TotalIs
    <3>4. Total(t, k) = x + c * a + l
      BY <2>1, <3>1, <3>2, <3>3
    <3> QED
      BY <2>2, <3>4 DEF k
  <2>3. CASE ~(b > 0)
    <3>1. m = a
      BY <1>1, <2>3
    <3> DEFINE y == c * a
    <3>2. y \in Int
      BY <1>1
    <3> HIDE DEF y
    <3>3. x + y + 0 = x + y
      BY <1>6, <3>2
    <3> QED
      BY <2>1, <2>3, <3>1, <3>3 DEF y
  <2> QED
    BY <2>2, <2>3
<1> QED
  BY <1>5, <1>7 DEF m, a, b, x, BackSums

-----------------------------------------------------------------------------
(* The digits of a word *)

LEMMA TenPowers ==
    /\ 10^0 = 1 /\ 10^1 = 10 /\ 10^2 = 100 /\ 10^3 = 1000 /\ 10^4 = 10000
    /\ 10^5 = 100000 /\ 10^6 = 1000000 /\ 10^7 = 10000000
    /\ 10^8 = 100000000 /\ 10^9 = 1000000000
BY SMT

\* The number of nine digits, and what its digits are.
Nine(e) ==
    e[1] * 100000000 + e[2] * 10000000 + e[3] * 1000000 + e[4] * 100000
      + e[5] * 10000 + e[6] * 1000 + e[7] * 100 + e[8] * 10 + e[9]

HasDigits(x, e) ==
    /\ x \in Nat
    /\ \A k \in 1..9 : (x \div 10^(9 - k)) % 10 = e[k]

LEMMA NineDigits ==
    ASSUME NEW e, \A j \in 1..9 : e[j] \in 0..9
    PROVE  HasDigits(Nine(e), e)
<1> DEFINE a1 == e[1]
           a2 == e[2]
           a3 == e[3]
           a4 == e[4]
           a5 == e[5]
           a6 == e[6]
           a7 == e[7]
           a8 == e[8]
           a9 == e[9]
           x == Nine(e)
<1>1. /\ a1 \in 0..9 /\ a2 \in 0..9 /\ a3 \in 0..9
      /\ a4 \in 0..9 /\ a5 \in 0..9 /\ a6 \in 0..9
      /\ a7 \in 0..9 /\ a8 \in 0..9 /\ a9 \in 0..9
  OBVIOUS
<1>2. x = 100000000 * a1 + 10000000 * a2 + 1000000 * a3 + 100000 * a4
            + 10000 * a5 + 1000 * a6 + 100 * a7 + 10 * a8 + a9
  BY <1>1, SMT DEF Nine
<1> HIDE DEF x, a1, a2, a3, a4, a5, a6, a7, a8, a9
<1>3. x \in Nat
  BY <1>1, <1>2, SMT
<1>4. (x \div 10^8) % 10 = a1
  <2> DEFINE h == 0
             l == 10000000 * a2 + 1000000 * a3 + 100000 * a4 + 10000 * a5
                  + 1000 * a6 + 100 * a7 + 10 * a8 + a9
  <2>1. x = (10 * h + a1) * 100000000 + l
    BY <1>1, <1>2, SMT
  <2>2. h \in Nat /\ l \in Nat /\ l < 100000000
    BY <1>1, SMT
  <2> HIDE DEF h, l
  <2>3. x \div 10^8 = 10 * h + a1
    BY <1>1, <2>1, <2>2, TenPowers, SMT
  <2>4. (10 * h + a1) % 10 = a1
    BY <1>1, <2>2, SMT
  <2> QED
    BY <2>3, <2>4, Zenon
<1>5. (x \div 10^7) % 10 = a2
  <2> DEFINE h == a1
             l == 1000000 * a3 + 100000 * a4 + 10000 * a5 + 1000 * a6
                  + 100 * a7 + 10 * a8 + a9
  <2>1. x = (10 * h + a2) * 10000000 + l
    BY <1>1, <1>2, SMT
  <2>2. h \in Nat /\ l \in Nat /\ l < 10000000
    BY <1>1, SMT
  <2> HIDE DEF h, l
  <2>3. x \div 10^7 = 10 * h + a2
    BY <1>1, <2>1, <2>2, TenPowers, SMT
  <2>4. (10 * h + a2) % 10 = a2
    BY <1>1, <2>2, SMT
  <2> QED
    BY <2>3, <2>4, Zenon
<1>6. (x \div 10^6) % 10 = a3
  <2> DEFINE h == 10 * a1 + a2
             l == 100000 * a4 + 10000 * a5 + 1000 * a6 + 100 * a7 + 10 * a8
                  + a9
  <2>1. x = (10 * h + a3) * 1000000 + l
    BY <1>1, <1>2, SMT
  <2>2. h \in Nat /\ l \in Nat /\ l < 1000000
    BY <1>1, SMT
  <2> HIDE DEF h, l
  <2>3. x \div 10^6 = 10 * h + a3
    BY <1>1, <2>1, <2>2, TenPowers, SMT
  <2>4. (10 * h + a3) % 10 = a3
    BY <1>1, <2>2, SMT
  <2> QED
    BY <2>3, <2>4, Zenon
<1>7. (x \div 10^5) % 10 = a4
  <2> DEFINE h == 100 * a1 + 10 * a2 + a3
             l == 10000 * a5 + 1000 * a6 + 100 * a7 + 10 * a8 + a9
  <2>1. x = (10 * h + a4) * 100000 + l
    BY <1>1, <1>2, SMT
  <2>2. h \in Nat /\ l \in Nat /\ l < 100000
    BY <1>1, SMT
  <2> HIDE DEF h, l
  <2>3. x \div 10^5 = 10 * h + a4
    BY <1>1, <2>1, <2>2, TenPowers, SMT
  <2>4. (10 * h + a4) % 10 = a4
    BY <1>1, <2>2, SMT
  <2> QED
    BY <2>3, <2>4, Zenon
<1>8. (x \div 10^4) % 10 = a5
  <2> DEFINE h == 1000 * a1 + 100 * a2 + 10 * a3 + a4
             l == 1000 * a6 + 100 * a7 + 10 * a8 + a9
  <2>1. x = (10 * h + a5) * 10000 + l
    BY <1>1, <1>2, SMT
  <2>2. h \in Nat /\ l \in Nat /\ l < 10000
    BY <1>1, SMT
  <2> HIDE DEF h, l
  <2>3. x \div 10^4 = 10 * h + a5
    BY <1>1, <2>1, <2>2, TenPowers, SMT
  <2>4. (10 * h + a5) % 10 = a5
    BY <1>1, <2>2, SMT
  <2> QED
    BY <2>3, <2>4, Zenon
<1>9. (x \div 10^3) % 10 = a6
  <2> DEFINE h == 10000 * a1 + 1000 * a2 + 100 * a3 + 10 * a4 + a5
             l == 100 * a7 + 10 * a8 + a9
  <2>1. x = (10 * h + a6) * 1000 + l
    BY <1>1, <1>2, SMT
  <2>2. h \in Nat /\ l \in Nat /\ l < 1000
    BY <1>1, SMT
  <2> HIDE DEF h, l
  <2>3. x \div 10^3 = 10 * h + a6
    BY <1>1, <2>1, <2>2, TenPowers, SMT
  <2>4. (10 * h + a6) % 10 = a6
    BY <1>1, <2>2, SMT
  <2> QED
    BY <2>3, <2>4, Zenon
<1>10. (x \div 10^2) % 10 = a7
  <2> DEFINE h == 100000 * a1 + 10000 * a2 + 1000 * a3 + 100 * a4 + 10 * a5
                  + a6
             l == 10 * a8 + a9
  <2>1. x = (10 * h + a7) * 100 + l
    BY <1>1, <1>2, SMT
  <2>2. h \in Nat /\ l \in Nat /\ l < 100
    BY <1>1, SMT
  <2> HIDE DEF h, l
  <2>3. x \div 10^2 = 10 * h + a7
    BY <1>1, <2>1, <2>2, TenPowers, SMT
  <2>4. (10 * h + a7) % 10 = a7
    BY <1>1, <2>2, SMT
  <2> QED
    BY <2>3, <2>4, Zenon
<1>11. (x \div 10^1) % 10 = a8
  <2> DEFINE h == 1000000 * a1 + 100000 * a2 + 10000 * a3 + 1000 * a4
                  + 100 * a5 + 10 * a6 + a7
             l == a9
  <2>1. x = (10 * h + a8) * 10 + l
    BY <1>1, <1>2, SMT
  <2>2. h \in Nat /\ l \in Nat /\ l < 10
    BY <1>1, SMT
  <2> HIDE DEF h, l
  <2>3. x \div 10^1 = 10 * h + a8
    BY <1>1, <2>1, <2>2, TenPowers, SMT
  <2>4. (10 * h + a8) % 10 = a8
    BY <1>1, <2>2, SMT
  <2> QED
    BY <2>3, <2>4, Zenon
<1>12. (x \div 10^0) % 10 = a9
  <2>1. x \div 1 = x /\ x % 10 = a9
    BY <1>1, <1>2, <1>3, SMT
  <2> QED
    BY <2>1, TenPowers
<1>13. ASSUME NEW k \in 1..9 PROVE (x \div 10^(9 - k)) % 10 = e[k]
  <2>1. k \in {1, 2, 3, 4, 5, 6, 7, 8, 9}
    BY SMT
  <2>2. CASE k = 1
    <3>1. 9 - k = 8
      BY <2>2, SMT
    <3> QED
      BY <1>4, <2>2, <3>1, Zenon DEF a1
  <2>3. CASE k = 2
    <3>1. 9 - k = 7
      BY <2>3, SMT
    <3> QED
      BY <1>5, <2>3, <3>1, Zenon DEF a2
  <2>4. CASE k = 3
    <3>1. 9 - k = 6
      BY <2>4, SMT
    <3> QED
      BY <1>6, <2>4, <3>1, Zenon DEF a3
  <2>5. CASE k = 4
    <3>1. 9 - k = 5
      BY <2>5, SMT
    <3> QED
      BY <1>7, <2>5, <3>1, Zenon DEF a4
  <2>6. CASE k = 5
    <3>1. 9 - k = 4
      BY <2>6, SMT
    <3> QED
      BY <1>8, <2>6, <3>1, Zenon DEF a5
  <2>7. CASE k = 6
    <3>1. 9 - k = 3
      BY <2>7, SMT
    <3> QED
      BY <1>9, <2>7, <3>1, Zenon DEF a6
  <2>8. CASE k = 7
    <3>1. 9 - k = 2
      BY <2>8, SMT
    <3> QED
      BY <1>10, <2>8, <3>1, Zenon DEF a7
  <2>9. CASE k = 8
    <3>1. 9 - k = 1
      BY <2>9, SMT
    <3> QED
      BY <1>11, <2>9, <3>1, Zenon DEF a8
  <2>10. CASE k = 9
    <3>1. 9 - k = 0
      BY <2>10, SMT
    <3> QED
      BY <1>12, <2>10, <3>1, Zenon DEF a9
  <2> QED
    BY <2>1, <2>2, <2>3, <2>4, <2>5, <2>6, <2>7, <2>8, <2>9, <2>10, Zenon
<1> QED
  BY <1>3, <1>13 DEF x, HasDigits

\* The sum of up to nine numbers.
LEMMA SumsToNine ==
    ASSUME NEW n \in 1..9, NEW t, \A k \in 1..n : t[k] \in Int
    PROVE  /\ Total(t, 1) = t[1]
           /\ n >= 2 => Total(t, 2) = t[1] + t[2]
           /\ n >= 3 => Total(t, 3) = t[1] + t[2] + t[3]
           /\ n >= 4 => Total(t, 4) = t[1] + t[2] + t[3] + t[4]
           /\ n >= 5 => Total(t, 5) = t[1] + t[2] + t[3] + t[4] + t[5]
           /\ n >= 6 => Total(t, 6) = t[1] + t[2] + t[3] + t[4] + t[5] + t[6]
           /\ n >= 7 => Total(t, 7) = t[1] + t[2] + t[3] + t[4] + t[5] + t[6] + t[7]
           /\ n >= 8 => Total(t, 8) = t[1] + t[2] + t[3] + t[4] + t[5] + t[6] + t[7] + t[8]
           /\ n >= 9 => Total(t, 9) = t[1] + t[2] + t[3] + t[4] + t[5] + t[6] + t[7] + t[8] + t[9]
<1>1. n \in Nat /\ \A k \in 1..n : Total(t, k) = Total(t, k - 1) + t[k]
  BY TotalIs
<1>2. Total(t, 0) = 0
  BY <1>1, TotalIs
<1>3. Total(t, 1) = t[1]
  <2>1. 1 \in 1..n /\ 1 - 1 = 0
    OBVIOUS
  <2>2. Total(t, 1) = 0 + t[1] /\ t[1] \in Int
    BY <1>1, <1>2, <2>1, Zenon
  <2> QED
    BY <2>2
<1>4. n >= 2 => Total(t, 2) = Total(t, 1) + t[2]
  <2>1. n >= 2 => 2 \in 1..n /\ 2 - 1 = 1
    OBVIOUS
  <2> QED
    BY <1>1, <2>1, Zenon
<1>5. n >= 3 => Total(t, 3) = Total(t, 2) + t[3]
  <2>1. n >= 3 => 3 \in 1..n /\ 3 - 1 = 2
    OBVIOUS
  <2> QED
    BY <1>1, <2>1, Zenon
<1>6. n >= 4 => Total(t, 4) = Total(t, 3) + t[4]
  <2>1. n >= 4 => 4 \in 1..n /\ 4 - 1 = 3
    OBVIOUS
  <2> QED
    BY <1>1, <2>1, Zenon
<1>7. n >= 5 => Total(t, 5) = Total(t, 4) + t[5]
  <2>1. n >= 5 => 5 \in 1..n /\ 5 - 1 = 4
    OBVIOUS
  <2> QED
    BY <1>1, <2>1, Zenon
<1>8. n >= 6 => Total(t, 6) = Total(t, 5) + t[6]
  <2>1. n >= 6 => 6 \in 1..n /\ 6 - 1 = 5
    OBVIOUS
  <2> QED
    BY <1>1, <2>1, Zenon
<1>9. n >= 7 => Total(t, 7) = Total(t, 6) + t[7]
  <2>1. n >= 7 => 7 \in 1..n /\ 7 - 1 = 6
    OBVIOUS
  <2> QED
    BY <1>1, <2>1, Zenon
<1>10. n >= 8 => Total(t, 8) = Total(t, 7) + t[8]
  <2>1. n >= 8 => 8 \in 1..n /\ 8 - 1 = 7
    OBVIOUS
  <2> QED
    BY <1>1, <2>1, Zenon
<1>11. n >= 9 => Total(t, 9) = Total(t, 8) + t[9]
  <2>1. n >= 9 => 9 \in 1..n /\ 9 - 1 = 8
    OBVIOUS
  <2> QED
    BY <1>1, <2>1, Zenon
<1> QED
  BY <1>3, <1>4, <1>5, <1>6, <1>7,
     <1>8, <1>9, <1>10, <1>11

\* The word of n digits from place from + 1 on, and the same with nine digits,
\* those that are missing being zeros in front or behind.
WordOf(d, from, n) == SumOf([j \in 1..n |-> d[from + j] * 10^(n - j)])
InFront(d, from, n) == [j \in 1..9 |-> IF j > 9 - n THEN d[from + (j - (9 - n))] ELSE 0]
Behind(d, from, n) == [j \in 1..9 |-> IF j <= n THEN d[from + j] ELSE 0]

IsWord(d, from, n) ==
    LET w == WordOf(d, from, n)
    IN  /\ w \in Nat /\ w < 10^n
        /\ w = Nine(InFront(d, from, n))
        /\ w * 10^(9 - n) = Nine(Behind(d, from, n))

LEMMA WordIsNine ==
    ASSUME NEW d, NEW from \in Nat, NEW n \in 1..9,
           \A j \in 1..n : d[from + j] \in 0..9
    PROVE  IsWord(d, from, n)
<1> DEFINE t == [j \in 1..n |-> d[from + j] * 10^(n - j)]
           w == WordOf(d, from, n)
           f == InFront(d, from, n)
           b == Behind(d, from, n)
<1>1. w = Total(t, n)
  <2>1. t = [j \in 1..n |-> t[j]]
    OBVIOUS
  <2> QED
    BY <2>1, Zenon DEF Total, WordOf
<1>2. /\ \A j \in 1..n : t[j] = d[from + j] * 10^(n - j)
      /\ \A j \in 1..9 : f[j] = IF j > 9 - n THEN d[from + (j - (9 - n))] ELSE 0
      /\ \A j \in 1..9 : b[j] = IF j <= n THEN d[from + j] ELSE 0
  BY Zenon DEF InFront, Behind
<1> HIDE DEF t, w, f, b
<1>3. CASE n = 1
  <2> DEFINE a1 == d[from + 1]
  <2>1. a1 \in 0..9
    BY <1>3
  <2>2. t[1] = 1 * a1
    <3>1. t[1] = a1 * 10^0
      <4>1. 1 - 1 = 0
        OBVIOUS
      <4>2. 1 \in 1..1
        OBVIOUS
      <4> QED
        BY <1>2, <1>3, <4>1, <4>2, Zenon
    <3> HIDE DEF a1
    <3> QED
      BY <2>1, <3>1, TenPowers, SMT
  <2>3. /\ f[1] = 0 /\ f[2] = 0 /\ f[3] = 0 /\ f[4] = 0 /\ f[5] = 0
        /\ f[6] = 0 /\ f[7] = 0 /\ f[8] = 0 /\ f[9] = a1
    <3>1. 9 - (9 - 1) = 1
      OBVIOUS
    <3> QED
      BY <1>2, <1>3, <3>1
  <2>4. /\ b[1] = a1 /\ b[2] = 0 /\ b[3] = 0 /\ b[4] = 0 /\ b[5] = 0
        /\ b[6] = 0 /\ b[7] = 0 /\ b[8] = 0 /\ b[9] = 0
    BY <1>2, <1>3
  <2> HIDE DEF a1
  <2>5. Total(t, 1) = t[1]
    <3>1. \A k \in 1..n : t[k] \in Int
      BY <1>3, <2>1, <2>2, SMT
    <3> QED
      BY <1>3, <3>1, SumsToNine
  <2>6. w \in Nat /\ w < 10^1 /\ w = Nine(f) /\ w * 10^8 = Nine(b)
    BY <1>1, <1>3, <2>1, <2>2, <2>3, <2>4, <2>5, TenPowers, SMT DEF Nine
  <2>7. 9 - 1 = 8
    OBVIOUS
  <2> QED
    BY <1>3, <2>6, <2>7, Zenon DEF IsWord, w, f, b
<1>4. CASE n = 2
  <2> DEFINE a1 == d[from + 1]
             a2 == d[from + 2]
  <2>1. a1 \in 0..9 /\ a2 \in 0..9
    BY <1>4
  <2>2. t[1] = 10 * a1 /\ t[2] = 1 * a2
    <3>1. t[1] = a1 * 10^1 /\ t[2] = a2 * 10^0
      <4>1. 2 - 1 = 1 /\ 2 - 2 = 0
        OBVIOUS
      <4>2. 1 \in 1..2 /\ 2 \in 1..2
        OBVIOUS
      <4> QED
        BY <1>2, <1>4, <4>1, <4>2, Zenon
    <3> HIDE DEF a1, a2
    <3> QED
      BY <2>1, <3>1, TenPowers, SMT
  <2>3. /\ f[1] = 0 /\ f[2] = 0 /\ f[3] = 0 /\ f[4] = 0 /\ f[5] = 0
        /\ f[6] = 0 /\ f[7] = 0 /\ f[8] = a1 /\ f[9] = a2
    <3>1. 8 - (9 - 2) = 1 /\ 9 - (9 - 2) = 2
      OBVIOUS
    <3> QED
      BY <1>2, <1>4, <3>1
  <2>4. /\ b[1] = a1 /\ b[2] = a2 /\ b[3] = 0 /\ b[4] = 0 /\ b[5] = 0
        /\ b[6] = 0 /\ b[7] = 0 /\ b[8] = 0 /\ b[9] = 0
    BY <1>2, <1>4
  <2> HIDE DEF a1, a2
  <2>5. Total(t, 2) = t[1] + t[2]
    <3>1. \A k \in 1..n : t[k] \in Int
      BY <1>4, <2>1, <2>2, SMT
    <3> QED
      BY <1>4, <3>1, SumsToNine
  <2>6. w \in Nat /\ w < 10^2 /\ w = Nine(f) /\ w * 10^7 = Nine(b)
    BY <1>1, <1>4, <2>1, <2>2, <2>3, <2>4, <2>5, TenPowers, SMT DEF Nine
  <2>7. 9 - 2 = 7
    OBVIOUS
  <2> QED
    BY <1>4, <2>6, <2>7, Zenon DEF IsWord, w, f, b
<1>5. CASE n = 3
  <2> DEFINE a1 == d[from + 1]
             a2 == d[from + 2]
             a3 == d[from + 3]
  <2>1. a1 \in 0..9 /\ a2 \in 0..9 /\ a3 \in 0..9
    BY <1>5
  <2>2. t[1] = 100 * a1 /\ t[2] = 10 * a2 /\ t[3] = 1 * a3
    <3>1. t[1] = a1 * 10^2 /\ t[2] = a2 * 10^1 /\ t[3] = a3 * 10^0
      <4>1. 3 - 1 = 2 /\ 3 - 2 = 1 /\ 3 - 3 = 0
        OBVIOUS
      <4>2. 1 \in 1..3 /\ 2 \in 1..3 /\ 3 \in 1..3
        OBVIOUS
      <4> QED
        BY <1>2, <1>5, <4>1, <4>2, Zenon
    <3> HIDE DEF a1, a2, a3
    <3> QED
      BY <2>1, <3>1, TenPowers, SMT
  <2>3. /\ f[1] = 0 /\ f[2] = 0 /\ f[3] = 0 /\ f[4] = 0 /\ f[5] = 0
        /\ f[6] = 0 /\ f[7] = a1 /\ f[8] = a2 /\ f[9] = a3
    <3>1. 7 - (9 - 3) = 1 /\ 8 - (9 - 3) = 2 /\ 9 - (9 - 3) = 3
      OBVIOUS
    <3> QED
      BY <1>2, <1>5, <3>1
  <2>4. /\ b[1] = a1 /\ b[2] = a2 /\ b[3] = a3 /\ b[4] = 0 /\ b[5] = 0
        /\ b[6] = 0 /\ b[7] = 0 /\ b[8] = 0 /\ b[9] = 0
    BY <1>2, <1>5
  <2> HIDE DEF a1, a2, a3
  <2>5. Total(t, 3) = t[1] + t[2] + t[3]
    <3>1. \A k \in 1..n : t[k] \in Int
      BY <1>5, <2>1, <2>2, SMT
    <3> QED
      BY <1>5, <3>1, SumsToNine
  <2>6. w \in Nat /\ w < 10^3 /\ w = Nine(f) /\ w * 10^6 = Nine(b)
    BY <1>1, <1>5, <2>1, <2>2, <2>3, <2>4, <2>5, TenPowers, SMT DEF Nine
  <2>7. 9 - 3 = 6
    OBVIOUS
  <2> QED
    BY <1>5, <2>6, <2>7, Zenon DEF IsWord, w, f, b
<1>6. CASE n = 4
  <2> DEFINE a1 == d[from + 1]
             a2 == d[from + 2]
             a3 == d[from + 3]
             a4 == d[from + 4]
  <2>1. a1 \in 0..9 /\ a2 \in 0..9 /\ a3 \in 0..9 /\ a4 \in 0..9
    BY <1>6
  <2>2. /\ t[1] = 1000 * a1 /\ t[2] = 100 * a2 /\ t[3] = 10 * a3
        /\ t[4] = 1 * a4
    <3>1. /\ t[1] = a1 * 10^3 /\ t[2] = a2 * 10^2 /\ t[3] = a3 * 10^1
          /\ t[4] = a4 * 10^0
      <4>1. 4 - 1 = 3 /\ 4 - 2 = 2 /\ 4 - 3 = 1 /\ 4 - 4 = 0
        OBVIOUS
      <4>2. 1 \in 1..4 /\ 2 \in 1..4 /\ 3 \in 1..4 /\ 4 \in 1..4
        OBVIOUS
      <4> QED
        BY <1>2, <1>6, <4>1, <4>2, Zenon
    <3> HIDE DEF a1, a2, a3, a4
    <3> QED
      BY <2>1, <3>1, TenPowers, SMT
  <2>3. /\ f[1] = 0 /\ f[2] = 0 /\ f[3] = 0 /\ f[4] = 0 /\ f[5] = 0
        /\ f[6] = a1 /\ f[7] = a2 /\ f[8] = a3 /\ f[9] = a4
    <3>1. /\ 6 - (9 - 4) = 1 /\ 7 - (9 - 4) = 2 /\ 8 - (9 - 4) = 3
          /\ 9 - (9 - 4) = 4
      OBVIOUS
    <3> QED
      BY <1>2, <1>6, <3>1
  <2>4. /\ b[1] = a1 /\ b[2] = a2 /\ b[3] = a3 /\ b[4] = a4 /\ b[5] = 0
        /\ b[6] = 0 /\ b[7] = 0 /\ b[8] = 0 /\ b[9] = 0
    BY <1>2, <1>6
  <2> HIDE DEF a1, a2, a3, a4
  <2>5. Total(t, 4) = t[1] + t[2] + t[3] + t[4]
    <3>1. \A k \in 1..n : t[k] \in Int
      BY <1>6, <2>1, <2>2, SMT
    <3> QED
      BY <1>6, <3>1, SumsToNine
  <2>6. w \in Nat /\ w < 10^4 /\ w = Nine(f) /\ w * 10^5 = Nine(b)
    BY <1>1, <1>6, <2>1, <2>2, <2>3, <2>4, <2>5, TenPowers, SMT DEF Nine
  <2>7. 9 - 4 = 5
    OBVIOUS
  <2> QED
    BY <1>6, <2>6, <2>7, Zenon DEF IsWord, w, f, b
<1>7. CASE n = 5
  <2> DEFINE a1 == d[from + 1]
             a2 == d[from + 2]
             a3 == d[from + 3]
             a4 == d[from + 4]
             a5 == d[from + 5]
  <2>1. /\ a1 \in 0..9 /\ a2 \in 0..9 /\ a3 \in 0..9 /\ a4 \in 0..9
        /\ a5 \in 0..9
    BY <1>7
  <2>2. /\ t[1] = 10000 * a1 /\ t[2] = 1000 * a2 /\ t[3] = 100 * a3
        /\ t[4] = 10 * a4 /\ t[5] = 1 * a5
    <3>1. /\ t[1] = a1 * 10^4 /\ t[2] = a2 * 10^3 /\ t[3] = a3 * 10^2
          /\ t[4] = a4 * 10^1 /\ t[5] = a5 * 10^0
      <4>1. 5 - 1 = 4 /\ 5 - 2 = 3 /\ 5 - 3 = 2 /\ 5 - 4 = 1 /\ 5 - 5 = 0
        OBVIOUS
      <4>2. /\ 1 \in 1..5 /\ 2 \in 1..5 /\ 3 \in 1..5 /\ 4 \in 1..5
            /\ 5 \in 1..5
        OBVIOUS
      <4> QED
        BY <1>2, <1>7, <4>1, <4>2, Zenon
    <3> HIDE DEF a1, a2, a3, a4, a5
    <3> QED
      BY <2>1, <3>1, TenPowers, SMT
  <2>3. /\ f[1] = 0 /\ f[2] = 0 /\ f[3] = 0 /\ f[4] = 0 /\ f[5] = a1
        /\ f[6] = a2 /\ f[7] = a3 /\ f[8] = a4 /\ f[9] = a5
    <3>1. /\ 5 - (9 - 5) = 1 /\ 6 - (9 - 5) = 2 /\ 7 - (9 - 5) = 3
          /\ 8 - (9 - 5) = 4 /\ 9 - (9 - 5) = 5
      OBVIOUS
    <3> QED
      BY <1>2, <1>7, <3>1
  <2>4. /\ b[1] = a1 /\ b[2] = a2 /\ b[3] = a3 /\ b[4] = a4 /\ b[5] = a5
        /\ b[6] = 0 /\ b[7] = 0 /\ b[8] = 0 /\ b[9] = 0
    BY <1>2, <1>7
  <2> HIDE DEF a1, a2, a3, a4, a5
  <2>5. Total(t, 5) = t[1] + t[2] + t[3] + t[4] + t[5]
    <3>1. \A k \in 1..n : t[k] \in Int
      BY <1>7, <2>1, <2>2, SMT
    <3> QED
      BY <1>7, <3>1, SumsToNine
  <2>6. w \in Nat /\ w < 10^5 /\ w = Nine(f) /\ w * 10^4 = Nine(b)
    BY <1>1, <1>7, <2>1, <2>2, <2>3, <2>4, <2>5, TenPowers, SMT DEF Nine
  <2>7. 9 - 5 = 4
    OBVIOUS
  <2> QED
    BY <1>7, <2>6, <2>7, Zenon DEF IsWord, w, f, b
<1>8. CASE n = 6
  <2> DEFINE a1 == d[from + 1]
             a2 == d[from + 2]
             a3 == d[from + 3]
             a4 == d[from + 4]
             a5 == d[from + 5]
             a6 == d[from + 6]
  <2>1. /\ a1 \in 0..9 /\ a2 \in 0..9 /\ a3 \in 0..9 /\ a4 \in 0..9
        /\ a5 \in 0..9 /\ a6 \in 0..9
    BY <1>8
  <2>2. /\ t[1] = 100000 * a1 /\ t[2] = 10000 * a2 /\ t[3] = 1000 * a3
        /\ t[4] = 100 * a4 /\ t[5] = 10 * a5 /\ t[6] = 1 * a6
    <3>1. /\ t[1] = a1 * 10^5 /\ t[2] = a2 * 10^4 /\ t[3] = a3 * 10^3
          /\ t[4] = a4 * 10^2 /\ t[5] = a5 * 10^1 /\ t[6] = a6 * 10^0
      <4>1. /\ 6 - 1 = 5 /\ 6 - 2 = 4 /\ 6 - 3 = 3 /\ 6 - 4 = 2 /\ 6 - 5 = 1
            /\ 6 - 6 = 0
        OBVIOUS
      <4>2. /\ 1 \in 1..6 /\ 2 \in 1..6 /\ 3 \in 1..6 /\ 4 \in 1..6
            /\ 5 \in 1..6 /\ 6 \in 1..6
        OBVIOUS
      <4>3. t[1] = a1 * 10^5 /\ t[2] = a2 * 10^4 /\ t[3] = a3 * 10^3
        BY <1>2, <1>8, <4>1, <4>2, Zenon
      <4>4. t[4] = a4 * 10^2 /\ t[5] = a5 * 10^1 /\ t[6] = a6 * 10^0
        BY <1>2, <1>8, <4>1, <4>2, Zenon
      <4> QED
        BY <4>3, <4>4, Zenon
    <3> HIDE DEF a1, a2, a3, a4, a5, a6
    <3> QED
      BY <2>1, <3>1, TenPowers, SMT
  <2>3. /\ f[1] = 0 /\ f[2] = 0 /\ f[3] = 0 /\ f[4] = a1 /\ f[5] = a2
        /\ f[6] = a3 /\ f[7] = a4 /\ f[8] = a5 /\ f[9] = a6
    <3>1. /\ 4 - (9 - 6) = 1 /\ 5 - (9 - 6) = 2 /\ 6 - (9 - 6) = 3
          /\ 7 - (9 - 6) = 4 /\ 8 - (9 - 6) = 5 /\ 9 - (9 - 6) = 6
      OBVIOUS
    <3> QED
      BY <1>2, <1>8, <3>1
  <2>4. /\ b[1] = a1 /\ b[2] = a2 /\ b[3] = a3 /\ b[4] = a4 /\ b[5] = a5
        /\ b[6] = a6 /\ b[7] = 0 /\ b[8] = 0 /\ b[9] = 0
    BY <1>2, <1>8
  <2> HIDE DEF a1, a2, a3, a4, a5, a6
  <2>5. Total(t, 6) = t[1] + t[2] + t[3] + t[4] + t[5] + t[6]
    <3>1. \A k \in 1..n : t[k] \in Int
      BY <1>8, <2>1, <2>2, SMT
    <3> QED
      BY <1>8, <3>1, SumsToNine
  <2>6. w \in Nat /\ w < 10^6 /\ w = Nine(f) /\ w * 10^3 = Nine(b)
    BY <1>1, <1>8, <2>1, <2>2, <2>3, <2>4, <2>5, TenPowers, SMT DEF Nine
  <2>7. 9 - 6 = 3
    OBVIOUS
  <2> QED
    BY <1>8, <2>6, <2>7, Zenon DEF IsWord, w, f, b
<1>9. CASE n = 7
  <2> DEFINE a1 == d[from + 1]
             a2 == d[from + 2]
             a3 == d[from + 3]
             a4 == d[from + 4]
             a5 == d[from + 5]
             a6 == d[from + 6]
             a7 == d[from + 7]
  <2>1. /\ a1 \in 0..9 /\ a2 \in 0..9 /\ a3 \in 0..9 /\ a4 \in 0..9
        /\ a5 \in 0..9 /\ a6 \in 0..9 /\ a7 \in 0..9
    BY <1>9
  <2>2. /\ t[1] = 1000000 * a1 /\ t[2] = 100000 * a2 /\ t[3] = 10000 * a3
        /\ t[4] = 1000 * a4 /\ t[5] = 100 * a5 /\ t[6] = 10 * a6
        /\ t[7] = 1 * a7
    <3>1. /\ t[1] = a1 * 10^6 /\ t[2] = a2 * 10^5 /\ t[3] = a3 * 10^4
          /\ t[4] = a4 * 10^3 /\ t[5] = a5 * 10^2 /\ t[6] = a6 * 10^1
          /\ t[7] = a7 * 10^0
      <4>1. /\ 7 - 1 = 6 /\ 7 - 2 = 5 /\ 7 - 3 = 4 /\ 7 - 4 = 3 /\ 7 - 5 = 2
            /\ 7 - 6 = 1 /\ 7 - 7 = 0
        OBVIOUS
      <4>2. /\ 1 \in 1..7 /\ 2 \in 1..7 /\ 3 \in 1..7 /\ 4 \in 1..7
            /\ 5 \in 1..7 /\ 6 \in 1..7 /\ 7 \in 1..7
        OBVIOUS
      <4>3. t[1] = a1 * 10^6 /\ t[2] = a2 * 10^5 /\ t[3] = a3 * 10^4
        BY <1>2, <1>9, <4>1, <4>2, Zenon
      <4>4. /\ t[4] = a4 * 10^3 /\ t[5] = a5 * 10^2 /\ t[6] = a6 * 10^1
            /\ t[7] = a7 * 10^0
        BY <1>2, <1>9, <4>1, <4>2, Zenon
      <4> QED
        BY <4>3, <4>4, Zenon
    <3> HIDE DEF a1, a2, a3, a4, a5, a6, a7
    <3> QED
      BY <2>1, <3>1, TenPowers, SMT
  <2>3. /\ f[1] = 0 /\ f[2] = 0 /\ f[3] = a1 /\ f[4] = a2 /\ f[5] = a3
        /\ f[6] = a4 /\ f[7] = a5 /\ f[8] = a6 /\ f[9] = a7
    <3>1. /\ 3 - (9 - 7) = 1 /\ 4 - (9 - 7) = 2 /\ 5 - (9 - 7) = 3
          /\ 6 - (9 - 7) = 4 /\ 7 - (9 - 7) = 5 /\ 8 - (9 - 7) = 6
          /\ 9 - (9 - 7) = 7
      OBVIOUS
    <3> QED
      BY <1>2, <1>9, <3>1
  <2>4. /\ b[1] = a1 /\ b[2] = a2 /\ b[3] = a3 /\ b[4] = a4 /\ b[5] = a5
        /\ b[6] = a6 /\ b[7] = a7 /\ b[8] = 0 /\ b[9] = 0
    BY <1>2, <1>9
  <2> HIDE DEF a1, a2, a3, a4, a5, a6, a7
  <2>5. Total(t, 7) = t[1] + t[2] + t[3] + t[4] + t[5] + t[6] + t[7]
    <3>1. \A k \in 1..n : t[k] \in Int
      BY <1>9, <2>1, <2>2, SMT
    <3> QED
      BY <1>9, <3>1, SumsToNine
  <2>6. w \in Nat /\ w < 10^7 /\ w = Nine(f) /\ w * 10^2 = Nine(b)
    BY <1>1, <1>9, <2>1, <2>2, <2>3, <2>4, <2>5, TenPowers, SMT DEF Nine
  <2>7. 9 - 7 = 2
    OBVIOUS
  <2> QED
    BY <1>9, <2>6, <2>7, Zenon DEF IsWord, w, f, b
<1>10. CASE n = 8
  <2> DEFINE a1 == d[from + 1]
             a2 == d[from + 2]
             a3 == d[from + 3]
             a4 == d[from + 4]
             a5 == d[from + 5]
             a6 == d[from + 6]
             a7 == d[from + 7]
             a8 == d[from + 8]
  <2>1. /\ a1 \in 0..9 /\ a2 \in 0..9 /\ a3 \in 0..9 /\ a4 \in 0..9
        /\ a5 \in 0..9 /\ a6 \in 0..9 /\ a7 \in 0..9 /\ a8 \in 0..9
    BY <1>10
  <2>2. /\ t[1] = 10000000 * a1 /\ t[2] = 1000000 * a2 /\ t[3] = 100000 * a3
        /\ t[4] = 10000 * a4 /\ t[5] = 1000 * a5 /\ t[6] = 100 * a6
        /\ t[7] = 10 * a7 /\ t[8] = 1 * a8
    <3>1. /\ t[1] = a1 * 10^7 /\ t[2] = a2 * 10^6 /\ t[3] = a3 * 10^5
          /\ t[4] = a4 * 10^4 /\ t[5] = a5 * 10^3 /\ t[6] = a6 * 10^2
          /\ t[7] = a7 * 10^1 /\ t[8] = a8 * 10^0
      <4>1. /\ 8 - 1 = 7 /\ 8 - 2 = 6 /\ 8 - 3 = 5 /\ 8 - 4 = 4 /\ 8 - 5 = 3
            /\ 8 - 6 = 2 /\ 8 - 7 = 1 /\ 8 - 8 = 0
        OBVIOUS
      <4>2. /\ 1 \in 1..8 /\ 2 \in 1..8 /\ 3 \in 1..8 /\ 4 \in 1..8
            /\ 5 \in 1..8 /\ 6 \in 1..8 /\ 7 \in 1..8 /\ 8 \in 1..8
        OBVIOUS
      <4>3. /\ t[1] = a1 * 10^7 /\ t[2] = a2 * 10^6 /\ t[3] = a3 * 10^5
            /\ t[4] = a4 * 10^4
        BY <1>2, <1>10, <4>1, <4>2, Zenon
      <4>4. /\ t[5] = a5 * 10^3 /\ t[6] = a6 * 10^2 /\ t[7] = a7 * 10^1
            /\ t[8] = a8 * 10^0
        BY <1>2, <1>10, <4>1, <4>2, Zenon
      <4> QED
        BY <4>3, <4>4, Zenon
    <3> HIDE DEF a1, a2, a3, a4, a5, a6, a7, a8
    <3> QED
      BY <2>1, <3>1, TenPowers, SMT
  <2>3. /\ f[1] = 0 /\ f[2] = a1 /\ f[3] = a2 /\ f[4] = a3 /\ f[5] = a4
        /\ f[6] = a5 /\ f[7] = a6 /\ f[8] = a7 /\ f[9] = a8
    <3>1. /\ 2 - (9 - 8) = 1 /\ 3 - (9 - 8) = 2 /\ 4 - (9 - 8) = 3
          /\ 5 - (9 - 8) = 4 /\ 6 - (9 - 8) = 5 /\ 7 - (9 - 8) = 6
          /\ 8 - (9 - 8) = 7 /\ 9 - (9 - 8) = 8
      OBVIOUS
    <3> QED
      BY <1>2, <1>10, <3>1
  <2>4. /\ b[1] = a1 /\ b[2] = a2 /\ b[3] = a3 /\ b[4] = a4 /\ b[5] = a5
        /\ b[6] = a6 /\ b[7] = a7 /\ b[8] = a8 /\ b[9] = 0
    BY <1>2, <1>10
  <2> HIDE DEF a1, a2, a3, a4, a5, a6, a7, a8
  <2>5. Total(t, 8) = t[1] + t[2] + t[3] + t[4] + t[5] + t[6] + t[7] + t[8]
    <3>1. \A k \in 1..n : t[k] \in Int
      BY <1>10, <2>1, <2>2, SMT
    <3> QED
      BY <1>10, <3>1, SumsToNine
  <2>6. w \in Nat /\ w < 10^8 /\ w = Nine(f) /\ w * 10^1 = Nine(b)
    BY <1>1, <1>10, <2>1, <2>2, <2>3, <2>4, <2>5, TenPowers, SMT DEF Nine
  <2>7. 9 - 8 = 1
    OBVIOUS
  <2> QED
    BY <1>10, <2>6, <2>7, Zenon DEF IsWord, w, f, b
<1>11. CASE n = 9
  <2> DEFINE a1 == d[from + 1]
             a2 == d[from + 2]
             a3 == d[from + 3]
             a4 == d[from + 4]
             a5 == d[from + 5]
             a6 == d[from + 6]
             a7 == d[from + 7]
             a8 == d[from + 8]
             a9 == d[from + 9]
  <2>1. /\ a1 \in 0..9 /\ a2 \in 0..9 /\ a3 \in 0..9 /\ a4 \in 0..9
        /\ a5 \in 0..9 /\ a6 \in 0..9 /\ a7 \in 0..9 /\ a8 \in 0..9
        /\ a9 \in 0..9
    BY <1>11
  <2>2. /\ t[1] = 100000000 * a1 /\ t[2] = 10000000 * a2
        /\ t[3] = 1000000 * a3 /\ t[4] = 100000 * a4 /\ t[5] = 10000 * a5
        /\ t[6] = 1000 * a6 /\ t[7] = 100 * a7 /\ t[8] = 10 * a8
        /\ t[9] = 1 * a9
    <3>1. /\ t[1] = a1 * 10^8 /\ t[2] = a2 * 10^7 /\ t[3] = a3 * 10^6
          /\ t[4] = a4 * 10^5 /\ t[5] = a5 * 10^4 /\ t[6] = a6 * 10^3
          /\ t[7] = a7 * 10^2 /\ t[8] = a8 * 10^1 /\ t[9] = a9 * 10^0
      <4>1. /\ 9 - 1 = 8 /\ 9 - 2 = 7 /\ 9 - 3 = 6 /\ 9 - 4 = 5 /\ 9 - 5 = 4
            /\ 9 - 6 = 3 /\ 9 - 7 = 2 /\ 9 - 8 = 1 /\ 9 - 9 = 0
        OBVIOUS
      <4>2. /\ 1 \in 1..9 /\ 2 \in 1..9 /\ 3 \in 1..9 /\ 4 \in 1..9
            /\ 5 \in 1..9 /\ 6 \in 1..9 /\ 7 \in 1..9 /\ 8 \in 1..9
            /\ 9 \in 1..9
        OBVIOUS
      <4>3. /\ t[1] = a1 * 10^8 /\ t[2] = a2 * 10^7 /\ t[3] = a3 * 10^6
            /\ t[4] = a4 * 10^5
        BY <1>2, <1>11, <4>1, <4>2, Zenon
      <4>4. /\ t[5] = a5 * 10^4 /\ t[6] = a6 * 10^3 /\ t[7] = a7 * 10^2
            /\ t[8] = a8 * 10^1 /\ t[9] = a9 * 10^0
        BY <1>2, <1>11, <4>1, <4>2, ZenonT(40)
      <4> QED
        BY <4>3, <4>4, Zenon
    <3> HIDE DEF a1, a2, a3, a4, a5, a6, a7, a8, a9
    <3> QED
      BY <2>1, <3>1, TenPowers, SMT
  <2>3. /\ f[1] = a1 /\ f[2] = a2 /\ f[3] = a3 /\ f[4] = a4 /\ f[5] = a5
        /\ f[6] = a6 /\ f[7] = a7 /\ f[8] = a8 /\ f[9] = a9
    <3>1. /\ 1 - (9 - 9) = 1 /\ 2 - (9 - 9) = 2 /\ 3 - (9 - 9) = 3
          /\ 4 - (9 - 9) = 4 /\ 5 - (9 - 9) = 5 /\ 6 - (9 - 9) = 6
          /\ 7 - (9 - 9) = 7 /\ 8 - (9 - 9) = 8 /\ 9 - (9 - 9) = 9
      OBVIOUS
    <3> QED
      BY <1>2, <1>11, <3>1
  <2>4. /\ b[1] = a1 /\ b[2] = a2 /\ b[3] = a3 /\ b[4] = a4 /\ b[5] = a5
        /\ b[6] = a6 /\ b[7] = a7 /\ b[8] = a8 /\ b[9] = a9
    BY <1>2, <1>11
  <2> HIDE DEF a1, a2, a3, a4, a5, a6, a7, a8, a9
  <2>5. Total(t, 9) = t[1] + t[2] + t[3] + t[4] + t[5] + t[6] + t[7] + t[8] + t[9]
    <3>1. \A k \in 1..n : t[k] \in Int
      BY <1>11, <2>1, <2>2, SMT
    <3> QED
      BY <1>11, <3>1, SumsToNine
  <2>6. w \in Nat /\ w < 10^9 /\ w = Nine(f) /\ w * 10^0 = Nine(b)
    BY <1>1, <1>11, <2>1, <2>2, <2>3, <2>4, <2>5, TenPowers, SMT DEF Nine
  <2>7. 9 - 9 = 0
    OBVIOUS
  <2> QED
    BY <1>11, <2>6, <2>7, Zenon DEF IsWord, w, f, b
<1> QED
  BY <1>3, <1>4, <1>5, <1>6, <1>7, <1>8, <1>9, <1>10, <1>11

LEMMA NineZero ==
    ASSUME NEW e, \A j \in 1..9 : e[j] \in 0..9, Nine(e) = 0
    PROVE  \A j \in 1..9 : e[j] = 0
<1> DEFINE a1 == e[1]
           a2 == e[2]
           a3 == e[3]
           a4 == e[4]
           a5 == e[5]
           a6 == e[6]
           a7 == e[7]
           a8 == e[8]
           a9 == e[9]
<1>1. /\ a1 \in 0..9 /\ a2 \in 0..9 /\ a3 \in 0..9
      /\ a4 \in 0..9 /\ a5 \in 0..9 /\ a6 \in 0..9
      /\ a7 \in 0..9 /\ a8 \in 0..9 /\ a9 \in 0..9
  OBVIOUS
<1>2. 100000000 * a1 + 10000000 * a2 + 1000000 * a3 + 100000 * a4
         + 10000 * a5 + 1000 * a6 + 100 * a7 + 10 * a8 + a9 = 0
  BY <1>1, SMT DEF Nine
<1> HIDE DEF a1, a2, a3, a4, a5, a6, a7, a8, a9
<1>3. /\ a1 = 0 /\ a2 = 0 /\ a3 = 0 /\ a4 = 0 /\ a5 = 0
      /\ a6 = 0 /\ a7 = 0 /\ a8 = 0 /\ a9 = 0
  BY <1>1, <1>2, SMT
<1> QED
  BY <1>3 DEF a1, a2, a3, a4, a5, a6, a7, a8, a9

\* What is known of the word of n digits.
WordSays(d, from, n, w) ==
    /\ w \in Nat /\ w < 10^n
    /\ DigitsOf(w, n) = [k \in 1..n |-> d[from + k]]
    /\ \A k \in 1..n : DigitsOf(w * 10^(9 - n), 9)[k] = d[from + k]
    /\ w = 0 => \A k \in 1..n : d[from + k] = 0

LEMMA WordIs ==
    ASSUME NEW d, NEW from \in Nat, NEW n \in 1..9,
           \A j \in 1..n : d[from + j] \in 0..9
    PROVE  WordSays(d, from, n, WordOf(d, from, n))
<1> DEFINE w == WordOf(d, from, n)
           f == InFront(d, from, n)
           b == Behind(d, from, n)
<1>1. /\ w \in Nat /\ w < 10^n /\ w = Nine(f) /\ w * 10^(9 - n) = Nine(b)
  <2>1. IsWord(d, from, n)
    BY WordIsNine
  <2> QED
    BY <2>1, Zenon DEF IsWord
<1>2. /\ \A j \in 1..9 : f[j] = IF j > 9 - n THEN d[from + (j - (9 - n))] ELSE 0
      /\ \A j \in 1..9 : b[j] = IF j <= n THEN d[from + j] ELSE 0
  BY Zenon DEF InFront, Behind
<1> HIDE DEF w, f, b
<1>3. \A j \in 1..9 : f[j] \in 0..9
  <2> TAKE j \in 1..9
  <2> DEFINE i == j - (9 - n)
  <2>1. j > 9 - n => i \in 1..n
    OBVIOUS
  <2>2. f[j] = IF j > 9 - n THEN d[from + i] ELSE 0
    BY <1>2
  <2> HIDE DEF i
  <2> QED
    BY <2>1, <2>2
<1>4. \A j \in 1..9 : b[j] \in 0..9
  <2> TAKE j \in 1..9
  <2>1. j <= n => j \in 1..n
    OBVIOUS
  <2>2. b[j] = IF j <= n THEN d[from + j] ELSE 0
    BY <1>2
  <2> QED
    BY <2>1, <2>2
<1>5. ASSUME NEW k \in 1..n
      PROVE  /\ 9 - n + k \in 1..9 /\ f[9 - n + k] = d[from + k]
             /\ 9 - (9 - n + k) = n - k
  <2> DEFINE j == 9 - n + k
  <2>1. j \in 1..9 /\ j > 9 - n /\ j - (9 - n) = k /\ 9 - j = n - k
    OBVIOUS
  <2> HIDE DEF j
  <2>2. f[j] = d[from + k]
    BY <1>2, <2>1
  <2> QED
    BY <2>1, <2>2 DEF j
<1>6. HasDigits(w, f)
  BY <1>1, <1>3, NineDigits
<1>7. HasDigits(w * 10^(9 - n), b)
  BY <1>1, <1>4, NineDigits
<1>8. DigitsOf(w, n) = [k \in 1..n |-> d[from + k]]
  <2>1. \A k \in 1..n : (w \div 10^(n - k)) % 10 = d[from + k]
    BY <1>5, <1>6, Zenon DEF HasDigits
  <2> QED
    BY <2>1, Zenon DEF DigitsOf
<1>9. \A k \in 1..n : DigitsOf(w * 10^(9 - n), 9)[k] = d[from + k]
  <2> TAKE k \in 1..n
  <2>1. k \in 1..9 /\ b[k] = d[from + k]
    BY <1>2
  <2>2. DigitsOf(w * 10^(9 - n), 9)[k] = ((w * 10^(9 - n)) \div 10^(9 - k)) % 10
    BY <2>1, Zenon DEF DigitsOf
  <2> QED
    BY <1>7, <2>1, <2>2, Zenon DEF HasDigits
<1>10. w = 0 => \A k \in 1..n : d[from + k] = 0
  <2>1. w = 0 => \A j \in 1..9 : f[j] = 0
    BY <1>1, <1>3, NineZero
  <2> QED
    BY <1>5, <2>1, Zenon
<1> QED
  BY <1>1, <1>8, <1>9, <1>10, Zenon DEF WordSays, w

-----------------------------------------------------------------------------
(* The bytes of a word *)

BytesOf(w, b) == [j \in 1..b |-> (w \div 256^(b - j)) % 256]

Flipped(s) == [k \in DOMAIN s |-> 255 - s[k]]

\* These bytes hold the numbers of so many digits, and a sign.
Holds(n, b) == 10^n <= 128 * 256^(b - 1)

LEMMA SizesAre ==
    /\ dig2bytes[0] = 0 /\ dig2bytes[9] = 4
    /\ \A n \in 0..9 : dig2bytes[n] \in 0..4
    /\ \A n \in 1..9 : dig2bytes[n] \in 1..4 /\ Holds(n, dig2bytes[n])
<1>1. /\ dig2bytes[0] = 0 /\ dig2bytes[1] = 1 /\ dig2bytes[2] = 1
      /\ dig2bytes[3] = 2 /\ dig2bytes[4] = 2 /\ dig2bytes[5] = 3
      /\ dig2bytes[6] = 3 /\ dig2bytes[7] = 4 /\ dig2bytes[8] = 4
      /\ dig2bytes[9] = 4
  BY DEF dig2bytes, DIG_PER_DEC1
<1>2. /\ Holds(1, 1) /\ Holds(2, 1) /\ Holds(3, 2) /\ Holds(4, 2) /\ Holds(5, 3)
      /\ Holds(6, 3) /\ Holds(7, 4) /\ Holds(8, 4) /\ Holds(9, 4)
  BY TenPowers, Powers, SMT DEF Holds
<1>3. ASSUME NEW n \in 1..9 PROVE dig2bytes[n] \in 1..4 /\ Holds(n, dig2bytes[n])
  <2>1. \/ n = 1 \/ n = 2 \/ n = 3 \/ n = 4 \/ n = 5
        \/ n = 6 \/ n = 7 \/ n = 8 \/ n = 9
    BY SMT
  <2>2. dig2bytes[n] \in 1..4
    BY <1>1, <2>1
  <2>3. Holds(n, dig2bytes[n])
    BY <1>1, <1>2, <2>1, Zenon
  <2> QED
    BY <2>2, <2>3
<1>4. ASSUME NEW n \in 0..9 PROVE dig2bytes[n] \in 0..4
  <2>1. n = 0 \/ n \in 1..9
    BY SMT
  <2> QED
    BY <1>1, <1>3, <2>1
<1> QED
  BY <1>1, <1>3, <1>4

\* A number with a sign, the highest byte first.
High(x) == IF x >= 128 THEN x - 256 ELSE x

SintSays(s, b) ==
    /\ b = 1 => SintKorr(s) = High(s[1])
    /\ b = 2 => SintKorr(s) = High(s[1]) * 256^1 + s[2]
    /\ b = 3 => SintKorr(s) = High(s[1]) * 256^2 + s[2] * 256^1 + s[3]
    /\ b = 4 => SintKorr(s) = High(s[1]) * 256^3 + s[2] * 256^2
                                + s[3] * 256^1 + s[4]

LEMMA SintKorrIs ==
    ASSUME NEW s \in Seq(Bytes), NEW b \in 1..4, Len(s) = b
    PROVE  SintSays(s, b)
<1> SUFFICES /\ b = 1 => SintKorr(s) = High(s[1])
             /\ b = 2 => SintKorr(s) = High(s[1]) * 256^1 + s[2]
             /\ b = 3 => SintKorr(s) = High(s[1]) * 256^2 + s[2] * 256^1 + s[3]
             /\ b = 4 => SintKorr(s) = High(s[1]) * 256^3 + s[2] * 256^2
                                         + s[3] * 256^1 + s[4]
  BY Zenon DEF SintSays
<1> DEFINE h == High(s[1])
           t == [k \in 1..b |-> (IF k = 1 THEN h ELSE s[k]) * 256^(b - k)]
<1>1. SintKorr(s) = Total(t, b)
  <2>1. t = [k \in 1..b |-> t[k]]
    OBVIOUS
  <2>2. SintKorr(s) = SumOf(t)
    BY ZenonT(40) DEF SintKorr, High
  <2> QED
    BY <2>1, <2>2, Zenon DEF Total
<1>2. /\ t[1] = h * 256^(b - 1)
      /\ \A k \in 2..b : t[k] = s[k] * 256^(b - k)
  OBVIOUS
<1>3. \A k \in 1..b : s[k] \in Nat /\ s[k] <= 255
  <2>1. \A k \in 1..b : s[k] \in Bytes
    OBVIOUS
  <2>2. \A x \in Bytes : x \in Nat /\ x <= 255
    BY DEF Bytes
  <2> QED
    BY <2>1, <2>2, Zenon
<1>4. h \in Int
  <2>1. s[1] \in Nat
    BY <1>3
  <2> QED
    BY <2>1 DEF High
<1> HIDE DEF h, t
<1>5. CASE b = 1
  <2>1. t[1] = h * 256^0
    <3>1. 1 - 1 = 0
      OBVIOUS
    <3> QED
      BY <1>2, <1>5, <3>1, Zenon
  <2>2. t[1] = h
    BY <1>4, <2>1, Powers, SMT
  <2>3. Total(t, 1) = t[1]
    <3>1. \A k \in 1..1 : t[k] \in Int
      BY <1>4, <2>2
    <3> QED
      BY <3>1, SumsToNine
  <2> QED
    BY <1>1, <1>5, <2>2, <2>3 DEF h
<1>6. CASE b = 2
  <2>1. t[1] = h * 256^1 /\ t[2] = s[2] * 256^0
    <3>1. 2 \in 2..2 /\ 2 - 1 = 1 /\ 2 - 2 = 0
      OBVIOUS
    <3>2. t[1] = h * 256^(2 - 1) /\ \A k \in 2..2 : t[k] = s[k] * 256^(2 - k)
      BY <1>2, <1>6
    <3> QED
      BY <3>1, <3>2, ZenonT(40)
  <2>2. s[2] \in Nat
    BY <1>3, <1>6
  <2>3. t[1] = h * 256 /\ t[2] = s[2]
    BY <1>4, <2>1, <2>2, Powers, SMT
  <2>4. Total(t, 2) = t[1] + t[2]
    <3>1. \A k \in 1..2 : t[k] \in Int
      BY <1>4, <2>2, <2>3
    <3> QED
      BY <3>1, SumsToNine
  <2> QED
    BY <1>1, <1>6, <2>3, <2>4, Powers, SMT DEF h
<1>7. CASE b = 3
  <2>1. t[1] = h * 256^2 /\ t[2] = s[2] * 256^1 /\ t[3] = s[3] * 256^0
    <3>1. /\ 2 \in 2..3 /\ 3 \in 2..3
          /\ 3 - 1 = 2 /\ 3 - 2 = 1 /\ 3 - 3 = 0
      OBVIOUS
    <3>2. t[1] = h * 256^(3 - 1) /\ \A k \in 2..3 : t[k] = s[k] * 256^(3 - k)
      BY <1>2, <1>7
    <3>3. t[2] = s[2] * 256^(3 - 2) /\ t[3] = s[3] * 256^(3 - 3)
      BY <3>1, <3>2
    <3> QED
      BY <3>1, <3>2, <3>3, ZenonT(40)
  <2>2. s[2] \in Nat /\ s[3] \in Nat
    BY <1>3, <1>7
  <2>3. t[1] = h * 65536 /\ t[2] = s[2] * 256 /\ t[3] = s[3]
    BY <1>4, <2>1, <2>2, Powers, SMT
  <2>4. Total(t, 3) = t[1] + t[2] + t[3]
    <3>1. \A k \in 1..3 : t[k] \in Int
      BY <1>4, <2>2, <2>3, SMT
    <3> QED
      BY <3>1, SumsToNine
  <2> QED
    BY <1>1, <1>7, <2>3, <2>4, Powers, SMT DEF h
<1>8. CASE b = 4
  <2>1. /\ t[1] = h * 256^3 /\ t[2] = s[2] * 256^2
        /\ t[3] = s[3] * 256^1 /\ t[4] = s[4] * 256^0
    <3>1. /\ 2 \in 2..4 /\ 3 \in 2..4 /\ 4 \in 2..4
          /\ 4 - 1 = 3 /\ 4 - 2 = 2 /\ 4 - 3 = 1 /\ 4 - 4 = 0
      OBVIOUS
    <3>2. t[1] = h * 256^(4 - 1) /\ \A k \in 2..4 : t[k] = s[k] * 256^(4 - k)
      BY <1>2, <1>8
    <3>3. /\ t[2] = s[2] * 256^(4 - 2) /\ t[3] = s[3] * 256^(4 - 3)
          /\ t[4] = s[4] * 256^(4 - 4)
      BY <3>1, <3>2
    <3> QED
      BY <3>1, <3>2, <3>3, ZenonT(40)
  <2>2. s[2] \in Nat /\ s[3] \in Nat /\ s[4] \in Nat
    BY <1>3, <1>8
  <2>3. /\ t[1] = h * 16777216 /\ t[2] = s[2] * 65536
        /\ t[3] = s[3] * 256 /\ t[4] = s[4]
    BY <1>4, <2>1, <2>2, Powers, SMT
  <2>4. Total(t, 4) = t[1] + t[2] + t[3] + t[4]
    <3>1. \A k \in 1..4 : t[k] \in Int
      BY <1>4, <2>2, <2>3, SMTT(30)
    <3> QED
      BY <3>1, SumsToNine
  <2> QED
    BY <1>1, <1>8, <2>3, <2>4, Powers, SMT DEF h
<1> QED
  BY <1>5, <1>6, <1>7, <1>8

LEMMA BytesType ==
    ASSUME NEW w \in Nat, NEW b \in 1..4
    PROVE  /\ BytesOf(w, b) \in Seq(Bytes) /\ Len(BytesOf(w, b)) = b
           /\ Flipped(BytesOf(w, b)) \in Seq(Bytes)
           /\ Len(Flipped(BytesOf(w, b))) = b
           /\ \A k \in 1..b : Flipped(BytesOf(w, b))[k] = 255 - BytesOf(w, b)[k]
<1>1. \A x \in Nat : x % 256 \in Bytes
  BY DEF Bytes
<1>2. ASSUME NEW j \in 1..b PROVE (w \div 256^(b - j)) % 256 \in Bytes
  <2>1. b - j = 0 \/ b - j = 1 \/ b - j = 2 \/ b - j = 3
    OBVIOUS
  <2>2. /\ w \div 256^0 \in Nat /\ w \div 256^1 \in Nat
        /\ w \div 256^2 \in Nat /\ w \div 256^3 \in Nat
    BY Powers, SMT
  <2>3. w \div 256^(b - j) \in Nat
    BY <2>1, <2>2, ZenonT(40)
  <2> QED
    BY <1>1, <2>3
<1>3. BytesOf(w, b) \in [1..b -> Bytes]
  BY <1>2, Zenon DEF BytesOf
<1> DEFINE g == BytesOf(w, b)
<1> HIDE DEF g
<1>4. g \in [1..b -> Bytes] /\ DOMAIN g = 1..b
  BY <1>3, Zenon DEF g
<1>5. g \in Seq(Bytes) /\ Len(g) = b
  BY <1>4
<1>6. \A x \in Bytes : 255 - x \in Bytes
  BY DEF Bytes
<1>7. Flipped(g) = [k \in 1..b |-> 255 - g[k]]
  BY <1>4, Zenon DEF Flipped
<1>8. [k \in 1..b |-> 255 - g[k]] \in [1..b -> Bytes]
  BY <1>4, <1>6, Zenon
<1> DEFINE f == [k \in 1..b |-> 255 - g[k]]
<1>9. f \in Seq(Bytes) /\ Len(f) = b
  BY <1>8
<1>10. \A k \in 1..b : f[k] = 255 - g[k]
  OBVIOUS
<1> QED
  BY <1>5, <1>7, <1>9, <1>10, Zenon DEF g

\* The bytes of a word give it back, and their complement its own complement.
Stored(w, b) ==
    /\ BytesOf(w, b)[1] < 128
    /\ SintKorr(BytesOf(w, b)) = w
    /\ SintKorr(Flipped(BytesOf(w, b))) = -w - 1

LEMMA BytesSay ==
    ASSUME NEW n \in 1..9, NEW w \in Nat, w < 10^n
    PROVE  Stored(w, dig2bytes[n])
<1> DEFINE b == dig2bytes[n]
           g == BytesOf(w, b)
           f == Flipped(g)
<1>1. b \in 1..4 /\ 10^n <= 128 * 256^(b - 1)
  BY SizesAre, Zenon DEF Holds
<1> HIDE DEF b
<1> SUFFICES Stored(w, b)
  BY DEF b
<1>2. /\ g \in Seq(Bytes) /\ Len(g) = b /\ f \in Seq(Bytes) /\ Len(f) = b
      /\ \A k \in 1..b : f[k] = 255 - g[k]
  BY <1>1, BytesType, ZenonT(40)
<1>3. \A k \in 1..b : g[k] = (w \div 256^(b - k)) % 256
  BY Zenon DEF BytesOf
<1>4. 10^n \in Nat
  <2>1. \/ n = 1 \/ n = 2 \/ n = 3 \/ n = 4 \/ n = 5
        \/ n = 6 \/ n = 7 \/ n = 8 \/ n = 9
    BY SMT
  <2>2. /\ 10^1 \in Nat /\ 10^2 \in Nat /\ 10^3 \in Nat /\ 10^4 \in Nat
        /\ 10^5 \in Nat /\ 10^6 \in Nat /\ 10^7 \in Nat /\ 10^8 \in Nat
        /\ 10^9 \in Nat
    BY TenPowers, SMT
  <2> QED
    BY <2>1, <2>2, Zenon
<1> DEFINE p == 10^n
<1>5. p \in Nat /\ w < p /\ p <= 128 * 256^(b - 1)
  BY <1>1, <1>4, Zenon
<1> HIDE DEF g, f, p
<1>6. SintSays(g, b)
  BY <1>1, <1>2, SintKorrIs
<1>7. SintSays(f, b)
  BY <1>1, <1>2, SintKorrIs
<1>8. CASE b = 1
  <2>1. g[1] = (w \div 256^0) % 256
    <3>1. \A k \in 1..1 : g[k] = (w \div 256^(1 - k)) % 256
      BY <1>3, <1>8
    <3>2. 1 - 1 = 0
      OBVIOUS
    <3>3. 1 \in 1..1
      OBVIOUS
    <3> QED
      BY <3>1, <3>2, <3>3, ZenonT(40)
  <2>2. f[1] = 255 - g[1]
    BY <1>2, <1>8
  <2> DEFINE x1 == g[1]
  <2>3. w < 128 * 256^0
    <3>1. p <= 128 * 256^(1 - 1) /\ 1 - 1 = 0
      BY <1>5, <1>8
    <3> QED
      BY <1>5, <3>1, Powers, SMT
  <2>4. /\ w = x1
        /\ x1 \in Nat /\ x1 < 128
    <3> HIDE DEF x1
    <3>1. x1 = (w \div 256^0) % 256
      BY <2>1 DEF x1
    <3> QED
      BY <2>3, <3>1, Powers, SMT
  <2>5. SintKorr(g) = High(g[1])
    BY <1>8, <1>6, Zenon DEF SintSays
  <2>6. SintKorr(f) = High(f[1])
    BY <1>8, <1>7, Zenon DEF SintSays
  <2> HIDE DEF x1
  <2>7. High(x1) = x1 /\ High(255 - x1) = -1 - x1
    BY <2>4, SMT DEF High
  <2>8. SintKorr(g) = High(x1)
    BY <2>5, Powers, SMT DEF x1
  <2>9. SintKorr(f) = High(255 - x1)
    BY <2>2, <2>6, Powers, SMT DEF x1
  <2>10. SintKorr(g) = w /\ SintKorr(f) = -w - 1
    BY <2>4, <2>7, <2>8, <2>9, SMT
  <2>11. g[1] < 128
    BY <2>4, SMT DEF x1
  <2> QED
    BY <2>10, <2>11, Zenon DEF f, g, Stored
<1>9. CASE b = 2
  <2>1. /\ g[1] = (w \div 256^1) % 256
        /\ g[2] = (w \div 256^0) % 256
    <3>1. \A k \in 1..2 : g[k] = (w \div 256^(2 - k)) % 256
      BY <1>3, <1>9, ZenonT(40)
    <3>2. 2 - 1 = 1 /\ 2 - 2 = 0
      OBVIOUS
    <3>3. 1 \in 1..2 /\ 2 \in 1..2
      OBVIOUS
    <3>4. /\ g[1] = (w \div 256^(2 - 1)) % 256
          /\ g[2] = (w \div 256^(2 - 2)) % 256
      BY <3>1, <3>3
    <3> QED
      BY <3>2, <3>4, Zenon
  <2>2. f[1] = 255 - g[1] /\ f[2] = 255 - g[2]
    BY <1>2, <1>9
  <2> DEFINE x1 == g[1]
             x2 == g[2]
  <2>3. w < 128 * 256^1
    <3>1. p <= 128 * 256^(2 - 1) /\ 2 - 1 = 1
      BY <1>5, <1>9
    <3> QED
      BY <1>5, <3>1, Powers, SMT
  <2>4. /\ w = 256 * x1 + x2
        /\ x1 \in Nat /\ x1 < 128
        /\ x2 \in Nat /\ x2 < 256
    <3> HIDE DEF x1, x2
    <3>1. /\ x1 = (w \div 256^1) % 256
          /\ x2 = (w \div 256^0) % 256
      BY <2>1 DEF x1, x2
    <3> QED
      BY <2>3, <3>1, Powers, SMT
  <2>5. SintKorr(g) = High(g[1]) * 256^1 + g[2]
    BY <1>9, <1>6, Zenon DEF SintSays
  <2>6. SintKorr(f) = High(f[1]) * 256^1 + f[2]
    BY <1>9, <1>7, Zenon DEF SintSays
  <2> HIDE DEF x1, x2
  <2>7. High(x1) = x1 /\ High(255 - x1) = -1 - x1
    BY <2>4, SMT DEF High
  <2>8. SintKorr(g) = High(x1) * 256 + x2
    BY <2>5, Powers, SMT DEF x1, x2
  <2>9. SintKorr(f) = High(255 - x1) * 256 + (255 - x2)
    BY <2>2, <2>6, Powers, SMT DEF x1, x2
  <2>10. SintKorr(g) = w /\ SintKorr(f) = -w - 1
    BY <2>4, <2>7, <2>8, <2>9, SMT
  <2>11. g[1] < 128
    BY <2>4, SMT DEF x1
  <2> QED
    BY <2>10, <2>11, Zenon DEF f, g, Stored
<1>10. CASE b = 3
  <2>1. /\ g[1] = (w \div 256^2) % 256
        /\ g[2] = (w \div 256^1) % 256
        /\ g[3] = (w \div 256^0) % 256
    <3>1. \A k \in 1..3 : g[k] = (w \div 256^(3 - k)) % 256
      BY <1>3, <1>10, ZenonT(40)
    <3>2. 3 - 1 = 2 /\ 3 - 2 = 1 /\ 3 - 3 = 0
      OBVIOUS
    <3>3. 1 \in 1..3 /\ 2 \in 1..3 /\ 3 \in 1..3
      OBVIOUS
    <3>4. /\ g[1] = (w \div 256^(3 - 1)) % 256
          /\ g[2] = (w \div 256^(3 - 2)) % 256
          /\ g[3] = (w \div 256^(3 - 3)) % 256
      BY <3>1, <3>3
    <3>5. g[1] = (w \div 256^2) % 256
      BY <3>2, <3>4, ZenonT(40)
    <3>6. g[2] = (w \div 256^1) % 256
      BY <3>2, <3>4, Zenon
    <3>7. g[3] = (w \div 256^0) % 256
      BY <3>2, <3>4, Zenon
    <3> QED
      BY <3>5, <3>6, <3>7, Zenon
  <2>2. f[1] = 255 - g[1] /\ f[2] = 255 - g[2] /\ f[3] = 255 - g[3]
    BY <1>2, <1>10
  <2> DEFINE x1 == g[1]
             x2 == g[2]
             x3 == g[3]
  <2>3. w < 128 * 256^2
    <3>1. p <= 128 * 256^(3 - 1) /\ 3 - 1 = 2
      BY <1>5, <1>10
    <3> QED
      BY <1>5, <3>1, Powers, SMT
  <2>4. /\ w = 65536 * x1 + 256 * x2 + x3
        /\ x1 \in Nat /\ x1 < 128
        /\ x2 \in Nat /\ x2 < 256
        /\ x3 \in Nat /\ x3 < 256
    <3> HIDE DEF x1, x2, x3
    <3>1. /\ x1 = (w \div 256^2) % 256
          /\ x2 = (w \div 256^1) % 256
          /\ x3 = (w \div 256^0) % 256
      BY <2>1 DEF x1, x2, x3
    <3> QED
      BY <2>3, <3>1, Powers, SMT
  <2>5. SintKorr(g) = High(g[1]) * 256^2 + g[2] * 256^1 + g[3]
    BY <1>10, <1>6, Zenon DEF SintSays
  <2>6. SintKorr(f) = High(f[1]) * 256^2 + f[2] * 256^1 + f[3]
    BY <1>10, <1>7, Zenon DEF SintSays
  <2> HIDE DEF x1, x2, x3
  <2>7. High(x1) = x1 /\ High(255 - x1) = -1 - x1
    BY <2>4, SMT DEF High
  <2>8. SintKorr(g) = High(x1) * 65536 + x2 * 256 + x3
    BY <2>5, Powers, SMT DEF x1, x2, x3
  <2>9. SintKorr(f) = High(255 - x1) * 65536 + (255 - x2) * 256 + (255 - x3)
    BY <2>2, <2>6, Powers, SMT DEF x1, x2, x3
  <2>10. SintKorr(g) = w /\ SintKorr(f) = -w - 1
    BY <2>4, <2>7, <2>8, <2>9, SMT
  <2>11. g[1] < 128
    BY <2>4, SMT DEF x1
  <2> QED
    BY <2>10, <2>11, Zenon DEF f, g, Stored
<1>11. CASE b = 4
  <2>1. /\ g[1] = (w \div 256^3) % 256
        /\ g[2] = (w \div 256^2) % 256
        /\ g[3] = (w \div 256^1) % 256
        /\ g[4] = (w \div 256^0) % 256
    <3>1. \A k \in 1..4 : g[k] = (w \div 256^(4 - k)) % 256
      BY <1>3, <1>11, ZenonT(40)
    <3>2. 4 - 1 = 3 /\ 4 - 2 = 2 /\ 4 - 3 = 1 /\ 4 - 4 = 0
      OBVIOUS
    <3>3. 1 \in 1..4 /\ 2 \in 1..4 /\ 3 \in 1..4 /\ 4 \in 1..4
      OBVIOUS
    <3>4. /\ g[1] = (w \div 256^(4 - 1)) % 256
          /\ g[2] = (w \div 256^(4 - 2)) % 256
          /\ g[3] = (w \div 256^(4 - 3)) % 256
          /\ g[4] = (w \div 256^(4 - 4)) % 256
      BY <3>1, <3>3
    <3>5. g[1] = (w \div 256^3) % 256
      BY <3>2, <3>4, ZenonT(40)
    <3>6. g[2] = (w \div 256^2) % 256
      BY <3>2, <3>4, ZenonT(40)
    <3>7. g[3] = (w \div 256^1) % 256
      BY <3>2, <3>4, ZenonT(40)
    <3>8. g[4] = (w \div 256^0) % 256
      BY <3>2, <3>4, Zenon
    <3> QED
      BY <3>5, <3>6, <3>7, <3>8, Zenon
  <2>2. /\ f[1] = 255 - g[1] /\ f[2] = 255 - g[2]
        /\ f[3] = 255 - g[3] /\ f[4] = 255 - g[4]
    BY <1>2, <1>11
  <2> DEFINE x1 == g[1]
             x2 == g[2]
             x3 == g[3]
             x4 == g[4]
  <2>3. w < 128 * 256^3
    <3>1. p <= 128 * 256^(4 - 1) /\ 4 - 1 = 3
      BY <1>5, <1>11
    <3> QED
      BY <1>5, <3>1, Powers, SMT
  <2>4. /\ w = 16777216 * x1 + 65536 * x2 + 256 * x3 + x4
        /\ x1 \in Nat /\ x1 < 128
        /\ x2 \in Nat /\ x2 < 256
        /\ x3 \in Nat /\ x3 < 256
        /\ x4 \in Nat /\ x4 < 256
    <3> HIDE DEF x1, x2, x3, x4
    <3>1. /\ x1 = (w \div 256^3) % 256
          /\ x2 = (w \div 256^2) % 256
          /\ x3 = (w \div 256^1) % 256
          /\ x4 = (w \div 256^0) % 256
      BY <2>1 DEF x1, x2, x3, x4
    <3> QED
      BY <2>3, <3>1, Powers, SMT
  <2>5. SintKorr(g) = High(g[1]) * 256^3 + g[2] * 256^2 + g[3] * 256^1 + g[4]
    BY <1>11, <1>6, Zenon DEF SintSays
  <2>6. SintKorr(f) = High(f[1]) * 256^3 + f[2] * 256^2 + f[3] * 256^1 + f[4]
    BY <1>11, <1>7, Zenon DEF SintSays
  <2> HIDE DEF x1, x2, x3, x4
  <2>7. High(x1) = x1 /\ High(255 - x1) = -1 - x1
    BY <2>4, SMT DEF High
  <2>8. SintKorr(g) = High(x1) * 16777216 + x2 * 65536 + x3 * 256 + x4
    BY <2>5, Powers, SMT DEF x1, x2, x3, x4
  <2>9. SintKorr(f) = High(255 - x1) * 16777216 + (255 - x2) * 65536 + (255 - x3) * 256 + (255 - x4)
    BY <2>2, <2>6, Powers, SMT DEF x1, x2, x3, x4
  <2>10. SintKorr(g) = w /\ SintKorr(f) = -w - 1
    BY <2>4, <2>7, <2>8, <2>9, SMT
  <2>11. g[1] < 128
    BY <2>4, SMT DEF x1
  <2> QED
    BY <2>10, <2>11, Zenon DEF f, g, Stored
<1>12. b = 1 \/ b = 2 \/ b = 3 \/ b = 4
  BY <1>1
<1> QED
  BY <1>8, <1>9, <1>10, <1>11, <1>12

-----------------------------------------------------------------------------
(* The digits and the bytes in front of a group *)

LEMMA TotalGrows ==
    ASSUME NEW N \in Nat, NEW t, \A k \in 1..N : t[k] \in Nat,
           NEW m \in 0..N, NEW n \in 0..N, m <= n
    PROVE  Total(t, m) \in Nat /\ Total(t, m) <= Total(t, n)
<1>1. /\ Total(t, 0) = 0 /\ \A k \in 0..N : Total(t, k) \in Int
      /\ \A k \in 1..N : Total(t, k) = Total(t, k - 1) + t[k]
  <2>1. \A k \in 1..N : t[k] \in Int
    OBVIOUS
  <2> QED
    BY <2>1, TotalIs
<1>2. \A k \in 1..N : Total(t, k - 1) <= Total(t, k)
  <2> TAKE k \in 1..N
  <2>1. k - 1 \in 0..N /\ k \in 0..N
    OBVIOUS
  <2> QED
    BY <1>1, <2>1
<1> DEFINE S == {j \in Nat : j <= N => Total(t, j) >= 0}
           U == {j \in Nat : m + j <= N => Total(t, m) <= Total(t, m + j)}
<1>3. 0 \in S
  BY <1>1
<1>4. ASSUME NEW j \in Nat, j \in S PROVE j + 1 \in S
  <2> SUFFICES ASSUME j + 1 <= N PROVE Total(t, j + 1) >= 0
    OBVIOUS
  <2>1. j + 1 \in 1..N /\ (j + 1) - 1 = j /\ j \in 0..N /\ j + 1 \in 0..N
    OBVIOUS
  <2>2. Total(t, j) <= Total(t, j + 1)
    BY <1>2, <2>1
  <2>3. Total(t, j) >= 0
    BY <1>4, <2>1
  <2> QED
    BY <1>1, <2>1, <2>2, <2>3
<1>5. m \in S
  <2> HIDE DEF S
  <2> QED
    BY <1>3, <1>4, NatSetInduction
<1>6. 0 \in U
  <2>1. m + 0 = m /\ m \in 0..N
    OBVIOUS
  <2> QED
    BY <1>1, <2>1
<1>7. ASSUME NEW j \in Nat, j \in U PROVE j + 1 \in U
  <2> SUFFICES ASSUME m + (j + 1) <= N PROVE Total(t, m) <= Total(t, m + (j + 1))
    OBVIOUS
  <2> DEFINE i == m + (j + 1)
  <2>1. i \in 1..N /\ i - 1 = m + j /\ m + j \in 0..N /\ i \in 0..N
    OBVIOUS
  <2>2. Total(t, m) <= Total(t, m + j)
    BY <1>7, <2>1
  <2> HIDE DEF i
  <2>3. Total(t, m + j) <= Total(t, i)
    BY <1>2, <2>1
  <2>4. Total(t, m) \in Int /\ Total(t, m + j) \in Int /\ Total(t, i) \in Int
    BY <1>1, <2>1
  <2>5. Total(t, m) <= Total(t, i)
    BY <2>2, <2>3, <2>4
  <2> QED
    BY <2>5 DEF i
<1>8. n - m \in U
  <2>1. n - m \in Nat
    OBVIOUS
  <2> HIDE DEF U
  <2> QED
    BY <1>6, <1>7, <2>1, NatSetInduction
<1> QED
  BY <1>1, <1>5, <1>8

\* A number of p digits, s of them in the fraction.
Number(p, s, d) ==
    /\ p \in Nat \ {0} /\ s \in Nat /\ s <= p
    /\ d \in Seq(0..9) /\ Len(d) = p

\* How many groups there are, and how many of them in front of the point.
Groups(p, s) == Count(p - s) + Count(s)

DigitsBefore(p, s, k) == Total(GroupsOf(p, s), k - 1)

LEMMA GroupsTotal ==
    ASSUME NEW p \in Nat \ {0}, NEW s \in Nat, s <= p
    PROVE  LET G == GroupsOf(p, s)
               m == Count(p - s)
               n == Count(s)
           IN  /\ Len(G) = m + n /\ m + n \in Nat \ {0} /\ m \in Nat /\ n \in Nat
               /\ \A k \in 1..(m + n) : G[k] \in 1..9
               /\ Total(G, m) = p - s /\ Total(G, m + n) = p
               /\ \A k \in 1..m : Total(G, k) = G[1] + 9 * (k - 1)
               /\ \A k \in 1..n : Total(G, m + (k - 1)) = (p - s) + 9 * (k - 1)
<1> DEFINE G == GroupsOf(p, s)
           i == p - s
           m == Count(i)
           n == Count(s)
           N == m + n
<1>1. /\ i \in Nat /\ m \in Nat /\ n \in Nat /\ N \in Nat /\ N # 0
  <2>1. i \in Nat /\ (i > 0 \/ s > 0)
    OBVIOUS
  <2> HIDE DEF i
  <2>2. m \in Nat /\ n \in Nat /\ (i > 0 => m > 0) /\ (s > 0 => n > 0)
    BY <2>1, CountIs
  <2> QED
    BY <2>1, <2>2
<1>2. /\ G \in Seq(1..9) /\ Len(G) = N
      /\ \A k \in 1..m : G[k] = IntgGroup(i, k)
      /\ \A k \in 1..n : G[m + k] = FracGroup(s, k)
  BY GroupsAre
<1>3. i + s = p
  OBVIOUS
<1> HIDE DEF G, i, m, n, N
<1>4. \A k \in 1..N : G[k] \in 1..9
  BY <1>2
<1>5. \A k \in 1..N : G[k] \in Int
  BY <1>4
<1>6. /\ i % 9 \in Int /\ s % 9 \in Int /\ i % 9 \in Nat /\ s % 9 \in Nat
      /\ i = 9 * (i \div 9) + (i % 9) /\ s = 9 * (s \div 9) + (s % 9)
  BY <1>1, CountIs
<1>7. /\ Total(G, m) = (IF i % 9 > 0 THEN i % 9 ELSE 0) + 9 * (i \div 9)
      /\ \A k \in 1..m : Total(G, k) = G[1] + 9 * (k - 1)
  <2>1. FrontCounts(G, i, 9, i % 9)
    BY <1>2 DEF IntgGroup, FrontCounts, m
  <2>2. Count(i) <= N /\ 9 \in Int
    BY <1>1 DEF N, m
  <2> QED
    <3>1. FrontSums(G, i, 9, i % 9)
      BY <1>1, <1>5, <1>6, <2>1, <2>2, FrontTotal, Zenon
    <3> QED
      BY <3>1, Zenon DEF FrontSums, m
<1>8. Total(G, m) = i
  <2> DEFINE q == i \div 9
             r == i % 9
             x == Total(G, m)
  <2>1. x = (IF r > 0 THEN r ELSE 0) + 9 * q /\ i = 9 * q + r /\ r \in Nat
    BY <1>6, <1>7
  <2>2. q \in Int
    BY <1>1
  <2> HIDE DEF q, r, x
  <2>3. x = i
    BY <1>1, <2>1, <2>2
  <2> QED
    BY <2>3 DEF x
<1>9. /\ Total(G, m + n)
           = Total(G, m) + 9 * (s \div 9) + (IF s % 9 > 0 THEN s % 9 ELSE 0)
      /\ \A k \in 1..n : Total(G, m + (k - 1)) = Total(G, m) + 9 * (k - 1)
  <2>1. BackCounts(G, m, s, 9, s % 9)
    BY <1>2 DEF FracGroup, BackCounts, n
  <2>2. m + Count(s) <= N /\ 9 \in Int
    BY <1>1 DEF N, n
  <2> QED
    <3>1. BackSums(G, m, s, 9, s % 9)
      BY <1>1, <1>5, <1>6, <2>1, <2>2, BackTotal, Zenon
    <3> QED
      BY <3>1, Zenon DEF BackSums, n
<1>10. Total(G, m + n) = p
  <2> DEFINE q == s \div 9
             r == s % 9
             x == Total(G, m + n)
  <2>1. x = i + 9 * q + (IF r > 0 THEN r ELSE 0) /\ s = 9 * q + r /\ r \in Nat
    BY <1>6, <1>8, <1>9
  <2>2. q \in Int
    BY <1>1
  <2> HIDE DEF q, r, x
  <2>3. x = p
    BY <1>1, <1>3, <2>1, <2>2
  <2> QED
    BY <2>3 DEF x
<1> QED
  BY <1>1, <1>2, <1>4, <1>7, <1>8, <1>9, <1>10 DEF G, N, i, m, n

SizesOf(p, s) == [k \in 1..Groups(p, s) |-> dig2bytes[GroupsOf(p, s)[k]]]

LEMMA SizesTotal ==
    ASSUME NEW p \in Nat \ {0}, NEW s \in Nat, s <= p
    PROVE  /\ \A k \in 1..Groups(p, s) : SizesOf(p, s)[k] \in 1..4
           /\ Total(SizesOf(p, s), Groups(p, s)) = DecimalSize(p, s)
<1> DEFINE G == GroupsOf(p, s)
           i == p - s
           m == Count(i)
           n == Count(s)
           N == Groups(p, s)
           t == SizesOf(p, s)
           u == dig2bytes[i % 9]
           v == dig2bytes[s % 9]
<1>1. /\ N = m + n /\ N \in Nat /\ m \in Nat /\ n \in Nat /\ i \in Nat
      /\ \A k \in 1..N : G[k] \in 1..9
  <2>1. /\ m + n \in Nat \ {0} /\ m \in Nat /\ n \in Nat
        /\ \A k \in 1..(m + n) : G[k] \in 1..9
    BY GroupsTotal
  <2>2. i \in Nat /\ N = m + n
    BY DEF Groups
  <2> HIDE DEF G, i, m, n, N
  <2> QED
    BY <2>1, <2>2
<1>2. /\ \A k \in 1..m : G[k] = IntgGroup(i, k)
      /\ \A k \in 1..n : G[m + k] = FracGroup(s, k)
  BY GroupsAre
<1>3. \A k \in 1..N : t[k] = dig2bytes[G[k]]
  BY DEF SizesOf
<1>4. DecimalSize(p, s) = (i \div 9) * 4 + u + ((s \div 9) * 4 + v)
  BY DEF DecimalSize, DIG_PER_DEC1
<1> HIDE DEF G, i, m, n, N, t
<1>5. \A k \in 1..N : t[k] \in 1..4
  BY <1>1, <1>3, SizesAre, Zenon
<1>6. \A k \in 1..N : t[k] \in Int
  BY <1>5
<1>7. /\ i % 9 \in 0..8 /\ s % 9 \in 0..8 /\ i \div 9 \in Nat /\ s \div 9 \in Nat
  BY <1>1, CountIs
<1>8. u \in Int /\ v \in Int /\ (i % 9 = 0 => u = 0) /\ (s % 9 = 0 => v = 0)
  <2>1. i % 9 \in 0..9 /\ s % 9 \in 0..9
    BY <1>7
  <2>2. u \in 0..4 /\ v \in 0..4
    BY <2>1, SizesAre
  <2> QED
    BY <2>2, SizesAre
<1> HIDE DEF u, v
<1>9. FrontCounts(t, i, 4, u)
  <2>1. \A k \in 1..m : t[k] = dig2bytes[IF k = 1 /\ i % 9 > 0 THEN i % 9 ELSE 9]
    <3>1. \A k \in 1..m : k \in 1..N
      BY <1>1
    <3> QED
      BY <1>2, <1>3, <3>1, Zenon DEF IntgGroup
  <2> QED
    BY <2>1, SizesAre DEF FrontCounts, u, m
<1>10. BackCounts(t, m, s, 4, v)
  <2>1. \A k \in 1..n : t[m + k] = dig2bytes[IF k > s \div 9 THEN s % 9 ELSE 9]
    <3>1. \A k \in 1..n : m + k \in 1..N
      BY <1>1
    <3> QED
      BY <1>2, <1>3, <3>1, Zenon DEF FracGroup
  <2> QED
    BY <2>1, SizesAre DEF BackCounts, v, n
<1>11. FrontSums(t, i, 4, u)
  <2>1. Count(i) <= N /\ 4 \in Int
    BY <1>1 DEF m
  <2> QED
    BY <1>1, <1>6, <1>8, <1>9, <2>1, FrontTotal, Zenon
<1>12. BackSums(t, m, s, 4, v)
  <2>1. m + Count(s) <= N /\ 4 \in Int
    BY <1>1 DEF n
  <2> QED
    BY <1>1, <1>6, <1>8, <1>10, <2>1, BackTotal, Zenon
<1>13. Total(t, m) = (IF i % 9 > 0 THEN u ELSE 0) + 4 * (i \div 9)
  BY <1>11, Zenon DEF FrontSums, m
<1>14. Total(t, N) = Total(t, m) + 4 * (s \div 9) + (IF s % 9 > 0 THEN v ELSE 0)
  BY <1>1, <1>12, Zenon DEF BackSums, n
<1>15. /\ (IF i % 9 > 0 THEN u ELSE 0) = u
       /\ (IF s % 9 > 0 THEN v ELSE 0) = v
  BY <1>7, <1>8
<1>16. Total(t, N) = u + 4 * (i \div 9) + 4 * (s \div 9) + v
  BY <1>13, <1>14, <1>15, Zenon
<1> DEFINE q == i \div 9
           r == s \div 9
<1>17. q \in Int /\ r \in Int
  BY <1>7
<1> HIDE DEF q, r
<1>18. u + 4 * q + 4 * r + v = q * 4 + u + (r * 4 + v)
  BY <1>8, <1>17
<1>19. Total(t, N) = DecimalSize(p, s)
  BY <1>4, <1>16, <1>18, Zenon DEF q, r
<1> QED
  BY <1>5, <1>19, Zenon DEF t, N

-----------------------------------------------------------------------------
(* The bytes of a DECIMAL *)

\* The word of a group, and its bytes.
WordAt(p, s, d, k) == WordOf(d, DigitsBefore(p, s, k), GroupsOf(p, s)[k])

BodiesOf(p, s, d) ==
    [k \in 1..Groups(p, s) |-> BytesOf(WordAt(p, s, d, k), SizesOf(p, s)[k])]

GroupSays(p, s, d, k) ==
    LET n == GroupsOf(p, s)[k]
        from == DigitsBefore(p, s, k)
        w == WordAt(p, s, d, k)
        b == SizesOf(p, s)[k]
    IN  /\ n \in 1..9 /\ from \in Nat /\ from + n <= p
        /\ DigitsBefore(p, s, k + 1) = from + n
        /\ WordSays(d, from, n, w)
        /\ b \in 1..4 /\ Stored(w, b)
        /\ BodiesOf(p, s, d)[k] = BytesOf(w, b)

LEMMA GroupIs ==
    ASSUME NEW p, NEW s, NEW d, Number(p, s, d), NEW k \in 1..Groups(p, s)
    PROVE  GroupSays(p, s, d, k)
<1> DEFINE G == GroupsOf(p, s)
           N == Groups(p, s)
           n == G[k]
           from == DigitsBefore(p, s, k)
           w == WordAt(p, s, d, k)
           b == SizesOf(p, s)[k]
<1>1. p \in Nat \ {0} /\ s \in Nat /\ s <= p /\ d \in Seq(0..9) /\ Len(d) = p
  BY DEF Number
<1>2. /\ N \in Nat /\ \A j \in 1..N : G[j] \in 1..9
      /\ Total(G, N) = p
  BY <1>1, GroupsTotal DEF Groups
<1>3. b = dig2bytes[n] /\ b \in 1..4
  BY <1>1, SizesTotal DEF SizesOf
<1>4. BodiesOf(p, s, d)[k] = BytesOf(w, b)
  BY DEF BodiesOf
<1>5. from = Total(G, k - 1) /\ DigitsBefore(p, s, k + 1) = Total(G, k)
  <2>1. (k + 1) - 1 = k
    OBVIOUS
  <2> QED
    BY <2>1, Zenon DEF DigitsBefore
<1>6. w = WordOf(d, from, n)
  BY DEF WordAt
<1> HIDE DEF G, N, n, from, w, b
<1>7. n \in 1..9
  BY <1>2 DEF n, N
<1>8. from \in Nat /\ from + n <= p /\ Total(G, k) = from + n
  <2>1. k \in 1..N /\ k - 1 \in 0..N /\ k \in 0..N /\ N \in 0..N /\ k - 1 <= k /\ k <= N
    BY <1>2 DEF N
  <2>2. \A j \in 1..N : G[j] \in Nat /\ G[j] \in Int
    BY <1>2
  <2>3. Total(G, k) <= p
    BY <1>2, <2>1, <2>2, TotalGrows
  <2>4. Total(G, k - 1) \in Nat
    BY <1>2, <2>1, <2>2, TotalGrows
  <2>5. Total(G, k) = Total(G, k - 1) + n
    BY <1>2, <2>1, <2>2, TotalIs DEF n
  <2> QED
    BY <1>5, <2>3, <2>4, <2>5
<1>9. \A j \in 1..n : d[from + j] \in 0..9
  <2> TAKE j \in 1..n
  <2>1. from + j \in 1..p
    BY <1>1, <1>7, <1>8
  <2> QED
    BY <1>1, <2>1
<1>10. WordSays(d, from, n, w)
  BY <1>6, <1>7, <1>8, <1>9, WordIs
<1>11. w \in Nat /\ w < 10^n
  BY <1>10, Zenon DEF WordSays
<1>12. Stored(w, b)
  BY <1>3, <1>7, <1>11, BytesSay, Zenon
<1> QED
  BY <1>3, <1>4, <1>5, <1>7, <1>8, <1>10, <1>12, Zenon
     DEF GroupSays, n, from, w, b, G

\* So many bytes, and their complement.
IsBody(g, b) ==
    /\ g \in Seq(Bytes) /\ Len(g) = b
    /\ Flipped(g) \in Seq(Bytes) /\ Len(Flipped(g)) = b
    /\ \A j \in 1..b : Flipped(g)[j] = 255 - g[j]

LEMMA BodyIs ==
    ASSUME NEW p, NEW s, NEW d, Number(p, s, d), NEW k \in 1..Groups(p, s)
    PROVE  IsBody(BodiesOf(p, s, d)[k], SizesOf(p, s)[k])
<1> DEFINE w == WordAt(p, s, d, k)
           b == SizesOf(p, s)[k]
           n == GroupsOf(p, s)[k]
           from == DigitsBefore(p, s, k)
<1>1. GroupSays(p, s, d, k)
  BY GroupIs
<1>2. b \in 1..4 /\ BodiesOf(p, s, d)[k] = BytesOf(w, b) /\ w \in Nat
  BY <1>1, Zenon DEF GroupSays, WordSays
<1> HIDE DEF w, b
<1> QED
  <2>1. IsBody(BytesOf(w, b), b)
    BY <1>2, BytesType, ZenonT(40) DEF IsBody
  <2> QED
    BY <1>2, <2>1 DEF b

\* All the bytes, before the first bit is inverted.
BodyOf(p, s, d) == FlattenSeq(BodiesOf(p, s, d))

LEMMA BodiesType ==
    ASSUME NEW p, NEW s, NEW d, Number(p, s, d)
    PROVE  /\ Groups(p, s) \in Nat /\ Groups(p, s) # 0
           /\ BodiesOf(p, s, d) \in [1..Groups(p, s) -> Seq(Bytes)]
<1>1. Groups(p, s) \in Nat /\ Groups(p, s) # 0
  <2>1. p \in Nat \ {0} /\ s \in Nat /\ s <= p
    BY DEF Number
  <2> QED
    BY <2>1, GroupsTotal DEF Groups
<1>2. \A k \in 1..Groups(p, s) : BodiesOf(p, s, d)[k] \in Seq(Bytes)
  BY BodyIs, Zenon DEF IsBody
<1>3. BodiesOf(p, s, d) = [k \in 1..Groups(p, s) |-> BodiesOf(p, s, d)[k]]
  BY DEF BodiesOf
<1> QED
  BY <1>1, <1>2, <1>3, Zenon

LEMMA BytesBefore ==
    ASSUME NEW p, NEW s, NEW d, Number(p, s, d), NEW k \in 1..(Groups(p, s) + 1)
    PROVE  Len(Before(BodiesOf(p, s, d), k)) = Total(SizesOf(p, s), k - 1)
<1> DEFINE f == BodiesOf(p, s, d)
           t == SizesOf(p, s)
           N == Groups(p, s)
           S == {j \in Nat : j <= N => Len(Before(f, j + 1)) = Total(t, j)}
<1>1. N \in Nat /\ f \in [1..N -> Seq(Bytes)]
  BY BodiesType
<1>2. \A j \in 1..N : t[j] \in 1..4
  <2>1. p \in Nat \ {0} /\ s \in Nat /\ s <= p
    BY DEF Number
  <2> QED
    BY <2>1, SizesTotal
<1>3. \A j \in 1..N : Len(f[j]) = t[j]
  <2> TAKE j \in 1..N
  <2>1. IsBody(f[j], t[j])
    BY BodyIs
  <2> HIDE DEF f, t
  <2> QED
    BY <2>1 DEF IsBody
<1> HIDE DEF f, t, N
<1>4. /\ Total(t, 0) = 0
      /\ \A j \in 1..N : Total(t, j) = Total(t, j - 1) + t[j]
  <2>1. \A j \in 1..N : t[j] \in Int
    BY <1>2
  <2> QED
    BY <1>1, <2>1, TotalIs
<1>5. 0 \in S
  <2>1. Len(Before(f, 1)) = 0 /\ 0 + 1 = 1
    BY BeforeNone
  <2> QED
    BY <1>4, <2>1
<1>6. ASSUME NEW j \in Nat, j \in S PROVE j + 1 \in S
  <2> SUFFICES ASSUME j + 1 <= N
               PROVE  Len(Before(f, (j + 1) + 1)) = Total(t, j + 1)
    OBVIOUS
  <2> DEFINE i == j + 1
  <2>1. i \in 1..N /\ i - 1 = j /\ j <= N
    BY <1>1
  <2>2. Len(Before(f, i)) = Total(t, j)
    BY <1>6, <2>1
  <2> HIDE DEF i
  <2>3. Grows(Bytes, f, i)
    BY <1>1, <2>1, BeforeGrows, Zenon
  <2>4. Len(Before(f, i + 1)) = Len(Before(f, i)) + Len(f[i])
    BY <2>3, Zenon DEF Grows
  <2>5. Total(t, i) = Total(t, j) + t[i]
    BY <1>4, <2>1
  <2>6. Len(f[i]) = t[i]
    BY <1>3, <2>1
  <2>7. Len(Before(f, i + 1)) = Total(t, i)
    BY <2>2, <2>4, <2>5, <2>6, Zenon
  <2> QED
    BY <2>7 DEF i
<1>7. k - 1 \in S
  <2>1. k - 1 \in Nat
    BY <1>1 DEF N
  <2> HIDE DEF S
  <2> QED
    BY <1>5, <1>6, <2>1, NatSetInduction
<1>8. (k - 1) + 1 = k /\ k - 1 <= N
  BY <1>1 DEF N
<1> QED
  BY <1>7, <1>8 DEF f, t

LEMMA FirstBitTwice ==
    ASSUME NEW y \in Seq(Bytes), y # <<>>
    PROVE  LET x == FirstBitInverted(y)
           IN  /\ x \in Seq(Bytes) /\ Len(x) = Len(y)
               /\ x[1] = (y[1] + 128) % 256
               /\ FirstBitInverted(x) = y
<1> DEFINE n == Len(y)
           x == FirstBitInverted(y)
           z == FirstBitInverted(x)
<1>1. n \in Nat /\ n # 0 /\ y \in [1..n -> Bytes] /\ 1 \in 1..n
  OBVIOUS
<1>2. /\ x = [y EXCEPT ![1] = (y[1] + 128) % 256]
      /\ z = [x EXCEPT ![1] = (x[1] + 128) % 256]
  BY DEF FirstBitInverted
<1> HIDE DEF n, x, z
<1>3. \A b \in Bytes : /\ (b + 128) % 256 \in Bytes
                       /\ (((b + 128) % 256) + 128) % 256 = b
  BY SMT DEF Bytes
<1>4. y[1] \in Bytes
  BY <1>1
<1>5. (y[1] + 128) % 256 \in Bytes
  BY <1>3, <1>4
<1>6. /\ x \in [1..n -> Bytes] /\ x[1] = (y[1] + 128) % 256
      /\ \A k \in 1..n : k # 1 => x[k] = y[k]
  <2> DEFINE b == (y[1] + 128) % 256
  <2> HIDE DEF b
  <2>1. x = [y EXCEPT ![1] = b] /\ b \in Bytes
    BY <1>2, <1>5 DEF b
  <2>2. /\ x \in [1..n -> Bytes] /\ x[1] = b
        /\ \A k \in 1..n : k # 1 => x[k] = y[k]
    BY <1>1, <2>1
  <2> QED
    BY <2>2 DEF b
<1>7. (x[1] + 128) % 256 = y[1]
  BY <1>3, <1>4, <1>6
<1>8. z = y
  <2>1. z = [x EXCEPT ![1] = y[1]]
    BY <1>2, <1>7
  <2>2. z \in [1..n -> Bytes] /\ \A k \in 1..n : z[k] = y[k]
    BY <1>1, <1>4, <1>6, <2>1
  <2> QED
    BY <1>1, <2>2
<1>9. x \in Seq(Bytes) /\ Len(x) = n
  BY <1>1, <1>6
<1> QED
  BY <1>6, <1>8, <1>9 DEF n, x, z

LEMMA FlippedIs ==
    ASSUME NEW g \in Seq(Bytes)
    PROVE  /\ Flipped(g) \in Seq(Bytes) /\ Len(Flipped(g)) = Len(g)
           /\ \A j \in 1..Len(g) : Flipped(g)[j] = 255 - g[j]
<1> DEFINE n == Len(g)
           f == [k \in 1..n |-> 255 - g[k]]
<1>1. n \in Nat /\ \A k \in 1..n : g[k] \in Bytes
  OBVIOUS
<1>2. \A x \in Bytes : 255 - x \in Bytes
  BY DEF Bytes
<1>3. Flipped(g) = f
  BY DEF Flipped
<1>4. \A k \in 1..n : f[k] = 255 - g[k]
  OBVIOUS
<1> HIDE DEF n
<1>5. f \in [1..n -> Bytes]
  BY <1>1, <1>2, Zenon
<1> HIDE DEF f
<1>6. f \in Seq(Bytes) /\ Len(f) = n
  BY <1>1, <1>5
<1> QED
  BY <1>3, <1>4, <1>6 DEF n

\* The bytes as they are, or their complement.
Signed(g, negative) == IF negative THEN Flipped(g) ELSE g

LEMMA SignedIs ==
    ASSUME NEW g \in Seq(Bytes), NEW negative \in BOOLEAN
    PROVE  /\ Signed(g, negative) \in Seq(Bytes)
           /\ Len(Signed(g, negative)) = Len(g)
           /\ \A j \in 1..Len(g) :
                Signed(g, negative)[j] = IF negative THEN 255 - g[j] ELSE g[j]
BY FlippedIs DEF Signed

LEMMA StoredDecimalIs ==
    ASSUME NEW p, NEW s, NEW d, Number(p, s, d), NEW negative \in BOOLEAN
    PROVE  StoredDecimal(p, s, negative, d)
             = FirstBitInverted(Signed(BodyOf(p, s, d), negative))
<1> DEFINE G == GroupsOf(p, s)
           N == Groups(p, s)
           Group(k) ==
             LET from == SumOf(SubSeq(G, 1, k - 1))
                 n == G[k]
                 word == SumOf([j \in 1..n |-> d[from + j] * 10^(n - j)])
                 b == dig2bytes[n]
             IN  [j \in 1..b |-> (word \div 256^(b - j)) % 256]
           f == [k \in DOMAIN G |-> Group(k)]
           F == FlattenSeq(f)
<1>1. G \in Seq(1..9) /\ Len(G) = N
  BY GroupsAre DEF Number, Groups
<1>2. StoredDecimal(p, s, negative, d)
        = FirstBitInverted(IF negative THEN [k \in DOMAIN F |-> 255 - F[k]] ELSE F)
  BY Zenon DEF StoredDecimal, GroupsOf
<1>3. ASSUME NEW k \in 1..N PROVE Group(k) = BodiesOf(p, s, d)[k]
  <2> DEFINE from == SumOf(SubSeq(G, 1, k - 1))
             n == G[k]
  <2>1. from = DigitsBefore(p, s, k)
    <3> HIDE DEF G
    <3>1. SubSeq(G, 1, k - 1) = [i \in 1..(k - 1) |-> G[i]]
      <4>1. k \in Nat /\ k >= 1 /\ k <= Len(G)
        BY <1>1 DEF N
      <4>2. /\ SubSeq(G, 1, k - 1) \in Seq(1..9) /\ Len(SubSeq(G, 1, k - 1)) = k - 1
            /\ \A i \in 1..(k - 1) : SubSeq(G, 1, k - 1)[i] = G[i]
        BY <1>1, <4>1
      <4> QED
        BY <4>2
    <3> QED
      BY <3>1, Zenon DEF DigitsBefore, Total, G
  <2>2. Group(k) = BytesOf(WordOf(d, from, n), dig2bytes[n])
    BY Zenon DEF BytesOf, WordOf
  <2>3. BodiesOf(p, s, d)[k] = BytesOf(WordAt(p, s, d, k), dig2bytes[n])
    BY Zenon DEF BodiesOf, SizesOf
  <2> QED
    BY <2>1, <2>2, <2>3, Zenon DEF WordAt
<1>4. f = BodiesOf(p, s, d)
  <2>1. DOMAIN G = 1..N
    BY <1>1
  <2>2. f = [k \in 1..N |-> Group(k)]
    BY <2>1, Zenon
  <2>3. f = [k \in 1..N |-> BodiesOf(p, s, d)[k]]
    BY <1>3, <2>2, Zenon
  <2>4. BodiesOf(p, s, d) = [k \in 1..N |-> BodiesOf(p, s, d)[k]]
    BY DEF BodiesOf
  <2> QED
    BY <2>3, <2>4, Zenon
<1> QED
  BY <1>2, <1>4, Zenon DEF BodyOf, Signed, Flipped

\* Where the bytes of a group are.
BytesAt(F, from, g, b) ==
    /\ from \in Nat /\ from + b <= Len(F)
    /\ \A j \in 1..b : F[from + j] = g[j]

LEMMA GroupBytes ==
    ASSUME NEW p, NEW s, NEW d, Number(p, s, d), NEW k \in 1..Groups(p, s)
    PROVE  BytesAt(BodyOf(p, s, d), Total(SizesOf(p, s), k - 1),
                   BodiesOf(p, s, d)[k], SizesOf(p, s)[k])
<1> DEFINE f == BodiesOf(p, s, d)
           N == Groups(p, s)
           F == BodyOf(p, s, d)
           T == Total(SizesOf(p, s), k - 1)
           b == SizesOf(p, s)[k]
           g == f[k]
<1>1. N \in Nat /\ N # 0 /\ f \in [1..N -> Seq(Bytes)]
  BY BodiesType
<1>2. F = FlattenSeq(f)
  BY DEF BodyOf
<1>3. k \in 1..(N + 1)
  BY <1>1
<1>4. Len(Before(f, k)) = T
  BY <1>3, BytesBefore
<1>5. g \in Seq(Bytes) /\ Len(g) = b
  <2>1. IsBody(f[k], b)
    BY BodyIs
  <2> QED
    BY <2>1, Zenon DEF IsBody
<1>6. k \in 1..N
  OBVIOUS
<1> HIDE DEF f, N, F, T, b
<1>7. F \in Seq(Bytes)
  BY <1>1, <1>2, <1>6, BeforeBegins
<1>8. At(F, 1, FlattenSeq(f))
  BY <1>2, <1>7, AtItself
<1>9. 1 \in Nat
  OBVIOUS
<1>10. /\ Len(Before(f, k)) \in Nat
       /\ Len(Before(f, k)) + Len(g) <= Len(FlattenSeq(f))
       /\ At(F, 1 + Len(Before(f, k)), g)
  BY <1>1, <1>6, <1>8, <1>9, AtJoined
<1>11. /\ T \in Nat /\ T + b <= Len(F) /\ b \in Nat
       /\ \A j \in 1..b : Byte(F, 1 + T + j - 1) = g[j]
  BY <1>2, <1>4, <1>5, <1>10 DEF At
<1>12. ASSUME NEW j \in 1..b PROVE F[T + j] = g[j]
  <2> DEFINE i == T + j
  <2>1. 1 + T + j - 1 = i /\ i \in 1..Len(F)
    BY <1>7, <1>11
  <2> HIDE DEF i
  <2>2. Byte(F, i) = F[i]
    BY <2>1, Zenon DEF Byte
  <2>3. Byte(F, i) = g[j]
    BY <1>11, <2>1, Zenon
  <2> QED
    BY <2>2, <2>3 DEF i
<1> QED
  BY <1>11, <1>12, Zenon DEF BytesAt, F, T, b, f, g

LEMMA BodyType ==
    ASSUME NEW p, NEW s, NEW d, Number(p, s, d)
    PROVE  /\ BodyOf(p, s, d) \in Seq(Bytes)
           /\ Len(BodyOf(p, s, d)) = DecimalSize(p, s)
           /\ Len(BodyOf(p, s, d)) > 0
           /\ BodyOf(p, s, d)[1] < 128
<1> DEFINE f == BodiesOf(p, s, d)
           N == Groups(p, s)
           F == BodyOf(p, s, d)
           t == SizesOf(p, s)
<1>1. N \in Nat /\ N # 0 /\ f \in [1..N -> Seq(Bytes)]
  BY BodiesType
<1>2. F = FlattenSeq(f)
  BY DEF BodyOf
<1>3. /\ Total(t, N) = DecimalSize(p, s)
  <2>1. p \in Nat \ {0} /\ s \in Nat /\ s <= p
    BY DEF Number
  <2> QED
    BY <2>1, SizesTotal
<1>4. Len(Before(f, N + 1)) = Total(t, N)
  <2>1. N + 1 \in 1..(N + 1) /\ (N + 1) - 1 = N
    BY <1>1
  <2>2. Len(Before(f, N + 1)) = Total(t, (N + 1) - 1)
    BY <2>1, BytesBefore
  <2> QED
    BY <2>1, <2>2, Zenon
<1>5. 1 \in 1..N
  BY <1>1
<1>6. BytesAt(F, Total(t, 1 - 1), f[1], t[1])
  BY <1>5, GroupBytes
<1>7. Total(t, 1 - 1) = 0
  <2>1. 0 \in Nat /\ 1 - 1 = 0 /\ \A k \in 1..0 : t[k] \in Int
    OBVIOUS
  <2>2. Total(t, 0) = 0
    BY <2>1, TotalIs
  <2> QED
    BY <2>1, <2>2, Zenon
<1>8. GroupSays(p, s, d, 1)
  BY <1>5, GroupIs
<1>9. t[1] \in 1..4 /\ Stored(WordAt(p, s, d, 1), t[1])
      /\ f[1] = BytesOf(WordAt(p, s, d, 1), t[1])
  BY <1>8, Zenon DEF GroupSays
<1>10. f[1][1] < 128
  BY <1>9, Zenon DEF Stored
<1> HIDE DEF f, N, F, t
<1>11. F \in Seq(Bytes) /\ F = Before(f, N + 1)
  BY <1>1, <1>2, <1>5, BeforeBegins
<1>12. 0 + t[1] <= Len(F) /\ \A j \in 1..t[1] : F[0 + j] = f[1][j]
  BY <1>6, <1>7, Zenon DEF BytesAt
<1>13. Len(F) > 0 /\ F[1] = f[1][1]
  <2>1. 1 \in 1..t[1] /\ 0 + 1 = 1 /\ Len(F) \in Nat
    BY <1>9, <1>11
  <2> QED
    BY <1>9, <1>12, <2>1
<1> QED
  BY <1>3, <1>4, <1>10, <1>11, <1>13, Zenon DEF F

\* The bytes that are stored, and the words that are read from them.
IsStorage(p, s, d, negative, st) ==
    /\ st \in Seq(Bytes) /\ Len(st) = DecimalSize(p, s) /\ st # <<>>
    /\ (st[1] < 128) = negative
    /\ \A k \in 1..Groups(p, s) :
         Word(st, GroupsOf(p, s), k) = WordAt(p, s, d, k)

LEMMA WordRead ==
    ASSUME NEW p, NEW s, NEW d, Number(p, s, d), NEW negative \in BOOLEAN,
           NEW k \in 1..Groups(p, s), NEW st,
           FirstBitInverted(st) = Signed(BodyOf(p, s, d), negative),
           (st[1] < 128) = negative
    PROVE  Word(st, GroupsOf(p, s), k) = WordAt(p, s, d, k)
<1> DEFINE G == GroupsOf(p, s)
           F == BodyOf(p, s, d)
           Y == Signed(F, negative)
           t == SizesOf(p, s)
           T == Total(t, k - 1)
           b == t[k]
           g == BodiesOf(p, s, d)[k]
           w == WordAt(p, s, d, k)
           piece == SubSeq(Y, GroupAt(G, k), GroupAt(G, k) + dig2bytes[G[k]] - 1)
<1>1. F \in Seq(Bytes)
  BY BodyType
<1>2. /\ Y \in Seq(Bytes) /\ Len(Y) = Len(F)
      /\ \A j \in 1..Len(F) : Y[j] = IF negative THEN 255 - F[j] ELSE F[j]
  BY <1>1, SignedIs
<1>3. BytesAt(F, T, g, b)
  BY GroupBytes
<1>4. T \in Nat /\ T + b <= Len(F) /\ \A j \in 1..b : F[T + j] = g[j]
  BY <1>3, Zenon DEF BytesAt
<1>5. b \in 1..4 /\ g = BytesOf(w, b) /\ Stored(w, b) /\ w \in Nat
  <2>1. GroupSays(p, s, d, k)
    BY GroupIs
  <2> QED
    BY <2>1, Zenon DEF GroupSays, WordSays
<1>6. IsBody(g, b)
  BY BodyIs
<1>7. b = dig2bytes[G[k]]
  BY DEF SizesOf
<1>8. GroupAt(G, k) = 1 + T
  <2>1. \A j \in 1..(k - 1) : dig2bytes[G[j]] = t[j]
    <3>1. Groups(p, s) \in Nat
      BY BodiesType
    <3>2. \A j \in 1..(k - 1) : j \in 1..Groups(p, s)
      BY <3>1
    <3> QED
      BY <3>2, Zenon DEF SizesOf
  <2>2. [j \in 1..(k - 1) |-> dig2bytes[G[j]]] = [j \in 1..(k - 1) |-> t[j]]
    BY <2>1, Zenon
  <2> QED
    BY <2>2, Zenon DEF GroupAt, Total
<1>9. Word(st, G, k) = IF negative THEN -SintKorr(piece) - 1 ELSE SintKorr(piece)
  BY Zenon DEF Word
<1> HIDE DEF G, F, Y, T, b, g, w
<1>10. piece = SubSeq(Y, T + 1, T + b)
  <2>1. 1 + T = T + 1 /\ 1 + T + b - 1 = T + b
    BY <1>4, <1>5
  <2> QED
    BY <1>7, <1>8, <2>1, Zenon
<1> HIDE DEF piece
<1>11. piece \in Seq(Bytes) /\ Len(piece) = b /\ \A j \in 1..b : piece[j] = Y[T + j]
  <2>1. T + 1 >= 1 /\ T + b <= Len(Y) /\ T + 1 <= T + b + 1
    BY <1>2, <1>4, <1>5
  <2> QED
    BY <1>2, <1>4, <1>5, <1>10, <2>1
<1>12. \A j \in 1..b : piece[j] = IF negative THEN 255 - g[j] ELSE g[j]
  <2> TAKE j \in 1..b
  <2>1. T + j \in 1..Len(F)
    BY <1>1, <1>4, <1>5
  <2>2. Y[T + j] = IF negative THEN 255 - F[T + j] ELSE F[T + j]
    BY <1>2, <2>1, Zenon
  <2>3. F[T + j] = g[j] /\ piece[j] = Y[T + j]
    BY <1>4, <1>11, Zenon
  <2> QED
    BY <2>2, <2>3, Zenon
<1>13. /\ g \in Seq(Bytes) /\ Len(g) = b
       /\ Flipped(g) \in Seq(Bytes) /\ Len(Flipped(g)) = b
       /\ \A j \in 1..b : Flipped(g)[j] = 255 - g[j]
  BY <1>6, Zenon DEF IsBody
<1>14. CASE negative
  <2>1. piece = Flipped(g)
    <3>1. \A j \in 1..b : piece[j] = Flipped(g)[j]
      BY <1>12, <1>13, <1>14, Zenon
    <3> QED
      BY <1>11, <1>13, <3>1
  <2>2. SintKorr(piece) = -w - 1
    BY <1>5, <2>1, Zenon DEF Stored
  <2>3. -(-w - 1) - 1 = w
    BY <1>5
  <2> QED
    BY <1>9, <1>14, <2>2, <2>3, Zenon DEF G, w
<1>15. CASE ~negative
  <2>1. piece = g
    <3>1. \A j \in 1..b : piece[j] = g[j]
      BY <1>12, <1>15, Zenon
    <3> QED
      BY <1>11, <1>13, <3>1
  <2>2. SintKorr(piece) = w
    BY <1>5, <2>1, Zenon DEF Stored
  <2> QED
    BY <1>9, <1>15, <2>2, Zenon DEF G, w
<1> QED
  BY <1>14, <1>15

LEMMA StorageIs ==
    ASSUME NEW p, NEW s, NEW d, Number(p, s, d), NEW negative \in BOOLEAN
    PROVE  IsStorage(p, s, d, negative, StoredDecimal(p, s, negative, d))
<1> DEFINE F == BodyOf(p, s, d)
           Y == Signed(F, negative)
           st == StoredDecimal(p, s, negative, d)
<1>1. /\ F \in Seq(Bytes) /\ Len(F) = DecimalSize(p, s) /\ Len(F) > 0
      /\ F[1] < 128
  BY BodyType
<1>2. st = FirstBitInverted(Y)
  BY StoredDecimalIs
<1> HIDE DEF F
<1>3. /\ Y \in Seq(Bytes) /\ Len(Y) = Len(F)
      /\ \A j \in 1..Len(F) : Y[j] = IF negative THEN 255 - F[j] ELSE F[j]
  BY <1>1, SignedIs
<1> HIDE DEF Y, st
<1>4. Y # <<>>
  BY <1>1, <1>3
<1>5. /\ st \in Seq(Bytes) /\ Len(st) = Len(Y)
      /\ st[1] = (Y[1] + 128) % 256 /\ FirstBitInverted(st) = Y
  BY <1>2, <1>3, <1>4, FirstBitTwice
<1>6. st # <<>>
  BY <1>1, <1>3, <1>5
<1>7. (st[1] < 128) = negative
  <2>1. 1 \in 1..Len(F)
    BY <1>1
  <2>2. F[1] \in Bytes
    BY <1>1, <2>1
  <2>3. F[1] \in Nat /\ F[1] < 128
    <3>1. \A x \in Bytes : x \in Nat
      BY DEF Bytes
    <3> QED
      BY <1>1, <2>2, <3>1, Zenon
  <2>4. Y[1] = IF negative THEN 255 - F[1] ELSE F[1]
    BY <1>3, <2>1
  <2> DEFINE x == F[1]
  <2> HIDE DEF x
  <2>5. /\ (((255 - x) + 128) % 256) < 128 /\ ~(((x + 128) % 256) < 128)
    BY <2>3, SMT DEF x
  <2>6. CASE negative
    BY <1>5, <2>4, <2>5, <2>6, ZenonT(40) DEF x
  <2>7. CASE ~negative
    BY <1>5, <2>4, <2>5, <2>7 DEF x
  <2> QED
    BY <2>6, <2>7
<1>8. \A k \in 1..Groups(p, s) : Word(st, GroupsOf(p, s), k) = WordAt(p, s, d, k)
  BY <1>5, <1>7, WordRead DEF Y, F
<1> QED
  BY <1>1, <1>3, <1>5, <1>6, <1>7, <1>8, Zenon DEF IsStorage, st

-----------------------------------------------------------------------------
(* Zeros in front *)

\* This many elements in front are zero, and no more.
Leading(s, z) ==
    /\ z \in 0..Len(s) /\ \A j \in 1..z : s[j] = 0
    /\ z < Len(s) => s[z + 1] # 0

LEMMA SignificantIs ==
    ASSUME NEW T, NEW s \in Seq(T), NEW z, Leading(s, z)
    PROVE  Significant(s) = SubSeq(s, z + 1, Len(s))
<1> DEFINE zeros == {k \in DOMAIN s : \A j \in 1..k : s[j] = 0}
<1>1. z \in Nat /\ z <= Len(s) /\ Len(s) \in Nat /\ DOMAIN s = 1..Len(s)
  BY DEF Leading
<1>2. ASSUME NEW k \in zeros PROVE k \in 1..z
  <2>1. k \in 1..Len(s) /\ \A j \in 1..k : s[j] = 0
    BY <1>1
  <2>2. CASE k > z
    <3>1. z < Len(s) /\ z + 1 \in 1..k
      BY <1>1, <2>1, <2>2
    <3> QED
      BY <2>1, <3>1, Zenon DEF Leading
  <2> QED
    BY <1>1, <2>1, <2>2
<1>3. ASSUME NEW k \in 1..z PROVE k \in zeros
  <2>1. k \in 1..Len(s) /\ \A j \in 1..k : j \in 1..z
    BY <1>1
  <2>2. \A j \in 1..k : s[j] = 0
    BY <2>1, Zenon DEF Leading
  <2> QED
    BY <1>1, <2>1, <2>2, Zenon
<1>4. zeros = 1..z
  BY <1>2, <1>3, Zenon
<1>5. Cardinality(zeros) = z
  <2>1. 1 \in Int /\ z \in Int
    BY <1>1
  <2>2. Cardinality(1..z) = IF 1 > z THEN 0 ELSE z - 1 + 1
    BY <2>1, FS_Interval
  <2> HIDE DEF zeros
  <2>3. Cardinality(1..z) = z
    BY <1>1, <2>2
  <2> QED
    BY <1>4, <2>3, Zenon
<1> QED
  BY <1>5, Zenon DEF Significant

LEMMA LeadingExists ==
    ASSUME NEW T, NEW s \in Seq(T)
    PROVE  \E z : Leading(s, z)
<1> DEFINE S == {k \in 1..Len(s) : s[k] # 0}
<1>1. Len(s) \in Nat
  OBVIOUS
<1>2. CASE S = {}
  <2>1. \A j \in 1..Len(s) : s[j] = 0
    BY <1>2
  <2>2. Len(s) \in 0..Len(s) /\ ~(Len(s) < Len(s))
    BY <1>1
  <2>3. Leading(s, Len(s))
    BY <2>1, <2>2, Zenon DEF Leading
  <2> QED
    BY <2>3
<1>3. CASE S # {}
  <2> DEFINE m == Min(S)
  <2>1. S \subseteq Nat
    BY <1>1
  <2>2. m \in S /\ \A y \in S : m <= y
    <3> HIDE DEF S
    <3> QED
      BY <1>3, <2>1, MinIs
  <2> HIDE DEF m
  <2>3. m \in 1..Len(s) /\ s[m] # 0
    BY <2>2
  <2>4. m - 1 \in 0..Len(s) /\ (m - 1) + 1 = m
    BY <1>1, <2>3
  <2>5. ASSUME NEW j \in 1..(m - 1) PROVE s[j] = 0
    <3>1. j \in 1..Len(s) /\ ~(m <= j)
      BY <1>1, <2>3
    <3> QED
      BY <2>2, <3>1
  <2>6. Leading(s, m - 1)
    BY <2>3, <2>4, <2>5, Zenon DEF Leading
  <2> QED
    BY <2>6
<1> QED
  BY <1>2, <1>3

\* A sum that begins later.
Later(t, s, a, n) == Total(t, n) = Total(s, a + n) - Total(s, a)

LEMMA TotalLater ==
    ASSUME NEW N \in Nat, NEW s, \A k \in 1..N : s[k] \in Int,
           NEW a \in Nat, NEW n \in Nat, a + n <= N,
           NEW t, \A k \in 1..n : t[k] = s[a + k]
    PROVE  Later(t, s, a, n)
<1> DEFINE S == {m \in Nat : m <= n => Total(t, m) = Total(s, a + m) - Total(s, a)}
<1>1. \A k \in 1..n : t[k] \in Int
  <2> TAKE k \in 1..n
  <2>1. a + k \in 1..N
    OBVIOUS
  <2> QED
    BY <2>1, Zenon
<1>2. 0 \in S
  <2>1. a + 0 = a /\ a \in 0..N
    OBVIOUS
  <2>2. Total(s, a) \in Int
    BY <2>1, TotalIs
  <2>3. Total(t, 0) = 0
    BY <1>1, TotalIs
  <2> QED
    BY <2>1, <2>2, <2>3
<1>3. ASSUME NEW m \in Nat, m \in S PROVE m + 1 \in S
  <2> SUFFICES ASSUME m + 1 <= n
               PROVE  Total(t, m + 1) = Total(s, a + (m + 1)) - Total(s, a)
    OBVIOUS
  <2> DEFINE k == a + (m + 1)
             l == m + 1
  <2>1. /\ k \in 1..N /\ k - 1 = a + m /\ k = a + l
        /\ l \in 1..n /\ l - 1 = m /\ a \in 0..N /\ a + m \in 0..N
    OBVIOUS
  <2> HIDE DEF k, l
  <2>2. Total(s, k) = Total(s, k - 1) + s[k]
    BY <2>1, TotalIs
  <2>3. Total(t, l) = Total(t, l - 1) + t[l]
    BY <1>1, <2>1, TotalIs
  <2>4. t[l] = s[k] /\ s[k] \in Int
    BY <2>1, Zenon
  <2>5. Total(t, m) = Total(s, a + m) - Total(s, a)
    BY <1>3 DEF l
  <2>6. Total(s, a) \in Int /\ Total(s, a + m) \in Int
    BY <2>1, TotalIs
  <2>7. Total(t, l - 1) = Total(t, m) /\ Total(s, k - 1) = Total(s, a + m)
    BY <2>1, Zenon
  <2>8. Total(t, l) = Total(s, k) - Total(s, a)
    BY <2>2, <2>3, <2>4, <2>5, <2>6, <2>7
  <2> QED
    BY <2>8 DEF k, l
<1>4. n \in S
  <2> HIDE DEF S
  <2> QED
    BY <1>2, <1>3, NatSetInduction
<1> QED
  BY <1>4 DEF Later

-----------------------------------------------------------------------------
(* Reading a number *)

LEMMA PowersOfTen == \A e \in 0..8 : 10^e \in Nat \ {0}
<1> SUFFICES ASSUME NEW e \in 0..8 PROVE 10^e \in Nat \ {0}
  OBVIOUS
<1>1. CASE e = 0
  BY <1>1, TenPowers, SMT
<1>2. CASE e = 1
  BY <1>2, TenPowers, SMT
<1>3. CASE e = 2
  BY <1>3, TenPowers, SMT
<1>4. CASE e = 3
  BY <1>4, TenPowers, SMT
<1>5. CASE e = 4
  BY <1>5, TenPowers, SMT
<1>6. CASE e = 5
  BY <1>6, TenPowers, SMT
<1>7. CASE e = 6
  BY <1>7, TenPowers, SMT
<1>8. CASE e = 7
  BY <1>8, TenPowers, SMT
<1>9. CASE e = 8
  BY <1>9, TenPowers, SMT
<1> QED
  BY <1>1, <1>2, <1>3, <1>4, <1>5, <1>6, <1>7, <1>8, <1>9

LEMMA WordFits ==
    ASSUME NEW n \in 1..9, NEW w \in Nat, w < 10^n, NEW first, first => n < 9
    PROVE  WordInRange(w, n, first)
<1>1. 0 <= w
  OBVIOUS
<1>2. CASE first
  <2>1. w < 10^(n + 1)
    <3>1. n < 9
      BY <1>2
    <3>2. n = 1 \/ n = 2 \/ n = 3 \/ n = 4 \/ n = 5 \/ n = 6 \/ n = 7 \/ n = 8
      BY <3>1
    <3>3. CASE n = 1
      BY <3>3, TenPowers, SMT
    <3>4. CASE n = 2
      BY <3>4, TenPowers, SMT
    <3>5. CASE n = 3
      BY <3>5, TenPowers, SMT
    <3>6. CASE n = 4
      BY <3>6, TenPowers, SMT
    <3>7. CASE n = 5
      BY <3>7, TenPowers, SMT
    <3>8. CASE n = 6
      BY <3>8, TenPowers, SMT
    <3>9. CASE n = 7
      BY <3>9, TenPowers, SMT
    <3>10. CASE n = 8
      BY <3>10, TenPowers, SMT
    <3> QED
      BY <3>2, <3>3, <3>4, <3>5, <3>6, <3>7, <3>8, <3>9, <3>10
  <2> QED
    BY <1>1, <1>2, <2>1, Zenon DEF WordInRange
<1>3. CASE ~first
  BY <1>1, <1>3, Zenon DEF WordInRange
<1> QED
  BY <1>2, <1>3, Zenon

\* What _init_decimal() gives when the words of z groups in front are zero.
InitIs(p, s, d, negative, z, r) ==
    LET m == Count(p - s)
        N == Groups(p, s)
    IN  /\ z \in 0..m /\ \A k \in 1..z : WordAt(p, s, d, k) = 0
        /\ r.error = FALSE /\ r.sign = negative /\ r.frac = s
        /\ r.intg = (p - s) - Total(GroupsOf(p, s), z)
        /\ r.buf \in Seq(Nat) /\ Len(r.buf) = N - z
        /\ \A k \in 1..(m - z) : r.buf[k] = WordAt(p, s, d, z + k)
        /\ \A k \in (m - z + 1)..(N - z) :
             r.buf[k] = WordAt(p, s, d, z + k) * 10^(9 - GroupsOf(p, s)[z + k])

LEMMA InitDecimal ==
    ASSUME NEW p, NEW s, NEW d, Number(p, s, d), NEW negative \in BOOLEAN,
           NEW st, IsStorage(p, s, d, negative, st)
    PROVE  \E z : InitIs(p, s, d, negative, z, _init_decimal(st, p, s))
<1> DEFINE intgs == IntgGroups(p, s)
           G == GroupsOf(p, s)
           m == Count(p - s)
           n == Count(s)
           N == Groups(p, s)
           W == [k \in DOMAIN G |-> Word(st, G, k)]
           w(k) == WordAt(p, s, d, k)
           whole == Significant(SubSeq(W, 1, Len(intgs)))
           dropped == Len(intgs) - Len(whole)
           fraction == [k \in 1..(Len(G) - Len(intgs)) |->
                          W[Len(intgs) + k] * 10^(9 - G[Len(intgs) + k])]
           fits == \A k \in DOMAIN G :
                     WordInRange(W[k], G[k], k = 1 /\ intgs # <<>> /\ G[1] < 9)
           r == [error |-> FALSE, sign |-> Byte(st, 1) < 128,
                 intg |-> SumOf(SubSeq(intgs, dropped + 1, Len(intgs))),
                 frac |-> s, buf |-> whole \o fraction]
<1>1. _init_decimal(st, p, s) = IF fits THEN r ELSE DecimalError
  BY Zenon DEF _init_decimal, GroupsOf, DIG_PER_DEC1
<1>2. p \in Nat \ {0} /\ s \in Nat /\ s <= p /\ p - s \in Nat
  BY DEF Number
<1>3. /\ Len(G) = N /\ N = m + n /\ N \in Nat /\ m \in Nat /\ n \in Nat
      /\ \A k \in 1..N : G[k] \in 1..9
      /\ Total(G, m) = p - s /\ G \in Seq(1..9)
  BY <1>2, GroupsTotal, GroupsAre DEF Groups
<1>4. /\ intgs \in Seq(1..9) /\ Len(intgs) = m
      /\ \A k \in 1..m : intgs[k] = IntgGroup(p - s, k)
      /\ \A k \in 1..m : G[k] = IntgGroup(p - s, k)
  BY <1>2, IntgGroupsAre, GroupsAre
<1>5. \A k \in 1..m : intgs[k] = G[k]
  BY <1>4, Zenon
<1>6. ASSUME NEW k \in 1..N PROVE W[k] = w(k) /\ w(k) \in Nat /\ w(k) < 10^G[k]
  <2>1. k \in DOMAIN G
    BY <1>3
  <2>2. W[k] = Word(st, G, k)
    BY <2>1, Zenon
  <2>3. Word(st, G, k) = w(k)
    BY Zenon DEF IsStorage
  <2>4. GroupSays(p, s, d, k)
    BY GroupIs
  <2>5. w(k) \in Nat /\ w(k) < 10^G[k]
    BY <2>4, Zenon DEF GroupSays, WordSays
  <2> QED
    BY <2>2, <2>3, <2>5, Zenon
<1>7. DOMAIN G = 1..N
  BY <1>3
<1>8. W = [k \in 1..N |-> W[k]]
  BY <1>7, Zenon
<1>9. (Byte(st, 1) < 128) = negative
  <2>1. st \in Seq(Bytes) /\ st # <<>> /\ (st[1] < 128) = negative
    BY Zenon DEF IsStorage
  <2>2. 1 \in 1..Len(st)
    BY <2>1
  <2>3. Byte(st, 1) = st[1]
    BY <2>2, Zenon DEF Byte
  <2> QED
    BY <2>1, <2>3, Zenon
<1>10. fits
  <2> SUFFICES ASSUME NEW k \in 1..N
               PROVE  WordInRange(W[k], G[k], k = 1 /\ intgs # <<>> /\ G[1] < 9)
    BY <1>7, Zenon
  <2>1. G[k] \in 1..9 /\ W[k] \in Nat /\ W[k] < 10^G[k]
    BY <1>3, <1>6, Zenon
  <2> DEFINE first == k = 1 /\ intgs # <<>> /\ G[1] < 9
  <2>2. first => G[k] < 9
    OBVIOUS
  <2> HIDE DEF first, W, G
  <2>3. WordInRange(W[k], G[k], first)
    BY <2>1, <2>2, WordFits, Zenon
  <2> QED
    BY <2>3, Zenon DEF first
<1>11. _init_decimal(st, p, s) = r
  BY <1>1, <1>10, Zenon
<1> HIDE DEF intgs, G, m, n, N, W, w, fits
<1>12. W \in Seq(Nat) /\ Len(W) = N
  <2>1. \A k \in 1..N : W[k] \in Nat
    BY <1>6, Zenon
  <2> QED
    BY <1>3, <1>8, <2>1, SMTT(30)
<1> DEFINE front == SubSeq(W, 1, m)
<1>13. front \in Seq(Nat) /\ Len(front) = m /\ \A k \in 1..m : front[k] = W[k]
  BY <1>3, <1>12
<1> HIDE DEF front
<1>14. PICK z : Leading(front, z)
  BY <1>13, LeadingExists
<1>15. /\ z \in 0..m /\ \A j \in 1..z : front[j] = 0
  BY <1>13, <1>14, Zenon DEF Leading
<1>16. whole = SubSeq(front, z + 1, m)
  <2>1. Significant(front) = SubSeq(front, z + 1, Len(front))
    BY <1>13, <1>14, SignificantIs
  <2> QED
    BY <1>4, <1>13, <2>1, Zenon DEF front
<1> HIDE DEF whole
<1>17. /\ whole \in Seq(Nat) /\ Len(whole) = m - z
       /\ \A k \in 1..(m - z) : whole[k] = front[z + k]
  BY <1>3, <1>13, <1>15, <1>16
<1>18. dropped = z
  BY <1>3, <1>4, <1>15, <1>17
<1>19. fraction = [k \in 1..(N - m) |-> W[m + k] * 10^(9 - G[m + k])]
  BY <1>3, <1>4, Zenon
<1> HIDE DEF dropped, fraction
<1>20. /\ fraction \in Seq(Nat) /\ Len(fraction) = N - m
       /\ \A k \in 1..(N - m) : fraction[k] = W[m + k] * 10^(9 - G[m + k])
  <2>1. ASSUME NEW k \in 1..(N - m) PROVE W[m + k] * 10^(9 - G[m + k]) \in Nat
    <3>1. m + k \in 1..N
      BY <1>3
    <3> DEFINE e == 9 - G[m + k]
    <3>2. e \in 0..8
      BY <1>3, <3>1
    <3> HIDE DEF e
    <3>3. 10^e \in Nat
      BY <3>2, PowersOfTen, Zenon
    <3>4. W[m + k] \in Nat
      BY <1>6, <3>1, Zenon
    <3> DEFINE x == W[m + k]
               y == 10^e
    <3>5. x \in Nat /\ y \in Nat
      BY <3>3, <3>4
    <3> HIDE DEF x, y
    <3>6. x * y \in Nat
      BY <3>5
    <3> QED
      BY <3>6, Zenon DEF x, y, e
  <2>2. N - m \in Nat
    BY <1>3
  <2> DEFINE g == [k \in 1..(N - m) |-> W[m + k] * 10^(9 - G[m + k])]
  <2>3. \A k \in 1..(N - m) : g[k] = W[m + k] * 10^(9 - G[m + k])
    BY Zenon
  <2>4. g = [k \in 1..(N - m) |-> g[k]]
    BY Zenon
  <2>5. \A k \in 1..(N - m) : g[k] \in Nat
    BY <2>1, <2>3, Zenon
  <2>6. g = fraction
    BY <1>19, Zenon
  <2> HIDE DEF g
  <2>7. g \in Seq(Nat) /\ Len(g) = N - m
    BY <2>2, <2>4, <2>5
  <2> QED
    BY <2>3, <2>6, <2>7, Zenon
<1> DEFINE buf == whole \o fraction
<1>21. /\ buf \in Seq(Nat) /\ Len(buf) = N - z
       /\ \A k \in 1..(m - z) : buf[k] = whole[k]
       /\ \A k \in 1..(N - m) : buf[(m - z) + k] = fraction[k]
  <2> DEFINE a == m - z
             b == N - m
  <2>1. /\ whole \in Seq(Nat) /\ fraction \in Seq(Nat)
        /\ a = Len(whole) /\ b = Len(fraction)
    BY <1>17, <1>20
  <2> HIDE DEF a, b
  <2>2. JoinedAt(whole, fraction, a, b)
    BY <2>1, ConcatOf
  <2>3. buf \in Seq(Nat) /\ Len(buf) = a + b
    BY <2>1
  <2>4. a + b = N - z
    BY <1>3, <1>15 DEF a, b
  <2> QED
    BY <2>2, <2>3, <2>4, Zenon DEF JoinedAt, a, b
<1> HIDE DEF buf
<1>22. \A k \in 1..(m - z) : buf[k] = w(z + k)
  <2> TAKE k \in 1..(m - z)
  <2>1. z + k \in 1..m /\ z + k \in 1..N
    BY <1>3, <1>15
  <2> QED
    BY <1>6, <1>13, <1>17, <1>21, <2>1, Zenon
<1>23. \A k \in (m - z + 1)..(N - z) : buf[k] = w(z + k) * 10^(9 - G[z + k])
  <2> TAKE k \in (m - z + 1)..(N - z)
  <2> DEFINE j == k - (m - z)
  <2>1. j \in 1..(N - m) /\ (m - z) + j = k /\ m + j = z + k /\ z + k \in 1..N
    BY <1>3, <1>15
  <2> HIDE DEF j
  <2>2. buf[(m - z) + j] = fraction[j] /\ fraction[j] = W[m + j] * 10^(9 - G[m + j])
    BY <1>20, <1>21, <2>1, Zenon
  <2>3. W[z + k] = w(z + k)
    BY <1>6, <2>1, Zenon
  <2> QED
    BY <2>1, <2>2, <2>3, Zenon
<1>24. \A k \in 1..z : w(k) = 0
  <2> TAKE k \in 1..z
  <2>1. k \in 1..m /\ k \in 1..N
    BY <1>3, <1>15
  <2> QED
    BY <1>6, <1>13, <1>15, <2>1, Zenon
<1>25. SumOf(SubSeq(intgs, dropped + 1, Len(intgs))) = (p - s) - Total(G, z)
  <2> DEFINE t == SubSeq(intgs, z + 1, m)
             l == m - z
  <2>1. t \in Seq(1..9) /\ Len(t) = l /\ \A k \in 1..l : t[k] = intgs[z + k]
    BY <1>3, <1>4, <1>15
  <2>2. l \in Nat /\ z + l <= N /\ z + l = m /\ z \in Nat
    BY <1>3, <1>15
  <2>3. \A k \in 1..N : G[k] \in Int
    BY <1>3
  <2>4. SubSeq(intgs, dropped + 1, Len(intgs)) = t
    BY <1>4, <1>18, Zenon
  <2>5. ASSUME NEW k \in 1..l PROVE t[k] = G[z + k]
    <3>1. z + k \in 1..m
      BY <1>3, <1>15
    <3> QED
      BY <1>5, <2>1, <3>1, Zenon
  <2> HIDE DEF t, l
  <2>6. SumOf(t) = Total(t, l)
    <3>1. SumOf(t) = Total(t, Len(t))
      BY <2>1, SumOfTotal
    <3> QED
      BY <2>1, <3>1, Zenon
  <2>7. Later(t, G, z, l)
    <3>1. \A k \in 1..l : t[k] = G[z + k]
      BY <2>5
    <3> QED
      BY <1>3, <2>2, <2>3, <3>1, TotalLater, Zenon
  <2> QED
    BY <1>3, <2>2, <2>4, <2>6, <2>7, Zenon DEF Later
<1>26. InitIs(p, s, d, negative, z, r)
  <2>1. /\ r.error = FALSE /\ r.sign = negative /\ r.frac = s
        /\ r.intg = (p - s) - Total(G, z) /\ r.buf = buf
    BY <1>9, <1>25, Zenon DEF buf
  <2> HIDE DEF r
  <2> QED
    BY <1>15, <1>21, <1>22, <1>23, <1>24, <2>1, Zenon DEF InitIs, G, m, N, w
<1> QED
  BY <1>11, <1>26, Zenon

-----------------------------------------------------------------------------
(* Showing a number *)

IsDigits(g, n) == g \in Seq(0..9) /\ Len(g) = n

LEMMA DigitsType ==
    ASSUME NEW x \in Nat, NEW n \in 1..9
    PROVE  IsDigits(DigitsOf(x, n), n)
<1> DEFINE g == DigitsOf(x, n)
<1>1. g = [k \in 1..n |-> g[k]] /\ \A k \in 1..n : g[k] = (x \div 10^(n - k)) % 10
  BY DEF DigitsOf
<1>2. ASSUME NEW k \in 1..n PROVE g[k] \in 0..9
  <2> DEFINE e == n - k
             y == 10^e
  <2>1. e \in 0..8
    OBVIOUS
  <2>2. y \in Nat \ {0}
    BY <2>1, PowersOfTen, Zenon
  <2>3. g[k] = (x \div y) % 10
    BY <1>1, Zenon
  <2> HIDE DEF g, y
  <2>4. x \div y \in Nat
    BY <2>2
  <2> QED
    BY <2>3, <2>4
<1> HIDE DEF g
<1>3. g \in Seq(0..9) /\ Len(g) = n
  BY <1>1, <1>2, SMTT(30)
<1> QED
  BY <1>3, Zenon DEF IsDigits, g

\* The digits of the groups that are kept: those in front of the point begin
\* with any number, all others have nine but for the last one.
Kept(p, s, z) ==
    LET G == GroupsOf(p, s)
        m == Count(p - s)
        N == Groups(p, s)
    IN  /\ m \in Nat /\ N \in Nat /\ m <= N
        /\ \A k \in 1..N : G[k] \in 1..9
        /\ \A k \in (z + 2)..m : G[k] = 9
        /\ \A k \in (m + 1)..(N - 1) : G[k] = 9
        /\ Total(G, m) = p - s /\ Total(G, N) = p
        /\ m > z => (p - s) - Total(G, z) = G[z + 1] + 9 * (m - z - 1)
        /\ m = z => (p - s) - Total(G, z) = 0

LEMMA KeptGroups ==
    ASSUME NEW p, NEW s, NEW d, Number(p, s, d), NEW z \in 0..Count(p - s)
    PROVE  Kept(p, s, z)
<1> DEFINE G == GroupsOf(p, s)
           i == p - s
           m == Count(i)
           n == Count(s)
           N == Groups(p, s)
<1>1. p \in Nat \ {0} /\ s \in Nat /\ s <= p /\ i \in Nat
  BY DEF Number
<1>2. /\ N = m + n /\ N \in Nat /\ m \in Nat /\ n \in Nat
      /\ \A k \in 1..N : G[k] \in 1..9
      /\ Total(G, m) = i /\ Total(G, N) = p
      /\ \A k \in 1..m : Total(G, k) = G[1] + 9 * (k - 1)
  BY <1>1, GroupsTotal DEF Groups
<1>3. /\ \A k \in 1..m : G[k] = IntgGroup(i, k)
      /\ \A k \in 1..n : G[m + k] = FracGroup(s, k)
  BY <1>1, GroupsAre
<1>4. \A k \in 1..(n - 1) : ~(k > s \div 9)
  <2>1. /\ n \in Nat /\ s \div 9 \in Nat /\ s % 9 \in 0..8
        /\ s % 9 = 0 => n = s \div 9
        /\ s % 9 > 0 => n = s \div 9 + 1
    BY <1>1, CountIs
  <2> DEFINE x == s \div 9
             y == s % 9
  <2> HIDE DEF n, x, y
  <2>2. \A k \in 1..(n - 1) : ~(k > x)
    BY <2>1 DEF x, y
  <2> QED
    BY <2>2 DEF x
<1>5. z \in 0..m
  OBVIOUS
<1> HIDE DEF G, i, m, n, N
<1>6. \A k \in (z + 2)..m : G[k] = 9
  <2> TAKE k \in (z + 2)..m
  <2>1. k \in 1..m /\ k # 1
    BY <1>2, <1>5
  <2> QED
    BY <1>3, <2>1, Zenon DEF IntgGroup
<1>7. \A k \in (m + 1)..(N - 1) : G[k] = 9
  <2> TAKE k \in (m + 1)..(N - 1)
  <2> DEFINE j == k - m
  <2>1. j \in 1..n /\ j \in 1..(n - 1) /\ m + j = k
    BY <1>2
  <2> HIDE DEF j
  <2>2. G[m + j] = FracGroup(s, j) /\ ~(j > s \div 9)
    BY <1>3, <1>4, <2>1, Zenon
  <2> QED
    BY <2>1, <2>2, Zenon DEF FracGroup
<1>8. ASSUME m > z PROVE i - Total(G, z) = G[z + 1] + 9 * (m - z - 1)
  <2>1. Total(G, m) = G[1] + 9 * (m - 1) /\ G[1] \in 1..9
    BY <1>2, <1>5, <1>8
  <2>2. CASE z = 0
    <3>1. Total(G, z) = 0
      <4>1. 0 \in Nat /\ \A k \in 1..0 : G[k] \in Int
        OBVIOUS
      <4>2. Total(G, 0) = 0
        BY <4>1, TotalIs
      <4> QED
        BY <2>2, <4>2, Zenon
    <3>2. z + 1 = 1 /\ m - z - 1 = m - 1
      BY <1>2, <2>2
    <3>3. G[z + 1] = G[1]
      BY <3>2, Zenon
    <3> QED
      BY <1>2, <2>1, <3>1, <3>2, <3>3
  <2>3. CASE z > 0
    <3>1. z \in 1..m /\ z + 1 \in 1..m /\ z + 1 # 1
      BY <1>2, <1>5, <1>8, <2>3
    <3>2. Total(G, z) = G[1] + 9 * (z - 1)
      BY <1>2, <3>1
    <3>3. G[z + 1] = 9
      BY <1>3, <3>1, Zenon DEF IntgGroup
    <3> QED
      BY <1>2, <2>1, <3>1, <3>2, <3>3
  <2> QED
    BY <1>5, <2>2, <2>3
<1>9. ASSUME m = z PROVE i - Total(G, z) = 0
  <2>1. Total(G, z) = i
    BY <1>2, <1>9, Zenon
  <2> QED
    BY <1>1, <2>1
<1>10. m <= N
  BY <1>2
<1> QED
  BY <1>2, <1>6, <1>7, <1>8, <1>9, <1>10, Zenon DEF Kept, G, i, m, N

\* How decimal2string() and decimal2double() find the digits.
WordsIn(r) == (r.intg + 9 - 1) \div 9
FrontIn(r) == r.intg - (WordsIn(r) - 1) * 9
PieceOf(r, k) ==
    IF k = 1 /\ WordsIn(r) > 0 THEN DigitsOf(r.buf[k], FrontIn(r))
    ELSE DigitsOf(r.buf[k], 9)
PiecesOf(r) == [k \in DOMAIN r.buf |-> PieceOf(r, k)]
DigitsIn(r) == FlattenSeq(PiecesOf(r))

LEMMA ShownIs ==
    ASSUME NEW r
    PROVE  ShownDecimal(r)
             = [negative |-> r.sign,
                whole |-> Significant(SubSeq(DigitsIn(r), 1, r.intg)),
                fraction |-> SubSeq(DigitsIn(r), r.intg + 1, r.intg + r.frac)]
BY Zenon DEF ShownDecimal, DigitsIn, PiecesOf, PieceOf, FrontIn, WordsIn, DIG_PER_DEC1

WordsKept(p, s, z, r) ==
    /\ WordsIn(r) = Count(p - s) - z
    /\ Count(p - s) > z => FrontIn(r) = GroupsOf(p, s)[z + 1]

LEMMA WordsOf ==
    ASSUME NEW p, NEW s, NEW d, Number(p, s, d), NEW negative, NEW z, NEW r,
           InitIs(p, s, d, negative, z, r)
    PROVE  WordsKept(p, s, z, r)
<1> DEFINE G == GroupsOf(p, s)
           m == Count(p - s)
           i == r.intg
           e == G[z + 1]
<1>1. z \in 0..m /\ i = (p - s) - Total(G, z)
  BY Zenon DEF InitIs
<1>2. Kept(p, s, z)
  BY <1>1, KeptGroups
<1>3. /\ m \in Nat
      /\ m > z => i = e + 9 * (m - z - 1)
      /\ m = z => i = 0
  BY <1>1, <1>2, Zenon DEF Kept
<1>4. m > z => e \in 1..9
  <2>1. m \in Nat /\ Groups(p, s) \in Nat /\ m <= Groups(p, s)
        /\ \A k \in 1..Groups(p, s) : G[k] \in 1..9
    BY <1>2, Zenon DEF Kept
  <2> HIDE DEF m, G
  <2>2. m > z => z + 1 \in 1..Groups(p, s)
    BY <1>1, <2>1
  <2> QED
    BY <2>1, <2>2, Zenon
<1> HIDE DEF G, m, i, e
<1>5. CASE m > z
  <2> DEFINE j == m - z - 1
  <2>1. j \in Nat /\ i = e + 9 * j /\ e \in 1..9 /\ j + 1 = m - z
    BY <1>1, <1>3, <1>4, <1>5
  <2> HIDE DEF j
  <2>2. (i + 9 - 1) \div 9 = j + 1
    BY <2>1
  <2>3. WordsIn(r) = m - z
    BY <2>1, <2>2 DEF WordsIn, i
  <2>4. FrontIn(r) = e
    <3>1. WordsIn(r) = j + 1
      BY <2>1, <2>3
    <3>2. i - ((j + 1) - 1) * 9 = e
      BY <2>1
    <3> QED
      BY <3>1, <3>2, Zenon DEF FrontIn, i
  <2> QED
    BY <2>3, <2>4, Zenon DEF WordsKept, m, e, G
<1>6. CASE m = z
  <2>1. i = 0
    BY <1>3, <1>6
  <2>2. WordsIn(r) = 0
    BY <2>1 DEF WordsIn, i
  <2>3. m - z = 0 /\ ~(m > z)
    BY <1>1, <1>3, <1>6
  <2> QED
    BY <2>2, <2>3, Zenon DEF WordsKept, m
<1> QED
  BY <1>1, <1>3, <1>5, <1>6

PieceSays(p, s, d, z, r, k) ==
    LET g == PieceOf(r, k)
        n == GroupsOf(p, s)[z + k]
        from == Total(GroupsOf(p, s), z + k - 1)
    IN  /\ g \in Seq(0..9) /\ from \in Nat /\ n \in 1..9
        /\ Total(GroupsOf(p, s), z + k) = from + n
        /\ Len(g) >= n /\ (k < Groups(p, s) - z => Len(g) = n)
        /\ \A j \in 1..n : g[j] = d[from + j]

LEMMA PieceIs ==
    ASSUME NEW p, NEW s, NEW d, Number(p, s, d), NEW negative, NEW z, NEW r,
           InitIs(p, s, d, negative, z, r), NEW k \in 1..(Groups(p, s) - z)
    PROVE  PieceSays(p, s, d, z, r, k)
<1> DEFINE G == GroupsOf(p, s)
           m == Count(p - s)
           N == Groups(p, s)
           l == z + k
           n == G[l]
           from == Total(G, l - 1)
           w == WordAt(p, s, d, l)
           g == PieceOf(r, k)
<1>1. k \in 1..(N - z)
  OBVIOUS
<1>2. /\ z \in 0..m /\ r.buf \in Seq(Nat) /\ Len(r.buf) = N - z
      /\ \A j \in 1..(m - z) : r.buf[j] = WordAt(p, s, d, z + j)
      /\ \A j \in (m - z + 1)..(N - z) :
           r.buf[j] = WordAt(p, s, d, z + j) * 10^(9 - G[z + j])
  BY Zenon DEF InitIs
<1>3. Kept(p, s, z)
  BY <1>2, KeptGroups
<1>4. /\ m \in Nat /\ N \in Nat /\ m <= N
      /\ \A j \in 1..N : G[j] \in 1..9
      /\ \A j \in (z + 2)..m : G[j] = 9
      /\ \A j \in (m + 1)..(N - 1) : G[j] = 9
  BY <1>3, Zenon DEF Kept
<1>5. l \in 1..N
  <2> HIDE DEF N, m
  <2> QED
    BY <1>1, <1>2, <1>4
<1>6. GroupSays(p, s, d, l)
  BY <1>5, GroupIs
<1>7. /\ n \in 1..9 /\ from \in Nat /\ Total(G, l) = from + n
      /\ WordSays(d, from, n, w)
  <2>1. DigitsBefore(p, s, l) = from /\ DigitsBefore(p, s, l + 1) = Total(G, l)
    <3>1. (l + 1) - 1 = l
      BY <1>5
    <3> QED
      BY <3>1, Zenon DEF DigitsBefore
  <2> QED
    BY <1>6, <2>1, Zenon DEF GroupSays
<1>8. /\ DigitsOf(w, n) = [j \in 1..n |-> d[from + j]]
      /\ \A j \in 1..n : DigitsOf(w * 10^(9 - n), 9)[j] = d[from + j]
      /\ w \in Nat
  BY <1>7, Zenon DEF WordSays
<1>9. WordsKept(p, s, z, r)
  BY WordsOf
<1>10. WordsIn(r) = m - z /\ (m > z => FrontIn(r) = G[z + 1])
  BY <1>9, Zenon DEF WordsKept
<1>11. \A j \in 1..n : [i \in 1..n |-> d[from + i]][j] = d[from + j]
  BY Zenon
<1>12. r.buf[k] \in Nat
  <2> DEFINE b == r.buf
  <2>1. b \in Seq(Nat) /\ k \in 1..Len(b)
    BY <1>1, <1>2, Zenon
  <2> HIDE DEF b
  <2>2. b[k] \in Nat
    BY <2>1
  <2> QED
    BY <2>2, Zenon DEF b
<1>13. l - 1 = z + k - 1
  <2>1. z \in Int
    <3> HIDE DEF m
    <3> QED
      BY <1>2, <1>4
  <2>2. k \in Int
    <3> HIDE DEF N
    <3> QED
      BY <1>1, <1>4
  <2> QED
    BY <2>1, <2>2
<1> HIDE DEF G, m, N, n, from, w, g
<1>14. (m > z) = (WordsIn(r) > 0)
  BY <1>2, <1>4, <1>10
<1>15. CASE k = 1 /\ WordsIn(r) > 0
  <2>1. m > z
    BY <1>14, <1>15
  <2>2. k \in 1..(m - z) /\ l = z + 1
    BY <1>2, <1>4, <1>15, <2>1
  <2>3. r.buf[k] = w /\ FrontIn(r) = n
    BY <1>2, <1>10, <2>1, <2>2, Zenon DEF w, n
  <2>4. g = DigitsOf(w, n)
    BY <1>15, <2>3, Zenon DEF PieceOf, g
  <2>5. IsDigits(g, n)
    BY <1>7, <1>8, <2>4, DigitsType, Zenon
  <2>6. g \in Seq(0..9) /\ Len(g) = n
    BY <2>5, Zenon DEF IsDigits
  <2>7. Len(g) >= n
    BY <1>7, <2>6
  <2>8. \A j \in 1..n : g[j] = d[from + j]
    BY <1>8, <1>11, <2>4, Zenon
  <2> QED
    BY <1>7, <1>13, <2>6, <2>7, <2>8, Zenon DEF PieceSays, g, n, from, G, N
<1>16. CASE ~(k = 1 /\ WordsIn(r) > 0)
  <2>1. g = DigitsOf(r.buf[k], 9)
    BY <1>16, Zenon DEF PieceOf, g
  <2>2. 9 \in 1..9
    OBVIOUS
  <2>3. IsDigits(g, 9)
    BY <1>12, <2>1, <2>2, DigitsType, Zenon
  <2>4. g \in Seq(0..9) /\ Len(g) = 9
    BY <2>3, Zenon DEF IsDigits
  <2>5. Len(g) >= n
    BY <1>7, <2>4
  <2>6. k < N - z => n = 9
    <3> SUFFICES ASSUME k < N - z PROVE n = 9
      OBVIOUS
    <3>1. CASE l <= m
      <4>1. k # 1
        BY <1>2, <1>4, <1>14, <1>16, <3>1
      <4>2. l \in (z + 2)..m
        BY <1>2, <1>4, <3>1, <4>1
      <4> QED
        BY <1>4, <4>2, Zenon DEF n
    <3>2. CASE l > m
      <4>1. l \in (m + 1)..(N - 1)
        BY <1>2, <1>4, <3>2
      <4> QED
        BY <1>4, <4>1, Zenon DEF n
    <3> QED
      BY <1>4, <1>5, <3>1, <3>2
  <2>7. k < N - z => Len(g) = n
    BY <2>4, <2>6, Zenon
  <2>8. \A j \in 1..n : g[j] = d[from + j]
    <3>1. CASE l <= m
      <4>1. k # 1 /\ k \in 1..(m - z)
        BY <1>2, <1>4, <1>14, <1>16, <3>1
      <4>2. l \in (z + 2)..m
        BY <1>2, <1>4, <3>1, <4>1
      <4>3. n = 9
        BY <1>4, <4>2, Zenon DEF n
      <4>4. r.buf[k] = w
        BY <1>2, <4>1, Zenon DEF w
      <4>5. g = DigitsOf(w, n)
        BY <2>1, <4>3, <4>4, Zenon
      <4> QED
        BY <1>8, <1>11, <4>5, Zenon
    <3>2. CASE l > m
      <4>1. k \in (m - z + 1)..(N - z)
        BY <1>2, <1>4, <1>5, <3>2 DEF N
      <4>2. r.buf[k] = w * 10^(9 - n)
        BY <1>2, <4>1, Zenon DEF w, n
      <4> QED
        BY <1>8, <2>1, <4>2, Zenon
    <3> QED
      BY <1>4, <1>5, <3>1, <3>2
  <2> QED
    BY <1>7, <1>13, <2>4, <2>5, <2>7, <2>8, Zenon DEF PieceSays, g, n, from, G, N
<1> QED
  BY <1>15, <1>16, Zenon

\* The group of a digit, among the groups after a up to b.
IsPlace(G, a, b, q, k) ==
    /\ k \in (a + 1)..b /\ Total(G, k - 1) < q /\ q <= Total(G, k)

LEMMA PlaceExists ==
    ASSUME NEW G, NEW a \in Nat, NEW b \in Nat, a <= b,
           NEW q \in Int, Total(G, a) < q, q <= Total(G, b),
           \A k \in 0..b : Total(G, k) \in Int
    PROVE  \E k : IsPlace(G, a, b, q, k)
<1> DEFINE S == {k \in (a + 1)..b : q <= Total(G, k)}
<1>1. b \in S
  <2>1. a # b
    <3>1. a \in 0..b /\ b \in 0..b
      OBVIOUS
    <3>2. Total(G, a) \in Int /\ Total(G, b) \in Int
      BY <3>1
    <3> QED
      BY <3>2
  <2> QED
    BY <2>1
<1>2. S \subseteq Nat
  OBVIOUS
<1> DEFINE k == Min(S)
<1>3. k \in S /\ \A y \in S : k <= y
  <2> HIDE DEF S
  <2> QED
    BY <1>1, <1>2, MinIs
<1> HIDE DEF k
<1>4. k \in (a + 1)..b /\ q <= Total(G, k)
  BY <1>3
<1>5. Total(G, k - 1) < q
  <2>1. CASE k = a + 1
    <3>1. k - 1 = a
      BY <2>1
    <3> QED
      BY <3>1, Zenon
  <2>2. CASE k # a + 1
    <3>1. k - 1 \in (a + 1)..b /\ ~(k <= k - 1) /\ k - 1 \in 0..b
      BY <1>4, <2>2
    <3>2. ~(q <= Total(G, k - 1))
      BY <1>3, <3>1
    <3>3. Total(G, k - 1) \in Int
      BY <3>1
    <3> QED
      BY <3>2, <3>3
  <2> QED
    BY <2>1, <2>2
<1> QED
  BY <1>4, <1>5, Zenon DEF IsPlace

LEMMA PiecesType ==
    ASSUME NEW p, NEW s, NEW d, Number(p, s, d), NEW negative, NEW z, NEW r,
           InitIs(p, s, d, negative, z, r)
    PROVE  /\ PiecesOf(r) \in [1..(Groups(p, s) - z) -> Seq(0..9)]
           /\ \A k \in 1..(Groups(p, s) - z) : PiecesOf(r)[k] = PieceOf(r, k)
<1> DEFINE M == Groups(p, s) - z
           f == PiecesOf(r)
<1>1. DOMAIN r.buf = 1..M
  <2> DEFINE b == r.buf
  <2>1. b \in Seq(Nat) /\ Len(b) = M
    BY Zenon DEF InitIs
  <2> HIDE DEF b, M
  <2>2. DOMAIN b = 1..M
    BY <2>1
  <2> QED
    BY <2>2 DEF b
<1>2. f = [k \in 1..M |-> PieceOf(r, k)]
  BY <1>1, Zenon DEF PiecesOf
<1>3. \A k \in 1..M : PieceOf(r, k) \in Seq(0..9)
  BY PieceIs, Zenon DEF PieceSays
<1> HIDE DEF M, f
<1> QED
  BY <1>2, <1>3, Zenon DEF M, f

\* How many digits are shown before a piece.
PlacedAt(p, s, z, r, k) ==
    Len(Before(PiecesOf(r), k))
      = Total(GroupsOf(p, s), z + (k - 1)) - Total(GroupsOf(p, s), z)

LEMMA PieceAt ==
    ASSUME NEW p, NEW s, NEW d, Number(p, s, d), NEW negative, NEW z, NEW r,
           InitIs(p, s, d, negative, z, r), NEW k \in 1..(Groups(p, s) - z)
    PROVE  PlacedAt(p, s, z, r, k)
<1> DEFINE G == GroupsOf(p, s)
           N == Groups(p, s)
           M == N - z
           f == PiecesOf(r)
           S == {j \in Nat : j < M => PlacedAt(p, s, z, r, j + 1)}
<1>1. z \in 0..Count(p - s)
  BY Zenon DEF InitIs
<1>2. Kept(p, s, z)
  BY <1>1, KeptGroups
<1>3. z \in Nat /\ N \in Nat /\ M \in Nat /\ \A j \in 1..N : G[j] \in 1..9
  <2>1. /\ Count(p - s) \in Nat /\ N \in Nat /\ Count(p - s) <= N
        /\ \A j \in 1..N : G[j] \in 1..9
    BY <1>2, Zenon DEF Kept
  <2> HIDE DEF N
  <2> QED
    BY <1>1, <2>1
<1>4. f \in [1..M -> Seq(0..9)] /\ \A j \in 1..M : f[j] = PieceOf(r, j)
  BY PiecesType
<1>5. \A j \in 1..M : PieceSays(p, s, d, z, r, j)
  BY PieceIs
<1>6. k \in 1..M
  OBVIOUS
<1> HIDE DEF G, N, M, f
<1>7. ASSUME NEW j \in 0..N PROVE Total(G, j) \in Int
  <2>1. \A i \in 1..N : G[i] \in Int
    BY <1>3
  <2> QED
    BY <1>3, <2>1, TotalIs
<1>8. 0 \in S
  <2>1. 0 + 1 = 1 /\ 1 - 1 = 0 /\ z + 0 = z
    BY <1>3
  <2>2. Len(Before(f, 1)) = 0
    BY BeforeNone
  <2>3. z \in 0..N \/ ~(0 < M)
    BY <1>3 DEF M
  <2>4. 0 < M => Total(G, z) - Total(G, z) = 0
    BY <1>7, <2>3
  <2>5. 0 < M => PlacedAt(p, s, z, r, 0 + 1)
    BY <2>1, <2>2, <2>4, Zenon DEF PlacedAt, f, G
  <2> QED
    BY <2>5
<1>9. ASSUME NEW j \in Nat, j \in S PROVE j + 1 \in S
  <2> SUFFICES ASSUME j + 1 < M PROVE PlacedAt(p, s, z, r, (j + 1) + 1)
    OBVIOUS
  <2> DEFINE i == j + 1
  <2>1. i \in 1..M /\ j < M /\ i < M /\ z + i \in 0..N /\ z + (i - 1) \in 0..N
        /\ z \in 0..N /\ (i + 1) - 1 = i
    BY <1>3 DEF M
  <2>2. PlacedAt(p, s, z, r, i)
    BY <1>9, <2>1
  <2> HIDE DEF i
  <2>3. Len(Before(f, i)) = Total(G, z + (i - 1)) - Total(G, z)
    BY <2>2, Zenon DEF PlacedAt, f, G
  <2>4. Grows(0..9, f, i)
    BY <1>3, <1>4, <2>1, BeforeGrows, Zenon
  <2>5. Len(Before(f, i + 1)) = Len(Before(f, i)) + Len(f[i])
    BY <2>4, Zenon DEF Grows
  <2>6. PieceSays(p, s, d, z, r, i)
    BY <1>5, <2>1, Zenon
  <2> DEFINE n == G[z + i]
  <2>7. /\ Len(PieceOf(r, i)) = n /\ n \in 1..9
        /\ Total(G, z + i) = Total(G, z + (i - 1)) + n
    BY <2>1, <2>6, Zenon DEF PieceSays, G, N, M
  <2>8. Len(f[i]) = n
    BY <1>4, <2>1, <2>7, Zenon
  <2> DEFINE t0 == Total(G, z)
             t1 == Total(G, z + (i - 1))
             t2 == Total(G, z + i)
             b1 == Len(Before(f, i))
             b2 == Len(Before(f, i + 1))
  <2>9. t0 \in Int /\ t1 \in Int /\ t2 \in Int
    BY <1>7, <2>1
  <2>10. /\ b1 = t1 - t0 /\ b2 = b1 + n /\ t2 = t1 + n /\ n \in Int
    BY <2>3, <2>5, <2>7, <2>8
  <2> HIDE DEF t0, t1, t2, b1, b2, n
  <2>11. b2 = t2 - t0
    BY <2>9, <2>10
  <2>12. PlacedAt(p, s, z, r, i + 1)
    BY <2>1, <2>11, Zenon DEF PlacedAt, b2, t2, t0, f, G
  <2> QED
    BY <2>12 DEF i
<1>10. \A j \in Nat : j \in S
  <2> HIDE DEF S
  <2> QED
    BY <1>8, <1>9, NatSetInduction
<1>11. k - 1 \in Nat /\ k - 1 < M /\ (k - 1) + 1 = k
  BY <1>3, <1>6
<1>12. PlacedAt(p, s, z, r, (k - 1) + 1)
  BY <1>10, <1>11
<1> QED
  BY <1>11, <1>12, Zenon

\* The digits that are shown are those of the number behind the groups that
\* are left out, which are zero.
ShowsDigits(p, s, d, z, r) ==
    LET zeros == Total(GroupsOf(p, s), z)
    IN  /\ zeros \in Nat /\ zeros <= p - s /\ \A q \in 1..zeros : d[q] = 0
        /\ r.intg = (p - s) - zeros
        /\ DigitsIn(r) \in Seq(0..9) /\ Len(DigitsIn(r)) >= p - zeros
        /\ \A q \in (zeros + 1)..p : DigitsIn(r)[q - zeros] = d[q]

LEMMA DroppedDigits ==
    ASSUME NEW p, NEW s, NEW d, Number(p, s, d), NEW z \in 0..Groups(p, s),
           \A k \in 1..z : WordAt(p, s, d, k) = 0,
           NEW q \in 1..Total(GroupsOf(p, s), z),
           \A k \in 0..z : Total(GroupsOf(p, s), k) \in Int
    PROVE  d[q] = 0
<1> DEFINE G == GroupsOf(p, s)
           N == Groups(p, s)
<1>1. N \in Nat
  BY BodiesType
<1>2. Total(G, 0) = 0
  <2>1. 0 \in Nat /\ \A k \in 1..0 : G[k] \in Int
    OBVIOUS
  <2> QED
    BY <2>1, TotalIs
<1>3. z \in Nat /\ z <= N /\ \A k \in 0..z : Total(G, k) \in Int
  <2> HIDE DEF N, G
  <2>1. z \in 0..N
    BY DEF N
  <2>2. \A k \in 0..z : Total(G, k) \in Int
    BY DEF G
  <2> QED
    BY <1>1, <2>1, <2>2
<1>4. q \in Int /\ 0 < q /\ q <= Total(G, z)
  <2>1. z \in 0..z
    BY <1>3
  <2>2. Total(G, z) \in Int /\ q \in 1..Total(G, z)
    BY <1>3, <2>1
  <2> HIDE DEF G
  <2> QED
    BY <2>2
<1>5. 0 \in Nat /\ 0 <= z
  BY <1>3
<1> HIDE DEF G, N
<1>6. PICK k : IsPlace(G, 0, z, q, k)
  <2>1. Total(G, 0) < q
    BY <1>2, <1>4
  <2> QED
    BY <1>3, <1>4, <1>5, <2>1, PlaceExists
<1>7. k \in (0 + 1)..z /\ Total(G, k - 1) < q /\ q <= Total(G, k)
  BY <1>6, Zenon DEF IsPlace
<1>8. k \in 1..z /\ k \in 1..N /\ k - 1 \in 0..z /\ k \in 0..z
  BY <1>1, <1>3, <1>7
<1> DEFINE from == Total(G, k - 1)
           n == G[k]
<1>9. GroupSays(p, s, d, k)
  BY <1>8, GroupIs DEF N
<1>10. /\ n \in 1..9 /\ WordSays(d, from, n, WordAt(p, s, d, k))
       /\ Total(G, k) = from + n
  <2>1. (k + 1) - 1 = k
    BY <1>8
  <2> QED
    BY <1>9, <2>1, Zenon DEF GroupSays, DigitsBefore, G
<1>11. WordAt(p, s, d, k) = 0
  BY <1>8
<1>12. \A j \in 1..n : d[from + j] = 0
  BY <1>10, <1>11, Zenon DEF WordSays
<1> DEFINE j == q - from
<1>13. from \in Int
  BY <1>3, <1>8
<1> HIDE DEF from, n
<1>14. j \in 1..n /\ from + j = q
  BY <1>4, <1>7, <1>10, <1>13 DEF from
<1> QED
  BY <1>12, <1>14, Zenon

ShownAt(p, s, d, z, r, k) ==
    LET G == GroupsOf(p, s)
        from == Total(G, z + (k - 1))
        zeros == Total(G, z)
    IN  /\ DigitsIn(r) \in Seq(0..9)
        /\ (from - zeros) + G[z + k] <= Len(DigitsIn(r))
        /\ \A j \in 1..G[z + k] :
             DigitsIn(r)[(from - zeros) + j] = d[from + j]

LEMMA ShownDigit ==
    ASSUME NEW p, NEW s, NEW d, Number(p, s, d), NEW negative, NEW z, NEW r,
           InitIs(p, s, d, negative, z, r), NEW k \in 1..(Groups(p, s) - z)
    PROVE  ShownAt(p, s, d, z, r, k)
<1> DEFINE G == GroupsOf(p, s)
           N == Groups(p, s)
           M == N - z
           f == PiecesOf(r)
           F == DigitsIn(r)
           from == Total(G, z + (k - 1))
           zeros == Total(G, z)
           n == G[z + k]
           b == from - zeros
<1>1. F = FlattenSeq(f)
  BY DEF DigitsIn
<1>2. f \in [1..M -> Seq(0..9)] /\ f[k] = PieceOf(r, k)
  BY PiecesType
<1>3. PieceSays(p, s, d, z, r, k)
  BY PieceIs
<1>4. /\ PieceOf(r, k) \in Seq(0..9) /\ n \in 1..9 /\ from \in Nat
      /\ Len(PieceOf(r, k)) >= n
      /\ \A j \in 1..n : PieceOf(r, k)[j] = d[from + j]
  BY <1>3, Zenon DEF PieceSays
<1>5. PlacedAt(p, s, z, r, k)
  BY PieceAt
<1>6. Len(Before(f, k)) = b
  BY <1>5, Zenon DEF PlacedAt
<1>7. M \in Nat /\ M # 0 /\ k \in 1..M
  <2>1. z \in 0..Count(p - s)
    BY Zenon DEF InitIs
  <2>2. Kept(p, s, z)
    BY <2>1, KeptGroups
  <2>3. Count(p - s) \in Nat /\ N \in Nat
    BY <2>2, Zenon DEF Kept
  <2>4. k \in 1..M
    OBVIOUS
  <2> HIDE DEF N
  <2> QED
    BY <2>1, <2>3, <2>4
<1> HIDE DEF G, N, M, f, F, from, zeros, n, b
<1>8. F \in Seq(0..9)
  BY <1>1, <1>2, <1>7, BeforeBegins
<1>9. At(F, 1, FlattenSeq(f))
  BY <1>1, <1>8, AtItself
<1>10. 1 \in Nat
  OBVIOUS
<1>11. /\ Len(Before(f, k)) \in Nat /\ Len(f[k]) \in Nat
       /\ Len(Before(f, k)) + Len(f[k]) <= Len(FlattenSeq(f))
       /\ At(F, 1 + Len(Before(f, k)), f[k])
  BY <1>2, <1>7, <1>9, <1>10, AtJoined
<1>12. /\ b \in Nat /\ b + Len(f[k]) <= Len(F)
       /\ At(F, 1 + b, f[k]) /\ Len(f[k]) >= n /\ Len(f[k]) \in Nat
  BY <1>1, <1>2, <1>4, <1>6, <1>11, Zenon
<1>13. b + n <= Len(F)
  BY <1>4, <1>8, <1>12
<1>14. \A j \in 1..Len(f[k]) : Byte(F, 1 + b + j - 1) = f[k][j]
  BY <1>12 DEF At
<1>15. ASSUME NEW j \in 1..n PROVE F[b + j] = d[from + j]
  <2> DEFINE i == b + j
  <2>1. j \in 1..Len(f[k]) /\ 1 + b + j - 1 = i /\ i \in 1..Len(F)
    BY <1>4, <1>8, <1>12, <1>13
  <2> HIDE DEF i
  <2>2. Byte(F, i) = F[i]
    BY <2>1, Zenon DEF Byte
  <2>3. Byte(F, i) = f[k][j]
    BY <1>14, <2>1, Zenon
  <2>4. f[k][j] = d[from + j]
    BY <1>2, <1>4, Zenon
  <2> QED
    BY <2>2, <2>3, <2>4, Zenon DEF i
<1>16. \A j \in 1..n : F[b + j] = d[from + j]
  BY <1>15
<1> QED
  BY <1>8, <1>13, <1>16, Zenon DEF ShownAt, G, F, from, zeros, n, b

LEMMA DigitsShown ==
    ASSUME NEW p, NEW s, NEW d, Number(p, s, d), NEW negative, NEW z, NEW r,
           InitIs(p, s, d, negative, z, r)
    PROVE  ShowsDigits(p, s, d, z, r)
<1> DEFINE G == GroupsOf(p, s)
           N == Groups(p, s)
           M == N - z
           m == Count(p - s)
           F == DigitsIn(r)
           zeros == Total(G, z)
<1>1. /\ z \in 0..m /\ r.intg = (p - s) - zeros /\ r.buf \in Seq(Nat)
      /\ Len(r.buf) = M
      /\ \A k \in 1..z : WordAt(p, s, d, k) = 0
  BY Zenon DEF InitIs
<1>2. Kept(p, s, z)
  BY <1>1, KeptGroups
<1>3. /\ m \in Nat /\ N \in Nat /\ m <= N
      /\ \A j \in 1..N : G[j] \in 1..9
      /\ Total(G, m) = p - s /\ Total(G, N) = p
  BY <1>2, Zenon DEF Kept
<1>4. p \in Nat /\ s \in Nat
  BY DEF Number
<1> HIDE DEF G, N, M, m, F, zeros
<1>5. z \in Nat /\ z \in 0..N /\ m \in 0..N /\ N \in 0..N /\ z <= m
  BY <1>1, <1>3
<1>6. \A j \in 1..N : G[j] \in Nat /\ G[j] \in Int
  BY <1>3
<1>7. ASSUME NEW j \in 0..N PROVE Total(G, j) \in Int
  BY <1>3, <1>6, TotalIs
<1>8. zeros \in Nat /\ zeros <= p - s
  <2>1. Total(G, z) \in Nat /\ Total(G, z) <= Total(G, m)
    BY <1>3, <1>5, <1>6, TotalGrows
  <2> QED
    BY <1>3, <2>1 DEF zeros
<1>9. ASSUME NEW q \in 1..zeros PROVE d[q] = 0
  <2>1. z \in 0..Groups(p, s)
    BY <1>5 DEF N
  <2>2. \A j \in 0..z : Total(GroupsOf(p, s), j) \in Int
    <3>1. \A j \in 0..z : j \in 0..N
      BY <1>3, <1>5
    <3> QED
      BY <1>7, <3>1, Zenon DEF G
  <2>3. q \in 1..Total(GroupsOf(p, s), z)
    BY Zenon DEF zeros, G
  <2> QED
    BY <1>1, <2>1, <2>2, <2>3, DroppedDigits
<1>10. M \in Nat
  BY <1>3, <1>5 DEF M
<1>11. F \in Seq(0..9) /\ Len(F) >= p - zeros
  <2>1. CASE M = 0
    <3>1. r.buf = <<>>
      <4> DEFINE b == r.buf
      <4>1. b \in Seq(Nat) /\ Len(b) = 0
        BY <1>1, <2>1, Zenon
      <4> HIDE DEF b
      <4>2. b = <<>>
        BY <4>1
      <4> QED
        BY <4>2, Zenon DEF b
    <3> DEFINE e == [k \in DOMAIN <<>> |-> PieceOf(r, k)]
    <3>2. F = FlattenSeq(e)
      BY <3>1, Zenon DEF F, DigitsIn, PiecesOf
    <3>3. e = <<>> /\ Len(e) = 0
      OBVIOUS
    <3>4. FlattenSeq(e) = e
      BY <3>3 DEF FlattenSeq
    <3> HIDE DEF e
    <3>5. F = <<>>
      BY <3>2, <3>3, <3>4, Zenon
    <3>6. z = N
      BY <1>3, <1>5, <2>1 DEF M
    <3>7. zeros = p
      BY <1>3, <3>6, Zenon DEF zeros
    <3>8. p - zeros = 0
      BY <1>4, <3>7
    <3> QED
      BY <3>5, <3>8
  <2>2. CASE M # 0
    <3>1. M \in 1..(Groups(p, s) - z)
      BY <1>10, <2>2 DEF M, N
    <3> DEFINE from == Total(G, z + (M - 1))
               n == G[z + M]
    <3>2. F \in Seq(0..9) /\ (from - zeros) + n <= Len(F)
      <4>1. ShownAt(p, s, d, z, r, M)
        BY <3>1, ShownDigit
      <4> QED
        BY <4>1, Zenon DEF ShownAt, F, G, zeros
    <3>3. z + M = N /\ z + (M - 1) = N - 1 /\ N \in 1..N /\ N - 1 \in 0..N
      BY <1>3, <1>5, <1>10, <2>2 DEF M
    <3>4. Total(G, N) = Total(G, N - 1) + G[N]
      BY <1>3, <1>6, <3>3, TotalIs
    <3>5. from = Total(G, N - 1) /\ n = G[N]
      BY <3>3, Zenon
    <3> HIDE DEF from, n
    <3>6. p = from + n
      BY <1>3, <3>4, <3>5, Zenon
    <3>7. from \in Int /\ n \in Int /\ Len(F) \in Nat
      BY <1>6, <1>7, <3>2, <3>3, <3>5
    <3> QED
      BY <1>8, <3>2, <3>6, <3>7
  <2> QED
    BY <2>1, <2>2
<1>12. ASSUME NEW q \in (zeros + 1)..p PROVE F[q - zeros] = d[q]
  <2>1. q \in Int /\ Total(G, z) < q /\ q <= Total(G, N)
    <3>1. q \in Int /\ zeros < q /\ q <= p
      BY <1>4, <1>8
    <3> QED
      BY <1>3, <3>1, Zenon DEF zeros
  <2>2. \A j \in 0..N : Total(G, j) \in Int
    BY <1>7
  <2>3. z <= N
    BY <1>3, <1>5
  <2>4. PICK l : IsPlace(G, z, N, q, l)
    BY <1>3, <1>5, <2>1, <2>2, <2>3, PlaceExists
  <2>5. l \in (z + 1)..N /\ Total(G, l - 1) < q /\ q <= Total(G, l)
    BY <2>4, Zenon DEF IsPlace
  <2> DEFINE k == l - z
  <2>6. /\ k \in 1..M /\ z + k = l /\ z + (k - 1) = l - 1
        /\ l \in 1..N /\ l - 1 \in 0..N
    BY <1>3, <1>5, <2>5 DEF M
  <2> HIDE DEF k
  <2> DEFINE from == Total(G, l - 1)
             n == G[l]
             j == q - from
  <2>7. \A i \in 1..n : F[(from - zeros) + i] = d[from + i]
    <3>1. k \in 1..(Groups(p, s) - z)
      BY <2>6 DEF M, N
    <3>2. \A i \in 1..G[z + k] :
             F[(Total(G, z + (k - 1)) - zeros) + i] = d[Total(G, z + (k - 1)) + i]
      <4>1. ShownAt(p, s, d, z, r, k)
        BY <3>1, ShownDigit
      <4> QED
        BY <4>1, Zenon DEF ShownAt, F, G, zeros
    <3> QED
      BY <2>6, <3>2, Zenon
  <2>8. from \in Int /\ n \in Int /\ Total(G, l) = from + n
    BY <1>3, <1>6, <1>7, <2>6, TotalIs
  <2> HIDE DEF from, n
  <2>9. j \in 1..n /\ from + j = q /\ (from - zeros) + j = q - zeros
    BY <1>8, <2>1, <2>5, <2>8 DEF from
  <2> HIDE DEF j
  <2> QED
    BY <2>7, <2>9, Zenon
<1>13. \A q \in 1..zeros : d[q] = 0
  BY <1>9
<1>14. \A q \in (zeros + 1)..p : F[q - zeros] = d[q]
  BY <1>12
<1> QED
  BY <1>1, <1>8, <1>11, <1>13, <1>14, Zenon DEF ShowsDigits, F, zeros, G

\* The digits of a number, with zeros in front of the integer part.
ZerosFor(p, s, whole) == [k \in 1..(p - s - Len(whole)) |-> 0]
AllDigits(p, s, whole, fraction) == ZerosFor(p, s, whole) \o whole \o fraction

NumberParts(p, s, whole, fraction) ==
    /\ p \in Nat \ {0} /\ s \in Nat /\ s <= p
    /\ whole \in Seq(0..9) /\ fraction \in Seq(0..9)
    /\ Len(whole) <= p - s /\ Len(fraction) = s
    /\ whole # <<>> => whole[1] # 0

DigitsAre(p, s, whole, fraction, d) ==
    LET i == p - s
        l == Len(whole)
    IN  /\ Number(p, s, d)
        /\ \A q \in 1..(i - l) : d[q] = 0
        /\ \A q \in 1..l : d[(i - l) + q] = whole[q]
        /\ \A q \in 1..s : d[i + q] = fraction[q]

LEMMA PartsAre ==
    ASSUME NEW p, NEW s, NEW whole, NEW fraction, NumberParts(p, s, whole, fraction)
    PROVE  DigitsAre(p, s, whole, fraction, AllDigits(p, s, whole, fraction))
<1> DEFINE zeros == ZerosFor(p, s, whole)
           front == zeros \o whole
           d == front \o fraction
           i == p - s
           l == Len(whole)
           n == i - l
<1>1. /\ p \in Nat \ {0} /\ s \in Nat /\ s <= p
      /\ whole \in Seq(0..9) /\ fraction \in Seq(0..9)
      /\ l <= i /\ Len(fraction) = s /\ l \in Nat /\ i \in Nat /\ n \in Nat
  BY DEF NumberParts
<1>2. p - s - l = n
  BY <1>1
<1>3. zeros \in Seq(0..9) /\ Len(zeros) = n /\ \A q \in 1..n : zeros[q] = 0
  <2>1. zeros = [k \in 1..n |-> 0]
    BY <1>2, Zenon DEF ZerosFor
  <2> HIDE DEF zeros, n
  <2> QED
    BY <1>1, <2>1
<1>4. d = AllDigits(p, s, whole, fraction)
  BY Zenon DEF AllDigits
<1>5. n + l = i /\ i + s = p /\ l = Len(whole) /\ s = Len(fraction) /\ n = Len(zeros)
  BY <1>1, <1>3
<1> HIDE DEF zeros, l, n, i
<1>6. JoinedAt(zeros, whole, n, l)
  BY <1>1, <1>3, <1>5, ConcatOf
<1>7. front \in Seq(0..9) /\ Len(front) = n + l
  BY <1>1, <1>3, <1>5
<1>8. \A q \in 1..n : front[q] = zeros[q]
  BY <1>6, Zenon DEF JoinedAt
<1>9. \A q \in 1..l : front[n + q] = whole[q]
  BY <1>6, Zenon DEF JoinedAt
<1> HIDE DEF front
<1>10. i = Len(front)
  BY <1>5, <1>7
<1>11. JoinedAt(front, fraction, i, s)
  BY <1>1, <1>5, <1>7, <1>10, ConcatOf
<1>12. d \in Seq(0..9) /\ Len(d) = i + s
  BY <1>1, <1>5, <1>7, <1>10
<1>13. \A q \in 1..i : d[q] = front[q]
  BY <1>11, Zenon DEF JoinedAt
<1>14. \A q \in 1..s : d[i + q] = fraction[q]
  BY <1>11, Zenon DEF JoinedAt
<1> HIDE DEF d
<1>15. \A q \in 1..n : d[q] = 0
  <2> TAKE q \in 1..n
  <2>1. q \in 1..i
    BY <1>1, <1>5
  <2> QED
    BY <1>3, <1>8, <1>13, <2>1, Zenon
<1>16. \A q \in 1..l : d[n + q] = whole[q]
  <2> TAKE q \in 1..l
  <2>1. n + q \in 1..i
    BY <1>1, <1>5
  <2> QED
    BY <1>9, <1>13, <2>1, Zenon
<1>17. Number(p, s, d)
  <2>1. Len(d) = p
    BY <1>5, <1>12
  <2> QED
    BY <1>1, <1>12, <2>1, Zenon DEF Number
<1> QED
  BY <1>4, <1>14, <1>15, <1>16, <1>17, Zenon DEF DigitsAre, n, l, i

IsSlice(T, y, x, a, n) ==
    y \in Seq(T) /\ Len(y) = n /\ \A q \in 1..n : y[q] = x[a + q]

LEMMA SliceIs ==
    ASSUME NEW T, NEW x \in Seq(T), NEW a \in Nat, NEW n \in Nat,
           a + n <= Len(x)
    PROVE  IsSlice(T, SubSeq(x, a + 1, a + n), x, a, n)
BY DEF IsSlice

\* What is shown of what is read.
LEMMA PartsShown ==
    ASSUME NEW p, NEW s, NEW whole, NEW fraction, NumberParts(p, s, whole, fraction),
           NEW d, DigitsAre(p, s, whole, fraction, d),
           NEW negative, NEW z, NEW r, InitIs(p, s, d, negative, z, r)
    PROVE  ShownDecimal(r)
             = [negative |-> negative, whole |-> whole, fraction |-> fraction]
<1> DEFINE i == p - s
           l == Len(whole)
           n == i - l
           a == Total(GroupsOf(p, s), z)
           F == DigitsIn(r)
           x == SubSeq(F, 1, r.intg)
<1>1. /\ p \in Nat \ {0} /\ s \in Nat /\ s <= p
      /\ whole \in Seq(0..9) /\ fraction \in Seq(0..9)
      /\ l <= i /\ Len(fraction) = s /\ l \in Nat /\ i \in Nat /\ n \in Nat
      /\ whole # <<>> => whole[1] # 0
      /\ n + l = i /\ i + s = p
  BY DEF NumberParts
<1>2. /\ Number(p, s, d)
      /\ \A q \in 1..n : d[q] = 0
      /\ \A q \in 1..l : d[n + q] = whole[q]
      /\ \A q \in 1..s : d[i + q] = fraction[q]
  BY Zenon DEF DigitsAre
<1>3. ShowsDigits(p, s, d, z, r)
  BY <1>2, DigitsShown
<1>4. /\ a \in Nat /\ a <= i /\ \A q \in 1..a : d[q] = 0
      /\ r.intg = i - a
      /\ F \in Seq(0..9) /\ Len(F) >= p - a
      /\ \A q \in (a + 1)..p : F[q - a] = d[q]
  BY <1>3, Zenon DEF ShowsDigits
<1>5. r.sign = negative /\ r.frac = s
  BY Zenon DEF InitIs
<1>6. ShownDecimal(r)
        = [negative |-> r.sign, whole |-> Significant(x),
           fraction |-> SubSeq(F, r.intg + 1, r.intg + r.frac)]
  BY ShownIs, Zenon
<1>7. l = Len(whole)
  OBVIOUS
<1> HIDE DEF i, l, n, a, F
<1>8. a <= n
  <2>1. CASE l = 0
    BY <1>1, <1>4, <2>1
  <2>2. CASE l # 0
    <3>1. 1 \in 1..l /\ whole # <<>>
      BY <1>1, <1>7, <2>2
    <3>2. d[n + 1] # 0
      BY <1>1, <1>2, <3>1, Zenon
    <3>3. ~(n + 1 \in 1..a)
      BY <1>4, <3>2, Zenon
    <3> QED
      BY <1>1, <1>4, <3>3
  <2> QED
    BY <2>1, <2>2
<1> DEFINE b == i - a
           c == n - a
<1>9. b \in Nat /\ c \in Nat /\ c <= b /\ b <= Len(F) /\ b + s <= Len(F)
      /\ b - c = l /\ Len(F) \in Nat
  <2>1. Len(F) \in Nat
    BY <1>4
  <2> QED
    BY <1>1, <1>4, <1>8, <2>1
<1>10. x = SubSeq(F, 1, b)
  BY <1>4, Zenon
<1> HIDE DEF x
<1>11. x \in Seq(0..9) /\ Len(x) = b /\ \A q \in 1..b : x[q] = F[q]
  <2> HIDE DEF b
  <2> QED
    BY <1>4, <1>9, <1>10
<1>12. ASSUME NEW q \in 1..(p - a) PROVE F[q] = d[a + q]
  <2>1. a + q \in (a + 1)..p /\ (a + q) - a = q
    BY <1>1, <1>4
  <2> QED
    BY <1>4, <2>1, Zenon
<1>13. \A q \in 1..b : x[q] = d[a + q]
  <2> TAKE q \in 1..b
  <2>1. q \in 1..(p - a)
    BY <1>1, <1>4
  <2> QED
    BY <1>11, <1>12, <2>1, Zenon
<1>14. Leading(x, c)
  <2>1. c \in 0..Len(x)
    BY <1>9, <1>11
  <2>2. ASSUME NEW q \in 1..c PROVE x[q] = 0
    <3>1. q \in 1..b /\ a + q \in 1..n
      BY <1>1, <1>4, <1>9
    <3> QED
      BY <1>2, <1>13, <3>1, Zenon
  <2>3. ASSUME c < Len(x) PROVE x[c + 1] # 0
    <3>1. c + 1 \in 1..b /\ a + (c + 1) = n + 1 /\ 1 \in 1..l /\ whole # <<>>
      <4>1. c + 1 \in 1..b /\ a + (c + 1) = n + 1 /\ l > 0
        BY <1>1, <1>4, <1>9, <1>11, <2>3
      <4> QED
        BY <1>1, <1>7, <4>1
    <3>2. d[n + 1] = whole[1] /\ whole[1] # 0
      BY <1>1, <1>2, <3>1, Zenon
    <3> QED
      BY <1>13, <3>1, <3>2, Zenon
  <2> QED
    BY <2>1, <2>2, <2>3, Zenon DEF Leading
<1>15. Significant(x) = whole
  <2> DEFINE y == SubSeq(x, c + 1, b)
  <2>1. Significant(x) = y
    <3>1. Significant(x) = SubSeq(x, c + 1, Len(x))
      BY <1>11, <1>14, SignificantIs
    <3> QED
      BY <1>11, <3>1, Zenon
  <2>2. b = c + l /\ l \in Nat /\ c \in Nat /\ c + l <= Len(x)
    BY <1>1, <1>9, <1>11, SMTT(30)
  <2> HIDE DEF b, c
  <2>3. IsSlice(0..9, SubSeq(x, c + 1, c + l), x, c, l)
    BY <1>11, <2>2, SliceIs, Zenon
  <2>4. y \in Seq(0..9) /\ Len(y) = l /\ \A q \in 1..l : y[q] = x[c + q]
    BY <2>2, <2>3, Zenon DEF IsSlice
  <2> HIDE DEF y
  <2>5. ASSUME NEW q \in 1..l PROVE y[q] = whole[q]
    <3>1. c + q \in 1..b /\ a + (c + q) = n + q
      BY <1>1, <1>4, <1>9 DEF b, c
    <3> QED
      BY <1>2, <1>13, <2>4, <3>1, Zenon
  <2>6. y = whole
    BY <1>1, <1>7, <2>4, <2>5
  <2> QED
    BY <2>1, <2>6, Zenon
<1>16. SubSeq(F, r.intg + 1, r.intg + r.frac) = fraction
  <2> DEFINE y == SubSeq(F, b + 1, b + s)
  <2>1. SubSeq(F, r.intg + 1, r.intg + r.frac) = y
    BY <1>4, <1>5, Zenon
  <2>2. y \in Seq(0..9) /\ Len(y) = s /\ \A q \in 1..s : y[q] = F[b + q]
    <3> HIDE DEF b
    <3>1. IsSlice(0..9, SubSeq(F, b + 1, b + s), F, b, s)
      BY <1>1, <1>4, <1>9, SliceIs, Zenon
    <3> QED
      BY <3>1, Zenon DEF IsSlice
  <2> HIDE DEF y
  <2>3. ASSUME NEW q \in 1..s PROVE y[q] = fraction[q]
    <3>1. b + q \in 1..(p - a) /\ a + (b + q) = i + q
      BY <1>1, <1>4, <1>9
    <3> QED
      BY <1>2, <1>12, <2>2, <3>1, Zenon
  <2>4. y = fraction
    BY <1>1, <2>2, <2>3
  <2> QED
    BY <2>1, <2>4, Zenon
<1> QED
  BY <1>5, <1>6, <1>15, <1>16, Zenon

-----------------------------------------------------------------------------
(* DECIMAL *)

\* A DECIMAL as it was written, taken apart.
WrittenParts(f) ==
    LET v == f.means
        p == f.metadata % 256
        s == f.metadata \div 256
    IN  /\ f.sort = "decimal" /\ f.type = "NEWDECIMAL"
        /\ NumberParts(p, s, v.whole, v.fraction) /\ v.negative \in BOOLEAN
        /\ v = [negative |-> v.negative, whole |-> v.whole, fraction |-> v.fraction]
        /\ f.bytes = StoredDecimal(p, s, v.negative,
                                   AllDigits(p, s, v.whole, v.fraction))

LEMMA DecimalParts ==
    ASSUME NEW f, SupportedDecimal(f)
    PROVE  WrittenParts(f)
<1> DEFINE v == f.means
           p == f.metadata % 256
           s == f.metadata \div 256
<1>1. /\ f.sort = "decimal" /\ f.type = "NEWDECIMAL"
      /\ f.metadata \in Nat /\ p \in 1..65 /\ s <= p
      /\ v.whole \in Seq(0..9) /\ v.fraction \in Seq(0..9)
      /\ v = [negative |-> v.negative, whole |-> v.whole, fraction |-> v.fraction]
      /\ Len(v.whole) <= p - s /\ Len(v.fraction) = s
      /\ v.whole # <<>> => v.whole[1] # 0
      /\ v.negative \in BOOLEAN
  BY Zenon DEF SupportedDecimal
<1>2. f.bytes = StoredDecimal(p, s, v.negative,
                              AllDigits(p, s, v.whole, v.fraction))
  BY Zenon DEF SupportedDecimal, AllDigits, ZerosFor
<1>3. s \in Nat
  <2> DEFINE x == f.metadata
  <2>1. x \in Nat
    BY <1>1
  <2> HIDE DEF x
  <2>2. x \div 256 \in Nat
    BY <2>1
  <2> QED
    BY <2>2, Zenon DEF x
<1>4. p \in Nat \ {0}
  <2> HIDE DEF p
  <2> QED
    BY <1>1
<1>5. NumberParts(p, s, v.whole, v.fraction)
  BY <1>1, <1>3, <1>4, Zenon DEF NumberParts
<1> QED
  BY <1>1, <1>2, <1>5, Zenon DEF WrittenParts

LEMMA DecimalField ==
    ASSUME Read, SupportedDecimal(written)
    PROVE  /\ field.type = "NEWDECIMAL" /\ HasBytes(1)
           /\ DecimalOf.error = FALSE
           /\ ShownDecimal(DecimalOf) = written.means
<1> DEFINE v == written.means
           p == written.metadata % 256
           s == written.metadata \div 256
           d == AllDigits(p, s, v.whole, v.fraction)
           st == StoredDecimal(p, s, v.negative, d)
<1>1. WrittenParts(written)
  BY DecimalParts
<1>2. /\ written.sort = "decimal" /\ written.type = "NEWDECIMAL"
      /\ NumberParts(p, s, v.whole, v.fraction) /\ v.negative \in BOOLEAN
      /\ v = [negative |-> v.negative, whole |-> v.whole, fraction |-> v.fraction]
      /\ written.bytes = st
  BY <1>1, Zenon DEF WrittenParts
<1>3. DigitsAre(p, s, v.whole, v.fraction, d)
  BY <1>2, PartsAre
<1>4. Number(p, s, d)
  BY <1>3, Zenon DEF DigitsAre
<1> HIDE DEF d
<1>5. IsStorage(p, s, d, v.negative, st)
  BY <1>2, <1>4, StorageIs
<1>6. st \in Seq(Bytes) /\ Len(st) = DecimalSize(p, s) /\ st # <<>>
  BY <1>5, Zenon DEF IsStorage
<1> HIDE DEF st
<1>7. field = Whole("NEWDECIMAL")
  <2>1. /\ "NEWDECIMAL" \notin DOMAIN FixedSize
        /\ "NEWDECIMAL" \notin {"STRING", "VARCHAR", "BLOB"}
        /\ "NEWDECIMAL" \notin {"VAR_STRING", "DECIMAL", "FLOAT", "DOUBLE"}
    BY DEF FixedSize
  <2>2. calc_field_size("NEWDECIMAL", st, 1, written.metadata) = DecimalSize(p, s)
    BY <2>1 DEF calc_field_size
  <2>3. \A n : TuneValue("NEWDECIMAL", st, 1, written.metadata, n)
          = Shows("NEWDECIMAL", st, 1, n)
    BY <2>1 DEF TuneValue
  <2>4. field = Shows("NEWDECIMAL", st, 1, Len(st))
    BY <1>2, <1>6, <2>2, <2>3 DEF Read, Decode
  <2>5. Stretch(st, 1, Len(st)) = st
    BY <1>6, WholeStretch
  <2> QED
    BY <1>2, <2>4, <2>5, Zenon DEF Shows, Whole
<1>8. HasBytes(1) /\ field.type = "NEWDECIMAL" /\ field.bytes = st
  <2>1. field.type = "NEWDECIMAL" /\ field.bytes = st /\ ~field.is_null
    BY <1>2, <1>7 DEF Whole
  <2>2. Len(st) >= 1
    BY <1>6
  <2> QED
    BY <1>6, <2>1, <2>2 DEF HasBytes, is_null, is_valid
<1> DEFINE r == _init_decimal(st, p, s)
<1>9. DecimalOf = r
  BY <1>8, Zenon DEF DecimalOf
<1> HIDE DEF p, s, v, r
<1>10. PICK z : InitIs(p, s, d, v.negative, z, r)
  BY <1>2, <1>4, <1>5, InitDecimal DEF r
<1>11. r.error = FALSE
  BY <1>10, Zenon DEF InitIs
<1>12. ShownDecimal(r)
         = [negative |-> v.negative, whole |-> v.whole, fraction |-> v.fraction]
  BY <1>2, <1>3, <1>10, PartsShown
<1> QED
  BY <1>2, <1>8, <1>9, <1>11, <1>12, Zenon DEF v

LEMMA DecimalStep ==
    ASSUME FieldsSupported, Read, DecimalAsWritten, [Next]_vars
    PROVE  DecimalAsWritten'
<1>1. written' = written
  BY CallsChangeNothing
<1>2. SupportedField(written)
  BY DEF FieldsSupported, Read
<1>3. CASE UNCHANGED vars
  BY <1>3 DEF vars, DecimalAsWritten
<1>4. CASE AsDouble
  <2>1. CASE written.sort # "decimal"
    BY <1>1, <2>1 DEF DecimalAsWritten
  <2>2. CASE written.sort = "decimal"
    <3>1. SupportedDecimal(written)
      BY <1>2, <2>2, SortOf
    <3>2. /\ field.type = "NEWDECIMAL" /\ HasBytes(1)
          /\ DecimalOf.error = FALSE /\ ShownDecimal(DecimalOf) = written.means
      BY <3>1, DecimalField
    <3>3. answer' = DecimalOf
      BY <1>4, <3>2, Zenon DEF AsDouble, Answer
    <3>4. answer'.error = FALSE /\ ShownDecimal(answer') = written'.means
      BY <1>1, <3>2, <3>3, Zenon
    <3>5. ShownDecimal(answer)' = ShownDecimal(answer')
      BY Zenon DEF ShownDecimal
    <3> QED
      BY <3>4, <3>5, Zenon DEF DecimalAsWritten
  <2> QED
    BY <2>1, <2>2
<1>5. CASE Next /\ ~AsDouble
  <2>1. asked' # "double"
    BY <1>5 DEF Next, Answer, AsInt, AsBoolean, AsString, DecimalAsString, AsBlob,
                AsTimestamp, AsYear, AsDate, AsTime, AsDatetime, AsEnum, AsSet
  <2> QED
    BY <2>1 DEF DecimalAsWritten
<1> QED
  BY <1>3, <1>4, <1>5

\* A DECIMAL of up to 65 digits, 30 of them behind the point, reads as the
\* number that was written: as_double() gives its sign and all its digits,
\* however they fall into groups and whichever groups are zero.
THEOREM DecimalReadsAsWritten ==
    ASSUME FieldsSupported
    PROVE  Spec => []DecimalAsWritten
<1>1. Init => Read /\ DecimalAsWritten
  BY ReadInit DEF Init, DecimalAsWritten
<1>2. Read /\ DecimalAsWritten /\ [Next]_vars => (Read /\ DecimalAsWritten)'
  BY ReadStep, DecimalStep
<1> QED
  BY <1>1, <1>2, PTL DEF Spec

-----------------------------------------------------------------------------
(* NULL *)

LEMMA NullStep ==
    ASSUME FieldsSupported, Read, NullGivesNothing, [Next]_vars
    PROVE  NullGivesNothing'
<1> SUFFICES ASSUME written.sort = "null", Next
             PROVE  NullGivesNothing'
  <2>1. written' = written
    BY CallsChangeNothing
  <2>2. CASE UNCHANGED vars
    BY <2>2 DEF vars, NullGivesNothing
  <2>3. CASE written.sort # "null"
    BY <2>1, <2>3 DEF NullGivesNothing
  <2> QED
    BY <2>2, <2>3
<1>1. field = NullValue /\ \A n : ~HasBytes(n)
  BY NullHasNoBytes
<1>2. ~IsElement /\ field.type = "NULL" /\ field.is_null
  BY <1>1 DEF IsElement, NullValue
<1>3. ASSUME NEW width \in Widths, AsInt(width) PROVE NullGivesNothing'
  BY <1>1, <1>3 DEF AsInt, Answer, NullGivesNothing
<1>4. CASE AsBoolean
  BY <1>1, <1>4 DEF AsBoolean, Answer, NullGivesNothing
<1>5. CASE AsDouble
  BY <1>1, <1>2, <1>5 DEF AsDouble, Answer, NullGivesNothing
<1>6. CASE AsString
  <2>1. asked' = "string" /\ answer' = <<>>
    BY <1>1, <1>2, <1>6 DEF AsString, Answer
  <2> QED
    BY <2>1 DEF NullGivesNothing
<1>14. CASE AsBlob
  BY <1>1, <1>14 DEF AsBlob, Answer, NullGivesNothing
<1>7. CASE AsTimestamp
  BY <1>1, <1>7 DEF AsTimestamp, Answer, NullGivesNothing
<1>8. CASE AsYear
  BY <1>1, <1>8 DEF AsYear, Answer, NullGivesNothing
<1>9. CASE AsDate
  BY <1>1, <1>9 DEF AsDate, DateOf, Date, Answer, NullGivesNothing
<1>10. CASE AsTime
  <2>1. 0 % 2^8 = 0
    BY SMT
  <2>2. TimeOf(0) = Time(0, 0, 0)
    BY <2>1 DEF TimeOf, Time
  <2> QED
    BY <1>1, <1>10, <2>2 DEF AsTime, Answer, NullGivesNothing
<1>11. CASE AsDatetime
  BY <1>2, <1>11 DEF AsDatetime, Answer, NullGivesNothing
<1>12. CASE AsEnum
  <2>1. get_variants \in Seq(Seq(STRING))
    BY GetVariantsType DEF FieldsSupported, SupportedField, Read
  <2>2. 0 \notin DOMAIN get_variants
    BY <2>1
  <2> QED
    BY <1>2, <1>12, <2>2 DEF AsEnum, Answer, NullGivesNothing
<1>13. CASE AsSet
  BY <1>2, <1>13, EmptySet DEF NullGivesNothing
<1> QED
  BY <1>3, <1>4, <1>5, <1>6, <1>7, <1>8, <1>9, <1>10, <1>11, <1>12, <1>13,
     <1>14 DEF Next

\* A field that is NULL gives 0 or nothing, whatever the type of its column and
\* whichever function reads it, as long as the text of the column is one.
THEOREM NullReadsAsNothing ==
    ASSUME FieldsSupported
    PROVE  Spec => []NullGivesNothing
<1>1. Init => Read /\ NullGivesNothing
  BY ReadInit DEF Init, NullGivesNothing
<1>2. Read /\ NullGivesNothing /\ [Next]_vars => (Read /\ NullGivesNothing)'
  BY ReadStep, NullStep
<1> QED
  BY <1>1, <1>2, PTL DEF Spec

=============================================================================
