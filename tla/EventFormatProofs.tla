------------------------- MODULE EventFormatProofs -------------------------
(***************************************************************************)
(* What is written into an event is found in it: numbers, bits, the fields *)
(* of a row, the parts of the events that are not rows.                    *)
(***************************************************************************)
EXTENDS EventFormat, TLAPS, WellFoundedInduction, FiniteSetTheorems

Bytes == 0..255

-----------------------------------------------------------------------------
(* Induction on numbers: of those outside the set there is none that is    *)
(* the least.                                                              *)

LEMMA NatSetInduction ==
    ASSUME NEW S, 0 \in S, \A n \in Nat : n \in S => n + 1 \in S
    PROVE  Nat \subseteq S
<1> SUFFICES ASSUME Nat \ S # {} PROVE FALSE
  OBVIOUS
<1> DEFINE T == Nat \ S
<1>0. T \subseteq Nat /\ T # {}
  OBVIOUS
<1> HIDE DEF T
<1>1. \E x \in T : \A y \in T : ~(<<y, x>> \in OpToRel(<, Nat))
  BY <1>0, WFMin, NatLessThanWellFounded
<1>2. PICK x \in T : \A y \in T : ~(<<y, x>> \in OpToRel(<, Nat))
  BY <1>1
<1>3. x \in Nat /\ x \notin S
  BY <1>2 DEF T
<1>4. x # 0
  BY <1>3
<1>5. x - 1 \in Nat /\ x - 1 < x /\ (x - 1) + 1 = x
  BY <1>3, <1>4
<1>6. <<x - 1, x>> \in OpToRel(<, Nat)
  <2>1. <<x - 1, x>> \in Nat \X Nat
    BY <1>3, <1>5
  <2> QED
    BY <2>1, <1>5, Zenon DEF OpToRel
<1>7. x - 1 \notin T
  BY <1>2, <1>6
<1>8. x - 1 \in S
  BY <1>5, <1>7 DEF T
<1> QED
  BY <1>3, <1>5, <1>8

-----------------------------------------------------------------------------
(* Sequences that are joined *)

\* What is in front of the n-th of them.
Before(f, n) == FlattenSeq([k \in 1..(n - 1) |-> f[k]])

\* The function that FlattenSeq is defined by.
Joins(g, f, n) ==
    g = [k \in 1..n |-> IF k = 1 THEN f[k] ELSE g[k - 1] \o f[k]]

LEMMA JoinsExist ==
    ASSUME NEW T, NEW N \in Nat, NEW f \in [1..N -> Seq(T)], NEW n \in 1..N
    PROVE  \E g \in [1..n -> Seq(T)] : Joins(g, f, n)
<1> DEFINE S == {m \in Nat : m + 1 <= N =>
                   \E g \in [1..(m + 1) -> Seq(T)] : Joins(g, f, m + 1)}
<1>1. 0 \in S
  <2> SUFFICES ASSUME 1 <= N PROVE \E g \in [1..1 -> Seq(T)] : Joins(g, f, 1)
    OBVIOUS
  <2> DEFINE g == [k \in 1..1 |-> f[k]]
  <2>1. g \in [1..1 -> Seq(T)]
    OBVIOUS
  <2>2. Joins(g, f, 1)
    BY <2>1 DEF Joins
  <2> QED
    BY <2>1, <2>2
<1>2. ASSUME NEW m \in Nat, m \in S PROVE m + 1 \in S
  <2> SUFFICES ASSUME m + 2 <= N
               PROVE  \E g \in [1..(m + 2) -> Seq(T)] : Joins(g, f, m + 2)
    OBVIOUS
  <2>1. PICK h \in [1..(m + 1) -> Seq(T)] : Joins(h, f, m + 1)
    BY <1>2
  <2> HIDE DEF S
  <2> DEFINE g == [k \in 1..(m + 2) |->
                     IF k = m + 2 THEN h[m + 1] \o f[k] ELSE h[k]]
  <2>2. h[m + 1] \in Seq(T) /\ f[m + 2] \in Seq(T)
    BY <2>1
  <2>3. h[m + 1] \o f[m + 2] \in Seq(T)
    BY <2>2
  <2>4. g \in [1..(m + 2) -> Seq(T)]
    <3>1. ASSUME NEW k \in 1..(m + 2) PROVE g[k] \in Seq(T)
      <4>1. CASE k = m + 2
        BY <4>1, <2>3
      <4>2. CASE k \in 1..(m + 1)
        BY <4>2, <2>1
      <4> QED
        BY <4>1, <4>2
    <3> QED
      BY <3>1
  <2>5. ASSUME NEW k \in 1..(m + 2)
        PROVE  g[k] = IF k = 1 THEN f[k] ELSE g[k - 1] \o f[k]
    <3>1. CASE k = m + 2
      <4>1. g[k] = h[m + 1] \o f[k]
        BY <3>1
      <4>2. k # 1 /\ k - 1 = m + 1 /\ k - 1 \in 1..(m + 2) /\ k - 1 # m + 2
        BY <3>1
      <4>3. g[k - 1] = h[m + 1]
        BY <4>2
      <4> HIDE DEF g
      <4> QED
        BY <4>1, <4>2, <4>3
    <3>2. CASE k \in 1..(m + 1)
      <4>1. h[k] = IF k = 1 THEN f[k] ELSE h[k - 1] \o f[k]
        BY <2>1, <3>2 DEF Joins
      <4>2. g[k] = h[k]
        <5>1. k # m + 2
          BY <3>2
        <5> QED
          BY <5>1
      <4>3. k # 1 => g[k - 1] = h[k - 1]
        <5> SUFFICES ASSUME k # 1 PROVE g[k - 1] = h[k - 1]
          OBVIOUS
        <5>1. k - 1 \in 1..(m + 2) /\ k - 1 # m + 2
          BY <3>2
        <5> QED
          BY <5>1
      <4> HIDE DEF g
      <4> QED
        BY <4>1, <4>2, <4>3
    <3> QED
      BY <3>1, <3>2
  <2>6. Joins(g, f, m + 2)
    <3>1. g = [k \in 1..(m + 2) |-> g[k]]
      OBVIOUS
    <3> HIDE DEF g
    <3> QED
      BY <3>1, <2>5, Zenon DEF Joins
  <2> HIDE DEF g
  <2> QED
    BY <2>4, <2>6
<1>3. n - 1 \in Nat /\ (n - 1) + 1 = n /\ n <= N
  OBVIOUS
<1> HIDE DEF S
<1>4. n - 1 \in S
  BY <1>1, <1>2, <1>3, NatSetInduction
<1> QED
  BY <1>3, <1>4 DEF S

\* Two of them agree on what both of them join.
LEMMA JoinsAgree ==
    ASSUME NEW f, NEW m \in Nat, NEW n \in Nat, NEW g, NEW h,
           Joins(g, f, m), Joins(h, f, n),
           NEW k \in Nat, k \in 1..m, k \in 1..n
    PROVE  g[k] = h[k]
<1> DEFINE S == {q \in Nat : q + 1 \in 1..m /\ q + 1 \in 1..n => g[q + 1] = h[q + 1]}
<1>0. /\ \A q \in 1..m : g[q] = IF q = 1 THEN f[q] ELSE g[q - 1] \o f[q]
      /\ \A q \in 1..n : h[q] = IF q = 1 THEN f[q] ELSE h[q - 1] \o f[q]
  BY DEF Joins
<1>1. 0 \in S
  BY <1>0
<1>2. ASSUME NEW q \in Nat, q \in S PROVE q + 1 \in S
  <2> SUFFICES ASSUME q + 2 \in 1..m, q + 2 \in 1..n PROVE g[q + 2] = h[q + 2]
    OBVIOUS
  <2>1. g[q + 1] = h[q + 1]
    BY <1>2
  <2>2. g[q + 2] = g[q + 1] \o f[q + 2] /\ h[q + 2] = h[q + 1] \o f[q + 2]
    <3>1. (q + 2) - 1 = q + 1 /\ q + 2 # 1
      OBVIOUS
    <3> QED
      BY <1>0, <3>1
  <2> QED
    BY <2>1, <2>2
<1>3. k - 1 \in Nat /\ (k - 1) + 1 = k
  OBVIOUS
<1> HIDE DEF S
<1>4. k - 1 \in S
  BY <1>1, <1>2, <1>3, NatSetInduction
<1> QED
  BY <1>3, <1>4 DEF S

Joined(T, f, n) ==
    \E g \in [1..n -> Seq(T)] : Joins(g, f, n) /\ Before(f, n + 1) = g[n]

LEMMA FlattenIs ==
    ASSUME NEW T, NEW N \in Nat, NEW f \in [1..N -> Seq(T)], NEW n \in 1..N
    PROVE  Joined(T, f, n)
<1>0. Before(f, n + 1) = FlattenSeq([k \in 1..n |-> f[k]])
  <2>1. (n + 1) - 1 = n
    OBVIOUS
  <2> QED
    BY <2>1 DEF Before
<1> DEFINE e == [k \in 1..n |-> f[k]]
<1>1. Len(e) = n /\ n # 0
  OBVIOUS
<1>2. PICK g \in [1..n -> Seq(T)] : Joins(g, f, n)
  BY JoinsExist
<1> DEFINE Defines(h) ==
        h = [k \in 1..Len(e) |-> IF k = 1 THEN e[k] ELSE h[k - 1] \o e[k]]
<1>3. \A h : Defines(h) <=> Joins(h, f, n)
  <2>1. \A h : [k \in 1..Len(e) |-> IF k = 1 THEN e[k] ELSE h[k - 1] \o e[k]]
               = [k \in 1..n |-> IF k = 1 THEN f[k] ELSE h[k - 1] \o f[k]]
    BY <1>1
  <2> QED
    BY <2>1 DEF Joins
<1>4. FlattenSeq(e) = (CHOOSE h : Defines(h))[n]
  <2>1. FlattenSeq(e) = (CHOOSE h : Defines(h))[Len(e)]
    BY <1>1 DEF FlattenSeq
  <2> QED
    BY <2>1, <1>1
<1> DEFINE c == CHOOSE h : Defines(h)
<1>5. Defines(c)
  <2>1. \E h : Defines(h)
    BY <1>2, <1>3
  <2> QED
    BY <2>1
<1>6. Joins(c, f, n)
  BY <1>5, <1>3
<1>7. c[n] = g[n]
  <2> HIDE DEF c
  <2> QED
    BY <1>2, <1>6, JoinsAgree
<1> QED
  BY <1>0, <1>2, <1>4, <1>7 DEF Joined

LEMMA BeforeNone ==
    ASSUME NEW f
    PROVE  Before(f, 1) = <<>> /\ Len(Before(f, 1)) = 0
<1> DEFINE e == [k \in 1..(1 - 1) |-> f[k]]
<1>1. e = <<>> /\ Len(e) = 0
  OBVIOUS
<1>2. FlattenSeq(e) = e
  BY <1>1 DEF FlattenSeq
<1> HIDE DEF e
<1>3. FlattenSeq(e) = <<>> /\ Len(FlattenSeq(e)) = 0
  BY <1>1, <1>2
<1> QED
  BY <1>3 DEF e, Before

LEMMA BeforeNext ==
    ASSUME NEW T, NEW N \in Nat, NEW f \in [1..N -> Seq(T)], NEW n \in 1..N
    PROVE  /\ Before(f, n) \in Seq(T)
           /\ Before(f, n + 1) \in Seq(T)
           /\ Before(f, n + 1) = Before(f, n) \o f[n]
           /\ Len(Before(f, n + 1)) = Len(Before(f, n)) + Len(f[n])
<1>0. f[n] \in Seq(T) /\ (n + 1) - 1 = n
  OBVIOUS
<1>1. PICK g \in [1..n -> Seq(T)] : Joins(g, f, n) /\ Before(f, n + 1) = g[n]
  <2>1. Joined(T, f, n)
    BY FlattenIs
  <2> QED
    BY <2>1 DEF Joined
<1>2. Before(f, n + 1) = g[n]
  BY <1>1
<1>3. g[n] \in Seq(T)
  BY <1>1
<1>4. \A k \in 1..n : g[k] = IF k = 1 THEN f[k] ELSE g[k - 1] \o f[k]
  BY <1>1 DEF Joins
<1>5. CASE n = 1
  <2>1. Before(f, n) = <<>>
    BY <1>5, BeforeNone
  <2>2. g[n] = f[n]
    BY <1>4, <1>5
  <2>3. <<>> \in Seq(T) /\ <<>> \o f[n] = f[n] /\ Len(<<>>) = 0
    BY <1>0
  <2>4. Len(f[n]) \in Nat
    BY <1>0
  <2> QED
    BY <1>2, <1>3, <2>1, <2>2, <2>3, <2>4
<1>6. CASE n # 1
  <2>1. n - 1 \in 1..n /\ n - 1 \in 1..N /\ n - 1 \in Nat /\ n \in 1..n
    BY <1>6
  <2> DEFINE o == n - 1
  <2>2. o \in 1..N /\ o \in Nat /\ n \in Nat /\ o \in 1..n /\ o \in 1..o
    BY <2>1
  <2>6. o + 1 = n
    OBVIOUS
  <2> HIDE DEF o
  <2>3. PICK h \in [1..o -> Seq(T)] : Joins(h, f, o) /\ Before(f, o + 1) = h[o]
    <3>1. Joined(T, f, o)
      BY <2>2, FlattenIs
    <3> QED
      BY <3>1 DEF Joined
  <2>4. h[o] = g[o]
    BY <1>1, <2>2, <2>3, JoinsAgree
  <2> USE DEF o
  <2>7. Before(f, n) = g[n - 1]
    BY <2>6, <2>3, <2>4
  <2>5. g[n] = g[n - 1] \o f[n] /\ g[n - 1] \in Seq(T)
    BY <1>1, <1>4, <1>6, <2>1
  <2>8. Len(g[n - 1] \o f[n]) = Len(g[n - 1]) + Len(f[n])
    BY <1>0, <2>5
  <2> QED
    BY <1>2, <1>3, <2>7, <2>5, <2>8
<1> QED
  BY <1>5, <1>6

\* BeforeNext, to be used at any place.
Grows(T, f, n) ==
    /\ Before(f, n) \in Seq(T) /\ Before(f, n + 1) \in Seq(T)
    /\ Before(f, n + 1) = Before(f, n) \o f[n]
    /\ Len(Before(f, n + 1)) = Len(Before(f, n)) + Len(f[n])

LEMMA BeforeGrows ==
    ASSUME NEW T, NEW N, NEW f, NEW n,
           N \in Nat, f \in [1..N -> Seq(T)], n \in 1..N
    PROVE  Grows(T, f, n)
<1>1. /\ Before(f, n) \in Seq(T)
      /\ Before(f, n + 1) \in Seq(T)
      /\ Before(f, n + 1) = Before(f, n) \o f[n]
      /\ Len(Before(f, n + 1)) = Len(Before(f, n)) + Len(f[n])
  BY BeforeNext
<1> QED
  BY <1>1 DEF Grows

\* The first of them are what all of them begin with.
LEMMA BeforeBegins ==
    ASSUME NEW T, NEW N \in Nat, NEW f \in [1..N -> Seq(T)], NEW n \in 1..N
    PROVE  /\ FlattenSeq(f) \in Seq(T)
           /\ FlattenSeq(f) = Before(f, N + 1)
           /\ Len(Before(f, n + 1)) <= Len(FlattenSeq(f))
           /\ \A k \in 1..Len(Before(f, n + 1)) :
                FlattenSeq(f)[k] = Before(f, n + 1)[k]
<1> DEFINE b == Before(f, n + 1)
           S == {m \in Nat : n + m <= N =>
                   /\ Before(f, n + m + 1) \in Seq(T)
                   /\ Len(b) <= Len(Before(f, n + m + 1))
                   /\ \A k \in 1..Len(b) : Before(f, n + m + 1)[k] = b[k]}
<1>1. b \in Seq(T)
  BY BeforeNext
<1>2. 0 \in S
  <2>1. n + 0 + 1 = n + 1
    OBVIOUS
  <2>2. Before(f, n + 0 + 1) = b
    BY <2>1
  <2> HIDE DEF b
  <2> QED
    BY <1>1, <2>2
<1>3. ASSUME NEW m \in Nat, m \in S PROVE m + 1 \in S
  <2> SUFFICES ASSUME n + m + 1 <= N
               PROVE  /\ Before(f, n + (m + 1) + 1) \in Seq(T)
                      /\ Len(b) <= Len(Before(f, n + (m + 1) + 1))
                      /\ \A k \in 1..Len(b) : Before(f, n + (m + 1) + 1)[k] = b[k]
    OBVIOUS
  <2> DEFINE o == n + m + 1
  <2>1. o \in 1..N /\ n + (m + 1) + 1 = o + 1
    OBVIOUS
  <2>2. /\ Before(f, o) \in Seq(T)
        /\ Len(b) <= Len(Before(f, o))
        /\ \A k \in 1..Len(b) : Before(f, o)[k] = b[k]
    <3>1. n + m <= N
      OBVIOUS
    <3> HIDE DEF b
    <3> QED
      BY <1>3, <3>1
  <2> HIDE DEF o, b
  <2>3. f[o] \in Seq(T)
    BY <2>1
  <2>4. /\ Before(f, o + 1) \in Seq(T)
        /\ Before(f, o + 1) = Before(f, o) \o f[o]
    <3>1. N \in Nat /\ f \in [1..N -> Seq(T)] /\ o \in 1..N
      BY <2>1
    <3>2. Grows(T, f, o)
      BY <3>1, BeforeGrows
    <3> QED
      BY <3>2 DEF Grows
  <2> DEFINE c == Before(f, o)
             e == f[o]
  <2> HIDE DEF c, e
  <2>5. c \in Seq(T) /\ e \in Seq(T) /\ Len(b) <= Len(c) /\ b \in Seq(T)
    BY <2>2, <2>3, <1>1 DEF c, e
  <2>6. \A k \in 1..Len(b) : (c \o e)[k] = c[k]
    BY <2>5
  <2>7. Len(b) <= Len(c \o e)
    BY <2>5
  <2> QED
    BY <2>1, <2>2, <2>4, <2>6, <2>7 DEF c, e
<1>4. N - n \in Nat /\ n + (N - n) + 1 = N + 1 /\ n + (N - n) <= N
  OBVIOUS
<1> HIDE DEF S
<1>5. N - n \in S
  BY <1>2, <1>3, <1>4, NatSetInduction
<1>6. FlattenSeq(f) = Before(f, N + 1)
  <2>1. f = [k \in 1..((N + 1) - 1) |-> f[k]]
    OBVIOUS
  <2> QED
    BY <2>1 DEF Before
<1>7. /\ Before(f, N + 1) \in Seq(T)
      /\ Len(b) <= Len(Before(f, N + 1))
      /\ \A k \in 1..Len(b) : Before(f, N + 1)[k] = b[k]
  <2> HIDE DEF b
  <2> QED
    BY <1>4, <1>5 DEF S
<1> QED
  BY <1>6, <1>7

-----------------------------------------------------------------------------
(* Data at a place *)

\* The bytes of the sequence s are found in data from the place q on.
At(data, q, s) == \A k \in 1..Len(s) : Byte(data, q + k - 1) = s[k]

LEMMA AtItself ==
    ASSUME NEW S, NEW s \in Seq(S)
    PROVE  At(s, 1, s)
BY DEF At, Byte

LEMMA AtSplit ==
    ASSUME NEW S, NEW s \in Seq(S), NEW t \in Seq(S), NEW data, NEW q \in Nat,
           At(data, q, s \o t)
    PROVE  At(data, q, s) /\ At(data, q + Len(s), t)
<1>1. /\ Len(s \o t) = Len(s) + Len(t) /\ Len(s) \in Nat /\ Len(t) \in Nat
      /\ \A k \in 1..Len(s) : (s \o t)[k] = s[k]
      /\ \A k \in 1..Len(t) : (s \o t)[Len(s) + k] = t[k]
  OBVIOUS
<1>2. \A k \in 1..Len(s \o t) : Byte(data, q + k - 1) = (s \o t)[k]
  BY DEF At
<1>3. ASSUME NEW k \in 1..Len(s) PROVE Byte(data, q + k - 1) = s[k]
  <2>1. k \in 1..Len(s \o t)
    BY <1>1
  <2> QED
    BY <1>1, <1>2, <2>1
<1>4. ASSUME NEW k \in 1..Len(t) PROVE Byte(data, q + Len(s) + k - 1) = t[k]
  <2>1. Len(s) + k \in 1..Len(s \o t)
    BY <1>1
  <2>2. Byte(data, q + (Len(s) + k) - 1) = t[k]
    BY <1>1, <1>2, <2>1
  <2>3. q + (Len(s) + k) - 1 = q + Len(s) + k - 1
    BY <1>1
  <2> QED
    BY <2>2, <2>3
<1> QED
  BY <1>3, <1>4 DEF At

LEMMA AtStretch ==
    ASSUME NEW S, NEW s \in Seq(S), NEW data, NEW q \in Nat, At(data, q, s)
    PROVE  Stretch(data, q, Len(s)) = s
BY DEF At, Stretch

LEMMA AtJoined ==
    ASSUME NEW T, NEW N \in Nat, NEW f \in [1..N -> Seq(T)], NEW n \in 1..N,
           NEW data, NEW q \in Nat, At(data, q, FlattenSeq(f))
    PROVE  /\ Len(Before(f, n)) \in Nat
           /\ Len(f[n]) \in Nat
           /\ Len(Before(f, n)) + Len(f[n]) <= Len(FlattenSeq(f))
           /\ At(data, q + Len(Before(f, n)), f[n])
<1>1. /\ Before(f, n) \in Seq(T) /\ f[n] \in Seq(T)
      /\ Before(f, n + 1) = Before(f, n) \o f[n]
      /\ Len(Before(f, n + 1)) = Len(Before(f, n)) + Len(f[n])
  <2>1. Grows(T, f, n)
    BY BeforeGrows
  <2> QED
    BY <2>1 DEF Grows
<1>2. /\ FlattenSeq(f) \in Seq(T)
      /\ Len(Before(f, n + 1)) <= Len(FlattenSeq(f))
      /\ \A k \in 1..Len(Before(f, n + 1)) :
           FlattenSeq(f)[k] = Before(f, n + 1)[k]
  BY BeforeBegins
<1>3. At(data, q, Before(f, n + 1))
  <2>1. Len(FlattenSeq(f)) \in Nat /\ Len(Before(f, n + 1)) \in Nat
    BY <1>1, <1>2
  <2>2. \A k \in 1..Len(FlattenSeq(f)) : Byte(data, q + k - 1) = FlattenSeq(f)[k]
    BY DEF At
  <2>3. \A k \in 1..Len(Before(f, n + 1)) : k \in 1..Len(FlattenSeq(f))
    BY <1>2, <2>1
  <2> QED
    BY <1>2, <2>2, <2>3 DEF At
<1>4. At(data, q, Before(f, n) \o f[n])
  BY <1>1, <1>3
<1>5. At(data, q + Len(Before(f, n)), f[n])
  BY <1>1, <1>4, AtSplit
<1>6. Len(Before(f, n)) \in Nat /\ Len(f[n]) \in Nat
  BY <1>1
<1> QED
  BY <1>1, <1>2, <1>5, <1>6

-----------------------------------------------------------------------------
(* Numbers and bits *)

LEMMA ByteIsNumber ==
    ASSUME NEW data \in Seq(Bytes), NEW q \in Int
    PROVE  Byte(data, q) \in Bytes
<1>1. CASE q \in 1..Len(data)
  <2>1. data[q] \in Bytes
    BY <1>1
  <2> QED
    BY <1>1, <2>1 DEF Byte
<1>2. CASE q \notin 1..Len(data)
  BY <1>2 DEF Byte, Bytes
<1> QED
  BY <1>1, <1>2

\* The function that UintKorr is defined by, for as many bytes as it is used.
Sums(s, data, q, n) ==
    s = [k \in 0..n |-> IF k = 0 THEN 0 ELSE Byte(data, q + n - k) + 256 * s[k - 1]]

LEMMA UintKorrSums ==
    ASSUME NEW data, NEW q \in Nat, NEW n \in 0..4
    PROVE  \E s : Sums(s, data, q, n) /\ UintKorr(data, q, n) = s[n]
<1> DEFINE B(k) == Byte(data, q + n - k)
           V1 == B(1) + 256 * 0
           V2 == B(2) + 256 * V1
           V3 == B(3) + 256 * V2
           V4 == B(4) + 256 * V3
           s == [k \in 0..n |-> IF k = 0 THEN 0 ELSE IF k = 1 THEN V1
                               ELSE IF k = 2 THEN V2 ELSE IF k = 3 THEN V3 ELSE V4]
<1>1. ASSUME NEW k \in 0..n
      PROVE  s[k] = IF k = 0 THEN 0 ELSE B(k) + 256 * s[k - 1]
  <2>1. k # 0 => k - 1 \in 0..n
    OBVIOUS
  <2>2. k \in {0, 1, 2, 3, 4}
    OBVIOUS
  <2>3. k = 0 => s[k] = 0
    OBVIOUS
  <2>4. k = 1 => s[k] = V1 /\ s[k - 1] = 0
    BY <2>1
  <2>5. k = 2 => s[k] = V2 /\ s[k - 1] = V1
    BY <2>1
  <2>6. k = 3 => s[k] = V3 /\ s[k - 1] = V2
    BY <2>1
  <2>7. k = 4 => s[k] = V4 /\ s[k - 1] = V3
    BY <2>1
  <2> HIDE DEF s, B
  <2> QED
    BY <2>2, <2>3, <2>4, <2>5, <2>6, <2>7
<1>2. Sums(s, data, q, n)
  <2>1. s = [k \in 0..n |-> s[k]]
    OBVIOUS
  <2> HIDE DEF s
  <2> QED
    BY <1>1, <2>1, Zenon DEF Sums
<1> HIDE DEF s
<1>3. Sums(CHOOSE c : Sums(c, data, q, n), data, q, n)
  BY <1>2
<1>4. UintKorr(data, q, n) = (CHOOSE c : Sums(c, data, q, n))[n]
  BY DEF UintKorr, Sums
<1> QED
  BY <1>3, <1>4

LEMMA UintKorrIs ==
    ASSUME NEW data \in Seq(Bytes), NEW q \in Nat
    PROVE  /\ UintKorr(data, q, 0) = 0
           /\ UintKorr(data, q, 1) = Byte(data, q)
           /\ UintKorr(data, q, 2) = Byte(data, q) + 256 * Byte(data, q + 1)
           /\ UintKorr(data, q, 3) =
                Byte(data, q) + 256 * Byte(data, q + 1) + 65536 * Byte(data, q + 2)
           /\ UintKorr(data, q, 4) =
                Byte(data, q) + 256 * Byte(data, q + 1) + 65536 * Byte(data, q + 2)
                  + 16777216 * Byte(data, q + 3)
<1>1. /\ Byte(data, q) \in Int /\ Byte(data, q + 1) \in Int
      /\ Byte(data, q + 2) \in Int /\ Byte(data, q + 3) \in Int
  <2>1. \A k \in Int : Byte(data, k) \in Bytes
    BY ByteIsNumber
  <2>2. q \in Int /\ q + 1 \in Int /\ q + 2 \in Int /\ q + 3 \in Int
    OBVIOUS
  <2>3. Bytes \subseteq Int
    BY DEF Bytes
  <2> QED
    BY <2>1, <2>2, <2>3
<1>2. ASSUME NEW n \in 0..4, NEW s, Sums(s, data, q, n), NEW k \in 0..n
      PROVE  s[k] = IF k = 0 THEN 0 ELSE Byte(data, q + n - k) + 256 * s[k - 1]
  BY <1>2 DEF Sums
<1>3. UintKorr(data, q, 0) = 0
  <2>1. PICK s : Sums(s, data, q, 0) /\ UintKorr(data, q, 0) = s[0]
    BY UintKorrSums
  <2> QED
    BY <1>2, <2>1
<1>4. UintKorr(data, q, 1) = Byte(data, q)
  <2>1. PICK s : Sums(s, data, q, 1) /\ UintKorr(data, q, 1) = s[1]
    BY UintKorrSums
  <2>2. s[0] = 0 /\ s[1] = Byte(data, q + 1 - 1) + 256 * s[1 - 1]
    BY <1>2, <2>1
  <2> QED
    BY <1>1, <2>1, <2>2
<1>5. UintKorr(data, q, 2) = Byte(data, q) + 256 * Byte(data, q + 1)
  <2>1. PICK s : Sums(s, data, q, 2) /\ UintKorr(data, q, 2) = s[2]
    BY UintKorrSums
  <2>2. /\ s[0] = 0 /\ s[1] = Byte(data, q + 2 - 1) + 256 * s[1 - 1]
        /\ s[2] = Byte(data, q + 2 - 2) + 256 * s[2 - 1]
    BY <1>2, <2>1
  <2> QED
    BY <1>1, <2>1, <2>2
<1>6. UintKorr(data, q, 3) =
        Byte(data, q) + 256 * Byte(data, q + 1) + 65536 * Byte(data, q + 2)
  <2>1. PICK s : Sums(s, data, q, 3) /\ UintKorr(data, q, 3) = s[3]
    BY UintKorrSums
  <2>2. /\ s[0] = 0 /\ s[1] = Byte(data, q + 3 - 1) + 256 * s[1 - 1]
        /\ s[2] = Byte(data, q + 3 - 2) + 256 * s[2 - 1]
        /\ s[3] = Byte(data, q + 3 - 3) + 256 * s[3 - 1]
    BY <1>2, <2>1
  <2>3. s[1] = Byte(data, q + 2)
    BY <1>1, <2>2
  <2>4. s[2] = Byte(data, q + 1) + 256 * s[1]
    BY <2>2
  <2>5. s[3] = Byte(data, q) + 256 * s[2]
    BY <2>2
  <2> DEFINE a == Byte(data, q)
             b == Byte(data, q + 1)
             c == Byte(data, q + 2)
  <2>6. a \in Int /\ b \in Int /\ c \in Int
    BY <1>1
  <2>7. UintKorr(data, q, 3) = a + 256 * (b + 256 * c)
    BY <2>1, <2>3, <2>4, <2>5
  <2> HIDE DEF a, b, c
  <2>8. a + 256 * (b + 256 * c) = a + 256 * b + 65536 * c
    BY <2>6
  <2>9. UintKorr(data, q, 3) = a + 256 * b + 65536 * c
    BY <2>7, <2>8
  <2> QED
    BY <2>9 DEF a, b, c
<1>7. UintKorr(data, q, 4) =
        Byte(data, q) + 256 * Byte(data, q + 1) + 65536 * Byte(data, q + 2)
          + 16777216 * Byte(data, q + 3)
  <2>1. PICK s : Sums(s, data, q, 4) /\ UintKorr(data, q, 4) = s[4]
    BY UintKorrSums
  <2>2. /\ s[0] = 0 /\ s[1] = Byte(data, q + 4 - 1) + 256 * s[1 - 1]
        /\ s[2] = Byte(data, q + 4 - 2) + 256 * s[2 - 1]
        /\ s[3] = Byte(data, q + 4 - 3) + 256 * s[3 - 1]
        /\ s[4] = Byte(data, q + 4 - 4) + 256 * s[4 - 1]
    BY <1>2, <2>1
  <2>3. s[1] = Byte(data, q + 3)
    BY <1>1, <2>2
  <2>4. s[2] = Byte(data, q + 2) + 256 * s[1]
    BY <2>2
  <2>5. s[3] = Byte(data, q + 1) + 256 * s[2]
    BY <2>2
  <2>6. s[4] = Byte(data, q) + 256 * s[3]
    BY <2>2
  <2> DEFINE a == Byte(data, q)
             b == Byte(data, q + 1)
             c == Byte(data, q + 2)
             d == Byte(data, q + 3)
  <2>7. a \in Int /\ b \in Int /\ c \in Int /\ d \in Int
    BY <1>1
  <2>8. UintKorr(data, q, 4) = a + 256 * (b + 256 * (c + 256 * d))
    BY <2>1, <2>3, <2>4, <2>5, <2>6
  <2>9. UintKorr(data, q, 4) = a + 256 * b + 65536 * c + 16777216 * d
    <3> HIDE DEF a, b, c, d
    <3> QED
      BY <2>7, <2>8
  <2> QED
    BY <2>9
<1> QED
  BY <1>3, <1>4, <1>5, <1>6, <1>7

LEMMA Powers ==
    /\ 256^0 = 1 /\ 256^1 = 256 /\ 256^2 = 65536 /\ 256^3 = 16777216
    /\ 256^4 = 4294967296
BY SMT

LEMMA SmallPositions ==
    /\ 4 < 256^4 /\ 200 < 256^4 /\ 300 < 256^4 /\ 400 < 256^4
    /\ 500 < 256^4 /\ 600 < 256^4
BY SMT

LEMMA ShiftedBytes ==
    ASSUME NEW x \in Nat
    PROVE  /\ x \div 256^(1 - 1) = x
           /\ x \div 256^(2 - 1) = x \div 256
           /\ x \div 256^(3 - 1) = x \div 65536
           /\ x \div 256^(4 - 1) = x \div 16777216
<1>1. 1 - 1 = 0 /\ 2 - 1 = 1 /\ 3 - 1 = 2 /\ 4 - 1 = 3
  OBVIOUS
<1>2. 256^0 = 1 /\ 256^1 = 256 /\ 256^2 = 65536 /\ 256^3 = 16777216
  BY SMT
<1>3. x \div 1 = x
  OBVIOUS
<1> QED
  BY <1>1, <1>2, <1>3, SMT

\* A length that fits its bytes.
LEMMA LengthBytesAre ==
    ASSUME NEW x \in Nat, NEW n \in 0..4
    PROVE  /\ LengthBytes(x, n) \in Seq(Bytes)
           /\ Len(LengthBytes(x, n)) = n
<1>1. ASSUME NEW y \in Nat PROVE y % 256 \in Bytes
  BY DEF Bytes
<1>2. ASSUME NEW k \in 1..n PROVE (x \div 256^(k - 1)) % 256 \in Bytes
  <2>1. k = 1 \/ k = 2 \/ k = 3 \/ k = 4
    OBVIOUS
  <2>2. /\ x \div 256 \in Nat /\ x \div 65536 \in Nat
        /\ x \div 16777216 \in Nat
    BY SMT
  <2> QED
    BY <1>1, <2>1, <2>2, ShiftedBytes, SMT
<1>3. LengthBytes(x, n) \in [1..n -> Bytes]
  BY <1>2 DEF LengthBytes
<1> QED
  BY <1>3

LEMMA NumberAt ==
    ASSUME NEW data \in Seq(Bytes), NEW q \in Nat, NEW x \in Nat, NEW n \in 0..4,
           x < 256^n, At(data, q, LengthBytes(x, n))
    PROVE  UintKorr(data, q, n) = x
<1>1. \A k \in 1..n : Byte(data, q + k - 1) = (x \div 256^(k - 1)) % 256
  <2>1. Len(LengthBytes(x, n)) = n
    BY LengthBytesAre
  <2>2. \A k \in 1..n : LengthBytes(x, n)[k] = (x \div 256^(k - 1)) % 256
    BY DEF LengthBytes
  <2> QED
    BY <2>1, <2>2 DEF At
<1>2. /\ n >= 1 => Byte(data, q) = (x % 256)
      /\ n >= 2 => Byte(data, q + 1) = (x \div 256) % 256
      /\ n >= 3 => Byte(data, q + 2) = (x \div 65536) % 256
      /\ n >= 4 => Byte(data, q + 3) = (x \div 16777216) % 256
  <2>1. /\ n >= 1 => Byte(data, q + 1 - 1) = (x \div 256^(1 - 1)) % 256
        /\ n >= 2 => Byte(data, q + 2 - 1) = (x \div 256^(2 - 1)) % 256
        /\ n >= 3 => Byte(data, q + 3 - 1) = (x \div 256^(3 - 1)) % 256
        /\ n >= 4 => Byte(data, q + 4 - 1) = (x \div 256^(4 - 1)) % 256
    <3>1. /\ n >= 1 => 1 \in 1..n
          /\ n >= 2 => 2 \in 1..n
          /\ n >= 3 => 3 \in 1..n
          /\ n >= 4 => 4 \in 1..n
      OBVIOUS
    <3> QED
      BY <1>1, <3>1, ZenonT(30)
  <2>2. q + 1 - 1 = q /\ q + 2 - 1 = q + 1 /\ q + 3 - 1 = q + 2 /\ q + 4 - 1 = q + 3
    OBVIOUS
  <2>3. /\ x \div 256^(1 - 1) = x
        /\ x \div 256^(2 - 1) = x \div 256
        /\ x \div 256^(3 - 1) = x \div 65536
        /\ x \div 256^(4 - 1) = x \div 16777216
    BY ShiftedBytes, SMT
  <2> QED
    BY <2>1, <2>2, <2>3, SMT
<1>0. /\ UintKorr(data, q, 0) = 0
      /\ UintKorr(data, q, 1) = Byte(data, q)
      /\ UintKorr(data, q, 2) = Byte(data, q) + 256 * Byte(data, q + 1)
      /\ UintKorr(data, q, 3) =
           Byte(data, q) + 256 * Byte(data, q + 1) + 65536 * Byte(data, q + 2)
      /\ UintKorr(data, q, 4) =
           Byte(data, q) + 256 * Byte(data, q + 1) + 65536 * Byte(data, q + 2)
             + 16777216 * Byte(data, q + 3)
  BY UintKorrIs, SMT
<1>3. CASE n = 0
  BY <1>3, Powers, <1>0, SMT
<1>4. CASE n = 1
  BY <1>2, <1>4, Powers, <1>0, SMT
<1>5. CASE n = 2
  <2>1. x < 65536
    BY <1>5, Powers, SMT
  <2>2. (x % 256) + 256 * ((x \div 256) % 256) = x
    BY <2>1, SMT
  <2> QED
    BY <1>2, <1>5, <2>2, <1>0, SMT
<1>6. CASE n = 3
  <2>1. x < 16777216
    BY <1>6, Powers, SMT
  <2>2. (x % 256) + 256 * ((x \div 256) % 256) + 65536 * ((x \div 65536) % 256) = x
    BY <2>1, SMT
  <2> DEFINE y0 == (x % 256)
             y1 == (x \div 256) % 256
             y2 == (x \div 65536) % 256
  <2>3. y0 + 256 * y1 + 65536 * y2 = x
    BY <2>2
  <2>4. Byte(data, q) = y0 /\ Byte(data, q + 1) = y1 /\ Byte(data, q + 2) = y2
    BY <1>2, <1>6
  <2> HIDE DEF y0, y1, y2
  <2>5. UintKorr(data, q, 3) = x
    BY <1>0, <2>3, <2>4, SMT
  <2> QED
    BY <1>6, <2>5
<1>7. CASE n = 4
  <2>1. x < 4294967296
    BY <1>7, Powers, SMT
  <2>2. (x % 256) + 256 * ((x \div 256) % 256) + 65536 * ((x \div 65536) % 256)
          + 16777216 * ((x \div 16777216) % 256) = x
    BY <2>1, SMT
  <2> DEFINE y0 == (x % 256)
             y1 == (x \div 256) % 256
             y2 == (x \div 65536) % 256
             y3 == (x \div 16777216) % 256
  <2>3. y0 + 256 * y1 + 65536 * y2 + 16777216 * y3 = x
    BY <2>2
  <2>4. Byte(data, q) = y0 /\ Byte(data, q + 1) = y1 /\ Byte(data, q + 2) = y2 /\ Byte(data, q + 3) = y3
    BY <1>2, <1>7
  <2> HIDE DEF y0, y1, y2, y3
  <2>5. UintKorr(data, q, 4) = x
    BY <1>0, <2>3, <2>4, SMT
  <2> QED
    BY <1>7, <2>5
<1> QED
  BY <1>3, <1>4, <1>5, <1>6, <1>7

\* A byte that is made of bits.
LEMMA BitsOfByte ==
    ASSUME NEW a \in {0, 1}, NEW b \in {0, 2}, NEW c \in {0, 4}, NEW d \in {0, 8},
           NEW e \in {0, 16}, NEW f \in {0, 32}, NEW g \in {0, 64}, NEW h \in {0, 128}
    PROVE  LET y == a + b + c + d + e + f + g + h
           IN
           /\ y \in Bytes
           /\ y % 2 = 1 <=> a = 1
           /\ (y \div 2) % 2 = 1 <=> b = 2
           /\ (y \div 4) % 2 = 1 <=> c = 4
           /\ (y \div 8) % 2 = 1 <=> d = 8
           /\ (y \div 16) % 2 = 1 <=> e = 16
           /\ (y \div 32) % 2 = 1 <=> f = 32
           /\ (y \div 64) % 2 = 1 <=> g = 64
           /\ (y \div 128) % 2 = 1 <=> h = 128
<1> DEFINE y == a + b + c + d + e + f + g + h
<1>1. y \in Bytes
  BY DEF Bytes
<1>2. y % 2 = 1 <=> a = 1
  BY SMT
<1>3. (y \div 2) % 2 = 1 <=> b = 2
  BY SMT
<1>4. (y \div 4) % 2 = 1 <=> c = 4
  BY SMT
<1>5. (y \div 8) % 2 = 1 <=> d = 8
  BY SMT
<1>6. (y \div 16) % 2 = 1 <=> e = 16
  BY SMT
<1>7. (y \div 32) % 2 = 1 <=> f = 32
  BY SMT
<1>8. (y \div 64) % 2 = 1 <=> g = 64
  BY SMT
<1>9. (y \div 128) % 2 = 1 <=> h = 128
  BY SMT
<1> QED
  BY <1>1, <1>2, <1>3, <1>4, <1>5, <1>6, <1>7, <1>8, <1>9

LEMMA BitPowers ==
    /\ 2^0 = 1 /\ 2^1 = 2 /\ 2^2 = 4 /\ 2^3 = 8
    /\ 2^4 = 16 /\ 2^5 = 32 /\ 2^6 = 64 /\ 2^7 = 128
BY SMT

LEMMA BitmapByte ==
    ASSUME NEW bits, NEW n \in Nat, NEW k \in 1..((n + 7) \div 8), NEW b \in 0..7
    PROVE  /\ Bitmap(bits, n)[k] \in Bytes
           /\ (Bitmap(bits, n)[k] \div 2^b) % 2 = 1 <=> (k - 1) * 8 + b \in bits
<1> DEFINE B(j, w) == IF (k - 1) * 8 + j \in bits THEN w ELSE 0
           y == B(0, 1) + B(1, 2) + B(2, 4) + B(3, 8)
                  + B(4, 16) + B(5, 32) + B(6, 64) + B(7, 128)
<1>1. Bitmap(bits, n)[k] = y
  BY BitPowers, SMT DEF Bitmap
<1>2. /\ B(0, 1) \in {0, 1} /\ B(1, 2) \in {0, 2} /\ B(2, 4) \in {0, 4}
      /\ B(3, 8) \in {0, 8} /\ B(4, 16) \in {0, 16} /\ B(5, 32) \in {0, 32}
      /\ B(6, 64) \in {0, 64} /\ B(7, 128) \in {0, 128}
  OBVIOUS
<1>3. /\ B(0, 1) = 1 <=> (k - 1) * 8 + 0 \in bits
      /\ B(1, 2) = 2 <=> (k - 1) * 8 + 1 \in bits
      /\ B(2, 4) = 4 <=> (k - 1) * 8 + 2 \in bits
      /\ B(3, 8) = 8 <=> (k - 1) * 8 + 3 \in bits
      /\ B(4, 16) = 16 <=> (k - 1) * 8 + 4 \in bits
      /\ B(5, 32) = 32 <=> (k - 1) * 8 + 5 \in bits
      /\ B(6, 64) = 64 <=> (k - 1) * 8 + 6 \in bits
      /\ B(7, 128) = 128 <=> (k - 1) * 8 + 7 \in bits
  BY SMT
<1> HIDE DEF B
<1>4. /\ y \in Bytes
      /\ y % 2 = 1 <=> B(0, 1) = 1
      /\ (y \div 2) % 2 = 1 <=> B(1, 2) = 2
      /\ (y \div 4) % 2 = 1 <=> B(2, 4) = 4
      /\ (y \div 8) % 2 = 1 <=> B(3, 8) = 8
      /\ (y \div 16) % 2 = 1 <=> B(4, 16) = 16
      /\ (y \div 32) % 2 = 1 <=> B(5, 32) = 32
      /\ (y \div 64) % 2 = 1 <=> B(6, 64) = 64
      /\ (y \div 128) % 2 = 1 <=> B(7, 128) = 128
  BY <1>2, BitsOfByte
<1> HIDE DEF y
<1>5. /\ b = 0 \/ b = 1 \/ b = 2 \/ b = 3 \/ b = 4 \/ b = 5 \/ b = 6 \/ b = 7
  OBVIOUS
<1>6. y \div 1 = y
  BY <1>4 DEF Bytes
<1>7. (y \div 2^b) % 2 = 1 <=> (k - 1) * 8 + b \in bits
  <2>1. CASE b = 0
    BY <1>3, <1>4, <1>6, <2>1, BitPowers
  <2>2. CASE b = 1
    BY <1>3, <1>4, <2>2, BitPowers
  <2>3. CASE b = 2
    BY <1>3, <1>4, <2>3, BitPowers
  <2>4. CASE b = 3
    BY <1>3, <1>4, <2>4, BitPowers
  <2>5. CASE b = 4
    BY <1>3, <1>4, <2>5, BitPowers
  <2>6. CASE b = 5
    BY <1>3, <1>4, <2>6, BitPowers
  <2>7. CASE b = 6
    BY <1>3, <1>4, <2>7, BitPowers
  <2>8. CASE b = 7
    BY <1>3, <1>4, <2>8, BitPowers
  <2> QED
    BY <1>5, <2>1, <2>2, <2>3, <2>4, <2>5, <2>6, <2>7, <2>8
<1> QED
  BY <1>1, <1>4, <1>7

LEMMA BitmapIs ==
    ASSUME NEW bits, NEW n \in Nat
    PROVE  /\ Bitmap(bits, n) \in Seq(Bytes)
           /\ Len(Bitmap(bits, n)) = (n + 7) \div 8
           /\ (n + 7) \div 8 \in Nat
<1>1. (n + 7) \div 8 \in Nat
  OBVIOUS
<1>2. \A k \in 1..((n + 7) \div 8) : Bitmap(bits, n)[k] \in Bytes
  <2> SUFFICES ASSUME NEW k \in 1..((n + 7) \div 8) PROVE Bitmap(bits, n)[k] \in Bytes
    OBVIOUS
  <2>1. 0 \in 0..7
    OBVIOUS
  <2> QED
    BY <2>1, BitmapByte
<1>3. Bitmap(bits, n) = [k \in 1..((n + 7) \div 8) |-> Bitmap(bits, n)[k]]
  BY DEF Bitmap
<1> DEFINE s == Bitmap(bits, n)
           m == (n + 7) \div 8
<1> HIDE DEF s, m
<1>4. m \in Nat /\ s = [k \in 1..m |-> s[k]] /\ \A k \in 1..m : s[k] \in Bytes
  BY <1>1, <1>2, <1>3 DEF s, m
<1>5. s \in Seq(Bytes) /\ Len(s) = m
  BY <1>4
<1> QED
  BY <1>4, <1>5 DEF s, m

LEMMA BitsAt ==
    ASSUME NEW data, NEW q \in Nat, NEW n \in Nat, NEW bits, bits \subseteq 0..(n - 1),
           At(data, q, Bitmap(bits, n))
    PROVE  BitsKorr(data, q, (n + 7) \div 8) = bits
<1> DEFINE m == (n + 7) \div 8
<1>1. m \in Nat /\ 8 * m >= n
  OBVIOUS
<1>2. ASSUME NEW b \in 0..(8 * m - 1)
      PROVE  (Byte(data, q + b \div 8) \div 2^(b % 8)) % 2 = 1 <=> b \in bits
  <2>1. b \div 8 + 1 \in 1..m /\ b % 8 \in 0..7
    BY <1>1
  <2>2. ((b \div 8 + 1) - 1) * 8 + (b % 8) = b
    OBVIOUS
  <2>3. Byte(data, q + b \div 8) = Bitmap(bits, n)[b \div 8 + 1]
    <3>1. Byte(data, q + (b \div 8 + 1) - 1) = Bitmap(bits, n)[b \div 8 + 1]
      BY <2>1, BitmapIs DEF At
    <3>2. q + (b \div 8 + 1) - 1 = q + b \div 8
      OBVIOUS
    <3> QED
      BY <3>1, <3>2
  <2>4. (Bitmap(bits, n)[b \div 8 + 1] \div 2^(b % 8)) % 2 = 1
          <=> ((b \div 8 + 1) - 1) * 8 + (b % 8) \in bits
    BY <2>1, BitmapByte
  <2> QED
    BY <2>2, <2>3, <2>4, Zenon
<1>3. \A b \in bits : b \in 0..(8 * m - 1)
  BY <1>1
<1> HIDE DEF m
<1>4. BitsKorr(data, q, m) = bits
  BY <1>2, <1>3 DEF BitsKorr
<1> QED
  BY <1>4 DEF m

-----------------------------------------------------------------------------
(* Fields *)

\* The number that the metadata of a column are.
Metadata(c) ==
    IF Len(c.meta) = 0 THEN 0
    ELSE IF Len(c.meta) = 1 THEN c.meta[1] ELSE c.meta[1] + 256 * c.meta[2]

\* What an application is to see of a value.
Shown(c, v) == [type |-> c.shown, is_null |-> FALSE, bytes |-> v.bytes]

\* A value that fits the column it is in.
Fits(c, v) ==
    v.bytes \in Seq(Bytes) /\ ~v.is_null /\ FitsColumn(c, Len(v.bytes))

\* What calc_field_size() and tune() are to find of the value v at the place q.
FieldFound(c, v, data, q) ==
    /\ calc_field_size(c.type, data, q, Metadata(c)) = Len(StoredField(c, v))
    /\ TuneValue(c.type, data, q, Metadata(c), Len(StoredField(c, v))) = Shown(c, v)
    /\ Len(StoredField(c, v)) >= 1

LEMMA MetadataBytes ==
    ASSUME NEW c, SupportedColumn(c)
    PROVE  /\ c.meta \in Seq(Bytes)
           /\ \A k \in 1..Len(c.meta) : c.meta[k] \in Bytes
           /\ Len(c.meta) \in 0..2
           /\ c.prefix \in 0..4
           /\ calc_metadata_size(c.type) = Len(c.meta)
<1>1. c.meta \in Seq(Bytes)
  BY DEF SupportedColumn, Bytes
<1>2. Len(c.meta) \in 0..2 /\ c.prefix \in 0..4
  BY SMT DEF SupportedColumn, Layout
<1>6. calc_metadata_size(c.type) = Len(c.meta)
  <2>1. CASE c.type \in DOMAIN PlainSize /\ Layout(c, 0, 0, c.type)
    BY <2>1 DEF Layout, calc_metadata_size, PlainSize
  <2>2. CASE /\ c.type \in {"TIMESTAMP2", "FLOAT", "DOUBLE", "DATETIME2", "BLOB"}
             /\ Len(c.meta) = 1
    BY <2>2 DEF calc_metadata_size
  <2>3. CASE /\ c.type \in {"BIT", "NEWDECIMAL", "STRING", "VARCHAR"}
             /\ Len(c.meta) = 2
    BY <2>3 DEF calc_metadata_size
  <2> QED
    BY <2>1, <2>2, <2>3 DEF SupportedColumn, Layout
<1>7. \A k \in 1..Len(c.meta) : c.meta[k] \in Bytes
  BY <1>1
<1> QED
  BY <1>1, <1>2, <1>6, <1>7

\* The length in front of a value, and the value behind it.
LEMMA FieldParts ==
    ASSUME NEW c, SupportedColumn(c), NEW v, Fits(c, v),
           NEW data \in Seq(Bytes), NEW q \in Nat, At(data, q, StoredField(c, v))
    PROVE  /\ StoredField(c, v) \in Seq(Bytes)
           /\ Len(v.bytes) \in Nat
           /\ Len(StoredField(c, v)) = c.prefix + Len(v.bytes)
           /\ Stretch(data, q + c.prefix, Len(v.bytes)) = v.bytes
           /\ c.prefix > 0 => UintKorr(data, q, c.prefix) = Len(v.bytes)
<1> DEFINE n == Len(v.bytes)
           s == LengthBytes(n, c.prefix)
<1>1. c.prefix \in 0..4 /\ n \in Nat /\ v.bytes \in Seq(Bytes)
  BY MetadataBytes DEF Fits
<1>2. s \in Seq(Bytes) /\ Len(s) = c.prefix
  BY <1>1, LengthBytesAre
<1>3. StoredField(c, v) = s \o v.bytes
  BY DEF StoredField, Fits
<1>4. /\ s \o v.bytes \in Seq(Bytes)
      /\ Len(s \o v.bytes) = c.prefix + n
  <2>0. s \in Seq(Bytes) /\ v.bytes \in Seq(Bytes)
    BY <1>1, <1>2
  <2> HIDE DEF s, n
  <2>1. Len(v.bytes) = n
    BY DEF n
  <2>2. s \o v.bytes \in Seq(Bytes) /\ Len(s \o v.bytes) = Len(s) + Len(v.bytes)
    BY <2>0
  <2> QED
    BY <1>2, <2>1, <2>2
<1>5. At(data, q, s) /\ At(data, q + c.prefix, v.bytes)
  <2>1. At(data, q, s) /\ At(data, q + Len(s), v.bytes)
    <3> HIDE DEF s
    <3> QED
      BY <1>1, <1>2, <1>3, AtSplit
  <2> QED
    BY <1>2, <2>1
<1>6. Stretch(data, q + c.prefix, n) = v.bytes
  <2>1. q + c.prefix \in Nat
    BY <1>1
  <2> QED
    BY <1>1, <1>5, <2>1, AtStretch
<1>7. c.prefix > 0 => UintKorr(data, q, c.prefix) = n
  <2> SUFFICES ASSUME c.prefix > 0 PROVE UintKorr(data, q, c.prefix) = n
    OBVIOUS
  <2>1. n < 256 ^ c.prefix
    BY DEF Fits, FitsColumn
  <2> HIDE DEF n
  <2> QED
    BY <1>1, <1>5, <2>1, NumberAt
<1> QED
  BY <1>1, <1>3, <1>4, <1>6, <1>7

LEMMA DecimalPositive ==
    ASSUME NEW a \in 1..65, NEW b \in 0..a
    PROVE  DecimalSize(a, b) \in Nat \ {0}
<1>1. \A k \in 0..9 : dig2bytes[k] = <<0, 1, 1, 2, 2, 3, 3, 4, 4, 4>>[k + 1]
  BY DEF dig2bytes, DIG_PER_DEC1
<1>2. \A k \in 0..8 : dig2bytes[k] \in Nat /\ (k > 0 => dig2bytes[k] >= 1)
  <2> TAKE k \in 0..8
  <2>1. k = 0 \/ k = 1 \/ k = 2 \/ k = 3 \/ k = 4 \/ k = 5 \/ k = 6 \/ k = 7 \/ k = 8
    OBVIOUS
  <2> QED
    BY <1>1, <2>1
<1>3. ASSUME NEW d \in Nat
      PROVE  /\ (d \div 9) * 4 + dig2bytes[d % 9] \in Nat
             /\ d > 0 => (d \div 9) * 4 + dig2bytes[d % 9] >= 1
  <2>1. d % 9 \in 0..8 /\ d \div 9 \in Nat /\ (d > 0 => d % 9 > 0 \/ d \div 9 > 0)
    BY SMT
  <2> QED
    BY <1>2, <2>1
<1>4. a - b \in Nat /\ b \in Nat /\ (a - b > 0 \/ b > 0)
  OBVIOUS
<1> QED
  BY <1>3, <1>4 DEF DecimalSize, DIG_PER_DEC1

LEMMA PlainFound ==
    ASSUME NEW c, SupportedColumn(c), NEW v, Fits(c, v),
           c.type \in DOMAIN PlainSize, Layout(c, 0, 0, c.type),
           NEW data \in Seq(Bytes), NEW q \in Nat, At(data, q, StoredField(c, v))
    PROVE  FieldFound(c, v, data, q)
<1>1. /\ Len(StoredField(c, v)) = Len(v.bytes)
      /\ Stretch(data, q, Len(v.bytes)) = v.bytes
      /\ Metadata(c) = 0
  BY FieldParts DEF Layout, Metadata
<1>2. Len(v.bytes) = PlainSize[c.type]
  BY DEF Fits, FitsColumn
<1>3. /\ c.type \in DOMAIN FixedSize
      /\ FixedSize[c.type] = PlainSize[c.type]
      /\ PlainSize[c.type] >= 1
      /\ c.type \notin {"STRING", "VARCHAR", "BLOB"}
  BY SMT DEF PlainSize, FixedSize
<1>4. calc_field_size(c.type, data, q, 0) = PlainSize[c.type]
  BY <1>3 DEF calc_field_size, FixedSize
<1>5. TuneValue(c.type, data, q, 0, Len(v.bytes)) = Shown(c, v)
  BY <1>1, <1>3 DEF TuneValue, Shows, Shown, Layout
<1> QED
  BY <1>1, <1>2, <1>3, <1>4, <1>5 DEF FieldFound

\* Types whose size is their metadata, or made of it.
LEMMA SizedFound ==
    ASSUME NEW c, SupportedColumn(c), NEW v, Fits(c, v),
           NEW data \in Seq(Bytes), NEW q \in Nat, At(data, q, StoredField(c, v)),
           \/ c.type = "TIMESTAMP2" /\ Layout(c, 1, 0, c.type) /\ c.meta[1] = 0
           \/ c.type = "FLOAT" /\ Layout(c, 1, 0, c.type) /\ c.meta[1] = 4
           \/ c.type = "DOUBLE" /\ Layout(c, 1, 0, c.type) /\ c.meta[1] = 8
           \/ c.type = "DATETIME2" /\ Layout(c, 1, 0, c.type) /\ c.meta[1] <= 6
    PROVE  FieldFound(c, v, data, q)
<1>1. /\ Len(StoredField(c, v)) = Len(v.bytes)
      /\ Stretch(data, q, Len(v.bytes)) = v.bytes
      /\ Len(v.bytes) \in Nat
  <2>1. c.prefix = 0
    BY DEF Layout
  <2> QED
    BY <2>1, FieldParts
<1> DEFINE m == c.meta[1]
           n == Len(v.bytes)
<1>2. Metadata(c) = m /\ m \in 0..255 /\ c.shown = c.type
  BY MetadataBytes DEF Layout, Metadata, Bytes
<1>3. TuneValue(c.type, data, q, Metadata(c), n) = Shown(c, v)
  BY <1>1, <1>2 DEF TuneValue, Shows, Shown
<1>4. \/ c.type = "TIMESTAMP2" /\ n = 4
      \/ c.type = "FLOAT" /\ m = 4 /\ n = m
      \/ c.type = "DOUBLE" /\ m = 8 /\ n = m
      \/ c.type = "DATETIME2" /\ m <= 6 /\ n = 5 + (m + 1) \div 2
  BY DEF Fits, FitsColumn
<1> HIDE DEF m, n
<1>5. n >= 1
  <2>1. \/ n = 4
        \/ m = 4 /\ n = m
        \/ m = 8 /\ n = m
        \/ m <= 6 /\ n = 5 + (m + 1) \div 2
    BY <1>4
  <2>2. m \in 0..255
    BY <1>2
  <2> QED
    BY <2>1, <2>2
<1>6. CASE c.type = "TIMESTAMP2" /\ n = 4
  <2>1. calc_field_size(c.type, data, q, Metadata(c)) = n
    BY <1>6 DEF calc_field_size, FixedSize
  <2> QED
    BY <1>1, <1>3, <1>5, <2>1 DEF FieldFound, n
<1>7. CASE c.type \in {"FLOAT", "DOUBLE"} /\ n = m
  <2>1. calc_field_size(c.type, data, q, Metadata(c)) = n
    BY <1>2, <1>7 DEF calc_field_size, FixedSize
  <2> QED
    BY <1>1, <1>3, <1>5, <2>1 DEF FieldFound, n
<1>8. CASE c.type = "DATETIME2" /\ m <= 6 /\ n = 5 + (m + 1) \div 2
  <2>1. Datetime2Size(m) = n
    BY <1>2, <1>8 DEF Datetime2Size
  <2>2. calc_field_size(c.type, data, q, Metadata(c)) = n
    BY <1>2, <1>8, <2>1 DEF calc_field_size, FixedSize
  <2> QED
    BY <1>1, <1>3, <1>5, <2>2 DEF FieldFound, n
<1> QED
  BY <1>4, <1>6, <1>7, <1>8

LEMMA TwoBytes ==
    ASSUME NEW a \in Bytes, NEW b \in Bytes
    PROVE  /\ a + 256 * b \in Nat
           /\ (a + 256 * b) % 256 = a
           /\ (a + 256 * b) \div 256 = b
           /\ a + 256 * b > 255 <=> b > 0
BY DEF Bytes

LEMMA BitFound ==
    ASSUME NEW c, SupportedColumn(c), NEW v, Fits(c, v),
           NEW data \in Seq(Bytes), NEW q \in Nat, At(data, q, StoredField(c, v)),
           \/ c.type = "BIT" /\ Layout(c, 2, 0, c.type)
                /\ c.meta[1] <= 7 /\ c.meta[1] + c.meta[2] > 0
           \/ c.type = "NEWDECIMAL" /\ Layout(c, 2, 0, c.type)
                /\ c.meta[1] \in 1..65 /\ c.meta[2] <= c.meta[1]
    PROVE  FieldFound(c, v, data, q)
<1>1. /\ Len(StoredField(c, v)) = Len(v.bytes)
      /\ Stretch(data, q, Len(v.bytes)) = v.bytes
      /\ Len(v.bytes) \in Nat
  <2>1. c.prefix = 0
    BY DEF Layout
  <2> QED
    BY <2>1, FieldParts
<1> DEFINE a == c.meta[1]
           b == c.meta[2]
<1>2. /\ Metadata(c) = a + 256 * b /\ a \in Bytes /\ b \in Bytes
      /\ c.shown = c.type
  BY MetadataBytes DEF Layout, Metadata
<1>3. Metadata(c) % 256 = a /\ Metadata(c) \div 256 = b
  <2> HIDE DEF a, b
  <2> QED
    BY <1>2, TwoBytes
<1>4. TuneValue(c.type, data, q, Metadata(c), Len(v.bytes)) = Shown(c, v)
  BY <1>1, <1>2 DEF TuneValue, Shows, Shown
<1>5. CASE c.type = "BIT"
  <2>1. a \in 0..7 /\ b \in 0..255 /\ a + b > 0
    <3>1. a <= 7 /\ a + b > 0
      BY <1>5
    <3> HIDE DEF a, b
    <3> QED
      BY <1>2, <3>1 DEF Bytes
  <2>2. Len(v.bytes) = (8 * b + a + 7) \div 8
    BY <1>5 DEF Fits, FitsColumn
  <2>3. BitSize(Metadata(c)) = (b % 256) + (IF a > 0 THEN 1 ELSE 0)
    BY <1>3 DEF BitSize
  <2> HIDE DEF a, b
  <2>4. (8 * b + a + 7) \div 8 = b + (IF a > 0 THEN 1 ELSE 0) /\ b % 256 = b
    BY <2>1
  <2>5. BitSize(Metadata(c)) = Len(v.bytes) /\ Len(v.bytes) >= 1
    BY <2>1, <2>2, <2>3, <2>4
  <2>6. calc_field_size(c.type, data, q, Metadata(c)) = Len(v.bytes)
    BY <1>5, <2>5 DEF calc_field_size, FixedSize
  <2> QED
    BY <1>1, <1>4, <2>5, <2>6 DEF FieldFound
<1>6. CASE c.type = "NEWDECIMAL"
  <2>1. a \in 1..65 /\ b \in 0..a
    <3>1. a \in 1..65 /\ b <= a
      BY <1>6
    <3> HIDE DEF a, b
    <3> QED
      BY <1>2, <3>1 DEF Bytes
  <2>2. Len(v.bytes) = DecimalSize(a, b)
    BY <1>6 DEF Fits, FitsColumn
  <2> HIDE DEF a, b
  <2>3. DecimalSize(a, b) \in Nat \ {0}
    BY <2>1, DecimalPositive
  <2>4. Len(v.bytes) >= 1
    BY <2>2, <2>3
  <2>5. calc_field_size(c.type, data, q, Metadata(c)) = Len(v.bytes)
    BY <1>3, <1>6, <2>2 DEF calc_field_size, FixedSize
  <2> QED
    BY <1>1, <1>4, <2>4, <2>5 DEF FieldFound
<1> QED
  BY <1>5, <1>6

LEMMA CharIs ==
    ASSUME NEW m \in Nat, m % 256 = 254, m \div 256 \in 0..255,
           NEW data, NEW q \in Nat, NEW n \in Nat
    PROVE  /\ StringSize(data, q, m) = Byte(data, q) + 1
           /\ TuneString(data, q, m, n) = Shows("STRING", data, q + 1, n - 1)
<1> DEFINE b == m \div 256
           a == m % 256
<1>1. a = 254 /\ b < 256 /\ b <= 255 /\ ~(b > 255)
  OBVIOUS
<1>2. a \notin {SET_CODE, ENUM_CODE} /\ a = STRING_CODE
      /\ a \notin {JSON_CODE, ENUM_CODE, SET_CODE}
  BY <1>1 DEF SET_CODE, ENUM_CODE, STRING_CODE, JSON_CODE
<1>3. /\ StringSize(data, q, m) =
           CASE a \in {SET_CODE, ENUM_CODE} -> b
             [] a \notin {SET_CODE, ENUM_CODE} /\ b < 256 -> Byte(data, q) + 1
             [] OTHER -> UintKorr(data, q, 2)
      /\ TuneString(data, q, m, n) =
           CASE a = STRING_CODE /\ b > 255 -> Shows("STRING", data, q + 2, n - 2)
             [] a = STRING_CODE /\ b <= 255 -> Shows("STRING", data, q + 1, n - 1)
             [] a \in {JSON_CODE, ENUM_CODE, SET_CODE} ->
                  Shows(TypeOfCode[a], data, q, b)
             [] OTHER -> [Shows("NULL", data, q, n) EXCEPT !.is_null = TRUE]
  BY DEF StringSize, TuneString
<1> HIDE DEF a, b
<1> QED
  BY <1>1, <1>2, <1>3

\* A STRING column is one of three things.
LEMMA StringFound ==
    ASSUME NEW c, SupportedColumn(c), NEW v, Fits(c, v),
           NEW data \in Seq(Bytes), NEW q \in Nat, At(data, q, StoredField(c, v)),
           c.type = "STRING",
           \/ Layout(c, 2, 0, "ENUM") /\ c.meta[1] = ENUM_CODE /\ c.meta[2] > 0
           \/ Layout(c, 2, 0, "SET") /\ c.meta[1] = SET_CODE /\ c.meta[2] > 0
           \/ Layout(c, 2, 1, "STRING") /\ c.meta[1] = STRING_CODE
    PROVE  FieldFound(c, v, data, q)
<1> DEFINE a == c.meta[1]
           b == c.meta[2]
<1>1. Metadata(c) = a + 256 * b /\ a \in Bytes /\ b \in Bytes
  BY MetadataBytes DEF Layout, Metadata
<1>2. Metadata(c) % 256 = a /\ Metadata(c) \div 256 = b
  <2> HIDE DEF a, b
  <2> QED
    BY <1>1, TwoBytes
<1>3. b \in 0..255
  BY <1>1 DEF Bytes
<1>4. calc_field_size(c.type, data, q, Metadata(c)) = StringSize(data, q, Metadata(c))
  BY DEF calc_field_size, FixedSize
<1>5. \A n : TuneValue(c.type, data, q, Metadata(c), n)
               = TuneString(data, q, Metadata(c), n)
  BY DEF TuneValue
<1>6. CASE \/ Layout(c, 2, 0, "ENUM") /\ a = ENUM_CODE /\ b > 0
           \/ Layout(c, 2, 0, "SET") /\ a = SET_CODE /\ b > 0
  <2>1. c.prefix = 0 /\ c.shown \in {"ENUM", "SET"}
    BY <1>6 DEF Layout
  <2>2. /\ Len(StoredField(c, v)) = Len(v.bytes)
        /\ Stretch(data, q, Len(v.bytes)) = v.bytes
        /\ Len(v.bytes) = b
    BY <2>1, FieldParts DEF Fits, FitsColumn
  <2>3. StringSize(data, q, Metadata(c)) = b
    BY <1>2, <1>6 DEF StringSize
  <2>4. TypeOfCode[a] = c.shown
    BY <1>6 DEF Layout, TypeOfCode, ENUM_CODE, SET_CODE, STRING_CODE, JSON_CODE
  <2>5. TuneString(data, q, Metadata(c), b) = Shows(TypeOfCode[a], data, q, b)
    BY <1>2, <1>6
       DEF TuneString, ENUM_CODE, SET_CODE, STRING_CODE, JSON_CODE
  <2>6. b >= 1
    <3>1. b > 0
      BY <1>6
    <3> HIDE DEF b
    <3> QED
      BY <1>3, <3>1
  <2> HIDE DEF a, b
  <2>7. TuneValue(c.type, data, q, Metadata(c), b) = Shows(c.shown, data, q, b)
    BY <1>5, <2>4, <2>5
  <2>8. Shows(c.shown, data, q, b) = Shown(c, v)
    BY <2>2 DEF Shows, Shown
  <2>9. calc_field_size(c.type, data, q, Metadata(c)) = b
    BY <1>4, <2>3
  <2> QED
    BY <2>2, <2>6, <2>7, <2>8, <2>9 DEF FieldFound
<1>7. CASE Layout(c, 2, 1, "STRING") /\ a = STRING_CODE
  <2>1. c.prefix = 1 /\ c.shown = "STRING"
    BY <1>7 DEF Layout
  <2>2. /\ Len(StoredField(c, v)) = 1 + Len(v.bytes)
        /\ Stretch(data, q + 1, Len(v.bytes)) = v.bytes
        /\ UintKorr(data, q, 1) = Len(v.bytes)
        /\ Len(v.bytes) \in Nat
    BY <2>1, FieldParts
  <2>3. Byte(data, q) = Len(v.bytes)
    <3>1. UintKorr(data, q, 1) = Byte(data, q)
      BY UintKorrIs
    <3> QED
      BY <2>2, <3>1
  <2>0. a = 254
    BY <1>7 DEF STRING_CODE
  <2> HIDE DEF a, b
  <2>m. Metadata(c) \in Nat
    BY <1>1, <1>3, <2>0
  <2>4. /\ StringSize(data, q, Metadata(c)) = Byte(data, q) + 1
        /\ TuneString(data, q, Metadata(c), 1 + Len(v.bytes))
             = Shows("STRING", data, q + 1, Len(v.bytes))
    <3> DEFINE m == Metadata(c)
               n == 1 + Len(v.bytes)
    <3>0. n \in Nat
      BY <2>2
    <3>1. m \in Nat /\ m % 256 = 254 /\ m \div 256 \in 0..255
      BY <1>2, <1>3, <2>0, <2>m
    <3> HIDE DEF m, n
    <3>2. q \in Nat
      OBVIOUS
    <3>4. /\ StringSize(data, q, m) = Byte(data, q) + 1
          /\ TuneString(data, q, m, n) = Shows("STRING", data, q + 1, n - 1)
      BY <3>0, <3>1, <3>2, CharIs, SMTT(30)
    <3>3. n - 1 = Len(v.bytes)
      BY <2>2 DEF n
    <3> QED
      BY <3>4, <3>3 DEF m, n
  <2>5. 1 + Len(v.bytes) >= 1 /\ Len(v.bytes) + 1 = 1 + Len(v.bytes)
    BY <2>2
  <2>6. Shows("STRING", data, q + 1, Len(v.bytes)) = Shown(c, v)
    BY <2>1, <2>2 DEF Shows, Shown
  <2> QED
    BY <1>4, <1>5, <2>2, <2>3, <2>4, <2>5, <2>6 DEF FieldFound
<1> QED
  BY <1>6, <1>7

\* A VARCHAR and a BLOB have their length in front.
LEMMA CountedFound ==
    ASSUME NEW c, SupportedColumn(c), NEW v, Fits(c, v),
           NEW data \in Seq(Bytes), NEW q \in Nat, At(data, q, StoredField(c, v)),
           \/ c.type = "VARCHAR"
                /\ Layout(c, 2, IF c.meta[2] > 0 THEN 2 ELSE 1, c.type)
           \/ c.type = "BLOB" /\ Layout(c, 1, c.meta[1], c.type) /\ c.meta[1] \in 1..4
    PROVE  FieldFound(c, v, data, q)
<1>1. c.prefix > 0 /\ c.prefix \in Nat /\ c.shown = c.type
  BY DEF Layout
<1>2. /\ Len(StoredField(c, v)) = c.prefix + Len(v.bytes)
      /\ Stretch(data, q + c.prefix, Len(v.bytes)) = v.bytes
      /\ UintKorr(data, q, c.prefix) = Len(v.bytes)
      /\ Len(v.bytes) \in Nat
  BY <1>1, FieldParts
<1>3. c.prefix + Len(v.bytes) >= 1
  BY <1>1, <1>2
<1>4. CASE c.type = "VARCHAR"
  <2> DEFINE a == c.meta[1]
             b == c.meta[2]
  <2>1. Metadata(c) = a + 256 * b /\ a \in Bytes /\ b \in Bytes
    BY <1>4, MetadataBytes DEF Layout, Metadata
  <2>2. c.prefix = IF b > 0 THEN 2 ELSE 1
    BY <1>4 DEF Layout
  <2>3. /\ Metadata(c) > 255 <=> b > 0
        /\ Metadata(c) \in Nat
    <3> HIDE DEF a, b
    <3>1. a \in Nat /\ a <= 255 /\ b \in Nat
      BY <2>1 DEF Bytes
    <3> DEFINE m == a + 256 * b
    <3>2. m \in Nat
      BY <3>1
    <3>3. b > 0 => m > 255
      BY <3>1
    <3>4. ~(b > 0) => ~(m > 255)
      BY <3>1
    <3>5. Metadata(c) = m
      BY <2>1
    <3> HIDE DEF m
    <3> QED
      BY <3>2, <3>3, <3>4, <3>5
  <2>4. c.prefix = IF Metadata(c) > 255 THEN 2 ELSE 1
    BY <2>2, <2>3
  <2>5. c.prefix = IF Metadata(c) < 256 THEN 1 ELSE 2
    BY <2>3, <2>4
  <2>6. calc_field_size(c.type, data, q, Metadata(c)) = c.prefix + Len(v.bytes)
    BY <1>2, <1>4, <2>4 DEF calc_field_size, FixedSize, VarcharSize
  <2>7. TuneValue(c.type, data, q, Metadata(c), c.prefix + Len(v.bytes)) = Shown(c, v)
    BY <1>1, <1>2, <1>4, <2>5 DEF TuneValue, Shows, Shown
  <2> QED
    BY <1>2, <1>3, <2>6, <2>7 DEF FieldFound
<1>5. CASE c.type = "BLOB"
  <2>1. Metadata(c) = c.prefix /\ c.prefix \in 1..4
    BY <1>5 DEF Layout, Metadata
  <2>2. calc_field_size(c.type, data, q, Metadata(c)) = c.prefix + Len(v.bytes)
    BY <1>2, <1>5, <2>1 DEF calc_field_size, FixedSize, BlobSize
  <2>3. TuneValue(c.type, data, q, Metadata(c), c.prefix + Len(v.bytes)) = Shown(c, v)
    BY <1>1, <1>2, <1>5, <2>1 DEF TuneValue, Shows, Shown
  <2> QED
    BY <1>2, <1>3, <2>2, <2>3 DEF FieldFound
<1> QED
  BY <1>4, <1>5

\* calc_field_size() and tune() find each value of a supported column: all of
\* its bytes, and none of the next field.
THEOREM FieldsFound ==
    ASSUME NEW c, SupportedColumn(c), NEW v, Fits(c, v),
           NEW data \in Seq(Bytes), NEW q \in Nat, At(data, q, StoredField(c, v))
    PROVE  FieldFound(c, v, data, q)
<1> USE MetadataBytes
<1>1. CASE c.type \in DOMAIN PlainSize /\ Layout(c, 0, 0, c.type)
  BY <1>1, PlainFound
<1>2. CASE \/ c.type = "TIMESTAMP2" /\ Layout(c, 1, 0, c.type) /\ c.meta[1] = 0
           \/ c.type = "FLOAT" /\ Layout(c, 1, 0, c.type) /\ c.meta[1] = 4
           \/ c.type = "DOUBLE" /\ Layout(c, 1, 0, c.type) /\ c.meta[1] = 8
           \/ c.type = "DATETIME2" /\ Layout(c, 1, 0, c.type) /\ c.meta[1] <= 6
  BY <1>2, SizedFound
<1>3. CASE \/ c.type = "BIT" /\ Layout(c, 2, 0, c.type)
                /\ c.meta[1] <= 7 /\ c.meta[1] + c.meta[2] > 0
           \/ c.type = "NEWDECIMAL" /\ Layout(c, 2, 0, c.type)
                /\ c.meta[1] \in 1..65 /\ c.meta[2] <= c.meta[1]
  BY <1>3, BitFound
<1>4. CASE /\ c.type = "STRING"
           /\ \/ Layout(c, 2, 0, "ENUM") /\ c.meta[1] = ENUM_CODE /\ c.meta[2] > 0
              \/ Layout(c, 2, 0, "SET") /\ c.meta[1] = SET_CODE /\ c.meta[2] > 0
              \/ Layout(c, 2, 1, "STRING") /\ c.meta[1] = STRING_CODE
  BY <1>4, StringFound
<1>5. CASE \/ c.type = "VARCHAR"
                /\ Layout(c, 2, IF c.meta[2] > 0 THEN 2 ELSE 1, c.type)
           \/ c.type = "BLOB" /\ Layout(c, 1, c.meta[1], c.type) /\ c.meta[1] \in 1..4
  BY <1>5, CountedFound
<1> QED
  BY <1>1, <1>2, <1>3, <1>4, <1>5, Zenon DEF SupportedColumn

-----------------------------------------------------------------------------
(* Events *)

LEMMA Codes ==
    /\ EventCode.QUERY = 2 /\ EventCode.ROTATE = 4 /\ EventCode.XID = 16
    /\ EventCode.TABLE_MAP = 19
    /\ EventCode.WRITE = 23 /\ EventCode.UPDATE = 24 /\ EventCode.DELETE = 25
    /\ EventCode.WRITE_V2 = 30 /\ EventCode.UPDATE_V2 = 31
    /\ EventCode.DELETE_V2 = 32
BY DEF EventCode

\* What fits one byte: the codes, small literals and the sizes of a table.
LEMMA SmallBytes ==
    /\ 0 \in Bytes /\ 1 \in Bytes /\ 2 \in Bytes /\ 4 \in Bytes
    /\ 16 \in Bytes /\ 19 \in Bytes
BY DEF Bytes

LEMMA SizeIsByte ==
    ASSUME NEW n, n \in 0..250
    PROVE  n \in Bytes
BY DEF Bytes

LEMMA AtOne ==
    ASSUME NEW b, NEW data, NEW q \in Nat, At(data, q, <<b>>)
    PROVE  Byte(data, q) = b
<1>1. Len(<<b>>) = 1 /\ <<b>>[1] = b /\ q + 1 - 1 = q /\ 1 \in 1..1
  OBVIOUS
<1> QED
  BY <1>1 DEF At

LEMMA AtTwo ==
    ASSUME NEW a, NEW b, NEW data, NEW q \in Nat, At(data, q, <<a, b>>)
    PROVE  Byte(data, q) = a /\ Byte(data, q + 1) = b
<1>1. Len(<<a, b>>) = 2 /\ <<a, b>>[1] = a /\ <<a, b>>[2] = b
  OBVIOUS
<1>2. q + 1 - 1 = q /\ q + 2 - 1 = q + 1 /\ 1 \in 1..2 /\ 2 \in 1..2
  OBVIOUS
<1>3. /\ Byte(data, q + 1 - 1) = <<a, b>>[1]
      /\ Byte(data, q + 2 - 1) = <<a, b>>[2]
  BY <1>1, <1>2 DEF At
<1> QED
  BY <1>1, <1>2, <1>3

LEMMA ConcatIs ==
    ASSUME NEW T, NEW a \in Seq(T), NEW b \in Seq(T)
    PROVE  a \o b \in Seq(T) /\ Len(a \o b) = Len(a) + Len(b)
OBVIOUS

LEMMA ChecksumIs ==
    ASSUME NEW f, f.checksum \in BOOLEAN
    PROVE  /\ Checksum(f) \in Seq(Bytes)
           /\ Len(Checksum(f)) = ChecksumLen(f) /\ ChecksumLen(f) \in Nat
<1>1. CASE f.checksum
  <2>1. Checksum(f) = <<1, 2, 3, 4>> /\ ChecksumLen(f) = 4
    BY <1>1 DEF Checksum, ChecksumLen
  <2>2. 1 \in Bytes /\ 2 \in Bytes /\ 3 \in Bytes /\ 4 \in Bytes
    BY DEF Bytes
  <2>3. <<1, 2, 3, 4>> \in Seq(Bytes) /\ Len(<<1, 2, 3, 4>>) = 4
    BY <2>2
  <2> QED
    BY <2>1, <2>3
<1>2. CASE ~f.checksum
  <2>1. Checksum(f) = <<>> /\ ChecksumLen(f) = 0
    BY <1>2 DEF Checksum, ChecksumLen
  <2> QED
    BY <2>1
<1> QED
  BY <1>1, <1>2

\* The type, the position and the data of an event are where they are looked
\* for.
LEMMA EventParts ==
    ASSUME NEW code \in Bytes, NEW log_pos \in Nat, log_pos < 256^4,
           NEW data \in Seq(Bytes), NEW f, f.checksum \in BOOLEAN,
           NEW e, e = StoredEvent(code, log_pos, data, f)
    PROVE  /\ e \in Seq(Bytes)
           /\ Len(e) = 19 + Len(data) + ChecksumLen(f)
           /\ TypeCode(e) = code
           /\ LogPos(e) = log_pos
           /\ At(e, 20, data)
<1> DEFINE size == HeaderLen + Len(data) + ChecksumLen(f)
           A == TimeTypeServer(code)
           B == LengthBytes(size, 4)
           C == LengthBytes(log_pos, 4)
           D == Flags(log_pos)
           E == Checksum(f)
<1>1. e = A \o B \o C \o D \o data \o E
  BY DEF StoredEvent
<1>2. A \in Seq(Bytes) /\ Len(A) = 9 /\ A[5] = code
  BY DEF Bytes, TimeTypeServer
<1>3. B \in Seq(Bytes) /\ Len(B) = 4
  <2>1. size \in Nat
    BY DEF HeaderLen, ChecksumLen
  <2>2. 4 \in 0..4
    OBVIOUS
  <2> HIDE DEF size
  <2> QED
    BY <2>1, <2>2, LengthBytesAre
<1>4. C \in Seq(Bytes) /\ Len(C) = 4
  <2>1. log_pos \in Nat /\ 4 \in 0..4
    OBVIOUS
  <2> QED
    BY <2>1, LengthBytesAre
<1>5. D \in Seq(Bytes) /\ Len(D) = 2
  BY DEF Bytes, Flags
<1>6. E \in Seq(Bytes) /\ Len(E) = ChecksumLen(f)
  BY ChecksumIs
<1> HIDE DEF A, B, C, D, E
<1>7. /\ A \o B \in Seq(Bytes) /\ Len(A \o B) = 13
      /\ A \o B \o C \in Seq(Bytes) /\ Len(A \o B \o C) = 17
      /\ A \o B \o C \o D \in Seq(Bytes) /\ Len(A \o B \o C \o D) = 19
  <2>1. A \o B \in Seq(Bytes) /\ Len(A \o B) = Len(A) + Len(B)
    BY <1>2, <1>3, ConcatIs
  <2>2. /\ A \o B \o C \in Seq(Bytes)
        /\ Len(A \o B \o C) = Len(A \o B) + Len(C)
    BY <1>4, <2>1, ConcatIs
  <2>3. /\ A \o B \o C \o D \in Seq(Bytes)
        /\ Len(A \o B \o C \o D) = Len(A \o B \o C) + Len(D)
    BY <1>5, <2>2, ConcatIs
  <2> QED
    BY <1>2, <1>3, <1>4, <1>5, <2>1, <2>2, <2>3
<1> DEFINE H == A \o B \o C \o D
<1>8. H \in Seq(Bytes) /\ Len(H) = 19
  BY <1>7
<1>9. e = H \o data \o E
  BY <1>1
<1>10. H \o data \in Seq(Bytes) /\ Len(H \o data) = 19 + Len(data)
  <2> HIDE DEF H
  <2>1. H \o data \in Seq(Bytes) /\ Len(H \o data) = Len(H) + Len(data)
    BY <1>8, ConcatIs
  <2> QED
    BY <1>8, <2>1
<1>11. e \in Seq(Bytes) /\ Len(e) = 19 + Len(data) + ChecksumLen(f)
  <2> DEFINE G == H \o data
  <2> HIDE DEF H, G
  <2>1. G \in Seq(Bytes) /\ Len(G) = 19 + Len(data) /\ e = G \o E
    BY <1>9, <1>10 DEF G
  <2>2. e \in Seq(Bytes) /\ Len(e) = Len(G) + Len(E)
    BY <2>1, <1>6, ConcatIs
  <2> QED
    BY <2>1, <2>2, <1>6
<1>12. At(e, 1, H \o data)
  <2>1. At(e, 1, e) /\ 1 \in Nat
    BY <1>11, AtItself
  <2> HIDE DEF H
  <2> QED
    BY <1>6, <1>9, <1>10, <2>1, AtSplit
<1>13. At(e, 1, H) /\ At(e, 20, data)
  <2> HIDE DEF H
  <2>1. At(e, 1, H) /\ At(e, 1 + Len(H), data)
    BY <1>8, <1>12, AtSplit
  <2>2. 1 + Len(H) = 20
    BY <1>8
  <2> QED
    BY <2>1, <2>2
<1>14. At(e, 1, A \o B \o C)
  BY <1>5, <1>7, <1>13, AtSplit
<1>15. At(e, 1, A \o B) /\ At(e, 14, C)
  <2>1. At(e, 1, A \o B) /\ At(e, 1 + Len(A \o B), C)
    BY <1>4, <1>7, <1>14, AtSplit
  <2>2. 1 + Len(A \o B) = 14
    BY <1>7
  <2> QED
    BY <2>1, <2>2
<1>16. At(e, 1, A)
  BY <1>2, <1>3, <1>15, AtSplit
<1>17. TypeCode(e) = code
  <2>1. 5 \in 1..Len(A) /\ 1 + 5 - 1 = 5
    BY <1>2
  <2>2. Byte(e, 1 + 5 - 1) = A[5]
    BY <1>16, <2>1 DEF At
  <2> QED
    BY <1>2, <2>1, <2>2 DEF TypeCode
<1>18. LogPos(e) = log_pos
  <2>1. 4 \in 0..4 /\ 14 \in Nat
    OBVIOUS
  <2>2. UintKorr(e, 14, 4) = log_pos
    BY <1>11, <1>15, <2>1, NumberAt DEF C
  <2> QED
    BY <2>2 DEF LogPos
<1> QED
  BY <1>11, <1>13, <1>17, <1>18

\* A name is read up to the zero behind it.
LEMMA NameAt ==
    ASSUME NEW data \in Seq(Bytes), NEW q \in Nat \ {0}, NEW name \in Seq(Bytes),
           \A k \in 1..Len(name) : name[k] # 0, At(data, q, name), Byte(data, q + Len(name)) = 0,
           q + Len(name) <= Len(data) + 1
    PROVE  CString(data, q) = name
<1> DEFINE n == Len(name)
           Ends(e) == Byte(data, e) = 0 /\ \A k \in q..(e - 1) : Byte(data, k) # 0
<1>1. n \in Nat /\ \A k \in 1..n : name[k] # 0
  OBVIOUS
<1>2. \A k \in q..(q + n - 1) : Byte(data, k) # 0
  <2> TAKE k \in q..(q + n - 1)
  <2>1. k - q + 1 \in 1..n /\ q + (k - q + 1) - 1 = k
    BY <1>1
  <2>2. Byte(data, q + (k - q + 1) - 1) = name[k - q + 1]
    BY <2>1 DEF At
  <2> QED
    BY <1>1, <2>1, <2>2
<1>3. Ends(q + n) /\ q + n \in q..(Len(data) + 1)
  BY <1>1, <1>2
<1>4. \A e \in q..(Len(data) + 1) : Ends(e) => e = q + n
  <2> TAKE e \in q..(Len(data) + 1)
  <2> SUFFICES ASSUME Ends(e), e # q + n PROVE FALSE
    OBVIOUS
  <2>1. e < q + n => e \in q..(q + n - 1)
    BY <1>1
  <2>2. e > q + n => q + n \in q..(e - 1)
    BY <1>1
  <2> HIDE DEF n
  <2>3. e < q + n \/ e > q + n
    BY <1>1
  <2> QED
    BY <1>2, <1>3, <2>1, <2>2, <2>3
<1>5. (CHOOSE e \in q..(Len(data) + 1) : Ends(e)) = q + n
  <2> HIDE DEF n, Ends
  <2> QED
    BY <1>3, <1>4
<1>6. CString(data, q) = Stretch(data, q, (q + n) - q)
  BY <1>5 DEF CString
<1>7. (q + n) - q = n
  BY <1>1
<1>8. Stretch(data, q, n) = name
  BY AtStretch
<1> QED
  BY <1>6, <1>7, <1>8

\* Six stretches of bytes, one behind the other.
Six(a, b, c, d, g, h) == a \o b \o c \o d \o g \o h

SixAt(data, q, a, b, c, d, g, h) ==
    /\ At(data, q, a)
    /\ At(data, q + Len(a), b)
    /\ At(data, q + Len(a) + Len(b), c)
    /\ At(data, q + Len(a) + Len(b) + Len(c), d)
    /\ At(data, q + Len(a) + Len(b) + Len(c) + Len(d), g)
    /\ At(data, q + Len(a) + Len(b) + Len(c) + Len(d) + Len(g), h)

LEMMA SixParts ==
    ASSUME NEW a, NEW b, NEW c, NEW d, NEW g, NEW h, NEW data, NEW q,
           a \in Seq(Bytes), b \in Seq(Bytes), c \in Seq(Bytes),
           d \in Seq(Bytes), g \in Seq(Bytes), h \in Seq(Bytes),
           q \in Nat, At(data, q, Six(a, b, c, d, g, h))
    PROVE  SixAt(data, q, a, b, c, d, g, h)
<1> DEFINE ab == a \o b
           abc == ab \o c
           abcd == abc \o d
           abcdg == abcd \o g
<1>1. ab \in Seq(Bytes) /\ Len(ab) = Len(a) + Len(b)
  BY ConcatIs
<1>2. abc \in Seq(Bytes) /\ Len(abc) = Len(ab) + Len(c)
  <2> HIDE DEF ab
  <2> QED
    BY <1>1, ConcatIs
<1>3. abcd \in Seq(Bytes) /\ Len(abcd) = Len(abc) + Len(d)
  <2> HIDE DEF abc
  <2> QED
    BY <1>2, ConcatIs
<1>4. abcdg \in Seq(Bytes) /\ Len(abcdg) = Len(abcd) + Len(g)
  <2> HIDE DEF abcd
  <2> QED
    BY <1>3, ConcatIs
<1>5. At(data, q, abcdg) /\ At(data, q + Len(abcdg), h)
  <2>1. At(data, q, abcdg \o h)
    BY DEF Six
  <2> HIDE DEF abcdg
  <2> QED
    BY <1>4, <2>1, AtSplit
<1>6. At(data, q, abcd) /\ At(data, q + Len(abcd), g)
  <2>1. At(data, q, abcd \o g)
    BY <1>5
  <2> HIDE DEF abcd
  <2> QED
    BY <1>3, <2>1, AtSplit
<1>7. At(data, q, abc) /\ At(data, q + Len(abc), d)
  <2>1. At(data, q, abc \o d)
    BY <1>6
  <2> HIDE DEF abc
  <2> QED
    BY <1>2, <2>1, AtSplit
<1>8. At(data, q, ab) /\ At(data, q + Len(ab), c)
  <2>1. At(data, q, ab \o c)
    BY <1>7
  <2> HIDE DEF ab
  <2> QED
    BY <1>1, <2>1, AtSplit
<1>9. At(data, q, a) /\ At(data, q + Len(a), b)
  BY <1>8, AtSplit
<1>10. /\ Len(a) \in Nat /\ Len(b) \in Nat /\ Len(c) \in Nat /\ Len(d) \in Nat
       /\ Len(g) \in Nat
  OBVIOUS
<1> HIDE DEF ab, abc, abcd, abcdg
<1>11. /\ q + Len(ab) = q + Len(a) + Len(b)
       /\ q + Len(abc) = q + Len(a) + Len(b) + Len(c)
       /\ q + Len(abcd) = q + Len(a) + Len(b) + Len(c) + Len(d)
       /\ q + Len(abcdg) = q + Len(a) + Len(b) + Len(c) + Len(d) + Len(g)
  BY <1>1, <1>2, <1>3, <1>4, <1>10
<1> QED
  BY <1>5, <1>6, <1>7, <1>8, <1>9, <1>11 DEF SixAt

LEMMA SixLength ==
    ASSUME NEW a, NEW b, NEW c, NEW d, NEW g, NEW h,
           a \in Seq(Bytes), b \in Seq(Bytes), c \in Seq(Bytes),
           d \in Seq(Bytes), g \in Seq(Bytes), h \in Seq(Bytes)
    PROVE  /\ Six(a, b, c, d, g, h) \in Seq(Bytes)
           /\ Len(Six(a, b, c, d, g, h)) =
                Len(a) + Len(b) + Len(c) + Len(d) + Len(g) + Len(h)
<1> DEFINE ab == a \o b
           abc == ab \o c
           abcd == abc \o d
           abcdg == abcd \o g
<1>1. ab \in Seq(Bytes) /\ Len(ab) = Len(a) + Len(b)
  BY ConcatIs
<1>2. abc \in Seq(Bytes) /\ Len(abc) = Len(ab) + Len(c)
  <2> HIDE DEF ab
  <2> QED
    BY <1>1, ConcatIs
<1>3. abcd \in Seq(Bytes) /\ Len(abcd) = Len(abc) + Len(d)
  <2> HIDE DEF abc
  <2> QED
    BY <1>2, ConcatIs
<1>4. abcdg \in Seq(Bytes) /\ Len(abcdg) = Len(abcd) + Len(g)
  <2> HIDE DEF abcd
  <2> QED
    BY <1>3, ConcatIs
<1>5. abcdg \o h \in Seq(Bytes) /\ Len(abcdg \o h) = Len(abcdg) + Len(h)
  <2> HIDE DEF abcdg
  <2> QED
    BY <1>4, ConcatIs
<1>6. Len(abcdg \o h) = Len(a) + Len(b) + Len(c) + Len(d) + Len(g) + Len(h)
  <2> DEFINE whole == abcdg \o h
  <2>1. Len(whole) = Len(abcdg) + Len(h)
    BY <1>5
  <2>2. /\ Len(a) \in Nat /\ Len(b) \in Nat /\ Len(c) \in Nat /\ Len(d) \in Nat
        /\ Len(g) \in Nat /\ Len(h) \in Nat
    OBVIOUS
  <2> HIDE DEF whole, ab, abc, abcd, abcdg
  <2>3. Len(whole) = Len(a) + Len(b) + Len(c) + Len(d) + Len(g) + Len(h)
    BY <1>1, <1>2, <1>3, <1>4, <2>1, <2>2
  <2> QED
    BY <2>3 DEF whole
<1> QED
  BY <1>5, <1>6 DEF Six

LEMMA ColumnCodes ==
    ASSUME NEW t \in DOMAIN ColumnCode
    PROVE  ColumnCode[t] \in Bytes /\ ColumnType(ColumnCode[t]) = t
<1>1. ColumnCode[t] \in Bytes
  BY DEF ColumnCode, Bytes
<1>2. \A u \in DOMAIN ColumnCode : ColumnCode[u] = ColumnCode[t] => u = t
  BY DEF ColumnCode
<1> QED
  BY <1>1, <1>2 DEF ColumnType

-----------------------------------------------------------------------------
(* The events of a transaction *)

LEMMA ZerosAre ==
    ASSUME NEW n \in Nat
    PROVE  Zeros(n) \in Seq(Bytes) /\ Len(Zeros(n)) = n
<1>1. Zeros(n) \in [1..n -> Bytes]
  BY DEF Zeros, Bytes
<1> QED
  BY <1>1

\* CRotateLogEvent::tune() finds the name and the position.
LEMMA RotateParts ==
    ASSUME NEW name, NEW pos, NEW f, NEW e, name \in Seq(Bytes), pos \in Nat,
           pos < 256^4, f.checksum \in BOOLEAN, e = StoredRotate(name, pos, f)
    PROVE  /\ e \in Seq(Bytes) /\ TypeCode(e) = 4
           /\ TuneRotate(e, f) = [name |-> name, pos |-> pos]
<1> DEFINE A == LengthBytes(pos, 4)
           Z == Zeros(4)
           AZ == A \o Z
           data == AZ \o name
<1>1. A \in Seq(Bytes) /\ Len(A) = 4
  <2>1. 4 \in 0..4
    OBVIOUS
  <2> QED
    BY <2>1, LengthBytesAre
<1>2. Z \in Seq(Bytes) /\ Len(Z) = 4
  BY ZerosAre
<1>3. e = StoredEvent(4, 0, data, f)
  BY Codes DEF StoredRotate
<1> HIDE DEF A, Z
<1>4. AZ \in Seq(Bytes) /\ Len(AZ) = 8
  <2>1. AZ \in Seq(Bytes) /\ Len(AZ) = Len(A) + Len(Z)
    BY <1>1, <1>2, ConcatIs
  <2> HIDE DEF AZ
  <2> QED
    BY <1>1, <1>2, <2>1
<1> HIDE DEF AZ
<1>5. data \in Seq(Bytes) /\ Len(data) = 8 + Len(name)
  BY <1>4, ConcatIs
<1> HIDE DEF data
<1>6. /\ e \in Seq(Bytes) /\ TypeCode(e) = 4
      /\ Len(e) = 19 + Len(data) + ChecksumLen(f)
      /\ At(e, 20, data)
  <2>1. 4 \in Bytes /\ 0 \in Nat
    BY DEF Bytes
  <2>2. 0 < 256^4
    BY Powers
  <2> QED
    BY <1>3, <1>5, <2>1, <2>2, EventParts
<1>7. At(e, 20, AZ) /\ At(e, 28, name)
  <2>1. At(e, 20, AZ \o name)
    BY <1>6 DEF data
  <2>2. At(e, 20, AZ) /\ At(e, 20 + Len(AZ), name)
    BY <1>4, <2>1, AtSplit
  <2>3. 20 + Len(AZ) = 28
    BY <1>4
  <2> QED
    BY <2>2, <2>3
<1>8. UintKorr(e, 20, 4) = pos
  <2>1. At(e, 20, A)
    BY <1>1, <1>2, <1>7, AtSplit DEF AZ
  <2>2. 20 \in Nat /\ 4 \in 0..4
    OBVIOUS
  <2> QED
    BY <1>6, <2>1, <2>2, NumberAt DEF A
<1>9. Stretch(e, 28, Len(name)) = name
  <2>1. 28 \in Nat
    OBVIOUS
  <2> QED
    BY <1>7, <2>1, AtStretch
<1>10. Len(e) - HeaderLen - 8 - ChecksumLen(f) = Len(name)
  <2>1. ChecksumLen(f) \in Nat /\ Len(name) \in Nat
    BY ChecksumIs
  <2> QED
    BY <1>5, <1>6, <2>1 DEF HeaderLen
<1>11. HeaderLen + 9 = 28 /\ HeaderLen + 1 = 20
  BY DEF HeaderLen
<1> QED
  BY <1>6, <1>8, <1>9, <1>10, <1>11 DEF TuneRotate

LEMMA XidParts ==
    ASSUME NEW log_pos, NEW f, NEW e, log_pos \in Nat, log_pos < 256^4,
           f.checksum \in BOOLEAN, e = StoredXid(log_pos, f)
    PROVE  e \in Seq(Bytes) /\ TypeCode(e) = 16 /\ LogPos(e) = log_pos
<1>1. e = StoredEvent(16, log_pos, Zeros(8), f)
  BY Codes DEF StoredXid
<1>2. Zeros(8) \in Seq(Bytes) /\ 16 \in Bytes
  BY ZerosAre DEF Bytes
<1> QED
  BY <1>1, <1>2, EventParts

\* CQueryLogEvent::tune() accepts up to 638 bytes of status variables.
LEMMA QueryParts ==
    ASSUME NEW log_pos, NEW status, NEW db, NEW query, NEW f, NEW e,
           log_pos \in Nat, log_pos < 256^4, status \in Nat, status < 256^2,
           db \in Seq(Bytes),
           Len(db) \in Bytes, query \in Seq(Bytes), f.checksum \in BOOLEAN,
           e = StoredQuery(log_pos, status, db, query, f)
    PROVE  /\ e \in Seq(Bytes) /\ TypeCode(e) = 2 /\ LogPos(e) = log_pos
           /\ QueryAccepted(e, f) <=> status <= MaxStatus
<1> DEFINE a == Zeros(8) \o <<Len(db), 0, 0>>
           b == LengthBytes(status, 2)
           c == Zeros(status)
           z == <<0>>
           data == Six(a, b, c, db, z, query)
<1>1. e = StoredEvent(2, log_pos, data, f)
  BY Codes DEF StoredQuery, Six
<1>2. a \in Seq(Bytes) /\ Len(a) = 11
  <2> DEFINE y == Zeros(8)
             x == <<Len(db), 0, 0>>
  <2>1. y \in Seq(Bytes) /\ Len(y) = 8
    BY ZerosAre
  <2>2. x \in Seq(Bytes) /\ Len(x) = 3
    <3>1. 0 \in Bytes
      BY DEF Bytes
    <3> QED
      BY <3>1
  <2>3. a = y \o x
    OBVIOUS
  <2> HIDE DEF x, y, a
  <2>4. y \o x \in Seq(Bytes) /\ Len(y \o x) = Len(y) + Len(x)
    BY <2>1, <2>2, ConcatIs
  <2> QED
    BY <2>1, <2>2, <2>3, <2>4
<1>3. b \in Seq(Bytes) /\ Len(b) = 2
  <2>1. 2 \in 0..4
    OBVIOUS
  <2> QED
    BY <2>1, LengthBytesAre
<1>4. c \in Seq(Bytes) /\ Len(c) = status
  BY ZerosAre
<1>5. z \in Seq(Bytes)
  <2>1. 0 \in Bytes
    BY DEF Bytes
  <2> QED
    BY <2>1
<1> HIDE DEF a, b, c, z
<1>6. /\ data \in Seq(Bytes)
      /\ Len(data) = Len(a) + Len(b) + Len(c) + Len(db) + Len(z) + Len(query)
  <2>1. /\ a \in Seq(Bytes) /\ b \in Seq(Bytes) /\ c \in Seq(Bytes)
        /\ db \in Seq(Bytes) /\ z \in Seq(Bytes) /\ query \in Seq(Bytes)
    BY <1>2, <1>3, <1>4, <1>5
  <2>2. Six(a, b, c, db, z, query) \in Seq(Bytes)
    BY <2>1, SixLength
  <2>3. Len(Six(a, b, c, db, z, query))
          = Len(a) + Len(b) + Len(c) + Len(db) + Len(z) + Len(query)
    BY <2>1, SixLength
  <2> QED
    BY <2>2, <2>3
<1> HIDE DEF data
<1>7. 2 \in Bytes
  BY DEF Bytes
<1>8. /\ e \in Seq(Bytes) /\ TypeCode(e) = 2 /\ LogPos(e) = log_pos
      /\ Len(e) = 19 + Len(data) + ChecksumLen(f) /\ At(e, 20, data)
  <2>1. data \in Seq(Bytes)
    BY <1>6
  <2>2. /\ e \in Seq(Bytes) /\ TypeCode(e) = 2 /\ LogPos(e) = log_pos
    BY <1>1, <1>7, <2>1, EventParts
  <2>3. Len(e) = 19 + Len(data) + ChecksumLen(f)
    BY <1>1, <1>7, <2>1, EventParts
  <2>4. At(e, 20, data)
    BY <1>1, <1>7, <2>1, EventParts
  <2> QED
    BY <2>2, <2>3, <2>4
<1>9. UintKorr(e, 31, 2) = status
  <2>1. SixAt(e, 20, a, b, c, db, z, query)
    <3>1. At(e, 20, Six(a, b, c, db, z, query)) /\ 20 \in Nat
      BY <1>8 DEF data
    <3> QED
      BY <1>2, <1>3, <1>4, <1>5, <3>1, SixParts
  <2>2. At(e, 20 + Len(a), b)
    BY <2>1 DEF SixAt
  <2>3. 20 + Len(a) = 31 /\ 31 \in Nat /\ 2 \in 0..4
    BY <1>2
  <2>4. At(e, 31, b)
    BY <2>2, <2>3
  <2> QED
    BY <1>8, <2>3, <2>4, NumberAt DEF b
<1>10. status <= Len(e) - 19 - 13 - ChecksumLen(f)
  <2>1. ChecksumLen(f) \in Nat
    BY ChecksumIs
  <2>2. Len(db) \in Nat /\ Len(query) \in Nat /\ Len(z) = 1
    BY DEF z
  <2> DEFINE l == Len(data)
  <2>3. l = 13 + status + Len(db) + 1 + Len(query)
    BY <1>2, <1>3, <1>4, <1>6, <2>2
  <2>4. Len(e) = 19 + l + ChecksumLen(f)
    BY <1>8
  <2> HIDE DEF l
  <2> QED
    BY <2>1, <2>2, <2>3, <2>4
<1>11. HeaderLen = 19 /\ HeaderLen + 12 = 31 /\ PostHeaderLen.QUERY = 13
  BY DEF HeaderLen, PostHeaderLen
<1>12. QueryAccepted(e, f) <=> status <= MaxStatus
  BY <1>9, <1>10, <1>11 DEF QueryAccepted
<1> QED
  BY <1>8, <1>12

\* Columns of a table: supported, their number and the bytes of their metadata
\* such that they fit one byte.
Metas(columns) == [k \in DOMAIN columns |-> columns[k].meta]

GoodColumns(columns) ==
    /\ Len(columns) \in 1..250 /\ DOMAIN columns = 1..Len(columns)
    /\ \A k \in 1..Len(columns) : SupportedColumn(columns[k])
    /\ Len(FlattenSeq(Metas(columns))) <= 250

\* What CTable::tune() is to know of the table.
MapOf(id, columns) ==
    [id |-> id, types |-> [k \in 1..Len(columns) |-> columns[k].type],
     metadata |-> FlattenSeq(Metas(columns))]

LEMMA SupportedType ==
    ASSUME NEW c, SupportedColumn(c)
    PROVE  c.type \in DOMAIN ColumnCode
BY DEF SupportedColumn, PlainSize, ColumnCode

LEMMA ColumnFacts ==
    ASSUME NEW columns, GoodColumns(columns)
    PROVE  /\ Len(columns) \in Nat
           /\ Metas(columns) \in [1..Len(columns) -> Seq(Bytes)]
           /\ FlattenSeq(Metas(columns)) \in Seq(Bytes)
           /\ Len(FlattenSeq(Metas(columns))) \in 0..250
<1>1. Len(columns) \in Nat /\ Len(columns) \in 1..Len(columns)
  <2> DEFINE n == Len(columns)
  <2>1. n \in 1..250
    BY DEF GoodColumns
  <2> HIDE DEF n
  <2>2. n \in Nat /\ n \in 1..n
    BY <2>1
  <2> QED
    BY <2>2 DEF n
<1>2. Metas(columns) \in [1..Len(columns) -> Seq(Bytes)]
  <2>1. \A k \in 1..Len(columns) : columns[k].meta \in Seq(Bytes)
    BY MetadataBytes DEF GoodColumns
  <2> QED
    BY <2>1 DEF Metas, GoodColumns
<1>3. FlattenSeq(Metas(columns)) \in Seq(Bytes)
  <2> DEFINE N == Len(columns)
             ms == Metas(columns)
  <2> HIDE DEF N, ms
  <2>1. N \in Nat /\ N \in 1..N /\ ms \in [1..N -> Seq(Bytes)]
    BY <1>1, <1>2 DEF N, ms
  <2>2. FlattenSeq(ms) \in Seq(Bytes)
    BY <2>1, BeforeBegins
  <2> QED
    BY <2>2 DEF ms
<1>4. Len(FlattenSeq(Metas(columns))) <= 250
  BY DEF GoodColumns
<1>5. Len(FlattenSeq(Metas(columns))) \in 0..250
  <2> DEFINE M == FlattenSeq(Metas(columns))
  <2> HIDE DEF M
  <2>1. M \in Seq(Bytes) /\ Len(M) <= 250
    BY <1>3, <1>4 DEF M
  <2> DEFINE l == Len(M)
  <2>2. l \in Nat /\ l <= 250
    BY <2>1
  <2> HIDE DEF l
  <2>3. l \in 0..250
    BY <2>2
  <2> QED
    BY <2>3 DEF l, M
<1> QED
  BY <1>1, <1>2, <1>3, <1>5

LEMMA OneByteAt ==
    ASSUME NEW data, NEW q, NEW n, q \in Nat, n \in Nat, n <= 250, Byte(data, q) = n
    PROVE  NetFieldLength(data, q).n = n /\ NetFieldLength(data, q).next = q + 1
BY DEF NetFieldLength

LEMMA TuneTableMapIs ==
    ASSUME NEW data, NEW q, NEW r, NEW n, NEW a, NEW m, NEW b,
           MapNames + Byte(data, MapNames) + 2 = q, q + Byte(data, q) + 2 = r,
           NetFieldLength(data, r).n = n, NetFieldLength(data, r).next = a,
           NetFieldLength(data, a + n).n = m, NetFieldLength(data, a + n).next = b
    PROVE  TuneTableMap(data) =
             [id |-> TableId(data),
              types |-> [k \in 1..n |-> ColumnType(Byte(data, a + k - 1))],
              metadata |-> Stretch(data, b, m)]
BY DEF TuneTableMap

\* CTableMapLogEvent::tune() finds the names, the types and the metadata.
LEMMA TableMapParts ==
    ASSUME NEW log_pos, NEW id, NEW db, NEW name, NEW columns, NEW f, NEW e,
           log_pos \in Nat, log_pos < 256^4, id \in Seq(Bytes), 6 = Len(id),
           db \in Seq(Bytes), Len(db) \in Bytes,
           \A k \in 1..Len(db) : db[k] # 0, name \in Seq(Bytes),
           Len(name) \in Bytes, \A k \in 1..Len(name) : name[k] # 0,
           GoodColumns(columns), f.checksum \in BOOLEAN,
           e = StoredTableMap(log_pos, id, db, name, columns, f)
    PROVE  /\ e \in Seq(Bytes) /\ TypeCode(e) = 19
           /\ DatabaseName(e) = db /\ TableName(e) = name
           /\ TuneTableMap(e) = MapOf(id, columns)
<1> DEFINE n == Len(columns)
           M == FlattenSeq(Metas(columns))
           types == [k \in DOMAIN columns |-> ColumnCode[columns[k].type]]
           flags == <<1, 0>>
           ldb == <<Len(db)>>
           lname == <<0, Len(name)>>
           ln == <<0, n>>
           lm == <<Len(M)>>
           bits == Bitmap({}, n)
           front == Six(id, flags, ldb, db, lname, name)
           data == Six(front, ln, types, lm, M, bits)
<1>1. e = StoredEvent(19, log_pos, data, f)
  BY Codes DEF StoredTableMap, Metas, Six
<1>2. /\ n \in 1..250 /\ M \in Seq(Bytes) /\ Len(M) \in 0..250
  BY ColumnFacts DEF GoodColumns
<1>3. /\ flags \in Seq(Bytes) /\ ldb \in Seq(Bytes) /\ lname \in Seq(Bytes)
      /\ ln \in Seq(Bytes) /\ lm \in Seq(Bytes)
  <2> HIDE DEF n, M
  <2> DEFINE l == Len(M)
             d == Len(db)
             t == Len(name)
  <2>1. d \in Bytes /\ t \in Bytes
    OBVIOUS
  <2>2. n \in 1..250 /\ l \in 0..250
    BY <1>2
  <2> HIDE DEF l, d, t
  <2>3. 0 \in Bytes /\ 1 \in Bytes /\ n \in Bytes /\ l \in Bytes
    <3>1. n \in 0..250
      BY <2>2
    <3> QED
      BY <2>2, <3>1, SmallBytes, SizeIsByte, Zenon
  <2>4. /\ <<1, 0>> \in Seq(Bytes) /\ <<d>> \in Seq(Bytes)
        /\ <<0, t>> \in Seq(Bytes) /\ <<0, n>> \in Seq(Bytes)
        /\ <<l>> \in Seq(Bytes)
    BY <2>1, <2>3
  <2> QED
    BY <2>4 DEF l, d, t
<1>4. types \in Seq(Bytes) /\ Len(types) = n
  <2>1. \A k \in 1..n : ColumnCode[columns[k].type] \in Bytes
    BY SupportedType, ColumnCodes DEF GoodColumns
  <2>2. types \in [1..n -> Bytes]
    BY <2>1 DEF GoodColumns
  <2>3. n \in 1..250
    BY <1>2
  <2> HIDE DEF types, n
  <2>4. n \in Nat
    BY <2>3
  <2> QED
    BY <2>2, <2>4
<1>5. bits \in Seq(Bytes)
  BY <1>2, BitmapIs
<1> DEFINE d == Len(db)
           t == Len(name)
<1>6. d \in Nat /\ t \in Nat /\ Len(db) = d /\ Len(name) = t
  OBVIOUS
<1>7. /\ Len(flags) = 2 /\ Len(ldb) = 1 /\ Len(lname) = 2
      /\ Len(ln) = 2 /\ Len(lm) = 1 /\ Len(id) = 6
  OBVIOUS
<1> HIDE DEF n, M, types, flags, ldb, lname, ln, lm, bits, d, t
<1>8. types \in Seq(Bytes) /\ n \in Nat
  BY <1>2, <1>4
<1>9. front \in Seq(Bytes) /\ Len(front) = 11 + d + t
  <2>1. /\ front \in Seq(Bytes)
        /\ Len(front) = Len(id) + Len(flags) + Len(ldb) + Len(db)
                          + Len(lname) + Len(name)
    <3>1. /\ id \in Seq(Bytes) /\ flags \in Seq(Bytes) /\ ldb \in Seq(Bytes)
          /\ db \in Seq(Bytes) /\ lname \in Seq(Bytes) /\ name \in Seq(Bytes)
      BY <1>3
    <3> QED
      BY <3>1, SixLength, SMTT(30)
  <2> HIDE DEF front
  <2> QED
    BY <1>6, <1>7, <2>1
<1>10. front \in Seq(Bytes)
  BY <1>9
<1>11. data \in Seq(Bytes)
  <2>1. M \in Seq(Bytes)
    BY <1>2
  <2> HIDE DEF front
  <2> QED
    BY <2>1, <1>3, <1>8, <1>5, <1>10, SixLength
<1>12. /\ e \in Seq(Bytes) /\ TypeCode(e) = 19
       /\ Len(e) = 19 + Len(data) + ChecksumLen(f)
       /\ At(e, 20, data)
  <2>1. 19 \in Bytes
    BY SmallBytes
  <2> HIDE DEF data
  <2> QED
    BY <1>1, <1>11, <2>1, EventParts
<1> DEFINE s == 31 + d + t
<1>13. s \in Nat
  BY <1>6
<1>14. /\ At(e, 20, front) /\ At(e, s, ln) /\ At(e, s + 2, types)
       /\ At(e, s + 2 + n, lm) /\ At(e, s + 3 + n, M)
  <2> DEFINE q == 20
  <2>1. q \in Nat /\ M \in Seq(Bytes) /\ At(e, q, data)
    BY <1>2, <1>12
  <2> HIDE DEF front, s, q
  <2>2. SixAt(e, q, front, ln, types, lm, M, bits)
    BY <1>3, <1>5, <1>8, <1>10, <2>1, SixParts
  <2>3. /\ q + Len(front) = s
        /\ q + Len(front) + Len(ln) = s + 2
        /\ q + Len(front) + Len(ln) + Len(types) = s + 2 + n
        /\ q + Len(front) + Len(ln) + Len(types) + Len(lm) = s + 3 + n
    BY <1>4, <1>6, <1>7, <1>8, <1>9 DEF s, q
  <2> QED
    BY <2>2, <2>3 DEF q, SixAt
<1>15. /\ At(e, 20, id) /\ At(e, 28, ldb) /\ At(e, 29, db)
       /\ At(e, 29 + d, lname) /\ At(e, 31 + d, name)
  <2> DEFINE q == 20
  <2>1. q \in Nat /\ At(e, q, front)
    BY <1>14
  <2> HIDE DEF q
  <2>2. SixAt(e, q, id, flags, ldb, db, lname, name)
    BY <1>3, <2>1, SixParts
  <2>3. /\ q + Len(id) + Len(flags) = 28
        /\ q + Len(id) + Len(flags) + Len(ldb) = 29
        /\ q + Len(id) + Len(flags) + Len(ldb) + Len(db) = 29 + d
        /\ q + Len(id) + Len(flags) + Len(ldb) + Len(db) + Len(lname) = 31 + d
    BY <1>6, <1>7 DEF q
  <2> QED
    BY <2>2, <2>3 DEF q, SixAt
<1> HIDE DEF s
<1>16. /\ 28 \in Nat /\ 29 + d \in Nat /\ s + 2 + n \in Nat
  BY <1>6, <1>8, <1>13
<1>17. Byte(e, 28) = d
  <2>1. Byte(e, 28) = Len(db)
    BY <1>15, <1>16, AtOne DEF ldb
  <2> QED
    BY <1>6, <2>1
<1>18. Byte(e, 29 + d) = 0 /\ Byte(e, 29 + d + 1) = t
  <2>1. Byte(e, 29 + d) = 0 /\ Byte(e, 29 + d + 1) = Len(name)
    BY <1>15, <1>16, AtTwo DEF lname
  <2> QED
    BY <1>6, <2>1
<1>19. Byte(e, s) = 0 /\ Byte(e, s + 1) = n
  BY <1>13, <1>14, AtTwo DEF ln
<1>20. Byte(e, s + 2 + n) = Len(M)
  BY <1>14, <1>16, AtOne DEF lm
<1>21. 31 + d + t <= Len(e) + 1 /\ 29 + d <= Len(e) + 1
  <2>1. M \in Seq(Bytes)
    BY <1>2
  <2>2. Len(data) = Len(front) + Len(ln) + Len(types) + Len(lm) + Len(M) + Len(bits)
    <3> HIDE DEF front
    <3> QED
      BY <1>3, <1>5, <1>8, <1>10, <2>1, SixLength
  <2> DEFINE m == Len(M)
             b == Len(bits)
             c == ChecksumLen(f)
  <2>3. m \in Nat /\ b \in Nat /\ c \in Nat /\ Len(M) = m /\ Len(bits) = b
    BY <1>5, <2>1, ChecksumIs
  <2> HIDE DEF front, data, m, b, c
  <2>4. Len(data) = 11 + d + t + 2 + n + 1 + m + b
    BY <1>4, <1>7, <1>9, <2>2, <2>3
  <2>5. Len(e) = 19 + Len(data) + c
    BY <1>12 DEF c
  <2>6. Len(e) = 19 + (11 + d + t + 2 + n + 1 + m + b) + c
    BY <2>4, <2>5
  <2> QED
    BY <1>6, <1>8, <2>3, <2>6
<1>22. DatabaseName(e) = db
  <2> DEFINE q == 29
  <2>1. /\ q \in Nat \ {0} /\ At(e, q, db) /\ Byte(e, q + Len(db)) = 0
        /\ q + Len(db) <= Len(e) + 1 /\ MapNames + 1 = q
    BY <1>6, <1>15, <1>18, <1>21 DEF MapNames, HeaderLen, PostHeaderLen
  <2> HIDE DEF q
  <2>2. CString(e, q) = db
    BY <1>12, <2>1, NameAt
  <2> QED
    BY <2>1, <2>2 DEF DatabaseName
<1>23. TableName(e) = name
  <2> DEFINE q == 31 + d
  <2>1. q \in Nat \ {0} /\ At(e, q, name) /\ q + t <= Len(e) + 1
    BY <1>6, <1>15, <1>21
  <2>2. Byte(e, q + t) = 0
    BY <1>19 DEF s
  <2>3. MapNames + Byte(e, MapNames) + 3 = q
    <3>1. MapNames = 28
      BY DEF MapNames, HeaderLen, PostHeaderLen
    <3>2. 28 + d + 3 = 31 + d
      BY <1>6
    <3> QED
      BY <1>17, <3>1, <3>2
  <2> HIDE DEF q
  <2>4. q + Len(name) <= Len(e) + 1 /\ Byte(e, q + Len(name)) = 0
    BY <1>6, <2>1, <2>2
  <2>5. CString(e, q) = name
    BY <1>12, <2>1, <2>4, NameAt
  <2> QED
    BY <2>3, <2>5 DEF TableName
<1>24. TableId(e) = id
  <2> DEFINE q == 20
  <2>1. q \in Nat /\ At(e, q, id) /\ HeaderLen + 1 = q
    BY <1>15 DEF HeaderLen
  <2> HIDE DEF q
  <2>2. Stretch(e, q, Len(id)) = id
    <3>1. q \in Nat /\ id \in Seq(Bytes) /\ At(e, q, id)
      BY <2>1
    <3> QED
      BY <3>1, AtStretch
  <2> QED
    BY <1>7, <2>1, <2>2 DEF TableId
<1>25. NetFieldLength(e, s + 1).n = n /\ NetFieldLength(e, s + 1).next = s + 2
  <2> DEFINE q == s + 1
  <2>1. q \in Nat /\ n \in Nat /\ n <= 250 /\ Byte(e, q) = n /\ q + 1 = s + 2
    <3>1. n \in Nat /\ n <= 250
      BY <1>2
    <3>2. q \in Nat /\ q + 1 = s + 2
      BY <1>13
    <3> QED
      BY <1>19, <3>1, <3>2
  <2> HIDE DEF q
  <2>2. NetFieldLength(e, q).n = n /\ NetFieldLength(e, q).next = q + 1
    BY <2>1, OneByteAt
  <2> QED
    BY <2>1, <2>2 DEF q
<1>26. /\ NetFieldLength(e, s + 2 + n).n = Len(M)
       /\ NetFieldLength(e, s + 2 + n).next = s + 3 + n
  <2> DEFINE q == s + 2 + n
             m == Len(M)
  <2>1. q \in Nat /\ Byte(e, q) = m
    BY <1>16, <1>20
  <2>3. q + 1 = s + 3 + n
    BY <1>8, <1>13
  <2>4. m \in 0..250
    BY <1>2
  <2> HIDE DEF q, m
  <2>5. m \in Nat /\ m <= 250
    BY <2>4
  <2>2. NetFieldLength(e, q).n = m /\ NetFieldLength(e, q).next = q + 1
    BY <2>1, <2>5, OneByteAt
  <2> QED
    BY <2>2, <2>3 DEF q, m
<1>27. [k \in 1..n |-> ColumnType(Byte(e, s + 2 + k - 1))]
         = [k \in 1..n |-> columns[k].type]
  <2> SUFFICES ASSUME NEW k \in 1..n
               PROVE  ColumnType(Byte(e, s + 2 + k - 1)) = columns[k].type
    OBVIOUS
  <2>1. Byte(e, s + 2 + k - 1) = types[k]
    BY <1>4, <1>14 DEF At
  <2>2. types[k] = ColumnCode[columns[k].type]
    BY DEF types, GoodColumns, n
  <2>3. SupportedColumn(columns[k])
    BY DEF GoodColumns, n
  <2>4. columns[k].type \in DOMAIN ColumnCode
    BY <2>3, SupportedType
  <2> QED
    BY <2>1, <2>2, <2>4, ColumnCodes
<1>28. Stretch(e, s + 3 + n, Len(M)) = M
  <2> DEFINE q == s + 3 + n
  <2>1. q \in Nat /\ At(e, q, M)
    BY <1>8, <1>13, <1>14
  <2>2. M \in Seq(Bytes)
    BY <1>2
  <2> HIDE DEF q
  <2>3. Stretch(e, q, Len(M)) = M
    BY <2>1, <2>2, AtStretch
  <2> QED
    BY <2>3 DEF q
<1>29. TuneTableMap(e) = MapOf(id, columns)
  <2>1. MapNames + Byte(e, MapNames) + 2 = 30 + d
    <3>1. MapNames = 28
      BY DEF MapNames, HeaderLen, PostHeaderLen
    <3>2. 28 + d + 2 = 30 + d
      BY <1>6
    <3> QED
      BY <1>17, <3>1, <3>2
  <2>2. 30 + d + Byte(e, 30 + d) + 2 = s + 1
    <3>1. 29 + d + 1 = 30 + d /\ 30 + d + t + 2 = s + 1
      BY <1>6 DEF s
    <3> QED
      BY <1>18, <3>1
  <2> DEFINE a == s + 2
             b == s + 3 + n
             m == Len(M)
             u == s + 1
             v == 30 + d
  <2>3. NetFieldLength(e, u).n = n /\ NetFieldLength(e, u).next = a
    BY <1>25
  <2>4. NetFieldLength(e, a + n).n = m /\ NetFieldLength(e, a + n).next = b
    BY <1>26
  <2>5. MapNames + Byte(e, MapNames) + 2 = v /\ v + Byte(e, v) + 2 = u
    BY <2>1, <2>2
  <2> HIDE DEF a, b, m, u, v, M, n
  <2>6. TuneTableMap(e) =
          [id |-> TableId(e),
           types |-> [k \in 1..n |-> ColumnType(Byte(e, a + k - 1))],
           metadata |-> Stretch(e, b, m)]
    BY <2>3, <2>4, <2>5, TuneTableMapIs
  <2>7. [k \in 1..n |-> ColumnType(Byte(e, a + k - 1))]
          = [k \in 1..n |-> columns[k].type]
    BY <1>27 DEF a
  <2>8. Stretch(e, b, m) = M
    BY <1>28 DEF b, m
  <2> QED
    BY <2>6, <2>7, <2>8, <1>24 DEF MapOf, n, M
<1> QED
  BY <1>12, <1>22, <1>23, <1>29

=============================================================================
