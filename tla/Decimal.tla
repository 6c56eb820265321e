------------------------------ MODULE Decimal ------------------------------
(***************************************************************************)
(* The DECIMAL values of an event: _init_decimal() of                      *)
(* src/src/mysqlslave/value.cpp, which as_double() and as_string() call.   *)
(*                                                                         *)
(* The digits are stored in groups of nine, in four bytes with the highest *)
(* first; the digits left over stand in front of the integer part and at   *)
(* the end of the fraction, in fewer bytes.  All bytes of a negative       *)
(* number are complemented, and the first bit is inverted, so that the     *)
(* bytes compare like the numbers.                                         *)
(***************************************************************************)
EXTENDS FieldSize, SequencesExt

\* The digits of each group.
IntgGroups(precision, scale) ==
    LET intg == precision - scale
        intg0x == intg % DIG_PER_DEC1
    IN  (IF intg0x > 0 THEN <<intg0x>> ELSE <<>>)
          \o [k \in 1..(intg \div DIG_PER_DEC1) |-> DIG_PER_DEC1]

FracGroups(scale) ==
    LET frac0x == scale % DIG_PER_DEC1
    IN  [k \in 1..(scale \div DIG_PER_DEC1) |-> DIG_PER_DEC1]
          \o (IF frac0x > 0 THEN <<frac0x>> ELSE <<>>)

SumOf(s) ==
    LET sum[k \in 0..Len(s)] == IF k = 0 THEN 0 ELSE sum[k - 1] + s[k]
    IN  sum[Len(s)]

\* The place of the first byte of group k.
GroupAt(groups, k) == 1 + SumOf([j \in 1..(k - 1) |-> dig2bytes[groups[j]]])

\* The zeros in front are left out.
Significant(s) ==
    LET zeros == {k \in DOMAIN s : \A j \in 1..k : s[j] = 0}
    IN  SubSeq(s, Cardinality(zeros) + 1, Len(s))

-----------------------------------------------------------------------------
(* Reading *)

\* mi_sint1korr .. mi_sint4korr: signed, the highest byte first.
SintKorr(bytes) ==
    LET n == Len(bytes)
        high == IF bytes[1] >= 128 THEN bytes[1] - 256 ELSE bytes[1]
    IN  SumOf([k \in 1..n |->
            (IF k = 1 THEN high ELSE bytes[k]) * 256^(n - k)])

\* The first bit of the number is inverted, wherever its first byte is used.
FirstBitInverted(storage) == [storage EXCEPT ![1] = (@ + 128) % 256]

\* Mutation: the mask is forgotten where the whole groups are read.
Word_Unmasked(storage, groups, k) ==
    LET at == GroupAt(groups, k)
        x == SintKorr(SubSeq(FirstBitInverted(storage), at,
                             at + dig2bytes[groups[k]] - 1))
    IN  IF storage[1] < 128 /\ groups[k] < DIG_PER_DEC1 THEN -x - 1 ELSE x

\* x ^ mask, where mask is 0 or -1.
Word(storage, groups, k) ==
    LET at == GroupAt(groups, k)
        x == SintKorr(SubSeq(FirstBitInverted(storage), at,
                             at + dig2bytes[groups[k]] - 1))
    IN  IF storage[1] < 128 THEN -x - 1 ELSE x

\* What is returned with E_DEC_ERROR.
DecimalError == [error |-> TRUE]

\* The test of the digits in front of the integer part is wider than it need
\* be; the product is that of int32_t.
WordInRange(word, digits, first) ==
    0 <= word /\ word < 10^(IF first THEN digits + 1 ELSE digits)

\* No DECIMAL has more than 65 digits, 512 words are enough.
_init_decimal(storage, precision, scale) ==
    LET intgs == IntgGroups(precision, scale)
        groups == intgs \o FracGroups(scale)
        words == [k \in DOMAIN groups |-> Word(storage, groups, k)]
        whole == Significant(SubSeq(words, 1, Len(intgs)))
        dropped == Len(intgs) - Len(whole)
        fraction == [k \in 1..(Len(groups) - Len(intgs)) |->
                        words[Len(intgs) + k]
                          * 10^(DIG_PER_DEC1 - groups[Len(intgs) + k])]
    IN  IF \A k \in DOMAIN groups :
             WordInRange(words[k], groups[k],
                         k = 1 /\ intgs # <<>> /\ groups[1] < DIG_PER_DEC1)
        THEN [error |-> FALSE, sign |-> Byte(storage, 1) < 128,
              intg |-> SumOf(SubSeq(intgs, dropped + 1, Len(intgs))),
              frac |-> scale, buf |-> whole \o fraction]
        ELSE DecimalError

-----------------------------------------------------------------------------
(* The client library and the master (external) *)

DigitsOf(word, n) == [k \in 1..n |-> (word \div 10^(n - k)) % 10]

\* The number that decimal2double() and decimal2string() find: buf has the
\* digits of the integer part, aligned at its end, and those of the fraction,
\* aligned at its start.
ShownDecimal(d) ==
    LET words == (d.intg + DIG_PER_DEC1 - 1) \div DIG_PER_DEC1
        front == d.intg - (words - 1) * DIG_PER_DEC1
        Shown(k) == IF k = 1 /\ words > 0 THEN DigitsOf(d.buf[k], front)
                    ELSE DigitsOf(d.buf[k], DIG_PER_DEC1)
        digits == FlattenSeq([k \in DOMAIN d.buf |-> Shown(k)])
    IN  [negative |-> d.sign,
         whole |-> Significant(SubSeq(digits, 1, d.intg)),
         fraction |-> SubSeq(digits, d.intg + 1, d.intg + d.frac)]

\* decimal2string() with a precision and the filler '0': zeros in front, up to
\* precision - scale digits.  It does not look at the size of the buffer.
decimal2string(d, precision, scale) ==
    LET shown == ShownDecimal(d)
        zeros == [k \in 1..(precision - scale - Len(shown.whole)) |-> 0]
    IN  [shown EXCEPT !.whole = zeros \o @]

\* The bytes that decimal2string() writes: a sign, a point, the final NUL.
TextSize(text) ==
    Len(text.whole) + Len(text.fraction) + 1
      + (IF text.negative THEN 1 ELSE 0)
      + (IF text.fraction # <<>> THEN 1 ELSE 0)

decimal_string_size(d) ==
    (IF d.intg > 0 THEN d.intg ELSE 1) + d.frac
      + (IF d.frac > 0 THEN 1 ELSE 0) + 2

\* decimal2bin()
StoredDecimal(precision, scale, negative, digits) ==
    LET groups == IntgGroups(precision, scale) \o FracGroups(scale)
        Group(k) ==
            LET from == SumOf(SubSeq(groups, 1, k - 1))
                n == groups[k]
                word == SumOf([j \in 1..n |-> digits[from + j] * 10^(n - j)])
                b == dig2bytes[n]
            IN  [j \in 1..b |-> (word \div 256^(b - j)) % 256]
        bytes == FlattenSeq([k \in DOMAIN groups |-> Group(k)])
    IN  FirstBitInverted(IF negative THEN [k \in DOMAIN bytes |-> 255 - bytes[k]]
                         ELSE bytes)

=============================================================================
