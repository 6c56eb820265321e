----------------------------- MODULE FeedProofs -----------------------------
(***************************************************************************)
(* What ChangeFeed promises, proved of every feed, that is, of whatever    *)
(* implements it.                                                          *)
(***************************************************************************)
EXTENDS ChangeFeed, TLAPS

FeedTypeOK ==
    /\ changes \subseteq Position
    /\ acked \in Position
    /\ next \in Position

\* The acknowledged point is never ahead of the feed, and what lies before
\* either of the two is known.
FeedInv ==
    /\ FeedTypeOK
    /\ ~Before(next, acked)
    /\ \A c \in changes : Before(c, next) \/ Before(c, acked) => c \in seen \union told

-----------------------------------------------------------------------------
\* The order of positions is strict and total.
LEMMA BeforeOrder ==
    ASSUME NEW p \in Position, NEW q \in Position, NEW r \in Position
    PROVE  /\ ~Before(p, p)
           /\ Before(p, q) /\ Before(q, r) => Before(p, r)
           /\ Before(p, q) /\ ~Before(r, q) => Before(p, r)
           /\ ~Before(q, p) /\ Before(q, r) => Before(p, r)
           /\ ~Before(q, p) /\ ~Before(r, q) => ~Before(r, p)
BY DEF Before, Position

\* Whatever a feed goes past is S, or it was in front of it before.
LEMMA Goes ==
    ASSUME NEW S, FeedInv, UNCHANGED changes, GoesPast(S),
           ~Before(next', acked'), NEW c \in changes,
           Before(c, next') \/ Before(c, acked'),
           acked' \in Position
    PROVE  c \in seen \union told \/ c \in S \/ Before(c, acked')
<1> c \in Position /\ next \in Position /\ next' \in Position
  BY DEF FeedInv, FeedTypeOK, GoesPast
<1>1. CASE Before(c, next)
  BY <1>1 DEF FeedInv
<1>2. CASE ~Before(c, next) /\ Before(c, next')
  BY <1>2 DEF GoesPast, Between
<1>3. CASE ~Before(c, next')
  BY <1>3
<1> QED
  BY <1>1, <1>2, <1>3

LEMMA FeedInit == Init => FeedInv
BY DEF Init, FeedInv, FeedTypeOK, NoPos, Position, Before

\* A step that leaves the changes and the acknowledged point alone.
LEMMA AckedStays ==
    ASSUME NEW S, FeedInv, UNCHANGED <<changes, acked>>, GoesPast(S),
           S \subseteq seen' \union told',
           seen \subseteq seen', told \subseteq told'
    PROVE  FeedInv'
<1> acked \in Position /\ next \in Position /\ next' \in Position
  BY DEF FeedInv, FeedTypeOK, GoesPast
<1>1. FeedTypeOK'
  BY DEF FeedInv, FeedTypeOK
<1>2. ~Before(next', acked')
  <2>1. CASE ~Before(next', next)
    BY <2>1, BeforeOrder DEF FeedInv
  <2>2. CASE next' = acked'
    BY <2>2, BeforeOrder
  <2> QED
    BY <2>1, <2>2 DEF GoesPast
<1>3. ASSUME NEW c \in changes, Before(c, next') \/ Before(c, acked')
      PROVE  c \in seen' \union told'
  <2>1. c \in seen \union told \/ c \in S \/ Before(c, acked')
    BY <1>2, <1>3, Goes
  <2>2. Before(c, acked') => c \in seen \union told
    BY DEF FeedInv
  <2> QED
    BY <2>1, <2>2
<1> QED
  BY <1>1, <1>2, <1>3 DEF FeedInv

LEMMA FeedStep == FeedInv /\ [Next]_feedVars => FeedInv'
<1> SUFFICES ASSUME FeedInv, [Next]_feedVars PROVE FeedInv'
  OBVIOUS
<1>1. CASE Subscribe
  <2>1. FeedTypeOK' /\ next' = acked'
    BY <1>1 DEF Subscribe, FeedInv, FeedTypeOK
  <2>2. ~Before(next', acked')
    BY <2>1, BeforeOrder DEF FeedTypeOK
  <2>3. \A c \in changes' : ~Before(c, next') /\ ~Before(c, acked')
    BY <1>1 DEF Subscribe
  <2> QED
    BY <2>1, <2>2, <2>3 DEF FeedInv
<1>2. CASE Write
  <2>1. FeedTypeOK' /\ ~Before(next', acked')
    BY <1>2 DEF Write, FeedInv, FeedTypeOK
  <2>2. ASSUME NEW c \in changes', Before(c, next') \/ Before(c, acked')
        PROVE  c \in seen' \union told'
    <3>1. c \in Position /\ next \in Position /\ acked \in Position
      BY <1>2 DEF Write, FeedInv, FeedTypeOK
    <3>2. Before(c, next)
      BY <1>2, <2>2, <3>1, BeforeOrder DEF Write, FeedInv
    <3>3. c \in changes
      BY <1>2, <3>2 DEF Write
    <3> QED
      BY <1>2, <3>2, <3>3 DEF Write, FeedInv
  <2> QED
    BY <2>1, <2>2 DEF FeedInv
<1>3. CASE HandOver
  <2>1. PICK c \in changes : seen' = seen \union {c} /\ GoesPast({c})
                             /\ told' \in {told, told \union {c}}
    BY <1>3 DEF HandOver
  <2> QED
    BY <1>3, <2>1, AckedStays DEF HandOver
<1>4. CASE LeaveOut
  <2>1. PICK c \in changes : told' = told \union {c} /\ GoesPast({c})
    BY <1>4 DEF LeaveOut
  <2> QED
    BY <1>4, <2>1, AckedStays DEF LeaveOut
<1>5. CASE Warn
  BY <1>5, AckedStays DEF Warn
<1>6. CASE Acknowledge
  <2>1. /\ acked \in Position /\ next \in Position
        /\ next' \in Position /\ acked' \in Position
    BY <1>6 DEF Acknowledge, GoesPast, FeedInv, FeedTypeOK
  <2>2. FeedTypeOK'
    BY <1>6, <2>1 DEF Acknowledge, FeedInv, FeedTypeOK
  <2>3. ASSUME NEW c \in changes, Before(c, next') \/ Before(c, acked')
        PROVE  c \in seen' \union told'
    <3>1. Before(c, acked') => c \in seen \union told
      BY <1>6 DEF Acknowledge, FeedInv
    <3>2. c \in seen \union told \/ c \in {} \/ Before(c, acked')
      BY <1>6, <2>1, <2>3, Goes DEF Acknowledge
    <3> QED
      BY <1>6, <3>1, <3>2 DEF Acknowledge
  <2> QED
    BY <1>6, <2>2, <2>3 DEF Acknowledge, FeedInv
<1>7. CASE UNCHANGED feedVars
  BY <1>7 DEF feedVars, FeedInv, FeedTypeOK
<1> QED
  BY <1>1, <1>2, <1>3, <1>4, <1>5, <1>6, <1>7 DEF Next

\* Whatever implements ChangeFeed leaves no change out in silence: each one in
\* front of the point the feed has come to was handed over, or an exception
\* has told of it, however often the feed has gone back.
THEOREM FeedSkipsNothing == Spec => []NothingSkipped
<1>1. FeedInv => NothingSkipped
  BY DEF FeedInv, NothingSkipped
<1> QED
  BY <1>1, FeedInit, FeedStep, PTL DEF Spec

=============================================================================
