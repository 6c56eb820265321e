----------------------------- MODULE ChangeFeed -----------------------------
(***************************************************************************)
(* What a CLogParser promises its application: a feed of the changes of    *)
(* the tables it watches.  Changes are handed over in the order of the     *)
(* log, one by one; none is left out unless an exception has told of it;   *)
(* the feed may go back and hand changes over again, but never behind the  *)
(* point it has acknowledged.  How this is done - connections, table ids,  *)
(* transactions, positions of events - is no part of it, see               *)
(* FeedRefinement.                                                         *)
(***************************************************************************)
EXTENDS Positions

VARIABLES
    changes,   \* the positions of the changes, from the first one promised on
    acked,     \* the feed never goes back behind this point
    next,      \* the point it has come to
    seen,      \* changes that were handed over
    told       \* changes that an exception told of

feedVars == <<changes, acked, next, seen, told>>

Position == Nat \X Nat

\* The changes from point p up to q.
Between(p, q) == {c \in changes : ~Before(c, p) /\ Before(c, q)}

\* The change that comes next.
IsFirst(c) ==
    /\ c \in changes /\ ~Before(c, next)
    /\ \A d \in changes : ~Before(d, next) => ~Before(d, c)

\* The feed goes on behind the changes in S and no others, or starts again
\* from the point it has acknowledged.
GoesPast(S) ==
    /\ next' \in Position
    /\ \/ ~Before(next', next) /\ Between(next, next') = S
       \/ next' = acked'

-----------------------------------------------------------------------------
Init ==
    /\ changes = {} /\ seen = {} /\ told = {}
    /\ acked = NoPos /\ next = NoPos

\* The application begins to follow the log.
Subscribe ==
    /\ acked = NoPos /\ acked' \in Position \ {NoPos}
    /\ next' = acked'
    /\ changes' \subseteq Position
    /\ \A c \in changes' : ~Before(c, acked')
    /\ seen' = {} /\ told' = {}

\* Changes are added behind all there are; they may depend on something that
\* an exception has told of already.
Write ==
    /\ acked # NoPos
    /\ changes \subseteq changes' /\ changes' \subseteq Position
    /\ \A c \in changes' \ changes :
         ~Before(c, next) /\ \A d \in changes : Before(d, c)
    /\ told \subseteq told' /\ told' \subseteq told \union (changes' \ changes)
    /\ UNCHANGED <<acked, next, seen>>

HandOver ==
    /\ \E c \in changes :
         /\ IsFirst(c)
         /\ seen' = seen \union {c}
         /\ told' \in {told, told \union {c}}
         /\ GoesPast({c})
    /\ UNCHANGED <<changes, acked>>

\* A change is left out, and an exception tells of it or has done so.
LeaveOut ==
    /\ \E c \in changes :
         /\ IsFirst(c)
         /\ told' = told \union {c}
         /\ GoesPast({c})
    /\ UNCHANGED <<changes, acked, seen>>

\* An exception tells of what changes to come depend on.
Warn ==
    /\ told \subseteq told'
    /\ told' \subseteq told \union {c \in changes : ~Before(c, next)}
    /\ GoesPast({})
    /\ UNCHANGED <<changes, acked, seen>>

\* Nothing in front of acked' is still to come, nor will come again.
Acknowledge ==
    /\ acked' \in Position
    /\ ~Before(acked', acked) /\ ~Before(next', acked')
    /\ \A c \in changes : Before(c, acked') => Before(c, next)
    /\ GoesPast({})
    /\ UNCHANGED <<changes, seen, told>>

Next == Subscribe \/ Write \/ HandOver \/ LeaveOut \/ Warn \/ Acknowledge

Spec == Init /\ [][Next]_feedVars

-----------------------------------------------------------------------------
\* No change is passed over in silence.
NothingSkipped ==
    \A c \in changes : Before(c, next) => c \in seen \union told

=============================================================================
