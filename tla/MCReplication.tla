--------------------------- MODULE MCReplication ---------------------------
(***************************************************************************)
(* Values for the runs of Replication: two watched tables that have the    *)
(* same name in two databases, and one nobody watches.                     *)
(***************************************************************************)
EXTENDS FeedRefinement, TLC

CONSTANTS a1, a2, u, NameA, NameU

AllTables == {a1, a2, u}
TwoNamesakes == {a1, a2}
OneWatched == {a1}
WatchedAndOther == {a1, u}
Unwatched == {u}

NamesOfAll == [t \in AllTables |-> IF t = u THEN NameU ELSE NameA]
NamesOfTwo == [t \in WatchedAndOther |-> IF t = u THEN NameU ELSE NameA]
NamesOfNamesakes == [t \in TwoNamesakes |-> NameA]
NameOfOne == [t \in OneWatched |-> NameA]

\* The namesakes play the same part.
Namesakes == Permutations(TwoNamesakes)

=============================================================================
