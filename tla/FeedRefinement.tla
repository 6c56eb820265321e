--------------------------- MODULE FeedRefinement ---------------------------
(***************************************************************************)
(* Replication implements ChangeFeed: the changes are the ROWS events of   *)
(* watched tables from the start position on, what is acknowledged is the  *)
(* resume point, and how far the feed has come is the place in the log of  *)
(* the packet in hand, else of the dump, else of the dump to be requested; *)
(* behind the last event of a file the resume point is one step ahead.     *)
(***************************************************************************)
EXTENDS ReplicationInvariant

Started == pc # "init"

FeedChanges == IF Started THEN {p \in LogPositions : Due(p)} ELSE {}

FeedTold ==
    {p \in FeedChanges :
        p \in reported \/ \E m \in reported : IsTableMapOf(m, p)}

FeedSeen == {p \in FeedChanges : Delivered(p)}

FeedAcked == IF Started THEN Resume ELSE NoPos

FeedNext ==
    IF ~Started THEN NoPos
    ELSE IF conn.file = 0 \/ Before(Handled, Resume) THEN Resume
    ELSE Handled

Feed == INSTANCE ChangeFeed WITH
    changes <- FeedChanges,
    acked   <- FeedAcked,
    next    <- FeedNext,
    seen    <- FeedSeen,
    told    <- FeedTold

\* Whatever the master, the network, the callbacks and the other thread do,
\* the callbacks of dispatch_events() and its exceptions are a feed: in the
\* order of the log and without a gap, however often a connection breaks in
\* the middle of a statement, and read again from the resume point only.
ImplementsFeed == Feed!Spec

=============================================================================
