------------------------------ MODULE Positions ------------------------------
(***************************************************************************)
(* Positions in a binlog: <<f, k>> is the k-th event of file f.            *)
(***************************************************************************)
EXTENDS Naturals

\* _binlog_name is empty and _binlog_pos 0.
NoPos == <<0, 0>>

\* The order in which positions are written and read.
Before(p, q) == p[1] < q[1] \/ (p[1] = q[1] /\ p[2] < q[2])

=============================================================================
