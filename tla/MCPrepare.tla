------------------------------ MODULE MCPrepare ------------------------------
(***************************************************************************)
(* Instances of Prepare for TLC.  The definitions are those between which  *)
(* ALTER TABLE can move a table: a column added behind the others, and one *)
(* added before them.                                                      *)
(***************************************************************************)
EXTENDS Prepare

Grown == {<<"id">>, <<"id", "name">>, <<"name", "id">>}

=============================================================================
