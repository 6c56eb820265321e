----------------------------- MODULE MCShutdown -----------------------------
(***************************************************************************)
(* Instances of Shutdown for TLC.  With descriptors 0 .. 2 there is one    *)
(* for the standard input, one for the connection and one for a file, and  *)
(* they trade places.                                                      *)
(***************************************************************************)
EXTENDS Shutdown

=============================================================================
