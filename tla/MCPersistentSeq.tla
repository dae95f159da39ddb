-------------------------- MODULE MCPersistentSeq --------------------------
(***************************************************************************)
(* TLC instance of PersistentSeq.  As in the code (2^32 and 100), Interval *)
(* does not divide M: the interval that wraps is a short one.              *)
(***************************************************************************)
EXTENDS PersistentSeq
=============================================================================
