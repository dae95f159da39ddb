--------------------------- MODULE MCFlashBuffer ---------------------------
(***************************************************************************)
(* TLC instance of FlashBuffer: three rows, and builds that use two of     *)
(* them or all.                                                            *)
(***************************************************************************)
EXTENDS FlashBuffer
=============================================================================
