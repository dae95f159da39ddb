---------------------------- MODULE MCQspiBuffer ----------------------------
(***************************************************************************)
(* TLC instance of QspiBuffer.  In sectors of 9 cells, a record of 4 and   *)
(* one of 5 fill a sector exactly; two of 4 leave less than a magic, one   *)
(* of 5 more than a header.  A torn header may have a blank magic.         *)
(***************************************************************************)
EXTENDS QspiBuffer
=============================================================================
