--------------------------- MODULE MCCmdPipeline ---------------------------
(***************************************************************************)
(* TLC instance of CmdPipeline: queues of one, so that the in-flight table *)
(* has three entries and the fourth id meets it full.                      *)
(***************************************************************************)
EXTENDS CmdPipeline
=============================================================================
