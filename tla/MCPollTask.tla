---------------------------- MODULE MCPollTask ----------------------------
(***************************************************************************)
(* TLC instance of PollTask: two devices of which one is configured, so    *)
(* that the other answers alerts first and uses up the loop; polls of two  *)
(* commands, so that a poll may be answered in part.                       *)
(***************************************************************************)
EXTENDS PollTask
=============================================================================
