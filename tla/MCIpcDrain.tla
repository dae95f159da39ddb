---------------------------- MODULE MCIpcDrain ----------------------------
(***************************************************************************)
(* TLC instances of IpcDrain.  A queue of one and a ring of one usable     *)
(* slot overflow at the third record of a lane.                            *)
(***************************************************************************)
EXTENDS IpcDrain

Posts(t, s, e) == [l \in Lanes |-> CASE l = "telemetry" -> t
                                      [] l = "status" -> s
                                      [] l = "event" -> e]
MixedPosts == Posts(3, 1, 1)
TelemetryPosts == Posts(4, 0, 0)
=============================================================================
