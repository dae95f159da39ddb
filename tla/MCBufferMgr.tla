---------------------------- MODULE MCBufferMgr ----------------------------
(***************************************************************************)
(* TLC instances of BufferMgr.  Two slots in each tier overflow within     *)
(* four arrivals; six let the ring wrap and the tiers overflow repeatedly. *)
(***************************************************************************)
EXTENDS BufferMgr

NoBadRecs == {}
OneBadRec == {Backlog + 2}

\* The start-up hook has run before the first record arrives: what remains is
\* the steady state of the default profile.
BootedSpec == Init /\ [][Next /\ (tried \/ tried')]_vars
=============================================================================
