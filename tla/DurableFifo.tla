---------------------------- MODULE DurableFifo ----------------------------
(***************************************************************************)
(* What a persistent tier promises through persistent_buffer.h, whatever   *)
(* it stores records in: a queue that outlives a reset.                    *)
(*                                                                         *)
(* stored is the queue as the running firmware sees it, kept the queue a   *)
(* reset would bring back.  A place holds the number of a record, or       *)
(* Unreadable.  A put or consume changes stored at once; kept follows when *)
(* the write of the metadata that began with it has ended.  Meanwhile, and *)
(* after a failed metadata write, kept is behind; a place of kept whose    *)
(* record has left the queue may be overwritten by a newer one, and only   *)
(* such a place.  A torn metadata write loses the queue as a whole.        *)
(***************************************************************************)
EXTENDS Naturals, Sequences

CONSTANTS
  Records,     \* what can be queued, Unreadable not among it
  Unreadable   \* a place without a valid record

VARIABLES
  stored,   \* the queue, oldest first
  kept,     \* the queue after a reset
  saving,   \* metadata is being written
  trusted   \* FALSE once the capacity has changed: nothing is promised

vars == <<stored, kept, saving, trusted>>

Occurs(r, q) == \E i \in 1 .. Len(q) : q[i] = r

\* The places of kept whose record is still queued stay as they are.
SparesQueued ==
  LET before == kept
      after == kept'
      queue == stored
  IN /\ Len(after) = Len(before)
     /\ \A i \in 1 .. Len(before) :
          before[i] # Unreadable /\ Occurs(before[i], queue)
            => after[i] = before[i]

Init == stored = <<>> /\ kept = <<>> /\ saving = FALSE /\ trusted = TRUE

\* A new record is queued; metadata is written next.
Accept(r) ==
  /\ ~saving /\ saving' = TRUE
  /\ ~Occurs(r, stored)
  /\ stored' = Append(stored, r)
  /\ SparesQueued

\* A put that fails, or is cut off, may have spoilt the place it was to use.
Refuse == UNCHANGED <<stored, saving>> /\ SparesQueued

\* The oldest record is consumed or discarded.  Dropped for a newer one, it
\* goes without a metadata write of its own.
Remove == ~saving /\ stored # <<>> /\ stored' = Tail(stored) /\ kept' = kept

Saved == saving /\ ~saving' /\ kept' = stored /\ stored' = stored

\* The write failed: old metadata, new, or none.
NotSaved ==
  /\ saving /\ ~saving' /\ stored' = stored
  /\ kept' \in {kept, stored, <<>>}

Reset ==
  /\ stored' = kept' /\ ~saving'
  /\ \/ SparesQueued
     \/ saving /\ kept' \in {stored, <<>>}

\* erase_all: places become unreadable, and the queue is empty at the end.
Erase ==
  /\ ~saving /\ ~saving'
  /\ \/ stored' = <<>>
     \/ /\ Len(stored') = Len(stored)
        /\ \A i \in 1 .. Len(stored) : stored'[i] \in {stored[i], Unreadable}
  /\ kept' \in {kept, <<>>}

Reconfigure == trusted' = FALSE

Next ==
  \/ /\ trusted /\ trusted'
     /\ \/ \E r \in Records : Accept(r)
        \/ Refuse \/ Remove
        \/ Saved \/ NotSaved \/ Reset \/ Erase
  \/ Reconfigure

Spec == Init /\ [][Next]_vars
=============================================================================
