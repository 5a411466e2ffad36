------------------------------ MODULE MCRkcdpd ------------------------------
(***************************************************************************)
(* Instances of Rkcdpd for TLC, and what a comment of the code promises    *)
(* and the code does not keep.                                             *)
(***************************************************************************)
EXTENDS Rkcdpd

\* "No ordering race, nothing parked" (rkcdpd.py:23), with no overflow and no
\* rebuild: base copy and live records leave the replica equal to the disk.
\* copy_chunk clears copying before it applies the late records.
NoOrderingRace == CurrentBut({})

\* "bitmap recovery interrupted; redone on restart" (rkcdpd.py:394), with no crash
\* and no I/O error: what a stopped recovery was to re-read stays marked.  The
\* turn of the loop in which the stop signal comes still starts a queued recovery,
\* over the file of the interrupted one.
InterruptedRedone == MarkedBut({"early"})
=============================================================================
