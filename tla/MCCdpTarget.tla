---------------------------- MODULE MCCdpTarget ----------------------------
(***************************************************************************)
(* Instances of CdpTarget for TLC.  A header is 2 units and a sector 1, so *)
(* that a write of one sector takes 3 units, a flush or discard 2, and a   *)
(* ring of 12 wraps with slack of 1 (no room for a header) and of 2.       *)
(***************************************************************************)
EXTENDS CdpInvariant, TLC

CONSTANTS b1, b2, f1, f2, none

Bio(t, s, n) == [type |-> t, sector |-> s, len |-> n]

\* The two sizes of record that fit, and a bio that passes through.
RingRequests == {Bio("WRITE", 0, 1), Bio("DISCARD", 0, 1), Bio("READ", 0, 1)}

\* A record that fits and one that is larger than a quarter of the ring.
StreamRequests == {Bio("WRITE", 0, 1), Bio("WRITE", 0, 2)}

\* Three sectors in chunks of two, so that the last chunk is short, and
\* a write across the chunks that is too large for the ring, one that fits.
BitmapRequests == {Bio("WRITE", 1, 2), Bio("ZERO", 2, 1)}

TwoBios  == {b1, b2}
OneFile  == {f1}
TwoFiles == {f1, f2}
NoFiles  == {}
Symmetry == Permutations(TwoBios)
=============================================================================
