---------------------------- MODULE MCCdpStream ----------------------------
(***************************************************************************)
(* CdpTarget implements CdpStream.  What was written and acknowledged is   *)
(* read off the history of reservations; what was delivered is decoded     *)
(* from the memory that cdp_read copied out, a record whose payload is not *)
(* the one written for it decoding to no request at all.                   *)
(***************************************************************************)
EXTENDS MCCdpTarget

Decoded(i) ==
    LET h == got[i][1]
        whole == \A k \in 2 .. Len(got[i]) : got[i][k] = Dat(i, k - 1)
    IN  [req |-> IF whole THEN Bio(h.type, h.sector, h.len)
                          ELSE Bio("torn", 0, 0),
         gap |-> h.gap,
         ack |-> IF h.err THEN "error" ELSE "ok"]

Stream == INSTANCE CdpStream WITH
    Large   <- TooBig,
    written <- [i \in 1 .. Len(log) |->
                  [req |-> log[i].req, gap |-> log[i].lost]],
    acked   <- [i \in 1 .. Len(log) |-> log[i].res],
    stream  <- [i \in 1 .. Len(got) |-> Decoded(i)],
    missing <- gapPending

\* The target, with its ring, locks and readers, behaves as the stream of
\* CdpStream: order, single delivery, gap flags, drops only when behind, and
\* delivery of everything acknowledged.
ImplementsStream == Stream!Spec
=============================================================================
