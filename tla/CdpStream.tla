----------------------------- MODULE CdpStream -----------------------------
(***************************************************************************)
(* What the dm-cdp target promises the readers of /dev/cdpN, without the   *)
(* ring: a stream of the records of all writes in submission order, each   *)
(* available once its bio was acknowledged, in which a record that follows *)
(* dropped ones says so.  CdpTarget implements it (MCCdpStream).           *)
(***************************************************************************)
EXTENDS Naturals, Sequences

CONSTANTS
    Requests,   \* what a bio may ask for
    Large(_)    \* whether a record of this request never fits

VARIABLES
    written,    \* what was logged: [req, gap]
    acked,      \* how the device completed each of them
    stream,     \* what read(2) has delivered: [req, gap, ack]
    missing     \* records were dropped after the last one logged

vars == <<written, acked, stream, missing>>

Init == written = << >> /\ acked = << >> /\ stream = << >> /\ missing = FALSE

Log(r) ==
    /\ written' = Append(written, [req |-> r, gap |-> missing])
    /\ acked' = Append(acked, "pending")
    /\ missing' = FALSE
    /\ UNCHANGED stream

\* A record is dropped when it is too large, or when readers are behind.
Drop(r) ==
    /\ Large(r) \/ Len(stream) < Len(written)
    /\ missing' = TRUE
    /\ UNCHANGED <<written, acked, stream>>

Acknowledge(i, a) ==
    /\ acked[i] = "pending"
    /\ acked' = [acked EXCEPT ![i] = a]
    /\ UNCHANGED <<written, stream, missing>>

Deliver ==
    LET i == Len(stream) + 1
    IN  /\ i <= Len(written) /\ acked[i] # "pending"
        /\ stream' = Append(stream, [req |-> written[i].req,
                                     gap |-> written[i].gap,
                                     ack |-> acked[i]])
        /\ UNCHANGED <<written, acked, missing>>

Next ==
    \/ \E r \in Requests : Log(r) \/ Drop(r)
    \/ \E i \in 1 .. Len(written), a \in {"ok", "error"} : Acknowledge(i, a)
    \/ Deliver

\* Whatever has been acknowledged is delivered.
Spec == Init /\ [][Next]_vars /\ WF_vars(Deliver)
=============================================================================
