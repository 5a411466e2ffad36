---------------------------- MODULE CdpInvariant ----------------------------
(***************************************************************************)
(* The inductive invariant behind RingIntact, CursorAtNext and             *)
(* StreamFaithful of CdpTarget.  Records are followed by their place in    *)
(* the log; the virtual line of offsets 0, 1, 2, ... is cut into records   *)
(* and the gaps that padding leaves between them, and the ring holds the   *)
(* last RingSize of it.                                                    *)
(***************************************************************************)
EXTENDS CdpTarget

\* Where the first j records end.
EndOf(j) == IF j = 0 THEN 0 ELSE log[j].off + log[j].need

\* From p, the end of a record, the next one starts at q: at once, or at the
\* ring's boundary behind slack or a pad record that is still in place.
LinkIn(mem, p, q) ==
    \/ q = p
    \/ LET slack == RingSize - (p % RingSize)
       IN  /\ q = p + slack
           /\ slack < HdrSize \/ mem[p % RingSize] = PadHeader(slack)
Link(p, q) == LinkIn(ring, p, q)

\* Records are of legal size and follow each other without overlap, none
\* across the end of the ring.
Layout ==
    /\ \A i \in 1 .. Len(log) :
         /\ log[i].req.type \in LoggedTypes
         /\ log[i].need = Need(log[i].req)
         /\ ~TooBig(log[i].req)
         /\ (log[i].off % RingSize) + log[i].need <= RingSize
         /\ log[i].off + log[i].need <= head
    /\ \A i, j \in 1 .. Len(log) : i < j => EndOf(i) <= log[j].off

\* The unread part of the line: tail is where the last record read ended, and
\* from there every record is linked to the next, the last one to head.
Chain ==
    /\ Len(got) <= Len(log)
    /\ tail = EndOf(Len(got))
    /\ head <= tail + RingSize
    /\ \A j \in Len(got) .. Len(log) - 1 : Link(EndOf(j), log[j + 1].off)
    /\ Link(EndOf(Len(log)), head)
    /\ lock = None => head = EndOf(Len(log))

\* The unread records are in the ring.
Contents ==
    \A i \in Unread :
      /\ ring[log[i].off % RingSize] = HeaderOf(i)
      /\ \A k \in 1 .. log[i].need - 1 :
           k < HdrSize \/ log[i].copied
             => ring[(log[i].off % RingSize) + k] = Dat(i, k)

\* A bio and its record know each other until cdp_end_io.
Owners ==
    /\ \A b \in Bios :
         /\ slot[b] # 0 =>
              /\ slot[b] \in Unread
              /\ log[slot[b]].off = off[b] /\ log[slot[b]].req = breq[b]
              /\ log[slot[b]].res = "pending"
              /\ \/ bst[b] = "reserved" /\ ~log[slot[b]].copied
                 \/ /\ bst[b] = "inflight" /\ log[slot[b]].copied
                    /\ pb[b].logged /\ pb[b].rec_off = off[b]
         /\ slot[b] = 0 => /\ bst[b] # "reserved"
                           /\ bst[b] # "free" => ~pb[b].logged
    /\ \A b, c \in Bios : slot[b] # 0 /\ slot[b] = slot[c] => b = c
    /\ \A i \in 1 .. Len(log) : log[i].res # "pending" => log[i].copied

\* Between the two halves of a padded reservation the lock is held, head is
\* at the boundary and the space for the record stays free.
Padded ==
    \A b \in Bios :
      /\ bst[b] = "padded" <=> lock = b
      /\ lock = b => /\ ~TooBig(breq[b])
                     /\ head % RingSize = 0
                     /\ head + Need(breq[b]) <= tail + RingSize

\* The producer's counters agree with the history.
Counters == seqNext = Len(log) /\ gapPending = lost

\* Whoever is inside cdp_read's loop owns the mutex, and between copying a
\* record and advancing tail has the next unread record in its buffer.
Reading ==
    \A f \in Files :
      /\ rst[f] \in {"scan", "empty", "copied"} <=> readLock = f
      /\ rst[f] = "copied" =>
           LET i == Len(got) + 1
           IN  /\ i <= Len(log) /\ log[i].res # "pending"
               /\ rbuf[f] = Image(i) /\ rnext[f] = EndOf(i)

IInv == /\ TypeOK /\ Layout /\ Chain /\ Contents /\ Owners /\ Padded
        /\ Counters /\ Reading /\ StreamFaithful
=============================================================================
