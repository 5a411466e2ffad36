-------------------------- MODULE CdpTargetProofs --------------------------
(***************************************************************************)
(* The stream of dm-cdp is faithful for every ring size, device and set of *)
(* bios and readers: IInv of CdpInvariant is inductive and implies         *)
(* RingIntact, CursorAtNext and StreamFaithful.                            *)
(***************************************************************************)
EXTENDS CdpTypeProofs, NatFacts

USE SizesAssumption

-----------------------------------------------------------------------------
(* Arithmetic of a ring of N cells.                                        *)

\* A record that does not reach the end of the ring lies in successive cells.
LEMMA ModShift ==
    ASSUME NEW N \in Nat, N > 0, NEW x \in Nat, NEW k \in Nat,
           (x % N) + k < N
    PROVE  (x + k) % N = (x % N) + k
  <1> DEFINE a == x \div N
             m == (x % N) + k
  <1>1. x = N * a + (x % N) /\ a \in Nat /\ x % N \in 0 .. N - 1
    BY DivMod
  <1>2. m \in 0 .. N - 1 /\ x + k = N * a + m
    BY <1>1
  <1> HIDE DEF a, m
  <1>3. (N * a + m) % N = m
    BY <1>1, <1>2, ModIs
  <1> QED BY <1>2, <1>3 DEF m

\* The boundary after x.
LEMMA ModBoundary ==
    ASSUME NEW N \in Nat, N > 0, NEW x \in Nat
    PROVE  (x + (N - (x % N))) % N = 0
  <1> DEFINE a == x \div N
  <1>1. x = N * a + (x % N) /\ a \in Nat /\ x % N \in 0 .. N - 1
    BY DivMod
  <1>2. x + (N - (x % N)) = N * (a + 1) + 0
    BY <1>1
  <1> HIDE DEF a
  <1>3. (N * (a + 1) + 0) % N = 0
    BY <1>1, ModIs
  <1> QED BY <1>2, <1>3

\* Two offsets less than a ring apart have different cells.
LEMMA ModUnique ==
    ASSUME NEW N \in Nat, N > 0, NEW t \in Nat, NEW x \in Nat, NEW y \in Nat,
           t <= x, x < t + N, t <= y, y < t + N, x % N = y % N
    PROVE  x = y
  <1> DEFINE a == x \div N
             b == y \div N
  <1>1. /\ x = N * a + (x % N) /\ y = N * b + (y % N)
        /\ a \in Nat /\ b \in Nat
    BY DivMod
  <1> HIDE DEF a, b
  <1>2. CASE a < b
    BY <1>1, <1>2, MulGap
  <1>3. CASE b < a
    BY <1>1, <1>3, MulGap
  <1>4. CASE a = b
    BY <1>1, <1>4
  <1> QED BY <1>1, <1>2, <1>3, <1>4

-----------------------------------------------------------------------------
(* The line of offsets.                                                    *)

\* The types of an entry of the log.
LEMMA EntryType ==
    ASSUME TypeOK, NEW i \in 1 .. Len(log)
    PROVE  /\ log[i] \in Entries
           /\ log[i].off \in Nat /\ log[i].need \in Nat
           /\ log[i].req \in Requests
  <1>1. log[i] \in Entries
    BY DEF TypeOK, LogType
  <1> QED BY <1>1 DEF Entries

\* The line of offsets in numbers: where records start and end, in order, and
\* that the unread ones start at or after tail.
LEMMA LineFacts ==
    ASSUME TypeOK, Layout, Chain
    PROVE  /\ Len(log) \in Nat /\ Len(got) \in Nat /\ Len(got) <= Len(log)
           /\ \A i \in 1 .. Len(log) :
                /\ log[i].off \in Nat /\ log[i].need \in Nat
                /\ log[i].need >= HdrSize
                /\ EndOf(i) = log[i].off + log[i].need
           /\ \A j \in 0 .. Len(log) : EndOf(j) \in Nat /\ EndOf(j) <= head
           /\ \A j \in 0 .. Len(log), i \in 1 .. Len(log) :
                j < i => EndOf(j) <= log[i].off
           /\ \A i \in Unread : i \in 1 .. Len(log) /\ tail <= log[i].off
           /\ \A j \in Len(got) .. Len(log) : tail <= EndOf(j)
  <1>1. /\ Len(log) \in Nat /\ Len(got) \in Nat /\ Len(got) <= Len(log)
        /\ head \in Nat /\ tail \in Nat
    BY DEF TypeOK, LogType, RingType, Chain
  <1>2. \A i \in 1 .. Len(log) :
          /\ log[i].off \in Nat /\ log[i].need \in Nat
          /\ log[i].need >= HdrSize
          /\ EndOf(i) = log[i].off + log[i].need
    <2> TAKE i \in 1 .. Len(log)
    <2>1. log[i].off \in Nat /\ log[i].need \in Nat /\ log[i].req \in Requests
      BY EntryType
    <2>2. log[i].need = Need(log[i].req)
      BY DEF Layout
    <2>3. log[i].need >= HdrSize
      BY <2>1, <2>2, NeedType
    <2>4. EndOf(i) = log[i].off + log[i].need
      BY <1>1 DEF EndOf
    <2> QED BY <2>1, <2>3, <2>4
  <1>3. \A j \in 0 .. Len(log) : EndOf(j) \in Nat /\ EndOf(j) <= head
    BY <1>1, <1>2 DEF Layout, EndOf
  <1>4. \A j \in 0 .. Len(log), i \in 1 .. Len(log) :
          j < i => EndOf(j) <= log[i].off
    <2> TAKE j \in 0 .. Len(log), i \in 1 .. Len(log)
    <2> HAVE j < i
    <2>1. CASE j = 0
      BY <2>1, <1>2 DEF EndOf
    <2>2. CASE j # 0
      BY <2>2, <1>1 DEF Layout
    <2> QED BY <2>1, <2>2
  <1>5. \A i \in Unread : i \in 1 .. Len(log) /\ tail <= log[i].off
    BY <1>1, <1>4 DEF Unread, Chain
  <1>6. \A j \in Len(got) .. Len(log) : tail <= EndOf(j)
    <2> TAKE j \in Len(got) .. Len(log)
    <2>1. CASE j = Len(got)
      BY <2>1, <1>1, <1>3 DEF Chain
    <2>2. CASE j # Len(got)
      <3>1. j \in Unread
        BY <2>2, <1>1 DEF Unread
      <3> QED BY <3>1, <1>1, <1>2, <1>5
    <2> QED BY <2>1, <2>2
  <1> QED BY <1>1, <1>2, <1>3, <1>4, <1>5, <1>6

\* The cells of an unread record are those of its offsets, all of them
\* between tail and head.
LEMMA RecordCells ==
    ASSUME TypeOK, Layout, Chain, NEW i \in Unread,
           NEW k \in 0 .. log[i].need - 1
    PROVE  /\ log[i].off + k \in tail .. head - 1
           /\ (log[i].off + k) % RingSize = (log[i].off % RingSize) + k
           /\ (log[i].off % RingSize) + k \in 0 .. RingSize - 1
  <1>1. /\ i \in 1 .. Len(log) /\ log[i].off \in Nat /\ log[i].need \in Nat
        /\ tail <= log[i].off
    BY LineFacts
  <1>2. /\ log[i].off + log[i].need <= head
        /\ (log[i].off % RingSize) + log[i].need <= RingSize
    BY <1>1 DEF Layout
  <1>3. log[i].off % RingSize \in 0 .. RingSize - 1
    BY <1>1, PosType
  <1>4. RingSize \in Nat /\ RingSize > 0 /\ head \in Nat /\ tail \in Nat
    BY GeometryType DEF TypeOK, RingType
  <1>5. (log[i].off % RingSize) + k < RingSize /\ k \in Nat
    BY <1>1, <1>2, <1>3, <1>4
  <1>6. (log[i].off + k) % RingSize = (log[i].off % RingSize) + k
    BY <1>1, <1>4, <1>5, ModShift
  <1>7. log[i].off + k \in tail .. head - 1
    <2> DEFINE o == log[i].off
               n == log[i].need
    <2>1. o \in Nat /\ n \in Nat /\ tail <= o /\ o + n <= head
      BY <1>1, <1>2
    <2>2. k \in 0 .. n - 1
      OBVIOUS
    <2> HIDE DEF o, n
    <2>3. o + k \in tail .. head - 1
      BY <1>4, <2>1, <2>2
    <2> QED BY <2>3 DEF o
  <1>8. (log[i].off % RingSize) + k \in 0 .. RingSize - 1
    BY <1>3, <1>4, <1>5
  <1> QED BY <1>6, <1>7, <1>8

\* A step that leaves alone the cells of the offsets of a window of unread
\* line leaves alone the records in it.
LEMMA RecordKept ==
    ASSUME TypeOK, Layout, Chain, NEW i \in Unread, NEW R,
           \A v \in log[i].off .. EndOf(i) - 1 :
              R[v % RingSize] = ring[v % RingSize]
    PROVE  \A k \in 0 .. log[i].need - 1 :
              R[(log[i].off % RingSize) + k]
                = ring[(log[i].off % RingSize) + k]
  <1> TAKE k \in 0 .. log[i].need - 1
  <1>1. /\ log[i].off \in Nat /\ log[i].need \in Nat
        /\ EndOf(i) = log[i].off + log[i].need
    BY LineFacts
  <1>2. log[i].off + k \in log[i].off .. EndOf(i) - 1
    BY <1>1
  <1> QED BY <1>2, RecordCells

-----------------------------------------------------------------------------
(* Where the reader's cursor is.                                           *)

\* cdp_next does not move past an unread record.
LEMMA NextAtRecord ==
    ASSUME TypeOK, Layout, Chain, Contents, NEW i \in Unread
    PROVE  log[i].off < head /\ NextPos(log[i].off) = log[i].off
  <1> DEFINE o == log[i].off
             c == o % RingSize
  <1>1. /\ i \in 1 .. Len(log) /\ o \in Nat /\ log[i].need \in Nat
        /\ log[i].need >= HdrSize
    BY LineFacts
  <1>2. o + log[i].need <= head /\ c + log[i].need <= RingSize
    BY <1>1 DEF Layout
  <1>3. c \in 0 .. RingSize - 1 /\ head \in Nat
    BY <1>1, PosType DEF TypeOK, RingType
  <1>4. o < head /\ ~(o >= head)
    <2> HIDE DEF c, o
    <2> QED BY <1>1, <1>2, <1>3, SMTT(30)
  <1>5. ~(RingSize - c < HdrSize)
    <2> HIDE DEF c
    <2> QED BY <1>1, <1>2, <1>3
  <1>6. ring[c].type # "PAD"
    <2>1. ring[c] = HeaderOf(i)
      BY DEF Contents
    <2>2. HeaderOf(i).type = log[i].req.type
      BY DEF HeaderOf
    <2>3. log[i].req.type \in LoggedTypes
      BY <1>1 DEF Layout
    <2> QED BY <2>1, <2>2, <2>3 DEF LoggedTypes
  <1>7. NextPos(o) = o
    BY <1>4, <1>5, <1>6 DEF NextPos
  <1> QED BY <1>4, <1>7

\* cdp_next skips the slack or the pad record between two records.
LEMMA NextAcrossLink ==
    ASSUME TypeOK, NEW p \in Nat, NEW q \in Nat, Link(p, q), p # q, q <= head
    PROVE  NextPos(p) = q
  <1> DEFINE c == p % RingSize
             slack == RingSize - c
  <1>1. c \in 0 .. RingSize - 1 /\ head \in Nat
    BY PosType DEF TypeOK, RingType
  <1>2. q = p + slack /\ (slack < HdrSize \/ ring[c] = PadHeader(slack))
    BY DEF Link, LinkIn
  <1>3. ~(p >= head)
    <2> HIDE DEF c
    <2> QED BY <1>1, <1>2
  <1>4. CASE slack < HdrSize
    BY <1>2, <1>3, <1>4 DEF NextPos
  <1>5. CASE ~(slack < HdrSize)
    <2>1. /\ IsHdr(ring[c]) /\ ring[c].type = "PAD"
          /\ ring[c].rec_len = slack
      BY <1>2, <1>5 DEF PadHeader, IsHdr
    <2> QED BY <1>2, <1>3, <1>5, <2>1 DEF NextPos
  <1> QED BY <1>4, <1>5

\* The invariant puts the cursor of cdp_read where it must be.
LEMMA Cursor ==
    ASSUME TypeOK, Layout, Chain, Contents
    PROVE  CursorAtNext
  <1> DEFINE d == Len(got)
  <1>1. /\ Len(log) \in Nat /\ d \in Nat /\ d <= Len(log)
        /\ head \in Nat /\ tail \in Nat /\ tail = EndOf(d)
    BY LineFacts DEF Chain, TypeOK, RingType
  <1>2. CASE d < Len(log)
    <2> DEFINE q == log[d + 1].off
    <2>1. d + 1 \in Unread /\ Unread # {}
      BY <1>1, <1>2 DEF Unread
    <2>2. q \in Nat /\ q < head /\ NextPos(q) = q
      BY <2>1, LineFacts, NextAtRecord
    <2>3. Link(tail, q)
      BY <1>1, <1>2 DEF Chain
    <2>4. NextPos(tail) = q
      <3>1. CASE tail = q
        BY <3>1, <2>2
      <3>2. CASE tail # q
        BY <3>2, <2>2, <2>3, <1>1, NextAcrossLink
      <3> QED BY <3>1, <3>2
    <2> QED BY <2>1, <2>2, <2>4 DEF CursorAtNext, ReadPos
  <1>3. CASE d = Len(log)
    <2>1. Unread = {}
      BY <1>1, <1>3 DEF Unread
    <2>2. Link(tail, head)
      BY <1>1, <1>3 DEF Chain
    <2>3. NextPos(head) = head
      BY <1>1 DEF NextPos
    <2>4. NextPos(tail) = head
      <3>1. CASE tail = head
        BY <3>1, <2>3
      <3>2. CASE tail # head
        BY <3>2, <2>2, <1>1, NextAcrossLink
      <3> QED BY <3>1, <3>2
    <2> QED BY <2>1, <2>3, <2>4 DEF CursorAtNext, ReadPos
  <1> QED BY <1>1, <1>2, <1>3

\* A record that cdp_read finds deliverable is the oldest unread one, it is
\* acknowledged, and its length is in its header.
LEMMA ReadableRecord ==
    ASSUME TypeOK, Layout, Chain, Contents, Readable
    PROVE  LET i == Len(got) + 1
           IN  /\ i \in Unread
               /\ ReadPos = log[i].off /\ ReadHdr = HeaderOf(i)
               /\ ReadHdr.rec_len = log[i].need
               /\ log[i].res # "pending"
  <1> DEFINE i == Len(got) + 1
  <1>1. Len(log) \in Nat /\ Len(got) \in Nat /\ head \in Nat
    BY LineFacts DEF TypeOK, RingType
  <1>2. ReadPos < head /\ ReadHdr.state = "COMMITTED"
    BY DEF Readable
  <1>3. Unread # {}
    BY <1>1, <1>2, Cursor DEF CursorAtNext
  <1>4. i \in Unread
    BY <1>1, <1>3 DEF Unread
  <1>5. ReadPos = log[i].off
    BY <1>3, Cursor DEF CursorAtNext
  <1>6. ReadHdr = HeaderOf(i)
    BY <1>4, <1>5 DEF ReadHdr, Contents
  <1>7. log[i].res # "pending"
    BY <1>2, <1>6 DEF HeaderOf
  <1>8. HeaderOf(i).rec_len = log[i].need
    BY DEF HeaderOf
  <1> QED BY <1>4, <1>5, <1>6, <1>7, <1>8

-----------------------------------------------------------------------------
(* Steps that leave the ring, the log and the stream alone.                *)

\* The parts of the invariant about the ring and the stream only depend on
\* these variables.
LEMMA CoreFrame ==
    ASSUME Layout, Chain, Contents, StreamFaithful,
           UNCHANGED <<head, tail, ring, lock, log, got>>
    PROVE  Layout' /\ Chain' /\ Contents' /\ StreamFaithful'
  <1>1. /\ UNCHANGED Unread
        /\ \A j : UNCHANGED EndOf(j) /\ UNCHANGED HeaderOf(j)
    BY DEF Unread, EndOf, HeaderOf
  <1>2. Layout'
    BY <1>1 DEF Layout
  <1>3. Chain'
    BY <1>1 DEF Chain, Link
  <1>4. Contents'
    BY <1>1 DEF Contents
  <1>5. StreamFaithful'
    BY <1>1 DEF StreamFaithful, Image
  <1> QED BY <1>2, <1>3, <1>4, <1>5

\* A step of a bio that neither reserves, copies nor completes a record.
LEMMA SubmitInv ==
    ASSUME IInv, NEW b \in Bios, NEW r \in Requests, Submit(b, r)
    PROVE  IInv'
  <1>1. TypeOK'
    BY SubmitType DEF IInv
  <1>2. UNCHANGED <<head, tail, ring, lock, log, got, seqNext, gapPending,
                    lost, slot, off>>
    BY DEF Submit, ringVars
  <1>3. UNCHANGED <<rst, readLock, rbuf, rnext>>
    BY DEF Submit, readVars
  <1>4. Layout' /\ Chain' /\ Contents' /\ StreamFaithful'
    BY <1>2, CoreFrame DEF IInv
  <1>5. bst[b] = "free" /\ slot[b] = 0 /\ lock # b
    BY DEF Submit, IInv, Owners, Padded
  <1>6. /\ \A x \in Bios : x # b => /\ bst'[x] = bst[x] /\ breq'[x] = breq[x]
                                    /\ pb'[x] = pb[x]
        /\ bst'[b] \in {"log", "inflight"} /\ ~pb'[b].logged
    BY DEF Submit, FreshBioData, IInv, TypeOK, BioType
  <1>7. Owners'
    BY <1>2, <1>5, <1>6 DEF IInv, Owners, Unread
  <1>8. Padded'
    BY <1>2, <1>5, <1>6 DEF IInv, Padded
  <1>9. Counters' /\ Reading'
    BY <1>2, <1>3 DEF IInv, Counters, Reading, Image, HeaderOf, EndOf
  <1> QED BY <1>1, <1>4, <1>7, <1>8, <1>9 DEF IInv

\* cdp_mark preserves the invariant.
LEMMA MarkInv ==
    ASSUME IInv, NEW b \in Bios, Mark(b)
    PROVE  IInv'
  <1>1. TypeOK'
    BY MarkType DEF IInv
  <1>2. UNCHANGED <<head, tail, ring, lock, log, got, seqNext, gapPending,
                    lost, slot, off, bst, breq, pb, rst, readLock, rbuf,
                    rnext>>
    BY DEF Mark, ringVars, readVars
  <1>3. Layout' /\ Chain' /\ Contents' /\ StreamFaithful'
    BY <1>2, CoreFrame DEF IInv
  <1>4. Owners' /\ Padded' /\ Counters' /\ Reading'
    BY <1>2 DEF IInv, Owners, Unread, Padded, Counters, Reading, Image,
                HeaderOf, EndOf
  <1> QED BY <1>1, <1>3, <1>4 DEF IInv

\* Dropping a record preserves the invariant.
LEMMA DropInv ==
    ASSUME IInv, NEW b \in Bios, Drop(b)
    PROVE  IInv'
  <1>1. TypeOK'
    BY DropType DEF IInv
  <1>2. UNCHANGED <<head, tail, ring, lock, log, got, seqNext, slot, off,
                    breq, pb>>
    BY DEF Drop
  <1>3. UNCHANGED <<rst, readLock, rbuf, rnext>>
    BY DEF Drop, readVars
  <1>4. Layout' /\ Chain' /\ Contents' /\ StreamFaithful'
    BY <1>2, CoreFrame DEF IInv
  <1>5. bst[b] = "log" /\ slot[b] = 0 /\ lock # b
    BY InputsAssumption DEF Drop, Reserving, IInv, Owners
  <1>6. /\ \A x \in Bios : x # b => bst'[x] = bst[x]
        /\ bst'[b] = "inflight"
    BY DEF Drop, IInv, TypeOK, BioType
  <1>7. Owners'
    BY <1>2, <1>5, <1>6 DEF IInv, Owners, Unread
  <1>8. Padded'
    BY <1>2, <1>5, <1>6 DEF IInv, Padded
  <1>9. Counters'
    BY <1>2 DEF IInv, Counters, Drop
  <1>10. Reading'
    BY <1>2, <1>3 DEF IInv, Reading, Image, HeaderOf, EndOf
  <1> QED BY <1>1, <1>4, <1>7, <1>8, <1>9, <1>10 DEF IInv

\* Clearing the bitmap preserves the invariant.
LEMMA ClearInv ==
    ASSUME IInv, ClearBegin \/ ClearWord \/ ClearFlag
    PROVE  IInv'
  <1>1. TypeOK'
    BY ClearDtrType DEF IInv
  <1>2. UNCHANGED <<head, tail, ring, lock, log, got, seqNext, gapPending,
                    lost, slot, off, bst, breq, pb, rst, readLock, rbuf,
                    rnext>>
    BY DEF ClearBegin, ClearWord, ClearFlag, ringVars, bioVars, readVars
  <1>3. Layout' /\ Chain' /\ Contents' /\ StreamFaithful'
    BY <1>2, CoreFrame DEF IInv
  <1>4. Owners' /\ Padded' /\ Counters' /\ Reading'
    BY <1>2 DEF IInv, Owners, Unread, Padded, Counters, Reading, Image,
                HeaderOf, EndOf
  <1> QED BY <1>1, <1>3, <1>4 DEF IInv

\* cdp_dtr preserves the invariant.
LEMMA DtrInv ==
    ASSUME IInv, Dtr
    PROVE  IInv'
  <1>1. TypeOK'
    BY ClearDtrType DEF IInv
  <1>2. UNCHANGED <<head, tail, ring, lock, log, got, seqNext, gapPending,
                    lost, slot, off, bst, breq, pb, readLock, rbuf, rnext>>
    BY DEF Dtr, ringVars, bioVars
  <1>3. Layout' /\ Chain' /\ Contents' /\ StreamFaithful'
    BY <1>2, CoreFrame DEF IInv
  <1>4. \A f \in Files :
          /\ rst'[f] \in {"scan", "empty", "copied"}
               <=> rst[f] \in {"scan", "empty", "copied"}
          /\ rst'[f] = "copied" <=> rst[f] = "copied"
    BY DEF Dtr, Woken
  <1>5. Owners' /\ Padded' /\ Counters'
    BY <1>2 DEF IInv, Owners, Unread, Padded, Counters
  <1>6. Reading'
    BY <1>2, <1>4 DEF IInv, Reading, Image, HeaderOf, EndOf
  <1> QED BY <1>1, <1>3, <1>5, <1>6 DEF IInv

-----------------------------------------------------------------------------
(* The steps of a reader.                                                  *)

\* A step of a reader that moves neither tail nor the stream.
LEMMA ReaderFrame ==
    ASSUME IInv, TypeOK',
           UNCHANGED <<ringVars, bioVars, log, got, lost>>, Reading'
    PROVE  IInv'
  <1>1. UNCHANGED <<head, tail, ring, lock, log, got, seqNext, gapPending,
                    lost, slot, off, bst, breq, pb>>
    BY DEF ringVars, bioVars
  <1>2. Layout' /\ Chain' /\ Contents' /\ StreamFaithful'
    BY <1>1, CoreFrame DEF IInv
  <1>3. Owners' /\ Padded' /\ Counters'
    BY <1>1 DEF IInv, Owners, Unread, Padded, Counters
  <1> QED BY <1>2, <1>3 DEF IInv

\* The steps of cdp_read that copy nothing preserve the invariant.
LEMMA ReaderControlInv ==
    ASSUME IInv, NEW f \in Files,
           \/ \E n \in BufSizes : BeginRead(f, n)
           \/ ReturnData(f) \/ FindEmpty(f) \/ ReturnEof(f) \/ ReturnAgain(f)
           \/ Wait(f) \/ WaitCheck(f) \/ Relock(f) \/ ShortBuffer(f)
           \/ Interrupted(f) \/ CopyFault(f)
    PROVE  IInv'
  <1>1. TypeOK'
    BY ReadStepType DEF ReadStep, IInv
  <1>2. UNCHANGED <<ringVars, bioVars, log, got, lost, rbuf, rnext>>
    BY DEF BeginRead, ReturnData, FindEmpty, ReturnEof, ReturnAgain, Wait,
           WaitCheck, Relock, ShortBuffer, Interrupted, CopyFault, Return,
           Step
  <1>3. \/ /\ rst[f] \in {"scan", "empty"} /\ readLock' = None
           /\ rst'[f] \in {"idle", "check"}
        \/ /\ rst[f] \in {"idle", "relock"} /\ readLock = None
           /\ readLock' = f /\ rst'[f] = "scan"
        \/ /\ rst[f] = "scan" /\ readLock' = readLock /\ rst'[f] = "empty"
        \/ /\ rst[f] \in {"check", "sleep", "relock"}
           /\ readLock' = readLock
           /\ rst'[f] \in {"idle", "relock", "sleep"}
    BY DEF BeginRead, ReturnData, FindEmpty, ReturnEof, ReturnAgain, Wait,
           WaitCheck, Relock, ShortBuffer, Interrupted, CopyFault, Return,
           Step, IInv, TypeOK, ReadType
  <1>4. \A g \in Files : g # f => rst'[g] = rst[g]
    BY DEF BeginRead, ReturnData, FindEmpty, ReturnEof, ReturnAgain, Wait,
           WaitCheck, Relock, ShortBuffer, Interrupted, CopyFault, Return,
           Step, IInv, TypeOK, ReadType
  <1>5. Reading'
    <2>1. \A g \in Files : rst'[g] \in {"scan", "empty", "copied"}
                             <=> readLock' = g
      BY <1>3, <1>4, InputsAssumption DEF IInv, Reading
    <2>2. \A g \in Files : rst'[g] = "copied" => rst[g] = "copied"
      BY <1>3, <1>4
    <2> QED BY <1>2, <2>1, <2>2 DEF IInv, Reading, Image, HeaderOf, EndOf
  <1> QED BY <1>1, <1>2, <1>5, ReaderFrame

\* copy_to_user gives the reader the oldest unread record, as logged.
LEMMA CopyOutInv ==
    ASSUME IInv, NEW f \in Files, CopyOut(f)
    PROVE  IInv'
  <1> DEFINE i == Len(got) + 1
             e == log[i]
             c == e.off % RingSize
  <1>1. TypeOK'
    BY ReadStepType DEF ReadStep, IInv
  <1>2. UNCHANGED <<ringVars, bioVars, log, got, lost, readLock>>
    BY DEF CopyOut
  <1>3. /\ i \in Unread /\ ReadPos = e.off /\ ReadHdr = HeaderOf(i)
        /\ ReadHdr.rec_len = e.need /\ e.res # "pending"
    BY ReadableRecord DEF CopyOut, IInv
  <1>4. /\ i \in 1 .. Len(log) /\ e.off \in Nat /\ e.need \in Nat
        /\ EndOf(i) = e.off + e.need /\ Len(got) \in Nat
    BY <1>3, LineFacts DEF IInv
  <1>5. rnext'[f] = EndOf(i)
    BY <1>3, <1>4 DEF CopyOut, IInv, TypeOK, ReadType
  <1>6. rbuf'[f] = Image(i)
    <2>1. rbuf'[f] = [k \in 1 .. e.need |-> CellAt(c + k - 1)]
      BY <1>3 DEF CopyOut, IInv, TypeOK, ReadType
    <2>2. ASSUME NEW k \in 1 .. e.need
          PROVE  CellAt(c + k - 1) = IF k = 1 THEN HeaderOf(i)
                                              ELSE Dat(i, k - 1)
      <3>1. k - 1 \in 0 .. e.need - 1 /\ c + k - 1 = c + (k - 1)
        <4>1. c \in 0 .. RingSize - 1
          BY <1>4, PosType
        <4> HIDE DEF c
        <4> QED BY <1>4, <4>1
      <3>2. CellAt(c + k - 1) = ring[c + (k - 1)]
        <4>1. c + (k - 1) \in 0 .. RingSize - 1
          BY <1>3, <3>1, RecordCells DEF IInv
        <4> HIDE DEF c
        <4> QED BY <3>1, <4>1 DEF CellAt
      <3>3. CASE k = 1
        <4>1. c + (k - 1) = c
          <5>1. c \in 0 .. RingSize - 1
            BY <1>4, PosType
          <5> HIDE DEF c
          <5> QED BY <3>3, <5>1
        <4>2. ring[c] = HeaderOf(i)
          BY <1>3 DEF IInv, Contents
        <4> QED BY <3>2, <3>3, <4>1, <4>2
      <3>4. CASE k # 1
        <4>1. k - 1 \in 1 .. e.need - 1
          BY <3>4, <1>4
        <4>2. e.copied
          BY <1>3, <1>4 DEF IInv, Owners
        <4>3. ring[c + (k - 1)] = Dat(i, k - 1)
          BY <1>3, <4>1, <4>2 DEF IInv, Contents
        <4> QED BY <3>2, <3>4, <4>3
      <3> QED BY <3>3, <3>4
    <2> QED BY <2>1, <2>2 DEF Image
  <1>7. /\ rst[f] = "scan" /\ rst'[f] = "copied"
        /\ \A g \in Files : g # f => /\ rst'[g] = rst[g]
                                     /\ rbuf'[g] = rbuf[g]
                                     /\ rnext'[g] = rnext[g]
    BY DEF CopyOut, IInv, TypeOK, ReadType
  <1>8. UNCHANGED <<Image(i), EndOf(i), i, e>>
    BY <1>2 DEF Image, HeaderOf, EndOf
  <1>9. Reading'
    <2>1. \A g \in Files : rst'[g] \in {"scan", "empty", "copied"}
                             <=> readLock' = g
      BY <1>2, <1>7 DEF IInv, Reading
    <2>2. \A g \in Files : g # f => rst[g] # "copied"
      BY <1>7 DEF IInv, Reading
    <2>3. i <= Len(log)
      BY <1>4
    <2> HIDE DEF i, e, c
    <2>4. /\ i' = i /\ i <= Len(log') /\ log'[i].res # "pending"
          /\ rbuf'[f] = Image(i)' /\ rnext'[f] = EndOf(i)'
      BY <1>2, <1>3, <1>5, <1>6, <1>8, <2>3 DEF e
    <2> QED BY <1>7, <2>1, <2>2, <2>4 DEF Reading, i
  <1> QED BY <1>1, <1>2, <1>9, ReaderFrame

\* Moving tail past the record just copied preserves the invariant.
LEMMA AdvanceInv ==
    ASSUME IInv, NEW f \in Files, Advance(f)
    PROVE  IInv'
  <1> DEFINE d == Len(got)
             i == Len(got) + 1
  <1>1. TypeOK'
    BY ReadStepType DEF ReadStep, IInv
  <1>2. UNCHANGED <<head, ring, lock, log, seqNext, gapPending, lost, slot,
                    off, bst, breq, pb, readLock>>
    BY DEF Advance, bioVars
  <1>3. /\ rst[f] = "copied" /\ i <= Len(log) /\ log[i].res # "pending"
        /\ rbuf[f] = Image(i) /\ rnext[f] = EndOf(i)
    BY DEF Advance, IInv, Reading
  <1>4. /\ Len(log) \in Nat /\ d \in Nat /\ i \in 1 .. Len(log)
        /\ i \in d .. Len(log)
        /\ head \in Nat /\ tail \in Nat
    BY <1>3, LineFacts DEF IInv, TypeOK, RingType
  <1>5. tail' = EndOf(i) /\ tail <= EndOf(i) /\ EndOf(i) \in Nat
    <2>1. tail' = EndOf(i)
      BY <1>3 DEF Advance
    <2>2. /\ \A j \in 0 .. Len(log) : EndOf(j) \in Nat
          /\ \A j \in d .. Len(log) : tail <= EndOf(j)
      BY LineFacts DEF IInv
    <2> QED BY <2>1, <2>2, <1>4
  <1>6. /\ got' = Append(got, Image(i)) /\ got \in Seq(Seq(Cells))
    BY <1>3 DEF Advance, IInv, TypeOK, LogType
  <1>7. /\ Len(got') = i
        /\ \A k \in 1 .. d : got'[k] = got[k]
        /\ got'[i] = Image(i)
    BY <1>6
  <1>8. /\ \A j : UNCHANGED EndOf(j)
        /\ \A j : UNCHANGED HeaderOf(j)
        /\ \A j : UNCHANGED Image(j)
    BY <1>2 DEF EndOf, HeaderOf, Image
  <1>9. /\ Unread' \subseteq Unread
        /\ \A k \in Unread : k # i => k \in Unread'
    BY <1>2, <1>4, <1>7 DEF Unread
  <1>10. Layout'
    BY <1>2, <1>8 DEF IInv, Layout
  <1>11. Chain'
    <2>1. Len(got') <= Len(log') /\ tail' = EndOf(Len(got))'
      BY <1>2, <1>4, <1>5, <1>7, <1>8
    <2>2. head' <= tail' + RingSize
      BY <1>2, <1>4, <1>5 DEF IInv, Chain
    <2>3. \A j \in Len(got') .. Len(log') - 1 : j \in d .. Len(log) - 1
      BY <1>2, <1>4, <1>7
    <2>4. \A j \in Len(got') .. Len(log') - 1 :
            Link(EndOf(j), log[j + 1].off)
      BY <2>3 DEF IInv, Chain
    <2>5. \A j \in Len(got') .. Len(log') - 1 :
            LinkIn(ring', EndOf(j)', log'[j + 1].off)
      BY <2>4, <1>2, <1>8 DEF Link
    <2>6. LinkIn(ring', EndOf(Len(log))', head')
      BY <1>2, <1>8 DEF IInv, Chain, Link
    <2>7. lock' = None => head' = EndOf(Len(log))'
      BY <1>2, <1>8 DEF IInv, Chain
    <2> QED BY <2>1, <2>2, <2>5, <2>6, <2>7 DEF Chain, Link
  <1>12. Contents'
    BY <1>2, <1>8, <1>9 DEF IInv, Contents
  <1>13. Owners'
    <2>1. \A b \in Bios : slot[b] # 0 => slot[b] \in Unread'
      BY <1>3, <1>9 DEF IInv, Owners
    <2> QED BY <1>2, <2>1 DEF IInv, Owners
  <1>14. Padded'
    <2>1. \A b \in Bios : lock = b => Need(breq[b]) \in Nat
      BY BusyRequest DEF IInv, Padded
    <2> QED BY <1>2, <1>4, <1>5, <2>1 DEF IInv, Padded
  <1>15. Counters'
    BY <1>2 DEF IInv, Counters
  <1>16. Reading'
    <2>1. /\ rst'[f] = "scan" /\ readLock = f
          /\ \A g \in Files : g # f => rst'[g] = rst[g] /\ rst[g] # "copied"
      BY <1>3 DEF Advance, IInv, TypeOK, ReadType, Reading
    <2> QED BY <1>2, <2>1 DEF IInv, Reading
  <1>17. StreamFaithful'
    <2>1. \A k \in 1 .. Len(got') : k \in 1 .. d \/ k = i
      BY <1>4, <1>7
    <2>2. Len(got') <= Len(log')
      BY <1>2, <1>4, <1>7
    <2>3. \A k \in 1 .. Len(got') :
            log'[k].res # "pending" /\ got'[k] = Image(k)'
      BY <1>2, <1>3, <1>7, <1>8, <2>1 DEF IInv, StreamFaithful
    <2> QED BY <2>2, <2>3 DEF StreamFaithful
  <1> QED BY <1>1, <1>10, <1>11, <1>12, <1>13, <1>14, <1>15, <1>16, <1>17
          DEF IInv

-----------------------------------------------------------------------------
(* The steps of a producer.                                                *)

\* What is written from head on, within the free space and the ring, is not in
\* the cell of any offset between tail and head.
LEMMA BeyondHead ==
    ASSUME TypeOK, Chain, NEW R, NEW n \in Nat,
           (head % RingSize) + n <= RingSize, head + n <= tail + RingSize,
           \A x \in 0 .. RingSize - 1 :
              ~(x - (head % RingSize) \in 0 .. n - 1) => R[x] = ring[x]
    PROVE  \A v \in tail .. head - 1 : R[v % RingSize] = ring[v % RingSize]
  <1> TAKE v \in tail .. head - 1
  <1> DEFINE c == head % RingSize
             x == v % RingSize
             k == x - c
  <1>1. /\ head \in Nat /\ tail \in Nat /\ head <= tail + RingSize
        /\ RingSize \in Nat /\ RingSize > 0
    BY GeometryType DEF TypeOK, RingType, Chain
  <1>2. v \in Nat /\ tail <= v /\ v < head /\ v < tail + RingSize
    BY <1>1
  <1>3. x \in 0 .. RingSize - 1 /\ c \in 0 .. RingSize - 1
    BY <1>1, <1>2, PosType
  <1>4. ~(k \in 0 .. n - 1)
    <2> SUFFICES ASSUME k \in 0 .. n - 1 PROVE FALSE
      OBVIOUS
    <2>1. k \in Nat /\ c + k = x /\ c + k < RingSize
      <3> HIDE DEF c, x
      <3> QED BY <1>1, <1>3
    <2>2. (head + k) % RingSize = x
      <3> HIDE DEF k, x
      <3> QED BY <2>1, <1>1, ModShift
    <2>3. tail <= head + k /\ head + k < tail + RingSize /\ head + k \in Nat
      <3>1. k < n
        BY <2>1
      <3> HIDE DEF k
      <3> QED BY <1>1, <1>2, <2>1, <3>1
    <2>4. v = head + k
      <3> HIDE DEF k
      <3> QED BY <1>1, <1>2, <2>2, <2>3, ModUnique DEF x
    <2> HIDE DEF k
    <2> QED BY <2>4, <2>1, <1>1, <1>2
  <1> QED BY <1>3, <1>4

\* If the cells of the offsets from tail to head are kept, so is every unread
\* record and every link.
LEMMA LineKept ==
    ASSUME TypeOK, Layout, Chain, NEW R,
           \A v \in tail .. head - 1 : R[v % RingSize] = ring[v % RingSize]
    PROVE  /\ \A i \in Unread : \A k \in 0 .. log[i].need - 1 :
                R[(log[i].off % RingSize) + k]
                  = ring[(log[i].off % RingSize) + k]
           /\ \A j \in Len(got) .. Len(log) - 1 :
                LinkIn(R, EndOf(j), log[j + 1].off)
           /\ LinkIn(R, EndOf(Len(log)), head)
  <1>1. \A i \in Unread : \A k \in 0 .. log[i].need - 1 :
          R[(log[i].off % RingSize) + k] = ring[(log[i].off % RingSize) + k]
    <2> TAKE i \in Unread
    <2> TAKE k \in 0 .. log[i].need - 1
    <2>1. /\ log[i].off + k \in tail .. head - 1
          /\ (log[i].off + k) % RingSize = (log[i].off % RingSize) + k
      BY RecordCells
    <2> QED BY <2>1
  <1>2. head \in Nat /\ tail \in Nat
    BY DEF TypeOK, RingType
  <1>3. ASSUME NEW p \in Nat, NEW q \in Nat, tail <= p, q <= head, Link(p, q)
        PROVE  LinkIn(R, p, q)
    <2>1. CASE p = q
      BY <2>1 DEF LinkIn
    <2>2. CASE p # q
      <3>1. p % RingSize \in 0 .. RingSize - 1
        BY PosType
      <3>2. q = p + (RingSize - (p % RingSize))
        BY <1>3, <2>2 DEF Link, LinkIn
      <3>3. p \in tail .. head - 1
        <4> DEFINE m == p % RingSize
        <4>1. m \in 0 .. RingSize - 1 /\ q = p + (RingSize - m)
          BY <3>1, <3>2
        <4> HIDE DEF m
        <4> QED BY <1>2, <1>3, <4>1
      <3>4. R[p % RingSize] = ring[p % RingSize]
        BY <3>3
      <3> QED BY <1>3, <3>4 DEF Link, LinkIn
    <2> QED BY <2>1, <2>2
  <1>4. \A j \in Len(got) .. Len(log) - 1 :
          LinkIn(R, EndOf(j), log[j + 1].off)
    <2> TAKE j \in Len(got) .. Len(log) - 1
    <2>1. /\ j \in 0 .. Len(log) /\ j \in Len(got) .. Len(log)
          /\ j + 1 \in 1 .. Len(log) /\ j + 1 \in Unread
      BY LineFacts DEF Unread
    <2>2. EndOf(j) \in Nat /\ tail <= EndOf(j)
      BY <2>1, LineFacts
    <2>3. log[j + 1].off \in Nat /\ log[j + 1].off <= head
      <3>1. /\ log[j + 1].off \in Nat /\ log[j + 1].need \in Nat
            /\ log[j + 1].off + log[j + 1].need <= head
        BY <2>1, LineFacts DEF Layout
      <3> QED BY <1>2, <3>1
    <2>4. Link(EndOf(j), log[j + 1].off)
      BY DEF Chain
    <2> QED BY <1>3, <2>2, <2>3, <2>4
  <1>5. LinkIn(R, EndOf(Len(log)), head)
    <2>1. EndOf(Len(log)) \in Nat /\ tail <= EndOf(Len(log))
      BY LineFacts
    <2>2. Link(EndOf(Len(log)), head)
      BY DEF Chain
    <2> QED BY <1>2, <1>3, <2>1, <2>2
  <1> QED BY <1>1, <1>4, <1>5

\* The memory mem holds record i as the log says it must be.
Held(mem, i) ==
    /\ mem[log[i].off % RingSize] = HeaderOf(i)
    /\ \A k \in 1 .. log[i].need - 1 :
         k < HdrSize \/ log[i].copied
           => mem[(log[i].off % RingSize) + k] = Dat(i, k)

\* Memory that agrees with the ring on the cells of a record holds it.
LEMMA RecordHeld ==
    ASSUME TypeOK, Layout, Chain, Contents, NEW i \in Unread, NEW R,
           \A k \in 0 .. log[i].need - 1 :
              R[(log[i].off % RingSize) + k]
                = ring[(log[i].off % RingSize) + k]
    PROVE  Held(R, i)
  <1>1. /\ log[i].off \in Nat /\ log[i].need \in Nat
        /\ log[i].need >= HdrSize
    BY LineFacts
  <1>2. /\ 0 \in 0 .. log[i].need - 1
        /\ \A k \in 1 .. log[i].need - 1 : k \in 0 .. log[i].need - 1
    BY <1>1
  <1>3. (log[i].off % RingSize) + 0 = log[i].off % RingSize
    BY <1>1, PosType
  <1> QED BY <1>2, <1>3 DEF Contents, Held

\* Moving head over the padding preserves the invariant.
LEMMA ReservePadInv ==
    ASSUME IInv, NEW b \in Bios, ReservePad(b)
    PROVE  IInv'
  <1> DEFINE pad == Pad(breq[b])
             need == Need(breq[b])
             c == head % RingSize
  <1>1. TypeOK'
    BY ReservePadType DEF IInv
  <1>2. UNCHANGED <<tail, log, got, seqNext, gapPending, lost, slot, off,
                    breq, pb>>
    BY DEF ReservePad
  <1>3. UNCHANGED <<rst, readLock, rbuf, rnext>>
    BY DEF ReservePad, readVars
  <1>4. /\ bst[b] = "log" /\ lock = None /\ ~TooBig(breq[b])
        /\ need + pad <= RingSize - (head - tail) /\ pad > 0
    BY DEF ReservePad, Reserving, Fits, Free
  <1>5. /\ head \in Nat /\ tail \in Nat /\ RingSize \in Nat /\ RingSize > 0
        /\ c \in 0 .. RingSize - 1
        /\ need \in Nat /\ need >= HdrSize
    BY <1>4, BusyRequest, GeometryType, PosType DEF IInv, TypeOK, RingType
  <1>6. pad = RingSize - c
    BY <1>4 DEF Pad
  <1>7. head' = head + pad /\ lock' = b
    BY DEF ReservePad
  <1>8. \A v \in tail .. head - 1 : ring'[v % RingSize] = ring[v % RingSize]
    <2>1. CASE pad < HdrSize
      BY <2>1 DEF ReservePad, PadStored
    <2>2. CASE ~(pad < HdrSize)
      <3>1. \A x \in 0 .. RingSize - 1 :
              ~(x - c \in 0 .. HdrSize - 1) => ring'[x] = ring[x]
        BY <2>2 DEF ReservePad, PadStored, Stored
      <3>2. c + HdrSize <= RingSize /\ head + HdrSize <= tail + RingSize
        <4> HIDE DEF c, pad, need
        <4> QED BY <2>2, <1>4, <1>5, <1>6
      <3> QED BY <3>1, <3>2, BeyondHead DEF IInv
    <2> QED BY <2>1, <2>2
  <1>9. pad < HdrSize \/ ring'[c] = PadHeader(pad)
    <2> SUFFICES ASSUME ~(pad < HdrSize) PROVE ring'[c] = PadHeader(pad)
      OBVIOUS
    <2>1. c - c = 0 /\ 0 \in 0 .. HdrSize - 1
      BY <1>5
    <2> QED BY <2>1, <1>5 DEF ReservePad, PadStored, Stored
  <1>10. /\ UNCHANGED Unread
         /\ \A j : UNCHANGED EndOf(j)
         /\ \A j : UNCHANGED HeaderOf(j)
         /\ \A j : UNCHANGED Image(j)
    BY <1>2 DEF Unread, EndOf, HeaderOf, Image
  <1>11. /\ head' \in Nat /\ head' >= head /\ head' <= tail + RingSize
         /\ head' + need <= tail + RingSize
    <2> HIDE DEF pad, need
    <2> QED BY <1>4, <1>5, <1>6, <1>7
  <1>12. Layout'
    <2>1. \A i \in 1 .. Len(log) : log[i].off + log[i].need <= head'
      <3> TAKE i \in 1 .. Len(log)
      <3>1. /\ log[i].off \in Nat /\ log[i].need \in Nat
            /\ log[i].off + log[i].need <= head
        BY LineFacts DEF IInv, Layout
      <3>2. head \in Nat /\ head' \in Nat /\ head' >= head
        BY <1>5, <1>11
      <3> QED BY <3>1, <3>2
    <2> QED BY <1>2, <1>10, <2>1 DEF IInv, Layout
  <1>13. Chain'
    <2>1. \A j \in Len(got) .. Len(log) - 1 :
            LinkIn(ring', EndOf(j), log[j + 1].off)
      BY <1>8, LineKept DEF IInv
    <2>2. LinkIn(ring', EndOf(Len(log)), head')
      <3>1. EndOf(Len(log)) = head
        BY <1>4 DEF IInv, Chain
      <3> QED BY <3>1, <1>6, <1>7, <1>9 DEF LinkIn
    <2>3. lock' # None
      BY <1>7, InputsAssumption
    <2>4. Len(got) <= Len(log) /\ tail = EndOf(Len(got))
      BY DEF IInv, Chain
    <2> QED BY <1>2, <1>10, <1>11, <2>1, <2>2, <2>3, <2>4 DEF Chain, Link
  <1>14. Contents'
    <2>1. \A i \in Unread : \A k \in 0 .. log[i].need - 1 :
            ring'[(log[i].off % RingSize) + k]
              = ring[(log[i].off % RingSize) + k]
      BY <1>8, LineKept DEF IInv
    <2>2. \A i \in Unread : Held(ring', i)
      BY <2>1, RecordHeld DEF IInv
    <2> QED BY <1>2, <1>10, <2>2 DEF Contents, Held
  <1>15. slot[b] = 0
    BY <1>4 DEF IInv, Owners
  <1>16. /\ bst'[b] = "padded"
         /\ \A x \in Bios : x # b => bst'[x] = bst[x]
    BY DEF ReservePad, IInv, TypeOK, BioType
  <1>17. Owners'
    BY <1>2, <1>4, <1>10, <1>15, <1>16 DEF IInv, Owners
  <1>18. Padded'
    <2>1. head' % RingSize = 0
      BY <1>5, <1>6, <1>7, ModBoundary
    <2> QED BY <1>2, <1>4, <1>7, <1>11, <1>16, <2>1, InputsAssumption
            DEF IInv, Padded
  <1>19. Counters' /\ StreamFaithful'
    BY <1>2, <1>10 DEF IInv, Counters, StreamFaithful
  <1>20. Reading'
    BY <1>2, <1>3, <1>10 DEF IInv, Reading
  <1> QED BY <1>1, <1>12, <1>13, <1>14, <1>17, <1>18, <1>19, <1>20 DEF IInv

\* Publishing a new record preserves the invariant.
LEMMA ReserveInv ==
    ASSUME IInv, NEW b \in Bios, ReserveRecord(b)
    PROVE  IInv'
  <1> DEFINE r == breq[b]
             need == Need(r)
             c == head % RingSize
             n == Len(log)
             e == [req |-> r, off |-> head, need |-> need, lost |-> lost,
                   copied |-> FALSE, res |-> "pending"]
  <1>1. TypeOK'
    BY ReserveType DEF IInv
  <1>2. UNCHANGED <<tail, got, breq, pb>>
    BY DEF ReserveRecord
  <1>3. UNCHANGED <<rst, readLock, rbuf, rnext>>
    BY DEF ReserveRecord, readVars
  <1>4. /\ bst[b] \in {"log", "padded"} /\ slot[b] = 0
        /\ lock \in {None, b}
    BY DEF ReserveRecord, Reserving, IInv, Owners
  <1>5. /\ head \in Nat /\ tail \in Nat /\ RingSize \in Nat /\ RingSize > 0
        /\ c \in 0 .. RingSize - 1
        /\ r \in Requests /\ need \in Nat /\ need >= HdrSize
        /\ r.type \in LoggedTypes
    BY <1>4, BusyRequest, GeometryType, PosType
       DEF IInv, TypeOK, RingType, BioType
  <1>6. /\ ~TooBig(r) /\ c + need <= RingSize
        /\ head + need <= tail + RingSize
    <2>1. CASE bst[b] = "padded" /\ lock = b
      <3>1. ~TooBig(r) /\ c = 0 /\ head + need <= tail + RingSize
        BY <2>1 DEF IInv, Padded
      <3>2. need <= RingSize
        BY <3>1, <1>5 DEF TooBig
      <3> HIDE DEF c, need
      <3> QED BY <3>1, <3>2, <1>5
    <2>2. CASE ~TooBig(r) /\ Fits(r) /\ Pad(r) = 0
      <3>1. c + need <= RingSize
        <4>1. CASE c + need > RingSize
          <5>1. RingSize - c = 0
            BY <2>2, <4>1 DEF Pad
          <5> HIDE DEF c, need
          <5> QED BY <5>1, <1>5
        <4> HIDE DEF c, need
        <4> QED BY <4>1, <1>5
      <3>2. need <= RingSize - (head - tail)
        BY <2>2, <1>5 DEF Fits, Free
      <3> HIDE DEF c, need
      <3> QED BY <2>2, <3>1, <3>2, <1>5
    <2> QED BY <2>1, <2>2 DEF ReserveRecord, Reserving
  <1>7. /\ head' = head + need /\ lock' = None
        /\ off' = [off EXCEPT ![b] = head]
        /\ slot' = [slot EXCEPT ![b] = n + 1]
        /\ bst' = [bst EXCEPT ![b] = "reserved"]
        /\ seqNext' = seqNext + 1 /\ gapPending' = FALSE /\ lost' = FALSE
        /\ log' = Append(log, e)
    BY DEF ReserveRecord
  <1>8. /\ n \in Nat /\ Len(log') = n + 1 /\ log'[n + 1] = e
        /\ \A i \in 1 .. n : log'[i] = log[i]
    <2>1. log \in Seq(Entries) /\ e \in Entries
      BY <1>5 DEF IInv, TypeOK, LogType, RingType, Entries
    <2> HIDE DEF e
    <2> QED BY <1>7, <2>1
  <1>9. /\ e.off = head /\ e.need = need /\ e.req = r /\ e.lost = lost
        /\ e.copied = FALSE /\ e.res = "pending"
    OBVIOUS
  <1> HIDE DEF e
  <1>m. PICK m \in Nat : m = n + 1
    BY <1>8
  <1>10. /\ \A j \in 0 .. n : EndOf(j)' = EndOf(j)
         /\ EndOf(m)' = head + need
    <2>1. \A j \in 0 .. n : j # 0 => j \in 1 .. n
      BY <1>8
    <2>2. m # 0 /\ log'[m] = e
      BY <1>8, <1>m
    <2>3. \A j \in 0 .. n : EndOf(j)' = EndOf(j)
      BY <1>8, <2>1 DEF EndOf
    <2>4. EndOf(m)' = head + need
      BY <1>9, <2>2 DEF EndOf
    <2> QED BY <2>3, <2>4
  <1>11. \A i \in 1 .. n : HeaderOf(i)' = HeaderOf(i) /\ Image(i)' = Image(i)
    BY <1>8 DEF HeaderOf, Image
  <1>12. /\ n + 1 \in Unread' /\ \A i \in Unread' : i \in Unread \/ i = n + 1
         /\ \A i \in Unread : i \in Unread' /\ i \in 1 .. n
    BY <1>2, <1>8, LineFacts DEF Unread, IInv
  <1>13. \A v \in tail .. head - 1 : ring'[v % RingSize] = ring[v % RingSize]
    <2>1. \A x \in 0 .. RingSize - 1 :
            ~(x - c \in 0 .. HdrSize - 1) => ring'[x] = ring[x]
      BY DEF ReserveRecord, Stored
    <2>2. c + HdrSize <= RingSize /\ head + HdrSize <= tail + RingSize
      <3> HIDE DEF c, need
      <3> QED BY <1>5, <1>6
    <2> QED BY <2>1, <2>2, BeyondHead DEF IInv
  <1>14. head + need \in Nat /\ head' >= head
    BY <1>5, <1>7
  <1>15. Layout'
    <2>1. ASSUME NEW i \in 1 .. n
          PROVE  /\ log[i].req.type \in LoggedTypes
                 /\ log[i].need = Need(log[i].req)
                 /\ ~TooBig(log[i].req)
                 /\ (log[i].off % RingSize) + log[i].need <= RingSize
                 /\ log[i].off + log[i].need <= head'
                 /\ EndOf(i) <= head
      <3>1. /\ log[i].off \in Nat /\ log[i].need \in Nat
            /\ EndOf(i) = log[i].off + log[i].need
            /\ log[i].off + log[i].need <= head
        BY LineFacts DEF IInv, Layout
      <3>2. log[i].off + log[i].need <= head'
        BY <3>1, <1>5, <1>7, <1>14
      <3>3. EndOf(i) <= head
        BY <3>1
      <3> QED BY <3>2, <3>3 DEF IInv, Layout
    <2>2. ASSUME NEW i \in 1 .. Len(log')
          PROVE  /\ log'[i].req.type \in LoggedTypes
                 /\ log'[i].need = Need(log'[i].req)
                 /\ ~TooBig(log'[i].req)
                 /\ (log'[i].off % RingSize) + log'[i].need <= RingSize
                 /\ log'[i].off + log'[i].need <= head'
      <3>1. CASE i \in 1 .. n
        BY <3>1, <2>1, <1>8
      <3>2. CASE i = n + 1
        <4>1. head + need <= head'
          BY <1>7, <1>14
        <4> QED BY <3>2, <4>1, <1>5, <1>6, <1>8, <1>9
      <3> QED BY <3>1, <3>2, <1>8
    <2>3. ASSUME NEW i \in 1 .. Len(log'), NEW j \in 1 .. Len(log'), i < j
          PROVE  EndOf(i)' <= log'[j].off
      <3>1. i \in 1 .. n /\ i \in 0 .. n
        BY <2>3, <1>8
      <3>2. CASE j \in 1 .. n
        BY <3>1, <3>2, <2>3, <1>8, <1>10 DEF IInv, Layout
      <3>3. CASE j = n + 1
        BY <3>1, <3>3, <2>1, <1>8, <1>9, <1>10
      <3> QED BY <3>2, <3>3, <1>8
    <2> QED BY <2>2, <2>3 DEF Layout
  <1>16. Chain'
    <2>1. Len(got') <= Len(log') /\ Len(got) \in 0 .. n
      BY <1>2, <1>8, LineFacts DEF IInv
    <2>2. tail' = EndOf(Len(got))'
      BY <1>2, <1>10, <2>1 DEF IInv, Chain
    <2>3. head' <= tail' + RingSize
      BY <1>2, <1>6, <1>7
    <2>4. /\ \A j \in Len(got) .. n - 1 :
               LinkIn(ring', EndOf(j), log[j + 1].off)
          /\ LinkIn(ring', EndOf(n), head)
      BY <1>13, LineKept DEF IInv
    <2>5. ASSUME NEW j \in Len(got') .. Len(log') - 1
          PROVE  LinkIn(ring', EndOf(j)', log'[j + 1].off)
      <3>1. CASE j \in Len(got) .. n - 1
        <4>1. j \in 0 .. n /\ j + 1 \in 1 .. n
          BY <3>1, <1>8, <2>1
        <4> QED BY <3>1, <4>1, <2>4, <1>8, <1>10
      <3>2. CASE j = n
        <4>1. n \in 0 .. n
          BY <1>8
        <4> QED BY <3>2, <4>1, <2>4, <1>8, <1>9, <1>10
      <3> QED BY <3>1, <3>2, <1>2, <1>8, <2>1
    <2>6. EndOf(Len(log))' = head'
      BY <1>7, <1>8, <1>10, <1>m
    <2>7. LinkIn(ring', EndOf(Len(log))', head')
      BY <2>6 DEF LinkIn
    <2> QED BY <2>1, <2>2, <2>3, <2>5, <2>6, <2>7 DEF Chain, Link
  <1>17. Contents'
    <2>1. \A i \in Unread : Held(ring', i)
      BY <1>13, LineKept, RecordHeld DEF IInv
    <2>2. ASSUME NEW i \in Unread
          PROVE  /\ ring'[log'[i].off % RingSize] = HeaderOf(i)'
                 /\ \A k \in 1 .. log'[i].need - 1 :
                      k < HdrSize \/ log'[i].copied
                        => ring'[(log'[i].off % RingSize) + k] = Dat(i, k)
      BY <2>1, <1>8, <1>11, <1>12 DEF Held
    <2>3. \A k \in 0 .. HdrSize - 1 : ring'[c + k] = NewHeader(r, k, n + 1)
      <3> TAKE k \in 0 .. HdrSize - 1
      <3>1. c + k \in 0 .. RingSize - 1 /\ (c + k) - c = k
        <4> HIDE DEF c, need
        <4> QED BY <1>5, <1>6
      <3>2. ring' = [x \in 0 .. RingSize - 1 |->
                       IF x - c \in 0 .. HdrSize - 1
                       THEN NewHeader(r, x - c, n + 1) ELSE ring[x]]
        BY DEF ReserveRecord, Stored
      <3> HIDE DEF c, r, n
      <3> QED BY <3>1, <3>2
    <2>4. ring'[c] = HeaderOf(m)'
      <3>1. ring'[c] = NewHeader(r, 0, n + 1)
        <4>1. 0 \in 0 .. HdrSize - 1 /\ c + 0 = c
          <5> HIDE DEF c
          <5> QED BY <1>5
        <4> QED BY <4>1, <2>3
      <3>2. seqNext = n /\ gapPending = lost
        BY DEF IInv, Counters
      <3>3. m - 1 = n /\ log'[m] = e
        BY <1>8, <1>m
      <3>4. ring'[c] = [kind |-> "hdr", type |-> r.type, seq |-> n,
                        sector |-> r.sector, len |-> r.len,
                        rec_len |-> need, state |-> "RESERVED",
                        gap |-> lost, err |-> FALSE]
        BY <3>1, <3>2 DEF NewHeader
      <3>5. /\ log'[m].req = r /\ log'[m].need = need
            /\ log'[m].lost = lost /\ log'[m].copied = FALSE
            /\ log'[m].res = "pending"
        BY <3>3, <1>9
      <3>6. (log'[m].res = "error") = FALSE
        BY <3>5
      <3> HIDE DEF r, n, need, c
      <3> QED BY <3>3, <3>4, <3>5, <3>6 DEF HeaderOf
    <2>5. \A k \in 1 .. need - 1 : k < HdrSize => ring'[c + k] = Dat(n + 1, k)
      <3> TAKE k \in 1 .. need - 1
      <3> HAVE k < HdrSize
      <3>1. k \in 0 .. HdrSize - 1 /\ k > 0
        BY <1>5
      <3> QED BY <3>1, <2>3 DEF NewHeader
    <2>6. /\ ring'[log'[m].off % RingSize] = HeaderOf(m)'
          /\ \A k \in 1 .. log'[m].need - 1 :
               k < HdrSize \/ log'[m].copied
                 => ring'[(log'[m].off % RingSize) + k] = Dat(m, k)
      BY <1>8, <1>9, <1>m, <2>4, <2>5
    <2>7. \A i \in Unread' : i \in Unread \/ i = m
      BY <1>12, <1>m
    <2> QED BY <2>2, <2>6, <2>7 DEF Contents
  <1>18. /\ slot'[b] = n + 1 /\ off'[b] = head /\ bst'[b] = "reserved"
         /\ \A x \in Bios : x # b => /\ slot'[x] = slot[x] /\ off'[x] = off[x]
                                     /\ bst'[x] = bst[x]
    BY <1>7 DEF IInv, TypeOK, BioType, LogType
  <1>19. Owners'
    <2>1. \A x \in Bios : slot[x] # 0 => slot[x] \in 1 .. n
      BY <1>12 DEF IInv, Owners
    <2>2. n + 1 # 0 /\ n + 1 \notin 1 .. n
      BY <1>8
    <2>3. ASSUME NEW x \in Bios, x # b, slot[x] # 0
          PROVE  /\ slot'[x] \in Unread'
                 /\ log'[slot'[x]] = log[slot[x]]
      BY <2>1, <2>3, <1>8, <1>12, <1>18 DEF IInv, Owners
    <2>4. \A i \in 1 .. Len(log') : log'[i].res # "pending" => log'[i].copied
      <3>1. \A i \in 1 .. Len(log') : i \in 1 .. n \/ i = n + 1
        BY <1>8
      <3> QED BY <3>1, <1>8, <1>9 DEF IInv, Owners
    <2>5. \A x, y \in Bios : slot'[x] # 0 /\ slot'[x] = slot'[y] => x = y
      BY <2>1, <2>2, <1>18 DEF IInv, Owners
    <2>6. ASSUME NEW x \in Bios
          PROVE  /\ slot'[x] # 0 =>
                      /\ slot'[x] \in Unread'
                      /\ log'[slot'[x]].off = off'[x]
                      /\ log'[slot'[x]].req = breq'[x]
                      /\ log'[slot'[x]].res = "pending"
                      /\ \/ bst'[x] = "reserved" /\ ~log'[slot'[x]].copied
                         \/ /\ bst'[x] = "inflight" /\ log'[slot'[x]].copied
                            /\ pb'[x].logged /\ pb'[x].rec_off = off'[x]
                 /\ slot'[x] = 0 => /\ bst'[x] # "reserved"
                                    /\ bst'[x] # "free" => ~pb'[x].logged
      <3>1. CASE x = b
        BY <3>1, <2>2, <1>2, <1>8, <1>9, <1>12, <1>18
      <3>2. CASE x # b
        BY <3>2, <2>3, <1>2, <1>18 DEF IInv, Owners
      <3> QED BY <3>1, <3>2
    <2> QED BY <2>4, <2>5, <2>6 DEF Owners
  <1>20. Padded'
    BY <1>4, <1>7, <1>18, InputsAssumption DEF IInv, Padded
  <1>21. Counters'
    BY <1>7, <1>8 DEF IInv, Counters
  <1>22. Reading'
    <2>0. PICK i \in Nat : i = Len(got) + 1
      BY LineFacts DEF IInv
    <2>1. ASSUME NEW f \in Files, rst[f] = "copied"
          PROVE  /\ i <= Len(log') /\ log'[i].res # "pending"
                 /\ rbuf[f] = Image(i)' /\ rnext[f] = EndOf(i)'
      <3>1. /\ i <= n /\ log[i].res # "pending"
            /\ rbuf[f] = Image(i) /\ rnext[f] = EndOf(i)
        BY <2>0, <2>1 DEF IInv, Reading
      <3>2. i \in 1 .. n /\ i \in 0 .. n /\ i <= Len(log')
        BY <2>0, <3>1, <1>8, LineFacts DEF IInv
      <3> QED BY <3>1, <3>2, <1>8, <1>10, <1>11
    <2>2. Len(got') + 1 = i
      BY <2>0, <1>2
    <2> QED BY <1>2, <1>3, <2>1, <2>2 DEF IInv, Reading
  <1>23. StreamFaithful'
    <2>1. Len(got) <= n /\ Len(got) \in Nat
      BY LineFacts DEF IInv
    <2>2. \A i \in 1 .. Len(got) : i \in 1 .. n
      BY <2>1, <1>8
    <2>3. Len(got') <= Len(log')
      BY <2>1, <1>2, <1>8
    <2>4. \A i \in 1 .. Len(got') :
            log'[i].res # "pending" /\ got'[i] = Image(i)'
      BY <2>2, <1>2, <1>8, <1>11 DEF IInv, StreamFaithful
    <2> QED BY <2>3, <2>4 DEF StreamFaithful
  <1> QED BY <1>1, <1>15, <1>16, <1>17, <1>19, <1>20, <1>21, <1>22, <1>23
          DEF IInv

\* A store into the cells of one unread record is not in the cell of any other
\* offset between tail and head.
LEMMA InsideRecord ==
    ASSUME TypeOK, Layout, Chain, NEW m \in Unread, NEW R,
           \A x \in 0 .. RingSize - 1 :
              ~(x - (log[m].off % RingSize) \in 0 .. log[m].need - 1)
                => R[x] = ring[x]
    PROVE  \A v \in tail .. head - 1 :
              v < log[m].off \/ v >= EndOf(m)
                => R[v % RingSize] = ring[v % RingSize]
  <1> TAKE v \in tail .. head - 1
  <1> HAVE v < log[m].off \/ v >= EndOf(m)
  <1> DEFINE o == log[m].off
             c == o % RingSize
             x == v % RingSize
             k == x - c
  <1>1. /\ head \in Nat /\ tail \in Nat /\ head <= tail + RingSize
        /\ RingSize \in Nat /\ RingSize > 0
    BY GeometryType DEF TypeOK, RingType, Chain
  <1>2. v \in Nat /\ tail <= v /\ v < tail + RingSize
    BY <1>1
  <1>3. /\ o \in Nat /\ log[m].need \in Nat /\ EndOf(m) = o + log[m].need
    BY LineFacts
  <1>4. x \in 0 .. RingSize - 1 /\ c \in 0 .. RingSize - 1
    BY <1>2, <1>3, PosType
  <1>5. ~(k \in 0 .. log[m].need - 1)
    <2> SUFFICES ASSUME k \in 0 .. log[m].need - 1 PROVE FALSE
      OBVIOUS
    <2>1. /\ o + k \in tail .. head - 1 /\ (o + k) % RingSize = c + k
      BY RecordCells
    <2>2. c + k = x
      <3> HIDE DEF c, x
      <3> QED BY <1>4
    <2>3. /\ tail <= o + k /\ o + k < tail + RingSize /\ o + k \in Nat
          /\ o <= o + k /\ o + k < EndOf(m)
      <3> HIDE DEF k, o
      <3> QED BY <1>1, <1>3, <2>1
    <2>4. v = o + k
      <3> HIDE DEF k, o, c
      <3> QED BY <1>1, <1>2, <2>1, <2>2, <2>3, ModUnique DEF x
    <2> HIDE DEF k, o
    <2> QED BY <2>3, <2>4, <1>3 DEF o
  <1> QED BY <1>4, <1>5

\* A store into one unread record keeps the other records and the links.
LEMMA OthersKept ==
    ASSUME TypeOK, Layout, Chain, NEW m \in Unread, NEW R,
           \A x \in 0 .. RingSize - 1 :
              ~(x - (log[m].off % RingSize) \in 0 .. log[m].need - 1)
                => R[x] = ring[x]
    PROVE  /\ \A i \in Unread : i # m =>
                \A k \in 0 .. log[i].need - 1 :
                  R[(log[i].off % RingSize) + k]
                    = ring[(log[i].off % RingSize) + k]
           /\ \A j \in Len(got) .. Len(log) - 1 :
                LinkIn(R, EndOf(j), log[j + 1].off)
           /\ LinkIn(R, EndOf(Len(log)), head)
  <1>1. \A v \in tail .. head - 1 :
          v < log[m].off \/ v >= EndOf(m)
            => R[v % RingSize] = ring[v % RingSize]
    BY InsideRecord
  <1>2. /\ head \in Nat /\ tail \in Nat
        /\ m \in 1 .. Len(log) /\ log[m].off \in Nat /\ EndOf(m) \in Nat
        /\ log[m].off <= EndOf(m)
        /\ Len(log) \in Nat /\ Len(got) \in Nat
    <2>1. /\ m \in 1 .. Len(log) /\ log[m].off \in Nat
          /\ log[m].need \in Nat /\ EndOf(m) = log[m].off + log[m].need
          /\ Len(log) \in Nat /\ Len(got) \in Nat
      BY LineFacts
    <2>2. EndOf(m) \in Nat /\ log[m].off <= EndOf(m)
      BY <2>1
    <2> QED BY <2>1, <2>2 DEF TypeOK, RingType
  <1>3. ASSUME NEW i \in Unread, i # m, NEW k \in 0 .. log[i].need - 1
        PROVE  R[(log[i].off % RingSize) + k]
                 = ring[(log[i].off % RingSize) + k]
    <2>1. /\ log[i].off + k \in tail .. head - 1
          /\ (log[i].off + k) % RingSize = (log[i].off % RingSize) + k
      BY RecordCells
    <2>2. /\ i \in 1 .. Len(log) /\ log[i].off \in Nat
          /\ log[i].need \in Nat /\ EndOf(i) = log[i].off + log[i].need
      BY LineFacts
    <2>3. EndOf(i) <= log[m].off \/ EndOf(m) <= log[i].off
      BY <1>2, <1>3, <2>2 DEF Layout
    <2>4. log[i].off + k < log[m].off \/ log[i].off + k >= EndOf(m)
      BY <1>2, <2>2, <2>3, SMTT(30)
    <2> QED BY <1>1, <2>1, <2>4
  <1>4. ASSUME NEW p \in Nat, NEW q \in Nat, tail <= p, q <= head, Link(p, q),
               q <= log[m].off \/ p >= EndOf(m)
        PROVE  LinkIn(R, p, q)
    <2>1. CASE p = q
      BY <2>1 DEF LinkIn
    <2>2. CASE p # q
      <3> DEFINE c == p % RingSize
      <3>1. c \in 0 .. RingSize - 1 /\ q = p + (RingSize - c)
        BY <1>4, <2>2, PosType DEF Link, LinkIn
      <3>2. p \in tail .. head - 1 /\ (p < log[m].off \/ p >= EndOf(m))
        <4> HIDE DEF c
        <4> QED BY <1>2, <1>4, <3>1, SMTT(30)
      <3>3. R[c] = ring[c]
        BY <1>1, <3>2
      <3> QED BY <1>4, <3>3 DEF Link, LinkIn
    <2> QED BY <2>1, <2>2
  <1>5. ASSUME NEW j \in 0 .. Len(log), m <= j
        PROVE  EndOf(m) <= EndOf(j)
    <2>1. CASE j = m
      BY <2>1, <1>2
    <2>2. CASE j # m
      <3>1. j \in 1 .. Len(log) /\ m < j /\ m \in 0 .. Len(log)
        BY <1>2, <1>5, <2>2
      <3>2. /\ EndOf(m) <= log[j].off /\ log[j].off \in Nat
            /\ log[j].need \in Nat /\ EndOf(j) = log[j].off + log[j].need
        BY <3>1, LineFacts
      <3> QED BY <3>2, <1>2
    <2> QED BY <2>1, <2>2
  <1>6. ASSUME NEW j \in Len(got) .. Len(log) - 1
        PROVE  LinkIn(R, EndOf(j), log[j + 1].off)
    <2>1. /\ j \in 0 .. Len(log) /\ j \in Len(got) .. Len(log)
          /\ j + 1 \in 1 .. Len(log)
      BY <1>2
    <2>2. EndOf(j) \in Nat /\ tail <= EndOf(j)
      BY <2>1, LineFacts
    <2>3. /\ log[j + 1].off \in Nat /\ log[j + 1].need \in Nat
          /\ log[j + 1].off + log[j + 1].need <= head
          /\ EndOf(j + 1) = log[j + 1].off + log[j + 1].need
      BY <2>1, LineFacts DEF Layout
    <2>4. log[j + 1].off <= log[m].off \/ EndOf(j) >= EndOf(m)
      <3>1. CASE m <= j
        BY <3>1, <2>1, <2>2, <1>2, <1>5
      <3>2. CASE m = j + 1
        BY <3>2, <1>2
      <3>3. CASE j + 1 < m
        <4>1. EndOf(j + 1) <= log[m].off
          BY <3>3, <2>1, <1>2 DEF Layout
        <4> QED BY <4>1, <2>3, <1>2
      <3> QED BY <3>1, <3>2, <3>3, <1>2
    <2>5. Link(EndOf(j), log[j + 1].off)
      BY DEF Chain
    <2>6. log[j + 1].off <= head
      BY <2>3, <1>2, SMTT(30)
    <2> QED BY <1>4, <2>2, <2>3, <2>4, <2>5, <2>6
  <1>7. LinkIn(R, EndOf(Len(log)), head)
    <2>1. /\ EndOf(Len(log)) \in Nat /\ tail <= EndOf(Len(log))
      BY <1>2, LineFacts
    <2>2. Link(EndOf(Len(log)), head)
      BY DEF Chain
    <2>3. EndOf(m) <= EndOf(Len(log))
      BY <1>2, <1>5
    <2> QED BY <1>2, <1>4, <2>1, <2>2, <2>3
  <1> QED BY <1>3, <1>6, <1>7

\* A change of one entry of the log leaves the others.
LEMMA EntryChanged ==
    ASSUME TypeOK, NEW m \in 1 .. Len(log), NEW v \in Entries,
           log' = [log EXCEPT ![m] = v]
    PROVE  /\ Len(log') = Len(log) /\ log'[m] = v
           /\ \A i \in 1 .. Len(log) : i # m => log'[i] = log[i]
  <1>1. log \in Seq(Entries)
    BY DEF TypeOK, LogType
  <1> QED BY <1>1

\* The state of one unread record moves on, in the ring and in the log.
LEMMA WriteInside ==
    ASSUME IInv, NEW m \in Unread,
           UNCHANGED <<head, tail, lock, got>>, Len(log') = Len(log),
           \A i \in 1 .. Len(log) : i # m => log'[i] = log[i],
           /\ log'[m].req = log[m].req /\ log'[m].off = log[m].off
           /\ log'[m].need = log[m].need,
           \A x \in 0 .. RingSize - 1 :
              ~(x - (log[m].off % RingSize) \in 0 .. log[m].need - 1)
                => ring'[x] = ring[x],
           ring'[log[m].off % RingSize] = HeaderOf(m)',
           \A k \in 1 .. log[m].need - 1 :
              k < HdrSize \/ log'[m].copied
                => ring'[(log[m].off % RingSize) + k] = Dat(m, k)
    PROVE  /\ Layout' /\ Chain' /\ Contents' /\ StreamFaithful'
           /\ UNCHANGED Unread
           /\ \A i \in 1 .. Len(log) : i # m => UNCHANGED Image(i)
           /\ \A j \in 0 .. Len(log) : UNCHANGED EndOf(j)
  <1>1. /\ UNCHANGED Unread /\ m \in 1 .. Len(log)
        /\ Len(log) \in Nat /\ Len(got) \in Nat /\ Len(got) <= Len(log)
    BY LineFacts DEF Unread, IInv
  <1>2. \A i \in 1 .. Len(log) :
          /\ log'[i].req = log[i].req /\ log'[i].off = log[i].off
          /\ log'[i].need = log[i].need
    OBVIOUS
  <1>3. \A j \in 0 .. Len(log) : UNCHANGED EndOf(j)
    <2>1. \A j \in 0 .. Len(log) : j # 0 => j \in 1 .. Len(log)
      BY <1>1
    <2> QED BY <1>2, <2>1 DEF EndOf
  <1>4. \A i \in 1 .. Len(log) :
          i # m => UNCHANGED HeaderOf(i) /\ UNCHANGED Image(i)
    BY DEF HeaderOf, Image
  <1>5. /\ \A i \in Unread : i # m =>
              \A k \in 0 .. log[i].need - 1 :
                ring'[(log[i].off % RingSize) + k]
                  = ring[(log[i].off % RingSize) + k]
        /\ \A j \in Len(got) .. Len(log) - 1 :
              LinkIn(ring', EndOf(j), log[j + 1].off)
        /\ LinkIn(ring', EndOf(Len(log)), head)
    BY OthersKept DEF IInv
  <1>6. Layout'
    <2>1. \A i \in 1 .. Len(log) : i \in 0 .. Len(log)
      BY <1>1
    <2>2. \A i \in 1 .. Len(log') :
            /\ log'[i].req.type \in LoggedTypes
            /\ log'[i].need = Need(log'[i].req)
            /\ ~TooBig(log'[i].req)
            /\ (log'[i].off % RingSize) + log'[i].need <= RingSize
            /\ log'[i].off + log'[i].need <= head'
      BY <1>2 DEF IInv, Layout
    <2>3. ASSUME NEW i \in 1 .. Len(log'), NEW j \in 1 .. Len(log'), i < j
          PROVE  EndOf(i)' <= log'[j].off
      <3>1. EndOf(i) <= log[j].off
        BY <2>3 DEF IInv, Layout
      <3> QED BY <1>2, <1>3, <2>1, <3>1
    <2> QED BY <2>2, <2>3 DEF Layout
  <1>7. Chain'
    <2>1. /\ Len(got) \in 0 .. Len(log) /\ Len(log) \in 0 .. Len(log)
          /\ \A j \in Len(got) .. Len(log) - 1 :
               j \in 0 .. Len(log) /\ j + 1 \in 1 .. Len(log)
      BY <1>1
    <2>2. tail' = EndOf(Len(got))'
      BY <1>3, <2>1 DEF IInv, Chain
    <2>3. \A j \in Len(got') .. Len(log') - 1 :
            LinkIn(ring', EndOf(j)', log'[j + 1].off)
      BY <1>2, <1>3, <1>5, <2>1
    <2>4. LinkIn(ring', EndOf(Len(log))', head')
      BY <1>3, <1>5, <2>1
    <2>5. lock' = None => head' = EndOf(Len(log))'
      BY <1>3, <2>1 DEF IInv, Chain
    <2>6. Len(got') <= Len(log') /\ head' <= tail' + RingSize
      BY DEF IInv, Chain
    <2> QED BY <2>2, <2>3, <2>4, <2>5, <2>6 DEF Chain, Link
  <1>8. Contents'
    <2>1. \A i \in Unread : i # m => Held(ring', i)
      BY <1>5, RecordHeld DEF IInv
    <2>2. ASSUME NEW i \in Unread, i # m
          PROVE  /\ ring'[log'[i].off % RingSize] = HeaderOf(i)'
                 /\ \A k \in 1 .. log'[i].need - 1 :
                      k < HdrSize \/ log'[i].copied
                        => ring'[(log'[i].off % RingSize) + k] = Dat(i, k)
      <3>1. i \in 1 .. Len(log)
        BY LineFacts DEF IInv
      <3> QED BY <2>1, <2>2, <3>1, <1>4 DEF Held
    <2>3. /\ ring'[log'[m].off % RingSize] = HeaderOf(m)'
          /\ \A k \in 1 .. log'[m].need - 1 :
               k < HdrSize \/ log'[m].copied
                 => ring'[(log'[m].off % RingSize) + k] = Dat(m, k)
      OBVIOUS
    <2> QED BY <1>1, <2>2, <2>3 DEF Contents
  <1>9. StreamFaithful'
    <2>1. \A i \in 1 .. Len(got) : i \in 1 .. Len(log) /\ i # m
      BY <1>1 DEF Unread
    <2> QED BY <1>1, <1>4, <2>1 DEF IInv, StreamFaithful
  <1> QED BY <1>1, <1>3, <1>4, <1>6, <1>7, <1>8, <1>9

\* The header that belongs to the log's entry v, the i-th.
HeaderFor(v, i) ==
    [kind |-> "hdr", type |-> v.req.type, seq |-> i - 1,
     sector |-> v.req.sector, len |-> v.req.len, rec_len |-> v.need,
     state |-> IF v.res # "pending" THEN "COMMITTED"
               ELSE IF v.copied THEN "DATA" ELSE "RESERVED",
     gap |-> v.lost, err |-> v.res = "error"]

\* The header of a log entry is a header cell.
LEMMA HeaderForType ==
    ASSUME NEW v \in Entries, NEW i \in Nat \ {0}, v.req.type \in LoggedTypes
    PROVE  HeaderFor(v, i) \in HdrCells
  <1>1. /\ v.req \in [type : ReqTypes, sector : Nat, len : Nat]
        /\ v.need \in Nat /\ v.lost \in BOOLEAN /\ i - 1 \in Nat
    BY InputsAssumption DEF Entries
  <1>2. /\ (v.res = "error") \in BOOLEAN
        /\ (IF v.res # "pending" THEN "COMMITTED"
            ELSE IF v.copied THEN "DATA" ELSE "RESERVED") \in States
    BY DEF States
  <1> QED BY <1>1, <1>2 DEF HeaderFor, HdrCells

\* Two headers with the same fields are the same.
LEMMA HdrEqual ==
    ASSUME NEW g \in HdrCells, NEW h \in HdrCells,
           g.type = h.type, g.seq = h.seq, g.sector = h.sector,
           g.len = h.len, g.rec_len = h.rec_len, g.state = h.state,
           g.gap = h.gap, g.err = h.err
    PROVE  g = h
  BY DEF HdrCells

\* When a bio's log entry v becomes w, WithState makes the header of v that of
\* w.
LEMMA HeaderMoves ==
    ASSUME NEW v \in Entries, NEW w \in Entries, NEW i \in Nat \ {0},
           v.req.type \in LoggedTypes, v.res = "pending",
           w.req = v.req, w.need = v.need, w.lost = v.lost,
           NEW e \in BOOLEAN, NEW st \in States,
           HeaderFor(w, i).state = st, e <=> w.res = "error"
    PROVE  WithState(HeaderFor(v, i), st, e) = HeaderFor(w, i)
  <1> DEFINE h == HeaderFor(v, i)
             k == HeaderFor(w, i)
             g == [h EXCEPT !.state = st, !.err = e]
  <1>1. h \in HdrCells /\ k \in HdrCells
    BY HeaderForType
  <1>2. /\ h.type = v.req.type /\ h.seq = i - 1 /\ h.sector = v.req.sector
        /\ h.len = v.req.len /\ h.rec_len = v.need /\ h.gap = v.lost
        /\ k.type = w.req.type /\ k.seq = i - 1 /\ k.sector = w.req.sector
        /\ k.len = w.req.len /\ k.rec_len = w.need /\ k.gap = w.lost
        /\ k.state = st
    BY DEF HeaderFor
  <1>3. h.kind = "hdr" /\ h.err = FALSE /\ k.err = (w.res = "error")
    BY DEF HeaderFor
  <1>4. k.err = e
    BY <1>3
  <1> HIDE DEF h, k
  <1>5. (h.err \/ e) = e
    BY <1>3
  <1>6. WithState(h, st, e) = g
    BY <1>3, <1>5 DEF WithState, IsHdr
  <1>7. /\ g \in HdrCells /\ g.type = h.type /\ g.seq = h.seq
        /\ g.sector = h.sector /\ g.len = h.len
        /\ g.rec_len = h.rec_len /\ g.state = st
        /\ g.gap = h.gap /\ g.err = e
    BY <1>1 DEF HdrCells
  <1> HIDE DEF g
  <1>8. g = k
    BY <1>1, <1>2, <1>4, <1>7, HdrEqual
  <1> QED BY <1>6, <1>8 DEF h, k

\* The readers see the step of a bio only as a wake-up.
LEMMA ReadersKept ==
    ASSUME IInv, NEW m \in Unread, log[m].res = "pending",
           UNCHANGED <<got, readLock, rbuf, rnext>>,
           rst' = rst \/ rst' = Woken, Len(log') = Len(log),
           \A i \in 1 .. Len(log) : i # m => log'[i] = log[i]
    PROVE  Reading'
  <1>0. PICK i \in Nat : i = Len(got) + 1
    BY LineFacts DEF IInv
  <1>1. \A f \in Files :
          /\ rst'[f] \in {"scan", "empty", "copied"}
               <=> rst[f] \in {"scan", "empty", "copied"}
          /\ rst'[f] = "copied" <=> rst[f] = "copied"
    BY DEF Woken
  <1>2. ASSUME NEW f \in Files, rst[f] = "copied"
        PROVE  /\ i <= Len(log') /\ log'[i].res # "pending"
               /\ rbuf[f] = Image(i)' /\ rnext[f] = EndOf(i)'
    <2>1. /\ i <= Len(log) /\ log[i].res # "pending"
          /\ rbuf[f] = Image(i) /\ rnext[f] = EndOf(i)
      BY <1>0, <1>2 DEF IInv, Reading
    <2>2. i \in 1 .. Len(log) /\ log'[i] = log[i]
      <3>1. i # m
        BY <2>1
      <3>2. Len(log) \in Nat /\ Len(got) \in Nat
        BY LineFacts DEF IInv
      <3>3. i \in 1 .. Len(log)
        BY <1>0, <2>1, <3>2
      <3> QED BY <3>1, <3>3
    <2>3. UNCHANGED <<Image(i), EndOf(i)>>
      BY <2>2 DEF Image, HeaderOf, EndOf
    <2> QED BY <2>1, <2>2, <2>3
  <1>3. Len(got') + 1 = i
    BY <1>0
  <1> QED BY <1>1, <1>2, <1>3 DEF IInv, Reading

\* Copying the payload into a reserved record preserves the invariant.
LEMMA CopyDataInv ==
    ASSUME IInv, NEW b \in Bios, CopyData(b)
    PROVE  IInv'
  <1>1. TypeOK'
    BY CopyDataType DEF IInv
  <1>2. UNCHANGED <<head, tail, lock, got, seqNext, gapPending, lost, slot,
                    off, breq>>
    BY DEF CopyData
  <1>3. UNCHANGED <<rst, readLock, rbuf, rnext>>
    BY DEF CopyData, readVars
  <1>4. bst[b] = "reserved" /\ slot[b] # 0
    BY DEF CopyData, IInv, Owners
  <1>m. PICK m \in Unread : m = slot[b]
    BY <1>4 DEF IInv, Owners
  <1> DEFINE c == log[m].off % RingSize
             need == log[m].need
  <1>5. /\ log[m].off = off[b] /\ log[m].req = breq[b]
        /\ log[m].res = "pending" /\ ~log[m].copied
    BY <1>4, <1>m DEF IInv, Owners
  <1>6. /\ m \in 1 .. Len(log) /\ log[m].off \in Nat /\ need \in Nat
        /\ need >= HdrSize /\ m \in Nat
        /\ c \in 0 .. RingSize - 1 /\ c + need <= RingSize
        /\ need = Need(breq[b])
    <2>1. /\ m \in 1 .. Len(log) /\ log[m].off \in Nat /\ need \in Nat
          /\ need >= HdrSize
      BY LineFacts DEF IInv
    <2> QED BY <2>1, <1>5, PosType DEF IInv, Layout
  <1>7. /\ bst' = [bst EXCEPT ![b] = "inflight"]
        /\ pb' = [pb EXCEPT ![b] = [rec_off |-> off[b], logged |-> TRUE]]
        /\ log' = [log EXCEPT ![m].copied = TRUE]
        /\ ring' = [x \in 0 .. RingSize - 1 |->
                      IF x - c \in {0} \cup (HdrSize .. need - 1)
                      THEN IF x - c > 0 THEN Dat(m, x - c)
                           ELSE WithState(ring[c], "DATA", FALSE)
                      ELSE ring[x]]
    BY <1>m, <1>5, <1>6 DEF CopyData, Stored
  <1>8. /\ Len(log') = Len(log)
        /\ \A i \in 1 .. Len(log) : i # m => log'[i] = log[i]
        /\ log'[m].copied
        /\ log'[m].req = log[m].req /\ log'[m].off = log[m].off
        /\ log'[m].need = log[m].need /\ log'[m].res = log[m].res
        /\ log'[m].lost = log[m].lost
    <2> DEFINE v == [log[m] EXCEPT !.copied = TRUE]
    <2>1. log[m] \in Entries
      BY <1>6, EntryType DEF IInv
    <2>2. /\ v \in Entries /\ v.copied /\ v.req = log[m].req
          /\ v.off = log[m].off /\ v.need = log[m].need
          /\ v.res = log[m].res /\ v.lost = log[m].lost
      BY <2>1 DEF Entries
    <2>3. log' = [log EXCEPT ![m] = v]
      BY <1>7
    <2> HIDE DEF v
    <2>4. /\ Len(log') = Len(log) /\ log'[m] = v
          /\ \A i \in 1 .. Len(log) : i # m => log'[i] = log[i]
      BY <1>6, <2>2, <2>3, EntryChanged DEF IInv
    <2> QED BY <2>2, <2>4
  <1>9. \A x \in 0 .. RingSize - 1 :
          ~(x - c \in 0 .. need - 1) => ring'[x] = ring[x]
    <2> TAKE x \in 0 .. RingSize - 1
    <2>1. x - c \in {0} \cup (HdrSize .. need - 1) => x - c \in 0 .. need - 1
      <3> HIDE DEF c, need
      <3> QED BY <1>6
    <2> HIDE DEF c, need
    <2> QED BY <1>7, <2>1
  <1>10. ring'[c] = HeaderOf(m)'
    <2>1. ring'[c] = WithState(ring[c], "DATA", FALSE)
      <3>1. c - c = 0
        <4> HIDE DEF c
        <4> QED BY <1>6
      <3>2. ring' = [x \in 0 .. RingSize - 1 |->
                      IF x - c \in {0} \cup (HdrSize .. need - 1)
                      THEN IF x - c > 0 THEN Dat(m, x - c)
                           ELSE WithState(ring[c], "DATA", FALSE)
                      ELSE ring[x]]
        BY <1>7
      <3>3. 0 \in {0} \cup (HdrSize .. need - 1) /\ ~(0 > 0)
        OBVIOUS
      <3> HIDE DEF c, need
      <3> QED BY <1>6, <3>1, <3>2, <3>3
    <2>2. ring[c] = HeaderOf(m)
      BY DEF IInv, Contents
    <2>3. log[m] \in Entries /\ log'[m] \in Entries
      BY <1>1, <1>6, <1>8 DEF IInv, TypeOK, LogType
    <2>4. /\ HeaderOf(m) = HeaderFor(log[m], m)
          /\ HeaderOf(m)' = HeaderFor(log'[m], m)
      BY DEF HeaderOf, HeaderFor
    <2>5. HeaderFor(log'[m], m).state = "DATA"
      BY <1>5, <1>8 DEF HeaderFor
    <2>6. log[m].req.type \in LoggedTypes /\ "DATA" \in States
      BY <1>6 DEF IInv, Layout, States
    <2>7. FALSE <=> log'[m].res = "error"
      BY <1>5, <1>8
    <2>8. WithState(HeaderFor(log[m], m), "DATA", FALSE)
            = HeaderFor(log'[m], m)
      <3> DEFINE v == log[m]
                 w == log'[m]
      <3>1. /\ v \in Entries /\ w \in Entries /\ m \in Nat \ {0}
            /\ v.req.type \in LoggedTypes /\ v.res = "pending"
            /\ w.req = v.req /\ w.need = v.need /\ w.lost = v.lost
            /\ HeaderFor(w, m).state = "DATA"
        BY <1>5, <1>6, <1>8, <2>3, <2>5, <2>6
      <3>2. FALSE <=> w.res = "error"
        BY <2>7
      <3> HIDE DEF v, w
      <3>3. WithState(HeaderFor(v, m), "DATA", FALSE) = HeaderFor(w, m)
        BY <2>6, <3>1, <3>2, HeaderMoves
      <3> QED BY <3>3 DEF v, w
    <2> QED BY <2>1, <2>2, <2>4, <2>8
  <1>11. ASSUME NEW k \in 1 .. need - 1
         PROVE  ring'[c + k] = Dat(m, k)
    <2>1. c + k \in 0 .. RingSize - 1 /\ (c + k) - c = k /\ k > 0
      <3> HIDE DEF c, need
      <3> QED BY <1>6, SMTT(30)
    <2>2. CASE k < HdrSize
      <3>1. k \notin {0} \cup (HdrSize .. need - 1)
        BY <2>2
      <3>2. ring[c + k] = Dat(m, k)
        BY <2>2 DEF IInv, Contents
      <3> HIDE DEF c, need
      <3> QED BY <1>7, <2>1, <3>1, <3>2
    <2>3. CASE ~(k < HdrSize)
      <3>1. k \in {0} \cup (HdrSize .. need - 1)
        <4> HIDE DEF need
        <4> QED BY <1>6, <2>3
      <3> HIDE DEF c, need
      <3> QED BY <1>7, <2>1, <3>1
    <2> QED BY <2>2, <2>3
  <1>12. /\ Layout' /\ Chain' /\ Contents' /\ StreamFaithful'
         /\ UNCHANGED Unread
    BY <1>2, <1>8, <1>9, <1>10, <1>11, WriteInside
  <1>13. Reading'
    BY <1>2, <1>3, <1>5, <1>8, ReadersKept
  <1>14. /\ bst'[b] = "inflight" /\ pb'[b].logged /\ pb'[b].rec_off = off[b]
         /\ \A x \in Bios : x # b => bst'[x] = bst[x] /\ pb'[x] = pb[x]
    BY <1>7 DEF IInv, TypeOK, BioType
  <1>15. Owners'
    <2>1. ASSUME NEW x \in Bios, x # b, slot[x] # 0
          PROVE  log'[slot[x]] = log[slot[x]]
      <3>1. slot[x] # m /\ slot[x] \in Unread
        BY <2>1, <1>4, <1>m DEF IInv, Owners
      <3>2. slot[x] \in 1 .. Len(log)
        BY <3>1, LineFacts DEF IInv
      <3> QED BY <3>1, <3>2, <1>8
    <2>2. \A i \in 1 .. Len(log') : log'[i].res # "pending" => log'[i].copied
      BY <1>8 DEF IInv, Owners
    <2>3. ASSUME NEW x \in Bios
          PROVE  /\ slot'[x] # 0 =>
                      /\ slot'[x] \in Unread'
                      /\ log'[slot'[x]].off = off'[x]
                      /\ log'[slot'[x]].req = breq'[x]
                      /\ log'[slot'[x]].res = "pending"
                      /\ \/ bst'[x] = "reserved" /\ ~log'[slot'[x]].copied
                         \/ /\ bst'[x] = "inflight" /\ log'[slot'[x]].copied
                            /\ pb'[x].logged /\ pb'[x].rec_off = off'[x]
                 /\ slot'[x] = 0 => /\ bst'[x] # "reserved"
                                    /\ bst'[x] # "free" => ~pb'[x].logged
      <3>1. CASE x = b
        BY <3>1, <1>2, <1>4, <1>5, <1>8, <1>12, <1>14, <1>m
      <3>2. CASE x # b
        BY <3>2, <2>1, <1>2, <1>12, <1>14 DEF IInv, Owners
      <3> QED BY <3>1, <3>2
    <2>4. \A x, y \in Bios : slot'[x] # 0 /\ slot'[x] = slot'[y] => x = y
      BY <1>2 DEF IInv, Owners
    <2> QED BY <2>2, <2>3, <2>4 DEF Owners
  <1>16. Padded'
    BY <1>2, <1>4, <1>14 DEF IInv, Padded
  <1>17. Counters'
    BY <1>2, <1>8 DEF IInv, Counters
  <1> QED BY <1>1, <1>12, <1>13, <1>15, <1>16, <1>17 DEF IInv

\* Completing a bio preserves the invariant: pb->rec_off still names the
\* record that bio reserved.
LEMMA EndIoInv ==
    ASSUME IInv, NEW b \in Bios, NEW e \in BOOLEAN, EndIo(b, e)
    PROVE  IInv'
  <1>1. TypeOK'
    BY EndIoType DEF IInv
  <1>2. UNCHANGED <<head, tail, lock, got, seqNext, gapPending, lost, off,
                    breq, pb, readLock, rbuf, rnext>>
    BY DEF EndIo
  <1>3. /\ bst[b] = "inflight" /\ bst'[b] = "free" /\ slot'[b] = 0
        /\ \A x \in Bios : x # b => bst'[x] = bst[x] /\ slot'[x] = slot[x]
    BY DEF EndIo, IInv, TypeOK, BioType, LogType
  <1>4. Padded'
    BY <1>2, <1>3 DEF IInv, Padded
  <1>5. CASE slot[b] = 0
    <2>1. ~pb[b].logged
      BY <1>3, <1>5 DEF IInv, Owners
    <2>2. UNCHANGED <<ring, rst, log>>
      BY <1>5, <2>1 DEF EndIo
    <2>3. Layout' /\ Chain' /\ Contents' /\ StreamFaithful'
      BY <1>2, <2>2, CoreFrame DEF IInv
    <2>4. \A x \in Bios : slot'[x] = slot[x]
      BY <1>3, <1>5
    <2>5. Owners'
      BY <1>2, <1>3, <2>2, <2>4, SMTT(30) DEF IInv, Owners, Unread
    <2>6. Counters' /\ Reading'
      BY <1>2, <2>2 DEF IInv, Counters, Reading, Image, HeaderOf, EndOf
    <2> QED BY <1>1, <1>4, <2>3, <2>5, <2>6 DEF IInv
  <1>6. CASE slot[b] # 0
    <2>m. PICK m \in Unread : m = slot[b]
      BY <1>6 DEF IInv, Owners
    <2> DEFINE c == log[m].off % RingSize
               need == log[m].need
    <2>1. /\ log[m].off = off[b] /\ log[m].req = breq[b]
          /\ log[m].res = "pending" /\ log[m].copied
          /\ pb[b].logged /\ pb[b].rec_off = off[b]
      BY <1>3, <1>6, <2>m DEF IInv, Owners
    <2>2. /\ m \in 1 .. Len(log) /\ log[m].off \in Nat /\ need \in Nat
          /\ need >= HdrSize /\ m \in Nat \ {0}
          /\ c \in 0 .. RingSize - 1 /\ c + need <= RingSize
          /\ log[m].req.type \in LoggedTypes
      <3>1. /\ m \in 1 .. Len(log) /\ log[m].off \in Nat /\ need \in Nat
            /\ need >= HdrSize
        BY LineFacts DEF IInv
      <3> QED BY <3>1, PosType, SMTT(30) DEF IInv, Layout
    <2>3. /\ ring' = [ring EXCEPT ![c] = WithState(ring[c], "COMMITTED", e)]
          /\ rst' = Woken
          /\ log' = [log EXCEPT ![m].res = IF e THEN "error" ELSE "ok"]
      BY <1>6, <2>m, <2>1 DEF EndIo, SetState
    <2>4. /\ Len(log') = Len(log)
          /\ \A i \in 1 .. Len(log) : i # m => log'[i] = log[i]
          /\ log'[m].copied
          /\ log'[m].req = log[m].req /\ log'[m].off = log[m].off
          /\ log'[m].need = log[m].need /\ log'[m].lost = log[m].lost
          /\ log'[m].res = IF e THEN "error" ELSE "ok"
          /\ log[m] \in Entries /\ log'[m] \in Entries
      <3> DEFINE v == [log[m] EXCEPT !.res = IF e THEN "error" ELSE "ok"]
      <3>1. log[m] \in Entries
        BY <2>2, EntryType DEF IInv
      <3>2. /\ v \in Entries /\ v.copied /\ v.req = log[m].req
            /\ v.off = log[m].off /\ v.need = log[m].need
            /\ v.lost = log[m].lost
            /\ v.res = IF e THEN "error" ELSE "ok"
        BY <2>1, <3>1 DEF Entries
      <3>3. log' = [log EXCEPT ![m] = v]
        BY <2>3
      <3> HIDE DEF v
      <3>4. /\ Len(log') = Len(log) /\ log'[m] = v
            /\ \A i \in 1 .. Len(log) : i # m => log'[i] = log[i]
        BY <2>2, <3>2, <3>3, EntryChanged DEF IInv
      <3> QED BY <3>1, <3>2, <3>4
    <2>5. /\ \A x \in 0 .. RingSize - 1 : x # c => ring'[x] = ring[x]
          /\ ring'[c] = WithState(ring[c], "COMMITTED", e)
      <3>1. ring \in [0 .. RingSize - 1 -> Cells]
        BY DEF IInv, TypeOK, RingType
      <3> HIDE DEF c
      <3> QED BY <2>2, <2>3, <3>1
    <2>6. \A x \in 0 .. RingSize - 1 :
            ~(x - c \in 0 .. need - 1) => ring'[x] = ring[x]
      <3> TAKE x \in 0 .. RingSize - 1
      <3>1. x = c => x - c \in 0 .. need - 1
        <4> HIDE DEF c, need
        <4> QED BY <2>2
      <3> QED BY <2>5, <3>1
    <2>7. ring'[c] = HeaderOf(m)'
      <3> DEFINE v == log[m]
                 w == log'[m]
      <3>1. ring[c] = HeaderFor(v, m) /\ HeaderOf(m)' = HeaderFor(w, m)
        BY DEF IInv, Contents, HeaderOf, HeaderFor
      <3>2. HeaderFor(w, m).state = "COMMITTED"
        BY <2>4 DEF HeaderFor
      <3>3. /\ v \in Entries /\ w \in Entries
            /\ v.req.type \in LoggedTypes /\ v.res = "pending"
            /\ w.req = v.req /\ w.need = v.need /\ w.lost = v.lost
        BY <2>1, <2>2, <2>4
      <3>4. e <=> w.res = "error"
        BY <2>4
      <3>5. "COMMITTED" \in States
        BY DEF States
      <3> HIDE DEF v, w
      <3>6. WithState(HeaderFor(v, m), "COMMITTED", e) = HeaderFor(w, m)
        BY <2>2, <3>2, <3>3, <3>4, <3>5, HeaderMoves, SMTT(30)
      <3> QED BY <2>5, <3>1, <3>6
    <2>8. ASSUME NEW k \in 1 .. need - 1
          PROVE  ring'[c + k] = Dat(m, k)
      <3>1. c + k \in 0 .. RingSize - 1 /\ c + k # c
        <4> HIDE DEF c, need
        <4> QED BY <2>2
      <3>2. ring[c + k] = Dat(m, k)
        BY <2>1 DEF IInv, Contents
      <3> QED BY <2>5, <3>1, <3>2
    <2>9. /\ Layout' /\ Chain' /\ Contents' /\ StreamFaithful'
          /\ UNCHANGED Unread
      BY <1>2, <2>4, <2>6, <2>7, <2>8, WriteInside
    <2>10. Reading'
      BY <1>2, <2>1, <2>3, <2>4, ReadersKept
    <2>11. Owners'
      <3>1. ASSUME NEW x \in Bios, x # b, slot[x] # 0
            PROVE  log'[slot[x]] = log[slot[x]]
        <4>1. slot[x] # m /\ slot[x] \in Unread
          BY <3>1, <1>6, <2>m DEF IInv, Owners
        <4>2. slot[x] \in 1 .. Len(log)
          BY <4>1, LineFacts DEF IInv
        <4> QED BY <4>1, <4>2, <2>4
      <3>2. \A i \in 1 .. Len(log') : log'[i].res # "pending" => log'[i].copied
        BY <2>4 DEF IInv, Owners
      <3>3. ASSUME NEW x \in Bios
            PROVE  /\ slot'[x] # 0 =>
                        /\ slot'[x] \in Unread'
                        /\ log'[slot'[x]].off = off'[x]
                        /\ log'[slot'[x]].req = breq'[x]
                        /\ log'[slot'[x]].res = "pending"
                        /\ \/ bst'[x] = "reserved" /\ ~log'[slot'[x]].copied
                           \/ /\ bst'[x] = "inflight"
                              /\ log'[slot'[x]].copied
                              /\ pb'[x].logged /\ pb'[x].rec_off = off'[x]
                   /\ slot'[x] = 0 => /\ bst'[x] # "reserved"
                                      /\ bst'[x] # "free" => ~pb'[x].logged
        <4>1. CASE x = b
          BY <4>1, <1>3
        <4>2. CASE x # b
          BY <4>2, <3>1, <1>2, <1>3, <2>9 DEF IInv, Owners
        <4> QED BY <4>1, <4>2
      <3>4. \A x, y \in Bios : slot'[x] # 0 /\ slot'[x] = slot'[y] => x = y
        BY <1>3 DEF IInv, Owners
      <3> QED BY <3>2, <3>3, <3>4 DEF Owners
    <2>12. Counters'
      BY <1>2, <2>4 DEF IInv, Counters
    <2> QED BY <1>1, <1>4, <2>9, <2>10, <2>11, <2>12 DEF IInv
  <1> QED BY <1>5, <1>6

-----------------------------------------------------------------------------
(* The theorems.                                                           *)

\* The state cdp_ctr leaves satisfies the invariant.
LEMMA InitInv == Init => IInv
  <1> SUFFICES ASSUME Init PROVE IInv
    OBVIOUS
  <1>1. TypeOK
    BY InitType
  <1>2. Len(log) = 0 /\ Len(got) = 0 /\ head = 0 /\ tail = 0 /\ lock = None
    BY DEF Init
  <1>3. EndOf(0) = 0
    BY DEF EndOf
  <1>4. Layout /\ Contents /\ StreamFaithful
    BY <1>2 DEF Layout, Contents, StreamFaithful, Unread
  <1>5. Chain
    BY <1>2, <1>3 DEF Chain, Link, LinkIn
  <1>6. Owners /\ Counters
    <2>1. \A b \in Bios : slot[b] = 0 /\ bst[b] = "free"
      BY DEF Init
    <2>2. \A i \in 1 .. Len(log) : log[i].res # "pending" => log[i].copied
      BY <1>2
    <2>3. Counters
      BY <1>2 DEF Init, Counters
    <2> QED BY <2>1, <2>2, <2>3 DEF Owners
  <1>7. Padded /\ Reading
    BY InputsAssumption DEF Init, Padded, Reading
  <1> QED BY <1>1, <1>4, <1>5, <1>6, <1>7 DEF IInv

\* Every step of the target preserves the invariant.
LEMMA NextInv == IInv /\ [Next]_vars => IInv'
  <1> SUFFICES ASSUME IInv, [Next]_vars PROVE IInv'
    OBVIOUS
  <1>1. CASE UNCHANGED vars
    <2>1. UNCHANGED <<ringVars, bioVars, log, got, lost, rst, readLock, rbuf,
                      rnext>>
      BY <1>1 DEF vars, readVars
    <2>2. TypeOK'
      BY <1>1, TypeNext DEF IInv
    <2>3. Reading'
      BY <2>1 DEF IInv, Reading, Image, HeaderOf, EndOf
    <2> QED BY <2>1, <2>2, <2>3, ReaderFrame
  <1>2. ASSUME NEW b \in Bios, MapStep(b) PROVE IInv'
    BY <1>2, MarkInv, DropInv, ReservePadInv, ReserveInv, CopyDataInv
       DEF MapStep
  <1>3. ASSUME NEW f \in Files, ReadStep(f) \/ Interrupted(f) \/ CopyFault(f)
        PROVE  IInv'
    BY <1>3, ReaderControlInv, CopyOutInv, AdvanceInv DEF ReadStep
  <1> QED
    BY <1>1, <1>2, <1>3, SubmitInv, EndIoInv, ClearInv, DtrInv DEF Next

\* IInv holds in every reachable state of the target: the ring, the log of
\* reserved records and the bios that own them always agree.
THEOREM Inductive == Spec => []IInv
  BY InitInv, NextInv, PTL DEF Spec

\* The invariant implies that unread records are intact.
LEMMA InvRing == IInv => RingIntact
  <1> SUFFICES ASSUME IInv PROVE RingIntact
    OBVIOUS
  <1>1. /\ head \in Nat /\ tail \in Nat /\ RingSize \in Nat
        /\ head <= tail + RingSize
    BY DEF IInv, TypeOK, RingType, Chain
  <1>2. tail <= head
    <2>1. /\ tail = EndOf(Len(got)) /\ Len(got) \in 0 .. Len(log)
      BY LineFacts DEF IInv, Chain
    <2> QED BY <2>1, LineFacts DEF IInv
  <1>3. head - tail <= RingSize
    BY <1>1
  <1>4. \A i \in Unread :
          /\ tail <= log[i].off /\ log[i].off + log[i].need <= head
          /\ (log[i].off % RingSize) + log[i].need <= RingSize
    BY LineFacts DEF IInv, Layout
  <1> QED BY <1>2, <1>3, <1>4 DEF IInv, Contents, RingIntact

\* For every ring size, request set and number of bios and readers, no unread
\* record in the ring is overwritten or torn (cdp_reserve, cdp_end_io).
THEOREM RingSafe == Spec => []RingIntact
  BY Inductive, InvRing, PTL

\* cdp_next's single skip always leads from tail to the oldest unread record.
THEOREM CursorSafe == Spec => []CursorAtNext
  <1>1. IInv => CursorAtNext
    BY Cursor DEF IInv
  <1> QED BY <1>1, Inductive, PTL

\* read(2) delivers the reserved records, all fields and data as written, in
\* submission order and only once acknowledged, GAP_BEFORE in place.
THEOREM StreamSafe == Spec => []StreamFaithful
  <1>1. IInv => StreamFaithful
    BY DEF IInv
  <1> QED BY <1>1, Inductive, PTL

\* With nothing unread in the ring, cdp_reserve accepts every record it does
\* not refuse for its size, wherever head stands in the ring.
LEMMA EmptyFits ==
    ASSUME IInv, Unread = {}, NEW b \in Bios, Reserving(b),
           ~TooBig(breq[b])
    PROVE  Fits(breq[b])
  <1> DEFINE need == Need(breq[b])
             c == head % RingSize
             q == RingSize \div 4
  <1>1. /\ head \in Nat /\ tail \in Nat /\ RingSize \in Nat
        /\ Len(log) \in Nat /\ Len(got) \in Nat /\ Len(got) <= Len(log)
    BY LineFacts DEF IInv, TypeOK, RingType
  <1>2. need \in Nat /\ c \in 0 .. RingSize - 1
    BY <1>1, BusyRequest, PosType DEF Reserving, IInv
  <1>3. Len(got) = Len(log)
    <2>1. CASE Len(got) < Len(log)
      <3>1. Len(log) \in Unread
        BY <2>1, <1>1 DEF Unread
      <3> QED BY <3>1
    <2> QED BY <2>1, <1>1
  <1>4. head = tail
    BY <1>3 DEF IInv, Chain, Reserving
  <1>5. need <= q /\ q \in Nat /\ 4 * q <= RingSize
    BY <1>1, <1>2 DEF TooBig
  <1>6. Pad(breq[b]) = IF c + need > RingSize THEN RingSize - c ELSE 0
    BY DEF Pad
  <1>7. need + Pad(breq[b]) <= RingSize
    <2> HIDE DEF need, c, q
    <2> QED BY <1>1, <1>2, <1>5, <1>6
  <1>8. Free = RingSize
    BY <1>1, <1>4 DEF Free
  <1> QED BY <1>7, <1>8 DEF Fits

\* cdp_reserve never drops a record of legal size when the readers have caught
\* up, for every ring size.
THEOREM EmptyRingSafe == Spec => EmptyRingAccepts
  <1>1. IInv /\ [Next]_vars =>
          [\A b \in Bios : Drop(b) /\ Unread = {} => TooBig(breq[b])]_vars
    BY EmptyFits DEF Drop, Refused
  <1> QED BY <1>1, Inductive, PTL DEF Spec, EmptyRingAccepts
=============================================================================
