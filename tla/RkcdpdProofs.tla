---------------------------- MODULE RkcdpdProofs ----------------------------
(***************************************************************************)
(* The daemon, for every disk, ring, chunk size and number of writes: its  *)
(* base copy and its recoveries leave out no block, no dropped write is    *)
(* forgotten but for the causes the code admits, and outside crashes and   *)
(* failing disks no record is lost.                                        *)
(***************************************************************************)
EXTENDS Rkcdpd, SequenceTheorems, NatFacts, TLAPS

USE DaemonAssumption

\* The pieces of a range are chunks of it that cover it.
LEMMA PiecesCover ==
    ASSUME NEW lo \in Nat, NEW hi \in Nat
    PROVE  /\ \A c \in Pieces(lo, hi) : c \in (lo .. hi) \X (lo .. hi) /\ c[1] <= c[2]
           /\ CoveredBy(Pieces(lo, hi)) = lo .. hi
  <1> DEFINE Starts == {x \in lo .. hi : (x - lo) % CopyBlocks = 0}
             Stop(s) == IF s + CopyBlocks - 1 < hi THEN s + CopyBlocks - 1 ELSE hi
  <1>1. Pieces(lo, hi) = {<<s, Stop(s)>> : s \in Starts}
    BY DEF Pieces
  <1>2. \A s \in Starts : s \in lo .. hi /\ Stop(s) \in lo .. hi /\ s <= Stop(s)
    OBVIOUS
  <1>3. ASSUME NEW x \in lo .. hi
        PROVE  \E s \in Starts : x \in s .. Stop(s)
    <2> DEFINE d == x - lo
               q == d \div CopyBlocks
               m == d % CopyBlocks
               s == x - m
    <2>1. d \in Nat /\ q \in Nat /\ m \in 0 .. CopyBlocks - 1 /\ d = CopyBlocks * q + m
      BY DivMod
    <2>2. s - lo = CopyBlocks * q + 0
      BY <2>1
    <2>3. (CopyBlocks * q + 0) % CopyBlocks = 0
      <3>1. 0 \in 0 .. CopyBlocks - 1
        OBVIOUS
      <3> QED BY <2>1, <3>1, ModIs
    <2>4. CopyBlocks * q + 0 >= 0
      BY <2>1
    <2> HIDE DEF q
    <2>5. s \in lo .. hi /\ x <= Stop(s) /\ s <= x
      <3>1. x \in Nat /\ m \in Nat /\ m <= CopyBlocks - 1
        BY <2>1
      <3>2. lo <= s
        BY <2>2, <2>4, <3>1
      <3> HIDE DEF m
      <3> QED BY <3>1, <3>2
    <2>6. s \in Starts
      BY <2>2, <2>3, <2>5
    <2>7. x \in s .. Stop(s)
      BY <1>2, <2>5, <2>6
    <2> HIDE DEF Starts, Stop, s
    <2> QED BY <2>6, <2>7
  <1> HIDE DEF Starts, Stop
  <1>4. \A x \in CoveredBy(Pieces(lo, hi)) : x \in lo .. hi
    BY <1>1, <1>2 DEF CoveredBy
  <1>5. ASSUME NEW x \in lo .. hi PROVE x \in CoveredBy(Pieces(lo, hi))
    <2>1. PICK s \in Starts : x \in s .. Stop(s)
      BY <1>3
    <2> DEFINE c == <<s, Stop(s)>>
    <2>2. c \in Pieces(lo, hi) /\ x \in c[1] .. c[2]
      BY <1>1, <2>1
    <2> QED BY <2>2 DEF CoveredBy
  <1>6. \A c \in Pieces(lo, hi) : c \in (lo .. hi) \X (lo .. hi) /\ c[1] <= c[2]
    BY <1>1, <1>2
  <1> QED BY <1>4, <1>5, <1>6

\* A set of blocks that is not empty has a first one; so has a list of chunks.
LEMMA FirstIn ==
    ASSUME NEW rs \in SUBSET Chunks, rs # {}
    PROVE  First(rs) \in rs
  <1> DEFINE S == {c[1] : c \in rs}
  <1>1. S \in SUBSET Nat /\ S # {}
    BY DEF Chunks, Blocks
  <1>2. PICK n \in S : \A m \in S : n <= m
    BY <1>1, LeastNat
  <1>3. \E c \in rs : \A d \in rs : c[1] <= d[1]
    BY <1>2
  <1> QED BY <1>3 DEF First

\* Where a run of set bits ends.
LEMMA RunEndIs ==
    ASSUME NEW bits \in SUBSET Blocks, NEW s \in bits
    PROVE  /\ RunEnd(bits, s) \in bits /\ s <= RunEnd(bits, s)
           /\ s .. RunEnd(bits, s) \subseteq bits
           /\ RunEnd(bits, s) + 1 \notin bits
  <1> DEFINE S == {n \in Nat : s <= n /\ n + 1 \notin bits}
  <1>1. NBlocks \in S
    BY DEF Blocks
  <1>2. S \in SUBSET Nat /\ S # {}
    BY <1>1
  <1>3. PICK e \in S : \A m \in S : e <= m
    BY <1>2, LeastNat
  <1>4. s .. e \subseteq bits
    <2>1. SUFFICES ASSUME NEW x \in s .. e, x \notin bits PROVE FALSE
      OBVIOUS
    <2>2. s \in Nat /\ e \in Nat /\ s <= e /\ x \in Nat
      BY <1>3 DEF Blocks
    <2>3. x # s
      BY <2>1
    <2>4. x - 1 \in S
      BY <2>1, <2>2, <2>3
    <2> QED BY <1>3, <2>2, <2>4
  <1>5. e \in bits /\ s <= e /\ e + 1 \notin bits
    <2>1. s \in Nat /\ e \in Nat /\ s <= e /\ e + 1 \notin bits
      BY <1>3 DEF Blocks
    <2> QED BY <1>4, <2>1
  <1> QED BY <1>4, <1>5 DEF RunEnd

\* Every set bit is in a run.
LEMMA RunStartIs ==
    ASSUME NEW bits \in SUBSET Blocks, NEW b \in bits
    PROVE  \E s \in RunStarts(bits) : s <= b /\ s .. b \subseteq bits
  <1> DEFINE S == {n \in Nat : n <= b /\ n .. b \subseteq bits}
  <1>1. b \in S
    BY DEF Blocks
  <1>2. S \in SUBSET Nat /\ S # {}
    BY <1>1
  <1>3. PICK s \in S : \A m \in S : s <= m
    BY <1>2, LeastNat
  <1>4. s \in Nat /\ b \in Nat /\ s <= b /\ s .. b \subseteq bits
    BY <1>3 DEF Blocks
  <1>5. s \in bits
    BY <1>4
  <1>6. s - 1 \notin bits
    <2>1. SUFFICES ASSUME s - 1 \in bits PROVE FALSE
      OBVIOUS
    <2>2. s - 1 \in Nat
      BY <2>1 DEF Blocks
    <2>3. \A x \in s - 1 .. b : x = s - 1 \/ x \in s .. b
      BY <1>4
    <2>4. s - 1 \in S
      BY <1>4, <2>1, <2>2, <2>3
    <2> QED BY <1>3, <1>4, <2>4
  <1> QED BY <1>4, <1>5, <1>6 DEF RunStarts

\* bitmap_extents misses no set bit and adds none: the extents, cut into chunks,
\* cover the bitmap exactly, the run that reaches its last bit included.
LEMMA ExtentsCover ==
    ASSUME NEW bits \in SUBSET Blocks
    PROVE  Extents(bits) \in SUBSET Chunks /\ CoveredBy(Extents(bits)) = bits
  <1>1. \A s \in RunStarts(bits) : s \in bits
    BY DEF RunStarts
  <1>2. ASSUME NEW s \in RunStarts(bits)
        PROVE  /\ Pieces(s, RunEnd(bits, s)) \in SUBSET Chunks
               /\ CoveredBy(Pieces(s, RunEnd(bits, s))) = s .. RunEnd(bits, s)
               /\ s .. RunEnd(bits, s) \subseteq bits
    <2> DEFINE e == RunEnd(bits, s)
    <2>1. s \in bits /\ e \in bits /\ s .. e \subseteq bits
      BY <1>1, RunEndIs
    <2> HIDE DEF e
    <2>2. s \in Nat /\ e \in Nat
      BY <2>1 DEF Blocks
    <2>3. /\ \A c \in Pieces(s, e) : c \in (s .. e) \X (s .. e) /\ c[1] <= c[2]
          /\ CoveredBy(Pieces(s, e)) = s .. e
      BY <2>2, PiecesCover
    <2>4. Pieces(s, e) \in SUBSET Chunks
      BY <2>1, <2>3 DEF Chunks
    <2> QED BY <2>1, <2>3, <2>4 DEF e
  <1>3. Extents(bits) \in SUBSET Chunks
    BY <1>2 DEF Extents
  <1>4. \A x : x \in CoveredBy(Extents(bits)) <=>
               \E s \in RunStarts(bits) : x \in CoveredBy(Pieces(s, RunEnd(bits, s)))
    BY DEF Extents, CoveredBy
  <1>5. ASSUME NEW x \in CoveredBy(Extents(bits)) PROVE x \in bits
    <2>1. PICK s \in RunStarts(bits) : x \in CoveredBy(Pieces(s, RunEnd(bits, s)))
      BY <1>4
    <2> QED BY <1>2, <2>1
  <1>6. ASSUME NEW b \in bits PROVE b \in CoveredBy(Extents(bits))
    <2>1. PICK s \in RunStarts(bits) : s <= b /\ s .. b \subseteq bits
      BY RunStartIs
    <2> DEFINE e == RunEnd(bits, s)
    <2>2. s \in bits /\ e \in bits /\ s <= e /\ e + 1 \notin bits
      BY <1>1, RunEndIs
    <2> HIDE DEF e
    <2>3. s \in Nat /\ e \in Nat /\ b \in Nat
      BY <2>2 DEF Blocks
    <2>4. b <= e
      BY <2>1, <2>2, <2>3
    <2>5. b \in s .. e
      BY <2>1, <2>3, <2>4
    <2> QED BY <1>2, <1>4, <2>5 DEF e
  <1> QED BY <1>3, <1>5, <1>6

-----------------------------------------------------------------------------
\* The chunks a copy thread has still to write to the replica.
Left(t) ==
    IF tpc[t] \in {"unflag", "late"} THEN ranges[t] \ {First(ranges[t])}
                                     ELSE ranges[t]

Early(b) == <<"early", b>> \in raced

\* DaemonTypeOK as conjuncts over the functions themselves, what a copy thread has
\* in hand, and the files.
TypeInv ==
    /\ disk \in [Blocks -> Vals] /\ replica \in [Blocks -> Vals]
    /\ inflight \in [Blocks -> [val : 0 .. MaxWrites, logged : BOOLEAN]]
    /\ ring \in Seq(Records) /\ pendingBin \in Seq(Records)
    /\ batch \in Seq(Records) /\ parked \in Seq(Records)
    /\ deferred \in Seq(Records) /\ late \in [Threads -> Seq(Records)]
    /\ Len(ring) <= RingCap
    /\ gapPending \in BOOLEAN /\ bitmap \subseteq Blocks
    /\ recovery \in [on : BOOLEAN, extents : SUBSET Chunks]
    /\ baseEnd \in BOOLEAN /\ rebuildLock \in BOOLEAN
    /\ mpc \in MainPcs /\ park \in BOOLEAN /\ taken \subseteq Chunks
    /\ upos \in Nat /\ queue \in Nat /\ nw \in 0 .. MaxWrites
    /\ copying = << >> \/ copying \in Chunks
    /\ baseProgress \in BOOLEAN /\ overflowed \in BOOLEAN /\ frozen \in BOOLEAN
    /\ due \in BOOLEAN /\ stop \in BOOLEAN
    /\ mark \in Points /\ point \in Points
    /\ tpc \in [Threads -> CopyPcs] /\ ranges \in [Threads -> SUBSET Chunks]
    /\ buf \in [Threads -> {<< >>} \cup [Blocks -> Vals]]
    /\ \A t \in Threads :
         /\ tpc[t] = "write" => buf[t] # << >>
         /\ tpc[t] \in {"devread", "write", "unflag", "late"} => ranges[t] # {}

\* Old data is never zero, on the disk, in a copy thread's buffer and, once it is
\* there, in the replica; what the base copy has not brought there is still left.
BaseInv ==
    \A b \in Blocks : b # NBlocks =>
        /\ disk[b] # Zero
        /\ \A t \in Threads : tpc[t] = "write" => buf[t][b] # Zero
        /\ baseEnd => replica[b] # Zero
        /\ tpc["base"] \notin {"off", "finish"} =>
              replica[b] # Zero \/ b \in CoveredBy(Left("base"))

\* What is known of a block whose last write was dropped...
OwedInv ==
    /\ \A b \in owed : inflight[b] = NoWrite \/ ~inflight[b].logged
    /\ \A b \in Blocks : (inflight[b] # NoWrite /\ ~inflight[b].logged) =>
                            b \in bitmap \/ Early(b)
    /\ owed \subseteq Blocks
    /\ owed \cap bitmap # {} => overflowed
    /\ \A b \in owed : (tpc["rec"] = "write" /\ buf["rec"][b] # disk[b]) =>
                            b \in bitmap \/ Early(b)

\* ... and of the recoveries that are to re-read it.
RecoveryInv ==
    /\ mpc # "persist" => taken = {}
    /\ mpc = "init" => \A t \in Threads : tpc[t] = "off"
    /\ recovery.on \/ recovery.extents = {}
    /\ tpc["rec"] # "off" =>
         \A b \in owed \cap CoveredBy(recovery.extents) :
            b \in CoveredBy(Left("rec")) \/ b \in bitmap \/ Early(b)
    /\ (tpc["rec"] = "off" /\ mpc # "init" /\ ~stop) =>
         \A b \in owed \cap CoveredBy(recovery.extents) :
            \/ b \in bitmap \cup CoveredBy(taken)
            \/ Early(b) \/ <<"error", b>> \in raced
    /\ MarkedBut({"early", "cleared", "overwritten"})

DaemonInv == TypeInv /\ BaseInv /\ OwedInv /\ RecoveryInv

-----------------------------------------------------------------------------
\* The records that read(2) delivers are acknowledged ones at the front of the ring.
LEMMA DeliverableIn ==
    ASSUME TypeInv
    PROVE  /\ Deliverable \in 0 .. Len(ring)
           /\ \A k \in 1 .. Deliverable : ring[k].done
  <1> DEFINE ns == {n \in 0 .. Len(ring) : \A k \in 1 .. n : ring[k].done}
             S  == {n \in Nat : \E m \in ns : m + n = Len(ring)}
  <1>1. Len(ring) \in Nat
    BY LenProperties DEF TypeInv
  <1>2. 0 \in ns /\ Len(ring) \in S
    BY <1>1
  <1>3. S \in SUBSET Nat /\ S # {}
    BY <1>2
  <1>4. PICK n \in S : \A k \in S : n <= k
    BY <1>3, LeastNat
  <1>5. PICK m \in ns : m + n = Len(ring)
    BY <1>4
  <1>6. ASSUME NEW k \in ns PROVE k <= m
    <2>1. Len(ring) - k \in S
      BY <1>1
    <2>2. k \in Nat /\ m \in Nat /\ n \in Nat
      BY <1>1, <1>2
    <2>3. n <= Len(ring) - k /\ m + n = Len(ring)
      BY <1>4, <1>5, <2>1
    <2> HIDE DEF ns, S
    <2> QED BY <1>1, <2>2, <2>3
  <1>7. \E x \in ns : \A k \in ns : k <= x
    BY <1>6
  <1> DEFINE n0 == CHOOSE x \in ns : \A k \in ns : k <= x
  <1>8. n0 \in ns
    BY <1>7
  <1>9. n0 \in 0 .. Len(ring) /\ \A k \in 1 .. n0 : ring[k].done
    BY <1>8
  <1>10. Deliverable = IF n0 <= ReadMax THEN n0 ELSE ReadMax
    BY DEF Deliverable
  <1> HIDE DEF n0
  <1>11. Deliverable \in 0 .. Len(ring) /\ Deliverable <= n0
    BY <1>1, <1>9, <1>10
  <1> QED BY <1>1, <1>9, <1>11

\* An empty list of records.
LEMMA NoRecords == << >> \in Seq(Records) /\ Len(<< >>) = 0
  BY EmptySeq

\* The ends of a list of records.
LEMMA RecordEnds ==
    ASSUME NEW s \in Seq(Records), s # << >>
    PROVE  Head(s) \in Records /\ Tail(s) \in Seq(Records)
  BY HeadTailProperties

\* A record applied or deferred leaves the types as they are.
LEMMA ApplyOneTypes ==
    ASSUME TypeInv, NEW r \in Records, ApplyOne(r)
    PROVE  replica' \in [Blocks -> Vals] /\ deferred' \in Seq(Records)
  <1>1. r.blk \in Blocks /\ r.val \in Vals
    BY DEF Records, Vals
  <1>2. CASE Deferred(r)
    <2>1. deferred' = Append(deferred, r) /\ deferred \in Seq(Records)
          /\ replica' = replica /\ replica \in [Blocks -> Vals]
      BY <1>2 DEF ApplyOne, TypeInv
    <2> QED BY <2>1, AppendProperties
  <1>3. CASE ~Deferred(r)
    BY <1>1, <1>3 DEF ApplyOne, TypeInv, Stored
  <1> QED BY <1>2, <1>3

LEMMA TypeWrite ==
    ASSUME TypeInv, NEW b \in Blocks, Write(b)
    PROVE  TypeInv'
  <1> DEFINE r == [blk |-> b, val |-> nw + 1, gap |-> gapPending, done |-> FALSE]
  <1>0. nw + 1 \in 1 .. MaxWrites
    BY DEF Write, TypeInv
  <1>1. r \in Records
    BY <1>0 DEF TypeInv, Records
  <1>3. inflight' \in [Blocks -> [val : 0 .. MaxWrites, logged : BOOLEAN]]
    BY <1>0 DEF Write, TypeInv
  <1>4. nw' \in 0 .. MaxWrites /\ bitmap' \subseteq Blocks
    BY <1>0 DEF Write, TypeInv
  <1>5. gapPending' \in BOOLEAN
    BY DEF Write
  <1>6. overflowed' \in BOOLEAN
    BY DEF Write, TypeInv
  <1>2. ring' \in Seq(Records) /\ Len(ring') <= RingCap
    <2>1. CASE Len(ring) < RingCap
      <3>1. ring' = Append(ring, r) /\ ring \in Seq(Records) /\ r \in Records
        BY <1>1, <2>1 DEF Write, TypeInv
      <3> HIDE DEF r
      <3>2. ring' \in Seq(Records) /\ Len(ring') = Len(ring) + 1 /\ Len(ring) \in Nat
        BY <3>1, AppendProperties, LenProperties
      <3> QED BY <2>1, <3>2
    <2>2. CASE ~(Len(ring) < RingCap)
      BY <2>2 DEF Write, TypeInv
    <2> QED BY <2>1, <2>2
  <1>7. UNCHANGED <<disk, files, mainLoc, copier, marking>>
    BY DEF Write
  <1> QED BY <1>2, <1>3, <1>4, <1>5, <1>6, <1>7 DEF TypeInv, files, mainLoc, copier, marking

\* A write comes to its end, on the disk or not.
Ended(b) == Complete(b) \/ CompleteError(b)

LEMMA EndedStep ==
    ASSUME NEW b \in Blocks, Ended(b)
    PROVE  /\ EndIo(b)
           /\ disk' = disk \/ disk' = [disk EXCEPT ![b] = inflight[b].val]
           /\ raced \subseteq raced' /\ raced' \subseteq raced \cup {<<"failed", b>>}
           /\ UNCHANGED <<rebuilds, read, applied, last, owed>>
  BY DEF Ended, Complete, CompleteError, ghosts

LEMMA TypeEnded ==
    ASSUME TypeInv, NEW b \in Blocks, Ended(b)
    PROVE  TypeInv'
  <1> DEFINE n == Len(ring)
             done(k) == [ring[k] EXCEPT !.done = @ \/ ring[k].val = inflight[b].val]
  <1>0. EndIo(b)
    BY EndedStep
  <1>1. n \in Nat /\ \A k \in 1 .. n : ring[k] \in Records
    BY LenProperties, ElementOfSeq DEF TypeInv
  <1>2. \A k \in 1 .. n : done(k) \in Records
    BY <1>1 DEF Records
  <1>3. ring' = [k \in 1 .. n |-> done(k)]
    BY <1>0 DEF EndIo
  <1> HIDE DEF n, done
  <1>4. ring' \in Seq(Records) /\ Len(ring') = n
    BY <1>1, <1>2, <1>3
  <1>5. disk' \in [Blocks -> Vals]
    <2>1. inflight[b].val \in Vals
      BY DEF TypeInv, Vals
    <2> QED BY <2>1, EndedStep DEF TypeInv
  <1>6. inflight' \in [Blocks -> [val : 0 .. MaxWrites, logged : BOOLEAN]]
    <2>1. NoWrite \in [val : 0 .. MaxWrites, logged : BOOLEAN]
      BY DEF NoWrite
    <2> QED BY <1>0, <2>1 DEF EndIo, TypeInv
  <1>7. Len(ring') <= RingCap
    BY <1>4 DEF n, TypeInv
  <1>8. UNCHANGED <<gapPending, bitmap, nw, files, mainLoc, copier, extra>>
    BY <1>0 DEF EndIo
  <1> QED BY <1>4, <1>5, <1>6, <1>7, <1>8 DEF TypeInv, device, files, mainLoc, copier, ghosts, marking, extra

LEMMA TypeStart ==
    ASSUME TypeInv, Start
    PROVE  TypeInv'
  <1>1. Pieces(1, NBlocks) \in SUBSET Chunks
    BY PiecesCover DEF Chunks, Blocks
  <1>2. /\ ranges' \in [Threads -> SUBSET Chunks] /\ tpc' \in [Threads -> CopyPcs]
        /\ \A t \in Threads : tpc'[t] \in {"off", "flag", "start"}
    BY <1>1 DEF Start, TypeInv, CopyPcs
  <1> QED BY <1>2 DEF Start, TypeInv, MainPcs, device, files, mainLoc, copier, ghosts, marking, extra

LEMMA TypeReadRing ==
    ASSUME TypeInv, ReadRing
    PROVE  TypeInv'
  <1> DEFINE n == Deliverable
             len == Len(ring)
  <1>1. n \in 0 .. len /\ len \in Nat /\ ring \in Seq(Records) /\ n > 0
    BY DeliverableIn, LenProperties DEF TypeInv, ReadRing
  <1>2. batch' = SubSeq(ring, 1, n) /\ ring' = SubSeq(ring, n + 1, len)
    BY DEF ReadRing
  <1>3. park' \in BOOLEAN /\ mpc' \in MainPcs
    BY DEF ReadRing, TypeInv, Paused, MainPcs
  <1> HIDE DEF n
  <1>4. batch' \in Seq(Records)
    BY <1>1, <1>2, SubSeqProperties
  <1>5. ring' \in Seq(Records) /\ Len(ring') <= len
    BY <1>1, <1>2, SubSeqProperties
  <1>6. len <= RingCap
    BY DEF TypeInv
  <1> HIDE DEF len
  <1>7. Len(ring') <= RingCap
    BY <1>1, <1>5, <1>6, LenProperties
  <1>8. UNCHANGED <<disk, inflight, gapPending, bitmap, nw, files, parked, upos, taken,
                    queue, copier, extra>>
    BY DEF ReadRing
  <1> QED BY <1>3, <1>4, <1>5, <1>7, <1>8 DEF TypeInv, files, copier, marking, extra

LEMMA TypeReadNothing ==
    ASSUME TypeInv, ReadNothing
    PROVE  TypeInv'
  BY DEF ReadNothing, TypeInv, MainPcs, device, files, mainLoc, copier, ghosts, marking, extra

LEMMA TypeConsume ==
    ASSUME TypeInv, Consume
    PROVE  TypeInv'
  <1>1. Head(batch) \in Records /\ batch' \in Seq(Records) /\ queue' \in Nat
    BY RecordEnds DEF Consume, TypeInv
  <1>2. CASE park
    <2>1. parked' \in Seq(Records)
      <3>1. parked' = Append(parked, Head(batch)) /\ parked \in Seq(Records)
        BY <1>2 DEF Consume, TypeInv
      <3> QED BY <1>1, <3>1, AppendProperties
    <2> QED BY <1>1, <1>2, <2>1 DEF Consume, TypeInv, device, files, mainLoc, copier, ghosts, marking, extra
  <1>3. CASE ~park
    <2>1. ApplyOne(Head(batch)) /\ parked' = parked
      BY <1>3 DEF Consume
    <2>2. replica' \in [Blocks -> Vals] /\ deferred' \in Seq(Records)
      BY <1>1, <2>1, ApplyOneTypes
    <2> QED BY <1>1, <2>1, <2>2 DEF Consume, TypeInv, device, files, mainLoc, copier, ghosts, marking, extra
  <1> QED BY <1>2, <1>3

LEMMA TypeConsumeEnd ==
    ASSUME TypeInv, ConsumeEnd
    PROVE  TypeInv'
  <1>1. pendingBin' \in Seq(Records)
    BY ConcatProperties DEF ConsumeEnd, TypeInv, Parked
  <1>2. park' \in BOOLEAN /\ mpc' \in MainPcs
    BY DEF ConsumeEnd, MainPcs
  <1> QED BY <1>1, <1>2, NoRecords DEF ConsumeEnd, TypeInv, device, files, mainLoc, copier, ghosts, marking, extra

LEMMA TypeNoRecovery ==
    ASSUME TypeInv, NoRecovery
    PROVE  TypeInv'
  BY DEF NoRecovery, TypeInv, MainPcs, device, files, mainLoc, copier, ghosts, marking, extra

LEMMA TypeReadBitmap ==
    ASSUME TypeInv, ReadBitmap
    PROVE  TypeInv'
  <1>1. taken' \in SUBSET Chunks /\ queue' \in Nat
    <2>1. bitmap \in SUBSET Blocks /\ taken' = Extents(bitmap)
      BY DEF ReadBitmap, TypeInv
    <2>2. taken' \in SUBSET Chunks
      BY <2>1, ExtentsCover
    <2> QED BY <2>2 DEF ReadBitmap, MayRecover, TypeInv
  <1> QED BY <1>1, ZenonT(60)
      DEF ReadBitmap, TypeInv, MainPcs, device, files, mainLoc, copier, ghosts,
          marking, extra

LEMMA TypeStartRecovery ==
    ASSUME TypeInv, StartRecovery
    PROVE  TypeInv'
  <1>1. /\ ranges' \in [Threads -> SUBSET Chunks] /\ tpc' \in [Threads -> CopyPcs]
        /\ \A t \in Threads :
             tpc'[t] = "flag" \/ (tpc'[t] = tpc[t] /\ ranges'[t] = ranges[t])
    BY DEF StartRecovery, TypeInv, CopyPcs, Threads
  <1>2. recovery' \in [on : BOOLEAN, extents : SUBSET Chunks] /\ taken' \subseteq Chunks
    BY DEF StartRecovery, TypeInv
  <1> QED BY <1>1, <1>2 DEF StartRecovery, TypeInv, MainPcs, device, files, mainLoc, copier, ghosts, marking, extra

LEMMA TypeUnpark ==
    ASSUME TypeInv, Unpark
    PROVE  TypeInv'
  BY DEF Unpark, NextTurn, TypeInv, MainPcs, device, files, mainLoc, copier, ghosts, marking, extra

LEMMA TypeApplyPending ==
    ASSUME TypeInv, ApplyPending
    PROVE  TypeInv'
  <1>1. pendingBin[upos + 1] \in Records /\ upos' \in Nat
    BY ElementOfSeq, LenProperties DEF ApplyPending, TypeInv
  <1>2. replica' \in [Blocks -> Vals] /\ deferred' \in Seq(Records)
    BY <1>1, ApplyOneTypes DEF ApplyPending
  <1> QED BY <1>1, <1>2 DEF ApplyPending, TypeInv, device, files, mainLoc, copier, ghosts, marking, extra

LEMMA TypePendingDone ==
    ASSUME TypeInv, PendingDone
    PROVE  TypeInv'
  BY NoRecords DEF PendingDone, NextTurn, TypeInv, MainPcs, device, files, mainLoc, copier, ghosts, marking, extra

LEMMA TypeMarkBegin ==
    ASSUME TypeInv, MarkBegin
    PROVE  TypeInv'
  BY DEF MarkBegin, TypeInv, MainPcs, device, files, mainLoc, copier, ghosts, marking, extra

LEMMA TypeFreeze ==
    ASSUME TypeInv, Freeze
    PROVE  TypeInv'
  BY DEF Freeze, TypeInv, MainPcs, device, files, mainLoc, copier, ghosts, marking, extra

LEMMA TypeFreezeRefused ==
    ASSUME TypeInv, FreezeRefused
    PROVE  TypeInv'
  BY DEF FreezeRefused, TypeInv, MainPcs, device, files, mainLoc, copier, ghosts, marking, extra

LEMMA TypeDrainEnd ==
    ASSUME TypeInv, DrainEnd
    PROVE  TypeInv'
  <1>1. mark' \in Points
    <2>1. RootBlocks \subseteq Blocks
      BY EnvAssumption DEF Blocks
    <2>2. NoPoint \in Points
      BY DEF NoPoint, Points
    <2> QED BY <2>1, <2>2 DEF DrainEnd, Points
  <1> QED BY <1>1 DEF DrainEnd, TypeInv, MainPcs, device, files, mainLoc, copier, ghosts, marking, extra

LEMMA TypeThaw ==
    ASSUME TypeInv, Thaw
    PROVE  TypeInv'
  BY ZenonT(60)
      DEF Thaw, TypeInv, MainPcs, device, files, mainLoc, copier, ghosts,
          marking, extra

LEMMA TypeRecordPoint ==
    ASSUME TypeInv, RecordPoint
    PROVE  TypeInv'
  <1>1. mark' \in Points /\ point' \in Points /\ due' \in BOOLEAN
    BY DEF RecordPoint, TypeInv, Points, NoPoint, Abandoned
  <1> QED BY <1>1 DEF RecordPoint, TypeInv, MainPcs, device, files, mainLoc, copier, ghosts, marking, extra

\* The end of the process, on one of three ways.
LEMMA TypeProcessGone ==
    ASSUME TypeInv, ProcessGone, frozen' \in BOOLEAN
    PROVE  TypeInv'
  <1>1. /\ ranges' \in [Threads -> SUBSET Chunks] /\ tpc' \in [Threads -> CopyPcs]
        /\ buf' \in [Threads -> {<< >>} \cup [Blocks -> Vals]]
        /\ \A t \in Threads : tpc'[t] = "off"
    BY DEF ProcessGone, CopyPcs
  <1>2. late' \in [Threads -> Seq(Records)]
    BY NoRecords DEF ProcessGone
  <1>3. mark' \in Points
    BY DEF ProcessGone, NoPoint, Points
  <1>4. mpc' \in MainPcs
    BY DEF ProcessGone, MainPcs
  <1> QED BY <1>1, <1>2, <1>3, <1>4, NoRecords DEF ProcessGone, TypeInv, device, files, mainLoc, copier, ghosts, marking, extra

LEMMA TypeExit ==
    ASSUME TypeInv, Exit
    PROVE  TypeInv'
  BY TypeProcessGone DEF Exit, TypeInv

LEMMA TypeFlagChunk ==
    ASSUME TypeInv, NEW t \in Threads, FlagChunk(t)
    PROVE  TypeInv'
  <1>1. copying' \in Chunks
    BY FirstIn DEF FlagChunk, TypeInv
  <1> QED BY <1>1, NoRecords DEF FlagChunk, TypeInv, Goto, CopyPcs, device, files, mainLoc, copier, ghosts, marking, extra

LEMMA TypeReadDevice ==
    ASSUME TypeInv, NEW t \in Threads, ReadDevice(t)
    PROVE  TypeInv'
  <1>1. disk # << >>
    <2>1. 1 \in Blocks
      BY DEF Blocks
    <2> QED BY <2>1 DEF TypeInv
  <1> QED BY <1>1 DEF ReadDevice, TypeInv, Goto, CopyPcs, device, files, mainLoc, copier, ghosts, marking, extra

LEMMA TypeWriteReplica ==
    ASSUME TypeInv, NEW t \in Threads, WriteReplica(t)
    PROVE  TypeInv'
  BY DEF WriteReplica, TypeInv, Goto, CopyPcs, device, files, mainLoc, copier, ghosts, marking, extra

LEMMA TypeUnflagChunk ==
    ASSUME TypeInv, NEW t \in Threads, UnflagChunk(t)
    PROVE  TypeInv'
  BY NoRecords DEF UnflagChunk, LateRecords, TypeInv, Goto, CopyPcs, device, files, mainLoc, copier, ghosts, marking, extra

LEMMA TypeApplyLate ==
    ASSUME TypeInv, NEW t \in Threads, ApplyLate(t)
    PROVE  TypeInv'
  <1>1. Head(late[t]) \in Records /\ Tail(late[t]) \in Seq(Records)
    BY RecordEnds DEF ApplyLate, TypeInv
  <1>2. replica' \in [Blocks -> Vals] /\ deferred' \in Seq(Records)
    BY <1>1, ApplyOneTypes DEF ApplyLate
  <1>3. late' \in [Threads -> Seq(Records)]
    BY <1>1 DEF ApplyLate, TypeInv
  <1> QED BY <1>2, <1>3 DEF ApplyLate, TypeInv, device, files, mainLoc, copier, ghosts, marking, extra

LEMMA TypeChunkDone ==
    ASSUME TypeInv, NEW t \in Threads, ChunkDone(t)
    PROVE  TypeInv'
  BY DEF ChunkDone, TypeInv, Goto, CopyPcs, device, files, mainLoc, copier, ghosts, marking, extra

LEMMA TypeInterrupted ==
    ASSUME TypeInv, NEW t \in Threads, Interrupted(t)
    PROVE  TypeInv'
  BY DEF Interrupted, TypeInv, Goto, CopyPcs, device, files, mainLoc, copier, ghosts, marking, extra

LEMMA TypeRecoverDone ==
    ASSUME TypeInv, RecoverDone
    PROVE  TypeInv'
  <1>1. recovery' \in [on : BOOLEAN, extents : SUBSET Chunks]
    BY DEF RecoverDone, NoFile
  <1> QED BY <1>1 DEF RecoverDone, TypeInv, Goto, CopyPcs, Threads, device, files, mainLoc, copier, ghosts, marking, extra

LEMMA TypeBaseBegin ==
    ASSUME TypeInv, BaseBegin
    PROVE  TypeInv'
  BY DEF BaseBegin, TypeInv, Goto, CopyPcs, Threads, device, files, mainLoc, copier, ghosts, marking, extra

LEMMA TypeBaseDoneNow ==
    ASSUME TypeInv, BaseDoneNow
    PROVE  TypeInv'
  BY DEF BaseDoneNow, TypeInv, Goto, CopyPcs, Threads, device, files, mainLoc, copier, ghosts, marking, extra

LEMMA TypeBaseExit ==
    ASSUME TypeInv, BaseExit
    PROVE  TypeInv'
  BY ZenonT(60)
      DEF BaseExit, TypeInv, Goto, CopyPcs, Threads, device, files, mainLoc,
          copier, ghosts, marking, extra

LEMMA TypeCopyFail ==
    ASSUME TypeInv, NEW t \in Threads, CopyFail(t)
    PROVE  TypeInv'
  <1>1. late' \in [Threads -> Seq(Records)]
    BY NoRecords DEF CopyFail, TypeInv
  <1> QED BY <1>1 DEF CopyFail, TypeInv, Goto, CopyPcs, device, files, mainLoc, copier, ghosts, marking, extra

LEMMA TypeCrash ==
    ASSUME TypeInv, Crash
    PROVE  TypeInv'
  BY TypeProcessGone DEF Crash, TypeInv

LEMMA TypeFreezeTimeout ==
    ASSUME TypeInv, FreezeTimeout
    PROVE  TypeInv'
  BY TypeProcessGone DEF FreezeTimeout, TypeInv

LEMMA TypeOnSig ==
    ASSUME TypeInv, OnSig
    PROVE  TypeInv'
  BY DEF OnSig, TypeInv, device, files, mainLoc, copier, ghosts, marking, extra

LEMMA TypeRebuildBegin ==
    ASSUME TypeInv, RebuildBegin
    PROVE  TypeInv'
  BY DEF RebuildBegin, TypeInv, device, files, mainLoc, copier, ghosts, marking, extra

LEMMA TypeRebuildEnd ==
    ASSUME TypeInv, RebuildEnd
    PROVE  TypeInv'
  BY ZenonT(60)
      DEF RebuildEnd, TypeInv, device, files, mainLoc, copier, ghosts, marking,
          extra

LEMMA TypeStutter ==
    ASSUME TypeInv, UNCHANGED vars
    PROVE  TypeInv'
  BY DEF TypeInv, vars, device, files, mainLoc, copier, ghosts, marking, extra

-----------------------------------------------------------------------------
(* The actions, sorted by what they leave alone.                           *)

\* Nothing that the invariants below speak of, but for the place in the loop.
Quiet ==
    \/ ReadRing \/ ReadNothing \/ ConsumeEnd \/ NoRecovery \/ Unpark \/ PendingDone
    \/ MarkBegin \/ Freeze \/ FreezeRefused \/ DrainEnd \/ Thaw \/ RecordPoint
    \/ RebuildBegin \/ RebuildEnd

\* One record goes to the replica or to deferred.
Applies == Consume \/ ApplyPending \/ \E t \in Threads : ApplyLate(t)

core == <<disk, inflight, bitmap, recovery, baseEnd, taken, tpc, ranges, buf,
          owed, stop, overflowed>>

LEMMA QuietStep ==
    ASSUME TypeInv, Quiet
    PROVE  /\ UNCHANGED <<core, replica, raced>>
           /\ \/ mpc' = mpc
              \/ mpc \notin {"init", "persist"} /\ mpc' \notin {"init", "persist"}
  <1> USE DEF core, device, files, mainLoc, copier, ghosts, marking, extra
  <1>1. CASE ReadRing
    BY <1>1 DEF ReadRing
  <1>2. CASE ReadNothing
    BY <1>2 DEF ReadNothing
  <1>3. CASE ConsumeEnd
    BY <1>3 DEF ConsumeEnd
  <1>4. CASE NoRecovery
    BY <1>4 DEF NoRecovery
  <1>5. CASE Unpark
    BY <1>5 DEF Unpark, NextTurn
  <1>6. CASE PendingDone
    BY <1>6 DEF PendingDone, NextTurn
  <1>7. CASE MarkBegin
    BY <1>7 DEF MarkBegin
  <1>8. CASE Freeze
    BY <1>8 DEF Freeze
  <1>9. CASE FreezeRefused
    BY <1>9 DEF FreezeRefused
  <1>10. CASE DrainEnd
    BY <1>10 DEF DrainEnd
  <1>11. CASE Thaw
    BY <1>11 DEF Thaw
  <1>12. CASE RecordPoint
    BY <1>12 DEF RecordPoint
  <1>13. CASE RebuildBegin
    BY <1>13 DEF RebuildBegin
  <1>14. CASE RebuildEnd
    BY <1>14 DEF RebuildEnd
  <1> QED BY <1>1, <1>2, <1>3, <1>4, <1>5, <1>6, <1>7, <1>8, <1>9, <1>10, <1>11,
             <1>12, <1>13, <1>14 DEF Quiet

LEMMA ApplyOneStep ==
    ASSUME TypeInv, NEW r \in Records, ApplyOne(r)
    PROVE  /\ raced \subseteq raced'
           /\ \A b \in Blocks : replica'[b] = replica[b] \/ replica'[b] # Zero
  <1>1. r.blk \in Blocks /\ r.val \in 1 .. MaxWrites
    BY DEF Records
  <1>2. CASE Deferred(r)
    BY <1>2 DEF ApplyOne
  <1>3. CASE ~Deferred(r)
    BY <1>1, <1>3 DEF ApplyOne, Stored, TypeInv, Zero
  <1> QED BY <1>2, <1>3

LEMMA AppliesStep ==
    ASSUME TypeInv, Applies
    PROVE  /\ UNCHANGED core /\ mpc' = mpc /\ raced \subseteq raced'
           /\ \A b \in Blocks : replica'[b] = replica[b] \/ replica'[b] # Zero
  <1> USE DEF core, device, files, mainLoc, copier, ghosts, marking, extra
  <1>1. CASE Consume
    <2>1. Head(batch) \in Records
      BY <1>1, RecordEnds DEF Consume, TypeInv
    <2>2. \/ UNCHANGED <<replica, raced>>
          \/ ApplyOne(Head(batch))
      BY <1>1 DEF Consume
    <2>3. /\ raced \subseteq raced'
          /\ \A b \in Blocks : replica'[b] = replica[b] \/ replica'[b] # Zero
      BY <2>1, <2>2, ApplyOneStep
    <2>4. UNCHANGED core /\ mpc' = mpc
      BY <1>1 DEF Consume
    <2> QED BY <2>3, <2>4
  <1>2. CASE ApplyPending
    <2>1. pendingBin[upos + 1] \in Records
      BY <1>2, ElementOfSeq, LenProperties DEF ApplyPending, TypeInv
    <2>2. ApplyOne(pendingBin[upos + 1]) /\ UNCHANGED core /\ mpc' = mpc
      BY <1>2 DEF ApplyPending
    <2> QED BY <2>1, <2>2, ApplyOneStep
  <1>3. ASSUME NEW t \in Threads, ApplyLate(t)
        PROVE  /\ UNCHANGED core /\ mpc' = mpc /\ raced \subseteq raced'
               /\ \A b \in Blocks : replica'[b] = replica[b] \/ replica'[b] # Zero
    <2>1. Head(late[t]) \in Records
      BY <1>3, RecordEnds DEF ApplyLate, TypeInv
    <2>2. ApplyOne(Head(late[t])) /\ UNCHANGED core /\ mpc' = mpc
      BY <1>3 DEF ApplyLate
    <2> QED BY <2>1, <2>2, ApplyOneStep
  <1> QED BY <1>1, <1>2, <1>3 DEF Applies

\* The steps of a copy thread other than applying its late records.
Copies(t) ==
    \/ FlagChunk(t) \/ ReadDevice(t) \/ WriteReplica(t) \/ UnflagChunk(t)
    \/ ChunkDone(t) \/ Interrupted(t) \/ CopyFail(t)
    \/ t = "rec" /\ RecoverDone
    \/ t = "base" /\ (BaseBegin \/ BaseDoneNow \/ BaseExit)

\* The process is gone.
Gone == Exit \/ Crash \/ FreezeTimeout

LEMMA StepCases ==
    ASSUME Next
    PROVE  \/ \E b \in Blocks : Write(b) \/ Ended(b)
           \/ Start \/ ReadBitmap \/ StartRecovery \/ OnSig
           \/ Quiet \/ Applies \/ Gone
           \/ \E t \in Threads : Copies(t)
  BY DEF Next, NodeStep, MainStep, CopyStep, Quiet, Applies, Gone, Copies, Ended

\* The types hold in every state.
LEMMA TypeStep ==
    ASSUME TypeInv, Next
    PROVE  TypeInv'
  <1>1. ASSUME NEW t \in Threads, CopyStep(t) PROVE TypeInv'
    BY <1>1, TypeFlagChunk, TypeReadDevice, TypeWriteReplica, TypeUnflagChunk,
       TypeApplyLate, TypeChunkDone, TypeInterrupted, TypeRecoverDone,
       TypeBaseBegin, TypeBaseDoneNow, TypeBaseExit DEF CopyStep
  <1>2. CASE MainStep
    BY <1>2, TypeStart, TypeReadRing, TypeReadNothing, TypeConsume,
       TypeConsumeEnd, TypeNoRecovery, TypeReadBitmap, TypeStartRecovery,
       TypeUnpark, TypeApplyPending, TypePendingDone, TypeMarkBegin, TypeFreeze,
       TypeFreezeRefused, TypeDrainEnd, TypeThaw, TypeRecordPoint, TypeExit
       DEF MainStep
  <1> QED BY <1>1, <1>2, TypeWrite, TypeEnded, TypeCopyFail, TypeCrash,
             TypeFreezeTimeout, TypeOnSig, TypeRebuildBegin, TypeRebuildEnd
             DEF Next, NodeStep, Ended

LEMMA TypeInit ==
    ASSUME Init
    PROVE  TypeInv
  <1>1. /\ Before \in [Blocks -> Vals] /\ [b \in Blocks |-> Zero] \in [Blocks -> Vals]
        /\ NoWrite \in [val : 0 .. MaxWrites, logged : BOOLEAN]
    BY DEF Before, Vals, Old, Zero, NoWrite
  <1>2. NoPoint \in Points /\ NoFile \in [on : BOOLEAN, extents : SUBSET Chunks]
    BY DEF NoPoint, Points, NoFile
  <1>3. disk \in [Blocks -> Vals] /\ replica \in [Blocks -> Vals]
    BY <1>1 DEF Init
  <1>4. Len(ring) <= RingCap
    BY NoRecords DEF Init
  <1>5. /\ tpc \in [Threads -> CopyPcs] /\ ranges \in [Threads -> SUBSET Chunks]
        /\ buf \in [Threads -> {<< >>} \cup [Blocks -> Vals]]
        /\ late \in [Threads -> Seq(Records)]
        /\ \A t \in Threads : tpc[t] = "off"
    BY NoRecords DEF Init, CopyPcs
  <1>6. inflight \in [Blocks -> [val : 0 .. MaxWrites, logged : BOOLEAN]]
    BY <1>1 DEF Init
  <1>7. /\ mark \in Points /\ point \in Points /\ mpc \in MainPcs
        /\ recovery \in [on : BOOLEAN, extents : SUBSET Chunks]
    BY <1>2 DEF Init, MainPcs
  <1>8. /\ ring \in Seq(Records) /\ pendingBin \in Seq(Records)
        /\ batch \in Seq(Records) /\ parked \in Seq(Records)
        /\ deferred \in Seq(Records)
    BY NoRecords DEF Init
  <1>9. baseEnd \in BOOLEAN
    BY DEF Init
  <1>10. /\ gapPending = FALSE /\ bitmap = {} /\ rebuildLock = FALSE /\ park = FALSE
         /\ taken = {} /\ upos = 0 /\ queue = 0 /\ nw = 0 /\ copying = << >>
         /\ baseProgress = FALSE /\ overflowed = FALSE /\ frozen = FALSE
         /\ due = TRUE /\ stop = FALSE
    BY DEF Init
  <1>11. /\ bitmap \subseteq Blocks /\ taken \subseteq Chunks
         /\ upos \in Nat /\ queue \in Nat /\ nw \in 0 .. MaxWrites
         /\ copying = << >> \/ copying \in Chunks
         /\ \A t \in Threads :
              /\ tpc[t] = "write" => buf[t] # << >>
              /\ tpc[t] \in {"devread", "write", "unflag", "late"} => ranges[t] # {}
    BY <1>5, <1>10
  <1>12. /\ gapPending \in BOOLEAN /\ rebuildLock \in BOOLEAN /\ park \in BOOLEAN
         /\ baseProgress \in BOOLEAN /\ overflowed \in BOOLEAN
         /\ frozen \in BOOLEAN /\ due \in BOOLEAN /\ stop \in BOOLEAN
    BY <1>10
  <1> QED BY <1>3, <1>4, <1>5, <1>6, <1>7, <1>8, <1>9, <1>11, <1>12, Zenon
          DEF TypeInv

-----------------------------------------------------------------------------
(* The base copy.                                                          *)

\* The first chunk is in the replica: the others are left.
LEMMA CoveredSplit ==
    ASSUME NEW rs, NEW c \in rs
    PROVE  CoveredBy(rs) = CoveredBy(rs \ {c}) \cup (c[1] .. c[2])
  BY DEF CoveredBy

LEMMA CoveredNone == CoveredBy({}) = {}
  BY DEF CoveredBy

LEMMA BaseWriteReplica ==
    ASSUME TypeInv, BaseInv, NEW t \in Threads, WriteReplica(t)
    PROVE  BaseInv'
  <1> DEFINE c == First(ranges[t])
             chunk == c[1] .. c[2]
  <1>1. c \in ranges[t] /\ ranges[t] \in SUBSET Chunks
    BY FirstIn DEF WriteReplica, TypeInv
  <1>2. /\ tpc[t] = "write" /\ tpc' = [tpc EXCEPT ![t] = "unflag"]
        /\ UNCHANGED <<disk, baseEnd, ranges>>
        /\ \A s \in Threads : s # t => buf'[s] = buf[s]
        /\ tpc \in [Threads -> CopyPcs]
    BY DEF WriteReplica, Goto, device, TypeInv
  <1>3. ASSUME NEW b \in Blocks, b # NBlocks
        PROVE  replica'[b] = replica[b] \/ replica'[b] # Zero
    BY <1>2, <1>3 DEF WriteReplica, BaseInv
  <1>4. ASSUME NEW b \in chunk, b \in Blocks, b # NBlocks
        PROVE  replica'[b] # Zero
    BY <1>2, <1>4 DEF WriteReplica, BaseInv
  <1> HIDE DEF c
  <1> SUFFICES ASSUME NEW b \in Blocks, b # NBlocks
               PROVE  /\ disk'[b] # Zero
                      /\ \A s \in Threads : tpc'[s] = "write" => buf'[s][b] # Zero
                      /\ baseEnd' => replica'[b] # Zero
                      /\ tpc'["base"] \notin {"off", "finish"} =>
                           replica'[b] # Zero \/ b \in CoveredBy(Left("base")')
    BY DEF BaseInv
  <1>5. /\ disk'[b] # Zero /\ (baseEnd' => replica'[b] # Zero)
        /\ \A s \in Threads : tpc'[s] = "write" => buf'[s][b] # Zero
    BY <1>2, <1>3 DEF BaseInv
  <1>6. CASE t = "base"
    <2>1. Left("base") = ranges[t] /\ Left("base")' = ranges[t] \ {c}
      BY <1>2, <1>6 DEF Left, c
    <2>2. replica[b] # Zero \/ b \in CoveredBy(ranges[t])
      BY <1>2, <1>6, <2>1 DEF BaseInv
    <2>3. CoveredBy(ranges[t]) = CoveredBy(ranges[t] \ {c}) \cup chunk
      BY <1>1, CoveredSplit
    <2> QED BY <1>3, <1>4, <1>5, <2>1, <2>2, <2>3
  <1>7. CASE t # "base"
    <2>1. tpc'["base"] = tpc["base"] /\ Left("base")' = Left("base")
      BY <1>2, <1>7 DEF Left, Threads
    <2> QED BY <1>3, <1>5, <2>1 DEF BaseInv
  <1> QED BY <1>5, <1>6, <1>7

LEMMA BaseCopies ==
    ASSUME TypeInv, BaseInv, NEW t \in Threads, Copies(t)
    PROVE  BaseInv'
  <1> USE DEF device, files, Goto
  <1>0. tpc \in [Threads -> CopyPcs] /\ ranges \in [Threads -> SUBSET Chunks]
        /\ buf \in [Threads -> {<< >>} \cup [Blocks -> Vals]]
    BY DEF TypeInv
  <1>1. CASE FlagChunk(t)
    BY <1>0, <1>1 DEF FlagChunk, BaseInv, Left, Threads
  <1>2. CASE ReadDevice(t)
    BY <1>0, <1>2 DEF ReadDevice, BaseInv, Left, Threads
  <1>3. CASE WriteReplica(t)
    BY <1>3, BaseWriteReplica
  <1>4. CASE UnflagChunk(t)
    BY <1>0, <1>4 DEF UnflagChunk, BaseInv, Left, Threads
  <1>5. CASE ChunkDone(t)
    BY <1>0, <1>5 DEF ChunkDone, BaseInv, Left, Threads
  <1>6. CASE Interrupted(t)
    BY <1>0, <1>6 DEF Interrupted, BaseInv, Left, Threads
  <1>7. CASE CopyFail(t)
    BY <1>0, <1>7 DEF CopyFail, BaseInv, Left, Threads
  <1>8. CASE RecoverDone
    BY <1>0, <1>8 DEF RecoverDone, BaseInv, Left, Threads
  <1>9. CASE BaseBegin
    BY <1>0, <1>9 DEF BaseBegin, BaseInv, Left, Threads
  <1>10. CASE BaseDoneNow
    <2>1. CoveredBy(Left("base")) = {} /\ tpc["base"] = "flag"
      BY <1>10, CoveredNone DEF BaseDoneNow, Left
    <2> QED BY <1>0, <1>10, <2>1 DEF BaseDoneNow, BaseInv, Threads
  <1>11. CASE BaseExit
    BY <1>0, <1>11 DEF BaseExit, BaseInv, Left, Threads
  <1> QED BY <1>1, <1>2, <1>3, <1>4, <1>5, <1>6, <1>7, <1>8, <1>9, <1>10, <1>11
          DEF Copies

\* The process is gone, and its threads with it.
LEMMA GoneStep ==
    ASSUME Gone
    PROVE  ProcessGone
  BY DEF Gone, Exit, Crash, FreezeTimeout

LEMMA BaseStep ==
    ASSUME TypeInv, BaseInv, Next
    PROVE  BaseInv'
  <1> USE DEF device, files, mainLoc, copier
  <1>1. ASSUME NEW b \in Blocks, Write(b) PROVE BaseInv'
    BY <1>1 DEF Write, BaseInv, Left
  <1>2. ASSUME NEW b \in Blocks, Ended(b) PROVE BaseInv'
    <2>1. inflight[b].val # Zero
      BY DEF TypeInv, Zero
    <2>2. \A x \in Blocks : x # NBlocks => disk'[x] # Zero
      BY <1>2, <2>1, EndedStep DEF BaseInv, TypeInv
    <2>3. EndIo(b)
      BY <1>2, EndedStep
    <2> QED BY <2>2, <2>3 DEF EndIo, BaseInv, Left
  <1>3. CASE Start
    <2>1. CoveredBy(Pieces(1, NBlocks)) = Blocks
      BY PiecesCover DEF Blocks
    <2>2. /\ \A t \in Threads : tpc'[t] \in {"off", "start", "flag"}
          /\ tpc'["base"] # "off" => Left("base")' = Pieces(1, NBlocks)
      BY <1>3 DEF Start, Left, Threads
    <2> QED BY <1>3, <2>1, <2>2 DEF Start, BaseInv
  <1>4. CASE ReadBitmap
    BY <1>4 DEF ReadBitmap, BaseInv, Left
  <1>5. CASE StartRecovery
    BY <1>5 DEF StartRecovery, BaseInv, Left, Threads, TypeInv
  <1>6. CASE OnSig
    BY <1>6 DEF OnSig, BaseInv, Left
  <1>7. CASE Quiet
    <2>1. UNCHANGED <<core, replica>>
      BY <1>7, QuietStep
    <2> QED BY <2>1 DEF core, BaseInv, Left
  <1>8. CASE Applies
    <2>1. /\ UNCHANGED core
          /\ \A b \in Blocks : replica'[b] = replica[b] \/ replica'[b] # Zero
      BY <1>8, AppliesStep
    <2> QED BY <2>1 DEF core, BaseInv, Left
  <1>9. CASE Gone
    <2>1. ProcessGone
      BY <1>9, GoneStep
    <2>2. tpc'["base"] = "off" /\ \A t \in Threads : tpc'[t] = "off"
      BY <2>1 DEF ProcessGone, Threads
    <2>3. UNCHANGED <<disk, replica, baseEnd>>
      BY <2>1 DEF ProcessGone
    <2> QED BY <2>2, <2>3 DEF BaseInv
  <1> QED BY <1>1, <1>2, <1>3, <1>4, <1>5, <1>6, <1>7, <1>8, <1>9, StepCases,
             BaseCopies

-----------------------------------------------------------------------------
(* The marks of dropped writes.                                            *)

LEMMA OwedCopies ==
    ASSUME TypeInv, OwedInv, NEW t \in Threads, Copies(t)
    PROVE  OwedInv'
  <1> USE DEF device, files, extra, ghosts, Goto, OwedInv, Early
  <1>0. tpc \in [Threads -> CopyPcs]
        /\ buf \in [Threads -> {<< >>} \cup [Blocks -> Vals]]
    BY DEF TypeInv
  <1>1. CASE FlagChunk(t)
    BY <1>0, <1>1 DEF FlagChunk, Threads
  <1>2. CASE ReadDevice(t)
    BY <1>0, <1>2 DEF ReadDevice, Threads
  <1>3. CASE WriteReplica(t)
    BY <1>0, <1>3 DEF WriteReplica, Threads
  <1>4. CASE UnflagChunk(t)
    BY <1>0, <1>4 DEF UnflagChunk, Threads
  <1>5. CASE ChunkDone(t)
    BY <1>0, <1>5 DEF ChunkDone, Threads
  <1>6. CASE Interrupted(t)
    BY <1>0, <1>6 DEF Interrupted, Threads
  <1>7. CASE CopyFail(t)
    BY <1>0, <1>7 DEF CopyFail, Threads
  <1>8. CASE RecoverDone
    BY <1>0, <1>8 DEF RecoverDone, Threads
  <1>9. CASE BaseBegin
    BY <1>0, <1>9 DEF BaseBegin, Threads
  <1>10. CASE BaseDoneNow
    BY <1>0, <1>10 DEF BaseDoneNow, Threads
  <1>11. CASE BaseExit
    BY <1>0, <1>11 DEF BaseExit, Threads
  <1> QED BY <1>1, <1>2, <1>3, <1>4, <1>5, <1>6, <1>7, <1>8, <1>9, <1>10, <1>11
          DEF Copies

LEMMA OwedStep ==
    ASSUME TypeInv, OwedInv, Next
    PROVE  OwedInv'
  <1> USE DEF device, files, mainLoc, copier, ghosts
  <1>1. ASSUME NEW b \in Blocks, Write(b) PROVE OwedInv'
    <2>1. /\ inflight[b] = NoWrite /\ inflight'[b].logged = (Len(ring) < RingCap)
          /\ \A x \in Blocks : x # b => inflight'[x] = inflight[x]
          /\ bitmap' = bitmap \cup {b} /\ b \in bitmap'
          /\ UNCHANGED <<raced, disk, tpc, buf>>
      BY <1>1 DEF Write, TypeInv
    <2>2. CASE Len(ring) < RingCap
      <3>1. owed' = owed \ {b} /\ overflowed' = overflowed /\ inflight'[b].logged = TRUE
        BY <1>1, <2>1, <2>2 DEF Write
      <3> QED BY <2>1, <3>1 DEF OwedInv, Early
    <2>3. CASE ~(Len(ring) < RingCap)
      <3>1. owed' = owed \cup {b} /\ overflowed'
        BY <1>1, <2>3 DEF Write
      <3>2. ~inflight'[b].logged
        BY <2>1, <2>3
      <3> QED BY <2>1, <3>1, <3>2 DEF OwedInv, Early
    <2> QED BY <2>2, <2>3
  <1>2. ASSUME NEW b \in Blocks, Ended(b) PROVE OwedInv'
    <2>1. /\ inflight[b] # NoWrite /\ inflight'[b] = NoWrite
          /\ \A x \in Blocks : x # b => inflight'[x] = inflight[x] /\ disk'[x] = disk[x]
          /\ raced \subseteq raced'
          /\ UNCHANGED <<bitmap, owed, overflowed, tpc, buf>>
      BY <1>2, EndedStep DEF EndIo, TypeInv, extra
    <2> QED BY <2>1 DEF OwedInv, Early
  <1>3. CASE Start
    <2>1. tpc'["rec"] # "write"
      BY <1>3 DEF Start, Threads
    <2> QED BY <1>3, <2>1 DEF Start, OwedInv, Early, extra
  <1>4. CASE ReadBitmap
    <2>1. tpc["rec"] = "off"
      BY <1>4 DEF ReadBitmap, MayRecover
    <2>2. ASSUME NEW b \in Blocks, inflight[b] # NoWrite, ~inflight[b].logged
          PROVE  <<"early", b>> \in raced'
      BY <1>4, <2>2 DEF ReadBitmap, OwedInv, Early
    <2> QED BY <1>4, <2>1, <2>2 DEF ReadBitmap, OwedInv, Early
  <1>5. CASE StartRecovery
    <2>1. tpc'["rec"] = "flag"
      BY <1>5 DEF StartRecovery, TypeInv, Threads
    <2> QED BY <1>5, <2>1 DEF StartRecovery, OwedInv, Early, extra
  <1>6. CASE OnSig
    BY <1>6 DEF OnSig, OwedInv, Early
  <1>7. CASE Quiet
    <2>1. UNCHANGED <<core, raced>>
      BY <1>7, QuietStep
    <2> QED BY <2>1 DEF core, OwedInv, Early
  <1>8. CASE Applies
    <2>1. UNCHANGED core /\ raced \subseteq raced'
      BY <1>8, AppliesStep
    <2> QED BY <2>1 DEF core, OwedInv, Early
  <1>9. CASE Gone
    <2>1. ProcessGone
      BY <1>9, GoneStep
    <2>2. tpc'["rec"] = "off"
      BY <2>1 DEF ProcessGone, Threads
    <2> QED BY <2>1, <2>2 DEF ProcessGone, OwedInv, Early
  <1> QED BY <1>1, <1>2, <1>3, <1>4, <1>5, <1>6, <1>7, <1>8, <1>9, StepCases,
             OwedCopies

-----------------------------------------------------------------------------
(* The recoveries that are to re-read them.                                *)

\* A chunk that the recovery has written leaves only blocks that a later write
\* has marked again.
LEMMA RecWriteReplica ==
    ASSUME TypeInv, OwedInv, RecoveryInv, WriteReplica("rec")
    PROVE  RecoveryInv'
  <1> DEFINE c == First(ranges["rec"])
             chunk == c[1] .. c[2]
  <1>1. c \in ranges["rec"]
    BY FirstIn DEF WriteReplica, TypeInv, Threads
  <1>2. /\ tpc["rec"] = "write" /\ tpc'["rec"] = "unflag"
        /\ UNCHANGED <<bitmap, recovery, taken, ranges, raced, mpc, stop>>
        /\ owed' \subseteq owed
    BY DEF WriteReplica, Goto, device, mainLoc, extra, marking, TypeInv, Threads
  <1>3. ASSUME NEW b \in owed', b \in chunk PROVE b \in bitmap \/ Early(b)
    <2>1. b \in owed /\ b \in Blocks
      BY <1>2, <1>3 DEF OwedInv
    <2>2. inflight[b] # NoWrite \/ buf["rec"][b] # disk[b]
      BY <1>3 DEF WriteReplica
    <2> QED BY <1>2, <2>1, <2>2 DEF OwedInv
  <1> HIDE DEF c
  <1>4. Left("rec") = ranges["rec"] /\ Left("rec")' = ranges["rec"] \ {c}
    BY <1>2 DEF Left, c
  <1>5. CoveredBy(Left("rec")) = CoveredBy(Left("rec")') \cup chunk
    BY <1>1, <1>4, CoveredSplit
  <1>6. \A b \in owed' \cap CoveredBy(recovery.extents) :
            b \in CoveredBy(Left("rec")') \/ b \in bitmap \/ Early(b)
    BY <1>2, <1>3, <1>5 DEF RecoveryInv
  <1>7. mpc # "init"
    BY <1>2 DEF RecoveryInv, Threads
  <1>8. MarkedBut({"early", "cleared", "overwritten"})'
    BY <1>2 DEF RecoveryInv, MarkedBut
  <1> QED BY <1>2, <1>6, <1>7, <1>8 DEF RecoveryInv, Early

\* A step that leaves alone what RecoveryInv speaks of, but for the base thread.
LEMMA RecoveryKept ==
    ASSUME RecoveryInv,
           UNCHANGED <<bitmap, recovery, taken, stop>>, tpc'["rec"] = tpc["rec"],
           Left("rec")' = Left("rec"), owed' \subseteq owed, raced \subseteq raced',
           mpc' = "init" => \A t \in Threads : tpc'[t] = "off",
           mpc' = mpc \/ {mpc, mpc'} \cap {"init", "persist"} = {}
    PROVE  RecoveryInv'
  BY DEF RecoveryInv, MarkedBut, Early

LEMMA RecoveryCopies ==
    ASSUME TypeInv, OwedInv, RecoveryInv, NEW t \in Threads, Copies(t)
    PROVE  RecoveryInv'
  <1> USE DEF device, files, mainLoc, extra, marking, ghosts, Goto
  <1>0. tpc \in [Threads -> CopyPcs] /\ ranges \in [Threads -> SUBSET Chunks]
    BY DEF TypeInv
  <1>a. ASSUME tpc[t] # "off", mpc' = mpc PROVE mpc # "init" /\ mpc' # "init"
    BY <1>a DEF RecoveryInv
  <1>1. CASE FlagChunk(t)
    <2>1. Left("rec")' = Left("rec")
      BY <1>0, <1>1 DEF FlagChunk, Left, Threads
    <2>2. (tpc'["rec"] = "off") = (tpc["rec"] = "off") /\ mpc # "init"
      BY <1>0, <1>1, <1>a DEF FlagChunk, Threads
    <2> QED BY <1>1, <2>1, <2>2 DEF FlagChunk, RecoveryInv, MarkedBut, Early
  <1>2. CASE ReadDevice(t)
    <2>1. Left("rec")' = Left("rec")
      BY <1>0, <1>2 DEF ReadDevice, Left, Threads
    <2>2. (tpc'["rec"] = "off") = (tpc["rec"] = "off") /\ mpc # "init"
      BY <1>0, <1>2, <1>a DEF ReadDevice, Threads
    <2> QED BY <1>2, <2>1, <2>2 DEF ReadDevice, RecoveryInv, MarkedBut, Early
  <1>3. CASE WriteReplica(t)
    <2>1. CASE t = "rec"
      BY <1>3, <2>1, RecWriteReplica
    <2>2. CASE t = "base"
      <3>1. Left("rec")' = Left("rec") /\ tpc'["rec"] = tpc["rec"] /\ mpc # "init"
        BY <1>0, <1>3, <1>a, <2>2 DEF WriteReplica, Left, Threads
      <3>2. owed' \subseteq owed
        BY <1>3 DEF WriteReplica
      <3> QED BY <1>3, <3>1, <3>2, RecoveryKept DEF WriteReplica
    <2> QED BY <2>1, <2>2 DEF Threads
  <1>4. CASE UnflagChunk(t)
    <2>1. Left("rec")' = Left("rec")
      BY <1>0, <1>4 DEF UnflagChunk, Left, Threads
    <2>2. (tpc'["rec"] = "off") = (tpc["rec"] = "off") /\ mpc # "init"
      BY <1>0, <1>4, <1>a DEF UnflagChunk, Threads
    <2> QED BY <1>4, <2>1, <2>2 DEF UnflagChunk, RecoveryInv, MarkedBut, Early
  <1>5. CASE ChunkDone(t)
    <2>1. Left("rec")' = Left("rec")
      BY <1>0, <1>5 DEF ChunkDone, Left, Threads
    <2>2. (tpc'["rec"] = "off") = (tpc["rec"] = "off") /\ mpc # "init"
      BY <1>0, <1>5, <1>a DEF ChunkDone, Threads
    <2> QED BY <1>5, <2>1, <2>2 DEF ChunkDone, RecoveryInv, MarkedBut, Early
  <1>6. CASE Interrupted(t)
    <2>1. stop /\ mpc # "init" /\ tpc'[t] = "off"
          /\ \A u \in Threads : u # t => tpc'[u] = tpc[u] /\ ranges'[u] = ranges[u]
      BY <1>0, <1>6, <1>a DEF Interrupted
    <2>2. t # "rec" => Left("rec")' = Left("rec")
      BY <2>1 DEF Left, Threads
    <2> QED BY <1>6, <2>1, <2>2 DEF Interrupted, RecoveryInv, MarkedBut, Early, Threads
  <1>7. CASE CopyFail(t)
    <2>1. /\ mpc # "init" /\ tpc'[t] = "off" /\ raced \subseteq raced'
          /\ \A b \in CoveredBy(ranges[t]) : <<"error", b>> \in raced'
          /\ \A u \in Threads : u # t => tpc'[u] = tpc[u] /\ ranges'[u] = ranges[u]
      BY <1>0, <1>7, <1>a DEF CopyFail
    <2>2. CASE t = "rec"
      <3>0. tpc["rec"] # "off"
        BY <1>7, <2>2 DEF CopyFail
      <3>1. CoveredBy(Left("rec")) \subseteq CoveredBy(ranges["rec"])
        BY DEF CoveredBy, Left
      <3>2. \A b \in owed \cap CoveredBy(recovery.extents) :
              b \in bitmap \/ <<"early", b>> \in raced' \/ <<"error", b>> \in raced'
        BY <2>1, <2>2, <3>0, <3>1 DEF RecoveryInv, Early
      <3>3. UNCHANGED <<bitmap, recovery, taken, owed, mpc>>
        BY <1>7 DEF CopyFail
      <3> QED BY <2>1, <2>2, <3>2, <3>3 DEF RecoveryInv, MarkedBut, Early
    <2>3. CASE t # "rec"
      <3>1. Left("rec")' = Left("rec") /\ tpc'["rec"] = tpc["rec"]
        BY <2>1, <2>3 DEF Left, Threads
      <3> QED BY <1>7, <2>1, <3>1, RecoveryKept DEF CopyFail
    <2> QED BY <2>2, <2>3
  <1>8. CASE RecoverDone
    <2>1. /\ tpc["rec"] = "flag" /\ tpc'["rec"] = "off" /\ ranges["rec"] = {}
          /\ CoveredBy(Left("rec")) = {} /\ CoveredBy(recovery'.extents) = {}
          /\ recovery'.extents = {}
      BY <1>0, <1>8, CoveredNone DEF RecoverDone, Left, Threads, NoFile
    <2>2. mpc # "init"
      BY <2>1 DEF RecoveryInv, Threads
    <2>3. MarkedBut({"early", "cleared", "overwritten"})'
      BY <1>8, <2>1 DEF RecoverDone, RecoveryInv, MarkedBut, Early
    <2> QED BY <1>8, <2>1, <2>2, <2>3 DEF RecoverDone, RecoveryInv
  <1>9. CASE t = "base" /\ (BaseBegin \/ BaseDoneNow \/ BaseExit)
    <2>1. Left("rec")' = Left("rec") /\ tpc'["rec"] = tpc["rec"] /\ mpc # "init"
      BY <1>0, <1>9, <1>a DEF BaseBegin, BaseDoneNow, BaseExit, Left, Threads
    <2> QED BY <1>9, <2>1, RecoveryKept DEF BaseBegin, BaseDoneNow, BaseExit
  <1> QED BY <1>1, <1>2, <1>3, <1>4, <1>5, <1>6, <1>7, <1>8, <1>9 DEF Copies

LEMMA RecoveryStep ==
    ASSUME TypeInv, OwedInv, RecoveryInv, Next
    PROVE  RecoveryInv'
  <1> USE DEF device, files, mainLoc, copier, ghosts
  <1>1. ASSUME NEW b \in Blocks, Write(b) PROVE RecoveryInv'
    <2>1. /\ bitmap' = bitmap \cup {b} /\ owed' \subseteq owed \cup {b}
          /\ UNCHANGED <<recovery, taken, stop, tpc, ranges, raced, mpc>>
      BY <1>1 DEF Write, marking
    <2> QED BY <2>1 DEF RecoveryInv, MarkedBut, Early, Left
  <1>2. ASSUME NEW b \in Blocks, Ended(b) PROVE RecoveryInv'
    <2>1. EndIo(b) /\ raced \subseteq raced' /\ owed' = owed
      BY <1>2, EndedStep
    <2> QED BY <2>1, RecoveryKept DEF EndIo, Left, extra, marking, RecoveryInv
  <1>3. CASE Start
    <2>1. /\ recovery.on => tpc'["rec"] = "flag" /\ Left("rec")' = recovery.extents
          /\ ~recovery.on => tpc'["rec"] = "off"
          /\ mpc = "init" /\ mpc' = "read"
          /\ UNCHANGED <<bitmap, recovery, taken, owed, raced, stop>>
      BY <1>3 DEF Start, Left, Threads, extra, marking
    <2>2. taken' = {}
      BY <2>1 DEF RecoveryInv
    <2>3. CASE recovery.on
      BY <2>1, <2>2, <2>3 DEF RecoveryInv, MarkedBut
    <2>4. CASE ~recovery.on
      <3>1. CoveredBy(recovery.extents) = {} /\ recovery.extents = {}
        BY <2>4, CoveredNone DEF RecoveryInv
      <3> QED BY <2>1, <2>2, <2>4, <3>1 DEF RecoveryInv, MarkedBut
    <2> QED BY <2>3, <2>4 DEF TypeInv
  <1>4. CASE ReadBitmap
    <2>1. /\ mpc = "recover" /\ mpc' = "persist" /\ tpc["rec"] = "off"
          /\ tpc' = tpc /\ taken' = Extents(bitmap) /\ bitmap' = {}
          /\ raced \subseteq raced'
          /\ UNCHANGED <<recovery, owed, stop, ranges>>
      BY <1>4 DEF ReadBitmap, MayRecover, marking
    <2>2. CoveredBy(taken') = bitmap /\ taken = {} /\ CoveredBy(taken) = {}
      BY <2>1, ExtentsCover, CoveredNone DEF TypeInv, RecoveryInv
    <2> QED BY <2>1, <2>2 DEF RecoveryInv, MarkedBut, Early
  <1>5. CASE StartRecovery
    <2>1. /\ mpc = "persist" /\ mpc' = "unpark" /\ tpc'["rec"] = "flag"
          /\ recovery'.on /\ recovery'.extents = taken /\ Left("rec")' = taken
          /\ taken' = {} /\ raced \subseteq raced'
          /\ \A b \in CoveredBy(recovery.extents) \ CoveredBy(taken) :
               <<"overwritten", b>> \in raced'
          /\ UNCHANGED <<bitmap, owed>>
      BY <1>5 DEF StartRecovery, Left, Threads, TypeInv
    <2>2. MarkedBut({"early", "cleared", "overwritten"})'
      BY <2>1 DEF RecoveryInv, MarkedBut
    <2> QED BY <2>1, <2>2 DEF RecoveryInv
  <1>6. CASE OnSig
    <2>1. stop' = TRUE /\ UNCHANGED <<bitmap, recovery, taken, owed, raced, mpc, tpc, ranges>>
      BY <1>6 DEF OnSig
    <2> QED BY <2>1 DEF RecoveryInv, MarkedBut, Early, Left
  <1>7. CASE Quiet
    <2>1. /\ UNCHANGED <<core, raced>>
          /\ \/ mpc' = mpc
             \/ mpc \notin {"init", "persist"} /\ mpc' \notin {"init", "persist"}
      BY <1>7, QuietStep
    <2> QED BY <2>1, RecoveryKept DEF core, RecoveryInv, Left
  <1>8. CASE Applies
    <2>1. UNCHANGED core /\ mpc' = mpc /\ raced \subseteq raced'
      BY <1>8, AppliesStep
    <2> QED BY <2>1, RecoveryKept DEF core, RecoveryInv, Left
  <1>9. CASE Gone
    <2>1. ProcessGone
      BY <1>9, GoneStep
    <2>2. /\ \A t \in Threads : tpc'[t] = "off"
          /\ mpc' = "init" /\ taken' = {} /\ raced \subseteq raced'
          /\ \A b \in CoveredBy(taken) : <<"cleared", b>> \in raced'
          /\ UNCHANGED <<bitmap, recovery, owed>>
      BY <2>1 DEF ProcessGone
    <2>3. MarkedBut({"early", "cleared", "overwritten"})'
      BY <2>2 DEF RecoveryInv, MarkedBut
    <2> QED BY <2>2, <2>3 DEF RecoveryInv, Threads
  <1> QED BY <1>1, <1>2, <1>3, <1>4, <1>5, <1>6, <1>7, <1>8, <1>9, StepCases,
             RecoveryCopies

-----------------------------------------------------------------------------
LEMMA DaemonInit ==
    ASSUME Init
    PROVE  DaemonInv
  <1>1. TypeInv
    BY TypeInit
  <1>2. BaseInv
    BY DEF Init, BaseInv, Before, Old, Zero, Threads
  <1>3. OwedInv
    BY DEF Init, OwedInv, NoWrite, Threads
  <1>4. RecoveryInv
    <2>1. CoveredBy(recovery.extents) = {} /\ owed = {} /\ taken = {}
          /\ recovery.extents = {}
          /\ \A t \in Threads : tpc[t] = "off"
      BY CoveredNone DEF Init, NoFile
    <2> QED BY <2>1 DEF RecoveryInv, MarkedBut, Init, Threads
  <1> QED BY <1>1, <1>2, <1>3, <1>4 DEF DaemonInv

\* DaemonInv is inductive.
THEOREM DaemonInductive == Spec => []DaemonInv
  <1>1. Init => DaemonInv
    BY DaemonInit
  <1>2. DaemonInv /\ [Next]_vars => DaemonInv'
    <2> SUFFICES ASSUME DaemonInv, [Next]_vars PROVE DaemonInv'
      OBVIOUS
    <2>1. CASE Next
      BY <2>1, TypeStep, BaseStep, OwedStep, RecoveryStep DEF DaemonInv
    <2>2. CASE UNCHANGED vars
      <3>1. TypeInv'
        BY <2>2, TypeStutter DEF DaemonInv
      <3>2. BaseInv' /\ OwedInv' /\ RecoveryInv'
        BY <2>2 DEF DaemonInv, BaseInv, OwedInv, RecoveryInv, MarkedBut, Early, Left,
                    vars, device, files, mainLoc, copier, ghosts, marking, extra
      <3> QED BY <3>1, <3>2 DEF DaemonInv
    <2> QED BY <2>1, <2>2
  <1> QED BY <1>1, <1>2, PTL DEF Spec

\* The daemon's state has its types, whatever the disk, the ring and the events.
THEOREM DaemonTypes == Spec => []DaemonTypeOK
  <1>1. DaemonInv => DaemonTypeOK
    <2> SUFFICES ASSUME TypeInv PROVE DaemonTypeOK
      BY DEF DaemonInv
    <2>1. recovery.on \in BOOLEAN /\ recovery.extents \subseteq Chunks
      BY DEF TypeInv
    <2>2. \A t \in Threads : ranges[t] \subseteq Chunks /\ late[t] \in Seq(Records)
      BY DEF TypeInv
    <2>3. \A x \in {baseProgress, overflowed, frozen, due, stop} : x \in BOOLEAN
      BY DEF TypeInv
    <2>4. \A s \in {ring, pendingBin, batch, parked, deferred} : s \in Seq(Records)
      BY DEF TypeInv
    <2> QED BY <2>1, <2>2, <2>3, <2>4 DEF TypeInv, DaemonTypeOK
  <1> QED BY <1>1, DaemonInductive, PTL

\* "manifest.base_end_seq marks completion" (rkcdpd.py:20): for every disk, chunk
\* size and ring, over any number of crashes, stops, errors and recoveries, a
\* manifest with base_end_seq means that every block of old data has reached the
\* replica.
THEOREM BaseComplete == Spec => []BaseEndMeansCopied
  <1>1. DaemonInv => BaseEndMeansCopied
    BY DEF DaemonInv, BaseInv, BaseEndMeansCopied, Before, Old, Zero
  <1> QED BY <1>1, DaemonInductive, PTL

\* A dropped write stays marked until its block has been re-read, but for the
\* named causes, for every disk and ring and any number of crashes, stops and
\* errors.
THEOREM DropsRemembered == Spec => []NothingForgotten
  <1>1. DaemonInv => NothingForgotten
    BY DEF DaemonInv, RecoveryInv, NothingForgotten
  <1> QED BY <1>1, DaemonInductive, PTL

\* write_status never says CDP over a dropped write that waits for its recovery,
\* but for the named causes.
THEOREM CdpIsRepaired == Spec => []CdpMeansRepaired
  <1>1. DaemonInv => CdpMeansRepaired
    <2> SUFFICES ASSUME DaemonInv, mpc \notin {"init", "persist"}, ~stop,
                        StatusState = "CDP", NEW b \in owed
                 PROVE  \E r \in {"early", "cleared", "overwritten", "error"} :
                           <<r, b>> \in raced
      BY DEF CdpMeansRepaired
    <2>1. tpc["rec"] = "off" /\ ~overflowed
      BY DEF StatusState
    <2>2. b \notin bitmap
      BY <2>1 DEF DaemonInv, OwedInv
    <2>3. CoveredBy(taken) = {}
      BY CoveredNone DEF DaemonInv, RecoveryInv
    <2> QED BY <2>1, <2>2, <2>3 DEF DaemonInv, RecoveryInv, MarkedBut, Early
  <1> QED BY <1>1, DaemonInductive, PTL

-----------------------------------------------------------------------------
(* No record that was read is lost.                                        *)

\* No crash and no I/O error, and one copy thread at a time: either the base copy
\* was done before, or the ring is too large to drop a record.
Calm ==
    /\ Env \cap {"crash", "ioerror"} = {}
    /\ BaseDone \/ MaxWrites <= RingCap

\* The records that the threads hold for the replica or have written to it.
Held == applied \cup Ids(deferred) \cup UNION {Ids(late[t]) : t \in Threads}

\* One of the copy threads is never there...
OneCopier ==
    /\ BaseDone => baseEnd /\ tpc["base"] = "off"
    /\ ~BaseDone =>
         /\ tpc["rec"] = "off" /\ ~recovery.on /\ queue = 0 /\ mpc # "persist"
         /\ ~gapPending /\ Len(ring) <= nw
         /\ \A k \in 1 .. Len(ring) : ~ring[k].gap
         /\ \A k \in 1 .. Len(batch) : ~batch[k].gap

\* ... and each of the lists of records is filled only where it is emptied later.
KeepInv ==
    /\ (batch # << >> \/ parked # << >>) => mpc \in {"consume", "drainConsume"}
    /\ deferred # << >> =>
         \E t \in Threads : tpc[t] \in {"devread", "write", "unflag"}
    /\ \A t \in Threads : late[t] # << >> => tpc[t] = "late"
    /\ mpc = "applyPending" =>
         \A k \in 1 .. Len(pendingBin) : k <= upos => pendingBin[k].val \in Held
    /\ copying # << >> =>
         \E t \in Threads : tpc[t] \in {"devread", "write", "unflag"}
    /\ mpc = "persist" => tpc["rec"] = "off"
    /\ NoRecordLost

\* The records of a list, as it grows and shrinks.
LEMMA IdsEmpty == Ids(<< >>) = {}
  BY EmptySeq DEF Ids

LEMMA IdsIn ==
    ASSUME NEW s \in Seq(Records), NEW k \in 1 .. Len(s)
    PROVE  s[k].val \in Ids(s)
  BY DEF Ids

LEMMA IdsAppend ==
    ASSUME NEW s \in Seq(Records), NEW r \in Records
    PROVE  Ids(s) \cup {r.val} \subseteq Ids(Append(s, r))
  <1> DEFINE a == Append(s, r)
  <1>1. /\ Len(s) \in Nat /\ a \in Seq(Records) /\ Len(a) = Len(s) + 1
        /\ \A k \in 1 .. Len(s) : a[k] = s[k]
        /\ a[Len(s) + 1] = r
    BY AppendProperties, LenProperties
  <1> HIDE DEF a
  <1>2. \A k \in 1 .. Len(s) : k \in 1 .. Len(a)
    BY <1>1
  <1>3. Ids(s) \subseteq Ids(a)
    BY <1>1, <1>2 DEF Ids
  <1>4. Len(s) + 1 \in 1 .. Len(a)
    BY <1>1
  <1>5. r.val \in Ids(a)
    BY <1>1, <1>4 DEF Ids
  <1> QED BY <1>3, <1>5 DEF a

LEMMA IdsTail ==
    ASSUME NEW s \in Seq(Records), s # << >>
    PROVE  Ids(s) \subseteq Ids(Tail(s)) \cup {Head(s).val}
  <1> DEFINE u == Tail(s)
  <1>1. /\ Len(s) \in Nat /\ Len(s) > 0 /\ Len(u) = Len(s) - 1 /\ Head(s) = s[1]
        /\ \A k \in 1 .. Len(u) : u[k] = s[k + 1]
    BY HeadTailProperties, LenProperties, EmptySeq
  <1> HIDE DEF u
  <1>2. ASSUME NEW k \in 1 .. Len(s)
        PROVE  s[k].val \in Ids(u) \cup {Head(s).val}
    <2>1. CASE k = 1
      BY <1>1, <2>1
    <2>2. CASE k # 1
      <3>1. k - 1 \in 1 .. Len(u) /\ u[k - 1] = s[k]
        BY <1>1, <2>2
      <3> QED BY <3>1 DEF Ids
    <2> QED BY <2>1, <2>2
  <1> QED BY <1>2 DEF Ids, u

LEMMA IdsConcat ==
    ASSUME NEW s \in Seq(Records), NEW u \in Seq(Records)
    PROVE  Ids(s) \cup Ids(u) \subseteq Ids(s \o u)
  <1> DEFINE c == s \o u
  <1>1. /\ Len(s) \in Nat /\ Len(u) \in Nat /\ Len(c) = Len(s) + Len(u)
        /\ \A k \in 1 .. Len(s) : c[k] = s[k]
        /\ \A k \in 1 .. Len(u) : c[Len(s) + k] = u[k]
    BY ConcatProperties, LenProperties
  <1> HIDE DEF c
  <1>2. ASSUME NEW k \in 1 .. Len(s) PROVE s[k].val \in Ids(c)
    BY <1>1 DEF Ids
  <1>3. ASSUME NEW k \in 1 .. Len(u) PROVE u[k].val \in Ids(c)
    <2>1. Len(s) + k \in 1 .. Len(c)
      BY <1>1
    <2> QED BY <1>1, <2>1 DEF Ids
  <1> QED BY <1>2, <1>3 DEF Ids, c

\* A copy thread's step leaves the other thread and the main thread alone.
LEMMA CopiesStep ==
    ASSUME TypeInv, NEW t \in Threads, Copies(t)
    PROVE  /\ tpc[t] # "off"
           /\ \A u \in Threads : u # t => tpc'[u] = tpc[u] /\ late'[u] = late[u]
           /\ baseEnd => baseEnd'
           /\ recovery' = recovery \/ recovery' = NoFile
           /\ CopyFail(t) \/ read' = read
           /\ UNCHANGED <<ring, gapPending, nw, pendingBin, batch, parked, upos,
                          queue, mpc, applied>>
  <1> USE DEF device, files, mainLoc, extra, marking, ghosts, Goto
  <1>0. tpc \in [Threads -> CopyPcs] /\ late \in [Threads -> Seq(Records)]
    BY DEF TypeInv
  <1>1. CASE FlagChunk(t)
    BY <1>0, <1>1 DEF FlagChunk
  <1>2. CASE ReadDevice(t)
    BY <1>0, <1>2 DEF ReadDevice
  <1>3. CASE WriteReplica(t)
    BY <1>0, <1>3 DEF WriteReplica
  <1>4. CASE UnflagChunk(t)
    BY <1>0, <1>4 DEF UnflagChunk
  <1>5. CASE ChunkDone(t)
    BY <1>0, <1>5 DEF ChunkDone
  <1>6. CASE Interrupted(t)
    BY <1>0, <1>6 DEF Interrupted
  <1>7. CASE CopyFail(t)
    BY <1>0, <1>7 DEF CopyFail
  <1>8. CASE t = "rec" /\ RecoverDone
    BY <1>0, <1>8 DEF RecoverDone
  <1>9. CASE t = "base" /\ (BaseBegin \/ BaseDoneNow \/ BaseExit)
    BY <1>0, <1>9 DEF BaseBegin, BaseDoneNow, BaseExit
  <1> QED BY <1>1, <1>2, <1>3, <1>4, <1>5, <1>6, <1>7, <1>8, <1>9 DEF Copies

LEMMA OneCopierStep ==
    ASSUME Calm, TypeInv, OneCopier, Next
    PROVE  OneCopier'
  <1> USE DEF device, files, mainLoc, copier, ghosts
  <1>1. ASSUME NEW b \in Blocks, Write(b) PROVE OneCopier'
    <2>1. CASE BaseDone
      BY <1>1, <2>1 DEF Write, OneCopier
    <2>2. CASE ~BaseDone
      <3> DEFINE r == [blk |-> b, val |-> nw + 1, gap |-> gapPending, done |-> FALSE]
      <3>1. Len(ring) \in Nat /\ ring \in Seq(Records) /\ Len(ring) <= nw
            /\ nw \in Nat /\ nw < MaxWrites /\ nw' = nw + 1 /\ MaxWrites <= RingCap
        BY <1>1, <2>2, LenProperties DEF Write, OneCopier, TypeInv, Calm
      <3>2. Len(ring) < RingCap
        BY <3>1
      <3>3. ring' = Append(ring, r) /\ gapPending' = FALSE /\ ~r.gap
        BY <1>1, <2>2, <3>2 DEF Write, OneCopier
      <3> HIDE DEF r
      <3>4. /\ Len(ring') = Len(ring) + 1 /\ ring'[Len(ring) + 1] = r
            /\ \A k \in 1 .. Len(ring) : ring'[k] = ring[k]
        BY <3>1, <3>3
      <3>5. \A k \in 1 .. Len(ring') : k \in 1 .. Len(ring) \/ k = Len(ring) + 1
        BY <3>1, <3>4
      <3>6. \A k \in 1 .. Len(ring') : ~ring'[k].gap
        BY <2>2, <3>3, <3>4, <3>5 DEF OneCopier
      <3>7. UNCHANGED <<tpc, recovery, queue, mpc, batch>>
        BY <1>1 DEF Write
      <3>8. Len(ring') <= nw'
        BY <3>1, <3>4
      <3> QED BY <2>2, <3>3, <3>6, <3>7, <3>8 DEF OneCopier
    <2> QED BY <2>1, <2>2
  <1>2. ASSUME NEW b \in Blocks, Ended(b) PROVE OneCopier'
    <2>0. EndIo(b)
      BY <1>2, EndedStep
    <2>1. Len(ring) \in Nat /\ \A k \in 1 .. Len(ring) : ring[k] \in Records
      BY LenProperties, ElementOfSeq DEF TypeInv
    <2>2. Len(ring') = Len(ring) /\ \A k \in 1 .. Len(ring) : ring'[k].gap = ring[k].gap
      BY <2>0, <2>1 DEF EndIo, Records
    <2> QED BY <2>0, <2>2 DEF EndIo, OneCopier
  <1>3. CASE Start
    BY <1>3 DEF Start, OneCopier, Threads
  <1>4. CASE ReadBitmap
    BY <1>4 DEF ReadBitmap, MayRecover, OneCopier
  <1>5. CASE StartRecovery
    BY <1>5 DEF StartRecovery, OneCopier, TypeInv, Threads
  <1>6. CASE OnSig
    BY <1>6 DEF OnSig, OneCopier
  <1>7. CASE ReadRing
    <2> DEFINE n == Deliverable
               len == Len(ring)
    <2>1. n \in 0 .. len /\ len \in Nat /\ ring \in Seq(Records) /\ n > 0
      BY <1>7, DeliverableIn, LenProperties DEF TypeInv, ReadRing
    <2>2. batch' = SubSeq(ring, 1, n) /\ ring' = SubSeq(ring, n + 1, len)
      BY <1>7 DEF ReadRing
    <2>3. /\ UNCHANGED <<tpc, recovery, queue, gapPending, nw, baseEnd>>
          /\ mpc' # "persist"
      BY <1>7 DEF ReadRing
    <2> HIDE DEF n
    <2>4. Len(batch') = n /\ \A k \in 1 .. n : batch'[k] = ring[k]
      BY <2>1, <2>2, SubSeqProperties
    <2>5. Len(ring') = len - n /\ \A k \in 1 .. len - n : ring'[k] = ring[k + n]
      BY <2>1, <2>2, SubSeqProperties
    <2>6. ASSUME ~BaseDone
          PROVE  /\ \A k \in 1 .. Len(batch') : ~batch'[k].gap
                 /\ \A k \in 1 .. Len(ring') : ~ring'[k].gap
                 /\ Len(ring') <= nw
      <3>1. (\A k \in 1 .. len : ~ring[k].gap) /\ len <= nw /\ nw \in Nat
        BY <2>6 DEF OneCopier, TypeInv
      <3> HIDE DEF len
      <3>2. \A k \in 1 .. len - n : k + n \in 1 .. len
        BY <2>1
      <3>3. \A k \in 1 .. n : k \in 1 .. len
        BY <2>1
      <3> QED BY <2>1, <2>4, <2>5, <3>1, <3>2, <3>3
    <2> QED BY <2>3, <2>6 DEF OneCopier
  <1>8. CASE Quiet /\ ~ReadRing
    <2>1. /\ UNCHANGED <<core, ring, gapPending, nw, batch, queue>>
          /\ mpc' = mpc \/ mpc' # "persist"
      <3>1. UNCHANGED core /\ (mpc' = mpc \/ mpc' # "persist")
        BY <1>8, QuietStep
      <3>2. UNCHANGED <<ring, gapPending, nw, batch, queue>>
        BY <1>8 DEF Quiet, ReadNothing, ConsumeEnd, NoRecovery, Unpark, PendingDone,
                    MarkBegin, Freeze, FreezeRefused, DrainEnd, Thaw, RecordPoint,
                    RebuildBegin, RebuildEnd
      <3> QED BY <3>1, <3>2
    <2> QED BY <2>1 DEF core, OneCopier
  <1>9. CASE Consume
    <2>1. batch \in Seq(Records) /\ batch # << >> /\ batch' = Tail(batch)
      BY <1>9 DEF Consume, TypeInv
    <2>2. /\ Len(batch) \in Nat /\ Len(batch) > 0 /\ Head(batch) = batch[1]
          /\ Len(batch') = Len(batch) - 1
          /\ \A k \in 1 .. Len(batch') : batch'[k] = batch[k + 1]
      BY <2>1, HeadTailProperties, LenProperties, EmptySeq
    <2>3. \A k \in 1 .. Len(batch') : k + 1 \in 1 .. Len(batch)
      BY <2>2
    <2>4. 1 \in 1 .. Len(batch)
      BY <2>2
    <2>5. ~BaseDone => ~Head(batch).gap /\ \A k \in 1 .. Len(batch') : ~batch'[k].gap
      BY <2>2, <2>3, <2>4 DEF OneCopier
    <2>6. ~BaseDone => queue' = 0
      BY <1>9, <2>5 DEF Consume, OneCopier
    <2> QED BY <1>9, <2>5, <2>6 DEF Consume, OneCopier
  <1>10. CASE Applies /\ ~Consume
    <2>1. UNCHANGED core /\ mpc' = mpc
      BY <1>10, AppliesStep
    <2>2. UNCHANGED <<ring, gapPending, nw, batch, queue>>
      BY <1>10 DEF Applies, ApplyPending, ApplyLate
    <2> QED BY <2>1, <2>2 DEF core, OneCopier
  <1>11. CASE Gone
    <2>1. ProcessGone
      BY <1>11, GoneStep
    <2>2. tpc'["base"] = "off" /\ tpc'["rec"] = "off" /\ Len(batch') = 0
      BY <2>1, NoRecords DEF ProcessGone, Threads
    <2> QED BY <2>1, <2>2 DEF ProcessGone, OneCopier
  <1>12. ASSUME NEW t \in Threads, Copies(t) PROVE OneCopier'
    BY <1>12, CopiesStep DEF OneCopier, Threads, NoFile
  <1> QED BY <1>1, <1>2, <1>3, <1>4, <1>5, <1>6, <1>7, <1>8, <1>9, <1>10, <1>11,
             <1>12, StepCases

\* ApplyOne keeps the record, and what is held beside it.
LEMMA ApplyOneHeld ==
    ASSUME TypeInv, NEW r \in Records, ApplyOne(r)
    PROVE  /\ applied \cup Ids(deferred) \cup {r.val} \subseteq applied' \cup Ids(deferred')
           /\ deferred' # deferred => copying # << >>
  <1>1. CASE Deferred(r)
    <2>1. deferred' = Append(deferred, r) /\ applied' = applied /\ copying # << >>
      BY <1>1 DEF ApplyOne, Deferred, Covers
    <2>2. Ids(deferred) \cup {r.val} \subseteq Ids(deferred')
      BY <2>1, IdsAppend DEF TypeInv
    <2> QED BY <2>1, <2>2
  <1>2. CASE ~Deferred(r)
    BY <1>2 DEF ApplyOne
  <1> QED BY <1>1, <1>2

\* NoRecordLost, in terms of Held.
LEMMA LostHeld ==
    NoRecordLost <=> read \subseteq Held \cup Ids(batch) \cup Ids(parked)
                                      \cup Ids(pendingBin)
  BY DEF NoRecordLost, Held

\* A step that leaves the lists of records and the threads alone.
LEMMA KeepSame ==
    ASSUME KeepInv,
           UNCHANGED <<batch, parked, pendingBin, deferred, late, applied, read,
                       tpc, copying>>,
           \/ mpc' = mpc /\ upos' = upos
           \/ /\ mpc \notin {"consume", "drainConsume"}
              /\ mpc' # "applyPending" \/ upos' = 0
              /\ mpc' # "persist" \/ tpc["rec"] = "off"
    PROVE  KeepInv'
  <1>1. NoRecordLost' /\ Held' = Held
    BY DEF KeepInv, NoRecordLost, Held
  <1> QED BY <1>1 DEF KeepInv

LEMMA KeepApplies ==
    ASSUME TypeInv, KeepInv, Applies
    PROVE  KeepInv'
  <1> USE DEF device, files, mainLoc, copier, ghosts
  <1>0. UNCHANGED core /\ mpc' = mpc
    BY AppliesStep
  <1>1. tpc' = tpc
    BY <1>0 DEF core
  <1>2. CASE Consume
    <2> DEFINE r == Head(batch)
    <2>1. /\ batch \in Seq(Records) /\ batch # << >> /\ batch' = Tail(batch)
          /\ r \in Records /\ mpc \in {"consume", "drainConsume"}
          /\ UNCHANGED <<late, pendingBin, upos, copying, read>>
      BY <1>2, RecordEnds DEF Consume, TypeInv
    <2>2. Ids(batch) \subseteq Ids(batch') \cup {r.val}
      BY <2>1, IdsTail
    <2>3. CASE park
      <3>1. parked' = Append(parked, r) /\ UNCHANGED <<applied, deferred>>
        BY <1>2, <2>3 DEF Consume
      <3> HIDE DEF r
      <3>2. Ids(parked) \cup {r.val} \subseteq Ids(parked')
        BY <2>1, <3>1, IdsAppend DEF TypeInv
      <3>3. Held' = Held
        BY <2>1, <3>1 DEF Held
      <3>4. NoRecordLost'
        BY <2>1, <2>2, <3>2, <3>3, LostHeld DEF KeepInv, NoRecordLost, Held
      <3> QED BY <1>0, <1>1, <2>1, <3>1, <3>4 DEF KeepInv
    <2>4. CASE ~park
      <3>1. ApplyOne(r) /\ parked' = parked
        BY <1>2, <2>4 DEF Consume
      <3> HIDE DEF r
      <3>2. /\ applied \cup Ids(deferred) \cup {r.val} \subseteq applied' \cup Ids(deferred')
            /\ deferred' # deferred => copying # << >>
        BY <2>1, <3>1, ApplyOneHeld
      <3>3. Held \cup {r.val} \subseteq Held'
        BY <2>1, <3>2 DEF Held
      <3>4. NoRecordLost'
        BY <2>1, <2>2, <3>1, <3>3 DEF KeepInv, NoRecordLost, Held
      <3> QED BY <1>0, <1>1, <2>1, <3>1, <3>2, <3>4 DEF KeepInv
    <2> QED BY <2>3, <2>4
  <1>3. CASE ApplyPending
    <2> DEFINE r == pendingBin[upos + 1]
    <2>1. /\ r \in Records /\ ApplyOne(r) /\ upos' = upos + 1 /\ upos \in Nat
          /\ mpc = "applyPending" /\ upos < Len(pendingBin) /\ Len(pendingBin) \in Nat
          /\ UNCHANGED <<late, pendingBin, copying, read, batch, parked>>
      BY <1>3, ElementOfSeq, LenProperties DEF ApplyPending, TypeInv
    <2>2. /\ applied \cup Ids(deferred) \cup {r.val} \subseteq applied' \cup Ids(deferred')
          /\ deferred' # deferred => copying # << >>
      BY <2>1, ApplyOneHeld
    <2>3. Held \cup {r.val} \subseteq Held'
      BY <2>1, <2>2 DEF Held
    <2>4. ASSUME NEW k \in 1 .. Len(pendingBin), k <= upos + 1
          PROVE  pendingBin[k].val \in Held'
      <3>1. CASE k = upos + 1
        BY <2>3, <3>1
      <3>2. CASE k # upos + 1
        <4>1. k <= upos
          BY <2>1, <2>4, <3>2
        <4> QED BY <2>1, <2>3, <4>1 DEF KeepInv
      <3> QED BY <3>1, <3>2
    <2>5. NoRecordLost'
      BY <2>1, <2>3 DEF KeepInv, NoRecordLost, Held
    <2> QED BY <1>0, <1>1, <2>1, <2>2, <2>4, <2>5 DEF KeepInv
  <1>4. ASSUME NEW t \in Threads, ApplyLate(t) PROVE KeepInv'
    <2> DEFINE r == Head(late[t])
    <2>1. /\ late[t] \in Seq(Records) /\ late[t] # << >> /\ tpc[t] = "late"
          /\ late' = [late EXCEPT ![t] = Tail(late[t])] /\ r \in Records /\ ApplyOne(r)
          /\ late \in [Threads -> Seq(Records)]
          /\ UNCHANGED <<pendingBin, copying, read, batch, parked, upos>>
      BY <1>4, RecordEnds DEF ApplyLate, TypeInv
    <2>2. Ids(late[t]) \subseteq Ids(late'[t]) \cup {r.val}
      BY <2>1, IdsTail
    <2> HIDE DEF r
    <2>3. /\ applied \cup Ids(deferred) \cup {r.val} \subseteq applied' \cup Ids(deferred')
          /\ deferred' # deferred => copying # << >>
      BY <2>1, ApplyOneHeld
    <2>4. \A u \in Threads : u # t => late'[u] = late[u]
      BY <2>1
    <2>5. Held \subseteq Held'
      BY <2>2, <2>3, <2>4 DEF Held
    <2>6. NoRecordLost'
      BY <2>1, <2>5 DEF KeepInv, NoRecordLost, Held
    <2> QED BY <1>0, <1>1, <2>1, <2>3, <2>4, <2>5, <2>6 DEF KeepInv
  <1> QED BY <1>2, <1>3, <1>4 DEF Applies

LEMMA KeepCopies ==
    ASSUME Calm, TypeInv, OneCopier, KeepInv, NEW t \in Threads, Copies(t)
    PROVE  KeepInv'
  <1> USE DEF device, files, mainLoc, extra, marking, ghosts, Goto
  <1>0. /\ tpc[t] # "off"
        /\ \A u \in Threads : u # t => tpc'[u] = tpc[u] /\ late'[u] = late[u]
        /\ UNCHANGED <<pendingBin, batch, parked, upos, mpc, read, applied>>
    BY CopiesStep DEF CopyFail, Calm
  <1>a. tpc \in [Threads -> CopyPcs] /\ late \in [Threads -> Seq(Records)]
    BY DEF TypeInv
  <1>b. \A u \in Threads : u # t => tpc[u] = "off" /\ tpc'[u] = "off"
    BY <1>0 DEF OneCopier, Threads
  <1>c. mpc = "persist" => t # "rec"
    BY <1>0 DEF KeepInv
  <1>d. mpc' = "persist" => tpc'["rec"] = "off"
    BY <1>0, <1>b, <1>c DEF Threads
  <1>1. CASE FlagChunk(t)
    <2>1. tpc[t] = "flag" /\ tpc'[t] = "devread" /\ deferred' = << >> /\ late' = late
      BY <1>1, <1>a DEF FlagChunk
    <2>2. deferred = << >>
      BY <1>b, <2>1 DEF KeepInv
    <2>3. Held' = Held /\ NoRecordLost'
      BY <1>0, <2>1, <2>2 DEF KeepInv, NoRecordLost, Held
    <2> QED BY <1>0, <1>b, <1>d, <2>1, <2>2, <2>3 DEF KeepInv
  <1>2. CASE ReadDevice(t) \/ WriteReplica(t)
    <2>1. tpc[t] \in {"devread", "write"} /\ tpc'[t] \in {"write", "unflag"}
          /\ UNCHANGED <<deferred, late, copying>>
      BY <1>2, <1>a DEF ReadDevice, WriteReplica
    <2>2. Held' = Held /\ NoRecordLost'
      BY <1>0, <2>1 DEF KeepInv, NoRecordLost, Held
    <2> QED BY <1>0, <1>b, <1>d, <2>1, <2>2 DEF KeepInv
  <1>3. CASE UnflagChunk(t)
    <2>1. /\ tpc[t] = "unflag" /\ tpc'[t] = "late" /\ deferred' = << >>
          /\ late'[t] = deferred /\ copying' = << >>
      BY <1>3, <1>a DEF UnflagChunk, LateRecords
    <2>2. late[t] = << >>
      BY <2>1 DEF KeepInv
    <2>3. Held \subseteq Held'
      BY <1>0, <2>1, <2>2, IdsEmpty DEF Held
    <2>4. NoRecordLost'
      BY <1>0, <2>3 DEF KeepInv, NoRecordLost, Held
    <2> QED BY <1>0, <1>d, <2>1, <2>3, <2>4 DEF KeepInv
  <1>4. CASE \/ ChunkDone(t) \/ Interrupted(t)
             \/ t = "rec" /\ RecoverDone
             \/ t = "base" /\ (BaseBegin \/ BaseDoneNow \/ BaseExit)
    <2>1. /\ tpc[t] \notin {"devread", "write", "unflag"} /\ late[t] = << >>
          /\ UNCHANGED <<deferred, late, copying>>
      BY <1>4, <1>a DEF ChunkDone, Interrupted, RecoverDone, BaseBegin, BaseDoneNow,
                        BaseExit, KeepInv
    <2>2. Held' = Held /\ NoRecordLost'
      BY <1>0, <2>1 DEF KeepInv, NoRecordLost, Held
    <2>3. deferred = << >> /\ copying = << >>
      BY <1>b, <2>1 DEF KeepInv
    <2> QED BY <1>0, <1>d, <2>1, <2>2, <2>3 DEF KeepInv
  <1>5. ~CopyFail(t)
    BY DEF CopyFail, Calm
  <1> QED BY <1>1, <1>2, <1>3, <1>4, <1>5 DEF Copies

LEMMA KeepStep ==
    ASSUME Calm, TypeInv, RecoveryInv, OneCopier, KeepInv, Next
    PROVE  KeepInv'
  <1> USE DEF device, files, mainLoc, copier, ghosts
  <1>1. ASSUME NEW b \in Blocks, Write(b) \/ Ended(b) PROVE KeepInv'
    <2>1. CASE Write(b)
      BY <2>1, KeepSame DEF Write
    <2>2. CASE Ended(b)
      BY <2>2, EndedStep, KeepSame DEF EndIo
    <2> QED BY <1>1, <2>1, <2>2
  <1>2. CASE Start
    <2>1. \A t \in Threads : tpc[t] = "off"
      BY <1>2 DEF Start, RecoveryInv
    <2>2. deferred = << >> /\ copying = << >> /\ \A t \in Threads : late[t] = << >>
      BY <2>1 DEF KeepInv
    <2>3. batch = << >> /\ parked = << >>
      BY <1>2 DEF Start, KeepInv
    <2>4. NoRecordLost'
      BY <1>2 DEF Start, KeepInv, NoRecordLost
    <2>5. UNCHANGED <<batch, parked, deferred, late, copying>> /\ mpc' = "read"
      BY <1>2 DEF Start
    <2> QED BY <2>2, <2>3, <2>4, <2>5 DEF KeepInv
  <1>3. CASE ReadBitmap
    BY <1>3, KeepSame DEF ReadBitmap, MayRecover
  <1>4. CASE StartRecovery
    <2>1. /\ tpc["rec"] = "off" /\ tpc'["rec"] = "flag" /\ tpc'["base"] = tpc["base"]
          /\ mpc = "persist" /\ mpc' = "unpark"
          /\ UNCHANGED <<batch, parked, pendingBin, deferred, late, applied, read,
                         copying>>
      BY <1>4 DEF StartRecovery, KeepInv, TypeInv, Threads
    <2>2. NoRecordLost'
      BY <2>1 DEF KeepInv, NoRecordLost
    <2> QED BY <2>1, <2>2 DEF KeepInv, Threads
  <1>5. CASE OnSig
    BY <1>5, KeepSame DEF OnSig
  <1>6. CASE ReadRing
    <2>1. batch = << >> /\ parked = << >> /\ mpc \in {"read", "drain"}
      BY <1>6 DEF ReadRing, KeepInv
    <2>2. /\ read' = read \cup Ids(batch') /\ mpc' \in {"consume", "drainConsume"}
          /\ UNCHANGED <<parked, pendingBin, deferred, late, applied, tpc, copying>>
      BY <1>6, <2>1 DEF ReadRing
    <2>3. NoRecordLost'
      BY <2>1, <2>2, IdsEmpty DEF KeepInv, NoRecordLost
    <2> QED BY <2>2, <2>3 DEF KeepInv
  <1>7. CASE ConsumeEnd
    <2>1. /\ batch = << >> /\ parked' = << >> /\ pendingBin' = pendingBin \o parked
          /\ mpc' \in {"recover", "drain"}
          /\ UNCHANGED <<batch, deferred, late, applied, read, tpc, copying>>
      BY <1>7 DEF ConsumeEnd, Parked
    <2>2. Ids(pendingBin) \cup Ids(parked) \subseteq Ids(pendingBin')
      BY <2>1, IdsConcat DEF TypeInv
    <2>3. NoRecordLost'
      BY <2>1, <2>2, IdsEmpty DEF KeepInv, NoRecordLost
    <2> QED BY <2>1, <2>3 DEF KeepInv
  <1>8. CASE PendingDone
    <2>1. /\ mpc = "applyPending" /\ upos = Len(pendingBin) /\ pendingBin' = << >>
          /\ mpc' \in {"mark", "read"} /\ Len(pendingBin) \in Nat
          /\ UNCHANGED <<batch, parked, deferred, late, applied, read, tpc, copying>>
      BY <1>8, LenProperties DEF PendingDone, NextTurn, TypeInv
    <2>2. Ids(pendingBin) \subseteq Held
      BY <2>1 DEF KeepInv, Ids
    <2>3. NoRecordLost'
      BY <2>1, <2>2, IdsEmpty DEF KeepInv, NoRecordLost, Held
    <2>4. batch = << >> /\ parked = << >>
      BY <2>1 DEF KeepInv
    <2> QED BY <2>1, <2>3, <2>4 DEF KeepInv
  <1>9. CASE \/ ReadNothing \/ NoRecovery \/ Unpark \/ MarkBegin \/ Freeze
             \/ FreezeRefused \/ DrainEnd \/ Thaw \/ RecordPoint
    <2>1. /\ UNCHANGED <<batch, parked, pendingBin, deferred, late, applied, read,
                         tpc, copying>>
          /\ mpc \notin {"consume", "drainConsume"} /\ mpc' # "persist"
          /\ mpc' # "applyPending" \/ upos' = 0
      BY <1>9 DEF ReadNothing, NoRecovery, Unpark, NextTurn, MarkBegin, Freeze,
                  FreezeRefused, DrainEnd, Thaw, RecordPoint
    <2> QED BY <2>1, KeepSame
  <1>10. CASE RebuildBegin \/ RebuildEnd
    BY <1>10, KeepSame DEF RebuildBegin, RebuildEnd
  <1>11. CASE Gone
    <2>1. Exit
      BY <1>11 DEF Gone, Crash, FreezeTimeout, Calm
    <2>2. batch = << >> /\ parked = << >> /\ \A t \in Threads : tpc[t] = "off"
      BY <2>1 DEF Exit, KeepInv
    <2>3. deferred = << >> /\ \A t \in Threads : late[t] = << >>
      BY <2>2 DEF KeepInv
    <2>4. /\ mpc' = "init" /\ batch' = << >> /\ parked' = << >> /\ copying' = << >>
          /\ deferred' = << >> /\ \A t \in Threads : late'[t] = << >>
          /\ UNCHANGED <<pendingBin, applied, read>>
      BY <2>1 DEF Exit, ProcessGone
    <2>5. NoRecordLost'
      BY <2>2, <2>3, <2>4, IdsEmpty DEF KeepInv, NoRecordLost
    <2> QED BY <2>4, <2>5 DEF KeepInv
  <1>12. CASE Quiet
    BY <1>12, <1>6, <1>7, <1>8, <1>9, <1>10 DEF Quiet
  <1> QED BY <1>1, <1>2, <1>3, <1>4, <1>5, <1>11, <1>12, StepCases, KeepApplies,
             KeepCopies

LEMMA KeepInit ==
    ASSUME Init
    PROVE  OneCopier /\ KeepInv
  <1>1. NoRecordLost
    BY DEF Init, NoRecordLost
  <1>2. Len(<< >>) = 0
    BY EmptySeq
  <1>3. OneCopier
    BY <1>2 DEF Init, OneCopier, Threads, NoFile
  <1>4. KeepInv
    BY <1>1 DEF Init, KeepInv, Threads
  <1> QED BY <1>3, <1>4

\* Every record read from the ring is in the replica or still held, over
\* rebuilds, recoveries and orderly stops, whatever the size of the disk, of a
\* copy chunk and of a read: with the base copy done and any overflow, or during
\* the base copy with a ring that never overflows.  Two copy threads at once, a
\* crash or an I/O error may lose one.
THEOREM RecordsKept == Calm => (Spec => []NoRecordLost)
  <1> SUFFICES ASSUME Calm PROVE Spec => []NoRecordLost
    OBVIOUS
  <1> DEFINE I == DaemonInv /\ OneCopier /\ KeepInv
  <1>1. Init => I
    BY DaemonInit, KeepInit
  <1>2. I /\ DaemonInv' /\ [Next]_vars => I'
    <2> SUFFICES ASSUME I, DaemonInv', [Next]_vars PROVE OneCopier' /\ KeepInv'
      OBVIOUS
    <2>1. CASE Next
      BY <2>1, OneCopierStep, KeepStep DEF DaemonInv
    <2>2. CASE UNCHANGED vars
      BY <2>2 DEF OneCopier, KeepInv, NoRecordLost, Held, vars, device, files,
                  mainLoc, copier, ghosts
    <2> QED BY <2>1, <2>2
  <1>3. I => NoRecordLost
    BY DEF KeepInv
  <1> QED BY <1>1, <1>2, <1>3, DaemonInductive, PTL DEF Spec
=============================================================================
