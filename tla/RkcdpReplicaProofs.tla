------------------------ MODULE RkcdpReplicaProofs --------------------------
(***************************************************************************)
(* The replica is the disk: whenever nothing is on its way, and at every   *)
(* consistent point, but for the races and the causes that the properties  *)
(* name, for every disk, ring, chunk and number of writes and rebuilds.    *)
(***************************************************************************)
EXTENDS RkcdpdProofs

USE DaemonAssumption

\* Calm, and no stop signal where writes may be dropped: recovery_queue is only in
\* memory, so a daemon that stops forgets the gaps it has read.
Undisturbed == Calm /\ (BaseDone => "stop" \notin Env)

-----------------------------------------------------------------------------
(* The inductive invariant.                                                *)

Pair(r) == <<r.blk, r.val>>
PairsFrom(s, n) == {Pair(s[k]) : k \in n + 1 .. Len(s)}

\* The records of pending.bin that apply_pending has not come to.
Parking == PairsFrom(pendingBin, IF mpc = "applyPending" THEN upos ELSE 0)

\* The records that have not reached the replica.
Pend == Pairs(ring) \cup Pairs(batch) \cup Pairs(parked) \cup Parking
          \cup Pairs(deferred) \cup Pairs(late["base"]) \cup Pairs(late["rec"])

\* A gap that will start a recovery: one that no record carries yet, one in a
\* record, one in the queue.
HasGap(s) == \E k \in 1 .. Len(s) : s[k].gap
Gap       == gapPending \/ queue > 0 \/ HasGap(ring) \/ HasGap(batch)

\* The next recovery will re-read the block.
Told(b) == b \in bitmap /\ Gap

\* The last write of the block is among the records on their way.
Awaited(b) == <<b, Newest(b)>> \in Pend

Failed(b)  == <<"failed", b>> \in raced
Excused(b) == \E r \in {"reordered", "early", "outrun", "failed"} : <<r, b>> \in raced

\* A copy thread will bring the block.
Coming(b) ==
    \/ Told(b) \/ b \in CoveredBy(taken) \/ b \in CoveredBy(Left("rec"))
    \/ ~baseEnd /\ (tpc["base"] = "off" \/ b \in CoveredBy(Left("base")))

\* Nothing is newer than the last write, unless one failed.
NumInv ==
    /\ \A b \in Blocks : disk[b] <= Newest(b) /\ Newest(b) <= nw
    /\ \A b \in Blocks : ~Failed(b) =>
         /\ replica[b] <= Newest(b)
         /\ \A t \in Threads : tpc[t] = "write" => buf[t][b] <= Newest(b)
         /\ \A n \in Nat : <<b, n>> \in Pend => n <= Newest(b)
    /\ Pend \subseteq Blocks \X Nat /\ last \in [Blocks -> Nat]

\* A write in flight has its record in the ring, or will be re-read.
FlightInv ==
    \A b \in Blocks : inflight[b] # NoWrite =>
        /\ inflight[b].val # 0
        /\ \A c \in Blocks : c # b => inflight[c].val # inflight[b].val
        /\ inflight[b].logged =>
              \E k \in 1 .. Len(ring) : /\ ring[k].blk = b /\ ~ring[k].done
                                        /\ ring[k].val = inflight[b].val
        /\ ~inflight[b].logged => Told(b) \/ Early(b)

\* Records on their way end with the last write, or come too late to be applied in
\* order, or the block will be re-read.
OrderInv ==
    \A b \in Blocks : \/ Excused(b) \/ Awaited(b) \/ Told(b)
                      \/ \A p \in Pend : p[1] = b => p[2] <= last[b]

\* The replica has the last write of a block, or will have it.
CurrentInv ==
    \A b \in Blocks : Excused(b) \/ replica[b] = Newest(b) \/ Awaited(b) \/ Coming(b)

\* So has what a copy thread is about to write.
BufInv ==
    \A t \in Threads :
        /\ tpc[t] \in {"devread", "write", "unflag"} => copying = First(ranges[t])
        /\ tpc[t] = "write" =>
             \A b \in Blocks : Covers(copying, b) =>
                Excused(b) \/ buf[t][b] = Newest(b) \/ Awaited(b) \/ Told(b)

ThreadInv ==
    /\ tpc["rec"] = "off" => ranges["rec"] = {}
    /\ BaseDone => ~stop
    /\ baseEnd => tpc["base"] \in {"off", "finish"}

ReplicaInv ==
    NumInv /\ FlightInv /\ OrderInv /\ CurrentInv /\ BufInv /\ ThreadInv

-----------------------------------------------------------------------------
(* Lists of records.                                                       *)

LEMMA PairsEmpty == Pairs(<< >>) = {} /\ \A n \in Nat : PairsFrom(<< >>, n) = {}
  <1>1. Len(<< >>) = 0
    BY EmptySeq
  <1>2. Pairs(<< >>) = {}
    BY <1>1 DEF Pairs
  <1>3. ASSUME NEW n \in Nat PROVE PairsFrom(<< >>, n) = {}
    <2>1. n + 1 .. Len(<< >>) = {}
      BY <1>1
    <2> QED BY <2>1 DEF PairsFrom
  <1> QED BY <1>2, <1>3

LEMMA PairsFromAll == \A s : PairsFrom(s, 0) = Pairs(s)
  BY DEF PairsFrom, Pairs, Pair

LEMMA PairsAppend ==
    ASSUME NEW s \in Seq(Records), NEW r \in Records
    PROVE  Pairs(Append(s, r)) = Pairs(s) \cup {Pair(r)}
  <1> DEFINE a == Append(s, r)
             n == Len(s)
  <1>1. /\ n \in Nat /\ Len(a) = n + 1 /\ \A k \in 1 .. n : a[k] = s[k]
        /\ a[n + 1] = r
    BY AppendProperties, LenProperties
  <1> HIDE DEF a
  <1>2. \A k \in 1 .. n : k \in 1 .. Len(a)
    BY <1>1
  <1>3. n + 1 \in 1 .. Len(a)
    BY <1>1
  <1>4. \A k \in 1 .. Len(a) : k \in 1 .. n \/ k = n + 1
    BY <1>1
  <1>5. Pairs(a) \subseteq Pairs(s) \cup {Pair(r)}
    BY <1>1, <1>4, Zenon DEF Pairs, Pair
  <1>6. Pairs(s) \cup {Pair(r)} \subseteq Pairs(a)
    BY <1>1, <1>2, <1>3, Zenon DEF Pairs, Pair
  <1> QED BY <1>5, <1>6 DEF a

LEMMA PairsTail ==
    ASSUME NEW s \in Seq(Records), s # << >>
    PROVE  Pairs(s) = Pairs(Tail(s)) \cup {Pair(Head(s))}
  <1> DEFINE u == Tail(s)
             n == Len(s)
  <1>1. /\ n \in Nat /\ n > 0 /\ Len(u) = n - 1 /\ Head(s) = s[1]
        /\ \A k \in 1 .. Len(u) : u[k] = s[k + 1]
    BY HeadTailProperties, LenProperties, EmptySeq
  <1> HIDE DEF u, n
  <1>2. ASSUME NEW k \in 1 .. n
        PROVE  k = 1 \/ \E j \in 1 .. Len(u) : u[j] = s[k]
    <2>1. CASE k # 1
      <3>1. k - 1 \in 1 .. Len(u) /\ u[k - 1] = s[k]
        BY <1>1, <2>1
      <3> QED BY <3>1
    <2> QED BY <2>1
  <1>3. 1 \in 1 .. n /\ \A k \in 1 .. Len(u) : k + 1 \in 1 .. n
    BY <1>1
  <1>4. Pairs(s) \subseteq Pairs(u) \cup {Pair(Head(s))}
    <2> SUFFICES ASSUME NEW k \in 1 .. n
                 PROVE  Pair(s[k]) \in Pairs(u) \cup {Pair(Head(s))}
      BY DEF Pairs, Pair, n
    <2>1. CASE k = 1
      BY <1>1, <2>1
    <2>2. CASE \E j \in 1 .. Len(u) : u[j] = s[k]
      BY <2>2 DEF Pairs, Pair
    <2> QED BY <1>2, <2>1, <2>2
  <1>5. Pairs(u) \cup {Pair(Head(s))} \subseteq Pairs(s)
    <2>1. \A k \in 1 .. n : Pair(s[k]) \in Pairs(s)
      BY DEF Pairs, Pair, n
    <2>2. Pair(Head(s)) \in Pairs(s)
      BY <1>1, <1>3, <2>1
    <2>3. ASSUME NEW k \in 1 .. Len(u) PROVE Pair(u[k]) \in Pairs(s)
      BY <1>1, <1>3, <2>1
    <2>4. Pairs(u) \subseteq Pairs(s)
      BY <2>3 DEF Pairs, Pair
    <2> QED BY <2>2, <2>4
  <1> QED BY <1>4, <1>5 DEF u

LEMMA PairsConcat ==
    ASSUME NEW s \in Seq(Records), NEW u \in Seq(Records)
    PROVE  Pairs(s \o u) = Pairs(s) \cup Pairs(u)
  <1> DEFINE c == s \o u
             n == Len(s)
             m == Len(u)
  <1>1. /\ n \in Nat /\ m \in Nat /\ Len(c) = n + m
        /\ \A k \in 1 .. n : c[k] = s[k]
        /\ \A k \in 1 .. m : c[n + k] = u[k]
    BY ConcatProperties, LenProperties
  <1> HIDE DEF c, n, m
  <1>2. /\ \A k \in 1 .. n : k \in 1 .. Len(c)
        /\ \A k \in 1 .. m : n + k \in 1 .. Len(c)
    BY <1>1
  <1>3. ASSUME NEW k \in 1 .. Len(c)
        PROVE  (k \in 1 .. n /\ c[k] = s[k]) \/ \E j \in 1 .. m : c[k] = u[j]
    <2>1. CASE k \notin 1 .. n
      <3>1. k - n \in 1 .. m /\ n + (k - n) = k
        BY <1>1, <2>1
      <3> QED BY <1>1, <3>1
    <2> QED BY <1>1, <2>1
  <1>4. Pairs(c) \subseteq Pairs(s) \cup Pairs(u)
    BY <1>3, Zenon DEF Pairs, n, m
  <1>5. Pairs(s) \cup Pairs(u) \subseteq Pairs(c)
    BY <1>1, <1>2, Zenon DEF Pairs, n, m
  <1> QED BY <1>4, <1>5 DEF c

\* A read takes the first n records of the ring.
LEMMA PairsSplit ==
    ASSUME NEW s \in Seq(Records), NEW n \in 0 .. Len(s)
    PROVE  /\ Pairs(s) = Pairs(SubSeq(s, 1, n)) \cup Pairs(SubSeq(s, n + 1, Len(s)))
           /\ HasGap(s) => \/ HasGap(SubSeq(s, 1, n))
                           \/ HasGap(SubSeq(s, n + 1, Len(s)))
  <1> DEFINE a == SubSeq(s, 1, n)
             b == SubSeq(s, n + 1, Len(s))
             l == Len(s)
  <1>0. l \in Nat /\ n \in 0 .. l /\ l = Len(s)
    BY LenProperties
  <1>1. Len(a) = n /\ \A k \in 1 .. n : a[k] = s[k]
    BY <1>0, SubSeqProperties
  <1>2. Len(b) = l - n /\ \A k \in 1 .. l - n : b[k] = s[k + n]
    BY <1>0, SubSeqProperties
  <1> HIDE DEF a, b, l
  <1>3. ASSUME NEW k \in 1 .. l
        PROVE  \/ \E j \in 1 .. Len(a) : a[j] = s[k]
               \/ \E j \in 1 .. Len(b) : b[j] = s[k]
    <2>1. CASE k <= n
      BY <1>0, <1>1, <2>1
    <2>2. CASE k > n
      <3>1. k - n \in 1 .. l - n /\ (k - n) + n = k
        BY <1>0, <2>2
      <3> QED BY <1>2, <3>1
    <2> QED BY <1>0, <2>1, <2>2
  <1>4. /\ \A k \in 1 .. Len(a) : k \in 1 .. l /\ a[k] = s[k]
        /\ \A k \in 1 .. Len(b) : k + n \in 1 .. l /\ b[k] = s[k + n]
    BY <1>0, <1>1, <1>2
  <1>5. Pairs(s) \subseteq Pairs(a) \cup Pairs(b)
    BY <1>0, <1>3, Zenon DEF Pairs
  <1>6. Pairs(a) \cup Pairs(b) \subseteq Pairs(s)
    BY <1>0, <1>4, Zenon DEF Pairs
  <1>7. HasGap(s) => HasGap(a) \/ HasGap(b)
    BY <1>0, <1>3, Zenon DEF HasGap
  <1> QED BY <1>5, <1>6, <1>7 DEF a, b, l

\* apply_pending comes to the next record, and to its end.
LEMMA PairsNext ==
    ASSUME NEW s \in Seq(Records), NEW n \in Nat
    PROVE  /\ n < Len(s) => PairsFrom(s, n) = PairsFrom(s, n + 1) \cup {Pair(s[n + 1])}
           /\ n = Len(s) => PairsFrom(s, n) = {}
  <1>0. Len(s) \in Nat
    BY LenProperties
  <1>1. ASSUME n < Len(s)
        PROVE  PairsFrom(s, n) = PairsFrom(s, n + 1) \cup {Pair(s[n + 1])}
    <2>1. n + 1 .. Len(s) = ((n + 1) + 1 .. Len(s)) \cup {n + 1}
      BY <1>0, <1>1
    <2> QED BY <2>1 DEF PairsFrom
  <1>2. ASSUME n = Len(s) PROVE PairsFrom(s, n) = {}
    <2>1. n + 1 .. Len(s) = {}
      BY <1>2
    <2> QED BY <2>1 DEF PairsFrom
  <1> QED BY <1>1, <1>2

-----------------------------------------------------------------------------
(* What a step does to the records on their way.                           *)

LEMMA PendKept ==
    ASSUME UNCHANGED <<ring, batch, parked, pendingBin, deferred, late>>,
           \/ mpc' = mpc /\ upos' = upos
           \/ mpc # "applyPending" /\ (mpc' # "applyPending" \/ upos' = 0)
    PROVE  Pend' = Pend
  BY DEF Pend, Parking

LEMMA PendQuiet ==
    ASSUME TypeInv, KeepInv, Quiet
    PROVE  Pend' = Pend /\ (Gap => Gap')
  <1> USE DEF device, files, mainLoc, copier, ghosts
  <1>1. CASE ReadRing
    <2> DEFINE n == Deliverable
    <2>1. batch = << >> /\ mpc \in {"read", "drain"}
      BY <1>1 DEF ReadRing, KeepInv
    <2>2. /\ batch' = SubSeq(ring, 1, n) /\ ring' = SubSeq(ring, n + 1, Len(ring))
          /\ mpc' \in {"consume", "drainConsume"}
          /\ UNCHANGED <<parked, pendingBin, deferred, late, queue, gapPending>>
      BY <1>1, <2>1 DEF ReadRing
    <2>3. ring \in Seq(Records) /\ n \in 0 .. Len(ring)
      BY DeliverableIn DEF TypeInv
    <2> HIDE DEF n
    <2>4. /\ Pairs(ring) = Pairs(batch') \cup Pairs(ring')
          /\ HasGap(ring) => HasGap(batch') \/ HasGap(ring')
      BY <2>2, <2>3, PairsSplit
    <2>5. Parking' = Parking
      BY <2>1, <2>2 DEF Parking
    <2>6. Pairs(batch) = {} /\ ~HasGap(batch)
      BY <2>1, PairsEmpty, NoRecords DEF HasGap
    <2> QED BY <2>2, <2>4, <2>5, <2>6 DEF Pend, Gap
  <1>2. CASE ConsumeEnd
    <2>1. /\ mpc \in {"consume", "drainConsume"} /\ mpc' \in {"recover", "drain"}
          /\ pendingBin' = pendingBin \o parked /\ parked' = << >>
          /\ UNCHANGED <<ring, batch, deferred, late, queue, gapPending>>
      BY <1>2 DEF ConsumeEnd, Parked
    <2>2. Pairs(pendingBin') = Pairs(pendingBin) \cup Pairs(parked)
      BY <2>1, PairsConcat DEF TypeInv
    <2>3. Parking = Pairs(pendingBin) /\ Parking' = Pairs(pendingBin')
      BY <2>1, PairsFromAll DEF Parking
    <2>4. Pairs(parked') = {}
      BY <2>1, PairsEmpty
    <2> QED BY <2>1, <2>2, <2>3, <2>4 DEF Pend, Gap
  <1>3. CASE PendingDone
    <2>1. /\ mpc = "applyPending" /\ mpc' \in {"mark", "read"} /\ upos = Len(pendingBin)
          /\ pendingBin' = << >> /\ pendingBin \in Seq(Records) /\ upos \in Nat
          /\ UNCHANGED <<ring, batch, parked, deferred, late, queue, gapPending>>
      BY <1>3 DEF PendingDone, NextTurn, TypeInv
    <2>2. Parking = {}
      BY <2>1, PairsNext DEF Parking
    <2>3. Parking' = {}
      BY <2>1, PairsEmpty DEF Parking
    <2> QED BY <2>1, <2>2, <2>3 DEF Pend, Gap
  <1>4. CASE \/ ReadNothing \/ NoRecovery \/ Unpark \/ MarkBegin \/ Freeze
             \/ FreezeRefused \/ DrainEnd \/ Thaw \/ RecordPoint
             \/ RebuildBegin \/ RebuildEnd
    <2>1. /\ UNCHANGED <<ring, batch, parked, pendingBin, deferred, late, queue,
                         gapPending>>
          /\ \/ mpc' = mpc /\ upos' = upos
             \/ mpc # "applyPending" /\ (mpc' # "applyPending" \/ upos' = 0)
      BY <1>4 DEF ReadNothing, NoRecovery, Unpark, NextTurn, MarkBegin, Freeze,
                  FreezeRefused, DrainEnd, Thaw, RecordPoint, RebuildBegin, RebuildEnd
    <2> QED BY <2>1, PendKept DEF Gap
  <1> QED BY <1>1, <1>2, <1>3, <1>4 DEF Quiet

\* Where the record goes that apply_one is called with: the rest stays on its way.
LEMMA PendApplyOne ==
    ASSUME TypeInv, NEW r \in Records, ApplyOne(r)
    PROVE  \/ /\ Pairs(deferred') = Pairs(deferred) \cup {Pair(r)}
              /\ UNCHANGED <<replica, last, raced>>
           \/ /\ deferred' = deferred /\ ~Covers(copying, r.blk)
              /\ replica' = Stored(r) /\ last' = [last EXCEPT ![r.blk] = r.val]
              /\ raced' = IF r.val <= last[r.blk]
                          THEN raced \cup {<<"reordered", r.blk>>} ELSE raced
  <1>1. CASE Deferred(r)
    BY <1>1, PairsAppend DEF ApplyOne, TypeInv
  <1>2. CASE ~Deferred(r)
    BY <1>2 DEF ApplyOne, Deferred
  <1> QED BY <1>1, <1>2

\* One record at most leaves, and is in the replica then.
OneStored(r) ==
    /\ Pair(r) \in Pend /\ Pend \subseteq Pend' \cup {Pair(r)} /\ Pend' \subseteq Pend
    /\ ~Covers(copying, r.blk)
    /\ replica' = Stored(r) /\ last' = [last EXCEPT ![r.blk] = r.val]
    /\ raced' = IF r.val <= last[r.blk]
                THEN raced \cup {<<"reordered", r.blk>>} ELSE raced

LEMMA PendApplies ==
    ASSUME TypeInv, KeepInv, Applies
    PROVE  /\ Gap => Gap'
           /\ \/ Pend' = Pend /\ UNCHANGED <<replica, last, raced>>
              \/ \E r \in Records : OneStored(r)
  <1> USE DEF device, files, mainLoc, copier, ghosts
  <1>1. CASE Consume
    <2> DEFINE r == Head(batch)
    <2>1. /\ batch \in Seq(Records) /\ batch # << >> /\ batch' = Tail(batch)
          /\ r \in Records /\ mpc \in {"consume", "drainConsume"} /\ queue \in Nat
          /\ queue' = queue + (IF r.gap THEN 1 ELSE 0)
          /\ UNCHANGED <<late, pendingBin, upos, copying, mpc, ring, gapPending>>
      BY <1>1, RecordEnds DEF Consume, TypeInv
    <2>2. Pairs(batch) = Pairs(batch') \cup {Pair(r)}
      BY <2>1, PairsTail
    <2>3. HasGap(batch) => r.gap \/ HasGap(batch')
      <3>1. /\ Len(batch) \in Nat /\ Head(batch) = batch[1]
            /\ Len(batch') = Len(batch) - 1
            /\ \A k \in 1 .. Len(batch') : batch'[k] = batch[k + 1]
        BY <2>1, HeadTailProperties, LenProperties, EmptySeq
      <3>2. ASSUME NEW k \in 1 .. Len(batch), batch[k].gap, k # 1
            PROVE  HasGap(batch')
        <4>1. k - 1 \in 1 .. Len(batch') /\ (k - 1) + 1 = k
          BY <3>1, <3>2
        <4>2. batch'[k - 1].gap
          BY <3>1, <3>2, <4>1
        <4> QED BY <4>1, <4>2 DEF HasGap
      <3> QED BY <3>1, <3>2 DEF HasGap
    <2> HIDE DEF r
    <2>4. Gap => Gap'
      BY <2>1, <2>3 DEF Gap
    <2>5. Parking' = Parking
      BY <2>1 DEF Parking
    <2>6. CASE park
      <3>1. parked' = Append(parked, r) /\ UNCHANGED <<replica, last, raced, deferred>>
        BY <1>1, <2>6 DEF Consume, r
      <3>2. Pairs(parked') = Pairs(parked) \cup {Pair(r)}
        BY <2>1, <3>1, PairsAppend DEF TypeInv
      <3>3. Pend' = Pend
        BY <2>1, <2>2, <2>5, <3>1, <3>2 DEF Pend
      <3> QED BY <2>4, <3>1, <3>3
    <2>7. CASE ~park
      <3>1. ApplyOne(r) /\ parked' = parked
        BY <1>1, <2>7 DEF Consume, r
      <3> QED BY <2>1, <2>2, <2>4, <2>5, <3>1, PendApplyOne DEF Pend, OneStored
    <2> QED BY <2>6, <2>7
  <1>2. CASE ApplyPending
    <2> DEFINE r == pendingBin[upos + 1]
    <2>1. /\ r \in Records /\ ApplyOne(r) /\ upos' = upos + 1 /\ upos \in Nat
          /\ mpc = "applyPending" /\ upos < Len(pendingBin) /\ mpc' = mpc
          /\ UNCHANGED <<late, pendingBin, copying, batch, parked, ring, queue,
                         gapPending>>
      BY <1>2, ElementOfSeq, LenProperties DEF ApplyPending, TypeInv
    <2>2. Parking = Parking' \cup {Pair(r)}
      BY <2>1, PairsNext DEF Parking, TypeInv
    <2> HIDE DEF r
    <2>3. Gap => Gap'
      BY <2>1 DEF Gap
    <2> QED BY <2>1, <2>2, <2>3, PendApplyOne DEF Pend, OneStored
  <1>3. ASSUME NEW t \in Threads, ApplyLate(t)
        PROVE  /\ Gap => Gap'
               /\ \/ Pend' = Pend /\ UNCHANGED <<replica, last, raced>>
                  \/ \E r \in Records : OneStored(r)
    <2> DEFINE r == Head(late[t])
    <2>1. /\ late[t] \in Seq(Records) /\ late[t] # << >>
          /\ late' = [late EXCEPT ![t] = Tail(late[t])] /\ r \in Records /\ ApplyOne(r)
          /\ late \in [Threads -> Seq(Records)]
          /\ UNCHANGED <<pendingBin, copying, batch, parked, upos, mpc, ring, queue,
                         gapPending>>
      BY <1>3, RecordEnds DEF ApplyLate, TypeInv
    <2>2. Pairs(late[t]) = Pairs(late'[t]) \cup {Pair(r)}
      BY <2>1, PairsTail
    <2> HIDE DEF r
    <2>3. \A u \in Threads : u # t => late'[u] = late[u]
      BY <2>1
    <2>4. Pairs(late["base"]) \cup Pairs(late["rec"])
            = Pairs(late'["base"]) \cup Pairs(late'["rec"]) \cup {Pair(r)}
      BY <2>2, <2>3 DEF Threads
    <2>5. Gap => Gap'
      BY <2>1 DEF Gap
    <2>6. Parking' = Parking
      BY <2>1 DEF Parking
    <2> QED BY <2>1, <2>4, <2>5, <2>6, PendApplyOne DEF Pend, OneStored
  <1> QED BY <1>1, <1>2, <1>3 DEF Applies

LEMMA PendCopies ==
    ASSUME Calm, TypeInv, OneCopier, KeepInv, NEW t \in Threads, Copies(t)
    PROVE  Pend' = Pend /\ Gap' = Gap /\ \A u \in Threads : u # t => tpc[u] = "off"
  <1> USE DEF device, files, mainLoc, extra, marking, ghosts, Goto
  <1>0. /\ tpc[t] # "off"
        /\ \A u \in Threads : u # t => tpc'[u] = tpc[u] /\ late'[u] = late[u]
        /\ UNCHANGED <<ring, gapPending, pendingBin, batch, parked, upos, mpc, queue>>
    BY CopiesStep
  <1>a. tpc \in [Threads -> CopyPcs] /\ late \in [Threads -> Seq(Records)]
    BY DEF TypeInv
  <1>b. \A u \in Threads : u # t => tpc[u] = "off"
    BY <1>0 DEF OneCopier, Threads
  <1>c. Gap' = Gap /\ Parking' = Parking
    BY <1>0 DEF Gap, Parking
  <1>1. CASE FlagChunk(t)
    <2>1. tpc[t] = "flag" /\ deferred' = << >> /\ late' = late
      BY <1>1, <1>a DEF FlagChunk
    <2>2. deferred = << >>
      BY <1>b, <2>1 DEF KeepInv
    <2> QED BY <1>0, <1>b, <1>c, <2>1, <2>2 DEF Pend
  <1>2. CASE UnflagChunk(t)
    <2>1. tpc[t] = "unflag" /\ deferred' = << >> /\ late'[t] = deferred
      BY <1>2, <1>a DEF UnflagChunk, LateRecords
    <2>2. late[t] = << >>
      BY <2>1 DEF KeepInv
    <2>3. Pairs(late'[t]) = Pairs(deferred) /\ Pairs(deferred') = {} /\ Pairs(late[t]) = {}
      BY <2>1, <2>2, PairsEmpty
    <2> QED BY <1>0, <1>b, <1>c, <2>3 DEF Pend, Threads
  <1>3. CASE UNCHANGED <<deferred, late>>
    BY <1>0, <1>b, <1>c, <1>3 DEF Pend
  <1>4. FlagChunk(t) \/ UnflagChunk(t) \/ UNCHANGED <<deferred, late>>
    <2>1. ~CopyFail(t)
      BY DEF CopyFail, Calm
    <2> QED BY <2>1 DEF Copies, ReadDevice, WriteReplica, ChunkDone, Interrupted,
                        RecoverDone, BaseBegin, BaseDoneNow, BaseExit
  <1> QED BY <1>1, <1>2, <1>3, <1>4

\* An orderly stop has nothing in its hands.
LEMMA PendGone ==
    ASSUME Undisturbed, TypeInv, OneCopier, KeepInv, ThreadInv, Gone
    PROVE  Pend' = Pend /\ ~Gap /\ Exit
  <1> USE DEF device, files, mainLoc, copier, ghosts
  <1>1. Exit /\ stop
    BY DEF Gone, Crash, FreezeTimeout, Undisturbed, Calm, Exit
  <1>2. batch = << >> /\ parked = << >> /\ \A t \in Threads : tpc[t] = "off"
    BY <1>1 DEF Exit, KeepInv
  <1>3. deferred = << >> /\ \A t \in Threads : late[t] = << >>
    BY <1>2 DEF KeepInv
  <1>4. /\ mpc' = "init" /\ batch' = << >> /\ parked' = << >> /\ mpc = "read"
        /\ deferred' = << >> /\ \A t \in Threads : late'[t] = << >>
        /\ UNCHANGED <<pendingBin, ring>>
    BY <1>1 DEF Exit, ProcessGone
  <1>5. Parking' = Parking
    BY <1>4 DEF Parking
  <1>6. Pend' = Pend
    BY <1>2, <1>3, <1>4, <1>5 DEF Pend, Threads
  <1>7. ~BaseDone
    BY <1>1 DEF ThreadInv
  <1>8. ~Gap
    BY <1>7 DEF OneCopier, Gap, HasGap
  <1> QED BY <1>1, <1>6, <1>8

-----------------------------------------------------------------------------
(* The invariant.                                                          *)

\* The last write of a block has a number.
LEMMA NewestIn ==
    ASSUME TypeInv, NEW b \in Blocks
    PROVE  Newest(b) \in Vals
  <1>1. disk[b] \in Vals /\ inflight[b].val \in Vals
    BY DEF TypeInv, Vals
  <1> QED BY <1>1 DEF Newest

\* A step that leaves the writes and the records on their way as they are.
SameRecords ==
    /\ UNCHANGED <<bitmap, nw, last>>
    /\ \A b \in Blocks : Newest(b)' = Newest(b) /\ disk'[b] <= Newest(b)
    /\ Pend' = Pend /\ (Gap => Gap') /\ raced \subseteq raced'

LEMMA SameDevice ==
    ASSUME NumInv, UNCHANGED <<disk, inflight, bitmap, nw, last>>,
           Pend' = Pend, Gap => Gap', raced \subseteq raced'
    PROVE  SameRecords
  BY DEF SameRecords, Newest, NumInv

LEMMA SameFacts ==
    ASSUME SameRecords, NEW b \in Blocks
    PROVE  /\ Newest(b)' = Newest(b) /\ (Awaited(b) => Awaited(b)')
           /\ Told(b) => Told(b)'
           /\ Excused(b) => Excused(b)'
           /\ Failed(b) => Failed(b)'
           /\ Early(b) => Early(b)'
  BY DEF SameRecords, Awaited, Told, Excused, Failed, Early

LEMMA SameOrder ==
    ASSUME SameRecords, OrderInv
    PROVE  OrderInv'
  <1> SUFFICES ASSUME NEW b \in Blocks
               PROVE  \/ Excused(b)' \/ Awaited(b)' \/ Told(b)'
                      \/ \A p \in Pend' : p[1] = b => p[2] <= last'[b]
    BY DEF OrderInv
  <1>1. \/ Excused(b) \/ Awaited(b) \/ Told(b)
        \/ \A p \in Pend : p[1] = b => p[2] <= last[b]
    BY DEF OrderInv
  <1>2. Pend' = Pend /\ last' = last
    BY DEF SameRecords
  <1> QED BY <1>1, <1>2, SameFacts

\* The records of writes in flight stay in the ring.
RingKept == \A k \in 1 .. Len(ring) : ~ring[k].done =>
                \E j \in 1 .. Len(ring') : ring'[j] = ring[k]

LEMMA FlightKept ==
    ASSUME FlightInv, RingKept, inflight' = inflight,
           \A b \in Blocks : (Told(b) => Told(b)') /\ (Early(b) => Early(b)')
    PROVE  FlightInv'
  <1> SUFFICES ASSUME NEW b \in Blocks, inflight[b] # NoWrite
               PROVE  /\ inflight[b].val # 0
                      /\ \A c \in Blocks : c # b => inflight[c].val # inflight[b].val
                      /\ inflight[b].logged =>
                           \E k \in 1 .. Len(ring') : /\ ring'[k].blk = b
                                                      /\ ~ring'[k].done
                                                      /\ ring'[k].val = inflight[b].val
                      /\ ~inflight[b].logged => Told(b)' \/ Early(b)'
    BY DEF FlightInv
  <1>1. inflight[b].val # 0 /\ \A c \in Blocks : c # b => inflight[c].val # inflight[b].val
    BY DEF FlightInv
  <1>2. ASSUME inflight[b].logged
        PROVE  \E k \in 1 .. Len(ring') : /\ ring'[k].blk = b /\ ~ring'[k].done
                                          /\ ring'[k].val = inflight[b].val
    <2>1. PICK k \in 1 .. Len(ring) : /\ ring[k].blk = b /\ ~ring[k].done
                                      /\ ring[k].val = inflight[b].val
      BY <1>2 DEF FlightInv
    <2>2. PICK j \in 1 .. Len(ring') : ring'[j] = ring[k]
      BY <2>1 DEF RingKept
    <2> QED BY <2>1, <2>2
  <1>3. ASSUME ~inflight[b].logged PROVE Told(b)' \/ Early(b)'
    <2>1. Told(b) \/ Early(b)
      BY <1>3 DEF FlightInv
    <2> QED BY <2>1
  <1> QED BY <1>1, <1>2, <1>3

LEMMA SameNum ==
    ASSUME SameRecords, NumInv,
           \A b \in Blocks : ~Failed(b) =>
               /\ replica'[b] <= Newest(b)
               /\ \A t \in Threads : tpc'[t] = "write" => buf'[t][b] <= Newest(b)
    PROVE  NumInv'
  <1>1. UNCHANGED <<nw, last>> /\ Pend' = Pend
    BY DEF SameRecords
  <1>2. \A b \in Blocks : /\ Newest(b)' = Newest(b) /\ disk'[b] <= Newest(b)
                          /\ Failed(b) => Failed(b)'
    BY SameFacts DEF SameRecords
  <1> QED BY <1>1, <1>2 DEF NumInv

LEMMA SameCurrent ==
    ASSUME SameRecords, CurrentInv, replica' = replica,
           \A b \in Blocks : Coming(b) => Coming(b)'
    PROVE  CurrentInv'
  <1> SUFFICES ASSUME NEW b \in Blocks
               PROVE  Excused(b)' \/ replica'[b] = Newest(b)' \/ Awaited(b)' \/ Coming(b)'
    BY DEF CurrentInv
  <1>1. Excused(b) \/ replica[b] = Newest(b) \/ Awaited(b) \/ Coming(b)
    BY DEF CurrentInv
  <1> QED BY <1>1, SameFacts

LEMMA SameComing ==
    ASSUME UNCHANGED <<tpc, ranges, baseEnd, taken>>, NEW b, Told(b) => Told(b)'
    PROVE  Coming(b) => Coming(b)'
  <1>1. Left("rec")' = Left("rec") /\ Left("base")' = Left("base")
    BY DEF Left
  <1> QED BY <1>1 DEF Coming

\* A step that leaves the copy threads alone as well.
LEMMA CarryOver ==
    ASSUME ReplicaInv, SameRecords, FlightInv', BaseDone => ~stop',
           UNCHANGED <<replica, tpc, ranges, buf, copying, baseEnd, taken>>
    PROVE  ReplicaInv'
  <1>1. NumInv'
    BY SameNum DEF ReplicaInv, NumInv
  <1>2. CurrentInv'
    BY SameCurrent, SameComing, SameFacts DEF ReplicaInv
  <1>3. BufInv'
    <2> SUFFICES ASSUME NEW t \in Threads
                 PROVE  /\ tpc'[t] \in {"devread", "write", "unflag"} =>
                             copying' = First(ranges'[t])
                        /\ tpc'[t] = "write" =>
                             \A b \in Blocks : Covers(copying', b) =>
                               \/ Excused(b)' \/ buf'[t][b] = Newest(b)'
                               \/ Awaited(b)' \/ Told(b)'
      BY DEF BufInv
    <2>1. tpc[t] \in {"devread", "write", "unflag"} => copying = First(ranges[t])
      BY DEF ReplicaInv, BufInv
    <2>2. ASSUME tpc[t] = "write", NEW b \in Blocks, Covers(copying, b)
          PROVE  Excused(b) \/ buf[t][b] = Newest(b) \/ Awaited(b) \/ Told(b)
      BY <2>2 DEF ReplicaInv, BufInv
    <2> QED BY <2>1, <2>2, SameFacts
  <1>4. ThreadInv'
    BY DEF ReplicaInv, ThreadInv
  <1> QED BY <1>1, <1>2, <1>3, <1>4, SameOrder DEF ReplicaInv

LEMMA ReplicaQuiet ==
    ASSUME TypeInv, KeepInv, ReplicaInv, Quiet
    PROVE  ReplicaInv'
  <1> USE DEF device, files, mainLoc, copier, ghosts, extra, marking
  <1>1. UNCHANGED <<core, replica, raced>> /\ Pend' = Pend /\ (Gap => Gap')
    BY QuietStep, PendQuiet
  <1>2. UNCHANGED <<nw, last, copying>>
    BY DEF Quiet, ReadRing, ReadNothing, ConsumeEnd, NoRecovery, Unpark, PendingDone,
           MarkBegin, Freeze, FreezeRefused, DrainEnd, Thaw, RecordPoint, RebuildBegin,
           RebuildEnd
  <1>3. RingKept
    <2>1. CASE ring' = ring
      BY <2>1 DEF RingKept
    <2>2. CASE ReadRing
      <3> DEFINE n == Deliverable
                 l == Len(ring)
      <3>1. ring' = SubSeq(ring, n + 1, l)
        BY <2>2 DEF ReadRing
      <3>2. ring \in Seq(Records) /\ n \in 0 .. l /\ l \in Nat
            /\ \A k \in 1 .. n : ring[k].done
        BY DeliverableIn, LenProperties DEF TypeInv
      <3>3. Len(ring') = l - n /\ \A k \in 1 .. l - n : ring'[k] = ring[k + n]
        BY <3>1, <3>2, SubSeqProperties
      <3> HIDE DEF n
      <3>4. ASSUME NEW k \in 1 .. l, ~ring[k].done
            PROVE  \E j \in 1 .. Len(ring') : ring'[j] = ring[k]
        <4>1. k - n \in 1 .. l - n /\ (k - n) + n = k
          BY <3>2, <3>4
        <4> QED BY <3>3, <4>1
      <3> QED BY <3>4 DEF RingKept
    <2>3. ring' = ring \/ ReadRing
      BY DEF Quiet, ReadNothing, ConsumeEnd, NoRecovery, Unpark, PendingDone,
             MarkBegin, Freeze, FreezeRefused, DrainEnd, Thaw, RecordPoint,
             RebuildBegin, RebuildEnd
    <2> QED BY <2>1, <2>2, <2>3
  <1>4. SameRecords /\ (BaseDone => ~stop')
    BY <1>1, <1>2, SameDevice DEF core, ReplicaInv, ThreadInv
  <1>5. FlightInv'
    BY <1>1, <1>3, <1>4, FlightKept, SameFacts DEF core, ReplicaInv
  <1> QED BY <1>1, <1>2, <1>4, <1>5, CarryOver DEF core

LEMMA ReplicaSig ==
    ASSUME Undisturbed, ReplicaInv, OnSig
    PROVE  ReplicaInv'
  <1> USE DEF device, files, mainLoc, copier
  <1>1. Pend' = Pend /\ Gap' = Gap
    BY PendKept DEF OnSig, Gap
  <1>2. SameRecords /\ RingKept /\ (BaseDone => ~stop')
    BY <1>1, SameDevice DEF OnSig, RingKept, Undisturbed, ReplicaInv
  <1>3. FlightInv'
    BY <1>2, FlightKept, SameFacts DEF OnSig, ReplicaInv
  <1> QED BY <1>2, <1>3, CarryOver DEF OnSig

LEMMA ReplicaApplies ==
    ASSUME TypeInv, KeepInv, ReplicaInv, Applies
    PROVE  ReplicaInv'
  <1> USE DEF device, files, mainLoc, copier, ghosts
  <1>1. UNCHANGED core /\ raced \subseteq raced' /\ (Gap => Gap')
    BY AppliesStep, PendApplies
  <1>2. UNCHANGED <<nw, copying, ring>>
    BY DEF Applies, Consume, ApplyPending, ApplyLate
  <1>3. \A b \in Blocks : /\ Newest(b)' = Newest(b) /\ (Told(b) => Told(b)')
                          /\ (Early(b) => Early(b)') /\ (Excused(b) => Excused(b)')
                          /\ (Coming(b) => Coming(b)') /\ (Failed(b) => Failed(b)')
    BY <1>1, SameComing DEF core, Newest, Told, Early, Excused, Failed
  <1>4. FlightInv'
    BY <1>1, <1>2, <1>3, FlightKept DEF core, RingKept, ReplicaInv
  <1>5. CASE Pend' = Pend /\ UNCHANGED <<replica, last, raced>>
    <2>1. SameRecords /\ (BaseDone => ~stop')
      BY <1>1, <1>2, <1>5, SameDevice DEF core, ReplicaInv, ThreadInv
    <2> QED BY <1>1, <1>2, <1>4, <1>5, <2>1, CarryOver DEF core
  <1>6. ASSUME NEW r \in Records, OneStored(r) PROVE ReplicaInv'
    <2> DEFINE c == r.blk
               v == r.val
    <2>1. c \in Blocks /\ v \in Nat /\ Pair(r) = <<c, v>>
      BY DEF Records, Pair
    <2>2. /\ <<c, v>> \in Pend /\ Pend' \subseteq Pend /\ ~Covers(copying, c)
          /\ \A p \in Pend : p # <<c, v>> => p \in Pend'
          /\ last' = [last EXCEPT ![c] = v] /\ replica' = [replica EXCEPT ![c] = v]
          /\ v <= last[c] => Excused(c)'
      BY <1>6, <2>1 DEF OneStored, Stored, Excused
    <2>3. /\ Failed(c) \/ v <= Newest(c)
          /\ Newest(c) \in Vals /\ Pend \subseteq Blocks \X Nat
          /\ last \in [Blocks -> Nat] /\ replica \in [Blocks -> Vals]
      BY <2>1, <2>2, NewestIn DEF ReplicaInv, NumInv, TypeInv
    <2> HIDE DEF c, v
    <2>4. /\ last'[c] = v /\ replica'[c] = v
          /\ \A b \in Blocks : b # c => last'[b] = last[b] /\ replica'[b] = replica[b]
      BY <2>1, <2>2, <2>3
    <2>5. ASSUME NEW b \in Blocks, Awaited(b), b # c \/ v # Newest(c) PROVE Awaited(b)'
      <3>1. <<b, Newest(b)>> # <<c, v>>
        BY <2>5
      <3> QED BY <1>3, <2>2, <2>5, <3>1 DEF Awaited
    <2>6. \/ Excused(c)' \/ v = Newest(c) \/ Awaited(c)' \/ Told(c)'
      <3>1. \/ Excused(c) \/ Awaited(c) \/ Told(c)
            \/ \A p \in Pend : p[1] = c => p[2] <= last[c]
        BY <2>1 DEF ReplicaInv, OrderInv
      <3>2. (\A p \in Pend : p[1] = c => p[2] <= last[c]) => v <= last[c]
        BY <2>2
      <3> QED BY <1>3, <2>1, <2>2, <2>5, <3>1, <3>2
    <2>7. NumInv'
      <3>1. \A b \in Blocks : disk'[b] <= Newest(b)' /\ Newest(b)' <= nw'
        BY <1>1, <1>2, <1>3 DEF core, ReplicaInv, NumInv
      <3>2. ASSUME NEW b \in Blocks, ~Failed(b)'
            PROVE  /\ replica'[b] <= Newest(b)'
                   /\ \A t \in Threads : tpc'[t] = "write" => buf'[t][b] <= Newest(b)'
                   /\ \A n \in Nat : <<b, n>> \in Pend' => n <= Newest(b)'
        <4>1. /\ ~Failed(b) /\ replica[b] <= Newest(b)
              /\ \A t \in Threads : tpc[t] = "write" => buf[t][b] <= Newest(b)
              /\ \A n \in Nat : <<b, n>> \in Pend => n <= Newest(b)
          BY <1>3, <3>2 DEF ReplicaInv, NumInv
        <4>2. replica'[b] <= Newest(b)
          BY <2>3, <2>4, <4>1
        <4> QED BY <1>1, <1>3, <2>2, <4>1, <4>2 DEF core
      <3>3. Pend' \subseteq Blocks \X Nat /\ last' \in [Blocks -> Nat]
        BY <2>1, <2>2, <2>3
      <3> QED BY <3>1, <3>2, <3>3 DEF NumInv
    <2>8. OrderInv'
      <3> SUFFICES ASSUME NEW b \in Blocks
                   PROVE  \/ Excused(b)' \/ Awaited(b)' \/ Told(b)'
                          \/ \A p \in Pend' : p[1] = b => p[2] <= last'[b]
        BY DEF OrderInv
      <3>1. CASE b # c
        <4>1. \/ Excused(b) \/ Awaited(b) \/ Told(b)
              \/ \A p \in Pend : p[1] = b => p[2] <= last[b]
          BY DEF ReplicaInv, OrderInv
        <4> QED BY <1>3, <2>2, <2>4, <2>5, <3>1, <4>1
      <3>2. CASE b = c /\ v = Newest(c)
        <4>1. CASE Failed(b)
          BY <1>3, <4>1 DEF Excused, Failed
        <4>2. CASE ~Failed(b)
          <5>1. ASSUME NEW p \in Pend', p[1] = b PROVE p[2] <= v
            <6>1. p[2] \in Nat /\ <<b, p[2]>> \in Pend
              BY <2>2, <2>3, <5>1
            <6> QED BY <3>2, <4>2, <6>1 DEF ReplicaInv, NumInv
          <5> QED BY <2>4, <3>2, <5>1
        <4> QED BY <4>1, <4>2
      <3> QED BY <2>6, <3>1, <3>2
    <2>9. CurrentInv'
      <3> SUFFICES ASSUME NEW b \in Blocks
                   PROVE  Excused(b)' \/ replica'[b] = Newest(b)' \/ Awaited(b)' \/ Coming(b)'
        BY DEF CurrentInv
      <3>1. CASE b # c
        <4>1. Excused(b) \/ replica[b] = Newest(b) \/ Awaited(b) \/ Coming(b)
          BY DEF ReplicaInv, CurrentInv
        <4> QED BY <1>3, <2>4, <2>5, <3>1, <4>1
      <3>2. CASE b = c
        BY <1>3, <2>4, <2>6, <3>2 DEF Coming
      <3> QED BY <3>1, <3>2
    <2>10. BufInv'
      <3> SUFFICES ASSUME NEW t \in Threads
                   PROVE  /\ tpc[t] \in {"devread", "write", "unflag"} =>
                               copying = First(ranges[t])
                          /\ tpc[t] = "write" =>
                               \A b \in Blocks : Covers(copying, b) =>
                                 \/ Excused(b)' \/ buf[t][b] = Newest(b)'
                                 \/ Awaited(b)' \/ Told(b)'
        BY <1>1, <1>2 DEF BufInv, core
      <3>1. tpc[t] \in {"devread", "write", "unflag"} => copying = First(ranges[t])
        BY DEF ReplicaInv, BufInv
      <3>2. ASSUME tpc[t] = "write", NEW b \in Blocks, Covers(copying, b)
            PROVE  Excused(b)' \/ buf[t][b] = Newest(b)' \/ Awaited(b)' \/ Told(b)'
        <4>1. Excused(b) \/ buf[t][b] = Newest(b) \/ Awaited(b) \/ Told(b)
          BY <3>2 DEF ReplicaInv, BufInv
        <4>2. b # c
          BY <2>2, <3>2
        <4> QED BY <1>3, <2>5, <4>1, <4>2
      <3> QED BY <3>1, <3>2
    <2>11. ThreadInv'
      BY <1>1 DEF core, ReplicaInv, ThreadInv
    <2> QED BY <1>4, <2>7, <2>8, <2>9, <2>10, <2>11 DEF ReplicaInv
  <1> QED BY <1>5, <1>6, PendApplies

\* A step of the main thread that starts, ends or prepares the copy threads, and
\* leaves none of them in the middle of a chunk.
LEMMA BetweenChunks ==
    ASSUME ReplicaInv, SameRecords, FlightInv', replica' = replica,
           \A t \in Threads : tpc'[t] \in {"off", "start", "flag", "late", "finish"},
           \A b \in Blocks : Coming(b) => Coming(b)', ThreadInv'
    PROVE  ReplicaInv'
  <1>1. NumInv'
    BY SameNum DEF ReplicaInv, NumInv
  <1>2. BufInv'
    BY DEF BufInv
  <1> QED BY <1>1, <1>2, SameOrder, SameCurrent DEF ReplicaInv

LEMMA ReplicaStart ==
    ASSUME TypeInv, RecoveryInv, ReplicaInv, Start
    PROVE  ReplicaInv'
  <1> USE DEF device, files, ghosts, extra, marking
  <1>1. /\ mpc = "init" /\ mpc' = "read" /\ taken' = taken /\ taken = {}
        /\ tpc["rec"] = "off" /\ tpc["base"] = "off" /\ ranges["rec"] = {}
    BY DEF Start, RecoveryInv, Threads, ReplicaInv, ThreadInv
  <1>2. Pend' = Pend /\ Gap' = Gap
    BY <1>1, PendKept DEF Start, Gap
  <1>3. SameRecords /\ RingKept
    BY <1>2, SameDevice DEF Start, RingKept, ReplicaInv
  <1>4. FlightInv'
    BY <1>3, FlightKept, SameFacts DEF Start, ReplicaInv
  <1>5. /\ \A t \in Threads : tpc'[t] \in {"off", "start", "flag"}
        /\ tpc'["rec"] = "off" => ranges'["rec"] = {}
        /\ baseEnd => tpc'["base"] = "off"
        /\ ~baseEnd => tpc'["base"] = "start" /\ ranges'["base"] = Pieces(1, NBlocks)
        /\ UNCHANGED <<replica, stop, baseEnd>>
    BY DEF Start, Threads
  <1>6. ThreadInv'
    BY <1>5 DEF ReplicaInv, ThreadInv
  <1>7. ASSUME NEW b \in Blocks, Coming(b) PROVE Coming(b)'
    <2>1. b \notin CoveredBy(taken) /\ b \notin CoveredBy(Left("rec"))
      BY <1>1, CoveredNone DEF Left
    <2>2. CASE Told(b)
      BY <1>3, <2>2, SameFacts DEF Coming
    <2>3. CASE ~baseEnd
      <3>1. Left("base")' = Pieces(1, NBlocks)
        BY <1>5, <2>3 DEF Left
      <3>2. b \in CoveredBy(Left("base")')
        BY <3>1, PiecesCover DEF Blocks
      <3> QED BY <1>5, <2>3, <3>2 DEF Coming
    <2> QED BY <1>7, <2>1, <2>2, <2>3 DEF Coming
  <1> QED BY <1>3, <1>4, <1>5, <1>6, <1>7, BetweenChunks

LEMMA ReplicaReadBitmap ==
    ASSUME TypeInv, RecoveryInv, OneCopier, KeepInv, ReplicaInv, ReadBitmap
    PROVE  ReplicaInv'
  <1> USE DEF files, copier, marking
  <1>0. mpc = "recover" /\ mpc' = "persist" /\ queue > 0 /\ tpc["rec"] = "off"
    BY DEF ReadBitmap, MayRecover
  <1>1. /\ mpc = "recover" /\ mpc' = "persist" /\ taken = {} /\ tpc["rec"] = "off"
        /\ tpc["base"] = "off" /\ baseEnd /\ ranges["rec"] = {}
    BY <1>0 DEF RecoveryInv, OneCopier, ReplicaInv, ThreadInv
  <1>2. /\ batch = << >> /\ parked = << >> /\ deferred = << >>
        /\ late["base"] = << >> /\ late["rec"] = << >>
    BY <1>1 DEF KeepInv, Threads
  <1>3. Pend = Unapplied
    <2>1. Parking = Pairs(pendingBin)
      BY <1>1, PairsFromAll DEF Parking
    <2>2. UNION {Pairs(late[t]) : t \in Threads} = {}
      BY <1>2, PairsEmpty DEF Threads
    <2> QED BY <1>2, <2>1, <2>2, PairsEmpty DEF Pend, Unapplied
  <1>4. Pend' = Pend
    BY <1>1, PendKept DEF ReadBitmap
  <1>5. /\ UNCHANGED <<disk, inflight, nw, last, replica, tpc, ranges, buf, ring,
                       baseEnd, stop>>
        /\ raced \subseteq raced' /\ bitmap' = {} /\ taken' = Extents(bitmap)
    BY DEF ReadBitmap
  <1>6. CoveredBy(taken') = bitmap
    BY <1>5, ExtentsCover DEF TypeInv
  <1>7. \A b \in Blocks :
          /\ Newest(b)' = Newest(b) /\ (Awaited(b) => Awaited(b)')
          /\ Excused(b) => Excused(b)'
          /\ Failed(b) => Failed(b)'
          /\ Early(b) => Early(b)'
    BY <1>4, <1>5 DEF Newest, Awaited, Excused, Failed, Early
  <1>8. ASSUME NEW b \in Blocks, b \in bitmap, inflight[b] # NoWrite, ~inflight[b].logged
        PROVE  Early(b)'
    BY <1>8 DEF ReadBitmap, Early
  <1>9. ASSUME NEW b \in Blocks, b \in bitmap
        PROVE  Excused(b)' \/ Awaited(b)' \/ \A p \in Pend' : p[1] # b
    <2>1. CASE Outrun(b)
      BY <1>9, <2>1 DEF ReadBitmap, Excused
    <2>2. CASE ~Outrun(b)
      BY <1>3, <1>4, <1>7, <2>2 DEF Outrun, Awaited
    <2> QED BY <2>1, <2>2
  <1>10. NumInv'
    BY <1>4, <1>5, <1>7 DEF ReplicaInv, NumInv
  <1>11. FlightInv'
    <2> SUFFICES ASSUME NEW b \in Blocks, inflight[b] # NoWrite, ~inflight[b].logged
                 PROVE  Early(b)'
      BY <1>5 DEF ReplicaInv, FlightInv
    <2>1. Told(b) \/ Early(b)
      BY DEF ReplicaInv, FlightInv
    <2> QED BY <1>7, <1>8, <2>1 DEF Told
  <1>12. OrderInv'
    <2> SUFFICES ASSUME NEW b \in Blocks
                 PROVE  \/ Excused(b)' \/ Awaited(b)' \/ Told(b)'
                        \/ \A p \in Pend' : p[1] = b => p[2] <= last'[b]
      BY DEF OrderInv
    <2>1. \/ Excused(b) \/ Awaited(b) \/ b \in bitmap
          \/ \A p \in Pend : p[1] = b => p[2] <= last[b]
      BY DEF ReplicaInv, OrderInv, Told
    <2> QED BY <1>4, <1>5, <1>7, <1>9, <2>1
  <1>13. CurrentInv'
    <2> SUFFICES ASSUME NEW b \in Blocks
                 PROVE  Excused(b)' \/ replica'[b] = Newest(b)' \/ Awaited(b)' \/ Coming(b)'
      BY DEF CurrentInv
    <2>1. Excused(b) \/ replica[b] = Newest(b) \/ Awaited(b) \/ Coming(b)
      BY DEF ReplicaInv, CurrentInv
    <2>2. Coming(b) => b \in CoveredBy(taken')
      <3>1. b \notin CoveredBy(taken) /\ b \notin CoveredBy(Left("rec"))
        BY <1>1, CoveredNone DEF Left
      <3> QED BY <1>1, <1>6, <3>1 DEF Coming, Told
    <2> QED BY <1>5, <1>7, <2>1, <2>2 DEF Coming
  <1>14. BufInv' /\ ThreadInv'
    BY <1>1, <1>5 DEF BufInv, Threads, ReplicaInv, ThreadInv
  <1> QED BY <1>10, <1>11, <1>12, <1>13, <1>14 DEF ReplicaInv

LEMMA ReplicaStartRecovery ==
    ASSUME TypeInv, OneCopier, KeepInv, ReplicaInv, StartRecovery
    PROVE  ReplicaInv'
  <1> USE DEF device, extra, marking
  <1>1. /\ mpc = "persist" /\ mpc' = "unpark" /\ tpc["rec"] = "off"
        /\ tpc["base"] = "off" /\ baseEnd /\ ranges["rec"] = {}
    BY DEF StartRecovery, OneCopier, KeepInv, ReplicaInv, ThreadInv
  <1>2. Pend' = Pend /\ Gap' = Gap
    BY <1>1, PendKept DEF StartRecovery, Gap
  <1>3. SameRecords /\ RingKept
    BY <1>2, SameDevice DEF StartRecovery, RingKept, ReplicaInv
  <1>4. FlightInv'
    BY <1>3, FlightKept, SameFacts DEF StartRecovery, ReplicaInv
  <1>5. /\ tpc'["rec"] = "flag" /\ tpc'["base"] = "off" /\ ranges'["rec"] = taken
        /\ UNCHANGED <<replica, baseEnd, stop>>
    BY <1>1 DEF StartRecovery, TypeInv, Threads
  <1>6. ThreadInv'
    BY <1>5 DEF ReplicaInv, ThreadInv
  <1>7. ASSUME NEW b \in Blocks, Coming(b) PROVE Coming(b)'
    <2>1. b \notin CoveredBy(Left("rec"))
      BY <1>1, CoveredNone DEF Left
    <2>2. Left("rec")' = taken
      BY <1>5 DEF Left
    <2> QED BY <1>1, <1>3, <1>7, <2>1, <2>2, SameFacts DEF Coming
  <1> QED BY <1>3, <1>4, <1>5, <1>6, <1>7, BetweenChunks DEF Threads

LEMMA ReplicaGone ==
    ASSUME Undisturbed, TypeInv, RecoveryInv, OneCopier, KeepInv, ReplicaInv, Gone
    PROVE  ReplicaInv'
  <1> USE DEF device, files
  <1>1. Pend' = Pend /\ ~Gap /\ Exit /\ ProcessGone
    BY PendGone, GoneStep DEF ReplicaInv
  <1>2. mpc = "read" /\ taken = {} /\ tpc["rec"] = "off" /\ ranges["rec"] = {}
    BY <1>1 DEF Exit, RecoveryInv, Threads, ReplicaInv, ThreadInv
  <1>3. SameRecords /\ RingKept
    BY <1>1, SameDevice DEF ProcessGone, RingKept, ReplicaInv
  <1>4. FlightInv'
    BY <1>1, <1>3, FlightKept, SameFacts DEF ProcessGone, ReplicaInv
  <1>5. /\ tpc'["rec"] = "off" /\ tpc'["base"] = "off" /\ ranges'["rec"] = {}
        /\ stop' = FALSE /\ UNCHANGED <<replica, baseEnd>>
    BY <1>1 DEF ProcessGone, Threads
  <1>6. ThreadInv'
    BY <1>5 DEF ThreadInv
  <1>7. ASSUME NEW b \in Blocks, Coming(b) PROVE Coming(b)'
    <2>1. b \notin CoveredBy(taken) /\ b \notin CoveredBy(Left("rec")) /\ ~Told(b)
      BY <1>1, <1>2, CoveredNone DEF Left, Told
    <2> QED BY <1>5, <1>7, <2>1 DEF Coming
  <1> QED BY <1>3, <1>4, <1>5, <1>6, <1>7, BetweenChunks DEF Threads

\* A write joins the records on their way, or the gap will tell of it.
LEMMA PendWrite ==
    ASSUME TypeInv, NEW b \in Blocks, Write(b)
    PROVE  /\ Pend \subseteq Pend' /\ Pend' \subseteq Pend \cup {<<b, nw + 1>>}
           /\ Gap => Gap'
           /\ inflight'[b].logged =>
                 /\ <<b, nw + 1>> \in Pend'
                 /\ Len(ring') \in 1 .. Len(ring')
                 /\ ring'[Len(ring')].blk = b /\ ~ring'[Len(ring')].done
                 /\ ring'[Len(ring')].val = nw + 1
           /\ ~inflight'[b].logged => Gap'
           /\ RingKept
  <1> USE DEF files, mainLoc, copier
  <1>1. Parking' = Parking
    BY DEF Parking, Write
  <1>2. /\ UNCHANGED <<batch, parked, deferred, late, queue>>
        /\ inflight'[b].logged <=> Len(ring) < RingCap
    BY DEF Write, TypeInv
  <1>3. CASE Len(ring) < RingCap
    <2> DEFINE r == [blk |-> b, val |-> nw + 1, gap |-> gapPending, done |-> FALSE]
    <2>1. ring' = Append(ring, r) /\ ring \in Seq(Records)
      BY <1>3 DEF Write, TypeInv
    <2>2. r \in Records /\ Pair(r) = <<b, nw + 1>>
      BY DEF Write, TypeInv, Records, Pair
    <2>3. Pairs(ring') = Pairs(ring) \cup {<<b, nw + 1>>}
      BY <2>1, <2>2, PairsAppend
    <2>4. /\ Len(ring) \in Nat /\ Len(ring') = Len(ring) + 1 /\ ring'[Len(ring')] = r
          /\ \A k \in 1 .. Len(ring) : ring'[k] = ring[k]
      BY <2>1, <2>2, AppendProperties, LenProperties
    <2>5. /\ ring'[Len(ring')].blk = b /\ ~ring'[Len(ring')].done
          /\ ring'[Len(ring')].val = nw + 1 /\ ring'[Len(ring')].gap = gapPending
      BY <2>4
    <2> HIDE DEF r
    <2>6. Len(ring') \in 1 .. Len(ring') /\ \A k \in 1 .. Len(ring) : k \in 1 .. Len(ring')
      BY <2>4
    <2>7. RingKept /\ (HasGap(ring) => HasGap(ring')) /\ (gapPending => HasGap(ring'))
      BY <2>4, <2>5, <2>6 DEF RingKept, HasGap
    <2>8. Gap => Gap'
      BY <1>2, <2>7 DEF Gap
    <2> QED BY <1>1, <1>2, <1>3, <2>3, <2>5, <2>6, <2>7, <2>8 DEF Pend
  <1>4. CASE ~(Len(ring) < RingCap)
    <2>1. ring' = ring /\ gapPending' = TRUE
      BY <1>4 DEF Write
    <2> QED BY <1>1, <1>2, <1>4, <2>1 DEF Pend, Gap, RingKept
  <1> QED BY <1>3, <1>4

LEMMA ReplicaWrite ==
    ASSUME TypeInv, ReplicaInv, NEW b \in Blocks, Write(b)
    PROVE  ReplicaInv'
  <1> USE DEF files, mainLoc, copier, marking
  <1> DEFINE v == nw + 1
  <1>1. /\ inflight[b] = NoWrite /\ nw \in Nat /\ nw' = v /\ bitmap' = bitmap \cup {b}
        /\ inflight'[b].val = v /\ \A c \in Blocks : c # b => inflight'[c] = inflight[c]
        /\ UNCHANGED <<disk, replica, last, raced, tpc, ranges, buf, copying, baseEnd,
                       taken, stop>>
    BY DEF Write, TypeInv
  <1>2. Newest(b)' = v /\ \A c \in Blocks : c # b => Newest(c)' = Newest(c)
    <2>1. inflight'[b] # NoWrite
      BY <1>1 DEF NoWrite
    <2> QED BY <1>1, <2>1 DEF Newest
  <1>3. \A c \in Blocks : Newest(c) <= nw /\ Newest(c) \in Int /\ Newest(c)' \in Int
    BY <1>1, <1>2, NewestIn DEF ReplicaInv, NumInv, Vals
  <1>4. Awaited(b)' \/ Told(b)'
    <2>1. CASE inflight'[b].logged
      BY <1>2, <2>1, PendWrite DEF Awaited
    <2>2. CASE ~inflight'[b].logged
      BY <1>1, <2>2, PendWrite DEF Told
    <2> QED BY <2>1, <2>2
  <1>5. \A c \in Blocks : /\ Told(c) => Told(c)'
                          /\ Early(c) => Early(c)'
                          /\ Excused(c) => Excused(c)'
                          /\ Failed(c) => Failed(c)'
    BY <1>1, PendWrite DEF Told, Early, Excused, Failed
  <1>6. \A c \in Blocks : c # b => (Awaited(c) => Awaited(c)')
    BY <1>2, PendWrite DEF Awaited
  <1>7. NumInv'
    <2>1. \A c \in Blocks : Newest(c) <= Newest(c)' /\ Newest(c)' <= nw'
      BY <1>1, <1>2, <1>3
    <2>2. \A c \in Blocks : /\ disk[c] \in Int /\ replica[c] \in Int
                            /\ \A t \in Threads : tpc[t] = "write" => buf[t][c] \in Int
      BY DEF TypeInv, Vals
    <2>3. \A c \in Blocks :
            /\ disk[c] <= Newest(c)'
            /\ ~Failed(c) =>
                 /\ replica[c] <= Newest(c)'
                 /\ \A t \in Threads : tpc[t] = "write" => buf[t][c] <= Newest(c)'
      BY <1>3, <2>1, <2>2 DEF ReplicaInv, NumInv
    <2>4. Pend' \subseteq Blocks \X Nat
      <3>1. <<b, v>> \in Blocks \X Nat
        BY <1>1
      <3>2. Pend \subseteq Blocks \X Nat /\ Pend' \subseteq Pend \cup {<<b, v>>}
        BY PendWrite DEF ReplicaInv, NumInv
      <3> QED BY <3>1, <3>2
    <2>5. ASSUME NEW c \in Blocks, ~Failed(c), NEW n \in Nat, <<c, n>> \in Pend'
          PROVE  n <= Newest(c)'
      <3>1. CASE <<c, n>> = <<b, v>>
        BY <1>1, <1>2, <3>1
      <3>2. CASE <<c, n>> \in Pend
        <4>1. n <= Newest(c)
          BY <2>5, <3>2 DEF ReplicaInv, NumInv
        <4> QED BY <1>3, <2>1, <4>1
      <3> QED BY <2>5, <3>1, <3>2, PendWrite
    <2> QED BY <1>1, <1>5, <2>1, <2>3, <2>4, <2>5 DEF ReplicaInv, NumInv
  <1>8. FlightInv'
    <2> SUFFICES ASSUME NEW c \in Blocks, inflight'[c] # NoWrite
                 PROVE  /\ inflight'[c].val # 0
                        /\ \A d \in Blocks : d # c => inflight'[d].val # inflight'[c].val
                        /\ inflight'[c].logged =>
                             \E k \in 1 .. Len(ring') : /\ ring'[k].blk = c
                                                        /\ ~ring'[k].done
                                                        /\ ring'[k].val = inflight'[c].val
                        /\ ~inflight'[c].logged => Told(c)' \/ Early(c)'
      BY DEF FlightInv
    <2>1. \A d \in Blocks : d # b => inflight'[d].val # v
      <3> SUFFICES ASSUME NEW d \in Blocks, d # b PROVE inflight[d].val # v
        BY <1>1
      <3>1. CASE inflight[d] = NoWrite
        BY <1>1, <3>1 DEF NoWrite
      <3>2. CASE inflight[d] # NoWrite
        BY <1>1, <1>3, <3>2 DEF Newest
      <3> QED BY <3>1, <3>2
    <2>2. CASE c = b
      <3>1. inflight'[b].logged =>
              \E k \in 1 .. Len(ring') : /\ ring'[k].blk = b /\ ~ring'[k].done
                                         /\ ring'[k].val = v
        BY PendWrite
      <3>2. ~inflight'[b].logged => Told(b)'
        BY <1>1, PendWrite DEF Told
      <3> QED BY <1>1, <2>1, <2>2, <3>1, <3>2
    <2>3. CASE c # b
      <3>1. inflight'[c] = inflight[c] /\ inflight[c] # NoWrite
        BY <1>1, <2>3
      <3>2. inflight[c].val # 0 /\ \A d \in Blocks : d # c => inflight'[d].val # inflight[c].val
        BY <1>1, <2>1, <2>3, <3>1 DEF ReplicaInv, FlightInv
      <3>3. inflight[c].logged =>
              \E k \in 1 .. Len(ring') : /\ ring'[k].blk = c /\ ~ring'[k].done
                                         /\ ring'[k].val = inflight[c].val
        <4> SUFFICES ASSUME inflight[c].logged
                     PROVE  \E k \in 1 .. Len(ring') : /\ ring'[k].blk = c /\ ~ring'[k].done
                                                       /\ ring'[k].val = inflight[c].val
          OBVIOUS
        <4>1. PICK k \in 1 .. Len(ring) : /\ ring[k].blk = c /\ ~ring[k].done
                                          /\ ring[k].val = inflight[c].val
          BY <3>1 DEF ReplicaInv, FlightInv
        <4>2. PICK j \in 1 .. Len(ring') : ring'[j] = ring[k]
          BY <4>1, PendWrite DEF RingKept
        <4> QED BY <4>1, <4>2
      <3>4. ~inflight[c].logged => Told(c)' \/ Early(c)'
        BY <1>5, <3>1 DEF ReplicaInv, FlightInv
      <3> QED BY <3>1, <3>2, <3>3, <3>4
    <2> QED BY <2>2, <2>3
  <1>9. OrderInv'
    <2> SUFFICES ASSUME NEW c \in Blocks, c # b
                 PROVE  \/ Excused(c)' \/ Awaited(c)' \/ Told(c)'
                        \/ \A p \in Pend' : p[1] = c => p[2] <= last[c]
      BY <1>1, <1>4 DEF OrderInv
    <2>1. \/ Excused(c) \/ Awaited(c) \/ Told(c)
          \/ \A p \in Pend : p[1] = c => p[2] <= last[c]
      BY DEF ReplicaInv, OrderInv
    <2>2. ASSUME NEW p \in Pend', p[1] = c PROVE p \in Pend
      <3>1. p \in Pend \/ p = <<b, v>>
        BY PendWrite
      <3>2. p # <<b, v>>
        BY <2>2
      <3> QED BY <3>1, <3>2
    <2> QED BY <1>5, <1>6, <2>1, <2>2
  <1>10. CurrentInv'
    <2> SUFFICES ASSUME NEW c \in Blocks, c # b
                 PROVE  Excused(c)' \/ replica[c] = Newest(c)' \/ Awaited(c)' \/ Coming(c)'
      BY <1>1, <1>4 DEF CurrentInv, Coming
    <2>1. Excused(c) \/ replica[c] = Newest(c) \/ Awaited(c) \/ Coming(c)
      BY DEF ReplicaInv, CurrentInv
    <2>2. Coming(c) => Coming(c)'
      BY <1>1, <1>5, SameComing
    <2> QED BY <1>2, <1>5, <1>6, <2>1, <2>2
  <1>11. BufInv'
    <2> SUFFICES ASSUME NEW t \in Threads
                 PROVE  /\ tpc[t] \in {"devread", "write", "unflag"} =>
                             copying = First(ranges[t])
                        /\ tpc[t] = "write" =>
                             \A c \in Blocks : Covers(copying, c) =>
                               \/ Excused(c)' \/ buf[t][c] = Newest(c)'
                               \/ Awaited(c)' \/ Told(c)'
      BY <1>1 DEF BufInv
    <2>1. tpc[t] \in {"devread", "write", "unflag"} => copying = First(ranges[t])
      BY DEF ReplicaInv, BufInv
    <2>2. ASSUME tpc[t] = "write", NEW c \in Blocks, Covers(copying, c), c # b
          PROVE  Excused(c)' \/ buf[t][c] = Newest(c)' \/ Awaited(c)' \/ Told(c)'
      <3>1. Excused(c) \/ buf[t][c] = Newest(c) \/ Awaited(c) \/ Told(c)
        BY <2>2 DEF ReplicaInv, BufInv
      <3> QED BY <1>2, <1>5, <1>6, <2>2, <3>1
    <2> QED BY <1>4, <2>1, <2>2
  <1>12. ThreadInv'
    BY <1>1 DEF ReplicaInv, ThreadInv
  <1> QED BY <1>7, <1>8, <1>9, <1>10, <1>11, <1>12 DEF ReplicaInv

\* The end of a write, on the disk or not: a block is excused once a write of it
\* has failed.
LEMMA ReplicaEnded ==
    ASSUME TypeInv, ReplicaInv, NEW b \in Blocks, Ended(b)
    PROVE  ReplicaInv'
  <1> USE DEF files, mainLoc, copier, extra, marking
  <1>0. /\ EndIo(b) /\ raced \subseteq raced' /\ UNCHANGED last
        /\ disk' = disk \/ disk' = [disk EXCEPT ![b] = inflight[b].val]
    BY EndedStep
  <1>1. /\ inflight[b] # NoWrite /\ inflight'[b] = NoWrite
        /\ disk'[b] \in {disk[b], inflight[b].val}
        /\ \A c \in Blocks : c # b => inflight'[c] = inflight[c] /\ disk'[c] = disk[c]
        /\ UNCHANGED <<bitmap, nw, last, replica, tpc, ranges, buf, copying, baseEnd,
                       taken, stop>>
    BY <1>0 DEF EndIo, TypeInv
  <1>2. /\ Len(ring') = Len(ring) /\ Len(ring) \in Nat
        /\ \A k \in 1 .. Len(ring) :
             /\ ring'[k].blk = ring[k].blk /\ ring'[k].val = ring[k].val
             /\ ring'[k].gap = ring[k].gap
             /\ ring'[k].done => ring[k].done \/ ring[k].val = inflight[b].val
    <2>1. Len(ring) \in Nat /\ \A k \in 1 .. Len(ring) : ring[k] \in Records
      BY ElementOfSeq, LenProperties DEF TypeInv
    <2>2. ring' = [k \in 1 .. Len(ring) |->
                     [ring[k] EXCEPT !.done = @ \/ ring[k].val = inflight[b].val]]
      BY <1>0 DEF EndIo
    <2>3. ring' \in Seq(Records)
      BY TypeEnded DEF TypeInv
    <2>4. Len(ring') = Len(ring)
      BY <2>1, <2>2, <2>3, LenProperties
    <2>5. ASSUME NEW k \in 1 .. Len(ring)
          PROVE  /\ ring'[k].blk = ring[k].blk /\ ring'[k].val = ring[k].val
                 /\ ring'[k].gap = ring[k].gap
                 /\ ring'[k].done => ring[k].done \/ ring[k].val = inflight[b].val
      BY <2>1, <2>2 DEF Records
    <2> QED BY <2>1, <2>4, <2>5
  <1>3. Pairs(ring') = Pairs(ring) /\ HasGap(ring') = HasGap(ring)
    BY <1>2 DEF Pairs, HasGap
  <1>4. Pend' = Pend /\ Gap' = Gap
    <2>1. Parking' = Parking /\ UNCHANGED <<batch, parked, deferred, late, queue, gapPending>>
      BY <1>0 DEF EndIo, Parking
    <2> QED BY <1>3, <2>1 DEF Pend, Gap
  <1>5. ASSUME NEW c \in Blocks
        PROVE  /\ Told(c)' = Told(c) /\ (Early(c) => Early(c)')
               /\ (Excused(c) => Excused(c)') /\ (Failed(c) => Failed(c)')
               /\ Failed(c)' \/ Newest(c)' = Newest(c)
               /\ Failed(c)' => Excused(c)'
    <2>1. CASE Complete(b)
      BY <1>0, <1>1, <1>4, <2>1 DEF Complete, TypeInv, Newest, Told, Early, Excused, Failed
    <2>2. CASE CompleteError(b)
      BY <1>0, <1>1, <1>4, <2>2 DEF CompleteError, Newest, Told, Early, Excused, Failed
    <2> QED BY <2>1, <2>2 DEF Ended
  <1>6. \A c \in Blocks : Awaited(c) => Excused(c)' \/ Awaited(c)'
    BY <1>4, <1>5 DEF Awaited
  <1>7. NumInv'
    <2>1. ASSUME NEW c \in Blocks PROVE disk'[c] <= Newest(c)' /\ Newest(c)' <= nw'
      <3>1. CASE c = b
        <4>1. Newest(b)' = disk'[b]
          BY <1>1 DEF Newest
        <4>2. disk[b] \in Int /\ inflight[b].val \in Int /\ nw \in Int
          BY DEF TypeInv, Vals
        <4>3. disk[b] <= inflight[b].val /\ inflight[b].val <= nw
          BY <1>1 DEF ReplicaInv, NumInv, Newest
        <4> QED BY <1>1, <3>1, <4>1, <4>2, <4>3
      <3>2. CASE c # b
        BY <1>1, <3>2 DEF Newest, ReplicaInv, NumInv
      <3> QED BY <3>1, <3>2
    <2>2. ASSUME NEW c \in Blocks, ~Failed(c)'
          PROVE  /\ replica[c] <= Newest(c)'
                 /\ \A t \in Threads : tpc[t] = "write" => buf[t][c] <= Newest(c)'
                 /\ \A n \in Nat : <<c, n>> \in Pend => n <= Newest(c)'
      BY <1>5, <2>2 DEF ReplicaInv, NumInv
    <2> QED BY <1>1, <1>4, <2>1, <2>2 DEF ReplicaInv, NumInv
  <1>8. FlightInv'
    <2> SUFFICES ASSUME NEW c \in Blocks, c # b, inflight[c] # NoWrite
                 PROVE  /\ inflight[c].val # 0
                        /\ \A d \in Blocks : d # c => inflight'[d].val # inflight[c].val
                        /\ inflight[c].logged =>
                             \E k \in 1 .. Len(ring') : /\ ring'[k].blk = c
                                                        /\ ~ring'[k].done
                                                        /\ ring'[k].val = inflight[c].val
                        /\ ~inflight[c].logged => Told(c)' \/ Early(c)'
      BY <1>1 DEF FlightInv
    <2>1. /\ inflight[c].val # 0 /\ inflight[b].val # inflight[c].val
          /\ \A d \in Blocks : d # c => inflight'[d].val # inflight[c].val
      BY <1>1 DEF ReplicaInv, FlightInv, NoWrite
    <2>2. ASSUME inflight[c].logged
          PROVE  \E k \in 1 .. Len(ring') : /\ ring'[k].blk = c /\ ~ring'[k].done
                                            /\ ring'[k].val = inflight[c].val
      <3>1. PICK k \in 1 .. Len(ring) : /\ ring[k].blk = c /\ ~ring[k].done
                                        /\ ring[k].val = inflight[c].val
        BY <2>2 DEF ReplicaInv, FlightInv
      <3> QED BY <1>2, <2>1, <3>1
    <2>3. ~inflight[c].logged => Told(c)' \/ Early(c)'
      BY <1>5 DEF ReplicaInv, FlightInv
    <2> QED BY <2>1, <2>2, <2>3
  <1>9. OrderInv'
    <2> SUFFICES ASSUME NEW c \in Blocks
                 PROVE  \/ Excused(c)' \/ Awaited(c)' \/ Told(c)'
                        \/ \A p \in Pend : p[1] = c => p[2] <= last[c]
      BY <1>0, <1>4 DEF OrderInv
    <2>1. \/ Excused(c) \/ Awaited(c) \/ Told(c)
          \/ \A p \in Pend : p[1] = c => p[2] <= last[c]
      BY DEF ReplicaInv, OrderInv
    <2> QED BY <1>5, <1>6, <2>1
  <1>10. CurrentInv'
    <2> SUFFICES ASSUME NEW c \in Blocks
                 PROVE  Excused(c)' \/ replica[c] = Newest(c)' \/ Awaited(c)' \/ Coming(c)'
      BY <1>1 DEF CurrentInv
    <2>1. Excused(c) \/ replica[c] = Newest(c) \/ Awaited(c) \/ Coming(c)
      BY DEF ReplicaInv, CurrentInv
    <2>2. Coming(c) => Coming(c)'
      BY <1>1, <1>5, SameComing
    <2> QED BY <1>5, <1>6, <2>1, <2>2
  <1>11. BufInv'
    <2> SUFFICES ASSUME NEW t \in Threads
                 PROVE  /\ tpc[t] \in {"devread", "write", "unflag"} =>
                             copying = First(ranges[t])
                        /\ tpc[t] = "write" =>
                             \A c \in Blocks : Covers(copying, c) =>
                               \/ Excused(c)' \/ buf[t][c] = Newest(c)'
                               \/ Awaited(c)' \/ Told(c)'
      BY <1>1 DEF BufInv
    <2>1. tpc[t] \in {"devread", "write", "unflag"} => copying = First(ranges[t])
      BY DEF ReplicaInv, BufInv
    <2>2. ASSUME tpc[t] = "write", NEW c \in Blocks, Covers(copying, c)
          PROVE  Excused(c)' \/ buf[t][c] = Newest(c)' \/ Awaited(c)' \/ Told(c)'
      <3>1. Excused(c) \/ buf[t][c] = Newest(c) \/ Awaited(c) \/ Told(c)
        BY <2>2 DEF ReplicaInv, BufInv
      <3> QED BY <1>5, <1>6, <3>1
    <2> QED BY <2>1, <2>2
  <1>12. ThreadInv'
    BY <1>1 DEF ReplicaInv, ThreadInv
  <1> QED BY <1>7, <1>8, <1>9, <1>10, <1>11, <1>12 DEF ReplicaInv

\* A copy thread's step: the other one is off, and the main thread stands still.
LEMMA CopiesSame ==
    ASSUME Calm, TypeInv, OneCopier, KeepInv, ReplicaInv, NEW t \in Threads, Copies(t)
    PROVE  /\ SameRecords /\ FlightInv'
           /\ UNCHANGED <<disk, inflight, taken, stop>>
           /\ \A u \in Threads : u # t => tpc[u] = "off" /\ tpc'[u] = "off"
  <1> USE DEF device, files, mainLoc, extra, marking, ghosts
  <1>1. Pend' = Pend /\ Gap' = Gap /\ \A u \in Threads : u # t => tpc[u] = "off"
    BY PendCopies
  <1>2. ~CopyFail(t)
    BY DEF CopyFail, Calm
  <1>3. UNCHANGED <<disk, inflight, bitmap, ring, nw, last, raced, taken, stop>>
    BY <1>2 DEF Copies, FlagChunk, ReadDevice, WriteReplica, UnflagChunk, ChunkDone,
                Interrupted, RecoverDone, BaseBegin, BaseDoneNow, BaseExit
  <1>4. SameRecords
    BY <1>1, <1>3, SameDevice DEF ReplicaInv
  <1>5. FlightInv'
    BY <1>3, <1>4, FlightKept, SameFacts DEF ReplicaInv, RingKept
  <1> QED BY <1>1, <1>3, <1>4, <1>5, CopiesStep

\* Coming, where neither thread's chunks change.
LEMMA ComingKept ==
    ASSUME SameRecords, NEW b \in Blocks, UNCHANGED <<taken, baseEnd>>,
           Left("rec")' = Left("rec"), Left("base")' = Left("base"),
           tpc["base"] = "off" => tpc'["base"] = "off"
    PROVE  Coming(b) => Coming(b)'
  BY SameFacts DEF Coming

\* The ends of a chunk and of a thread.
LEMMA ReplicaChunkEnds ==
    ASSUME Calm, TypeInv, OneCopier, KeepInv, ReplicaInv, NEW t \in Threads, Copies(t),
           \/ UnflagChunk(t) \/ ChunkDone(t) \/ Interrupted(t)
           \/ t = "rec" /\ RecoverDone
           \/ t = "base" /\ (BaseBegin \/ BaseDoneNow \/ BaseExit)
    PROVE  ReplicaInv'
  <1> USE DEF files, Goto
  <1>0. /\ SameRecords /\ FlightInv' /\ UNCHANGED <<taken, stop>>
        /\ \A u \in Threads : u # t => tpc[u] = "off" /\ tpc'[u] = "off"
        /\ tpc \in [Threads -> CopyPcs] /\ ranges \in [Threads -> SUBSET Chunks]
    BY CopiesSame DEF TypeInv
  <1>a. /\ tpc["rec"] = "off" => ranges["rec"] = {}
        /\ BaseDone => ~stop
        /\ baseEnd => tpc["base"] \in {"off", "finish"}
    BY DEF ReplicaInv, ThreadInv
  <1> SUFFICES /\ replica' = replica
               /\ tpc'[t] \in {"off", "start", "flag", "late", "finish"}
               /\ \A b \in Blocks : Coming(b) => Coming(b)'
               /\ ThreadInv'
    <2>1. \A u \in Threads : tpc'[u] \in {"off", "start", "flag", "late", "finish"}
      BY <1>0
    <2> QED BY <1>0, <2>1, BetweenChunks
  <1>1. CASE UnflagChunk(t)
    <2>1. tpc[t] = "unflag" /\ tpc'[t] = "late" /\ UNCHANGED <<replica, ranges, baseEnd>>
      BY <1>0, <1>1 DEF UnflagChunk
    <2>2. \A u \in Threads : Left(u)' = Left(u)
      BY <1>0, <2>1 DEF Left
    <2>3. ThreadInv'
      BY <1>0, <1>a, <2>1 DEF ThreadInv, Threads
    <2> QED BY <1>0, <2>1, <2>2, <2>3, ComingKept DEF Threads
  <1>2. CASE ChunkDone(t)
    <2>1. /\ tpc[t] = "late" /\ tpc'[t] = "flag" /\ UNCHANGED <<replica, baseEnd>>
          /\ ranges'[t] = ranges[t] \ {First(ranges[t])}
          /\ \A u \in Threads : u # t => ranges'[u] = ranges[u]
      BY <1>0, <1>2 DEF ChunkDone
    <2>2. \A u \in Threads : Left(u)' = Left(u)
      BY <1>0, <2>1 DEF Left
    <2>3. ThreadInv'
      BY <1>0, <1>a, <2>1 DEF ThreadInv, Threads
    <2> QED BY <1>0, <2>1, <2>2, <2>3, ComingKept DEF Threads
  <1>3. CASE Interrupted(t)
    <2>1. /\ tpc[t] = "flag" /\ stop /\ tpc'[t] = "off" /\ UNCHANGED <<replica, baseEnd>>
          /\ \A u \in Threads : u # t => ranges'[u] = ranges[u]
      BY <1>0, <1>3 DEF Interrupted
    <2>2. t = "base" /\ ~baseEnd
      BY <1>0, <1>a, <2>1 DEF OneCopier, Threads
    <2>3. Left("rec")' = Left("rec")
      BY <1>0, <2>1, <2>2 DEF Left, Threads
    <2>4. ThreadInv'
      BY <1>0, <1>a, <2>1, <2>2 DEF ThreadInv, Threads
    <2>5. \A b \in Blocks : Coming(b) => Coming(b)'
      BY <1>0, <2>1, <2>2, <2>3, SameFacts DEF Coming
    <2> QED BY <2>1, <2>4, <2>5
  <1>4. CASE t = "rec" /\ RecoverDone
    <2>1. /\ tpc[t] = "flag" /\ tpc'[t] = "off" /\ ranges["rec"] = {}
          /\ UNCHANGED <<replica, ranges, baseEnd>>
      BY <1>0, <1>4 DEF RecoverDone
    <2>2. \A u \in Threads : Left(u)' = Left(u)
      BY <1>0, <2>1 DEF Left
    <2>3. ThreadInv'
      BY <1>0, <1>a, <1>4, <2>1 DEF ThreadInv, Threads
    <2> QED BY <1>0, <1>4, <2>1, <2>2, <2>3, ComingKept DEF Threads
  <1>5. CASE t = "base" /\ BaseBegin
    <2>1. tpc[t] = "start" /\ tpc'[t] = "flag" /\ UNCHANGED <<replica, ranges, baseEnd>>
      BY <1>0, <1>5 DEF BaseBegin
    <2>2. \A u \in Threads : Left(u)' = Left(u)
      BY <1>0, <2>1 DEF Left
    <2>3. ThreadInv'
      BY <1>0, <1>a, <1>5, <2>1 DEF ThreadInv, Threads
    <2> QED BY <1>0, <1>5, <2>1, <2>2, <2>3, ComingKept DEF Threads
  <1>6. CASE t = "base" /\ BaseDoneNow
    <2>1. /\ tpc[t] = "flag" /\ tpc'[t] = "finish" /\ ranges[t] = {}
          /\ UNCHANGED <<replica, ranges>>
      BY <1>0, <1>6 DEF BaseDoneNow
    <2>2. Left("rec")' = Left("rec") /\ CoveredBy(Left("base")) = {}
      BY <1>0, <1>6, <2>1, CoveredNone DEF Left, Threads
    <2>3. ThreadInv'
      BY <1>0, <1>a, <1>6, <2>1 DEF ThreadInv, Threads
    <2>4. \A b \in Blocks : Coming(b) => Coming(b)'
      BY <1>0, <1>6, <2>1, <2>2, SameFacts DEF Coming
    <2> QED BY <2>1, <2>3, <2>4
  <1>7. CASE t = "base" /\ BaseExit
    <2>1. tpc[t] = "finish" /\ tpc'[t] = "off" /\ UNCHANGED <<replica, ranges, baseEnd>>
      BY <1>0, <1>7 DEF BaseExit
    <2>2. \A u \in Threads : Left(u)' = Left(u)
      BY <1>0, <2>1 DEF Left
    <2>3. ThreadInv'
      BY <1>0, <1>a, <1>7, <2>1 DEF ThreadInv, Threads
    <2> QED BY <1>0, <1>7, <2>1, <2>2, <2>3, ComingKept DEF Threads
  <1> QED BY <1>1, <1>2, <1>3, <1>4, <1>5, <1>6, <1>7

LEMMA ReplicaFlagChunk ==
    ASSUME Calm, TypeInv, OneCopier, KeepInv, ReplicaInv, NEW t \in Threads, FlagChunk(t)
    PROVE  ReplicaInv'
  <1> USE DEF files, Goto
  <1>0. /\ SameRecords /\ FlightInv' /\ UNCHANGED <<taken, stop>>
        /\ \A u \in Threads : u # t => tpc[u] = "off" /\ tpc'[u] = "off"
        /\ tpc \in [Threads -> CopyPcs]
    BY CopiesSame DEF TypeInv, Copies
  <1>1. /\ tpc[t] = "flag" /\ tpc'[t] = "devread" /\ copying' = First(ranges[t])
        /\ UNCHANGED <<replica, ranges, baseEnd>>
    BY <1>0 DEF FlagChunk
  <1>2. \A u \in Threads : Left(u)' = Left(u)
    BY <1>0, <1>1 DEF Left
  <1>3. \A b \in Blocks : Coming(b) => Coming(b)'
    BY <1>0, <1>1, <1>2, ComingKept DEF Threads
  <1>4. CurrentInv' /\ OrderInv'
    BY <1>0, <1>1, <1>3, SameCurrent, SameOrder DEF ReplicaInv
  <1>5. NumInv'
    <2>1. \A u \in Threads : tpc'[u] # "write"
      BY <1>0, <1>1
    <2> QED BY <1>0, <1>1, <2>1, SameNum DEF ReplicaInv, NumInv
  <1>6. BufInv'
    BY <1>0, <1>1 DEF BufInv
  <1>7. ThreadInv'
    BY <1>0, <1>1 DEF ReplicaInv, ThreadInv, Threads
  <1> QED BY <1>0, <1>4, <1>5, <1>6, <1>7 DEF ReplicaInv

\* What the device returns is the last write, or one is on its way.
LEMMA ReplicaReadDevice ==
    ASSUME Calm, TypeInv, OneCopier, KeepInv, ReplicaInv, NEW t \in Threads, ReadDevice(t)
    PROVE  ReplicaInv'
  <1> USE DEF files, Goto
  <1>0. /\ SameRecords /\ FlightInv' /\ UNCHANGED <<taken, stop>>
        /\ \A u \in Threads : u # t => tpc[u] = "off" /\ tpc'[u] = "off"
        /\ tpc \in [Threads -> CopyPcs] /\ buf \in [Threads -> {<< >>} \cup [Blocks -> Vals]]
    BY CopiesSame DEF TypeInv, Copies
  <1>1. /\ tpc[t] = "devread" /\ tpc'[t] = "write" /\ buf'[t] = disk
        /\ UNCHANGED <<replica, ranges, baseEnd, copying>>
    BY <1>0 DEF ReadDevice
  <1>2. \A u \in Threads : Left(u)' = Left(u)
    BY <1>0, <1>1 DEF Left
  <1>3. \A b \in Blocks : Coming(b) => Coming(b)'
    BY <1>0, <1>1, <1>2, ComingKept DEF Threads
  <1>4. CurrentInv' /\ OrderInv'
    BY <1>0, <1>1, <1>3, SameCurrent, SameOrder DEF ReplicaInv
  <1>5. NumInv'
    <2>1. ASSUME NEW u \in Threads, tpc'[u] = "write", NEW b \in Blocks
          PROVE  buf'[u][b] <= Newest(b)
      <3>1. u = t
        BY <1>0, <2>1
      <3> QED BY <1>1, <3>1 DEF ReplicaInv, NumInv
    <2>2. \A b \in Blocks : ~Failed(b) => replica'[b] <= Newest(b)
      BY <1>1 DEF ReplicaInv, NumInv
    <2> QED BY <1>0, <2>1, <2>2, SameNum DEF ReplicaInv
  <1>6. ASSUME NEW b \in Blocks
        PROVE  Excused(b)' \/ disk[b] = Newest(b)' \/ Awaited(b)' \/ Told(b)'
    <2>1. CASE inflight[b] = NoWrite
      BY <1>0, <2>1, SameFacts DEF Newest
    <2>2. CASE inflight[b] # NoWrite /\ inflight[b].logged
      <3>1. PICK k \in 1 .. Len(ring) : ring[k].blk = b /\ ring[k].val = inflight[b].val
        BY <2>2 DEF ReplicaInv, FlightInv
      <3>2. <<b, Newest(b)>> \in Pairs(ring)
        BY <2>2, <3>1 DEF Pairs, Newest
      <3>3. Awaited(b)
        BY <3>2 DEF Awaited, Pend
      <3> QED BY <1>0, <3>3, SameFacts
    <2>3. CASE inflight[b] # NoWrite /\ ~inflight[b].logged
      <3>1. Told(b) \/ Excused(b)
        BY <2>3 DEF ReplicaInv, FlightInv, Early, Excused
      <3> QED BY <1>0, <3>1, SameFacts
    <2> QED BY <2>1, <2>2, <2>3
  <1>7. BufInv'
    <2>1. copying = First(ranges[t])
      BY <1>1 DEF ReplicaInv, BufInv
    <2> QED BY <1>0, <1>1, <1>6, <2>1 DEF BufInv
  <1>8. ThreadInv'
    BY <1>0, <1>1 DEF ReplicaInv, ThreadInv, Threads
  <1> QED BY <1>0, <1>4, <1>5, <1>7, <1>8 DEF ReplicaInv

\* The chunk is in the replica; where the base copy skipped it there were zeroes.
LEMMA ReplicaWriteReplica ==
    ASSUME Calm, TypeInv, OneCopier, KeepInv, ReplicaInv, NEW t \in Threads,
           WriteReplica(t)
    PROVE  ReplicaInv'
  <1> USE DEF Goto
  <1> DEFINE f == First(ranges[t])
             chunk == f[1] .. f[2]
  <1>0. /\ SameRecords /\ FlightInv' /\ UNCHANGED <<taken, stop>>
        /\ \A u \in Threads : u # t => tpc[u] = "off" /\ tpc'[u] = "off"
        /\ tpc \in [Threads -> CopyPcs]
    BY CopiesSame DEF TypeInv, Copies
  <1>1. /\ tpc[t] = "write" /\ tpc'[t] = "unflag" /\ copying = f
        /\ UNCHANGED <<ranges, baseEnd, copying>>
    BY <1>0 DEF WriteReplica, ReplicaInv, BufInv
  <1>2. f \in ranges[t] /\ f \in Chunks
    BY <1>1, FirstIn DEF TypeInv
  <1>3. f # << >>
    <2>1. f = <<f[1], f[2]>>
      BY <1>2 DEF Chunks
    <2>2. \A x, y : <<x, y>> # << >>
      BY SMT
    <2> QED BY <2>1, <2>2
  <1>4. ASSUME NEW b \in Blocks
        PROVE  /\ b \notin chunk => replica'[b] = replica[b]
               /\ b \in chunk => \/ replica'[b] = buf[t][b]
                                 \/ replica'[b] = replica[b] /\ buf[t][b] = Zero
    BY DEF WriteReplica
  <1>5. ASSUME NEW b \in Blocks
        PROVE  /\ buf[t][b] \in Vals /\ replica[b] \in Vals /\ Newest(b) \in Vals
               /\ ~Failed(b) => buf[t][b] <= Newest(b) /\ replica[b] <= Newest(b)
               /\ Failed(b) => Excused(b)
    BY <1>1, NewestIn DEF TypeInv, ReplicaInv, NumInv, Failed, Excused
  <1>6. ASSUME NEW b \in Blocks, b \in chunk
        PROVE  Excused(b)' \/ replica'[b] = Newest(b)' \/ Awaited(b)' \/ Told(b)'
    <2>1. Excused(b) \/ buf[t][b] = Newest(b) \/ Awaited(b) \/ Told(b)
      BY <1>1, <1>3, <1>6 DEF ReplicaInv, BufInv, Covers
    <2>2. buf[t][b] = Newest(b) => replica'[b] = Newest(b) \/ Excused(b)
      BY <1>4, <1>5, <1>6 DEF Zero, Vals
    <2> QED BY <1>0, <2>1, <2>2, SameFacts
  <1>7. CoveredBy(ranges[t]) = CoveredBy(ranges[t] \ {f}) \cup chunk
    BY <1>2, CoveredSplit
  <1>8. /\ Left(t) = ranges[t] /\ Left(t)' = ranges[t] \ {f}
        /\ \A u \in Threads : u # t => Left(u)' = Left(u)
    BY <1>0, <1>1 DEF Left
  <1> HIDE DEF f
  <1>9. ASSUME NEW b \in Blocks, b \notin chunk, Coming(b) PROVE Coming(b)'
    <2>1. \A u \in Threads : b \in CoveredBy(Left(u)) => b \in CoveredBy(Left(u)')
      BY <1>7, <1>8, <1>9
    <2>2. tpc["base"] = "off" => tpc'["base"] = "off"
      BY <1>0, <1>1 DEF Threads
    <2> QED BY <1>0, <1>1, <1>9, <2>1, <2>2, SameFacts DEF Coming, Threads
  <1>10. CurrentInv'
    <2> SUFFICES ASSUME NEW b \in Blocks
                 PROVE  Excused(b)' \/ replica'[b] = Newest(b)' \/ Awaited(b)' \/ Coming(b)'
      BY DEF CurrentInv
    <2>1. CASE b \in chunk
      BY <1>6, <2>1 DEF Coming
    <2>2. CASE b \notin chunk
      <3>1. Excused(b) \/ replica[b] = Newest(b) \/ Awaited(b) \/ Coming(b)
        BY DEF ReplicaInv, CurrentInv
      <3> QED BY <1>0, <1>4, <1>9, <2>2, <3>1, SameFacts
    <2> QED BY <2>1, <2>2
  <1>11. NumInv'
    <2>1. \A b \in Blocks : ~Failed(b) => replica'[b] <= Newest(b)
      BY <1>4, <1>5
    <2>2. \A u \in Threads : tpc'[u] # "write"
      BY <1>0, <1>1
    <2> QED BY <1>0, <2>1, <2>2, SameNum DEF ReplicaInv
  <1>12. OrderInv'
    BY <1>0, SameOrder DEF ReplicaInv
  <1>13. BufInv'
    BY <1>0, <1>1 DEF BufInv, f
  <1>14. ThreadInv'
    BY <1>0, <1>1 DEF ReplicaInv, ThreadInv, Threads
  <1> QED BY <1>0, <1>10, <1>11, <1>12, <1>13, <1>14 DEF ReplicaInv

-----------------------------------------------------------------------------
(* The theorem.                                                            *)

LEMMA ReplicaStep ==
    ASSUME Undisturbed, TypeInv, RecoveryInv, OneCopier, KeepInv, ReplicaInv, Next
    PROVE  ReplicaInv'
  <1>0. Calm
    BY DEF Undisturbed
  <1>1. ASSUME NEW t \in Threads, Copies(t) PROVE ReplicaInv'
    <2>1. ~CopyFail(t)
      BY <1>0 DEF CopyFail, Calm
    <2>2. \/ UnflagChunk(t) \/ ChunkDone(t) \/ Interrupted(t)
          \/ t = "rec" /\ RecoverDone
          \/ t = "base" /\ (BaseBegin \/ BaseDoneNow \/ BaseExit)
          \/ FlagChunk(t) \/ ReadDevice(t) \/ WriteReplica(t)
      BY <1>1, <2>1 DEF Copies
    <2> QED BY <1>0, <1>1, <2>2, ReplicaChunkEnds, ReplicaFlagChunk, ReplicaReadDevice,
               ReplicaWriteReplica
  <1> QED BY <1>1, StepCases, ReplicaWrite, ReplicaEnded, ReplicaStart,
             ReplicaReadBitmap, ReplicaStartRecovery, ReplicaSig, ReplicaQuiet,
             ReplicaApplies, ReplicaGone

LEMMA ReplicaInit ==
    ASSUME Init
    PROVE  ReplicaInv
  <1>1. Pend = {}
    <2>1. /\ Pairs(ring) = {} /\ Pairs(batch) = {} /\ Pairs(parked) = {} /\ Parking = {}
          /\ Pairs(deferred) = {}
      BY PairsEmpty DEF Init, Parking
    <2>2. Pairs(late["base"]) = {} /\ Pairs(late["rec"]) = {}
      BY PairsEmpty DEF Init, Threads
    <2> QED BY <2>1, <2>2 DEF Pend
  <1>2. /\ \A b \in Blocks : inflight[b] = NoWrite /\ Newest(b) = disk[b]
        /\ \A t \in Threads : tpc[t] = "off" /\ ranges[t] = {}
    BY DEF Init, Newest
  <1>3. NumInv
    <2>1. \A b \in Blocks : disk[b] <= nw /\ disk[b] <= disk[b] /\ replica[b] <= disk[b]
      BY DEF Init, Before, Zero, Old
    <2>2. last \in [Blocks -> Nat]
      BY DEF Init
    <2> QED BY <1>1, <1>2, <2>1, <2>2 DEF NumInv
  <1>4. FlightInv /\ OrderInv
    BY <1>1, <1>2 DEF FlightInv, OrderInv
  <1>5. CurrentInv
    BY <1>2 DEF CurrentInv, Coming, Init, Threads
  <1>6. BufInv /\ ThreadInv
    BY <1>2 DEF BufInv, ThreadInv, Init, Threads
  <1> QED BY <1>3, <1>4, <1>5, <1>6 DEF ReplicaInv

\* The invariants of the daemon that runs undisturbed.
CalmInv == DaemonInv /\ OneCopier /\ KeepInv /\ ReplicaInv

LEMMA CalmStep ==
    ASSUME Undisturbed, CalmInv, [Next]_vars
    PROVE  CalmInv'
  <1>0. Calm
    BY DEF Undisturbed
  <1>1. CASE Next
    <2>1. DaemonInv'
      BY <1>1, TypeStep, BaseStep, OwedStep, RecoveryStep DEF DaemonInv, CalmInv
    <2>2. OneCopier' /\ KeepInv' /\ ReplicaInv'
      BY <1>0, <1>1, OneCopierStep, KeepStep, ReplicaStep DEF CalmInv, DaemonInv
    <2> QED BY <2>1, <2>2 DEF CalmInv
  <1>2. CASE UNCHANGED vars
    <2> USE <1>2 DEF vars, device, files, mainLoc, copier, ghosts, marking, extra
    <2>1. DaemonInv'
      <3>1. TypeInv'
        BY TypeStutter DEF CalmInv, DaemonInv
      <3>2. BaseInv' /\ OwedInv' /\ RecoveryInv'
        BY DEF CalmInv, DaemonInv, BaseInv, OwedInv, RecoveryInv, MarkedBut, Early, Left
      <3> QED BY <3>1, <3>2 DEF DaemonInv
    <2>2. OneCopier' /\ KeepInv'
      BY DEF CalmInv, OneCopier, KeepInv, NoRecordLost, Held
    <2>3. Pend' = Pend /\ Gap' = Gap
      BY PendKept DEF Gap
    <2>4. SameRecords
      BY <2>3, SameDevice DEF CalmInv, ReplicaInv
    <2>5. FlightInv' /\ (BaseDone => ~stop')
      BY <2>4, FlightKept, SameFacts DEF CalmInv, ReplicaInv, RingKept, ThreadInv
    <2>6. ReplicaInv'
      BY <2>4, <2>5, CarryOver DEF CalmInv
    <2> QED BY <2>1, <2>2, <2>6 DEF CalmInv
  <1> QED BY <1>1, <1>2

LEMMA CalmInit ==
    ASSUME Init
    PROVE  CalmInv
  BY DaemonInit, KeepInit, ReplicaInit DEF CalmInv

\* Where no record is on its way and no recovery to come, the replica has the last
\* write of every block.
LEMMA NothingPending ==
    ASSUME CalmInv, ring = << >>, batch = << >>, parked = << >>, pendingBin = << >>,
           ~gapPending, queue = 0, mpc # "persist", tpc["rec"] = "off", baseEnd,
           NEW b \in Blocks
    PROVE  replica[b] = Newest(b) \/ Excused(b)
  <1>1. tpc["base"] \in {"off", "finish"} /\ ranges["rec"] = {} /\ taken = {}
    BY DEF CalmInv, ReplicaInv, ThreadInv, DaemonInv, RecoveryInv
  <1>2. deferred = << >> /\ late["base"] = << >> /\ late["rec"] = << >>
    BY <1>1 DEF CalmInv, KeepInv, Threads
  <1>3. Pend = {}
    <2>1. Parking = {}
      BY PairsEmpty DEF Parking, CalmInv, DaemonInv, TypeInv
    <2> QED BY <1>2, <2>1, PairsEmpty DEF Pend
  <1>4. ~Gap
    BY NoRecords DEF Gap, HasGap, CalmInv, DaemonInv, TypeInv
  <1>5. ~Awaited(b) /\ ~Coming(b)
    <2>1. CoveredBy(taken) = {} /\ CoveredBy(Left("rec")) = {}
      BY <1>1, CoveredNone DEF Left
    <2> QED BY <1>3, <1>4, <2>1 DEF Awaited, Coming, Told
  <1> QED BY <1>5 DEF CalmInv, ReplicaInv, CurrentInv

\* rkcdpd "keep[s] this node's replica.raw on NFS identical to its disk": whenever
\* nothing is on its way, every block of the replica is the block of the disk, but
\* for the three races and the failed writes that ReplicaCurrent names, for every
\* disk, ring, chunk, read and number of writes, rebuilds and consistent points.
\* Assumed: no crash and no I/O error of a copy thread, and either the base copy was
\* done before and nobody stops the daemon, or the ring never overflows.
THEOREM ReplicaIsDisk == Undisturbed => (Spec => []ReplicaCurrent)
  <1> SUFFICES ASSUME Undisturbed PROVE Spec => []ReplicaCurrent
    OBVIOUS
  <1>1. Init => CalmInv
    BY CalmInit
  <1>2. CalmInv /\ [Next]_vars => CalmInv'
    BY CalmStep
  <1>3. CalmInv => ReplicaCurrent
    <2> SUFFICES ASSUME CalmInv, Settled, NEW b \in Blocks
                 PROVE  \/ replica[b] = disk[b]
                        \/ \E r \in {"reordered", "early", "outrun", "failed"} :
                              <<r, b>> \in raced
      BY DEF ReplicaCurrent, CurrentBut
    <2>1. replica[b] = Newest(b) \/ Excused(b)
      BY NothingPending DEF Settled, Idle, Threads
    <2>2. Newest(b) = disk[b]
      BY DEF Settled, Idle, Newest
    <2> QED BY <2>1, <2>2 DEF Excused
  <1> QED BY <1>1, <1>2, <1>3, PTL DEF Spec

-----------------------------------------------------------------------------
(* Consistent points.                                                      *)

\* From the freeze to the record: no recovery, a file system that nobody writes until
\* the thaw, and a point that is good or will be abandoned.
PointInv ==
    /\ mpc \in {"mark", "freeze", "drain", "drainConsume", "thaw", "record"} => baseEnd
    /\ mpc \in {"freeze", "drain", "drainConsume", "thaw", "record"} => tpc["rec"] = "off"
    /\ mpc \in {"drain", "drainConsume"} =>
          frozen /\ \A b \in RootBlocks : inflight[b] = NoWrite
    /\ mpc \in {"thaw", "record"} =>
          (mark.stale # {} => mark.why # {} \/ queue > 0)
    /\ PointConsistent

\* The drain has emptied the ring: the replica is the frozen file system.
LEMMA PointDrainEnd ==
    ASSUME CalmInv, PointInv, DrainEnd
    PROVE  mark'.stale # {} => mark'.why # {} \/ queue > 0
  <1> DEFINE stale == {b \in RootBlocks : /\ replica[b] # disk[b]
                                          /\ \A r \in raced : r[2] # b}
             why   == {w \in {"deadline", "parked", "tail"} :
                         \/ w = "deadline" /\ ring # << >>
                         \/ w = "parked" /\ pendingBin # << >>
                         \/ w = "tail" /\ gapPending}
  <1>1. /\ mpc = "drain" /\ tpc["rec"] = "off" /\ baseEnd
        /\ \A b \in RootBlocks : inflight[b] = NoWrite
    BY DEF DrainEnd, PointInv
  <1>2. batch = << >> /\ parked = << >>
    BY <1>1 DEF CalmInv, KeepInv
  <1>3. mark' = IF stale = {} THEN NoPoint ELSE [stale |-> stale, why |-> why]
    BY DEF DrainEnd
  <1>4. (mark'.stale = {}) \/ (stale # {} /\ mark'.why = why)
    BY <1>3 DEF NoPoint
  <1> SUFFICES ASSUME why = {}, ~(queue > 0), NEW b \in stale PROVE FALSE
    BY <1>4
  <1>5. ring = << >> /\ pendingBin = << >> /\ ~gapPending
    OBVIOUS
  <1>6. b \in RootBlocks /\ replica[b] # disk[b] /\ \A r \in raced : r[2] # b
    OBVIOUS
  <1> HIDE DEF stale, why
  <1>7. queue = 0 /\ b \in Blocks
    BY <1>6, EnvAssumption DEF CalmInv, DaemonInv, TypeInv, Blocks
  <1>8. replica[b] = Newest(b) \/ Excused(b)
    BY <1>1, <1>2, <1>5, <1>7, NothingPending
  <1> QED BY <1>1, <1>6, <1>8 DEF Newest, Excused

\* A step that stands outside mark_consistent, or leaves its state alone.
LEMMA PointKept ==
    ASSUME PointInv, point' = point,
           \/ mpc' \notin {"mark", "freeze", "drain", "drainConsume", "thaw", "record"}
           \/ /\ mpc' = mpc /\ UNCHANGED <<mark, queue, frozen>> /\ (baseEnd => baseEnd')
              /\ tpc["rec"] = "off" => tpc'["rec"] = "off"
              /\ mpc \in {"drain", "drainConsume"} =>
                    \A b \in RootBlocks : inflight[b] = NoWrite => inflight'[b] = NoWrite
    PROVE  PointInv'
  BY DEF PointInv, PointConsistent

LEMMA PointStep ==
    ASSUME CalmInv, PointInv, Next
    PROVE  PointInv'
  <1> USE DEF device, files, mainLoc, copier, ghosts, extra, marking
  <1>t. TypeInv
    BY DEF CalmInv, DaemonInv
  <1>1. ASSUME NEW b \in Blocks, Write(b) \/ Ended(b) PROVE PointInv'
    <2>1. CASE Write(b)
      <3>1. /\ mpc \in {"drain", "drainConsume"} => b \notin RootBlocks
            /\ \A c \in Blocks : c # b => inflight'[c] = inflight[c]
            /\ UNCHANGED <<mpc, mark, queue, frozen, point, baseEnd, tpc>>
        BY <2>1, <1>t DEF Write, PointInv, TypeInv
      <3> QED BY <3>1, PointKept, EnvAssumption DEF Blocks
    <2>2. CASE Ended(b)
      <3>1. EndIo(b)
        BY <2>2, EndedStep
      <3>2. /\ \A c \in Blocks : inflight[c] = NoWrite => inflight'[c] = NoWrite
            /\ UNCHANGED <<mpc, mark, queue, frozen, point, baseEnd, tpc>>
        BY <3>1, <1>t DEF EndIo, TypeInv
      <3> QED BY <3>2, PointKept, EnvAssumption DEF Blocks
    <2> QED BY <1>1, <2>1, <2>2
  <1>2. CASE Start \/ ReadBitmap \/ StartRecovery
    BY <1>2, PointKept DEF Start, ReadBitmap, StartRecovery
  <1>3. CASE OnSig
    BY <1>3, PointKept DEF OnSig
  <1>4. CASE Gone
    <2>1. ProcessGone
      BY <1>4, GoneStep
    <2> QED BY <2>1, PointKept DEF ProcessGone
  <1>5. ASSUME NEW t \in Threads, Copies(t) PROVE PointInv'
    <2>1. tpc["rec"] = "off" => tpc'["rec"] = "off"
      BY <1>5, <1>t, CopiesStep DEF Threads
    <2>2. UNCHANGED <<mark, frozen, point, inflight>>
      BY <1>5 DEF Copies, FlagChunk, ReadDevice, WriteReplica, UnflagChunk, ChunkDone,
                  Interrupted, CopyFail, RecoverDone, BaseBegin, BaseDoneNow, BaseExit
    <2> QED BY <1>5, <1>t, <2>1, <2>2, CopiesStep, PointKept
  <1>6. CASE Applies
    <2>1. UNCHANGED core /\ mpc' = mpc
      BY <1>6, <1>t, AppliesStep
    <2>2. UNCHANGED <<mark, frozen, point>> /\ (mpc \in {"thaw", "record"} => queue' = queue)
      BY <1>6 DEF Applies, Consume, ApplyPending, ApplyLate
    <2> QED BY <2>1, <2>2 DEF PointInv, PointConsistent, core
  <1>7. CASE ReadRing \/ ReadNothing \/ ConsumeEnd \/ NoRecovery
    BY <1>7 DEF ReadRing, ReadNothing, ConsumeEnd, NoRecovery, PointInv, PointConsistent
  <1>8. CASE Unpark \/ PendingDone
    BY <1>8 DEF Unpark, PendingDone, NextTurn, PointInv, PointConsistent
  <1>9. CASE MarkBegin \/ Freeze \/ FreezeRefused \/ Thaw
    BY <1>9 DEF MarkBegin, Freeze, FreezeRefused, Thaw, PointInv, PointConsistent
  <1>10. CASE DrainEnd
    BY <1>10, PointDrainEnd DEF DrainEnd, PointInv, PointConsistent
  <1>11. CASE RecordPoint
    BY <1>11 DEF RecordPoint, Abandoned, PointInv, PointConsistent
  <1>12. CASE RebuildBegin \/ RebuildEnd
    BY <1>12, PointKept DEF RebuildBegin, RebuildEnd
  <1> QED BY <1>1, <1>2, <1>3, <1>4, <1>5, <1>6, <1>7, <1>8, <1>9, <1>10, <1>11, <1>12,
             StepCases DEF Quiet

\* mark_consistent's promise, "seq <= consistent_seq does [have a single instant]":
\* at every recorded point the replica holds the frozen file system "/", but for the
\* blocks of a race or a failed write and the causes that PointConsistent names, under
\* the assumptions of ReplicaIsDisk.  Writes to the rest of the device go on
\* throughout, and nothing is said of it.
THEOREM PointsConsistent == Undisturbed => (Spec => []PointConsistent)
  <1> SUFFICES ASSUME Undisturbed PROVE Spec => []PointConsistent
    OBVIOUS
  <1>1. Init => CalmInv /\ PointInv
    <2> SUFFICES ASSUME Init PROVE PointInv
      BY CalmInit
    <2>1. mpc = "init" /\ point = NoPoint
      BY DEF Init
    <2>2. NoPoint.stale = {}
      BY DEF NoPoint
    <2> QED BY <2>1, <2>2 DEF PointInv, PointConsistent
  <1>2. CalmInv /\ PointInv /\ [Next]_vars => CalmInv' /\ PointInv'
    <2> SUFFICES ASSUME CalmInv, PointInv, [Next]_vars PROVE PointInv'
      BY CalmStep
    <2>1. CASE Next
      BY <2>1, PointStep
    <2>2. CASE UNCHANGED vars
      BY <2>2, PointKept DEF vars, device, files, mainLoc, copier, ghosts, marking, extra
    <2> QED BY <2>1, <2>2
  <1>3. PointInv => PointConsistent
    BY DEF PointInv
  <1> QED BY <1>1, <1>2, <1>3, PTL DEF Spec
=============================================================================
