------------------------------- MODULE Rkcdpd -------------------------------
(***************************************************************************)
(* The replication daemon, rkcdp/rkcdpd.py: it keeps replica.raw identical *)
(* to the disk by applying the records of /dev/cdpN, by a base copy of the *)
(* whole disk, and, after the ring has dropped records, by re-reading the  *)
(* chunks of the dirty bitmap.                                             *)
(*                                                                         *)
(* Processes: the main loop, the base copy thread, the bitmap recovery     *)
(* thread, the writers of the disk under dm-cdp, and a rebuild that holds  *)
(* .rebuild.lock.  A step is a critical section of self.lock or one access *)
(* to something shared (the ring, the bitmap, the disk, a file).           *)
(*                                                                         *)
(* Data: the disk is NBlocks blocks, each of them a chunk of the bitmap; a *)
(* write covers one block, and the contents of a block are the number of   *)
(* the write that made them, Old or Zero.  A record that overlaps a chunk  *)
(* in part, and a last extent that reaches past the end of the device and  *)
(* whose read is short, therefore do not occur.  dm-cdp itself is          *)
(* CdpTarget; here it is the stream CdpTarget was shown to implement.      *)
(***************************************************************************)
EXTENDS Integers, Sequences, FiniteSets

CONSTANTS
    NBlocks,     \* blocks of the disk
    CopyBlocks,  \* COPY_CHUNK in blocks
    RingCap,     \* records that fit in the ring
    ReadMax,     \* records that fit in READ_SZ
    BaseDone,    \* manifest.json has base_end_seq from an earlier run
    RootBlocks,  \* blocks of the file system "/": all, some or none
    Env,         \* what else may happen
    MaxWrites,   \* bound: writes in one behaviour
    MaxRebuilds, \* bound: rebuilds in one behaviour
    MaxEvents    \* bound: crashes, stops and errors in one behaviour

ASSUME DaemonAssumption ==
    /\ NBlocks \in Nat \ {0} /\ CopyBlocks \in Nat \ {0}
    /\ RingCap \in Nat /\ ReadMax \in Nat \ {0}
    /\ BaseDone \in BOOLEAN
    /\ MaxWrites \in Nat /\ MaxRebuilds \in Nat /\ MaxEvents \in Nat

ASSUME EnvAssumption ==
    /\ RootBlocks \subseteq 1 .. NBlocks
    /\ Env \subseteq {"crash", "stop", "ioerror", "badwrite", "point"}

VARIABLES
    (* the device, as dm-cdp shows it *)
    disk,         \* contents of every block
    inflight,     \* per block, the write the device works on, or NoWrite
    ring,         \* reserved records not yet read
    gapPending,
    bitmap,       \* blocks whose bit is set
    (* files on NFS *)
    replica,      \* replica.raw
    pendingBin,   \* pending.bin; << >> when it does not exist
    recovery,     \* recovery.json: [on, extents]
    baseEnd,      \* manifest.json has base_end_seq
    rebuildLock,  \* .rebuild.lock exists
    (* the main thread *)
    mpc, batch, park, parked,
    upos,         \* records of pending.bin applied by apply_pending
    taken,        \* extents between the bitmap ioctl and recovery.json
    queue,        \* gaps in self.recovery_queue
    (* shared by the threads *)
    copying,      \* self.copying, a range of blocks; << >> for None
    deferred,     \* self.deferred
    baseProgress, \* self.base_progress is not empty
    (* the copy threads *)
    tpc, ranges, buf, late,
    (* consistent points and the orderly stop *)
    overflowed,   \* DM_CDP_S_OVERFLOWED: a drop since the bitmap was cleared
    frozen,       \* fsfreeze holds the file system
    due,          \* consistent_sec have passed since last_consistent
    mark, point,  \* the point at hand; manifest.json's "consistent"
    stop,         \* the global stop, set by on_sig
    (* history *)
    rebuilds,     \* rebuilds begun
    nw, events,   \* writes submitted; crashes, stops and errors
    read,         \* records read from the ring, but for those a failed thread lost
    applied,      \* records written to the replica
    last,         \* per block, the last record applied
    owed,         \* blocks whose last write was dropped and not re-read yet
    raced         \* <<reason, block>>: a race that may leave the block stale

device  == <<disk, inflight, ring, gapPending, bitmap, nw>>
files   == <<replica, pendingBin, recovery, baseEnd, rebuildLock>>
mainLoc == <<mpc, batch, park, parked, upos, taken, queue>>
copier  == <<copying, deferred, baseProgress, tpc, ranges, buf, late>>
ghosts  == <<rebuilds, events, read, applied, last, owed, raced>>
marking == <<frozen, due, mark, point, stop>>
extra   == <<overflowed, marking>>
vars    == <<device, files, mainLoc, copier, extra, ghosts>>

Blocks  == 1 .. NBlocks
Threads == {"base", "rec"}

\* What was on the disk before: data, and a last block of zeroes.
Old     == 0
Zero    == -1
Before  == [b \in Blocks |-> IF b = NBlocks THEN Zero ELSE Old]

NoWrite == [val |-> 0, logged |-> FALSE]
NoFile  == [on |-> FALSE, extents |-> {}]
NoPoint == [stale |-> {}, why |-> {}]

Ids(s)     == {s[k].val : k \in 1 .. Len(s)}
Pairs(s)   == {<<s[k].blk, s[k].val>> : k \in 1 .. Len(s)}
Covers(c, b)  == c # << >> /\ b \in c[1] .. c[2]
CoveredBy(rs) == UNION {c[1] .. c[2] : c \in rs}

-----------------------------------------------------------------------------
(***************************************************************************)
(* Ranges: dmcdp.bitmap_extents and the loops that cut them into chunks.   *)
(* Chunks of one list do not overlap, and its loop takes them in ascending *)
(* order: the set of them says all.                                        *)
(***************************************************************************)

\* Mutant of Pieces: min(COPY_CHUNK, remaining) forgotten.
PiecesUnclipped(lo, hi) ==
    {<<s, s + CopyBlocks - 1>> : s \in {x \in lo .. hi : (x - lo) % CopyBlocks = 0}}

\* Cut the range lo..hi into chunks of at most CopyBlocks.
Pieces(lo, hi) ==
    {<<s, IF s + CopyBlocks - 1 < hi THEN s + CopyBlocks - 1 ELSE hi>> :
        s \in {x \in lo .. hi : (x - lo) % CopyBlocks = 0}}

\* The starts of the runs of set bits, and where the run from s ends.
RunStarts(bits) == {b \in bits : b - 1 \notin bits}
RunEnd(bits, s) ==
    CHOOSE e \in bits : s <= e /\ s .. e \subseteq bits /\ e + 1 \notin bits

\* Mutant of Extents: a loop over range(nbits) instead of range(nbits + 1) never
\* closes a run that reaches the last bit.
ExtentsOpenEnded(bits) ==
    UNION {Pieces(s, RunEnd(bits, s)) :
              s \in {x \in RunStarts(bits) : RunEnd(bits, x) < NBlocks}}

\* bitmap_extents, each cut into chunks.
Extents(bits) == UNION {Pieces(s, RunEnd(bits, s)) : s \in RunStarts(bits)}

\* The chunk a loop over rs is on.
First(rs) == CHOOSE c \in rs : \A d \in rs : c[1] <= d[1]

-----------------------------------------------------------------------------
Init ==
    /\ disk = Before
    /\ inflight = [b \in Blocks |-> NoWrite]
    /\ ring = << >> /\ gapPending = FALSE /\ bitmap = {}
    /\ replica = IF BaseDone THEN Before ELSE [b \in Blocks |-> Zero]
    /\ pendingBin = << >> /\ recovery = NoFile
    /\ baseEnd = BaseDone /\ rebuildLock = FALSE
    /\ mpc = "init" /\ batch = << >> /\ park = FALSE /\ parked = << >>
    /\ upos = 0 /\ taken = {} /\ queue = 0
    /\ copying = << >> /\ deferred = << >> /\ baseProgress = FALSE
    /\ tpc = [t \in Threads |-> "off"]
    /\ ranges = [t \in Threads |-> {}]
    /\ buf = [t \in Threads |-> << >>]
    /\ late = [t \in Threads |-> << >>]
    /\ overflowed = FALSE /\ frozen = FALSE /\ due = TRUE
    /\ mark = NoPoint /\ point = NoPoint /\ stop = FALSE
    /\ nw = 0 /\ rebuilds = 0 /\ events = 0 /\ read = {} /\ applied = {}
    /\ last = [b \in Blocks |-> 0] /\ owed = {} /\ raced = {}

(***************************************************************************)
(* The device.  A file system has one write of a block in flight, and the  *)
(* one on "/" has none while it is frozen.                                 *)
(***************************************************************************)
Write(b) ==
    /\ inflight[b] = NoWrite /\ nw < MaxWrites
    /\ ~(frozen /\ b \in RootBlocks)
    /\ nw' = nw + 1
    /\ bitmap' = bitmap \cup {b}
    /\ inflight' = [inflight EXCEPT ![b] = [val |-> nw + 1,
                                            logged |-> Len(ring) < RingCap]]
    /\ IF Len(ring) < RingCap
       THEN /\ ring' = Append(ring, [blk |-> b, val |-> nw + 1,
                                     gap |-> gapPending, done |-> FALSE])
            /\ gapPending' = FALSE
            /\ owed' = owed \ {b}
            /\ UNCHANGED overflowed
       ELSE /\ gapPending' = TRUE /\ overflowed' = TRUE
            /\ owed' = owed \cup {b}
            /\ UNCHANGED ring
    /\ UNCHANGED <<disk, files, mainLoc, copier, marking, events, read, applied,
                   last, raced, rebuilds>>

\* cdp_end_io: the record of the write may be read.
EndIo(b) ==
    /\ inflight[b] # NoWrite
    /\ ring' = [k \in 1 .. Len(ring) |->
                  [ring[k] EXCEPT !.done = @ \/ ring[k].val = inflight[b].val]]
    /\ inflight' = [inflight EXCEPT ![b] = NoWrite]
    /\ UNCHANGED <<gapPending, bitmap, nw, files, mainLoc, copier, extra>>

Complete(b) ==
    /\ EndIo(b)
    /\ disk' = [disk EXCEPT ![b] = inflight[b].val]
    /\ UNCHANGED ghosts

\* The write fails and may have reached the disk or not.  Its record has F_ERROR,
\* which apply_one does not look at.
CompleteError(b) ==
    /\ "badwrite" \in Env /\ events < MaxEvents
    /\ EndIo(b)
    /\ disk' \in {disk, [disk EXCEPT ![b] = inflight[b].val]}
    /\ events' = events + 1
    /\ raced' = raced \cup {<<"failed", b>>}
    /\ UNCHANGED <<rebuilds, read, applied, last, owed>>

(***************************************************************************)
(* apply_one, under self.lock.                                             *)
(***************************************************************************)

\* Mutant of Deferred: records are applied while their chunk is in flight.
DeferredNever(r) == FALSE

\* The record is for the chunk a copy thread is on.
Deferred(r) == Covers(copying, r.blk)

\* Replica.write: what the record leaves in its block.
Stored(r) == [replica EXCEPT ![r.blk] = r.val]

ApplyOne(r) ==
    IF Deferred(r)
    THEN /\ deferred' = Append(deferred, r)
         /\ UNCHANGED <<replica, applied, last, raced>>
    ELSE /\ replica' = Stored(r)
         /\ applied' = applied \cup {r.val}
         /\ last' = [last EXCEPT ![r.blk] = r.val]
         /\ raced' = IF r.val <= last[r.blk]
                     THEN raced \cup {<<"reordered", r.blk>>} ELSE raced
         /\ UNCHANGED deferred

(***************************************************************************)
(* The main thread.                                                        *)
(***************************************************************************)

\* Daemon.main up to its loop: resume an interrupted recovery, start the base
\* copy if none was ever completed.
Start ==
    /\ mpc = "init"
    /\ mpc' = "read"
    /\ tpc' = [t \in Threads |->
                 IF t = "rec" /\ recovery.on THEN "flag"
                 ELSE IF t = "base" /\ ~baseEnd THEN "start" ELSE "off"]
    /\ ranges' = [t \in Threads |->
                    IF t = "rec" /\ recovery.on THEN recovery.extents
                    ELSE IF t = "base" /\ ~baseEnd THEN Pieces(1, NBlocks)
                    ELSE {}]
    /\ UNCHANGED <<device, files, batch, park, parked, upos, taken, queue,
                   copying, deferred, baseProgress, buf, late, ghosts, extra>>

\* The records that read(2) delivers: acknowledged ones from the front.
Deliverable ==
    LET ns == {n \in 0 .. Len(ring) : \A k \in 1 .. n : ring[k].done}
        n  == CHOOSE m \in ns : \A k \in ns : k <= m
    IN  IF n <= ReadMax THEN n ELSE ReadMax

\* Mutant of Paused: the lock not looked at.
PausedNever == FALSE

\* paused().
Paused == rebuildLock

\* os.read, by the loop or by the drain of mark_consistent, and consume up to
\* its own loop.
ReadRing ==
    /\ \/ mpc = "read" /\ ~stop
       \/ mpc = "drain"
    /\ Deliverable > 0
    /\ batch' = SubSeq(ring, 1, Deliverable)
    /\ ring' = SubSeq(ring, Deliverable + 1, Len(ring))
    /\ read' = read \cup Ids(batch')
    /\ park' = Paused
    /\ mpc' = IF mpc = "read" THEN "consume" ELSE "drainConsume"
    /\ UNCHANGED <<disk, inflight, gapPending, bitmap, nw, files, parked, upos,
                   taken, queue, copier, events, applied, last, owed, raced,
                   extra, rebuilds>>

\* Nothing to read: the loop goes on to its other duties.
ReadNothing ==
    /\ mpc = "read" /\ ~stop /\ Deliverable = 0
    /\ mpc' = "recover"
    /\ UNCHANGED <<device, files, batch, park, parked, upos, taken, queue,
                   copier, ghosts, extra>>

\* One turn of consume's loop.  seq never repeats in the stream, so gap_seen
\* never filters a gap.
Consume ==
    /\ mpc \in {"consume", "drainConsume"} /\ batch # << >>
    /\ LET r == Head(batch)
       IN  /\ queue' = queue + (IF r.gap THEN 1 ELSE 0)
           /\ IF park
              THEN /\ parked' = Append(parked, r)
                   /\ UNCHANGED <<replica, applied, last, raced, deferred>>
              ELSE ApplyOne(r) /\ UNCHANGED parked
    /\ batch' = Tail(batch)
    /\ UNCHANGED <<device, pendingBin, recovery, baseEnd, rebuildLock, mpc,
                   park, upos, taken, copying, baseProgress, tpc, ranges, buf,
                   late, events, read, owed, extra, rebuilds>>

\* Mutant of Parked: pending.bin opened with "wb".
ParkedTruncating(s) == IF s = << >> THEN pendingBin ELSE s

\* pending.bin is opened with "ab".
Parked(s) == pendingBin \o s

\* The end of consume: what was parked goes to pending.bin.
ConsumeEnd ==
    /\ mpc \in {"consume", "drainConsume"} /\ batch = << >>
    /\ pendingBin' = Parked(parked)
    /\ parked' = << >>
    /\ park' = FALSE
    /\ mpc' = IF mpc = "consume" THEN "recover" ELSE "drain"
    /\ UNCHANGED <<device, replica, recovery, baseEnd, rebuildLock, batch, upos,
                   taken, queue, copier, ghosts, extra>>

\* A queued gap, no recovery alive, no base copy in progress.
MayRecover == queue > 0 /\ tpc["rec"] = "off" /\ ~baseProgress

NoRecovery ==
    /\ mpc = "recover" /\ ~MayRecover
    /\ mpc' = "unpark"
    /\ UNCHANGED <<device, files, batch, park, parked, upos, taken, queue,
                   copier, ghosts, extra>>

\* The last write of a block, on the disk or in flight.
Newest(b) == IF inflight[b] = NoWrite THEN disk[b] ELSE inflight[b].val

\* The records that have not reached the replica, between two batches.
Unapplied == Pairs(ring) \cup Pairs(pendingBin) \cup Pairs(deferred)
               \cup UNION {Pairs(late[t]) : t \in Threads}

\* The last write of b is no record on its way, older ones are: what is re-read of b
\* now will be overwritten by them.
Outrun(b) == /\ \E p \in Unapplied : p[1] = b
             /\ <<b, Newest(b)>> \notin Unapplied

\* start_recovery: the bitmap is read and cleared...
ReadBitmap ==
    /\ mpc = "recover" /\ MayRecover
    /\ queue' = queue - 1
    /\ taken' = Extents(bitmap)
    /\ bitmap' = {} /\ overflowed' = FALSE
    /\ raced' = raced
         \cup {<<"early", b>> : b \in {x \in bitmap :
                 inflight[x] # NoWrite /\ ~inflight[x].logged}}
         \cup {<<"outrun", b>> : b \in {x \in bitmap : Outrun(x)}}
    /\ mpc' = "persist"
    /\ UNCHANGED <<disk, inflight, ring, gapPending, nw, files, batch, park,
                   parked, upos, copier, marking, events, read, applied, last,
                   owed, rebuilds>>

\* ... and the extents are saved before the thread starts on them, over those of a
\* recovery that stop or an error ended.
StartRecovery ==
    /\ mpc = "persist"
    /\ raced' = raced \cup {<<"overwritten", b>> :
                               b \in CoveredBy(recovery.extents) \ CoveredBy(taken)}
    /\ recovery' = [on |-> TRUE, extents |-> taken]
    /\ taken' = {}
    /\ tpc' = [tpc EXCEPT !["rec"] = "flag"]
    /\ ranges' = [ranges EXCEPT !["rec"] = taken]
    /\ mpc' = "unpark"
    /\ UNCHANGED <<device, replica, pendingBin, baseEnd, rebuildLock, batch,
                   park, parked, upos, queue, copying, deferred, baseProgress,
                   buf, late, rebuilds, events, read, applied, last, owed,
                   extra>>

MayUnpark == ~Paused /\ pendingBin # << >>

\* The end of a turn of the loop: a consistent point, if one is due.
NextTurn == IF "point" \in Env /\ due /\ baseEnd THEN "mark" ELSE "read"

Unpark ==
    /\ mpc = "unpark"
    /\ mpc' = IF MayUnpark THEN "applyPending" ELSE NextTurn
    /\ upos' = 0
    /\ UNCHANGED <<device, files, batch, park, parked, taken, queue, copier,
                   ghosts, extra>>

\* apply_pending, a record at a time, and the unlink at its end.
ApplyPending ==
    /\ mpc = "applyPending" /\ upos < Len(pendingBin)
    /\ ApplyOne(pendingBin[upos + 1])
    /\ upos' = upos + 1
    /\ UNCHANGED <<device, pendingBin, recovery, baseEnd, rebuildLock, mpc,
                   batch, park, parked, taken, queue, copying, baseProgress,
                   tpc, ranges, buf, late, events, read, owed, extra, rebuilds>>

PendingDone ==
    /\ mpc = "applyPending" /\ upos = Len(pendingBin)
    /\ pendingBin' = << >>
    /\ upos' = 0
    /\ mpc' = NextTurn
    /\ UNCHANGED <<device, replica, recovery, baseEnd, rebuildLock, batch, park,
                   parked, taken, queue, copier, ghosts, extra>>

(***************************************************************************)
(* mark_consistent: freeze the file system, drain the ring, thaw, and      *)
(* record the point.  After a point the next is an hour away: none is due. *)
(***************************************************************************)
MarkBegin ==
    /\ mpc = "mark"
    /\ mpc' = IF Paused \/ tpc["rec"] # "off" \/ baseProgress THEN "read"
                                                            ELSE "freeze"
    /\ UNCHANGED <<device, files, batch, park, parked, upos, taken, queue,
                   copier, extra, ghosts>>

\* fsfreeze -f / returns when all that was written to "/" is on the disk.
Freeze ==
    /\ mpc = "freeze" /\ ~frozen
    /\ \A b \in RootBlocks : inflight[b] = NoWrite
    /\ frozen' = TRUE
    /\ mpc' = "drain"
    /\ UNCHANGED <<device, files, batch, park, parked, upos, taken, queue,
                   copier, overflowed, due, mark, point, stop, ghosts>>

FreezeRefused ==
    /\ mpc = "freeze"
    /\ mpc' = "read"
    /\ UNCHANGED <<device, files, batch, park, parked, upos, taken, queue,
                   copier, extra, ghosts>>

\* The drain ends with an empty read or at its deadline; then the fsync, and the
\* point is what the replica holds now.  mark.stale and mark.why are history: the
\* blocks of "/" that differ from the frozen disk, and what may be the cause.
DrainEnd ==
    /\ mpc = "drain"
    /\ LET stale == {b \in RootBlocks : /\ replica[b] # disk[b]
                                        /\ \A r \in raced : r[2] # b}
           why   == {w \in {"deadline", "parked", "tail"} :
                       \/ w = "deadline" /\ ring # << >>
                       \/ w = "parked" /\ pendingBin # << >>
                       \/ w = "tail" /\ gapPending}
       IN  mark' = IF stale = {} THEN NoPoint ELSE [stale |-> stale, why |-> why]
    /\ mpc' = "thaw"
    /\ UNCHANGED <<device, files, batch, park, parked, upos, taken, queue,
                   copier, overflowed, frozen, due, point, stop, ghosts>>

\* Mutant of Abandoned: gaps found by the drain not looked at.
AbandonedNever == FALSE

\* A gap appeared during the freeze.
Abandoned == queue > 0 \/ tpc["rec"] # "off"

\* The finally clause.
Thaw ==
    /\ mpc = "thaw"
    /\ frozen' = FALSE
    /\ mpc' = "record"
    /\ UNCHANGED <<device, files, batch, park, parked, upos, taken, queue,
                   copier, overflowed, due, mark, point, stop, ghosts>>

RecordPoint ==
    /\ mpc = "record"
    /\ point' = IF Abandoned THEN point ELSE mark
    /\ due' = Abandoned
    /\ mark' = NoPoint
    /\ mpc' = "read"
    /\ UNCHANGED <<device, files, batch, park, parked, upos, taken, queue,
                   copier, overflowed, frozen, stop, ghosts>>

(***************************************************************************)
(* The copy threads: base_copy, recover and their copy_chunk.              *)
(***************************************************************************)
Goto(t, pc) == tpc' = [tpc EXCEPT ![t] = pc]

\* base_copy sets base_progress only once its thread runs.
BaseBegin ==
    /\ tpc["base"] = "start"
    /\ baseProgress' = TRUE
    /\ Goto("base", "flag")
    /\ UNCHANGED <<device, files, mainLoc, copying, deferred, ranges, buf, late,
                   ghosts, extra>>

\* copy_chunk, first section of self.lock.
FlagChunk(t) ==
    /\ tpc[t] = "flag" /\ ranges[t] # {} /\ ~stop
    /\ copying' = First(ranges[t])
    /\ deferred' = << >>
    /\ Goto(t, "devread")
    /\ UNCHANGED <<device, files, mainLoc, baseProgress, ranges, buf, late,
                   ghosts, extra>>

\* dev.read, without the lock.  No property relates two blocks, so one moment
\* for the whole chunk stands for a read that takes its time.
ReadDevice(t) ==
    /\ tpc[t] = "devread"
    /\ buf' = [buf EXCEPT ![t] = disk]
    /\ Goto(t, "write")
    /\ UNCHANGED <<device, files, mainLoc, copying, deferred, baseProgress,
                   ranges, late, ghosts, extra>>

\* replica.pwrite, without the lock; the base copy skips a chunk of zeroes.
WriteReplica(t) ==
    /\ tpc[t] = "write"
    /\ LET chunk == First(ranges[t])[1] .. First(ranges[t])[2]
           skip  == t = "base" /\ \A b \in chunk : buf[t][b] = Zero
       IN  /\ replica' = IF skip THEN replica
                         ELSE [b \in Blocks |-> IF b \in chunk THEN buf[t][b]
                                                               ELSE replica[b]]
           /\ owed' = {b \in owed : b \notin chunk \/ inflight[b] # NoWrite
                                      \/ buf[t][b] # disk[b]}
    /\ buf' = [buf EXCEPT ![t] = << >>]
    /\ Goto(t, "unflag")
    /\ UNCHANGED <<device, pendingBin, recovery, baseEnd, rebuildLock, mainLoc,
                   copying, deferred, baseProgress, ranges, late, events, read,
                   applied, last, raced, extra, rebuilds>>

\* Mutant of LateRecords: self.deferred emptied before it is taken.
LateRecordsDropped(t) == << >>

\* self.deferred is shared: whichever thread unflags takes all of it.
LateRecords(t) == deferred

\* copy_chunk, second section of self.lock.
UnflagChunk(t) ==
    /\ tpc[t] = "unflag"
    /\ copying' = << >>
    /\ late' = [late EXCEPT ![t] = LateRecords(t)]
    /\ deferred' = << >>
    /\ Goto(t, "late")
    /\ UNCHANGED <<device, files, mainLoc, baseProgress, ranges, buf, ghosts,
                   extra>>

\* The records that came in meanwhile, each under the lock again.
ApplyLate(t) ==
    /\ tpc[t] = "late" /\ late[t] # << >>
    /\ ApplyOne(Head(late[t]))
    /\ late' = [late EXCEPT ![t] = Tail(@)]
    /\ UNCHANGED <<device, pendingBin, recovery, baseEnd, rebuildLock, mainLoc,
                   copying, baseProgress, tpc, ranges, buf, events, read, owed,
                   extra, rebuilds>>

ChunkDone(t) ==
    /\ tpc[t] = "late" /\ late[t] = << >>
    /\ ranges' = [ranges EXCEPT ![t] = @ \ {First(@)}]
    /\ Goto(t, "flag")
    /\ UNCHANGED <<device, files, mainLoc, copying, deferred, baseProgress, buf,
                   late, ghosts, extra>>

\* The end of recover: recovery.json goes.
RecoverDone ==
    /\ tpc["rec"] = "flag" /\ ranges["rec"] = {} /\ ~stop
    /\ recovery' = NoFile
    /\ Goto("rec", "off")
    /\ UNCHANGED <<device, replica, pendingBin, baseEnd, rebuildLock, mainLoc,
                   copying, deferred, baseProgress, ranges, buf, late, ghosts,
                   extra>>

\* Mutant of BaseDoneNow: stop not asked after the loop.
BaseDoneStopped ==
    /\ tpc["base"] = "flag" /\ (ranges["base"] = {} \/ stop)
    /\ baseEnd' = TRUE
    /\ Goto("base", "finish")
    /\ UNCHANGED <<device, replica, pendingBin, recovery, rebuildLock, mainLoc,
                   copying, deferred, baseProgress, ranges, buf, late, ghosts,
                   extra>>

\* The end of base_copy: the manifest first, base_progress after it.
BaseDoneNow ==
    /\ tpc["base"] = "flag" /\ ranges["base"] = {} /\ ~stop
    /\ baseEnd' = TRUE
    /\ Goto("base", "finish")
    /\ UNCHANGED <<device, replica, pendingBin, recovery, rebuildLock, mainLoc,
                   copying, deferred, baseProgress, ranges, buf, late, ghosts,
                   extra>>

\* Mutant of BaseExit: base_progress left as it was.
BaseExitStillSyncing ==
    /\ tpc["base"] = "finish"
    /\ Goto("base", "off")
    /\ UNCHANGED <<device, files, mainLoc, copying, deferred, baseProgress,
                   ranges, buf, late, ghosts, extra>>

BaseExit ==
    /\ tpc["base"] = "finish"
    /\ baseProgress' = FALSE
    /\ Goto("base", "off")
    /\ UNCHANGED <<device, files, mainLoc, copying, deferred, ranges, buf, late,
                   ghosts, extra>>

\* Either thread returns between two chunks when stop is set: the base copy
\* without its mark in the manifest, the recovery without removing its file.
Interrupted(t) ==
    /\ tpc[t] = "flag" /\ stop
    /\ ranges' = [ranges EXCEPT ![t] = {}]
    /\ baseProgress' = (baseProgress /\ t # "base")
    /\ Goto(t, "off")
    /\ UNCHANGED <<device, files, mainLoc, copying, deferred, buf, late, extra,
                   ghosts>>

\* The device or the replica fails under a copy thread: the exception ends the
\* thread, with the late records it had still to apply, and nothing is taken back.
CopyFail(t) ==
    /\ "ioerror" \in Env /\ events < MaxEvents
    /\ tpc[t] \in {"devread", "write"} \/ (tpc[t] = "late" /\ late[t] # << >>)
    /\ events' = events + 1
    /\ raced' = raced \cup {<<"error", b>> : b \in CoveredBy(ranges[t])}
    /\ read' = read \ Ids(late[t])
    /\ ranges' = [ranges EXCEPT ![t] = {}]
    /\ buf' = [buf EXCEPT ![t] = << >>]
    /\ late' = [late EXCEPT ![t] = << >>]
    /\ Goto(t, "off")
    /\ UNCHANGED <<device, files, mainLoc, copying, deferred, baseProgress,
                   extra, applied, last, owed, rebuilds>>

\* Mutant of StatusState: recovery_active() not asked.
StatusStateIdle ==
    IF baseProgress THEN "SYNCING"
    ELSE IF queue > 0 THEN "RECOVERING"
    ELSE IF rebuildLock THEN "PAUSED"
    ELSE IF overflowed THEN "BITMAP" ELSE "CDP"

\* The state write_status reports, its reads taken as one; no seed is required
\* here.
StatusState ==
    IF baseProgress THEN "SYNCING"
    ELSE IF tpc["rec"] # "off" \/ queue > 0 THEN "RECOVERING"
    ELSE IF rebuildLock THEN "PAUSED"
    ELSE IF overflowed THEN "BITMAP" ELSE "CDP"

(***************************************************************************)
(* rkcdp-rebuild, which wants base_end_seq in the manifest, holds          *)
(* .rebuild.lock while it copies the replica; systemd restarts a daemon    *)
(* that died, with only its files.                                         *)
(***************************************************************************)
RebuildBegin ==
    /\ baseEnd /\ ~rebuildLock /\ rebuilds < MaxRebuilds
    /\ rebuildLock' = TRUE /\ rebuilds' = rebuilds + 1
    /\ UNCHANGED <<device, replica, pendingBin, recovery, baseEnd, mainLoc,
                   copier, extra, events, read, applied, last, owed, raced>>
RebuildEnd ==
    /\ rebuildLock
    /\ rebuildLock' = FALSE
    /\ UNCHANGED <<device, replica, pendingBin, recovery, baseEnd, mainLoc,
                   copier, ghosts, extra>>

\* What the process has in memory is gone, and systemd starts another.
ProcessGone ==
    /\ mpc' = "init" /\ batch' = << >> /\ park' = FALSE /\ parked' = << >>
    /\ upos' = 0 /\ taken' = {} /\ queue' = 0
    /\ copying' = << >> /\ deferred' = << >> /\ baseProgress' = FALSE
    /\ tpc' = [t \in Threads |-> "off"]
    /\ ranges' = [t \in Threads |-> {}]
    /\ buf' = [t \in Threads |-> << >>]
    /\ late' = [t \in Threads |-> << >>]
    /\ due' = TRUE /\ mark' = NoPoint /\ stop' = FALSE
    /\ raced' = raced \cup {<<"cleared", b>> : b \in CoveredBy(taken)}
    /\ UNCHANGED <<device, files, overflowed, point, read, applied, last, owed,
                   rebuilds>>

Crash ==
    /\ "crash" \in Env /\ mpc # "init" /\ events < MaxEvents
    /\ events' = events + 1
    /\ ProcessGone
    /\ UNCHANGED frozen

\* fsfreeze outlasts freeze_cap_sec: nothing catches TimeoutExpired, the variable
\* frozen is still False, and the killed command may have frozen all the same.
FreezeTimeout ==
    /\ "crash" \in Env /\ mpc = "freeze" /\ events < MaxEvents
    /\ events' = events + 1
    /\ frozen' \in {frozen, \A b \in RootBlocks : inflight[b] = NoWrite}
    /\ ProcessGone

\* SIGTERM sets stop; the loop and the threads end at their next look at it...
OnSig ==
    /\ "stop" \in Env /\ mpc # "init" /\ ~stop /\ events < MaxEvents
    /\ events' = events + 1
    /\ stop' = TRUE
    /\ UNCHANGED <<device, files, mainLoc, copier, overflowed, frozen, due,
                   mark, point, read, applied, last, owed, raced, rebuilds>>

\* ... and the process ends with the last of its threads, none of them a daemon
\* thread: join's 30 s end only main's wait.
Exit ==
    /\ mpc = "read" /\ stop
    /\ \A t \in Threads : tpc[t] = "off"
    /\ ProcessGone
    /\ UNCHANGED <<events, frozen>>

-----------------------------------------------------------------------------
MainStep ==
    \/ Start \/ ReadRing \/ ReadNothing \/ Consume \/ ConsumeEnd
    \/ NoRecovery \/ ReadBitmap \/ StartRecovery
    \/ Unpark \/ ApplyPending \/ PendingDone
    \/ MarkBegin \/ Freeze \/ FreezeRefused \/ DrainEnd \/ Thaw \/ RecordPoint
    \/ Exit

CopyStep(t) ==
    \/ FlagChunk(t) \/ ReadDevice(t) \/ WriteReplica(t) \/ UnflagChunk(t)
    \/ ApplyLate(t) \/ ChunkDone(t) \/ Interrupted(t)
    \/ t = "rec" /\ RecoverDone
    \/ t = "base" /\ (BaseBegin \/ BaseDoneNow \/ BaseExit)

NodeStep ==
    \/ \E b \in Blocks : Write(b) \/ Complete(b) \/ CompleteError(b)
    \/ MainStep
    \/ \E t \in Threads : CopyStep(t) \/ CopyFail(t)
    \/ Crash \/ FreezeTimeout \/ OnSig

Next == NodeStep \/ RebuildBegin \/ RebuildEnd

Spec == Init /\ [][Next]_vars

\* The device completes its writes, both loops and both threads run, and a
\* rebuild removes its lock (it does so in a finally clause).
FairSpec ==
    /\ Spec
    /\ \A b \in Blocks : WF_vars(Complete(b))
    /\ WF_vars(MainStep)
    /\ \A t \in Threads : WF_vars(CopyStep(t))
    /\ WF_vars(RebuildEnd)

-----------------------------------------------------------------------------
(***************************************************************************)
(* Properties.                                                             *)
(***************************************************************************)
Vals    == -1 .. MaxWrites
Records == [blk : Blocks, val : 1 .. MaxWrites, gap : BOOLEAN, done : BOOLEAN]
MainPcs == {"init", "read", "consume", "recover", "persist", "unpark",
            "applyPending", "mark", "freeze", "drain", "drainConsume", "thaw",
            "record"}
CopyPcs == {"off", "start", "flag", "devread", "write", "unflag", "late",
            "finish"}
Chunks  == {c \in Blocks \X Blocks : c[1] <= c[2]}
Points  == [stale : SUBSET Blocks, why : SUBSET {"deadline", "parked", "tail"}]

\* The types of the daemon's state.
DaemonTypeOK ==
    /\ disk \in [Blocks -> Vals] /\ replica \in [Blocks -> Vals]
    /\ inflight \in [Blocks -> [val : 0 .. MaxWrites, logged : BOOLEAN]]
    /\ \A s \in {ring, pendingBin, batch, parked, deferred} : s \in Seq(Records)
    /\ Len(ring) <= RingCap
    /\ gapPending \in BOOLEAN /\ bitmap \subseteq Blocks
    /\ recovery.on \in BOOLEAN /\ recovery.extents \subseteq Chunks
    /\ baseEnd \in BOOLEAN /\ rebuildLock \in BOOLEAN
    /\ mpc \in MainPcs /\ park \in BOOLEAN /\ taken \subseteq Chunks
    /\ upos \in Nat /\ queue \in Nat /\ nw \in 0 .. MaxWrites
    /\ copying = << >> \/ copying \in Chunks
    /\ \A x \in {baseProgress, overflowed, frozen, due, stop} : x \in BOOLEAN
    /\ {mark, point} \subseteq Points
    /\ tpc \in [Threads -> CopyPcs]
    /\ \A t \in Threads : ranges[t] \subseteq Chunks /\ late[t] \in Seq(Records)

\* Nothing is on its way any more.
Idle ==
    /\ \A b \in Blocks : inflight[b] = NoWrite
    /\ ring = << >> /\ batch = << >> /\ parked = << >> /\ pendingBin = << >>
    /\ mpc \notin {"init", "persist"} /\ queue = 0
    /\ \A t \in Threads : tpc[t] = "off"
    /\ baseEnd /\ ~rebuildLock

Settled == Idle /\ ~gapPending

\* When nothing is on its way the replica is the disk, but for the blocks hit by
\* one of the given races.
CurrentBut(reasons) ==
    Settled => \A b \in Blocks : \/ replica[b] = disk[b]
                                 \/ \E r \in reasons : <<r, b>> \in raced

\* rkcdpd "keep[s] this node's replica.raw on NFS identical to its disk": the base
\* copy with live and parked records beside it, and, once there is a base, live
\* and parked records with bitmap recoveries, leave no block behind, except for
\* four causes named in raced: a record applied over a later one or twice, a bit
\* cleared while its dropped write was in flight, a bit used up for a dropped
\* write whose block has older records on their way, which overwrite what is
\* re-read now, and a write that failed on the disk, whose record apply_one
\* applies although cdp-apply refuses such a record.  A recovery resumed beside a
\* base copy, two threads with one self.copying, is no part of it.
ReplicaCurrent == CurrentBut({"reordered", "early", "outrun", "failed"})

\* Every record read from the ring is in the replica or still held: copy_chunk,
\* parking and the batch being consumed lose none, unless an I/O error ends the
\* thread that holds it.
NoRecordLost ==
    read \subseteq applied \cup Ids(batch) \cup Ids(parked) \cup Ids(pendingBin)
                  \cup Ids(deferred)
                  \cup UNION {Ids(late[t]) : t \in Threads}

\* A block whose last write was dropped and that was not re-read since is marked,
\* in the bitmap or in the extents of a recovery, but for the given causes.
MarkedBut(causes) ==
    \A b \in owed : \/ b \in bitmap \cup CoveredBy(taken)
                                   \cup CoveredBy(recovery.extents)
                    \/ \E r \in causes : <<r, b>> \in raced

\* No dropped write is forgotten before its block has been re-read, over crashes
\* and restarts too: "crash safety: redone on restart" (rkcdpd.py:375).  Not if
\* its bit was cleared while the write was in flight, or a daemon died between
\* the clearing and recovery.json, or that file was overwritten by the next
\* recovery after an I/O error or the stop signal ended the one it is of.
NothingForgotten == MarkedBut({"early", "cleared", "overwritten"})

\* write_status says CDP only when no dropped write waits for its recovery: the
\* kernel's flag speaks for a gap nobody has read yet and for one a dead daemon
\* took with it.  Nothing does between the clearing of the bitmap and the start of
\* the recovery thread, or in the last status of a daemon that is stopped during
\* its recovery.
CdpMeansRepaired ==
    (mpc \notin {"init", "persist"} /\ ~stop /\ StatusState = "CDP") =>
        \A b \in owed : \E r \in {"early", "cleared", "overwritten", "error"} :
                           <<r, b>> \in raced

\* "manifest.base_end_seq marks completion" (rkcdpd.py:20): with it in the
\* manifest, every block of the old disk has reached the replica, whatever
\* crashes and recoveries there were on the way.
BaseEndMeansCopied == baseEnd => \A b \in Blocks : Before[b] = Old => replica[b] # Zero

\* Every write, parked record, queued gap and copy comes to its end, unless an I/O
\* error has ended a copy thread.
BecomesIdle == <>[](Idle \/ \E r \in raced : r[1] = "error")

\* "seq <= consistent_seq does [have a single instant]" (mark_consistent): at a
\* recorded point the replica holds the frozen file system "/", but for the blocks
\* named in raced, unless the drain was cut short by its deadline, records were
\* parked by a rebuild that came or went around the freeze, or the last write
\* before it was dropped and no record behind it carries the gap.  Of the other
\* file systems of the device nothing is promised: they are written throughout.
PointConsistent == point.stale # {} => point.why # {}
=============================================================================
