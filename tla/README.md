# Verification of dm-cdp and rkcdp

TLA+ models, TLC runs and TLAPS proofs for the continuous data protection
target `drivers/md/dm-cdp.c`, the replication daemon `rkcdp/rkcdpd.py`, and the
seeding and rebuilding of nodes around it.

## 1. The system

| part | source | state | operations |
|---|---|---|---|
| target: ring | `dm-cdp.c` | `head`, `tail`, ring memory, `seq_next`, `gap_pending`, `overflowed`, per-bio `cdp_pb` | `cdp_map` -> `cdp_log` -> `cdp_mark`, `cdp_reserve`, copy; `cdp_end_io` |
| target: readers | `dm-cdp.c` | `read_lock`, wait queue, `dead` | `cdp_read`, `cdp_poll`, `cdp_dtr` |
| target: bitmap | `dm-cdp.c` | one bit per chunk | `cdp_mark`, `DM_CDP_IOC_BITMAP` (read and clear), `..._BITMAP_CLEAR`, message `clear_bitmap` |
| target: life | `dm-cdp.c` | kref, minor, cdev | `cdp_ctr`, `cdp_dtr`, `cdp_open`, `cdp_release` |
| daemon | `rkcdp/rkcdpd.py` | `copying`, `deferred`, `base_progress`, `recovery_queue`; files `replica.raw`, `manifest.json`, `recovery.json`, `pending.bin` | `main`, `consume`, `apply_one`, `apply_pending`, `copy_chunk`, `base_copy`, `start_recovery`, `recover`, `check_seed`, `mark_consistent` |
| seed layer | `rkcdpd.py`, `rkcdp-seed.py` | `seed.raw`, `manifest.seeded` | `preserve`, seeding, adoption |
| rebuild, API | `rkcdp-rebuild.py`, `api_rkcdp.py` | `.rebuild.lock`, progress file | quiesce, copy, overlay, create VM |
| tools | `tools/cdp-drain.c`, `tools/cdp-apply.c` | a stream file | drain, replay |
| installation | setup, initramfs, udev, systemd | - | one-shot scripts |

How they meet.  Every write bio passes `cdp_map`: its chunks are marked, a
record is reserved in the ring (or dropped, with `gap_pending` set), the payload
copied; the device's completion commits the record in `cdp_end_io`.  Readers of
`/dev/cdpN` take committed records from the front.  The daemon is such a reader:
its main thread applies records to `replica.raw`, or parks them in `pending.bin`
while `.rebuild.lock` exists; a base copy thread copies the whole disk once; a
record flagged `GAP_BEFORE` queues a recovery, whose thread re-reads the chunks
of the (read and cleared) bitmap.  Once an hour the main thread freezes the file
system, drains the ring and records a consistent point.  A status thread writes
`status.json` every second; the API shows a node by it and by its age, and starts
`rkcdp-rebuild`, which takes `.rebuild.lock`, waits for the status to say `PAUSED`,
copies `replica.raw` and makes a virtual machine of the copy.  `systemd` restarts a
daemon that dies.

What is hard here: producers, readers, completions, bitmap clears and the
target's removal share memory under two locks that overlap little; bios complete
out of order; the ring wraps with pads and with slack too small for a pad; two
copy threads and the main loop share `copying` and `deferred`; a bit is set at
submission and means something only after completion; the daemon's progress is
spread over a ring it cannot put records back into, a bitmap it clears, and four
files; rebuild, API and daemon know each other only through files and their ages;
the freeze covers the root file system only, whatever else the device holds; a write
that fails on the device has a record all the same.

What makes each part correct:

- *target* - the delivered stream is the acknowledged records, in submission
  order, whole, once, with exact gap flags; a drop is always covered by the
  bitmap; I/O never waits for readers; every record is delivered.
- *daemon* - when nothing is on its way the replica is the disk; no record or
  owed chunk is forgotten; `base_end_seq` means copied; everything parked or
  queued comes to its end; a consistent point is the frozen file system; the status
  says CDP only when nothing is owed.
- *rebuild and API* - a copy is the replica of one moment; a rebuild, failed or
  not, leaves neither lock nor `running` behind; a dead node is shown as such.
- *seeding* - what the host's copy missed is in the bitmap of the same boot;
  `seed.raw` laid over the replica is what the replica was when `seed.raw` was made.

## 2. Modules

| module | models |
|---|---|
| `CdpTarget` | the target: ring, records, readers, bitmap, removal; its properties |
| `CdpInvariant` | the inductive invariant `IInv` of the proofs |
| `CdpTypeProofs`, `CdpTargetProofs`, `CdpBitmapProofs` | theorems about the target: types, ring and stream, bitmap and removal |
| `CdpStream` | abstract specification: a stream without a ring |
| `MCCdpTarget`, `MCCdpStream` | instances for TLC; the refinement mapping to `CdpStream` |
| `Rkcdpd` | the daemon, the device below it seen as a stream plus a bitmap |
| `RkcdpdProofs`, `RkcdpReplicaProofs` | theorems about the daemon: files, marks and records; the replica and the consistent points |
| `MCRkcdpd` | instances, and two promises of the code that do not hold |
| `RkcdpRebuild` | the daemon's status thread, the API and rebuilds, composed with `Rkcdpd` |
| `RkcdpRebuildProofs` | theorems about rebuilds: the refinement of `Rkcdpd`, copies of one moment |
| `MCRkcdpRebuild` | instances of it for TLC |
| `RkcdpSeed` | `rkcdp-seed`, the adoption of a seed, the seed layer, reboots |
| `RkcdpSeedProofs` | theorems about seeding |
| `NatFacts` | lemmas on naturals and finite sets used by all the proofs |

**CdpTarget.**  Variables carry the names of `struct cdp_target`.  A step is what
no other process sees inside of: `cdp_reserve` is one step under `t->lock`,
except that the pad branch, which publishes `head` first, is split (`ReservePad`,
`ReserveRecord`); `cdp_mark` sets one bit per step (`Mark`); the payload copy and
`ST_DATA` are `CopyData`; the copy to the user and the store of `tail` are
`CopyOut` and `Advance`; the look at the record's state and the look at `dead` are
`FindEmpty` and `ReturnEof`/`ReturnAgain`/`Wait`; the bitmap is cleared a word at a
time (`ClearWord`), the flag after it (`ClearFlag`).  The ring is an array of
cells of 8 bytes: a header is one cell with fields plus filler, payload cells name
the record they belong to, so a torn or overwritten record shows.  `log`, `got`,
`lost`, `slot`, `owe`, `owed`, `rlate` are history variables.  `READ` stands for
every bio that is not logged.  Memory is sequentially consistent: the accesses the
code leaves without a barrier are listed as hazards, not modelled.

**Rkcdpd.**  The disk has `NBlocks` blocks of one bitmap chunk each; a block's
content is the number of the write that made it, and a write, a record or a device
error is about a whole block.  `RootBlocks` are those of the file system `/`: all,
some or none, since the device need not be the root disk.  A step is a critical
section of `self.lock`, a ring read, an ioctl, a device read, a replica write or a
file operation.  `Crash` drops everything in memory and keeps the files and the
kernel's state, as a killed process does; `Start` is what `main` does before its
loop. A list of extents, cut into pieces of a chunk, is the set of its pieces: they
do not overlap and the loops take them in ascending order (`First`). `disk` changes
and the record is committed in one step, `Complete`: reading new data earlier would
only help the replica.  `CompleteError` is `cdp_end_io` with an error: the record is
committed with `F_ERROR`, the disk has the data or has not, and the daemon, which
never looks at the flag, applies the record.  `mark_consistent` is `MarkBegin`,
`Freeze` or `FreezeRefused`, the drain (`ReadRing`, `Consume`, `ConsumeEnd` again),
`DrainEnd`, `Thaw`, `RecordPoint`; while `frozen`, nobody writes to `RootBlocks`,
and the other blocks are written as ever.  `OnSig` sets `stop`, which the loop and
the threads see at the places where the code looks at it (`Interrupted`, `Exit`).
`CopyFail` is an exception in a copy thread, at the read, at the write or at a late
record; `FreezeTimeout` the `TimeoutExpired` nobody catches, after which the file
system may or may not be frozen.  `raced` records, per block, what can leave it
stale or unmarked - a record applied over a later one, a bit cleared while its write
was in flight (`early`), a bit used up while older records of the block are on their
way (`outrun`), a daemon that died between the clearing and `recovery.json`
(`cleared`), a `recovery.json` replaced by the next recovery's (`overwritten`), a
write that failed on the device (`failed`), an I/O error of a copy thread (`error`)
- so that `ReplicaCurrent` and `NothingForgotten` can say: *these and no others*.
`mark` and `point` hold, as history, the frozen blocks in which the replica differed
from the disk, if there were any, and the possible causes.

**RkcdpRebuild.**  Extends `Rkcdpd`; its steps are steps of the daemon with the
rebuilds beside them (`Daemon`), a turn of the status thread, time passing over a
status nobody renews, a request to the API (`Post`), and the steps of a rebuild:
`Begin`, `Check`, `TakeLock`, `Quiesced`, `CopyBlock`, `Unlock`, `Done`, `Fail`,
`Finally`.  The age of `status.json` has three values, since its readers compare it
with 30 and 60 seconds.  `TakeLock` and `DropLock` say themselves what they do to the
daemon's variables: that this is no more than `Rkcdpd`'s `RebuildBegin` and
`RebuildEnd` allow, with the check's `base_end_seq` still true when the lock is
taken, is what `ImplementsDaemon` checks.  `images` and `disturbed` are history: the
contents the replica had during the copy, and the copies that were made while
something the lock does not stop could write.

**RkcdpSeed.**  A chunk is a piece of dd, of the bitmap, of the copy threads and of
`seed.raw` at once; its content is a number, `Zero` being also a hole.  The tool's
dd has a read and a write step, so that writers and the daemon's records come in
between; both programs read, change and write `manifest.json` in two steps; a write
to the replica is `BeginStore` (preserve the chunk) and `Store`.  The daemon's loop
is `ReadRecord`/`ReadNothing`, then `check_seed` (`NoSeedYet`, `AdoptSeed`,
`RefuseSeed`), then the recovery's start; its copy threads take a chunk at a time,
the protocol between them and the loop being `Rkcdpd`'s.  `SeedBegin` goes on at the
resume point; `SeedAnew` copies from chunk 0, as a run by hand after the first one
or for a VM on another host does, beside a `seed.raw` that stays.  `Crash` kills the
daemon, `SeedFail` the tool, `Reboot` both and the kernel's memory.  History:
`copied`; `point`, the replica when `seed.raw` was created (`SeedCreate`); `past`,
the chunks changed after that without the seed layer, by records the daemon applies
before it attaches the layer or by the dd of a second run; `dead`.

Definitions called "Mutant of X" are plausible errors in the code X models; with
them in X's place the property named in `PROJECT.json` fails.

## 3. Runs

Passing:

| run | shows | bounds |
|---|---|---|
| `ring_safety` | `TypeOK`, `IInv`, `RingIntact`, `CursorAtNext`, `StreamFaithful`, `EmptyRingAccepts`, `LateEofComplete` | ring of 12 cells, header 2, records of 2 and 3, 6 bios of which 2 in flight: the ring wraps with slack 1 and with a pad header; a buffer that holds two records or is too short for the second, `EFAULT` before and after a record was taken, unlogged bios reusing per-bio data, removal |
| `stream_delivery` | `ImplementsStream`: `CdpTarget` implements `CdpStream`, its fairness included | two blocking readers, signals, device errors, too large records, removal |
| `dropped_writes` | `BitmapCoversDrops`, `IoNeverBlocks` | 3 sectors in chunks of 2 (short last one), words of one bit so that a clear takes two steps, a full ring, readers that may never run |
| `daemon_base` | `DaemonTypeOK`, `ReplicaCurrent`, `PointConsistent`, `NoRecordLost` | 3 blocks in chunks of 2, two of them of `/`, 3 writes, one rebuild, consistent points, one stop signal or failed write; the ring holds all writes |
| `daemon_crash` | `BaseEndMeansCopied`, `NothingForgotten`, `CdpMeansRepaired`, `BecomesIdle` | one crash, stop, I/O error or freeze that times out, at any point; base copy, consistent points, one rebuild that parks records, 3 writes, a ring of one record |
| `rebuild_copy` | `CopyOfOneMoment`, `PointConsistent`, `ReplicaCurrent`, `NoRecordLost` | one rebuild, 2 blocks, one of them of `/`, 3 writes, a ring of one record: the lock comes and goes in a batch, in a recovery, around a freeze; gaps in live and in parked records |
| `rebuild_end` | `EndsClean`, `ImplementsDaemon`, `DeadShownStale` | two requests at once, each with or without `--force`; base copy, one dropped write, one stop or crash, restart or not |
| `seed_adopt` | `SeedTypeOK`, `SeedCovered`, `SeedPointKept`, `WrittenOnce` | 2 chunks, one of zeroes, 2 writes, two of: crash, failed tool, reboot, a run that copies anew |

The bounds are the smallest at which the interesting cases meet: one and a half
turns of the ring, two records in flight, a crash inside the base copy with an
overflow pending, a lock that appears inside a batch of two records, a record parked
behind a gap, a write of a block that is not frozen between freeze and drain, a
second rebuild that starts before the first has written its progress, a tool that
fails in one boot and resumes in the next.  Symmetry of bios is used in safety runs
only.

Violated, each by what the code does; `PROJECT.json` quotes the sentence each one
contradicts:

| run | what TLC exhibits |
|---|---|
| `late_apply` | `copy_chunk`'s late record overwrites a newer one |
| `seed_resume` | after a reboot the seeding resumes and passes old chunks off as this boot's |
| `stop_overwrite` | a stop signal interrupts a recovery, and a queued one replaces its `recovery.json` before the daemon ends |
| `quiesce_race` | `PAUSED` is reported while a batch is still applied, and the copy mixes two moments |

Further weaknesses of the code are named as exceptions in the properties that
hold.  A property tells them from everything else that could go wrong; it does not
catch them:

| exception | in | what happens |
|---|---|---|
| `reordered` | `ReplicaCurrent` | a record is applied over a later one: `late_apply`, parked after fresh records, or twice |
| `early` | `ReplicaCurrent`, `NothingForgotten`, `CdpMeansRepaired` | a bit is cleared while its dropped write is in flight |
| `outrun` | `ReplicaCurrent` | one gap's bitmap read uses up the bits of a later drop, and older records are then applied over what was re-read |
| `failed` | `ReplicaCurrent`, `PointConsistent` | `apply_one` applies the record of a write that failed (`F_ERROR`), which `cdp-apply` refuses |
| `cleared` | `NothingForgotten`, `CdpMeansRepaired` | a daemon dies between the clearing of the bitmap and `recovery.json` |
| `overwritten` | `NothingForgotten`, `CdpMeansRepaired` | a `recovery.json` is replaced by the next recovery's |
| `error` | `CdpMeansRepaired`, `BecomesIdle` | an exception ends a copy thread and leaves its chunks |
| `disturbed` | `CopyOfOneMoment` | the daemon has records in hand when the copy begins (`quiesce_race`), a recovery runs during it, or another rebuild removes the lock |
| `deadline`, `parked`, `tail` | `PointConsistent` | the drain is cut short, a rebuild came or went, or the last write before the freeze was dropped |
| `past` | `SeedPointKept` | a chunk changes after the creation of `seed.raw` and not through the layer; so may a chunk of zeroes, which is a hole |
| `Spoils` | `SeedCovered` | dd leaves zeroes unwritten over the data of an earlier boot, or a second run's dd is overtaken by a recovery |

Any of the races counts in `PointConsistent`.  `CdpMeansRepaired` exempts the moment
between `start_recovery`'s ioctl and its thread; `SeedCovered` and
`NothingForgotten` take a set bit for a mark whether or not a recovery is due for
it.  With two copy threads at once (a recovery resumed beside a base copy)
`ReplicaCurrent` and `NoRecordLost` are false; the runs and theorems have a base
copy or overflows.  Hazards without a property are listed with a note in
`PROJECT.json`; one of them is the freeze that no thaw follows when its process is
gone.

**Fairness.**  `IoFairness`: `cdp_map` does not block and the device completes its
bios.  `ReadFairness`: consumers keep calling `read`; it is weak fairness per file
of the whole of `cdp_read`, as a scheduled task has.  `dropped_writes` uses the first
only.  The daemon's `FairSpec`: the device completes writes, each thread is
scheduled, and a rebuild removes its lock (`finally`).  `RFairSpec`: a live daemon's
status thread runs, time passes, and a rebuild is not killed; it asks nothing of
the daemon's other threads.  Nothing assumes that writes stop except their bound.

## 4. Proofs

All theorems hold for every value of the constants that satisfies the named
assumptions; `PROJECT.json` lists them.  TLC checks the same properties in the runs,
and checked each inductive invariant on small instances before it was proved.

**The target** (`CdpTypeProofs`, `CdpTargetProofs`, `CdpBitmapProofs`), for every
ring, header, chunk and word size, number of bios and of readers, and every set of
requests, under `SizesAssumption` (a quarter of the ring holds a header) and
`InputsAssumption` (bios lie inside the device): `TypeCorrect`; `Inductive`, and
from it `RingSafe`, `CursorSafe`, `StreamSafe`; `EmptyRingSafe`; `DropsCovered`;
`LateEofSafe`.

`RingIntact` is not inductive: it says nothing about what lies between records,
about who may still write to one, or about the moment between the two halves of a
padded reservation.  `IInv` adds, on the line of ever-growing offsets:

- `Layout` - records have legal sizes, do not overlap, none crosses a ring
  boundary;
- `Chain` - `tail` is the end of the last record read; from there each record is
  linked to the next directly, or over slack, or over a pad header still in
  place; the last one to `head`;
- `Contents` - unread records are in the ring;
- `Owners` - a bio in flight and its record agree until `cdp_end_io`, so that no
  completion writes elsewhere;
- `Padded` - while `head` is at the boundary the lock is held and the space for
  the record stays free;
- `Counters`, `Reading`, and `StreamFaithful` itself.

The step that carries the weight: two distinct offsets of the window
`tail .. tail + RingSize` lie in distinct cells, so a store into free space touches
no unread record.  `BitmapInv` adds that a bio which may still be dropped has each of
its sectors marked, or will mark it, unless a clear has told of the bit since;
`RemovalInv` that no bio is inside a removed target, so that no record is pending
and a later reader that finds nothing has everything.

**The daemon** (`RkcdpdProofs`), under `DaemonAssumption` (sizes are positive,
bounds are numbers) and `EnvAssumption` (the blocks of `/` are blocks of the
device): with any number of crashes, stops, errors, recoveries and rebuilds,
`DaemonTypes`, `BaseComplete`, `DropsRemembered`, `CdpIsRepaired`.  `DaemonInv` is
`TypeInv`; `BaseInv` (old data is never zero anywhere on its way, and what is not in
the replica is in the chunks the base copy has left); `OwedInv` (what is known of a
block that owes a dropped write: its bit, or its flight, or the flag of the kernel)
and `RecoveryInv` (which of bitmap, `taken`, `recovery.json` and the thread's chunks
has it).  The loops over extents rest on `PiecesCover` and `ExtentsCover`: the
pieces of `bitmap_extents` are chunks of the disk and cover exactly the set bits.

`RecordsKept` needs `Calm`: no crash, no I/O error, and one copy thread at a time
(the base copy was done before, or the ring never overflows).  Two threads at once
do lose records (a hazard of the list), so the assumption is the code's, not the
proof's.  `OneCopier` and `KeepInv` say which list may be filled where.

**The replica** (`RkcdpReplicaProofs`), under `Undisturbed`, which is `Calm` and,
where writes can be dropped, no stop signal (the queue of gaps is only in memory):
`ReplicaIsDisk` and `PointsConsistent`.  `ReplicaInv` follows the last write of
every block, `Newest`:

- `CurrentInv` - the replica has it, or its record is on its way (`Awaited`), or the
  block will be re-read (`Coming`: told by a gap that is still to be read, in the
  extents taken, or in the chunks a thread has left), or a race or a failed write
  excuses it (`Excused`);
- `OrderInv` - records on their way end with the last write, or are no newer than
  what was applied, or the block will be re-read: an old record cannot be the last
  to arrive unnoticed;
- `BufInv` - so it is with what a copy thread has read and not written yet, for no
  record of its chunk is applied meanwhile;
- `FlightInv` - a write in flight has its record in the ring, not acknowledged, or
  is told of; `NumInv`, `ThreadInv` - of a block that had no failed write nothing is
  newer than what the disk has or will have, and what the threads' places imply.

After a failed write the disk may keep its older data while the record is newer:
`Newest` goes back, which is why the invariants let go of such a block.

`PointInv` adds that during the drain nothing is in flight to a block of `/` and no
recovery runs; so an empty read ends the drain with the replica of these blocks at
`Newest`, which is the disk, whatever is written to the others.  The
attempt to prove `OrderInv` over `ReadBitmap` corrected the model: the race `outrun`
had been noted only for blocks still owed, and a block that an earlier recovery had
re-read in the meantime is hit in the same way.

**Rebuilds** (`RkcdpRebuildProofs`), for any number of them (`ProcsAssumption`):
`RebuildsImplementDaemon`, the refinement of `Rkcdpd`'s specification, with
`LockInv` (who holds the lock has found `base_end_seq`), by which every safety
theorem above holds beside overlapping and failing rebuilds; and
`CopiesOfOneMoment`, with `CopyInv` (a copy that nothing disturbs is a prefix of a
replica that stands still).

**Seeding** (`RkcdpSeedProofs`), for every disk and number of writes, failures and
reboots: `SeedTypes`, `SeedCoverage`, `SeedPointSafe`, `SeedRawOnce`, from
`SeedInv`: `ToolInv` (past its copy the tool has made `seed.raw`, and so it was when
a manifest names a seed) and `DaemonInv` (what a daemon holds, and a dead one does
not), `LayerInv` and `KeptInv` (a chunk with data at the creation of `seed.raw` is
in it or still in place, also between the two steps of a store, or in `past`),
`LastRecordInv` (the last record of a chunk is what the disk holds) and `CoverInv`
(what is about to be written is current, or the chunk is attended to).

`NatFacts` states induction for sets (`LeastNat`, `SetInduction`), the form that these
provers can instantiate.

**Only model-checked.**  Liveness (`IoNeverBlocks`, `BecomesIdle`,
`EndsClean`, `DeadShownStale`) and the fairness in `ImplementsStream` are beyond the
prover.  The safety part of `ImplementsStream` is the next proof of the plan.
`ReplicaCurrent` during a base copy whose ring overflows has no theorem: there two
copy threads share `copying`, and it is false.

## 5. Plan

1. Proofs: the safety part of `ImplementsStream` (`CdpTarget` steps are steps of
   `CdpStream` or stutters), from `IInv`; what of `ReplicaIsDisk` survives a crash.
2. Seeding: a lost `seeded`, a lost drain (liveness), gaps during a seeding;
   reboots in `Rkcdpd`; records and extents of parts of a chunk there.
3. `CdpLifecycle`: constructor unwinding, open files, kref, minors.
4. `CdpReplay`: `cdp-drain` and `cdp-apply` over the stream of `CdpStream`.

## 6. Not modelled

Statistics counters, status texts and `poll` masks change nothing the properties
see.  FUA and PREFLUSH flags and time stamps are carried data.  `ensure_target`,
configuration, `node.json`, setup, packaging and the UI are one-shot commands or
presentation.  The page cache of the block device, NFS and the file system's own
write ordering lie outside the repository.

A block of `Rkcdpd` and a chunk of `RkcdpSeed` are a bitmap chunk each, so a few
paths about sizes do not occur: a record that overlaps the flagged chunk in part and
is deferred whole (`rkcdpd.py:468`), the last extent of a device whose size is no
multiple of the chunk (`dmcdp.py:97`) with its short or empty read
(`rkcdpd.py:349-350`, `387-388`), and a failed write that changes part of a block.
The successive reads of `write_status` are one (`StatusState`).  Of a freeze nothing
is claimed but the point it serves: a live daemon thaws in a finally clause, a dead
one does not.

Of the rebuild, creating the virtual machine and its answer to ping are one step
that succeeds or fails, and a killed rebuild is left out: nothing in the code takes
over from it, its lock and its `running` stay.  `mark_standby` is never called.  The
API's cache shows what `NodeState` was up to three seconds ago; it is read, never
acted upon.  Ages are compared as if the machines' clocks agreed.  The file system
thaws only by `Thaw`: what an operator does is outside.
