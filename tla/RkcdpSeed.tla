----------------------------- MODULE RkcdpSeed ------------------------------
(***************************************************************************)
(* Seeding a node: rkcdp-seed.py lets the host copy the node's disk into   *)
(* replica.raw chunk by chunk, resumably, while the node keeps writing;    *)
(* rkcdpd.py adopts the copy (check_seed), drains the changes since boot   *)
(* from the kernel's bitmap, and keeps what each chunk held at the seed    *)
(* point in seed.raw (SeedLayer) for rkcdp-rebuild --from seed.            *)
(*                                                                         *)
(* Processes: writers, the seeding tool with its dd on the host, the       *)
(* daemon's main loop, its recovery thread and its base copy thread.  The  *)
(* node may reboot, which empties ring and bitmap; the daemon may die; the *)
(* tool may fail and be run again, as its caller does until it succeeds,   *)
(* by hand after that, or for a VM that has moved to another host.         *)
(*                                                                         *)
(* Data: a chunk stands for a 64 MiB piece of dd, a bitmap chunk, a        *)
(* COPY_CHUNK and a SEED_CHUNK at once; its content is a number, Zero for  *)
(* zeroes, which in a sparse file is also a hole.  The ring does not       *)
(* overflow and copy_chunk's protocol with the apply loop is Rkcdpd's: a   *)
(* copy thread and the loop never write the replica at the same time here. *)
(***************************************************************************)
EXTENDS Integers, Sequences, FiniteSets

CONSTANTS
    NChunks,     \* chunks of the disk
    Env,         \* what may happen: "crash", "seedfail", "reboot", "rerun"
    MaxWrites,   \* bound: writes in one behaviour
    MaxEvents    \* bound: crashes, failures, reboots and reruns together

ASSUME SeedAssumption ==
    /\ NChunks \in Nat \ {0}
    /\ Env \subseteq {"crash", "seedfail", "reboot", "rerun"}
    /\ MaxWrites \in Nat /\ MaxEvents \in Nat

VARIABLES
    (* the kernel *)
    disk, bitmap, ring, boot,
    (* files on NFS *)
    replica,
    seedFile, seedRaw,  \* seed.raw exists; its chunks
    manifest,           \* [seeded : boot or 0, baseEnd]
    recovery,           \* recovery.json: [on, chunks]
    resume,             \* seed.json: last finished chunk, or -1
    (* rkcdp-seed *)
    spc, si, sbuf, sman,
    (* rkcdpd *)
    dpc, dman,
    required,           \* self.seed_required
    layer, saved,       \* self.replica.seed and its bitmap of saved chunks
    store,              \* the chunk being written to the replica
    queue, taken,       \* self.recovery_queue; extents not yet in recovery.json
    recOn, todo,        \* the recovery thread and the chunks before it
    baseOn, base,       \* the base copy thread and the chunks before it
    (* history *)
    nw, events,
    copied,             \* per chunk, the boot in which dd copied it, or 0
    point,              \* the replica when seed.raw was created: the seed point
    past,               \* chunks overwritten since then and not saved before
    dead                \* chunks whose pending update died with a daemon

kernel == <<disk, bitmap, ring, boot, nw>>
files  == <<replica, seedFile, seedRaw, manifest, recovery, resume>>
tool   == <<spc, si, sbuf, sman>>
threads == <<recOn, todo, baseOn, base>>
daemon == <<dpc, dman, required, layer, saved, store, queue, taken, threads>>
ghosts == <<events, copied, point, past, dead>>
vars   == <<kernel, files, tool, daemon, ghosts>>

Chunks == 0 .. NChunks - 1
Zero   == 0
Old    == 1
Before == [c \in Chunks |-> IF c = NChunks - 1 THEN Zero ELSE Old]

NoStore == [chunk |-> -1, val |-> Zero]
NoFile  == [on |-> FALSE, chunks |-> {}]
NoManifest == [seeded |-> 0, baseEnd |-> FALSE]
NoPoint == << >>
First(S) == CHOOSE c \in S : \A d \in S : c <= d

Init ==
    /\ disk = Before /\ bitmap = {} /\ ring = << >> /\ boot = 1
    /\ replica = [c \in Chunks |-> Zero]
    /\ seedFile = FALSE /\ seedRaw = [c \in Chunks |-> Zero]
    /\ manifest = NoManifest
    /\ recovery = NoFile /\ resume = -1
    /\ spc = "off" /\ si = 0 /\ sbuf = Zero /\ sman = NoManifest
    /\ dpc = "down" /\ dman = NoManifest /\ required = FALSE
    /\ layer = FALSE /\ saved = {} /\ store = NoStore
    /\ queue = 0 /\ taken = {}
    /\ recOn = FALSE /\ todo = {} /\ baseOn = FALSE /\ base = {}
    /\ nw = 0 /\ events = 0 /\ copied = [c \in Chunks |-> 0]
    /\ point = NoPoint /\ past = {} /\ dead = {}

\* A write or a discard, logged and marked.
Write(c) ==
    /\ nw < MaxWrites
    /\ nw' = nw + 1
    /\ \E v \in {Zero, nw + 2} :
         /\ disk' = [disk EXCEPT ![c] = v]
         /\ ring' = Append(ring, [chunk |-> c, val |-> v])
    /\ bitmap' = bitmap \cup {c}
    /\ UNCHANGED <<boot, files, tool, daemon, ghosts>>

-----------------------------------------------------------------------------
(***************************************************************************)
(* rkcdp-seed.                                                             *)
(***************************************************************************)

\* The loop of dd's is over: chunk i is past the last one.
CopyOver(i) == i = NChunks

\* The copy goes on where seed.json says, on the host, VM and size it is of.
SeedBegin ==
    /\ spc = "off"
    /\ si' = resume + 1
    /\ spc' = IF CopyOver(si') THEN "seedraw" ELSE "read"
    /\ UNCHANGED <<kernel, files, sbuf, sman, daemon, ghosts>>

\* A run by hand after "done", which has cleared the resume point, or one that
\* finds the VM on another host: start is 0.  What seed.json says of the old copy
\* stays until the first chunk of the new one is reported.
SeedAnew ==
    /\ "rerun" \in Env /\ events < MaxEvents
    /\ spc \in {"off", "done"}
    /\ events' = events + 1
    /\ si' = 0
    /\ spc' = "read"
    /\ UNCHANGED <<kernel, files, sbuf, sman, daemon, copied, point, past, dead>>

\* dd on the host: the read, then the write; conv=sparse leaves a chunk of
\* zeroes unwritten.
SeedRead ==
    /\ spc = "read"
    /\ sbuf' = disk[si]
    /\ spc' = "write"
    /\ UNCHANGED <<kernel, files, si, sman, daemon, ghosts>>

Dd == IF sbuf = Zero THEN replica ELSE [replica EXCEPT ![si] = sbuf]

\* The chunks of the records that are not applied yet.
RingChunks == {ring[k].chunk : k \in 1 .. Len(ring)}

\* Chunks somebody will still bring up to date.
Marked == bitmap \cup taken \cup todo \cup RingChunks \cup {store.chunk}

\* dd leaves a chunk behind the disk that nothing marks: zeroes it does not write
\* over the data of an earlier boot, or what a second run read before a recovery
\* and wrote after it.
Spoils ==
    /\ si \notin Marked
    /\ \/ sbuf = Zero /\ disk[si] = Zero /\ replica[si] # Zero
       \/ seedFile /\ Dd[si] # disk[si]

\* After a change of chunk c of the replica: neither the seed layer nor seed.raw
\* has what it held at the seed point.
PastLayer(c) ==
    IF seedFile /\ c \notin saved /\ seedRaw[c] = Zero THEN past \cup {c} ELSE past

\* dd does not know of the seed layer.
SeedWrite ==
    /\ spc = "write"
    /\ replica' = Dd
    /\ copied' = [copied EXCEPT ![si] = IF Spoils THEN 0 ELSE boot]
    /\ past' = IF sbuf = Zero THEN past ELSE PastLayer(si)
    /\ sbuf' = Zero
    /\ spc' = "report"
    /\ UNCHANGED <<kernel, seedFile, seedRaw, manifest, recovery, resume, si,
                   sman, daemon, events, point, dead>>

\* Mutant of Reported: the number of chunks done is saved, not the last index.
ReportedCount(i) == i + 1

\* What progress() saves for a retry.
Reported(i) == i

\* progress() is called when the percentage has moved or 5 s have passed: for
\* the last chunk always, for another one perhaps.
SeedReport ==
    /\ spc = "report"
    /\ \/ resume' = Reported(si)
       \/ ~CopyOver(si + 1) /\ UNCHANGED resume
    /\ si' = si + 1
    /\ spc' = IF CopyOver(si') THEN "seedraw" ELSE "read"
    /\ UNCHANGED <<kernel, replica, seedFile, seedRaw, manifest, recovery, sbuf,
                   sman, daemon, ghosts>>

\* seed.raw is created if it is not there: the seed point.
SeedCreate ==
    /\ spc = "seedraw"
    /\ seedFile' = TRUE
    /\ point' = IF seedFile THEN point ELSE replica
    /\ spc' = "load"
    /\ UNCHANGED <<kernel, replica, seedRaw, manifest, recovery, resume, si,
                   sbuf, sman, daemon, events, copied, past, dead>>

\* manifest.json is read, changed and written back.
SeedLoad ==
    /\ spc = "load"
    /\ sman' = manifest
    /\ spc' = "tell"
    /\ UNCHANGED <<kernel, files, si, sbuf, daemon, ghosts>>

SeedTell ==
    /\ spc = "tell"
    /\ manifest' = [sman EXCEPT !.seeded = boot]
    /\ sman' = NoManifest
    /\ spc' = "wait"
    /\ UNCHANGED <<kernel, replica, seedFile, seedRaw, recovery, resume, si,
                   sbuf, daemon, ghosts>>

\* What write_status reports as "CDP".
StateCDP ==
    /\ dpc \notin {"down", "init"} /\ ~required
    /\ ~baseOn /\ ~recOn /\ queue = 0

SeedDone ==
    /\ spc = "wait" /\ StateCDP
    /\ resume' = -1
    /\ spc' = "done"
    /\ UNCHANGED <<kernel, replica, seedFile, seedRaw, manifest, recovery, si,
                   sbuf, sman, daemon, ghosts>>

\* What a run of the tool has in memory is gone.
ToolGone == spc' = "off" /\ si' = 0 /\ sbuf' = Zero /\ sman' = NoManifest

\* ssh, dd or a file fails, or the daemon's status is too old: the tool ends,
\* seed.json keeps its resume point.
SeedFail ==
    /\ "seedfail" \in Env /\ events < MaxEvents
    /\ spc \notin {"off", "done"}
    /\ ToolGone
    /\ events' = events + 1
    /\ UNCHANGED <<kernel, files, daemon, copied, point, past, dead>>

-----------------------------------------------------------------------------
(***************************************************************************)
(* The seed layer.                                                         *)
(***************************************************************************)

\* Mutant of MustSave: is_saved() not asked.
MustSaveAlways(c) == layer

\* preserve: a chunk is saved before its first change.
MustSave(c) == layer /\ c \notin saved

\* Replica.pwrite and Replica.write: preserve the chunk, then (Store) write it.
BeginStore(c, v) ==
    /\ store = NoStore
    /\ store' = [chunk |-> c, val |-> v]
    /\ seedRaw' = IF MustSave(c) THEN [seedRaw EXCEPT ![c] = replica[c]]
                                 ELSE seedRaw
    /\ saved' = IF layer THEN saved \cup {c} ELSE saved

Store ==
    /\ store # NoStore
    /\ replica' = [replica EXCEPT ![store.chunk] = store.val]
    /\ store' = NoStore
    /\ past' = PastLayer(store.chunk)
    /\ UNCHANGED <<kernel, seedFile, seedRaw, manifest, recovery, resume, tool,
                   dpc, dman, required, layer, saved, queue, taken, threads,
                   events, copied, point, dead>>

\* Mutant of DataRegions: a reopened seed layer starts with nothing saved.
DataRegionsNone == {}

\* The chunks of seed.raw that are not holes.
DataRegions == {c \in Chunks : seedRaw[c] # Zero}

\* SeedLayer.__init__, when seed.raw exists and is not attached yet.
Attach ==
    /\ layer' = (layer \/ seedFile)
    /\ saved' = IF ~layer /\ seedFile THEN DataRegions ELSE saved

\* overlay_seed: what a rebuild --from seed makes of replica.raw and seed.raw.
OverlaySeed == [c \in Chunks |-> IF seedRaw[c] # Zero THEN seedRaw[c]
                                                     ELSE replica[c]]

-----------------------------------------------------------------------------
(***************************************************************************)
(* rkcdpd with seed_required in its configuration.                         *)
(***************************************************************************)

\* Mutant of BitmapAtInit: DM_CDP_IOC_RESET_STATS taken for a full reset.
BitmapResetAtInit == {}

\* DM_CDP_IOC_RESET_STATS leaves the bitmap alone.
BitmapAtInit == bitmap

\* Daemon.__init__ reads the manifest...
DaemonLoad ==
    /\ dpc = "down"
    /\ dman' = manifest
    /\ bitmap' = BitmapAtInit
    /\ dpc' = "init"
    /\ UNCHANGED <<disk, ring, boot, nw, files, tool, required, layer, saved,
                   store, queue, taken, threads, ghosts>>

\* ... and writes it back; main resumes an interrupted recovery.
DaemonInit ==
    /\ dpc = "init"
    /\ manifest' = dman
    /\ required' = ~dman.baseEnd
    /\ Attach
    /\ recOn' = recovery.on
    /\ todo' = recovery.chunks
    /\ dpc' = "read"
    /\ UNCHANGED <<kernel, replica, seedFile, seedRaw, recovery, resume, tool,
                   dman, store, queue, taken, baseOn, base, ghosts>>

ReadRecord ==
    /\ dpc = "read" /\ ring # << >>
    /\ BeginStore(Head(ring).chunk, Head(ring).val)
    /\ ring' = Tail(ring)
    /\ dpc' = "seed"
    /\ UNCHANGED <<disk, bitmap, boot, nw, replica, seedFile, manifest,
                   recovery, resume, tool, dman, required, layer, queue, taken,
                   threads, ghosts>>

ReadNothing ==
    /\ dpc = "read" /\ ring = << >>
    /\ dpc' = "seed"
    /\ UNCHANGED <<kernel, files, tool, dman, required, layer, saved, store,
                   queue, taken, threads, ghosts>>

\* check_seed: nothing to do, or no seed yet.
NoSeedYet ==
    /\ dpc = "seed" /\ store = NoStore
    /\ ~required \/ manifest.seeded = 0
    /\ dpc' = "recover"
    /\ UNCHANGED <<kernel, files, tool, dman, required, layer, saved, store,
                   queue, taken, threads, ghosts>>

\* check_seed: the seed is of this boot; drain the bitmap.
AdoptSeed ==
    /\ dpc = "seed" /\ store = NoStore
    /\ required /\ manifest.seeded = boot
    /\ required' = FALSE
    /\ Attach
    /\ queue' = queue + 1
    /\ dman' = [manifest EXCEPT !.baseEnd = TRUE]
    /\ manifest' = dman'
    /\ dpc' = "recover"
    /\ UNCHANGED <<kernel, replica, seedFile, seedRaw, recovery, resume, tool,
                   store, taken, threads, ghosts>>

\* check_seed: a seed of another boot; copy the whole disk.
RefuseSeed ==
    /\ dpc = "seed" /\ store = NoStore
    /\ required /\ manifest.seeded \notin {0, boot}
    /\ required' = FALSE
    /\ Attach
    /\ dman' = manifest
    /\ baseOn' = TRUE /\ base' = Chunks
    /\ dpc' = "recover"
    /\ UNCHANGED <<kernel, files, tool, store, queue, taken, recOn, todo,
                   ghosts>>

MayRecover == queue > 0 /\ ~recOn /\ ~baseOn

NoRecovery ==
    /\ dpc = "recover" /\ ~MayRecover
    /\ dpc' = "read"
    /\ UNCHANGED <<kernel, files, tool, dman, required, layer, saved, store,
                   queue, taken, threads, ghosts>>

\* start_recovery: read and clear the bitmap, then save the extents.
ReadBitmap ==
    /\ dpc = "recover" /\ MayRecover
    /\ queue' = queue - 1
    /\ taken' = bitmap /\ bitmap' = {}
    /\ dpc' = "persist"
    /\ UNCHANGED <<disk, ring, boot, nw, files, tool, dman, required, layer,
                   saved, store, threads, ghosts>>

StartRecovery ==
    /\ dpc = "persist"
    /\ recovery' = [on |-> TRUE, chunks |-> taken]
    /\ recOn' = TRUE /\ todo' = taken
    /\ taken' = {}
    /\ dpc' = "read"
    /\ UNCHANGED <<kernel, replica, seedFile, seedRaw, manifest, resume, tool,
                   dman, required, layer, saved, store, queue, baseOn, base,
                   ghosts>>

\* recover: one chunk, zeroes included.
RecoverChunk ==
    /\ recOn /\ todo # {}
    /\ BeginStore(First(todo), disk[First(todo)])
    /\ todo' = todo \ {First(todo)}
    /\ UNCHANGED <<kernel, replica, seedFile, manifest, recovery, resume, tool,
                   dpc, dman, required, layer, queue, taken, recOn, baseOn,
                   base, ghosts>>

RecoverDone ==
    /\ recOn /\ todo = {} /\ store = NoStore
    /\ recOn' = FALSE
    /\ recovery' = NoFile
    /\ UNCHANGED <<kernel, replica, seedFile, seedRaw, manifest, resume, tool,
                   dpc, dman, required, layer, saved, store, queue, taken,
                   todo, baseOn, base, ghosts>>

\* base_copy: one chunk, not written if it is all zeroes.
BaseChunk ==
    /\ baseOn /\ base # {}
    /\ IF disk[First(base)] = Zero
       THEN store = NoStore /\ UNCHANGED <<store, seedRaw, saved>>
       ELSE BeginStore(First(base), disk[First(base)])
    /\ base' = base \ {First(base)}
    /\ UNCHANGED <<kernel, replica, seedFile, manifest, recovery, resume, tool,
                   dpc, dman, required, layer, queue, taken, recOn, todo,
                   baseOn, ghosts>>

BaseDone ==
    /\ baseOn /\ base = {} /\ store = NoStore
    /\ baseOn' = FALSE
    /\ dman' = [dman EXCEPT !.baseEnd = TRUE]
    /\ manifest' = dman'
    /\ UNCHANGED <<kernel, replica, seedFile, seedRaw, recovery, resume, tool,
                   dpc, required, layer, saved, store, queue, taken, recOn,
                   todo, base, ghosts>>

-----------------------------------------------------------------------------
\* What the daemon has in memory is gone.
DaemonGone ==
    /\ dpc' = "down" /\ dman' = NoManifest
    /\ required' = FALSE /\ layer' = FALSE /\ saved' = {}
    /\ store' = NoStore /\ queue' = 0 /\ taken' = {}
    /\ recOn' = FALSE /\ todo' = {} /\ baseOn' = FALSE /\ base' = {}
    /\ dead' = dead \cup taken \cup ({store.chunk} \cap Chunks)
    /\ UNCHANGED <<replica, seedFile, seedRaw, manifest, recovery, resume>>

Crash ==
    /\ "crash" \in Env /\ events < MaxEvents /\ dpc # "down"
    /\ DaemonGone
    /\ events' = events + 1
    /\ UNCHANGED <<kernel, tool, copied, point, past>>

\* The node reboots: ring and bitmap start empty, a seeding tool is run again.
Reboot ==
    /\ "reboot" \in Env /\ events < MaxEvents
    /\ DaemonGone
    /\ events' = events + 1
    /\ boot' = boot + 1
    /\ bitmap' = {} /\ ring' = << >>
    /\ IF spc = "done" THEN UNCHANGED tool ELSE ToolGone
    /\ UNCHANGED <<disk, nw, copied, point, past>>

ToolStep ==
    \/ SeedBegin \/ SeedRead \/ SeedWrite \/ SeedReport
    \/ SeedCreate \/ SeedLoad \/ SeedTell \/ SeedDone

DaemonStep ==
    \/ DaemonLoad \/ DaemonInit \/ ReadRecord \/ ReadNothing
    \/ NoSeedYet \/ AdoptSeed \/ RefuseSeed
    \/ NoRecovery \/ ReadBitmap \/ StartRecovery
    \/ RecoverChunk \/ RecoverDone \/ BaseChunk \/ BaseDone \/ Store

Next ==
    \/ \E c \in Chunks : Write(c)
    \/ ToolStep
    \/ DaemonStep
    \/ SeedAnew \/ SeedFail \/ Crash \/ Reboot

Spec == Init /\ [][Next]_vars

-----------------------------------------------------------------------------
(***************************************************************************)
(* Properties.                                                             *)
(***************************************************************************)
Vals  == 0 .. MaxWrites + 1
Boots == 0 .. MaxEvents + 1

\* The types of the state; the resume point is a chunk of the disk.
SeedTypeOK ==
    /\ disk \in [Chunks -> Vals] /\ replica \in [Chunks -> Vals]
    /\ seedRaw \in [Chunks -> Vals] /\ seedFile \in BOOLEAN
    /\ ring \in Seq([chunk : Chunks, val : Vals])
    /\ boot \in Boots \ {0} /\ bitmap \subseteq Chunks
    /\ {manifest, sman, dman} \subseteq [seeded : Boots, baseEnd : BOOLEAN]
    /\ recovery \in [on : BOOLEAN, chunks : SUBSET Chunks]
    /\ resume \in Chunks \cup {-1} /\ si \in 0 .. NChunks
    /\ store = NoStore \/ store \in [chunk : Chunks, val : Vals]
    /\ saved \cup taken \cup todo \cup base \subseteq Chunks
    /\ \A x \in {required, layer, recOn, baseOn} : x \in BOOLEAN
    /\ queue \in Nat

\* ... those of an interrupted recovery included.
OnTheWay == Marked \cup recovery.chunks

\* "Everything written since boot is in the kernel bitmap, so one recovery brings
\* the replica current" (check_seed): whatever the host copied in this boot and
\* is behind the disk is still marked, extracted, or in the ring, although dd
\* races with the writers and with the records the daemon applies beside it;
\* except where a daemon died with the update in hand, or dd has spoiled the chunk
\* (Spoils).  A second run after the adoption leaves its chunks in the bitmap, and
\* no recovery is due for them then.
SeedCovered ==
    \A c \in Chunks :
        (copied[c] = boot /\ replica[c] # disk[c])
            => c \in OnTheWay \cup dead

\* "From then on rkcdpd saves each chunk's seed-time content" (rkcdp-seed.py:12-14):
\* from the creation of seed.raw on, a rebuild from the seed sees every chunk that
\* held data then as it was, whatever records, recoveries, base copies, crashes
\* and reboots came after it.  Not those in past: a record that the daemon
\* applied between the creation and its adoption of the seed, and a chunk that
\* the dd of a second run wrote, went by the layer.  A chunk of zeroes is a hole
\* in seed.raw and is not laid back.
SeedPointKept ==
    point # NoPoint =>
        \A c \in Chunks \ past : point[c] # Zero => OverlaySeed[c] = point[c]

\* "Written at most once per chunk" (SeedLayer): data in seed.raw never changes,
\* across restarts of the daemon too.
WrittenOnce ==
    [][\A c \in Chunks : seedRaw[c] # Zero => seedRaw'[c] = seedRaw[c]]_vars

\* rkcdp-seed writes manifest.seeded "once replica.raw holds a copy of the disk
\* taken during this boot" (check_seed): every chunk was read in the boot that the
\* seed names.  The resume point in seed.json does not name a boot.
SeededThisBoot ==
    manifest.seeded # 0 => \A c \in Chunks : copied[c] = manifest.seeded
=============================================================================
