-------------------------- MODULE RkcdpSeedProofs ---------------------------
(***************************************************************************)
(* What the seeding tool and the daemon that adopts its copy keep true,    *)
(* for every disk size, every number of writes, crashes, failures and      *)
(* reboots: the types of the state, what seed.raw holds, and that nothing  *)
(* the host copied in this boot falls behind the disk unmarked.            *)
(***************************************************************************)
EXTENDS RkcdpSeed, SequenceTheorems, NatFacts, TLAPS

(***************************************************************************)
(* The inductive invariant.                                                *)
(***************************************************************************)

ToolPhases == {"off", "read", "write", "report", "seedraw", "load", "tell",
               "wait", "done"}
DaemonUp   == dpc \notin {"down", "init"}
Seeding    == spc \in {"read", "write", "report"}

\* The types, with the variables and the bounds that SeedTypeOK leaves out: boot
\* counts reboots, which are events; a chunk's content names the write it is of.
TypeInv ==
    /\ SeedTypeOK
    /\ nw \in 0 .. MaxWrites /\ events \in 0 .. MaxEvents
    /\ boot <= events + 1
    /\ sbuf \in Vals /\ spc \in ToolPhases
    /\ dpc \in {"down", "init", "read", "seed", "recover", "persist"}
    /\ copied \in [Chunks -> Boots] /\ \A c \in Chunks : copied[c] <= boot
    /\ point = NoPoint \/ point \in [Chunks -> Vals]

\* The tool: it copies chunks of the disk; once it is past its third step, or a
\* manifest names a seed, in a file or in memory, seed.raw exists.
ToolInv ==
    /\ Seeding => si \in Chunks
    /\ spc \in {"load", "tell", "wait", "done"} => seedFile
    /\ \A m \in {manifest, sman, dman} : m.seeded # 0 => seedFile

\* The daemon: what it holds when it does not run is nothing; the bitmap is only
\* extracted for a seed; recovery.json mirrors the recovery thread.
DaemonInv ==
    /\ ~DaemonUp => /\ store = NoStore /\ ~layer /\ queue = 0 /\ taken = {}
                    /\ ~recOn /\ todo = {} /\ ~baseOn
    /\ ~layer => saved = {}
    /\ queue # 0 => seedFile
    /\ dpc # "persist" => taken = {}
    /\ dpc = "persist" => ~recOn
    /\ DaemonUp => recOn = recovery.on
    /\ ~recOn => todo = {}
    /\ ~recovery.on => recovery.chunks = {}
    /\ todo \subseteq recovery.chunks

\* The seed layer: there is a seed point when there is a seed.raw, which has no
\* data before; what it has is in the bitmap of saved chunks of a daemon that has
\* attached it, and so is the chunk whose new content is about to be written.
LayerInv ==
    /\ seedFile <=> point # NoPoint
    /\ layer => seedFile
    /\ ~seedFile => \A c \in Chunks : seedRaw[c] = Zero
    /\ layer => DataRegions \subseteq saved
    /\ layer /\ store # NoStore => store.chunk \in saved

\* A chunk that held data at the seed point is in seed.raw, or still in place, or
\* was overwritten past the seed layer.
KeptInv ==
    point # NoPoint =>
        \A c \in Chunks \ past : point[c] # Zero =>
            \/ seedRaw[c] = point[c]
            \/ seedRaw[c] = Zero /\ replica[c] = point[c] /\ c \notin saved

\* The last record of a chunk has what the disk holds.
LastRecordInv ==
    \A k \in 1 .. Len(ring) :
        \/ \E j \in k + 1 .. Len(ring) : ring[j].chunk = ring[k].chunk
        \/ ring[k].val = disk[ring[k].chunk]

\* Somebody other than the write in flight will bring the chunk up to date, or
\* died before it could.
Attended(c) == c \in bitmap \cup taken \cup todo \cup RingChunks \cup dead

\* What is about to be written to the replica, by the daemon or by the dd of a run
\* before the seed point, is what the disk holds, unless the chunk is attended; so
\* is what the replica holds, but for the chunk being written and those a dead
\* daemon left in recovery.json.
CoverInv ==
    /\ store # NoStore => store.val = disk[store.chunk] \/ Attended(store.chunk)
    /\ spc = "write" /\ ~seedFile => sbuf = disk[si] \/ si \in bitmap
    /\ \A c \in Chunks : copied[c] = boot =>
         \/ replica[c] = disk[c]
         \/ Attended(c)
         \/ store.chunk = c
         \/ ~recOn /\ c \in recovery.chunks

SeedInv ==
    /\ TypeInv /\ ToolInv /\ DaemonInv
    /\ LayerInv /\ KeptInv /\ LastRecordInv /\ CoverInv

USE SeedAssumption DEF kernel, files, tool, threads, daemon, ghosts

-----------------------------------------------------------------------------
(***************************************************************************)
(* Types.                                                                  *)
(***************************************************************************)

\* A copy of the replica is never taken for the absence of a seed point.
LEMMA CopyIsPoint ==
    ASSUME NEW r \in [Chunks -> Vals]
    PROVE  r # NoPoint
  <1>1. 0 \in DOMAIN r
    BY DEF Chunks
  <1>2. DOMAIN NoPoint = {}
    BY DEF NoPoint
  <1> QED BY <1>1, <1>2

\* The first chunk of a set that is not empty is one of it.
LEMMA FirstIn ==
    ASSUME NEW S \in SUBSET Chunks, S # {}
    PROVE  First(S) \in S
  <1>1. S \in SUBSET Nat
    BY DEF Chunks
  <1> QED BY <1>1, LeastNat DEF First

\* The next record of the ring and the rest of it are well typed.
LEMMA RingType ==
    ASSUME TypeInv, ring # << >>
    PROVE  /\ Head(ring) \in [chunk : Chunks, val : Vals]
           /\ Tail(ring) \in Seq([chunk : Chunks, val : Vals])
           /\ Head(ring) = ring[1] /\ Len(ring) \in Nat /\ Len(ring) > 0
           /\ Len(Tail(ring)) = Len(ring) - 1
           /\ \A k \in 1 .. Len(ring) - 1 : Tail(ring)[k] = ring[k + 1]
  <1>1. ring \in Seq([chunk : Chunks, val : Vals])
    BY DEF TypeInv, SeedTypeOK
  <1>2. Len(ring) \in Nat /\ Len(ring) > 0
    BY <1>1, EmptySeq
  <1>3. Head(ring) = ring[1]
    BY <1>1
  <1>4. /\ Head(ring) \in [chunk : Chunks, val : Vals]
        /\ Tail(ring) \in Seq([chunk : Chunks, val : Vals])
        /\ Len(Tail(ring)) = Len(ring) - 1
        /\ \A k \in 1 .. Len(Tail(ring)) : Tail(ring)[k] = ring[k + 1]
    BY <1>1, HeadTailProperties
  <1> QED BY <1>2, <1>3, <1>4

LEMMA InitType == Init => TypeInv
  <1> SUFFICES ASSUME Init PROVE TypeInv
    OBVIOUS
  <1>1. ring \in Seq([chunk : Chunks, val : Vals])
    BY DEF Init
  <1>2. /\ 0 \in Vals /\ 1 \in Vals /\ 0 \in Boots /\ 1 \in Boots
        /\ 0 \in 0 .. NChunks
    BY DEF Vals, Boots
  <1>3. disk \in [Chunks -> Vals] /\ replica \in [Chunks -> Vals]
        /\ seedRaw \in [Chunks -> Vals] /\ copied \in [Chunks -> Boots]
    BY <1>2 DEF Init, Before, Zero, Old
  <1>4. {manifest, sman, dman} \subseteq [seeded : Boots, baseEnd : BOOLEAN]
    BY <1>2 DEF Init, NoManifest
  <1>5. SeedTypeOK
    <2>1. recovery \in [on : BOOLEAN, chunks : SUBSET Chunks]
      BY DEF Init, NoFile
    <2>2. \A x \in {required, layer, recOn, baseOn} : x \in BOOLEAN
      BY DEF Init
    <2>3. /\ bitmap \subseteq Chunks
          /\ saved \cup taken \cup todo \cup base \subseteq Chunks
      BY DEF Init
    <2>4. /\ boot \in Boots \ {0} /\ resume \in Chunks \cup {-1}
          /\ si \in 0 .. NChunks /\ store = NoStore /\ queue \in Nat
      BY <1>2 DEF Init
    <2>5. seedFile \in BOOLEAN
      BY DEF Init
    <2> QED
      BY <1>1, <1>3, <1>4, <2>1, <2>2, <2>3, <2>4, <2>5 DEF SeedTypeOK
  <1> QED
    BY <1>2, <1>3, <1>5 DEF Init, TypeInv, ToolPhases, Zero

LEMMA ToolType ==
    ASSUME SeedInv, ToolStep \/ SeedAnew \/ SeedFail PROVE TypeInv'
  <1> USE DEF SeedInv, TypeInv, SeedTypeOK, ToolPhases
  <1>10. NoManifest \in [seeded : Boots, baseEnd : BOOLEAN] /\ Zero \in Vals
    BY DEF NoManifest, Boots, Vals, Zero
  <1>1. CASE SeedBegin
    BY <1>1 DEF SeedBegin, CopyOver, Chunks
  <1>2. CASE SeedRead
    BY <1>2 DEF SeedRead, ToolInv, Seeding
  <1>3. CASE SeedWrite
    BY <1>3, <1>10 DEF SeedWrite, Dd, ToolInv, Seeding, Boots
  <1>4. CASE SeedReport
    BY <1>4, SMTT(30) DEF SeedReport, CopyOver, ToolInv, Seeding, Chunks, Reported
  <1>5. CASE SeedCreate
    BY <1>5 DEF SeedCreate
  <1>11. CASE SeedAnew
    BY <1>11 DEF SeedAnew, Boots
  <1>9. CASE SeedLoad
    BY <1>9 DEF SeedLoad
  <1>8. CASE SeedTell
    <2>1. manifest' \in [seeded : Boots, baseEnd : BOOLEAN]
      BY <1>8 DEF SeedTell
    <2> QED BY <1>8, <1>10, <2>1 DEF SeedTell
  <1>6. CASE SeedDone
    BY <1>6 DEF SeedDone
  <1>7. CASE SeedFail
    BY <1>7, <1>10 DEF SeedFail, ToolGone, Boots
  <1> QED
    BY <1>1, <1>2, <1>3, <1>4, <1>5, <1>6, <1>7, <1>8, <1>9, <1>11 DEF ToolStep

LEMMA DaemonType ==
    ASSUME SeedInv, DaemonStep PROVE TypeInv'
  <1> USE DEF SeedInv, TypeInv, SeedTypeOK
  <1>1. CASE DaemonLoad
    BY <1>1 DEF DaemonLoad, BitmapAtInit
  <1>2. CASE DaemonInit
    BY <1>2 DEF DaemonInit, Attach, DataRegions
  <1>3. CASE ReadRecord
    <2>1. Head(ring) \in [chunk : Chunks, val : Vals]
      BY <1>3, RingType DEF ReadRecord
    <2>2. Tail(ring) \in Seq([chunk : Chunks, val : Vals])
      BY <1>3, RingType DEF ReadRecord
    <2>3. seedRaw' \in [Chunks -> Vals] /\ saved' \subseteq Chunks
      BY <1>3, <2>1 DEF ReadRecord, BeginStore
    <2>4. store' \in [chunk : Chunks, val : Vals]
      BY <1>3, <2>1 DEF ReadRecord, BeginStore
    <2> QED BY <1>3, <2>2, <2>3, <2>4 DEF ReadRecord
  <1>4. CASE ReadNothing \/ NoSeedYet \/ NoRecovery
    BY <1>4 DEF ReadNothing, NoSeedYet, NoRecovery
  <1>5. CASE AdoptSeed
    <2>1. /\ dman' \in [seeded : Boots, baseEnd : BOOLEAN]
          /\ manifest' = dman'
      BY <1>5 DEF AdoptSeed
    <2>2. /\ layer' \in BOOLEAN /\ saved' \subseteq Chunks
      BY <1>5 DEF AdoptSeed, Attach, DataRegions
    <2>3. queue' \in Nat
      BY <1>5 DEF AdoptSeed
    <2>6. required' = FALSE /\ dpc' = "recover"
      BY <1>5 DEF AdoptSeed
    <2>4. UNCHANGED <<kernel, replica, seedFile, seedRaw, recovery, resume,
                      tool, store, taken, threads, ghosts>>
      BY <1>5 DEF AdoptSeed
    <2>5. {manifest, sman, dman}' \subseteq [seeded : Boots, baseEnd : BOOLEAN]
      BY <2>1, <2>4
    <2> QED BY <2>2, <2>3, <2>4, <2>5, <2>6
  <1>6. CASE RefuseSeed
    BY <1>6 DEF RefuseSeed, Attach, DataRegions
  <1>7. CASE ReadBitmap
    BY <1>7 DEF ReadBitmap, MayRecover
  <1>8. CASE StartRecovery
    BY <1>8 DEF StartRecovery
  <1>9. CASE RecoverChunk
    BY <1>9, FirstIn DEF RecoverChunk, BeginStore
  <1>10. CASE RecoverDone
    BY <1>10 DEF RecoverDone, NoFile
  <1>11. CASE BaseChunk
    BY <1>11, FirstIn, SMTT(30) DEF BaseChunk, BeginStore
  <1>12. CASE BaseDone
    BY <1>12, ZenonT(60) DEF BaseDone
  <1>13. CASE Store
    BY <1>13 DEF Store, NoStore
  <1> QED
    BY <1>1, <1>2, <1>3, <1>4, <1>5, <1>6, <1>7, <1>8, <1>9, <1>10, <1>11,
       <1>12, <1>13 DEF DaemonStep

LEMMA NextType ==
    ASSUME SeedInv, [Next]_vars PROVE TypeInv'
  <1> USE DEF SeedInv, TypeInv, SeedTypeOK
  <1>1. ASSUME NEW c \in Chunks, Write(c) PROVE TypeInv'
    <2>1. PICK v \in {Zero, nw + 2} :
            /\ disk' = [disk EXCEPT ![c] = v]
            /\ ring' = Append(ring, [chunk |-> c, val |-> v])
      BY <1>1 DEF Write
    <2>2. v \in Vals
      BY <1>1 DEF Write, Vals, Zero
    <2>3. ring' \in Seq([chunk : Chunks, val : Vals])
      BY <2>1, <2>2, AppendProperties
    <2>4. disk' \in [Chunks -> Vals]
      BY <2>1, <2>2
    <2>5. nw' \in 0 .. MaxWrites
      BY <1>1 DEF Write
    <2> QED BY <1>1, <2>3, <2>4, <2>5 DEF Write
  <1>5. NoManifest \in [seeded : Boots, baseEnd : BOOLEAN] /\ Zero \in Vals
    BY DEF NoManifest, Boots, Vals, Zero
  <1>2. CASE Crash
    <2>1. events' \in 0 .. MaxEvents /\ boot <= events' + 1
      BY <1>2, SMTT(30) DEF Crash, Boots
    <2> QED BY <1>2, <1>5, <2>1 DEF Crash, DaemonGone
  <1>3. CASE Reboot
    <2>1. events' \in 0 .. MaxEvents /\ boot' <= events' + 1
      BY <1>3, SMTT(30) DEF Reboot, Boots
    <2>2. boot' \in Boots \ {0}
      BY <1>3, <2>1 DEF Reboot, Boots
    <2>3. \A c \in Chunks : copied'[c] <= boot'
      BY <1>3 DEF Reboot, Boots
    <2>4. << >> \in Seq([chunk : Chunks, val : Vals])
      OBVIOUS
    <2>5. /\ sbuf' \in Vals /\ spc' \in ToolPhases /\ si' \in 0 .. NChunks
          /\ sman' \in [seeded : Boots, baseEnd : BOOLEAN]
      <3>1. CASE spc = "done"
        BY <1>3, <3>1 DEF Reboot
      <3>2. CASE spc # "done"
        BY <1>3, <1>5, <3>2 DEF Reboot, ToolGone, ToolPhases
      <3> QED BY <3>1, <3>2
    <2> QED
      BY <1>3, <1>5, <2>1, <2>2, <2>3, <2>4, <2>5 DEF Reboot, DaemonGone
  <1>4. CASE UNCHANGED vars
    BY <1>4 DEF vars
  <1> QED
    BY <1>1, <1>2, <1>3, <1>4, ToolType, DaemonType DEF Next

-----------------------------------------------------------------------------
(***************************************************************************)
(* The tool.                                                               *)
(***************************************************************************)

LEMMA ToolFrame ==
    ASSUME ToolInv,
           UNCHANGED <<spc, si, sman, seedFile, resume, manifest, dman>>
    PROVE  ToolInv'
  BY DEF ToolInv, Seeding

\* Steps of the tool itself.
LEMMA ToolTool ==
    ASSUME SeedInv, ToolStep \/ SeedAnew \/ SeedFail PROVE ToolInv'
  <1> USE DEF ToolInv, Seeding
  <1>0. /\ ToolInv
        /\ resume \in Chunks \cup {-1} /\ si \in 0 .. NChunks
    BY DEF SeedInv, TypeInv, SeedTypeOK
  <1>1. CASE SeedBegin
    BY <1>0, <1>1 DEF SeedBegin, CopyOver, Chunks
  <1>2. CASE SeedRead \/ SeedWrite
    BY <1>0, <1>2 DEF SeedRead, SeedWrite
  <1>3. CASE SeedReport
    BY <1>0, <1>3 DEF SeedReport, CopyOver, Reported, Chunks
  <1>4. CASE SeedCreate
    BY <1>0, <1>4 DEF SeedCreate
  <1>5. CASE SeedLoad
    BY <1>0, <1>5 DEF SeedLoad
  <1>6. CASE SeedTell
    BY <1>0, <1>6 DEF SeedTell, NoManifest
  <1>7. CASE SeedDone
    BY <1>0, <1>7 DEF SeedDone
  <1>8. CASE SeedFail
    BY <1>0, <1>8 DEF SeedFail, ToolGone, NoManifest
  <1>9. CASE SeedAnew
    BY <1>0, <1>9 DEF SeedAnew, Chunks
  <1> QED
    BY <1>1, <1>2, <1>3, <1>4, <1>5, <1>6, <1>7, <1>8, <1>9 DEF ToolStep

LEMMA NextTool ==
    ASSUME SeedInv, [Next]_vars PROVE ToolInv'
  <1>0. ToolInv
    BY DEF SeedInv
  <1>1. ASSUME NEW c \in Chunks, Write(c) PROVE ToolInv'
    BY <1>0, <1>1, ToolFrame DEF Write
  <1>2. CASE DaemonLoad \/ DaemonInit
    BY <1>0, <1>2 DEF DaemonLoad, DaemonInit, ToolInv, Seeding
  <1>3. CASE AdoptSeed
    <2>1. dman'.seeded = manifest.seeded /\ manifest' = dman'
      BY <1>3 DEF AdoptSeed, SeedInv, TypeInv, SeedTypeOK
    <2> QED BY <1>0, <1>3, <2>1 DEF AdoptSeed, ToolInv, Seeding
  <1>4. CASE BaseDone
    <2>1. dman'.seeded = dman.seeded /\ manifest' = dman'
      BY <1>4 DEF BaseDone, SeedInv, TypeInv, SeedTypeOK
    <2> QED BY <1>0, <1>4, <2>1 DEF BaseDone, ToolInv, Seeding
  <1>5. CASE RefuseSeed
    BY <1>0, <1>5 DEF RefuseSeed, ToolInv, Seeding
  <1>6. CASE ReadRecord \/ ReadNothing \/ NoSeedYet \/ NoRecovery
    BY <1>0, <1>6, ToolFrame DEF ReadRecord, ReadNothing, NoSeedYet, NoRecovery
  <1>7. CASE ReadBitmap \/ StartRecovery \/ RecoverChunk \/ RecoverDone
    BY <1>0, <1>7, ToolFrame
       DEF ReadBitmap, StartRecovery, RecoverChunk, RecoverDone
  <1>8. CASE BaseChunk \/ Store
    BY <1>0, <1>8, ToolFrame DEF BaseChunk, Store
  <1>9. CASE UNCHANGED vars
    BY <1>0, <1>9, ToolFrame DEF vars
  <1>11. CASE Crash
    BY <1>0, <1>11 DEF Crash, DaemonGone, NoManifest, ToolInv, Seeding
  <1>10. CASE Reboot
    BY <1>0, <1>10 DEF Reboot, DaemonGone, ToolGone, NoManifest, ToolInv,
                       Seeding
  <1> QED
    BY <1>1, <1>2, <1>3, <1>4, <1>5, <1>6, <1>7, <1>8, <1>9, <1>10, <1>11,
       ToolTool DEF Next, DaemonStep

-----------------------------------------------------------------------------
(***************************************************************************)
(* The daemon.                                                             *)
(***************************************************************************)

LEMMA DaemonFrame ==
    ASSUME DaemonInv,
           UNCHANGED <<dpc, store, layer, saved, queue, taken, recOn, todo, baseOn,
                       recovery>>,
           seedFile => seedFile'
    PROVE  DaemonInv'
  BY DEF DaemonInv, DaemonUp

LEMMA NextDaemon ==
    ASSUME SeedInv, [Next]_vars PROVE DaemonInv'
  <1>0. /\ DaemonInv
        /\ recovery \in [on : BOOLEAN, chunks : SUBSET Chunks]
        /\ layer \in BOOLEAN /\ recOn \in BOOLEAN /\ queue \in Nat
        /\ manifest \in [seeded : Boots, baseEnd : BOOLEAN]
        /\ dpc \in {"down", "init", "read", "seed", "recover", "persist"}
    BY DEF SeedInv, TypeInv, SeedTypeOK
  <1> USE DEF DaemonInv, DaemonUp
  <1>1. ASSUME NEW c \in Chunks, Write(c) PROVE DaemonInv'
    BY <1>0, <1>1, DaemonFrame DEF Write
  <1>2. CASE ToolStep \/ SeedAnew \/ SeedFail
    BY <1>0, <1>2, DaemonFrame
       DEF ToolStep, SeedBegin, SeedRead, SeedWrite, SeedReport, SeedCreate,
           SeedLoad, SeedTell, SeedDone, SeedAnew, SeedFail
  <1>3. CASE DaemonLoad
    BY <1>0, <1>3 DEF DaemonLoad
  <1>4. CASE DaemonInit
    BY <1>0, <1>4 DEF DaemonInit, Attach
  <1>5. CASE ReadRecord
    BY <1>0, <1>5 DEF ReadRecord, BeginStore
  <1>6. CASE ReadNothing \/ NoSeedYet \/ NoRecovery
    BY <1>0, <1>6 DEF ReadNothing, NoSeedYet, NoRecovery
  <1>7. CASE AdoptSeed
    <2>1. seedFile
      <3>1. manifest.seeded # 0
        BY <1>7 DEF AdoptSeed, SeedInv, TypeInv, SeedTypeOK
      <3> QED BY <3>1 DEF SeedInv, ToolInv
    <2> QED BY <1>0, <1>7, <2>1 DEF AdoptSeed, Attach
  <1>8. CASE RefuseSeed
    BY <1>0, <1>8 DEF RefuseSeed, Attach
  <1>9. CASE ReadBitmap
    BY <1>0, <1>9 DEF ReadBitmap, MayRecover
  <1>10. CASE StartRecovery
    BY <1>0, <1>10 DEF StartRecovery
  <1>11. CASE RecoverChunk
    BY <1>0, <1>11 DEF RecoverChunk, BeginStore
  <1>12. CASE RecoverDone
    BY <1>0, <1>12 DEF RecoverDone, NoFile
  <1>13. CASE BaseChunk
    BY <1>0, <1>13 DEF BaseChunk, BeginStore
  <1>14. CASE BaseDone
    BY <1>0, <1>14 DEF BaseDone
  <1>17. CASE UNCHANGED vars
    BY <1>0, <1>17, DaemonFrame DEF vars
  <1>15. CASE Store
    BY <1>0, <1>15 DEF Store
  <1>16. CASE Crash \/ Reboot
    BY <1>0, <1>16 DEF Crash, Reboot, DaemonGone
  <1> QED
    BY <1>1, <1>2, <1>3, <1>4, <1>5, <1>6, <1>7, <1>8, <1>9, <1>10, <1>11,
       <1>12, <1>13, <1>14, <1>15, <1>16, <1>17 DEF Next, DaemonStep

-----------------------------------------------------------------------------
(***************************************************************************)
(* The seed layer.                                                         *)
(***************************************************************************)

\* preserve, under the seed layer's invariant: data is written once.
LEMMA StoreKeeps ==
    ASSUME SeedInv, NEW c \in Chunks, NEW v \in Vals, BeginStore(c, v)
    PROVE  /\ \A d \in Chunks :
                \/ seedRaw'[d] = seedRaw[d]
                \/ d = c /\ layer /\ c \notin saved /\ seedRaw[c] = Zero
                         /\ seedRaw'[c] = replica[c]
           /\ seedRaw' \in [Chunks -> Vals]
  <1>1. layer => DataRegions \subseteq saved
    BY DEF SeedInv, LayerInv
  <1>2. seedRaw \in [Chunks -> Vals] /\ replica \in [Chunks -> Vals]
    BY DEF SeedInv, TypeInv, SeedTypeOK
  <1> QED BY <1>1, <1>2 DEF BeginStore, MustSave, DataRegions

\* Replica.pwrite and Replica.write up to the write itself.
LEMMA StoreLayer ==
    ASSUME SeedInv, NEW c \in Chunks, NEW v \in Vals,
           BeginStore(c, v),
           UNCHANGED <<replica, seedFile, point, past, layer>>
    PROVE  LayerInv' /\ KeptInv'
  <1>0. /\ LayerInv /\ KeptInv
        /\ layer \in BOOLEAN /\ store = NoStore
        /\ store' = [chunk |-> c, val |-> v]
        /\ layer => saved' = saved \cup {c}
        /\ ~layer => saved' = saved
    BY DEF SeedInv, TypeInv, SeedTypeOK, BeginStore, LayerInv
  <1>1. \A d \in Chunks :
          \/ seedRaw'[d] = seedRaw[d]
          \/ d = c /\ layer /\ c \notin saved /\ seedRaw[c] = Zero
                   /\ seedRaw'[c] = replica[c]
    BY StoreKeeps
  <1>2. LayerInv'
    BY <1>0, <1>1 DEF LayerInv, DataRegions
  <1>3. KeptInv'
    <2> SUFFICES ASSUME point # NoPoint, NEW d \in Chunks \ past, point[d] # Zero
                 PROVE  \/ seedRaw'[d] = point[d]
                        \/ /\ seedRaw'[d] = Zero /\ replica[d] = point[d]
                           /\ d \notin saved'
      BY DEF KeptInv
    <2>1. \/ seedRaw[d] = point[d]
          \/ seedRaw[d] = Zero /\ replica[d] = point[d] /\ d \notin saved
      BY <1>0 DEF KeptInv
    <2>2. layer => (seedRaw[d] # Zero => d \in saved)
      BY <1>0 DEF LayerInv, DataRegions
    <2>5. CASE ~layer
      BY <1>0, <1>1, <2>1, <2>5
    <2>3. CASE layer /\ d = c
      <3>1. CASE c \in saved
        BY <2>1, <2>2, <2>3, <3>1, <1>1
      <3>2. CASE c \notin saved
        <4>1. seedRaw[c] = Zero /\ replica[c] = point[c]
          BY <2>1, <2>2, <2>3, <3>2
        <4>2. seedRaw'[c] = replica[c]
          BY <3>2, <2>3, <1>0 DEF BeginStore, MustSave, SeedInv, TypeInv,
                                  SeedTypeOK
        <4> QED BY <2>3, <4>1, <4>2
      <3> QED BY <3>1, <3>2
    <2>4. CASE layer /\ d # c
      <3>1. seedRaw'[d] = seedRaw[d]
        BY <2>4, <1>1
      <3>2. d \notin saved => d \notin saved'
        BY <2>4, <1>0
      <3> QED BY <2>1, <3>1, <3>2
    <2> QED BY <1>0, <2>3, <2>4, <2>5
  <1> QED BY <1>2, <1>3

\* Attaching seed.raw, for the first time or again.
LEMMA AttachLayer ==
    ASSUME SeedInv, Attach, store = NoStore,
           UNCHANGED <<replica, seedFile, seedRaw, store, point, past>>
    PROVE  LayerInv' /\ KeptInv'
  <1>0. /\ LayerInv /\ KeptInv
        /\ layer \in BOOLEAN /\ seedFile \in BOOLEAN
        /\ seedRaw \in [Chunks -> Vals]
    BY DEF SeedInv, TypeInv, SeedTypeOK
  <1>1. LayerInv'
    BY <1>0 DEF LayerInv, Attach, DataRegions
  <1>2. KeptInv'
    BY <1>0 DEF LayerInv, KeptInv, Attach, DataRegions
  <1> QED BY <1>1, <1>2

LEMMA LayerFrame ==
    ASSUME LayerInv /\ KeptInv,
           UNCHANGED <<seedRaw, point, past, replica, layer, saved, store,
                       seedFile>>
    PROVE  LayerInv' /\ KeptInv'
  BY DEF LayerInv, KeptInv, DataRegions

\* The creation of seed.raw, empty: all that was in the replica is still there.
LEMMA CreateLayer ==
    ASSUME SeedInv, SeedCreate PROVE LayerInv' /\ KeptInv'
  <1>0. /\ LayerInv /\ KeptInv /\ DaemonInv /\ seedFile \in BOOLEAN
        /\ layer \in BOOLEAN /\ replica \in [Chunks -> Vals]
    BY DEF SeedInv, TypeInv, SeedTypeOK
  <1>1. replica # NoPoint
    BY <1>0, CopyIsPoint
  <1>2. CASE seedFile
    BY <1>0, <1>2, LayerFrame DEF SeedCreate
  <1>3. CASE ~seedFile
    <2>1. ~layer /\ saved = {} /\ \A c \in Chunks : seedRaw[c] = Zero
      BY <1>0, <1>3 DEF LayerInv, DaemonInv
    <2>2. LayerInv'
      BY <1>0, <1>1, <1>3, <2>1 DEF SeedCreate, LayerInv
    <2>3. KeptInv'
      BY <1>3, <2>1 DEF SeedCreate, KeptInv
    <2> QED BY <2>2, <2>3
  <1> QED BY <1>0, <1>2, <1>3

LEMMA NextLayer ==
    ASSUME SeedInv, [Next]_vars PROVE LayerInv' /\ KeptInv'
  <1>0. LayerInv /\ KeptInv /\ DaemonInv
    BY DEF SeedInv
  <1>1. ASSUME NEW c \in Chunks, Write(c) PROVE LayerInv' /\ KeptInv'
    BY <1>0, <1>1, LayerFrame DEF Write
  <1>2. CASE SeedWrite
    <2>1. UNCHANGED <<seedRaw, point, layer, saved, store, seedFile>>
      BY <1>2 DEF SeedWrite
    <2>2. LayerInv'
      BY <1>0, <2>1 DEF LayerInv, DataRegions
    <2>3. /\ past \subseteq past'
          /\ \A c \in Chunks \ past' :
               \/ replica'[c] = replica[c]
               \/ ~seedFile \/ c \in saved \/ seedRaw[c] # Zero
      BY <1>2 DEF SeedWrite, Dd, PastLayer, SeedInv, TypeInv, SeedTypeOK
    <2>4. KeptInv'
      BY <1>0, <2>1, <2>3 DEF KeptInv, LayerInv
    <2> QED BY <2>2, <2>4
  <1>15. CASE SeedCreate
    BY <1>15, CreateLayer
  <1>3. CASE (ToolStep \/ SeedAnew \/ SeedFail) /\ ~SeedWrite /\ ~SeedCreate
    BY <1>0, <1>3, LayerFrame
       DEF ToolStep, SeedBegin, SeedRead, SeedReport, SeedLoad, SeedTell,
           SeedDone, SeedAnew, SeedFail
  <1>4. CASE DaemonLoad
    BY <1>0, <1>4, LayerFrame DEF DaemonLoad, DaemonUp
  <1>5. CASE DaemonInit
    BY <1>0, <1>5, AttachLayer DEF DaemonInit, DaemonInv, DaemonUp
  <1>6. CASE AdoptSeed \/ RefuseSeed
    BY <1>0, <1>6, AttachLayer DEF AdoptSeed, RefuseSeed, DaemonUp
  <1>7. CASE ReadRecord
    <2>1. Head(ring).chunk \in Chunks /\ Head(ring).val \in Vals
      BY <1>7, RingType DEF ReadRecord, SeedInv
    <2> QED BY <1>7, <2>1, StoreLayer DEF ReadRecord, DaemonUp
  <1>8. CASE ReadNothing \/ NoSeedYet \/ NoRecovery \/ ReadBitmap
    BY <1>0, <1>8, LayerFrame
       DEF ReadNothing, NoSeedYet, NoRecovery, ReadBitmap, DaemonUp
  <1>9. CASE StartRecovery \/ RecoverDone \/ BaseDone
    BY <1>0, <1>9, LayerFrame DEF StartRecovery, RecoverDone, BaseDone, DaemonUp
  <1>10. CASE RecoverChunk
    <2>1. First(todo) \in Chunks /\ disk[First(todo)] \in Vals /\ DaemonUp
      BY <1>10, FirstIn DEF RecoverChunk, SeedInv, TypeInv, SeedTypeOK,
                            DaemonInv
    <2> QED BY <1>10, <2>1, StoreLayer DEF RecoverChunk, DaemonUp
  <1>11. CASE BaseChunk
    <2>1. First(base) \in Chunks /\ disk[First(base)] \in Vals /\ DaemonUp
      BY <1>11, FirstIn DEF BaseChunk, SeedInv, TypeInv, SeedTypeOK, DaemonInv
    <2>2. CASE disk[First(base)] = Zero
      BY <1>0, <1>11, <2>2, LayerFrame DEF BaseChunk, DaemonUp
    <2>3. CASE disk[First(base)] # Zero
      BY <1>11, <2>1, <2>3, StoreLayer DEF BaseChunk, DaemonUp
    <2> QED BY <2>2, <2>3
  <1>12. CASE Store
    <2>1. UNCHANGED <<seedRaw, point, layer, saved, seedFile>> /\ store' = NoStore
      BY <1>12 DEF Store
    <2>2. LayerInv'
      BY <1>0, <2>1 DEF LayerInv, DataRegions
    <2>3. /\ past \subseteq past'
          /\ \A c \in Chunks \ past' :
               \/ replica'[c] = replica[c]
               \/ ~seedFile \/ c \in saved \/ seedRaw[c] # Zero
      BY <1>12 DEF Store, PastLayer, SeedInv, TypeInv, SeedTypeOK
    <2>4. KeptInv'
      BY <1>0, <2>1, <2>3 DEF KeptInv, LayerInv
    <2> QED BY <2>2, <2>4
  <1>13. CASE Crash \/ Reboot
    BY <1>0, <1>13 DEF Crash, Reboot, DaemonGone, LayerInv, KeptInv,
                       DataRegions, DaemonUp
  <1>14. CASE UNCHANGED vars
    BY <1>0, <1>14, LayerFrame DEF vars, DaemonUp
  <1> QED
    BY <1>1, <1>2, <1>3, <1>4, <1>5, <1>6, <1>7, <1>8, <1>9, <1>10, <1>11,
       <1>12, <1>13, <1>14, <1>15 DEF Next, DaemonStep

-----------------------------------------------------------------------------
(***************************************************************************)
(* The ring, and what is covered.                                          *)
(***************************************************************************)

\* The ring after a write: the record is the last one, every other chunk's last
\* record is the one it was.
LEMMA WriteRing ==
    ASSUME SeedInv, NEW c \in Chunks, Write(c)
    PROVE  LastRecordInv' /\ RingChunks' = RingChunks \cup {c}
  <1> DEFINE R == [chunk : Chunks, val : Vals]
  <1>0. /\ ring \in Seq(R) /\ disk \in [Chunks -> Vals] /\ nw \in 0 .. MaxWrites
        /\ LastRecordInv
    BY DEF SeedInv, TypeInv, SeedTypeOK
  <1>1. PICK v \in {Zero, nw + 2} :
          /\ disk' = [disk EXCEPT ![c] = v]
          /\ ring' = Append(ring, [chunk |-> c, val |-> v])
    BY DEF Write
  <1>2. [chunk |-> c, val |-> v] \in R
    BY <1>0, <1>1 DEF Vals, Zero, Write
  <1> DEFINE n == Len(ring)
  <1>3. /\ n \in Nat /\ Len(ring') = n + 1
        /\ ring'[n + 1] = [chunk |-> c, val |-> v]
        /\ \A k \in 1 .. n : ring'[k] = ring[k] /\ ring[k] \in R
    <2>1. n \in Nat
      BY <1>0, LenProperties
    <2>2. \A k \in 1 .. n : ring[k] \in R
      BY <1>0, ElementOfSeq
    <2>3. /\ Len(ring') = n + 1
          /\ \A k \in 1 .. n : ring'[k] = ring[k]
          /\ ring'[n + 1] = [chunk |-> c, val |-> v]
      BY <1>0, <1>1, <1>2, AppendProperties
    <2> QED BY <2>1, <2>2, <2>3
  <1> HIDE DEF n, R
  <1>4. ASSUME NEW k \in 1 .. n + 1
        PROVE  \/ \E j \in k + 1 .. n + 1 : ring'[j].chunk = ring'[k].chunk
               \/ ring'[k].val = disk'[ring'[k].chunk]
    <2>1. CASE k = n + 1
      BY <1>0, <1>1, <1>3, <2>1
    <2>2. CASE k # n + 1 /\ ring[k].chunk = c
      <3>1. n + 1 \in k + 1 .. n + 1 /\ k \in 1 .. n
        BY <2>2, <1>3
      <3>2. ring'[n + 1].chunk = ring'[k].chunk
        BY <3>1, <2>2, <1>3
      <3> QED BY <3>1, <3>2
    <2>3. CASE k # n + 1 /\ ring[k].chunk # c
      <3>1. k \in 1 .. n
        BY <2>3, <1>3
      <3>2. ring'[k] = ring[k] /\ disk'[ring[k].chunk] = disk[ring[k].chunk]
        BY <3>1, <2>3, <1>0, <1>1, <1>3
      <3>3. CASE \E j \in k + 1 .. n : ring[j].chunk = ring[k].chunk
        <4>1. PICK j \in k + 1 .. n : ring[j].chunk = ring[k].chunk
          BY <3>3
        <4>2. j \in 1 .. n /\ j \in k + 1 .. n + 1
          BY <4>1, <3>1, <1>3
        <4>3. ring'[j].chunk = ring'[k].chunk
          BY <4>1, <4>2, <3>2, <1>3
        <4> QED BY <4>2, <4>3
      <3>4. CASE ring[k].val = disk[ring[k].chunk]
        BY <3>2, <3>4
      <3> QED BY <3>1, <3>3, <3>4, <1>0 DEF LastRecordInv, n
    <2> QED BY <2>1, <2>2, <2>3
  <1>5. LastRecordInv'
    BY <1>3, <1>4 DEF LastRecordInv
  <1>6. RingChunks' = RingChunks \cup {c}
    <2>1. ASSUME NEW k \in 1 .. n + 1
          PROVE  ring'[k].chunk \in RingChunks \cup {c}
      BY <1>3 DEF RingChunks, n
    <2>2. ASSUME NEW k \in 1 .. n
          PROVE  ring[k].chunk \in RingChunks'
      <3>1. k \in 1 .. n + 1 /\ ring'[k] = ring[k]
        BY <1>3
      <3> QED BY <3>1, <1>3 DEF RingChunks
    <2>3. c \in RingChunks'
      <3>1. n + 1 \in 1 .. n + 1 /\ ring'[n + 1].chunk = c
        BY <1>3
      <3> QED BY <3>1, <1>3 DEF RingChunks
    <2> QED BY <1>3, <2>1, <2>2, <2>3, ZenonT(60) DEF RingChunks, n
  <1> QED BY <1>5, <1>6

\* Taking the oldest record: it has what the disk holds, or a later one of its
\* chunk stays behind.
LEMMA ReadRing ==
    ASSUME SeedInv, ring # << >>, ring' = Tail(ring), disk' = disk
    PROVE  /\ LastRecordInv'
           /\ RingChunks \subseteq RingChunks' \cup {Head(ring).chunk}
           /\ \/ Head(ring).val = disk[Head(ring).chunk]
              \/ Head(ring).chunk \in RingChunks'
  <1> DEFINE n == Len(ring)
  <1>0. /\ n \in Nat /\ n > 0 /\ Head(ring) = ring[1]
        /\ Len(ring') = n - 1
        /\ \A k \in 1 .. n - 1 : ring'[k] = ring[k + 1]
        /\ \A k \in 1 .. n :
             \/ \E j \in k + 1 .. n : ring[j].chunk = ring[k].chunk
             \/ ring[k].val = disk[ring[k].chunk]
    BY RingType DEF SeedInv, LastRecordInv
  <1>1. RingChunks' = {ring'[k].chunk : k \in 1 .. n - 1}
    BY <1>0 DEF RingChunks
  <1>2. RingChunks = {ring[k].chunk : k \in 1 .. n}
    BY DEF RingChunks
  <1>5. LastRecordInv' <=>
          \A k \in 1 .. n - 1 :
             \/ \E j \in k + 1 .. n - 1 : ring'[j].chunk = ring'[k].chunk
             \/ ring'[k].val = disk'[ring'[k].chunk]
    BY <1>0, ZenonT(60) DEF LastRecordInv
  <1> HIDE DEF n
  <1>3. ASSUME NEW k \in 2 .. n
        PROVE  ring[k] = ring'[k - 1] /\ ring[k].chunk \in RingChunks'
    <2>1. k - 1 \in 1 .. n - 1 /\ (k - 1) + 1 = k
      BY <1>0
    <2>2. ring[k] = ring'[k - 1]
      BY <1>0, <2>1
    <2> QED BY <1>1, <2>1, <2>2
  <1>4. ASSUME NEW k \in 1 .. n - 1
        PROVE  \/ \E j \in k + 1 .. n - 1 : ring'[j].chunk = ring'[k].chunk
               \/ ring'[k].val = disk'[ring'[k].chunk]
    <2>1. k + 1 \in 1 .. n /\ ring'[k] = ring[k + 1]
      BY <1>0
    <2>2. CASE \E j \in (k + 1) + 1 .. n : ring[j].chunk = ring[k + 1].chunk
      <3>1. PICK j \in (k + 1) + 1 .. n : ring[j].chunk = ring[k + 1].chunk
        BY <2>2
      <3>2. j \in 2 .. n /\ j - 1 \in k + 1 .. n - 1
        BY <3>1, <1>0
      <3>3. ring'[j - 1].chunk = ring'[k].chunk
        BY <3>1, <3>2, <2>1, <1>3
      <3> QED BY <3>2, <3>3
    <2>3. CASE ring[k + 1].val = disk[ring[k + 1].chunk]
      BY <2>1, <2>3
    <2> QED BY <2>1, <2>2, <2>3, <1>0
  <1>6. RingChunks \subseteq RingChunks' \cup {Head(ring).chunk}
    <2>1. ASSUME NEW k \in 1 .. n
          PROVE  ring[k].chunk \in RingChunks' \cup {Head(ring).chunk}
      <3>1. k = 1 \/ k \in 2 .. n
        BY <1>0
      <3> QED BY <3>1, <1>0, <1>3
    <2> QED BY <2>1, <1>2
  <1>7. \/ Head(ring).val = disk[Head(ring).chunk]
        \/ Head(ring).chunk \in RingChunks'
    <2>1. 1 \in 1 .. n /\ \A j \in 1 + 1 .. n : j \in 2 .. n
      BY <1>0
    <2> QED BY <2>1, <1>0, <1>3
  <1> QED BY <1>4, <1>5, <1>6, <1>7

\* Steps that only hand a chunk on from one holder to another.
LEMMA CoverFrame ==
    ASSUME CoverInv,
           UNCHANGED <<disk, ring, boot, replica, copied, store, recOn>>,
           bitmap \cup taken \cup todo \cup dead
             \subseteq (bitmap \cup taken \cup todo \cup dead)',
           ~recOn => recovery.chunks \subseteq recovery.chunks',
           spc' = "write" /\ ~seedFile' =>
             /\ spc = "write" /\ ~seedFile /\ bitmap \subseteq bitmap'
             /\ UNCHANGED <<si, sbuf>>
    PROVE  CoverInv'
  <1>1. ASSUME NEW c, Attended(c) PROVE Attended(c)'
    BY <1>1 DEF Attended, RingChunks
  <1> QED BY <1>1 DEF CoverInv, Attended

\* A chunk whose content is now in flight to the replica.
LEMMA CoverStore ==
    ASSUME SeedInv, NEW c \in Chunks, NEW v,
           store = NoStore, store' = [chunk |-> c, val |-> v],
           v = disk[c] \/ Attended(c)',
           UNCHANGED <<disk, bitmap, taken, dead, boot, replica, copied, recOn,
                       recovery, tool, seedFile>>,
           todo \cup RingChunks \subseteq (todo \cup RingChunks)' \cup {c}
    PROVE  CoverInv'
  <1>1. ASSUME NEW d, Attended(d), d # c PROVE Attended(d)'
    BY <1>1 DEF Attended
  <1>2. CoverInv /\ NoStore.chunk \notin Chunks
    BY DEF SeedInv, NoStore, Chunks
  <1>3. store'.chunk = c /\ store'.val = v
    OBVIOUS
  <1> QED BY <1>1, <1>2, <1>3 DEF CoverInv

LEMMA ToolCover ==
    ASSUME SeedInv, ToolStep \/ SeedAnew \/ SeedFail PROVE CoverInv'
  <1>0. /\ CoverInv
        /\ replica \in [Chunks -> Vals] /\ copied \in [Chunks -> Boots]
    BY DEF SeedInv, TypeInv, SeedTypeOK
  <1>1. CASE SeedRead
    BY <1>0, <1>1 DEF SeedRead, CoverInv, Attended, RingChunks
  <1>2. CASE SeedWrite
    <2>1. si \in Chunks /\ (~seedFile => sbuf = disk[si] \/ si \in bitmap)
      BY <1>0, <1>2 DEF SeedWrite, SeedInv, ToolInv, Seeding, CoverInv
    <2>2. /\ UNCHANGED <<disk, ring, boot, bitmap, taken, todo, dead, recOn,
                         recovery, store>>
          /\ spc' = "report"
      BY <1>2 DEF SeedWrite
    <2>3. \A c : Attended(c)' = Attended(c)
      BY <2>2 DEF Attended, RingChunks
    <2>4. ASSUME NEW c \in Chunks, copied'[c] = boot
          PROVE  \/ replica'[c] = disk[c]
                 \/ Attended(c)
                 \/ store.chunk = c
                 \/ ~recOn /\ c \in recovery.chunks
      <3>1. CASE c # si
        <4>1. copied'[c] = copied[c] /\ replica'[c] = replica[c]
          BY <1>0, <1>2, <2>1, <3>1 DEF SeedWrite, Dd
        <4> QED BY <4>1, <1>0, <2>4 DEF CoverInv
      <3>2. CASE c = si
        <4>1. ~Spoils /\ replica'[c] = Dd[c]
          BY <1>0, <1>2, <2>1, <2>4, <3>2
             DEF SeedWrite, SeedInv, TypeInv, SeedTypeOK, Boots
        <4>2. CASE si \in Marked
          BY <3>2, <4>2 DEF Marked, Attended
        <4>3. CASE si \notin Marked /\ seedFile
          BY <3>2, <4>1, <4>3 DEF Spoils
        <4>4. CASE si \notin Marked /\ ~seedFile
          <5>1. sbuf = disk[si]
            BY <2>1, <4>4 DEF Marked
          <5>2. Dd[si] = disk[si]
            BY <1>0, <2>1, <4>1, <4>4, <5>1 DEF Dd, Spoils
          <5> QED BY <3>2, <4>1, <5>2
        <4> QED BY <4>2, <4>3, <4>4, <1>0 DEF SeedInv, TypeInv, SeedTypeOK
      <3> QED BY <3>1, <3>2
    <2>5. store # NoStore =>
            store.val = disk[store.chunk] \/ Attended(store.chunk)
      BY <1>0 DEF CoverInv
    <2> QED BY <2>2, <2>3, <2>4, <2>5 DEF CoverInv
  <1>3. CASE SeedBegin \/ SeedReport \/ SeedCreate \/ SeedAnew
    BY <1>0, <1>3, CoverFrame DEF SeedBegin, SeedReport, SeedCreate, SeedAnew
  <1>4. CASE SeedLoad \/ SeedTell \/ SeedDone \/ SeedFail
    BY <1>0, <1>4, CoverFrame DEF SeedLoad, SeedTell, SeedDone, SeedFail,
                                  ToolGone
  <1> QED BY <1>1, <1>2, <1>3, <1>4 DEF ToolStep

LEMMA DaemonCover ==
    ASSUME SeedInv, DaemonStep PROVE CoverInv'
  <1>0. CoverInv /\ DaemonInv
    BY DEF SeedInv
  <1>1. CASE DaemonLoad
    BY <1>0, <1>1, CoverFrame DEF DaemonLoad, BitmapAtInit
  <1>2. CASE DaemonInit
    <2>1. ~recOn /\ todo = {} /\ todo' = recovery.chunks
      BY <1>0, <1>2 DEF DaemonInit, DaemonInv, DaemonUp
    <2>2. \A c : Attended(c)' = (Attended(c) \/ c \in recovery.chunks)
      BY <1>2, <2>1 DEF DaemonInit, Attended, RingChunks
    <2> QED BY <1>0, <1>2, <2>1, <2>2 DEF DaemonInit, CoverInv
  <1>3. CASE ReadRecord
    <2>1. Head(ring).chunk \in Chunks
      BY <1>3, RingType DEF ReadRecord, SeedInv
    <2>2. /\ RingChunks \subseteq RingChunks' \cup {Head(ring).chunk}
          /\ \/ Head(ring).val = disk[Head(ring).chunk]
             \/ Head(ring).chunk \in RingChunks'
      BY <1>3, ReadRing DEF ReadRecord
    <2> QED
      BY <1>3, <2>1, <2>2, CoverStore DEF ReadRecord, BeginStore, Attended
  <1>4. CASE ReadNothing \/ NoSeedYet \/ NoRecovery
    BY <1>0, <1>4, CoverFrame DEF ReadNothing, NoSeedYet, NoRecovery
  <1>5. CASE AdoptSeed \/ RefuseSeed \/ BaseDone
    BY <1>0, <1>5, CoverFrame DEF AdoptSeed, RefuseSeed, BaseDone
  <1>6. CASE ReadBitmap
    <2>1. seedFile /\ taken = {}
      BY <1>0, <1>6 DEF ReadBitmap, MayRecover, DaemonInv, SeedInv, ToolInv,
                        Seeding, TypeInv, SeedTypeOK
    <2> QED BY <1>0, <1>6, <2>1, CoverFrame DEF ReadBitmap
  <1>7. CASE StartRecovery
    <2>1. ~recOn /\ todo = {} /\ recovery.chunks = {}
      BY <1>0, <1>7 DEF StartRecovery, DaemonInv, DaemonUp
    <2>2. \A c : Attended(c)' = Attended(c)
      BY <1>7, <2>1 DEF StartRecovery, Attended, RingChunks
    <2> QED BY <1>0, <1>7, <2>1, <2>2 DEF StartRecovery, CoverInv
  <1>8. CASE RecoverChunk
    <2>1. First(todo) \in Chunks
      BY <1>8, FirstIn DEF RecoverChunk, SeedInv, TypeInv, SeedTypeOK
    <2>2. RingChunks' = RingChunks
      BY <1>8 DEF RecoverChunk, RingChunks
    <2> QED BY <1>8, <2>1, <2>2, CoverStore DEF RecoverChunk, BeginStore
  <1>9. CASE RecoverDone
    <2>1. \A c : Attended(c)' = Attended(c)
      BY <1>9 DEF RecoverDone, Attended, RingChunks
    <2> QED BY <1>0, <1>9, <2>1 DEF RecoverDone, CoverInv
  <1>10. CASE BaseChunk
    <2>1. First(base) \in Chunks
      BY <1>10, FirstIn DEF BaseChunk, SeedInv, TypeInv, SeedTypeOK
    <2>2. RingChunks' = RingChunks
      BY <1>10 DEF BaseChunk, RingChunks
    <2>3. CASE disk[First(base)] = Zero
      BY <1>0, <1>10, <2>3, CoverFrame DEF BaseChunk
    <2>4. CASE disk[First(base)] # Zero
      BY <1>10, <2>1, <2>2, <2>4, CoverStore DEF BaseChunk, BeginStore
    <2> QED BY <2>3, <2>4
  <1>11. CASE Store
    <2>1. \A c : Attended(c)' = Attended(c)
      BY <1>11 DEF Store, Attended, RingChunks
    <2>2. replica \in [Chunks -> Vals]
      BY DEF SeedInv, TypeInv, SeedTypeOK
    <2> QED BY <1>0, <1>11, <2>1, <2>2 DEF Store, CoverInv
  <1> QED
    BY <1>1, <1>2, <1>3, <1>4, <1>5, <1>6, <1>7, <1>8, <1>9, <1>10, <1>11
       DEF DaemonStep

LEMMA NextCover ==
    ASSUME SeedInv, [Next]_vars PROVE CoverInv' /\ LastRecordInv'
  <1>0. CoverInv /\ LastRecordInv /\ DaemonInv
    BY DEF SeedInv
  <1>1. ASSUME NEW c \in Chunks, Write(c) PROVE CoverInv' /\ LastRecordInv'
    <2>1. LastRecordInv' /\ RingChunks' = RingChunks \cup {c}
      BY <1>1, WriteRing
    <2>2. \A d \in Chunks : d # c => disk'[d] = disk[d]
      BY <1>1 DEF Write, SeedInv, TypeInv, SeedTypeOK
    <2>3. \A d : Attended(d)' = (Attended(d) \/ d = c)
      BY <1>1, <2>1 DEF Write, Attended
    <2>4. store # NoStore => store.chunk \in Chunks
      BY DEF SeedInv, TypeInv, SeedTypeOK
    <2>5. spc = "write" => si \in Chunks
      BY DEF SeedInv, ToolInv, Seeding
    <2>6. CoverInv'
      BY <1>0, <1>1, <2>2, <2>3, <2>4, <2>5 DEF Write, CoverInv
    <2> QED BY <2>1, <2>6
  <1>2. CASE Crash
    <2>1. \A c \in Chunks :
            \/ c \in bitmap \cup taken \cup RingChunks \cup dead
            \/ store.chunk = c
            => Attended(c)'
      BY <1>2 DEF Crash, DaemonGone, Attended, RingChunks
    <2>2. todo \subseteq recovery.chunks
      BY <1>0 DEF DaemonInv
    <2>3. CoverInv'
      BY <1>0, <1>2, <2>1, <2>2 DEF Crash, DaemonGone, CoverInv, Attended
    <2> QED BY <1>0, <1>2, <2>3 DEF Crash, LastRecordInv
  <1>3. CASE Reboot
    <2>1. \A c \in Chunks : copied'[c] # boot'
      BY <1>3 DEF Reboot, SeedInv, TypeInv, SeedTypeOK, Boots
    <2>2. CoverInv'
      BY <1>3, <2>1 DEF Reboot, DaemonGone, ToolGone, CoverInv
    <2> QED BY <1>3, <2>2, EmptySeq DEF Reboot, LastRecordInv
  <1>4. CASE UNCHANGED vars
    BY <1>0, <1>4, CoverFrame DEF vars, LastRecordInv
  <1>5. CASE ToolStep \/ SeedAnew \/ SeedFail
    <2>1. UNCHANGED <<disk, ring>>
      BY <1>5 DEF ToolStep, SeedBegin, SeedRead, SeedWrite, SeedReport,
                  SeedCreate, SeedLoad, SeedTell, SeedDone, SeedAnew, SeedFail
    <2> QED BY <1>0, <1>5, <2>1, ToolCover DEF LastRecordInv
  <1>6. CASE ReadRecord
    BY <1>6, ReadRing, DaemonCover DEF ReadRecord, DaemonStep
  <1>7. CASE DaemonStep /\ ~ReadRecord
    <2>1. UNCHANGED <<disk, ring>>
      BY <1>7 DEF DaemonStep, DaemonLoad, DaemonInit, ReadNothing, NoSeedYet,
                  AdoptSeed, RefuseSeed, NoRecovery, ReadBitmap, StartRecovery,
                  RecoverChunk, RecoverDone, BaseChunk, BaseDone, Store
    <2> QED BY <1>0, <1>7, <2>1, DaemonCover DEF LastRecordInv
  <1> QED
    BY <1>1, <1>2, <1>3, <1>4, <1>5, <1>6, <1>7 DEF Next

-----------------------------------------------------------------------------
(***************************************************************************)
(* The results.                                                            *)
(***************************************************************************)

LEMMA InitSeedInv == Init => SeedInv
  <1> SUFFICES ASSUME Init PROVE SeedInv
    OBVIOUS
  <1>1. TypeInv
    BY InitType
  <1>2. ToolInv
    BY DEF Init, NoManifest, ToolInv, Seeding
  <1>3. DaemonInv
    BY DEF Init, DaemonInv, DaemonUp, NoFile
  <1>4. LayerInv /\ KeptInv
    BY DEF Init, LayerInv, KeptInv, DataRegions
  <1>5. LastRecordInv /\ CoverInv
    <2>1. Len(ring) = 0
      BY EmptySeq DEF Init
    <2> QED BY <2>1 DEF Init, LastRecordInv, CoverInv
  <1> QED BY <1>1, <1>2, <1>3, <1>4, <1>5 DEF SeedInv

LEMMA NextSeedInv == SeedInv /\ [Next]_vars => SeedInv'
  BY NextType, NextTool, NextDaemon, NextLayer, NextCover DEF SeedInv

\* The inductive invariant holds for every disk, and every number of writes,
\* crashes, failed seeding runs and reboots.
THEOREM SeedInductive == Spec => []SeedInv
  BY InitSeedInv, NextSeedInv, PTL DEF Spec

\* The state of tool and daemon is well typed; the resume point in seed.json is a
\* chunk of the disk, whenever a run of the tool failed.
THEOREM SeedTypes == Spec => []SeedTypeOK
  <1>1. SeedInv => SeedTypeOK
    BY DEF SeedInv, TypeInv
  <1> QED BY <1>1, SeedInductive, PTL

\* check_seed's argument: one recovery from the kernel's bitmap makes a copy of
\* this boot current, because every chunk that is behind the disk is still held by
\* somebody or was lost with a daemon.
THEOREM SeedCoverage == Spec => []SeedCovered
  <1>1. SeedInv => SeedCovered
    BY DEF SeedInv, CoverInv, SeedCovered, Attended, OnTheWay, Marked
  <1> QED BY <1>1, SeedInductive, PTL

\* From the creation of seed.raw on, a rebuild from the seed sees the data that
\* the replica held then, whatever the daemon wrote since and however often it was
\* restarted; but for chunks that a record applied before the daemon's adoption of
\* the seed, or the dd of a second run, changed past the seed layer (past), and
\* for chunks that were all zeroes.
THEOREM SeedPointSafe == Spec => []SeedPointKept
  <1>1. SeedInv => SeedPointKept
    BY DEF SeedInv, KeptInv, SeedPointKept, OverlaySeed
  <1> QED BY <1>1, SeedInductive, PTL

\* Data in seed.raw never changes.
THEOREM SeedRawOnce == Spec => WrittenOnce
  <1>1. SeedInv /\ [Next]_vars =>
          [\A c \in Chunks : seedRaw[c] # Zero => seedRaw'[c] = seedRaw[c]]_vars
    <2> SUFFICES ASSUME SeedInv, Next
                 PROVE  \A c \in Chunks :
                          seedRaw[c] # Zero => seedRaw'[c] = seedRaw[c]
      OBVIOUS
    <2>1. CASE ReadRecord
      <3>1. Head(ring).chunk \in Chunks /\ Head(ring).val \in Vals
        BY <2>1, RingType DEF ReadRecord, SeedInv
      <3> QED BY <2>1, <3>1, StoreKeeps DEF ReadRecord
    <2>2. CASE RecoverChunk
      <3>1. First(todo) \in Chunks /\ disk[First(todo)] \in Vals
        BY <2>2, FirstIn DEF RecoverChunk, SeedInv, TypeInv, SeedTypeOK
      <3> QED BY <2>2, <3>1, StoreKeeps DEF RecoverChunk
    <2>3. CASE BaseChunk
      <3>1. First(base) \in Chunks /\ disk[First(base)] \in Vals
        BY <2>3, FirstIn DEF BaseChunk, SeedInv, TypeInv, SeedTypeOK
      <3> QED BY <2>3, <3>1, StoreKeeps DEF BaseChunk
    <2>4. CASE \/ ToolStep \/ SeedAnew \/ SeedFail \/ Crash \/ Reboot
               \/ \E c \in Chunks : Write(c)
      BY <2>4 DEF ToolStep, SeedBegin, SeedRead, SeedWrite, SeedReport,
                  SeedCreate, SeedLoad, SeedTell, SeedDone, SeedAnew, SeedFail,
                  Crash, Reboot, DaemonGone, Write
    <2>5. CASE DaemonStep /\ ~ReadRecord /\ ~RecoverChunk /\ ~BaseChunk
      BY <2>5 DEF DaemonStep, DaemonLoad, DaemonInit, ReadNothing, NoSeedYet,
                  AdoptSeed, RefuseSeed, NoRecovery, ReadBitmap, StartRecovery,
                  RecoverDone, BaseDone, Store
    <2> QED BY <2>1, <2>2, <2>3, <2>4, <2>5 DEF Next, DaemonStep
  <1> QED BY <1>1, SeedInductive, PTL DEF Spec, WrittenOnce
=============================================================================
