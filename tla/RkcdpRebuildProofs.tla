------------------------ MODULE RkcdpRebuildProofs --------------------------
(***************************************************************************)
(* Rebuilds do to the daemon only what Rkcdpd lets a rebuild do, and a     *)
(* rebuild's copy is of one moment, for every number of rebuilds and every *)
(* disk.                                                                   *)
(***************************************************************************)
EXTENDS RkcdpRebuild, RkcdpdProofs, FiniteSetTheorems

USE DaemonAssumption, ProcsAssumption

RPcs == {"off", "spawned", "check", "lock", "quiesce", "copy", "unlock", "vm",
         "finally", "done", "failed"}

\* Rebuilds past the point where they take the lock.
Past == {p \in Procs : rpc[p] \notin {"off", "spawned", "check", "lock"}}

\* What allows a rebuild to take the lock: the base copy is done, for good, and
\* each rebuild takes it once.
LockInv ==
    /\ rpc \in [Procs -> RPcs]
    /\ rebuildLock \in BOOLEAN /\ baseEnd \in BOOLEAN /\ rebuilds \in Nat
    /\ \A p \in Procs : rpc[p] \in {"lock", "quiesce", "copy"} => baseEnd
    /\ baseEnd => tpc["base"] \in {"off", "finish"}
    /\ rebuilds <= Cardinality(Past)

-----------------------------------------------------------------------------
\* The daemon takes back neither its base copy nor anybody's lock.
LEMMA NodeKeeps ==
    ASSUME TypeInv, NodeStep, baseEnd => tpc["base"] \in {"off", "finish"}
    PROVE  /\ UNCHANGED <<rebuildLock, rebuilds>>
           /\ baseEnd => baseEnd'
           /\ baseEnd' \in BOOLEAN
           /\ baseEnd' => tpc'["base"] \in {"off", "finish"}
  <1> USE DEF device, files, mainLoc, copier, ghosts
  <1>0. tpc \in [Threads -> CopyPcs] /\ baseEnd \in BOOLEAN
    BY DEF TypeInv
  <1>1. ASSUME NEW b \in Blocks, Write(b) \/ Ended(b)
        PROVE  UNCHANGED <<rebuildLock, rebuilds, baseEnd, tpc>>
    BY <1>1, EndedStep DEF Write, EndIo
  <1>2. CASE MainStep
    <2>1. CASE Start
      BY <1>0, <2>1 DEF Start, Threads
    <2>2. CASE Exit
      BY <1>0, <2>2 DEF Exit, ProcessGone, Threads
    <2>3. CASE StartRecovery
      BY <1>0, <2>3 DEF StartRecovery, Threads
    <2>4. CASE ~(Start \/ Exit \/ StartRecovery)
      <3>1. UNCHANGED <<rebuildLock, rebuilds, baseEnd, tpc>>
        BY <1>2, <2>4 DEF MainStep, ReadRing, ReadNothing, Consume, ConsumeEnd,
             NoRecovery, ReadBitmap, Unpark, ApplyPending, PendingDone, MarkBegin,
             Freeze, FreezeRefused, DrainEnd, Thaw, RecordPoint
      <3> QED BY <1>0, <3>1
    <2> QED BY <1>0, <2>1, <2>2, <2>3, <2>4
  <1>3. ASSUME NEW t \in Threads, CopyStep(t) \/ CopyFail(t)
        PROVE  /\ UNCHANGED <<rebuildLock, rebuilds>>
               /\ baseEnd => baseEnd'
               /\ baseEnd' \in BOOLEAN
               /\ baseEnd' => tpc'["base"] \in {"off", "finish"}
    <2> USE DEF Goto, Threads
    <2>1. CASE BaseDoneNow
      BY <1>0, <2>1 DEF BaseDoneNow
    <2>2. CASE BaseBegin \/ BaseExit
      BY <1>0, <2>2 DEF BaseBegin, BaseExit
    <2>3. CASE RecoverDone
      BY <1>0, <2>3 DEF RecoverDone
    <2>4. CASE ~(BaseDoneNow \/ BaseBegin \/ BaseExit \/ RecoverDone)
      <3>1. /\ UNCHANGED <<rebuildLock, rebuilds, baseEnd>>
            /\ tpc[t] \notin {"off", "finish"}
            /\ t # "base" => tpc'["base"] = tpc["base"]
        BY <1>0, <1>3, <2>4 DEF CopyStep, FlagChunk, ReadDevice, WriteReplica,
             UnflagChunk, ApplyLate, ChunkDone, Interrupted, CopyFail
      <3> QED BY <1>0, <3>1
    <2> QED BY <2>1, <2>2, <2>3, <2>4
  <1>4. CASE Crash \/ FreezeTimeout
    BY <1>0, <1>4 DEF Crash, FreezeTimeout, ProcessGone, Threads
  <1>5. CASE OnSig
    BY <1>0, <1>5 DEF OnSig
  <1> QED BY <1>0, <1>1, <1>2, <1>3, <1>4, <1>5 DEF NodeStep, Ended

\* The rebuilds past the lock only grow in number.
LEMMA PastGrows ==
    ASSUME rpc \in [Procs -> RPcs], Past \subseteq Past'
    PROVE  Cardinality(Past) \in Nat /\ Cardinality(Past) <= Cardinality(Past')
  <1>1. Past' \subseteq Procs
    BY DEF Past
  <1>2. IsFiniteSet(Past')
    BY <1>1, FS_Subset
  <1> QED BY <1>2, FS_Subset, FS_CardinalityType

\* A rebuild about to take the lock is not among them.
LEMMA RoomForOne ==
    ASSUME LockInv, NEW p \in Procs, rpc[p] = "lock"
    PROVE  /\ rebuilds < MaxRebuilds
           /\ \A S \in SUBSET Procs : Past \cup {p} \subseteq S =>
                 rebuilds + 1 <= Cardinality(S)
  <1>1. Past \subseteq Procs /\ p \notin Past /\ IsFiniteSet(Past)
    BY FS_Subset DEF Past
  <1>2. Cardinality(Past \cup {p}) = Cardinality(Past) + 1
        /\ IsFiniteSet(Past \cup {p})
    BY <1>1, FS_AddElement
  <1>3. Cardinality(Past) \in Nat
    BY <1>1, FS_CardinalityType
  <1>4. ASSUME NEW S \in SUBSET Procs, Past \cup {p} \subseteq S
        PROVE  rebuilds + 1 <= Cardinality(S)
    <2>1. IsFiniteSet(S) /\ Cardinality(Past \cup {p}) <= Cardinality(S)
          /\ Cardinality(S) \in Nat
      BY <1>4, FS_Subset, FS_CardinalityType
    <2> QED BY <1>2, <1>3, <2>1 DEF LockInv
  <1>5. Past \cup {p} \subseteq Procs
    BY <1>1
  <1>6. rebuilds + 1 <= Cardinality(Procs)
    BY <1>4, <1>5
  <1>7. Cardinality(Procs) \in Nat
    BY FS_CardinalityType
  <1> QED BY <1>4, <1>6, <1>7 DEF LockInv

-----------------------------------------------------------------------------
\* Every step of the composed system is one of Rkcdpd's or leaves its state alone.
LEMMA StepRefines ==
    ASSUME LockInv, [RNext]_allVars
    PROVE  [Next]_vars
  <1> USE DEF vars, device, files, mainLoc, copier, extra, marking, ghosts, butLock
  <1>1. CASE Daemon
    BY <1>1 DEF Daemon, Next
  <1>2. CASE WriteStatus \/ Tick \/ UNCHANGED allVars
    <2>1. UNCHANGED vars
      BY <1>2 DEF WriteStatus, Tick, allVars
    <2> QED BY <2>1
  <1>3. ASSUME NEW p \in Procs,
               \/ Post(p) \/ Begin(p) \/ Check(p) \/ Quiesced(p) \/ CopyBlock(p)
               \/ Done(p) \/ Fail(p)
        PROVE  [Next]_vars
    <2>1. UNCHANGED vars
      BY <1>3 DEF Post, Begin, Check, Quiesced, CopyBlock, Done, Fail
    <2> QED BY <2>1
  <1>4. ASSUME NEW p \in Procs, TakeLock(p) PROVE [Next]_vars
    <2>1. rpc[p] = "lock" /\ rebuildLock' = TRUE
          /\ UNCHANGED <<butLock, events, read, applied, last, owed, raced>>
          /\ rebuilds' = IF rebuildLock THEN rebuilds ELSE rebuilds + 1
      BY <1>4 DEF TakeLock, GoOn
    <2>2. baseEnd /\ rebuilds < MaxRebuilds
      BY <2>1, RoomForOne DEF LockInv
    <2>3. CASE rebuildLock
      <3>1. UNCHANGED <<rebuildLock, rebuilds>>
        BY <2>1, <2>3 DEF LockInv
      <3>2. UNCHANGED vars
        BY <2>1, <3>1
      <3> QED BY <3>2
    <2>4. CASE ~rebuildLock
      <3>1. RebuildBegin
        BY <2>1, <2>2, <2>4 DEF RebuildBegin
      <3> QED BY <3>1 DEF Next
    <2> QED BY <2>3, <2>4
  <1>5. ASSUME NEW p \in Procs, Unlock(p) \/ Finally(p) PROVE [Next]_vars
    <2>1. rebuildLock' = FALSE /\ UNCHANGED <<butLock, ghosts>>
      BY <1>5 DEF Unlock, Finally, DropLock
    <2>2. CASE rebuildLock
      <3>1. RebuildEnd
        BY <2>1, <2>2 DEF RebuildEnd
      <3> QED BY <3>1 DEF Next
    <2>3. CASE ~rebuildLock
      <3>1. rebuildLock' = rebuildLock
        BY <2>1, <2>3 DEF LockInv
      <3>2. UNCHANGED vars
        BY <2>1, <3>1
      <3> QED BY <3>2
    <2> QED BY <2>2, <2>3
  <1> QED BY <1>1, <1>2, <1>3, <1>4, <1>5 DEF RNext, Rebuild

\* The steps of a rebuild, by where they start and end.
LEMMA RebuildStep ==
    ASSUME LockInv, NEW p \in Procs, Post(p) \/ Rebuild(p)
    PROVE  /\ rpc' \in [Procs -> RPcs]
           /\ \A q \in Procs : q # p => rpc'[q] = rpc[q]
           /\ rpc[p] \notin {"off", "spawned", "check", "lock"} =>
                 rpc'[p] \notin {"off", "spawned", "check", "lock"}
           /\ rpc'[p] = "lock" => baseEnd
           /\ rpc'[p] \in {"quiesce", "copy"} => rpc[p] \in {"lock", "quiesce", "copy"}
           /\ UNCHANGED <<baseEnd, tpc>>
  <1> USE DEF vars, device, files, mainLoc, copier, extra, marking, ghosts, butLock,
              GoOn, RPcs
  <1>0. rpc \in [Procs -> RPcs]
    BY DEF LockInv
  <1>1. CASE Post(p)
    BY <1>0, <1>1 DEF Post
  <1>2. CASE Begin(p)
    BY <1>0, <1>2 DEF Begin
  <1>3. CASE Check(p)
    BY <1>0, <1>3 DEF Check, CheckPasses
  <1>4. CASE TakeLock(p)
    BY <1>0, <1>4 DEF TakeLock
  <1>5. CASE Quiesced(p)
    BY <1>0, <1>5 DEF Quiesced
  <1>6. CASE CopyBlock(p)
    BY <1>0, <1>6 DEF CopyBlock
  <1>7. CASE Unlock(p)
    BY <1>0, <1>7 DEF Unlock, DropLock
  <1>8. CASE Done(p)
    BY <1>0, <1>8 DEF Done
  <1>9. CASE Fail(p)
    BY <1>0, <1>9 DEF Fail, MayFail
  <1>10. CASE Finally(p)
    BY <1>0, <1>10 DEF Finally, DropLock
  <1> QED BY <1>1, <1>2, <1>3, <1>4, <1>5, <1>6, <1>7, <1>8, <1>9, <1>10 DEF Rebuild

LEMMA LockStep ==
    ASSUME TypeInv, LockInv, [RNext]_allVars
    PROVE  LockInv'
  <1> USE DEF vars, device, files, mainLoc, copier, extra, marking, ghosts, butLock
  <1>1. CASE Daemon
    <2>1. rpc' = rpc /\ Past' = Past /\ NodeStep
      BY <1>1 DEF Daemon, Beside, Past
    <2>2. /\ UNCHANGED <<rebuildLock, rebuilds>> /\ (baseEnd => baseEnd')
          /\ baseEnd' \in BOOLEAN /\ (baseEnd' => tpc'["base"] \in {"off", "finish"})
      BY <2>1, NodeKeeps DEF LockInv
    <2> QED BY <2>1, <2>2 DEF LockInv
  <1>2. CASE WriteStatus \/ Tick \/ UNCHANGED allVars
    <2>1. UNCHANGED <<rpc, rebuildLock, baseEnd, rebuilds, tpc>>
      BY <1>2 DEF WriteStatus, Tick, allVars, rebuildVars
    <2>2. Past' = Past
      BY <2>1 DEF Past
    <2> QED BY <2>1, <2>2 DEF LockInv
  <1>3. ASSUME NEW p \in Procs, Post(p) \/ Rebuild(p) PROVE LockInv'
    <2>1. /\ rpc' \in [Procs -> RPcs]
          /\ \A q \in Procs : q # p => rpc'[q] = rpc[q]
          /\ rpc[p] \notin {"off", "spawned", "check", "lock"} =>
                rpc'[p] \notin {"off", "spawned", "check", "lock"}
          /\ rpc'[p] = "lock" => baseEnd
          /\ rpc'[p] \in {"quiesce", "copy"} => rpc[p] \in {"lock", "quiesce", "copy"}
          /\ UNCHANGED <<baseEnd, tpc>>
      BY <1>3, RebuildStep
    <2>2. Past \subseteq Past' /\ Past' \in SUBSET Procs
      BY <2>1 DEF Past
    <2>3. rpc \in [Procs -> RPcs]
      BY DEF LockInv
    <2>4. Cardinality(Past) \in Nat /\ Cardinality(Past') \in Nat
          /\ Cardinality(Past) <= Cardinality(Past')
      BY <2>2, <2>3, PastGrows, FS_Subset, FS_CardinalityType
    <2>5. rebuildLock' \in BOOLEAN /\ rebuilds' \in Nat /\ rebuilds' <= Cardinality(Past')
      <3>1. CASE TakeLock(p)
        <4>1. /\ rpc[p] = "lock" /\ rpc'[p] = "quiesce" /\ rebuildLock' = TRUE
              /\ rebuilds' = rebuilds \/ rebuilds' = rebuilds + 1
          BY <2>3, <3>1 DEF TakeLock, GoOn
        <4>2. p \in Past'
          BY <4>1 DEF Past
        <4>3. rebuilds + 1 <= Cardinality(Past')
          BY <2>2, <4>1, <4>2, RoomForOne
        <4> QED BY <2>4, <4>1, <4>3 DEF LockInv
      <3>2. CASE ~TakeLock(p)
        <4>1. rebuilds' = rebuilds /\ (rebuildLock' = rebuildLock \/ rebuildLock' = FALSE)
          BY <1>3, <3>2 DEF Rebuild, Post, Begin, Check, Quiesced, CopyBlock, Unlock,
                            Done, Fail, Finally, DropLock
        <4>2. rebuildLock' \in BOOLEAN
          BY <4>1 DEF LockInv
        <4>3. rebuilds' \in Nat /\ rebuilds' <= Cardinality(Past')
          BY <2>4, <4>1 DEF LockInv
        <4> QED BY <4>2, <4>3
      <3> QED BY <3>1, <3>2
    <2>6. \A q \in Procs : rpc'[q] \in {"lock", "quiesce", "copy"} => baseEnd'
      BY <2>1 DEF LockInv
    <2> QED BY <2>1, <2>5, <2>6 DEF LockInv
  <1> QED BY <1>1, <1>2, <1>3 DEF RNext

LEMMA LockInit ==
    ASSUME RInit
    PROVE  LockInv
  <1>1. Past = {} /\ Cardinality({}) = 0
    BY FS_EmptySet DEF RInit, Past
  <1>2. rpc \in [Procs -> RPcs] /\ \A p \in Procs : rpc[p] = "off"
    BY DEF RInit, RPcs
  <1>3. /\ rebuildLock \in BOOLEAN /\ baseEnd \in BOOLEAN
        /\ tpc["base"] = "off"
    BY DEF RInit, Init, Threads
  <1>4. rebuilds \in Nat /\ rebuilds <= Cardinality(Past)
    BY <1>1 DEF RInit, Init
  <1> QED BY <1>2, <1>3, <1>4 DEF LockInv

\* Any number of rebuilds, overlapping and failing ones included, do to the
\* node's directory what Rkcdpd lets RebuildBegin and RebuildEnd do: what is
\* proved of the daemon holds beside them.
THEOREM RebuildsImplementDaemon == RSpec => ImplementsDaemon
  <1>1. RInit => Init /\ LockInv /\ TypeInv
    BY LockInit, TypeInit DEF RInit
  <1>2. TypeInv /\ LockInv /\ [RNext]_allVars => [Next]_vars /\ LockInv' /\ TypeInv'
    <2> SUFFICES ASSUME TypeInv, LockInv, [RNext]_allVars
                 PROVE  [Next]_vars /\ LockInv' /\ TypeInv'
      OBVIOUS
    <2>1. [Next]_vars
      BY StepRefines
    <2>2. TypeInv'
      BY <2>1, TypeStep, TypeStutter
    <2> QED BY <2>1, <2>2, LockStep
  <1> QED BY <1>1, <1>2, PTL DEF RSpec, ImplementsDaemon, Spec

-----------------------------------------------------------------------------
(* The copy.                                                               *)

\* A copy that nothing disturbs is a prefix of a replica that stands still; when it
\* is complete, it is that replica.
CopyInv ==
    /\ copy \in [Procs -> Seq(Vals)] /\ images \in [Procs -> SUBSET [Blocks -> Vals]]
    /\ \A p \in Procs :
         /\ rpc[p] \notin {"copy", "unlock"} => copy[p] = << >>
         /\ rpc[p] = "copy" => Len(copy[p]) < NBlocks
         /\ (rpc[p] = "copy" /\ p \notin disturbed) =>
               /\ rebuildLock /\ ~Unparked
               /\ images[p] = {replica}
               /\ \A k \in 1 .. Len(copy[p]) : copy[p][k] = replica[k]
         /\ (rpc[p] = "unlock" /\ p \notin disturbed) => copy[p] \in images[p]

\* Under the lock, with nothing unparked, the daemon writes nothing to the replica,
\* and starts nothing but a recovery.
LEMMA LockedNode ==
    ASSUME TypeInv, LockInv, NodeStep, rebuildLock, ~Unparked, baseEnd
    PROVE  replica' = replica /\ (Unparked' => tpc'["rec"] # "off")
  <1> USE DEF device, files, mainLoc, copier, ghosts
  <1>0. /\ tpc["rec"] = "off" /\ tpc["base"] \in {"off", "finish"}
        /\ ~(mpc \in {"consume", "drainConsume"} /\ batch # << >> /\ ~park)
        /\ ~(mpc = "applyPending" /\ upos < Len(pendingBin))
    BY DEF Unparked, LockInv
  <1>1. ASSUME NEW b \in Blocks, Write(b) \/ Ended(b)
        PROVE  replica' = replica /\ (Unparked' => tpc'["rec"] # "off")
    BY <1>0, <1>1, EndedStep DEF Write, EndIo, Unparked
  <1>2. CASE MainStep
    <2>1. CASE Start \/ ReadNothing \/ NoRecovery \/ ReadBitmap \/ StartRecovery
      BY <1>0, <2>1 DEF Start, ReadNothing, NoRecovery, ReadBitmap, StartRecovery,
                        Unparked
    <2>2. CASE ReadRing
      BY <1>0, <2>2 DEF ReadRing, Paused, Unparked
    <2>3. CASE Consume
      BY <1>0, <2>3 DEF Consume, Unparked
    <2>4. CASE ConsumeEnd
      BY <1>0, <2>4 DEF ConsumeEnd, Unparked
    <2>5. CASE Unpark
      BY <1>0, <2>5 DEF Unpark, MayUnpark, Paused, NextTurn, Unparked
    <2>6. CASE ApplyPending
      BY <1>0, <2>6 DEF ApplyPending
    <2>7. CASE PendingDone
      BY <1>0, <2>7 DEF PendingDone, NextTurn, Unparked
    <2>8. CASE \/ MarkBegin \/ Freeze \/ FreezeRefused \/ DrainEnd \/ Thaw
               \/ RecordPoint
      BY <1>0, <2>8 DEF MarkBegin, Freeze, FreezeRefused, DrainEnd, Thaw,
                        RecordPoint, Unparked
    <2>9. CASE Exit
      BY <1>0, <2>9 DEF Exit, ProcessGone, Unparked
    <2> QED BY <1>2, <2>1, <2>2, <2>3, <2>4, <2>5, <2>6, <2>7, <2>8, <2>9
            DEF MainStep
  <1>3. ASSUME NEW t \in Threads, CopyStep(t) \/ CopyFail(t)
        PROVE  replica' = replica /\ (Unparked' => tpc'["rec"] # "off")
    <2>1. t = "base" /\ BaseExit
      BY <1>0, <1>3 DEF CopyStep, FlagChunk, ReadDevice, WriteReplica, UnflagChunk,
           ApplyLate, ChunkDone, Interrupted, CopyFail, RecoverDone, BaseBegin,
           BaseDoneNow, Threads
    <2> QED BY <1>0, <2>1 DEF BaseExit, Unparked
  <1>4. CASE Crash \/ FreezeTimeout
    BY <1>0, <1>4 DEF Crash, FreezeTimeout, ProcessGone, Unparked
  <1>5. CASE OnSig
    BY <1>0, <1>5 DEF OnSig, Unparked
  <1> QED BY <1>1, <1>2, <1>3, <1>4, <1>5 DEF NodeStep, Ended

LEMMA CopyDaemon ==
    ASSUME TypeInv, TypeInv', LockInv, CopyInv, Daemon
    PROVE  CopyInv'
  <1>1. /\ NodeStep /\ UNCHANGED <<rpc, copy>>
        /\ images' = [p \in Procs |-> IF Copying(p) THEN images[p] \cup {replica'}
                                                   ELSE images[p]]
        /\ disturbed' = disturbed
             \cup {p \in Procs : Copying(p) /\ tpc'["rec"] # "off"}
    BY DEF Daemon, Beside
  <1>2. images' \in [Procs -> SUBSET [Blocks -> Vals]]
    BY <1>1 DEF CopyInv, TypeInv
  <1>3. ASSUME NEW p \in Procs, rpc[p] = "copy", p \notin disturbed'
        PROVE  /\ rebuildLock' /\ ~Unparked' /\ replica' = replica
               /\ images'[p] = {replica'}
    <2>1. p \notin disturbed /\ tpc'["rec"] = "off"
      BY <1>1, <1>3 DEF Copying
    <2>2. rebuildLock /\ ~Unparked /\ baseEnd /\ images[p] = {replica}
      BY <1>3, <2>1 DEF CopyInv, LockInv
    <2>3. replica' = replica /\ ~Unparked'
      BY <1>1, <2>1, <2>2, LockedNode
    <2>4. rebuildLock' = rebuildLock
      BY <1>1, NodeKeeps DEF LockInv
    <2>5. images'[p] = {replica'}
      BY <1>1, <1>3, <2>2, <2>3 DEF Copying
    <2> QED BY <2>2, <2>3, <2>4, <2>5
  <1>4. ASSUME NEW p \in Procs, rpc[p] = "copy", p \notin disturbed'
        PROVE  \A k \in 1 .. Len(copy[p]) : copy[p][k] = replica'[k]
    <2>1. p \notin disturbed /\ replica' = replica
      BY <1>1, <1>3, <1>4
    <2> QED BY <1>4, <2>1 DEF CopyInv
  <1>5. ASSUME NEW p \in Procs, rpc[p] = "unlock", p \notin disturbed'
        PROVE  copy[p] \in images'[p]
    BY <1>1, <1>5 DEF CopyInv, Copying
  <1> QED BY <1>1, <1>2, <1>3, <1>4, <1>5 DEF CopyInv

\* A rebuild's own step, for the other rebuilds: their copies stay what they are,
\* and if the lock goes they are disturbed.
LEMMA CopyOthers ==
    ASSUME LockInv, CopyInv, NEW p \in Procs, Post(p) \/ Rebuild(p)
    PROVE  /\ replica' = replica /\ (Unparked' = Unparked)
           /\ \A q \in Procs : q # p =>
                /\ rpc'[q] = rpc[q] /\ copy'[q] = copy[q] /\ images'[q] = images[q]
                /\ q \notin disturbed' => q \notin disturbed
                /\ (rpc[q] = "copy" /\ q \notin disturbed' /\ rebuildLock) => rebuildLock'
  <1> USE DEF vars, device, files, mainLoc, copier, extra, marking, ghosts, butLock,
              GoOn, Forget
  <1>0. /\ rpc \in [Procs -> RPcs] /\ copy \in [Procs -> Seq(Vals)]
        /\ images \in [Procs -> SUBSET [Blocks -> Vals]]
    BY DEF LockInv, CopyInv
  <1>1. CASE Post(p) \/ Begin(p) \/ Check(p) \/ Done(p)
    BY <1>0, <1>1 DEF Post, Begin, Check, Done, Unparked
  <1>2. CASE TakeLock(p)
    BY <1>0, <1>2 DEF TakeLock, Unparked
  <1>3. CASE Quiesced(p)
    BY <1>0, <1>3 DEF Quiesced, Unparked
  <1>4. CASE CopyBlock(p)
    BY <1>0, <1>4 DEF CopyBlock, Unparked
  <1>5. CASE Unlock(p)
    BY <1>0, <1>5 DEF Unlock, DropLock, Unparked, Copying
  <1>6. CASE Fail(p)
    BY <1>0, <1>6 DEF Fail, Unparked
  <1>7. CASE Finally(p)
    BY <1>0, <1>7 DEF Finally, DropLock, Unparked, Copying
  <1> QED BY <1>1, <1>2, <1>3, <1>4, <1>5, <1>6, <1>7 DEF Rebuild

\* What CopyInv says of one rebuild.
OneCopy(p) ==
    /\ copy[p] \in Seq(Vals) /\ images[p] \in SUBSET [Blocks -> Vals]
    /\ rpc[p] \notin {"copy", "unlock"} => copy[p] = << >>
    /\ rpc[p] = "copy" => Len(copy[p]) < NBlocks
    /\ (rpc[p] = "copy" /\ p \notin disturbed) =>
          /\ rebuildLock /\ ~Unparked
          /\ images[p] = {replica}
          /\ \A k \in 1 .. Len(copy[p]) : copy[p][k] = replica[k]
    /\ (rpc[p] = "unlock" /\ p \notin disturbed) => copy[p] \in images[p]

LEMMA CopyOwn ==
    ASSUME TypeInv, LockInv, CopyInv, NEW p \in Procs, Post(p) \/ Rebuild(p)
    PROVE  /\ OneCopy(p)'
           /\ \E s : copy' = [copy EXCEPT ![p] = s]
           /\ \E s : images' = [images EXCEPT ![p] = s]
  <1> USE DEF vars, device, files, mainLoc, copier, extra, marking, ghosts, butLock,
              GoOn, Forget
  <1>0. /\ rpc \in [Procs -> RPcs] /\ copy \in [Procs -> Seq(Vals)]
        /\ images \in [Procs -> SUBSET [Blocks -> Vals]] /\ OneCopy(p)
        /\ replica \in [Blocks -> Vals]
    BY DEF LockInv, CopyInv, OneCopy, TypeInv
  <1>a. copy = [copy EXCEPT ![p] = copy[p]] /\ images = [images EXCEPT ![p] = images[p]]
    BY <1>0
  <1>b. << >> \in Seq(Vals) /\ Len(<< >>) = 0
    BY EmptySeq
  <1>1. CASE Post(p) \/ Begin(p) \/ Check(p) \/ Done(p)
    <2>1. /\ UNCHANGED <<copy, images>> /\ rpc[p] \notin {"copy", "unlock"}
          /\ rpc'[p] \notin {"copy", "unlock"}
      BY <1>0, <1>1 DEF Post, Begin, Check, Done
    <2> QED BY <1>0, <1>a, <2>1 DEF OneCopy
  <1>2. CASE TakeLock(p)
    <2>1. /\ UNCHANGED <<copy, images>> /\ rpc[p] \notin {"copy", "unlock"}
          /\ rpc'[p] \notin {"copy", "unlock"}
      BY <1>0, <1>2 DEF TakeLock
    <2> QED BY <1>0, <1>a, <2>1 DEF OneCopy
  <1>3. CASE Quiesced(p)
    <2>1. /\ images' = [images EXCEPT ![p] = {replica}] /\ UNCHANGED copy
          /\ rpc[p] = "quiesce" /\ rpc'[p] = "copy"
          /\ p \notin disturbed' => ~Unparked /\ rebuildLock
          /\ UNCHANGED <<replica, rebuildLock>> /\ Unparked' = Unparked
      BY <1>0, <1>3 DEF Quiesced, Unparked
    <2>2. copy'[p] = << >> /\ images'[p] = {replica}
      BY <1>0, <2>1 DEF OneCopy
    <2>3. copy'[p] \in Seq(Vals) /\ images'[p] \in SUBSET [Blocks -> Vals]
      BY <1>0, <1>b, <2>2
    <2>4. Len(copy'[p]) = 0 /\ 0 < NBlocks
      BY <1>b, <2>2, DaemonAssumption
    <2>5. \A k \in 1 .. Len(copy'[p]) : copy'[p][k] = replica'[k]
      BY <2>4
    <2>6. OneCopy(p)'
      BY <2>1, <2>2, <2>3, <2>4, <2>5 DEF OneCopy
    <2>7. \E s : copy' = [copy EXCEPT ![p] = s]
      BY <1>a, <2>1
    <2>8. \E s : images' = [images EXCEPT ![p] = s]
      BY <2>1
    <2> QED BY <2>6, <2>7, <2>8
  <1>4. CASE CopyBlock(p)
    <2> DEFINE n == Len(copy[p])
               new == Append(copy[p], replica[n + 1])
    <2>1. /\ rpc[p] = "copy" /\ copy' = [copy EXCEPT ![p] = new]
          /\ rpc'[p] = (IF n + 1 = NBlocks THEN "unlock" ELSE "copy")
          /\ UNCHANGED <<images, disturbed, replica, rebuildLock>>
          /\ Unparked' = Unparked
      BY <1>0, <1>4 DEF CopyBlock, Unparked
    <2>2. n \in Nat /\ n < NBlocks /\ copy[p] \in Seq(Vals)
      BY <1>0, <2>1, LenProperties DEF OneCopy
    <2>3. n + 1 \in Blocks
      BY <2>2 DEF Blocks
    <2>4. replica[n + 1] \in Vals
      BY <1>0, <2>3
    <2>5. /\ new \in Seq(Vals) /\ Len(new) = n + 1 /\ new[n + 1] = replica[n + 1]
          /\ \A k \in 1 .. n : new[k] = copy[p][k]
      BY <2>2, <2>4, AppendProperties
    <2>6. copy'[p] = new
      BY <1>0, <2>1
    <2> HIDE DEF new
    <2>7. ASSUME p \notin disturbed
          PROVE  \A k \in 1 .. n + 1 : new[k] = replica[k]
      <3>1. \A k \in 1 .. n : copy[p][k] = replica[k]
        BY <1>0, <2>1, <2>7 DEF OneCopy
      <3> HIDE DEF n
      <3>2. \A k \in 1 .. n + 1 : k \in 1 .. n \/ k = n + 1
        BY <2>2
      <3> QED BY <2>5, <3>1, <3>2
    <2>8. CASE n + 1 = NBlocks
      <3>1. ASSUME p \notin disturbed PROVE new = replica
        <4>1. new = [k \in 1 .. n + 1 |-> new[k]]
          BY <2>5
        <4>2. replica = [k \in Blocks |-> replica[k]] /\ Blocks = 1 .. n + 1
          BY <1>0, <2>8 DEF Blocks
        <4> QED BY <2>7, <3>1, <4>1, <4>2
      <3> QED BY <1>0, <1>a, <2>1, <2>5, <2>6, <2>8, <3>1 DEF OneCopy
    <2>9. CASE n + 1 # NBlocks
      <3>1. n + 1 < NBlocks
        BY <2>2, <2>9
      <3> QED BY <1>0, <1>a, <2>1, <2>5, <2>6, <2>7, <2>9, <3>1, ZenonT(60)
          DEF OneCopy
    <2> QED BY <2>8, <2>9
  <1>5. CASE Unlock(p) \/ Fail(p)
    <2>1. /\ copy' = [copy EXCEPT ![p] = << >>] /\ images' = [images EXCEPT ![p] = {}]
          /\ rpc'[p] \notin {"copy", "unlock"}
      BY <1>0, <1>5 DEF Unlock, Fail
    <2> QED BY <1>0, <1>b, <2>1 DEF OneCopy
  <1>6. CASE Finally(p)
    <2>1. /\ UNCHANGED <<copy, images>> /\ rpc[p] \notin {"copy", "unlock"}
          /\ rpc'[p] \notin {"copy", "unlock"}
      BY <1>0, <1>6 DEF Finally
    <2> QED BY <1>0, <1>a, <2>1 DEF OneCopy
  <1> QED BY <1>1, <1>2, <1>3, <1>4, <1>5, <1>6 DEF Rebuild

LEMMA CopyStepInv ==
    ASSUME TypeInv, TypeInv', LockInv, CopyInv, [RNext]_allVars
    PROVE  CopyInv'
  <1>1. CASE Daemon
    BY <1>1, CopyDaemon
  <1>2. CASE WriteStatus \/ Tick \/ UNCHANGED allVars
    <2>1. /\ UNCHANGED <<rpc, copy, images, disturbed, rebuildLock, replica>>
          /\ Unparked' = Unparked
      BY <1>2 DEF WriteStatus, Tick, allVars, rebuildVars, vars, files, mainLoc, copier,
                  Unparked
    <2> QED BY <2>1 DEF CopyInv
  <1>3. ASSUME NEW p \in Procs, Post(p) \/ Rebuild(p) PROVE CopyInv'
    <2>1. /\ replica' = replica /\ (Unparked' = Unparked)
          /\ \A q \in Procs : q # p =>
                /\ rpc'[q] = rpc[q] /\ copy'[q] = copy[q] /\ images'[q] = images[q]
                /\ q \notin disturbed' => q \notin disturbed
                /\ (rpc[q] = "copy" /\ q \notin disturbed' /\ rebuildLock) => rebuildLock'
      BY <1>3, CopyOthers
    <2>2. /\ OneCopy(p)'
          /\ \E s : copy' = [copy EXCEPT ![p] = s]
          /\ \E s : images' = [images EXCEPT ![p] = s]
      BY <1>3, CopyOwn
    <2>3. ASSUME NEW q \in Procs, q # p PROVE OneCopy(q)'
      <3>1. OneCopy(q)
        BY DEF CopyInv, OneCopy
      <3> QED BY <2>1, <2>3, <3>1 DEF OneCopy
    <2>4. \A q \in Procs : OneCopy(q)'
      BY <2>2, <2>3
    <2>5. DOMAIN copy = Procs /\ DOMAIN images = Procs
      BY DEF CopyInv
    <2>6. copy' = [q \in Procs |-> copy'[q]] /\ images' = [q \in Procs |-> images'[q]]
      BY <2>2, <2>5
    <2>7. /\ copy' \in [Procs -> Seq(Vals)]
          /\ images' \in [Procs -> SUBSET [Blocks -> Vals]]
      BY <2>4, <2>6 DEF OneCopy
    <2> QED BY <2>4, <2>7 DEF OneCopy, CopyInv
  <1> QED BY <1>1, <1>2, <1>3 DEF RNext

LEMMA CopyInit ==
    ASSUME RInit
    PROVE  CopyInv
  <1>1. << >> \in Seq(Vals)
    BY EmptySeq
  <1> QED BY <1>1 DEF RInit, CopyInv

\* A finished copy is the replica of one moment, unless records were in hand
\* from before the lock, a recovery ran, or another rebuild removed the lock: for
\* any number of rebuilds, any disk, and whatever the daemon does meanwhile.
THEOREM CopiesOfOneMoment == RSpec => []CopyOfOneMoment
  <1> DEFINE I == TypeInv /\ LockInv /\ CopyInv
  <1>1. RInit => I
    BY LockInit, TypeInit, CopyInit DEF RInit
  <1>2. I /\ [RNext]_allVars => I'
    <2> SUFFICES ASSUME TypeInv, LockInv, CopyInv, [RNext]_allVars
                 PROVE  TypeInv' /\ LockInv' /\ CopyInv'
      OBVIOUS
    <2>1. TypeInv'
      BY StepRefines, TypeStep, TypeStutter
    <2> QED BY <2>1, LockStep, CopyStepInv
  <1>3. I => CopyOfOneMoment
    <2> SUFFICES ASSUME LockInv, CopyInv, NEW p \in Procs, Len(copy[p]) = NBlocks,
                        p \notin disturbed
                 PROVE  copy[p] \in images[p]
      BY DEF CopyOfOneMoment
    <2>1. copy[p] # << >>
      BY EmptySeq
    <2>2. Len(copy[p]) \in Nat
      BY LenProperties DEF CopyInv
    <2>3. rpc[p] = "unlock"
      BY <2>1, <2>2 DEF CopyInv
    <2> QED BY <2>3 DEF CopyInv
  <1> QED BY <1>1, <1>2, <1>3, PTL DEF RSpec
=============================================================================
