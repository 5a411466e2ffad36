---------------------------- MODULE RkcdpRebuild ----------------------------
(***************************************************************************)
(* A node's directory on NFS as the daemon and its readers share it:       *)
(* rkcdpd's status thread (write_status), the recovery API (api_rkcdp.py)  *)
(* and the rebuilds it spawns (rkcdp-rebuild.py), composed with the daemon *)
(* of Rkcdpd.                                                              *)
(*                                                                         *)
(* A rebuild takes .rebuild.lock, waits until status.json says PAUSED, and *)
(* copies replica.raw block by block.  Rkcdpd's RebuildBegin and           *)
(* RebuildEnd are all the daemon notices of it.                            *)
(*                                                                         *)
(* Time is the age of status.json as its readers see it: 0 for at most     *)
(* 30 s, 1 for 30 to 60 s, 2 for more.  The virtual machine is outside:    *)
(* creating it and its answering to ping succeed or fail.                  *)
(***************************************************************************)
EXTENDS Rkcdpd

CONSTANT Procs   \* requests for a rebuild, and the processes that serve them

ASSUME ProcsAssumption == IsFiniteSet(Procs) /\ Cardinality(Procs) <= MaxRebuilds

VARIABLES
    status,    \* status.json: [state, age]
    progress,  \* PROGRESS_DIR/<node>.json: its state, or "none"
    rpc,       \* per rebuild, where it is
    force,     \* per rebuild, --force
    copy,      \* per rebuild, the blocks of its copy so far
    (* history *)
    images,    \* per rebuild, what the replica was while it was copied
    disturbed  \* rebuilds that copy what something the lock does not stop writes

rebuildVars == <<progress, rpc, force, copy, images, disturbed>>
allVars     == <<vars, status, rebuildVars>>
butLock     == <<device, replica, pendingBin, recovery, baseEnd, mainLoc,
                 copier, extra>>

RInit ==
    /\ Init
    /\ status = [state |-> "CDP", age |-> 2]
    /\ progress = "none"
    /\ rpc = [p \in Procs |-> "off"]
    /\ force = [p \in Procs |-> FALSE]
    /\ copy = [p \in Procs |-> << >>]
    /\ images = [p \in Procs |-> {}] /\ disturbed = {}

Copying(p) == rpc[p] = "copy"

\* The main thread holds records it will write without another look at the lock,
\* or a recovery runs or will: neither is parked.
Unparked ==
    \/ mpc \in {"consume", "drainConsume"} /\ batch # << >> /\ ~park
    \/ mpc = "applyPending" /\ upos < Len(pendingBin)
    \/ tpc["rec"] # "off"

-----------------------------------------------------------------------------
(***************************************************************************)
(* The daemon, and its status thread.                                      *)
(***************************************************************************)
\* What a step of the daemon leaves alone here, and its history.
Beside ==
    /\ images' = [p \in Procs |-> IF Copying(p) THEN images[p] \cup {replica'}
                                                ELSE images[p]]
    /\ disturbed' = disturbed
         \cup {p \in Procs : Copying(p) /\ tpc'["rec"] # "off"}
    /\ UNCHANGED <<progress, rpc, force, copy>>

\* write_status.
Reported == [state |-> StatusState, age |-> 0]

\* The process ends in an orderly way, with a last status.
Exits == mpc # "init" /\ mpc' = "init" /\ events' = events

Daemon ==
    /\ NodeStep
    /\ status' = IF Exits THEN Reported ELSE status
    /\ Beside

\* A turn of status_loop.
WriteStatus ==
    /\ mpc # "init" /\ ~stop
    /\ status' = Reported
    /\ UNCHANGED <<vars, rebuildVars>>

\* Without a status thread the status ages.
Tick ==
    /\ mpc = "init" \/ stop
    /\ status.age < 2
    /\ status' = [status EXCEPT !.age = @ + 1]
    /\ UNCHANGED <<vars, rebuildVars>>

-----------------------------------------------------------------------------
(***************************************************************************)
(* The API.                                                                *)
(***************************************************************************)

\* Mutant of NodeState: the age of the status not looked at.
NodeStateAgeless ==
    IF status.state = "SYNCING" THEN "syncing"
    ELSE IF ~baseEnd THEN "unprotected"
    ELSE IF status.state \in {"BITMAP", "RECOVERING"} THEN "bitmap"
    ELSE IF status.state = "PAUSED" THEN "paused" ELSE "cdp"

\* _nodes, for a node that is not being seeded.
NodeState ==
    IF status.age < 2 /\ status.state = "SYNCING" THEN "syncing"
    ELSE IF ~baseEnd THEN "unprotected"
    ELSE IF status.age = 2 THEN "stale"
    ELSE IF status.state \in {"BITMAP", "RECOVERING"} THEN "bitmap"
    ELSE IF status.state = "PAUSED" THEN "paused" ELSE "cdp"

\* POST /api/rkcdp/rebuild, up to Popen: refused (409) while the progress file
\* says running.
Post(p) ==
    /\ rpc[p] = "off" /\ progress # "running"
    /\ \E f \in BOOLEAN : force' = [force EXCEPT ![p] = f]
    /\ rpc' = [rpc EXCEPT ![p] = "spawned"]
    /\ UNCHANGED <<vars, status, progress, copy, images, disturbed>>

-----------------------------------------------------------------------------
(***************************************************************************)
(* rkcdp-rebuild.  Every step of it writes the progress file first.        *)
(***************************************************************************)
GoOn(p, from, to) ==
    /\ rpc[p] = from
    /\ rpc' = [rpc EXCEPT ![p] = to]
    /\ progress' = "running"

\* Progress.__init__.
Begin(p) ==
    /\ GoOn(p, "spawned", "check")
    /\ UNCHANGED <<vars, status, force, copy, images, disturbed>>

\* Mutant of CheckPasses: base_end_seq not asked for.
CheckPassesAnyBase(p) == force[p] \/ status.age = 2

\* The base copy was completed, and the node is not alive or --force was given.
CheckPasses(p) == baseEnd /\ (force[p] \/ status.age = 2)

Check(p) ==
    /\ GoOn(p, "check", "lock") /\ CheckPasses(p)
    /\ UNCHANGED <<vars, status, force, copy, images, disturbed>>

\* The lock file is written over whatever is there.
TakeLock(p) ==
    /\ GoOn(p, "lock", "quiesce")
    /\ rebuildLock' = TRUE
    /\ rebuilds' = IF rebuildLock THEN rebuilds ELSE rebuilds + 1
    /\ UNCHANGED <<butLock, events, read, applied, last, owed, raced, status,
                   force, copy, images, disturbed>>

\* The wait ends when the daemon reports PAUSED, when its status is older than
\* 30 s, or after 30 looks at a daemon that has something else to report.
Quiesced(p) ==
    /\ GoOn(p, "quiesce", "copy")
    /\ status.state = "PAUSED" \/ status.age > 0 \/ StatusState # "PAUSED"
    /\ images' = [images EXCEPT ![p] = {replica}]
    /\ disturbed' = disturbed \cup {q \in {p} : Unparked \/ ~rebuildLock}
    /\ UNCHANGED <<vars, status, force, copy>>

\* cp, one block.
CopyBlock(p) ==
    /\ GoOn(p, "copy", IF Len(copy[p]) + 1 = NBlocks THEN "unlock" ELSE "copy")
    /\ copy' = [copy EXCEPT ![p] = Append(@, replica[Len(@) + 1])]
    /\ UNCHANGED <<vars, status, force, images, disturbed>>

\* Whoever wrote it, the lock goes; the copies it protected are on their own.
DropLock(p) ==
    /\ rebuildLock' = FALSE
    /\ UNCHANGED <<butLock, ghosts>>
    /\ disturbed' = (disturbed \cup {q \in Procs : Copying(q)}) \ {p}

\* Nothing writes to a finished copy any more, and nobody reads that of a failed
\* rebuild, which is left behind.
Forget(p) ==
    /\ force' = [force EXCEPT ![p] = FALSE]
    /\ copy' = [copy EXCEPT ![p] = << >>]
    /\ images' = [images EXCEPT ![p] = {}]

\* os.remove(lock) after the copy.
Unlock(p) ==
    /\ GoOn(p, "unlock", "vm") /\ rebuildLock
    /\ DropLock(p)
    /\ Forget(p)
    /\ UNCHANGED <<status>>

\* The VM is created and started on the host and the node's address answers.
Done(p) ==
    /\ rpc[p] = "vm"
    /\ rpc' = [rpc EXCEPT ![p] = "done"]
    /\ progress' = "done"
    /\ UNCHANGED <<vars, status, force, copy, images, disturbed>>

\* What makes a rebuild fail: its check, errors of files, cp, ssh or the virtual
\* machine and, in "unlock", a lock somebody else removed or --from seed, since the
\* log that overlay_seed calls at its end is not defined.
MayFail(p) ==
    \/ rpc[p] = "check" /\ ~CheckPasses(p)
    \/ rpc[p] \in {"lock", "quiesce", "copy", "unlock", "vm"}

\* pg.fail; the finally clause follows.
Fail(p) ==
    /\ MayFail(p)
    /\ rpc' = [rpc EXCEPT ![p] = IF @ = "vm" THEN "failed" ELSE "finally"]
    /\ progress' = "failed"
    /\ Forget(p)
    /\ disturbed' = disturbed \ {p}
    /\ UNCHANGED <<vars, status>>

\* Mutant of Finally: the lock left behind.
FinallyKeeps(p) ==
    /\ rpc[p] = "finally"
    /\ rpc' = [rpc EXCEPT ![p] = "failed"]
    /\ UNCHANGED <<vars, status, progress, force, copy, images, disturbed>>

\* The finally clause removes the lock if there is one, its own or not.
Finally(p) ==
    /\ rpc[p] = "finally"
    /\ rpc' = [rpc EXCEPT ![p] = "failed"]
    /\ DropLock(p)
    /\ UNCHANGED <<status, progress, force, copy, images>>

Rebuild(p) ==
    \/ Begin(p) \/ Check(p) \/ TakeLock(p) \/ Quiesced(p) \/ CopyBlock(p)
    \/ Unlock(p) \/ Done(p) \/ Fail(p) \/ Finally(p)

-----------------------------------------------------------------------------
RNext ==
    \/ Daemon \/ WriteStatus \/ Tick
    \/ \E p \in Procs : Post(p) \/ Rebuild(p)

RSpec == RInit /\ [][RNext]_allVars

\* The status thread of a live daemon runs, time passes, and a rebuild is not
\* killed; of the daemon's other threads nothing is asked, and nobody is obliged
\* to start a daemon that is down.
RFairSpec ==
    /\ RSpec
    /\ WF_allVars(WriteStatus) /\ WF_allVars(Tick)
    /\ \A p \in Procs : WF_allVars(Rebuild(p))

-----------------------------------------------------------------------------
(***************************************************************************)
(* Properties.                                                             *)
(***************************************************************************)

\* Rkcdpd's specification: whatever rebuilds, two at a time and failing ones
\* included, do to the node's directory, is what Rkcdpd lets RebuildBegin and
\* RebuildEnd do, so that all that holds of the daemon there holds here.
ImplementsDaemon == Spec

\* A finished copy of the replica is what the replica was at one moment, unless
\* the daemon still had records in hand from before the lock when it began, or a
\* recovery ran during it, or another rebuild removed the lock.
CopyOfOneMoment ==
    \A p \in Procs :
        (Len(copy[p]) = NBlocks /\ p \notin disturbed) => copy[p] \in images[p]

\* "2 quiesce: lock the dir; a live rkcdpd parks its writes and reports PAUSED"
\* (rkcdp-rebuild.py:230): with PAUSED reported and the lock in place, the copy is
\* of one moment.
QuiescedCopy ==
    \A p \in Procs :
        (Len(copy[p]) = NBlocks /\ rebuildLock /\ status.state = "PAUSED")
            => copy[p] \in images[p]

\* Every rebuild that starts comes to an end, and then neither its lock nor a
\* progress file that says "running", which would refuse the next one, is left.
EndsClean == <>[](~rebuildLock /\ progress # "running")

\* A node that stays down is shown as stale, or as unprotected if its base copy
\* never ended, whatever its last status was.
DeadShownStale ==
    <>[](mpc = "init") => <>[](NodeState \in {"stale", "unprotected"})
=============================================================================
