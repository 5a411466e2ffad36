----------------------------- MODULE CdpTarget -----------------------------
(***************************************************************************)
(* The dm-cdp device-mapper target, drivers/md/dm-cdp.c: every write bio   *)
(* that passes through the target is marked in a dirty bitmap and copied   *)
(* into a ring buffer from which readers of /dev/cdpN take whole records,  *)
(* in submission order, once the device below has acknowledged the bio.    *)
(*                                                                         *)
(* Processes: one per bio in flight (cdp_map and cdp_end_io), one per open *)
(* file (cdp_read), and the ioctl or dm message that clears the bitmap.    *)
(* A step is what no other process can see inside of: a critical section   *)
(* of t->lock or t->read_lock is split where it publishes head or tail.    *)
(* Sizes are in units of CDP_REC_ALIGN (8 bytes), so that ALIGN() in       *)
(* cdp_reserve, whose argument is always a multiple of 8, is the identity. *)
(***************************************************************************)
EXTENDS Integers, Sequences, FiniteSets

CONSTANTS
    RingSize,      \* t->ring_size
    HdrSize,       \* sizeof(struct dm_cdp_rec)
    SectorSize,    \* ring units of payload per 512-byte sector
    DevSectors,    \* ti->len
    ChunkSectors,  \* t->chunk_sectors: sectors per bit of the bitmap
    WordBits,      \* bits per unsigned long
    Bios,          \* bios that can be in flight at one time
    Files,         \* open files of /dev/cdpN
    NonBlock,      \* the files opened with O_NONBLOCK
    Requests,      \* what a bio may ask for
    BufSizes,      \* the sizes of the buffers given to read(2)
    Env,           \* what may happen besides I/O and reading, see EnvEvents
    MaxSubmits,    \* bound: bios submitted in one behaviour
    None           \* no owner

\* READ stands for every bio that cdp_map passes through unlogged.
LoggedTypes == {"WRITE", "FLUSH", "DISCARD", "ZERO"}
ReqTypes    == LoggedTypes \cup {"READ"}
EnvEvents   == {"clear", "efault", "signal", "dtr", "ioerror"}

\* cdp_ctr refuses ring_mb = 0 and chunk_kb = 0, and a megabyte holds many
\* headers; the block layer keeps a bio inside the device.
ASSUME SizesAssumption ==
    /\ RingSize \in Nat /\ HdrSize \in Nat \ {0} /\ SectorSize \in Nat \ {0}
    /\ 4 * HdrSize <= RingSize
    /\ DevSectors \in Nat \ {0} /\ ChunkSectors \in Nat \ {0}
    /\ WordBits \in Nat \ {0} /\ MaxSubmits \in Nat
ASSUME InputsAssumption ==
    /\ Requests \subseteq [type : ReqTypes, sector : Nat, len : Nat]
    /\ \A r \in Requests : r.sector + r.len <= DevSectors
    /\ \A r \in Requests : r.type = "FLUSH" => r.sector = 0 /\ r.len = 0
    /\ BufSizes \subseteq Nat
    /\ NonBlock \subseteq Files
    /\ Env \subseteq EnvEvents
    /\ None \notin Bios /\ None \notin Files

VARIABLES
    (* struct cdp_target *)
    head, tail,    \* monotonic producer and consumer offsets
    ring,          \* the ring's memory, one cell per unit
    seqNext, gapPending, overflowed,
    lock,          \* holder of t->lock while its section is open
    readLock,      \* holder of t->read_lock
    bitmap,        \* the chunks whose bit is set
    dead,
    (* bios *)
    bst,           \* where cdp_map / cdp_end_io stands for this bio
    breq,          \* what the bio asks for
    todo,          \* chunks cdp_mark has still to set
    off,           \* cdp_log's local "off"
    pb,            \* struct cdp_pb, the per-bio data
    (* readers *)
    rst,           \* where cdp_read stands
    rroom,         \* count - copied
    rdone,         \* records copied by this call
    rbuf,          \* cells of the record copy_to_user has just copied
    rnext,         \* pos + rec->rec_len for that record
    (* bitmap clear *)
    clr,           \* 0: none running; w: next word to clear; > Words: the flag
    (* history *)
    nsub,          \* bios submitted
    log,           \* every record ever reserved, in order
    got,           \* every record ever taken out of the ring, as read
    lost,          \* a record was dropped since the last reserved one
    slot,          \* the record of a bio: its place in log, 0 if none
    rlate,         \* dead was set when this call of cdp_read took the mutex
    owe, owed      \* sectors of in-flight / dropped bios nobody was told of

ringVars   == <<head, tail, ring, seqNext, gapPending, lock>>
bioVars    == <<bst, breq, todo, off, pb, nsub, slot>>
readVars   == <<readLock, rst, rroom, rdone, rbuf, rnext, rlate>>
bitmapVars == <<bitmap, overflowed, clr, owe, owed>>
vars == <<ringVars, bioVars, readVars, bitmapVars, dead, log, got, lost>>

(***************************************************************************)
(* Memory.  The first unit of a header holds its fields; the units after   *)
(* it, header or payload, are told apart by the record they belong to.     *)
(***************************************************************************)
States   == {"RESERVED", "DATA", "COMMITTED"}
HdrCells == [kind : {"hdr"}, type : LoggedTypes \cup {"PAD"}, seq : Nat,
             sector : Nat, len : Nat, rec_len : Nat, state : States,
             gap : BOOLEAN, err : BOOLEAN]
DatCells == [kind : {"dat"}, ix : Nat, unit : Nat]
Raw      == [kind |-> "raw"]
Cells    == HdrCells \cup DatCells \cup {Raw}

Dat(i, k)  == [kind |-> "dat", ix |-> i, unit |-> k]
IsHdr(c)   == c.kind = "hdr"
CellAt(c)  == IF c < RingSize THEN ring[c] ELSE Raw

\* Store the cell s(k) at every offset k of ks from ring position c.
Stored(c, ks, s(_)) ==
    [x \in 0 .. RingSize - 1 |-> IF x - c \in ks THEN s(x - c) ELSE ring[x]]

\* Stores through a struct dm_cdp_rec pointer into an existing header: the
\* state, and F_ERROR if e.
WithState(h, st, e) ==
    IF IsHdr(h) THEN [h EXCEPT !.state = st, !.err = h.err \/ e] ELSE Raw
SetState(c, st, e) == [ring EXCEPT ![c] = WithState(@, st, e)]

(***************************************************************************)
(* The dirty bitmap: cdp_mark and the geometry cdp_ctr computes.           *)
(***************************************************************************)

\* Mutant of Nbits: the short last chunk forgotten.
NbitsRoundedDown == DevSectors \div ChunkSectors

Nbits      == (DevSectors + ChunkSectors - 1) \div ChunkSectors
Words      == (Nbits + WordBits - 1) \div WordBits
WordOf(c)  == c \div WordBits + 1
ChunkOf(s) == s \div ChunkSectors
SectorsOf(r) == r.sector .. r.sector + r.len - 1

MarkChunks(r) ==
    LET first == r.sector \div ChunkSectors
        last0 == (r.sector + r.len - 1) \div ChunkSectors
        last  == IF last0 >= Nbits THEN Nbits - 1 ELSE last0
    IN  IF r.len = 0 THEN {} ELSE first .. last

-----------------------------------------------------------------------------
Init ==
    /\ head = 0 /\ tail = 0 /\ seqNext = 0
    /\ ring = [c \in 0 .. RingSize - 1 |-> Raw]
    /\ gapPending = FALSE /\ overflowed = FALSE /\ dead = FALSE
    /\ lock = None /\ readLock = None
    /\ bitmap = {} /\ clr = 0
    /\ bst = [b \in Bios |-> "free"]
    /\ breq = [b \in Bios |-> [type |-> "READ", sector |-> 0, len |-> 0]]
    /\ todo = [b \in Bios |-> {}]
    /\ off = [b \in Bios |-> 0]
    /\ pb = [b \in Bios |-> [rec_off |-> 0, logged |-> FALSE]]
    /\ rst = [f \in Files |-> "idle"]
    /\ rroom = [f \in Files |-> 0]
    /\ rdone = [f \in Files |-> FALSE]
    /\ rbuf = [f \in Files |-> << >>]
    /\ rnext = [f \in Files |-> 0]
    /\ nsub = 0 /\ log = << >> /\ got = << >> /\ lost = FALSE
    /\ slot = [b \in Bios |-> 0]
    /\ rlate = [f \in Files |-> FALSE]
    /\ owe = [b \in Bios |-> {}] /\ owed = {}

(***************************************************************************)
(* The producer: cdp_map, cdp_log, cdp_reserve.                            *)
(***************************************************************************)

\* Mutant of Logs: bios that write nothing are logged too.
LogsAll(r) == TRUE

\* The bios that cdp_map logs.
Logs(r)    == r.type \in LoggedTypes

\* Mutant of FreshBioData: pb->logged not reset.
StaleBioData(b) == pb

\* The per-bio data keeps whatever its last user left there, except for
\* pb->logged.
FreshBioData(b) == [pb EXCEPT ![b].logged = FALSE]

\* A bio enters cdp_map.
Submit(b, r) ==
    /\ bst[b] = "free" /\ ~dead /\ nsub < MaxSubmits
    /\ nsub' = nsub + 1
    /\ breq' = [breq EXCEPT ![b] = r]
    /\ pb' = FreshBioData(b)
    /\ bst' = [bst EXCEPT ![b] = IF Logs(r) THEN "log" ELSE "inflight"]
    /\ todo' = [todo EXCEPT ![b] = IF Logs(r) THEN MarkChunks(r) ELSE {}]
    /\ owe' = [owe EXCEPT ![b] = IF Logs(r) THEN SectorsOf(r) ELSE {}]
    /\ UNCHANGED <<ringVars, readVars, bitmap, overflowed, clr, owed, off,
                   slot, dead, log, got, lost>>

\* cdp_mark sets the bits one set_bit at a time, in ascending order.
Mark(b) ==
    /\ bst[b] = "log"
    /\ \E c \in todo[b] :
         /\ \A d \in todo[b] : c <= d
         /\ bitmap' = bitmap \cup {c}
         /\ todo' = [todo EXCEPT ![b] = @ \ {c}]
    /\ UNCHANGED <<ringVars, readVars, overflowed, clr, owe, owed, bst, breq,
                   off, pb, nsub, slot, dead, log, got, lost>>

Need(r)   == HdrSize + (IF r.type = "WRITE" THEN r.len * SectorSize ELSE 0)
TooBig(r) == Need(r) > RingSize \div 4

\* Mutant of Pad: every record starts at the ring's start.
PadAlways(r) == LET hpos == head % RingSize
                IN  IF hpos > 0 THEN RingSize - hpos ELSE 0

Pad(r)    == LET hpos == head % RingSize
             IN  IF hpos + Need(r) > RingSize THEN RingSize - hpos ELSE 0
Free      == RingSize - (head - tail)

\* Mutant of Fits: the pad not counted.
FitsUnpadded(r) == Need(r) <= Free

Fits(r)   == Need(r) + Pad(r) <= Free

\* Mutant of Refused: a full ring makes the bio wait.
RefusedForSize(r) == TooBig(r)

\* cdp_reserve gives up rather than waits for readers.
Refused(r)        == TooBig(r) \/ ~Fits(r)

\* cdp_log is past cdp_mark and cdp_reserve has not taken the lock yet.
Reserving(b) == bst[b] = "log" /\ todo[b] = {} /\ lock = None

\* Both overflow exits of cdp_reserve: the ring cannot take the record, the
\* bio goes on to the device without one.
Drop(b) ==
    /\ Reserving(b)
    /\ Refused(breq[b])
    /\ overflowed' = TRUE
    /\ gapPending' = TRUE
    /\ bst' = [bst EXCEPT ![b] = "inflight"]
    /\ lost' = TRUE
    /\ owed' = owed \cup owe[b]
    /\ owe' = [owe EXCEPT ![b] = {}]
    /\ UNCHANGED <<head, tail, ring, seqNext, lock, readVars, bitmap, clr,
                   breq, todo, off, pb, nsub, slot, dead, log, got>>

\* What the pad branch of cdp_reserve writes at the old head: nothing when
\* the slack is too small to hold a header.
PadHeader(pad) ==
    [kind |-> "hdr", type |-> "PAD", seq |-> 0, sector |-> 0, len |-> 0,
     rec_len |-> pad, state |-> "COMMITTED", gap |-> FALSE, err |-> FALSE]
PadStored(pad) ==
    IF pad < HdrSize THEN ring
    ELSE Stored(head % RingSize, 0 .. HdrSize - 1,
                LAMBDA k : IF k > 0 THEN Dat(0, k) ELSE PadHeader(pad))

\* The record does not fit before the end of the ring: head moves to the
\* boundary, and a reader may see that before the record is there.
ReservePad(b) ==
    /\ Reserving(b)
    /\ ~TooBig(breq[b]) /\ Fits(breq[b]) /\ Pad(breq[b]) > 0
    /\ lock' = b
    /\ ring' = PadStored(Pad(breq[b]))
    /\ head' = head + Pad(breq[b])
    /\ bst' = [bst EXCEPT ![b] = "padded"]
    /\ UNCHANGED <<tail, seqNext, gapPending, readVars, bitmapVars, breq, todo,
                   off, pb, nsub, slot, dead, log, got, lost>>

\* The header cdp_reserve fills in; i is the record's place in the log.
NewHeader(r, k, i) ==
    IF k > 0 THEN Dat(i, k)
    ELSE [kind |-> "hdr", type |-> r.type, seq |-> seqNext,
          sector |-> r.sector, len |-> r.len, rec_len |-> Need(r),
          state |-> "RESERVED", gap |-> gapPending, err |-> FALSE]

\* Nobody looks beyond head, so that writing the header and publishing it
\* with the new head are one step.
ReserveRecord(b) ==
    /\ \/ bst[b] = "padded" /\ lock = b
       \/ /\ Reserving(b) /\ ~TooBig(breq[b]) /\ Fits(breq[b])
          /\ Pad(breq[b]) = 0
    /\ LET r == breq[b]
           i == Len(log) + 1
       IN  /\ ring' = Stored(head % RingSize, 0 .. HdrSize - 1,
                             LAMBDA k : NewHeader(r, k, i))
           /\ gapPending' = FALSE
           /\ seqNext' = seqNext + 1
           /\ off' = [off EXCEPT ![b] = head]
           /\ head' = head + Need(r)
           /\ lock' = None
           /\ bst' = [bst EXCEPT ![b] = "reserved"]
           /\ log' = Append(log, [req |-> r, off |-> head, need |-> Need(r),
                                  lost |-> lost, copied |-> FALSE,
                                  res |-> "pending"])
           /\ slot' = [slot EXCEPT ![b] = i]
           /\ lost' = FALSE
           /\ owe' = [owe EXCEPT ![b] = {}]
    /\ UNCHANGED <<tail, readVars, bitmap, overflowed, clr, owed, breq, todo,
                   pb, nsub, dead, got>>

\* The rest of cdp_log, outside the lock: the payload, the state, and the
\* per-bio data for cdp_end_io.
CopyData(b) ==
    /\ bst[b] = "reserved"
    /\ LET c == off[b] % RingSize
           r == breq[b]
       IN  ring' = Stored(c, {0} \cup (HdrSize .. Need(r) - 1),
                          LAMBDA k : IF k > 0 THEN Dat(slot[b], k)
                                     ELSE WithState(ring[c], "DATA", FALSE))
    /\ pb' = [pb EXCEPT ![b] = [rec_off |-> off[b], logged |-> TRUE]]
    /\ bst' = [bst EXCEPT ![b] = "inflight"]
    /\ log' = [log EXCEPT ![slot[b]].copied = TRUE]
    /\ UNCHANGED <<head, tail, seqNext, gapPending, lock, readVars, bitmapVars,
                   breq, todo, off, nsub, slot, dead, got, lost>>

\* Mutant of Woken: the wake-up forgotten.
NobodyWoken == rst

\* wake_up(&t->wq): whoever sleeps evaluates its condition again.
Woken == [f \in Files |-> IF rst[f] = "sleep" THEN "check" ELSE rst[f]]

\* cdp_end_io: the device has completed the bio, with an error if e.
EndIo(b, e) ==
    /\ bst[b] = "inflight"
    /\ e => "ioerror" \in Env
    /\ IF pb[b].logged
       THEN /\ ring' = SetState(pb[b].rec_off % RingSize, "COMMITTED", e)
            /\ rst' = Woken
       ELSE UNCHANGED <<ring, rst>>
    /\ log' = IF slot[b] = 0 THEN log
              ELSE [log EXCEPT ![slot[b]].res = IF e THEN "error" ELSE "ok"]
    /\ slot' = [slot EXCEPT ![b] = 0]
    /\ bst' = [bst EXCEPT ![b] = "free"]
    /\ UNCHANGED <<head, tail, seqNext, gapPending, lock, bitmapVars, breq,
                   todo, off, pb, nsub, dead, got, lost, readLock, rroom,
                   rdone, rbuf, rnext, rlate>>

(***************************************************************************)
(* The consumer: cdp_next, cdp_readable, cdp_read.                         *)
(***************************************************************************)

\* Mutant of NextPos: slack too small for a header not skipped.
NextPosNoSlack(p) ==
    LET c == p % RingSize
    IN  IF p < head /\ IsHdr(ring[c]) /\ ring[c].type = "PAD"
        THEN p + ring[c].rec_len ELSE p

\* One turn of cdp_next's loop.  The turn after a skip starts at the ring's
\* boundary and never skips again (CursorAtNext), so one turn is the loop.
NextPos(p) ==
    LET c == p % RingSize
    IN  IF p >= head THEN p
        ELSE IF RingSize - c < HdrSize THEN p + (RingSize - c)
        ELSE IF IsHdr(ring[c]) /\ ring[c].type = "PAD" THEN p + ring[c].rec_len
        ELSE p

\* cdp_readable, and the condition cdp_read evaluates under the mutex.
ReadPos  == NextPos(tail)
ReadHdr  == ring[ReadPos % RingSize]

\* Mutant of Readable: DATA is deliverable too.
ReadableEarly == ReadPos < head /\ IsHdr(ReadHdr) /\ ReadHdr.state # "RESERVED"

Readable == ReadPos < head /\ IsHdr(ReadHdr) /\ ReadHdr.state = "COMMITTED"

Return(f) ==
    /\ readLock' = None
    /\ rst' = [rst EXCEPT ![f] = "idle"]
    /\ rroom' = [rroom EXCEPT ![f] = 0]
    /\ rdone' = [rdone EXCEPT ![f] = FALSE]
    /\ rlate' = [rlate EXCEPT ![f] = FALSE]
    /\ UNCHANGED <<ringVars, bioVars, bitmapVars, dead, log, got, lost, rbuf,
                   rnext>>

Step(f, st) ==
    /\ rst' = [rst EXCEPT ![f] = st]
    /\ UNCHANGED <<ringVars, bioVars, bitmapVars, dead, log, got, lost, rroom,
                   rdone, rbuf, rnext, rlate>>

\* read(2) with a buffer of n, from the moment it owns the mutex.
BeginRead(f, n) ==
    /\ rst[f] = "idle" /\ readLock = None
    /\ readLock' = f
    /\ rst' = [rst EXCEPT ![f] = "scan"]
    /\ rroom' = [rroom EXCEPT ![f] = n]
    /\ rlate' = [rlate EXCEPT ![f] = dead]
    /\ UNCHANGED <<ringVars, bioVars, bitmapVars, dead, log, got, lost, rdone,
                   rbuf, rnext>>

\* Nothing deliverable after at least one record: the call returns them.
ReturnData(f) == rst[f] = "scan" /\ ~Readable /\ rdone[f] /\ Return(f)

\* Mutant of FindEmpty: the state of the record not looked at.
FindEmptyUnchecked(f) ==
    /\ rst[f] = "scan" /\ ~rdone[f]
    /\ Step(f, "empty") /\ UNCHANGED readLock

\* Nothing deliverable.  The test of t->dead comes after, in a step of its own.
FindEmpty(f) ==
    /\ rst[f] = "scan" /\ ~Readable /\ ~rdone[f]
    /\ Step(f, "empty") /\ UNCHANGED readLock

ReturnEof(f)   == rst[f] = "empty" /\ dead /\ Return(f)
ReturnAgain(f) == rst[f] = "empty" /\ ~dead /\ f \in NonBlock /\ Return(f)

\* wait_event_interruptible with the mutex released: the condition is
\* evaluated on entry and after every wake-up, the mutex is taken again.
Wait(f) ==
    /\ rst[f] = "empty" /\ ~dead /\ f \notin NonBlock
    /\ readLock' = None
    /\ Step(f, "check")
WaitCheck(f) ==
    /\ rst[f] = "check"
    /\ Step(f, IF Readable \/ dead THEN "relock" ELSE "sleep")
    /\ UNCHANGED readLock
Relock(f) ==
    /\ rst[f] = "relock" /\ readLock = None
    /\ readLock' = f
    /\ Step(f, "scan")

\* A signal ends the wait, or the wait for the mutex after it.
Interrupted(f) ==
    /\ "signal" \in Env
    /\ rst[f] \in {"sleep", "relock"}
    /\ Step(f, "idle") /\ UNCHANGED readLock

\* -EMSGSIZE, or the records that did fit.
ShortBuffer(f) ==
    /\ rst[f] = "scan" /\ Readable
    /\ ReadHdr.rec_len > rroom[f]
    /\ Return(f)

\* copy_to_user fails: -EFAULT, or the records copied before; tail stays.
CopyFault(f) ==
    /\ "efault" \in Env
    /\ rst[f] = "scan" /\ Readable
    /\ ReadHdr.rec_len <= rroom[f]
    /\ Return(f)

CopyOut(f) ==
    /\ rst[f] = "scan" /\ Readable
    /\ ReadHdr.rec_len <= rroom[f]
    /\ rbuf' = [rbuf EXCEPT ![f] =
                  [k \in 1 .. ReadHdr.rec_len |->
                      CellAt((ReadPos % RingSize) + k - 1)]]
    /\ rnext' = [rnext EXCEPT ![f] = ReadPos + ReadHdr.rec_len]
    /\ rroom' = [rroom EXCEPT ![f] = @ - ReadHdr.rec_len]
    /\ rdone' = [rdone EXCEPT ![f] = TRUE]
    /\ rst' = [rst EXCEPT ![f] = "copied"]
    /\ UNCHANGED <<ringVars, bioVars, bitmapVars, dead, log, got, lost, rlate,
                   readLock>>

\* WRITE_ONCE(t->tail, ...): the space is the producers' again.
Advance(f) ==
    /\ rst[f] = "copied"
    /\ tail' = rnext[f]
    /\ got' = Append(got, rbuf[f])
    /\ rbuf' = [rbuf EXCEPT ![f] = << >>]
    /\ rnext' = [rnext EXCEPT ![f] = 0]
    /\ rst' = [rst EXCEPT ![f] = "scan"]
    /\ UNCHANGED <<head, ring, seqNext, gapPending, lock, bioVars, bitmapVars,
                   dead, log, lost, rlate, rroom, rdone, readLock>>

(***************************************************************************)
(* Clearing the bitmap: DM_CDP_IOC_BITMAP with DM_CDP_BM_CLEAR, and, with  *)
(* the bits thrown away, DM_CDP_IOC_BITMAP_CLEAR and "clear_bitmap".       *)
(***************************************************************************)
ClearBegin ==
    /\ "clear" \in Env /\ clr = 0
    /\ clr' = 1
    /\ UNCHANGED <<ringVars, bioVars, readVars, bitmap, overflowed, owe, owed,
                   dead, log, got, lost>>

\* xchg of one word: the caller now knows of the chunks in it.
ClearWord ==
    /\ clr \in 1 .. Words
    /\ LET taken == {c \in bitmap : WordOf(c) = clr}
       IN  /\ bitmap' = bitmap \ taken
           /\ owed' = {s \in owed : ChunkOf(s) \notin taken}
           /\ owe' = [b \in Bios |->
                        {s \in owe[b] : ChunkOf(s) \notin taken \ todo[b]}]
    /\ clr' = clr + 1
    /\ UNCHANGED <<ringVars, bioVars, readVars, overflowed, dead, log, got,
                   lost>>

ClearFlag ==
    /\ clr > Words /\ lock = None
    /\ overflowed' = FALSE
    /\ clr' = 0
    /\ UNCHANGED <<ringVars, bioVars, readVars, bitmap, owe, owed, dead, log,
                   got, lost>>

(***************************************************************************)
(* cdp_dtr.  Device mapper destroys a table when no bio is inside it.      *)
(***************************************************************************)
Dtr ==
    /\ "dtr" \in Env /\ ~dead
    /\ \A b \in Bios : bst[b] = "free"
    /\ dead' = TRUE
    /\ rst' = Woken
    /\ UNCHANGED <<ringVars, bioVars, bitmapVars, log, got, lost, readLock,
                   rroom, rdone, rbuf, rnext, rlate>>

-----------------------------------------------------------------------------
MapStep(b) == Mark(b) \/ Drop(b) \/ ReservePad(b) \/ ReserveRecord(b)
              \/ CopyData(b)
ReadStep(f) ==
    \/ \E n \in BufSizes : BeginRead(f, n)
    \/ ReturnData(f) \/ FindEmpty(f) \/ ReturnEof(f) \/ ReturnAgain(f)
    \/ Wait(f) \/ WaitCheck(f) \/ Relock(f) \/ ShortBuffer(f)
    \/ CopyOut(f) \/ Advance(f)

Next ==
    \/ \E b \in Bios :
         \/ \E r \in Requests : Submit(b, r)
         \/ MapStep(b)
         \/ \E e \in BOOLEAN : EndIo(b, e)
    \/ \E f \in Files : ReadStep(f) \/ Interrupted(f) \/ CopyFault(f)
    \/ ClearBegin \/ ClearWord \/ ClearFlag
    \/ Dtr

Spec == Init /\ [][Next]_vars

\* cdp_map runs to its end once entered, and the device completes every bio.
IoFairness == \A b \in Bios : WF_vars(MapStep(b)) /\ WF_vars(EndIo(b, FALSE))

\* Consumers call read(2) for ever, and a call that can go on does.
ReadFairness == \A f \in Files : WF_vars(ReadStep(f))

IoSpec   == Spec /\ IoFairness
FairSpec == Spec /\ IoFairness /\ ReadFairness

-----------------------------------------------------------------------------
(***************************************************************************)
(* Properties.                                                             *)
(***************************************************************************)
BioStates  == {"free", "log", "padded", "reserved", "inflight"}
ReadStates == {"idle", "scan", "empty", "check", "sleep", "relock", "copied"}
Entries == [req : Requests, off : Nat, need : Nat, lost : BOOLEAN,
            copied : BOOLEAN, res : {"pending", "ok", "error"}]

RingType ==
    /\ head \in Nat /\ tail \in Nat /\ seqNext \in Nat
    /\ ring \in [0 .. RingSize - 1 -> Cells]
    /\ gapPending \in BOOLEAN /\ lost \in BOOLEAN /\ dead \in BOOLEAN
    /\ lock \in Bios \cup {None}
BioType ==
    /\ bst \in [Bios -> BioStates]
    /\ breq \in [Bios -> [type : ReqTypes, sector : Nat, len : Nat]]
    /\ \A b \in Bios :
         /\ bst[b] # "free" => breq[b] \in Requests
         /\ bst[b] \in {"log", "padded"} => breq[b].type \in LoggedTypes
    /\ off \in [Bios -> Nat]
    /\ pb \in [Bios -> [rec_off : Nat, logged : BOOLEAN]]
    /\ nsub \in 0 .. MaxSubmits
ReadType ==
    /\ readLock \in Files \cup {None}
    /\ rst \in [Files -> ReadStates]
    /\ rroom \in [Files -> Nat] /\ rnext \in [Files -> Nat]
    /\ rdone \in [Files -> BOOLEAN] /\ rlate \in [Files -> BOOLEAN]
    /\ rbuf \in [Files -> Seq(Cells)]
BitmapType ==
    /\ bitmap \subseteq 0 .. Nbits - 1
    /\ overflowed \in BOOLEAN
    /\ clr \in 0 .. Words + 1
    /\ todo \in [Bios -> SUBSET (0 .. Nbits - 1)]
    /\ owe \in [Bios -> SUBSET (0 .. DevSectors - 1)]
    /\ owed \subseteq 0 .. DevSectors - 1
LogType ==
    /\ log \in Seq(Entries)
    /\ got \in Seq(Seq(Cells))
    /\ slot \in [Bios -> Nat]
    /\ \A b \in Bios : slot[b] <= Len(log)

\* The types of the target's state and of the history variables.
TypeOK == RingType /\ BioType /\ ReadType /\ BitmapType /\ LogType

\* The header record i must have by now, and the cells a reader must be given.
HeaderOf(i) ==
    LET e == log[i]
    IN  [kind |-> "hdr", type |-> e.req.type, seq |-> i - 1,
         sector |-> e.req.sector, len |-> e.req.len, rec_len |-> e.need,
         state |-> IF e.res # "pending" THEN "COMMITTED"
                   ELSE IF e.copied THEN "DATA" ELSE "RESERVED",
         gap |-> e.lost, err |-> e.res = "error"]
Image(i) == [k \in 1 .. log[i].need |->
                IF k = 1 THEN HeaderOf(i) ELSE Dat(i, k - 1)]
Unread   == Len(got) + 1 .. Len(log)

\* What a reader has not taken yet is in the ring as it was written: the
\* record lies between tail and head, does not run over the end of the ring,
\* and no later record, pad or late cdp_end_io has touched its header or, once
\* copied, its payload.  (cdp_reserve's arithmetic on head, tail, pad.)
RingIntact ==
    /\ tail <= head /\ head - tail <= RingSize
    /\ \A i \in Unread :
         LET e == log[i]
             c == e.off % RingSize
         IN  /\ tail <= e.off /\ e.off + e.need <= head
             /\ c + e.need <= RingSize
             /\ ring[c] = HeaderOf(i)
             /\ \A k \in 1 .. e.need - 1 :
                  k < HdrSize \/ e.copied => ring[c + k] = Dat(i, k)

\* cdp_next leads the reader from tail to the oldest unread record, whether
\* the ring wrapped with a pad record or with slack too small for one, and to
\* head when there is none; a second turn of its loop changes nothing.
CursorAtNext ==
    /\ ReadPos = IF Unread = {} THEN head ELSE log[Len(got) + 1].off
    /\ NextPos(ReadPos) = ReadPos

\* The stream read(2) has delivered, over all files, is the stream of reserved
\* records in submission order: none skipped, repeated or torn, each after its
\* bio was acknowledged and with the error it ended with, and flagged
\* GAP_BEFORE exactly when a record was dropped in front of it.
StreamFaithful ==
    /\ Len(got) <= Len(log)
    /\ \A i \in 1 .. Len(got) : log[i].res # "pending" /\ got[i] = Image(i)

\* Every sector of a dropped write is covered by a set bit until someone has
\* read or cleared that bit after cdp_mark set it: "Protection degrades to
\* changed-block tracking".
BitmapCoversDrops == \A s \in owed : ChunkOf(s) \in bitmap

\* A reader that has caught up is never told of a gap by a record that could
\* fit: cdp_reserve drops a record of legal size only while others are unread.
EmptyRingAccepts ==
    [][\A b \in Bios : Drop(b) /\ Unread = {} => TooBig(breq[b])]_vars

\* A read(2) that took the mutex after the target was removed returns 0 only
\* when every record has been delivered.
LateEofComplete ==
    [][\A f \in Files : ReturnEof(f) /\ rlate[f] => Unread = {}]_vars

\* A bio that enters the target reaches its end whatever the readers do: a
\* full ring never holds up I/O.
IoNeverBlocks == \A b \in Bios : bst[b] # "free" ~> bst[b] = "free"
=============================================================================
