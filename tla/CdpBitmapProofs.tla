-------------------------- MODULE CdpBitmapProofs ---------------------------
(***************************************************************************)
(* What dm-cdp owes to a reader it drops records for, and to one that      *)
(* reads on after the target was removed: a dropped write is covered by    *)
(* the bitmap, for every geometry of it, and a late end of file comes      *)
(* after the last record.                                                  *)
(***************************************************************************)
EXTENDS CdpTargetProofs

USE SizesAssumption

-----------------------------------------------------------------------------
(* Geometry of the bitmap.                                                 *)

\* Division keeps the order.
LEMMA DivMono ==
    ASSUME NEW N \in Nat, N > 0, NEW x \in Nat, NEW y \in Nat, x <= y
    PROVE  x \div N <= y \div N
  <1> DEFINE a == x \div N
             b == y \div N
  <1>1. /\ a \in Nat /\ b \in Nat
        /\ x = N * a + (x % N) /\ y = N * b + (y % N)
        /\ x % N \in 0 .. N - 1 /\ y % N \in 0 .. N - 1
    BY DivMod
  <1> HIDE DEF a, b
  <1>2. CASE b < a
    <2>1. N * b + N <= N * a
      BY <1>1, <1>2, MulGap
    <2> QED BY <1>1, <2>1
  <1>3. CASE a <= b
    BY <1>3 DEF a, b
  <1> QED BY <1>1, <1>2, <1>3

\* The bitmap has a bit for every sector of the device, the short last chunk
\* included.
LEMMA BitForSector ==
    ASSUME NEW s \in 0 .. DevSectors - 1
    PROVE  ChunkOf(s) \in 0 .. Nbits - 1
  <1> DEFINE C == ChunkSectors
             q == s \div C
             y == DevSectors + C - 1
  <1>1. /\ q \in Nat /\ s = C * q + (s % C) /\ s % C \in 0 .. C - 1
    BY DivMod
  <1>2. y \in Nat /\ s + C <= y
    OBVIOUS
  <1>3. (s + C) \div C = q + 1
    <2> DEFINE p == (s + C) \div C
    <2>1. /\ p \in Nat /\ s + C = C * p + ((s + C) % C)
          /\ (s + C) % C \in 0 .. C - 1
      BY DivMod
    <2>2. s + C = C * (q + 1) + (s % C)
      BY <1>1
    <2>3. C \in Nat /\ C > 0
      OBVIOUS
    <2> HIDE DEF p, q, C
    <2>4. ASSUME p < q + 1 PROVE FALSE
      BY <1>1, <2>1, <2>2, <2>3, <2>4, MulGap
    <2>5. ASSUME q + 1 < p PROVE FALSE
      BY <1>1, <2>1, <2>2, <2>3, <2>5, MulGap
    <2>6. p = q + 1
      <3>1. p \in Nat /\ q \in Nat
        BY <1>1, <2>1
      <3> QED BY <3>1, <2>4, <2>5
    <2> QED BY <2>6 DEF p
  <1>4. (s + C) \div C <= y \div C
    <2>1. s + C \in Nat
      OBVIOUS
    <2> QED BY <1>2, <2>1, DivMono
  <1>5. Nbits = y \div C /\ ChunkOf(s) = q
    BY DEF Nbits, ChunkOf
  <1>6. Nbits \in Nat
    BY GeometryType
  <1> HIDE DEF q, y, C
  <1> QED BY <1>1, <1>3, <1>4, <1>5, <1>6

\* cdp_mark covers every sector of the bio.
LEMMA MarkCovers ==
    ASSUME NEW r \in Requests, NEW s \in SectorsOf(r)
    PROVE  ChunkOf(s) \in MarkChunks(r)
  <1>1. r.sector \in Nat /\ r.len \in Nat /\ r.sector + r.len <= DevSectors
    BY InputsAssumption
  <1>2. /\ s \in Nat /\ r.sector <= s /\ s <= r.sector + r.len - 1
        /\ s \in 0 .. DevSectors - 1 /\ r.len # 0
        /\ r.sector + r.len - 1 \in Nat
    BY <1>1 DEF SectorsOf
  <1>3. ChunkOf(s) \in 0 .. Nbits - 1
    BY <1>2, BitForSector
  <1>4. r.sector \div ChunkSectors <= ChunkOf(s)
    BY <1>1, <1>2, DivMono DEF ChunkOf
  <1>5. ChunkOf(s) <= (r.sector + r.len - 1) \div ChunkSectors
    BY <1>2, DivMono DEF ChunkOf
  <1>6. /\ r.sector \div ChunkSectors \in Nat
        /\ (r.sector + r.len - 1) \div ChunkSectors \in Nat
    BY <1>1, <1>2, DivMod
  <1>7. Nbits \in Nat
    BY GeometryType
  <1> DEFINE first == r.sector \div ChunkSectors
             last0 == (r.sector + r.len - 1) \div ChunkSectors
  <1>8. MarkChunks(r) = first .. (IF last0 >= Nbits THEN Nbits - 1 ELSE last0)
    BY <1>2 DEF MarkChunks
  <1> HIDE DEF first, last0
  <1> QED
    BY <1>3, <1>4, <1>5, <1>6, <1>7, <1>8 DEF first, last0

-----------------------------------------------------------------------------
(* A dropped write is covered.                                             *)

\* A bio that may still be dropped has each of its sectors marked, or will mark
\* it, unless a clear has told of the bit since.
Marked == \A b \in Bios : bst[b] = "log" =>
            \A s \in owe[b] : ChunkOf(s) \in bitmap \cup todo[b]

BitmapInv == TypeOK /\ Marked /\ BitmapCoversDrops

LEMMA InitBitmap == Init => BitmapInv
  BY InitType DEF Init, BitmapInv, Marked, BitmapCoversDrops

LEMMA BitmapFrame ==
    ASSUME BitmapInv, TypeOK', bitmap \subseteq bitmap', owed' = owed,
           \A b \in Bios : bst'[b] = "log" =>
             bst[b] = "log" /\ todo'[b] = todo[b] /\ owe'[b] = owe[b]
    PROVE  BitmapInv'
  BY DEF BitmapInv, Marked, BitmapCoversDrops

LEMMA NextBitmap == BitmapInv /\ [Next]_vars => BitmapInv'
  <1> SUFFICES ASSUME BitmapInv, [Next]_vars PROVE BitmapInv'
    OBVIOUS
  <1>0. /\ TypeOK' /\ Marked /\ BitmapCoversDrops
        /\ bst \in [Bios -> BioStates]
        /\ todo \in [Bios -> SUBSET (0 .. Nbits - 1)]
        /\ owe \in [Bios -> SUBSET (0 .. DevSectors - 1)]
    BY TypeNext DEF BitmapInv, TypeOK, BioType, BitmapType
  <1>1. ASSUME NEW b \in Bios, NEW r \in Requests, Submit(b, r)
        PROVE  BitmapInv'
    <2>1. ASSUME NEW c \in Bios, bst'[c] = "log", NEW s \in owe'[c]
          PROVE  ChunkOf(s) \in bitmap \cup todo'[c]
      <3>1. CASE c = b
        BY <1>0, <1>1, <2>1, <3>1, MarkCovers DEF Submit
      <3>2. CASE c # b
        BY <1>0, <1>1, <2>1, <3>2 DEF Submit, Marked
      <3> QED BY <3>1, <3>2
    <2> QED BY <1>0, <1>1, <2>1 DEF BitmapInv, Submit, Marked, BitmapCoversDrops
  <1>2. ASSUME NEW b \in Bios, Mark(b) PROVE BitmapInv'
    <2>1. PICK c \in todo[b] : /\ bitmap' = bitmap \cup {c}
                               /\ todo' = [todo EXCEPT ![b] = @ \ {c}]
      BY <1>2 DEF Mark
    <2>2. Marked'
      BY <1>0, <1>2, <2>1 DEF Marked, Mark
    <2>3. BitmapCoversDrops'
      BY <1>0, <1>2, <2>1 DEF BitmapCoversDrops, Mark
    <2> QED BY <1>0, <2>2, <2>3 DEF BitmapInv
  <1>3. ASSUME NEW b \in Bios, Drop(b) PROVE BitmapInv'
    <2>1. bst[b] = "log" /\ todo[b] = {}
      BY <1>3 DEF Drop, Reserving
    <2>2. \A s \in owe[b] : ChunkOf(s) \in bitmap
      BY <1>0, <2>1 DEF Marked
    <2> QED
      BY <1>0, <1>3, <2>2 DEF BitmapInv, Marked, BitmapCoversDrops, Drop
  <1>4. ASSUME NEW b \in Bios, ReservePad(b) \/ CopyData(b) PROVE BitmapInv'
    BY <1>0, <1>4, BitmapFrame DEF ReservePad, CopyData, bitmapVars
  <1>5. ASSUME NEW b \in Bios, ReserveRecord(b) PROVE BitmapInv'
    BY <1>0, <1>5, BitmapFrame DEF ReserveRecord
  <1>6. ASSUME NEW b \in Bios, NEW e \in BOOLEAN, EndIo(b, e) PROVE BitmapInv'
    BY <1>0, <1>6, BitmapFrame DEF EndIo, bitmapVars
  <1>7. ASSUME NEW f \in Files, ReadStep(f) \/ Interrupted(f) \/ CopyFault(f)
        PROVE  BitmapInv'
    <2>1. UNCHANGED <<bioVars, bitmapVars>>
      BY <1>7 DEF ReadStep, BeginRead, ReturnData, FindEmpty, ReturnEof,
                  ReturnAgain, Wait, WaitCheck, Relock, ShortBuffer, CopyOut,
                  Advance, Interrupted, CopyFault, Return, Step
    <2> QED BY <1>0, <2>1, BitmapFrame DEF bioVars, bitmapVars
  <1>8. CASE ClearBegin \/ ClearFlag \/ Dtr \/ UNCHANGED vars
    BY <1>0, <1>8, BitmapFrame
       DEF ClearBegin, ClearFlag, Dtr, vars, bioVars, bitmapVars
  <1>9. CASE ClearWord
    <2> DEFINE taken == {c \in bitmap : WordOf(c) = clr}
    <2>1. /\ bitmap' = bitmap \ taken
          /\ owed' = {s \in owed : ChunkOf(s) \notin taken}
          /\ owe' = [b \in Bios |->
                       {s \in owe[b] : ChunkOf(s) \notin taken \ todo[b]}]
          /\ UNCHANGED <<bst, todo>>
      BY <1>9 DEF ClearWord, bioVars
    <2> HIDE DEF taken
    <2>2. Marked'
      BY <1>0, <2>1 DEF Marked
    <2>3. BitmapCoversDrops'
      BY <1>0, <2>1 DEF BitmapCoversDrops
    <2> QED BY <1>0, <2>2, <2>3 DEF BitmapInv
  <1> QED
    BY <1>1, <1>2, <1>3, <1>4, <1>5, <1>6, <1>7, <1>8, <1>9 DEF Next, MapStep

\* Changed-block tracking is complete: whatever the geometry of the bitmap, the
\* interleaving of bios and the clears, a sector whose record was dropped has its
\* bit set until somebody reads or clears that bit.
THEOREM DropsCovered == Spec => []BitmapCoversDrops
  <1>1. BitmapInv => BitmapCoversDrops
    BY DEF BitmapInv
  <1> QED BY <1>1, InitBitmap, NextBitmap, PTL DEF Spec

-----------------------------------------------------------------------------
(* The end of file after the target was removed.                           *)

\* No bio is inside a removed target, so no record is pending; a reader that
\* began after that and found nothing deliverable has everything.
RemovalInv ==
    /\ \A f \in Files : rlate[f] => dead
    /\ dead => \A b \in Bios : bst[b] = "free"
    /\ \A i \in 1 .. Len(log) :
         log[i].res = "pending" => \E b \in Bios : slot[b] = i
    /\ \A f \in Files : rlate[f] /\ rst[f] = "empty" => Unread = {}

LEMMA InitRemoval == Init => RemovalInv
  BY DEF Init, RemovalInv

\* Steps that neither move a bio nor touch the log or the stream.
LEMMA RemovalFrame ==
    ASSUME RemovalInv, UNCHANGED <<bst, slot, log, got, rlate>>,
           dead => dead', dead' => \A b \in Bios : bst[b] = "free",
           \A f \in Files : rst'[f] = "empty" => rst[f] = "empty"
    PROVE  RemovalInv'
  BY DEF RemovalInv, Unread

\* A reader that finds nothing deliverable in a removed target has read it all.
LEMMA NothingLeft ==
    ASSUME IInv, RemovalInv, dead, ~Readable
    PROVE  Unread = {}
  <1> SUFFICES ASSUME Unread # {} PROVE FALSE
    OBVIOUS
  <1> DEFINE i == Len(got) + 1
  <1>1. /\ Len(log) \in Nat /\ Len(got) \in Nat /\ head \in Nat
        /\ \A k \in 1 .. Len(log) :
             log[k].off \in Nat /\ log[k].need \in Nat /\ log[k].need >= HdrSize
        /\ \A j \in 0 .. Len(log) : EndOf(j) <= head
    BY LineFacts DEF IInv, TypeOK, RingType
  <1>2. i \in Unread /\ i \in 1 .. Len(log)
    BY <1>1 DEF Unread
  <1>3. log[i].res # "pending"
    <2>1. \A b \in Bios : slot[b] = 0
      BY DEF IInv, Owners, RemovalInv
    <2> QED BY <2>1, <1>1, <1>2 DEF RemovalInv
  <1>4. ReadPos = log[i].off
    BY Cursor DEF IInv, CursorAtNext
  <1>5. ReadHdr = HeaderOf(i)
    BY <1>2, <1>4 DEF ReadHdr, IInv, Contents
  <1>6. IsHdr(ReadHdr) /\ ReadHdr.state = "COMMITTED"
    BY <1>3, <1>5 DEF IsHdr, HeaderOf
  <1>7. ReadPos < head
    BY <1>1, <1>2, <1>4, SMTT(30) DEF EndOf
  <1> QED BY <1>6, <1>7 DEF Readable

LEMMA ReserveRemoval ==
    ASSUME IInv, RemovalInv, NEW b \in Bios, ReserveRecord(b)
    PROVE  RemovalInv'
  <1>1. bst[b] \in {"log", "padded"} /\ slot[b] = 0 /\ ~dead
    <2>1. bst[b] \in {"log", "padded"}
      BY DEF ReserveRecord, Reserving
    <2> QED BY <2>1 DEF IInv, Owners, RemovalInv
  <1>2. /\ slot' = [slot EXCEPT ![b] = Len(log) + 1]
        /\ UNCHANGED <<dead, rlate, rst>>
        /\ \A i \in 1 .. Len(log) : log'[i] = log[i]
        /\ Len(log') = Len(log) + 1 /\ Len(log) \in Nat
        /\ slot \in [Bios -> Nat]
    <2> DEFINE e == [req |-> breq[b], off |-> head, need |-> Need(breq[b]),
                     lost |-> lost, copied |-> FALSE, res |-> "pending"]
    <2>1. log' = Append(log, e) /\ slot' = [slot EXCEPT ![b] = Len(log) + 1]
          /\ UNCHANGED <<dead, rlate, rst>>
      BY DEF ReserveRecord, readVars
    <2>2. log \in Seq(Entries) /\ slot \in [Bios -> Nat]
      BY DEF IInv, TypeOK, LogType
    <2> HIDE DEF e
    <2> QED BY <2>1, <2>2
  <1>3. ASSUME NEW i \in 1 .. Len(log'), log'[i].res = "pending"
        PROVE  \E c \in Bios : slot'[c] = i
    <2>1. CASE i = Len(log) + 1
      BY <1>2, <2>1
    <2>2. CASE i \in 1 .. Len(log)
      <3>1. PICK c \in Bios : slot[c] = i
        BY <1>2, <1>3, <2>2 DEF RemovalInv
      <3>2. c # b /\ slot'[c] = i
        BY <1>1, <1>2, <2>2, <3>1
      <3> QED BY <3>2
    <2> QED BY <1>2, <2>1, <2>2
  <1> QED BY <1>1, <1>2, <1>3 DEF RemovalInv

LEMMA CopyDataRemoval ==
    ASSUME IInv, RemovalInv, NEW b \in Bios, CopyData(b)
    PROVE  RemovalInv'
  <1>1. bst[b] = "reserved" /\ ~dead /\ slot[b] \in 1 .. Len(log)
    BY LineFacts DEF CopyData, RemovalInv, IInv, Owners, Unread
  <1> DEFINE v == [log[slot[b]] EXCEPT !.copied = TRUE]
  <1>2. v \in Entries /\ v.res = log[slot[b]].res
    <2>1. log[slot[b]] \in Entries
      BY <1>1, EntryType DEF IInv
    <2> QED BY <2>1 DEF Entries
  <1>3. log' = [log EXCEPT ![slot[b]] = v]
    BY DEF CopyData
  <1> HIDE DEF v
  <1>4. Len(log') = Len(log) /\ \A i \in 1 .. Len(log) : log'[i].res = log[i].res
    BY <1>1, <1>2, <1>3, EntryChanged DEF IInv
  <1>5. UNCHANGED <<dead, rlate, rst, slot, got>>
    BY DEF CopyData, readVars
  <1> QED BY <1>1, <1>4, <1>5 DEF RemovalInv

LEMMA EndIoRemoval ==
    ASSUME IInv, RemovalInv, NEW b \in Bios, NEW e \in BOOLEAN, EndIo(b, e)
    PROVE  RemovalInv'
  <1>1. bst[b] = "inflight" /\ ~dead
    BY DEF EndIo, RemovalInv
  <1>2. /\ slot' = [slot EXCEPT ![b] = 0] /\ UNCHANGED <<dead, rlate, got>>
        /\ slot \in [Bios -> Nat]
    BY DEF EndIo, IInv, TypeOK, LogType
  <1>3. /\ Len(log') = Len(log)
        /\ \A i \in 1 .. Len(log) :
             log'[i].res = "pending" => log[i].res = "pending" /\ i # slot[b]
    <2>1. CASE slot[b] = 0
      BY <2>1 DEF EndIo
    <2>2. CASE slot[b] # 0
      <3>1. slot[b] \in 1 .. Len(log)
        BY <2>2, LineFacts DEF IInv, Owners, Unread
      <3> DEFINE v == [log[slot[b]] EXCEPT !.res = IF e THEN "error" ELSE "ok"]
      <3>2. v \in Entries /\ v.res # "pending"
        <4>1. log[slot[b]] \in Entries
          BY <3>1, EntryType DEF IInv
        <4> QED BY <4>1 DEF Entries
      <3>3. log' = [log EXCEPT ![slot[b]] = v]
        BY <2>2 DEF EndIo
      <3> HIDE DEF v
      <3> QED BY <3>1, <3>2, <3>3, EntryChanged DEF IInv
    <2> QED BY <2>1, <2>2
  <1>4. ASSUME NEW i \in 1 .. Len(log'), log'[i].res = "pending"
        PROVE  \E c \in Bios : slot'[c] = i
    <2>1. PICK c \in Bios : slot[c] = i
      BY <1>3, <1>4 DEF RemovalInv
    <2>2. c # b /\ slot'[c] = i
      BY <1>2, <1>3, <1>4, <2>1
    <2> QED BY <2>2
  <1> QED BY <1>1, <1>2, <1>4 DEF RemovalInv

LEMMA ReaderRemoval ==
    ASSUME IInv, RemovalInv, NEW f \in Files,
           ReadStep(f) \/ Interrupted(f) \/ CopyFault(f)
    PROVE  RemovalInv'
  <1>0. rst \in [Files -> ReadStates] /\ rlate \in [Files -> BOOLEAN]
    BY DEF IInv, TypeOK, ReadType
  <1>1. ASSUME NEW n \in BufSizes, BeginRead(f, n) PROVE RemovalInv'
    BY <1>0, <1>1 DEF RemovalInv, BeginRead, bioVars, Unread
  <1>2. ASSUME Return(f) PROVE RemovalInv'
    BY <1>0, <1>2 DEF RemovalInv, Return, bioVars, Unread
  <1>3. CASE FindEmpty(f)
    BY <1>0, <1>3, NothingLeft DEF RemovalInv, FindEmpty, Step, bioVars, Unread
  <1>4. ASSUME NEW st \in ReadStates \ {"empty"}, Step(f, st) PROVE RemovalInv'
    BY <1>0, <1>4, RemovalFrame DEF RemovalInv, Step, bioVars
  <1>5. CASE CopyOut(f)
    BY <1>0, <1>5, RemovalFrame DEF RemovalInv, CopyOut, bioVars
  <1>6. CASE Advance(f)
    <2>1. /\ got' = Append(got, rbuf[f])
          /\ UNCHANGED <<bst, slot, log, dead, rlate>>
          /\ rst' = [rst EXCEPT ![f] = "scan"]
      BY <1>6 DEF Advance, bioVars
    <2>2. Len(got') = Len(got) + 1 /\ Len(got) \in Nat /\ Len(log) \in Nat
      BY <2>1 DEF IInv, TypeOK, LogType
    <2>3. Unread = {} => Unread' = {}
      BY <2>1, <2>2 DEF Unread
    <2> QED BY <1>0, <2>1, <2>3 DEF RemovalInv
  <1> QED
    BY <1>1, <1>2, <1>3, <1>4, <1>5, <1>6
       DEF ReadStep, ReturnData, ReturnEof, ReturnAgain, Wait, WaitCheck,
           Relock, ShortBuffer, Interrupted, CopyFault, ReadStates

LEMMA NextRemoval == IInv /\ RemovalInv /\ [Next]_vars => RemovalInv'
  <1> SUFFICES ASSUME IInv, RemovalInv, [Next]_vars PROVE RemovalInv'
    OBVIOUS
  <1>0. bst \in [Bios -> BioStates]
    BY DEF IInv, TypeOK, BioType
  <1>1. ASSUME NEW b \in Bios, NEW r \in Requests, Submit(b, r)
        PROVE  RemovalInv'
    BY <1>0, <1>1 DEF RemovalInv, Submit, readVars, Unread
  <1>2. ASSUME NEW b \in Bios, Mark(b) PROVE RemovalInv'
    BY <1>2, RemovalFrame DEF RemovalInv, Mark, readVars
  <1>3. ASSUME NEW b \in Bios, Drop(b) \/ ReservePad(b) PROVE RemovalInv'
    <2>1. ~dead
      BY <1>3 DEF Drop, ReservePad, Reserving, RemovalInv
    <2> QED BY <1>3, <2>1 DEF RemovalInv, Drop, ReservePad, readVars, Unread
  <1>4. CASE ClearBegin \/ ClearWord \/ ClearFlag \/ Dtr \/ UNCHANGED vars
    <2>1. \A f \in Files : rst'[f] = "empty" => rst[f] = "empty"
      BY <1>4 DEF ClearBegin, ClearWord, ClearFlag, Dtr, vars, readVars, Woken
    <2> QED BY <1>4, <2>1, RemovalFrame
            DEF RemovalInv, ClearBegin, ClearWord, ClearFlag, Dtr, vars,
                bioVars, readVars
  <1> QED
    BY <1>1, <1>2, <1>3, <1>4, ReserveRemoval, CopyDataRemoval, EndIoRemoval,
       ReaderRemoval DEF Next, MapStep

\* A read(2) that took the mutex after the target was removed returns 0 only when
\* every record has been delivered.
THEOREM LateEofSafe == Spec => LateEofComplete
  <1>1. Init => RemovalInv
    BY InitRemoval
  <1>2. IInv /\ RemovalInv /\ [Next]_vars => RemovalInv'
    BY NextRemoval
  <1>3. RemovalInv /\ [Next]_vars =>
          [\A f \in Files : ReturnEof(f) /\ rlate[f] => Unread = {}]_vars
    BY DEF RemovalInv, ReturnEof
  <1> QED BY <1>1, <1>2, <1>3, Inductive, PTL DEF Spec, LateEofComplete
=============================================================================
