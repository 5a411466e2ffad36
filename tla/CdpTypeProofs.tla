-------------------------- MODULE CdpTypeProofs ----------------------------
(***************************************************************************)
(* The state of the target keeps its types, for every value of the         *)
(* constants: one lemma per operation, and the facts about the geometry,   *)
(* the header and the log that every later proof uses.                     *)
(***************************************************************************)
EXTENDS CdpInvariant, TLAPS

USE SizesAssumption

\* cdp_ctr leaves a bitmap of at least one bit and a ring that is not empty.
LEMMA GeometryType ==
    /\ Nbits \in Nat /\ Nbits > 0
    /\ Words \in Nat
    /\ RingSize > 0
  BY DEF Nbits, Words

\* cdp_mark touches only bits of the bitmap.
LEMMA ChunksType ==
    ASSUME NEW r \in Requests
    PROVE  MarkChunks(r) \subseteq 0 .. Nbits - 1
  <1>1. r.sector \in Nat /\ r.len \in Nat
    BY InputsAssumption
  <1>2. Nbits \in Nat /\ Nbits > 0
    BY GeometryType
  <1>3. r.sector \div ChunkSectors \in Nat
    BY <1>1
  <1> QED
    BY <1>1, <1>2, <1>3 DEF MarkChunks

\* The length cdp_reserve computes holds at least a header.
LEMMA NeedType ==
    ASSUME NEW r \in Requests
    PROVE  Need(r) \in Nat /\ Need(r) >= HdrSize
  <1>1. r.len \in Nat
    BY InputsAssumption
  <1>2. r.len * SectorSize \in Nat
    BY <1>1
  <1> QED
    BY <1>2 DEF Need

\* The state cdp_ctr leaves is well typed.
LEMMA InitType == Init => TypeOK
  <1> SUFFICES ASSUME Init PROVE TypeOK
    OBVIOUS
  <1>1. Raw \in Cells
    BY DEF Cells
  <1>2. RingType
    BY <1>1 DEF Init, RingType
  <1>3. BioType
    BY DEF Init, BioType, BioStates, ReqTypes, LoggedTypes
  <1>4. ReadType
    BY DEF Init, ReadType, ReadStates
  <1>5. BitmapType
    <2>1. clr \in 0 .. Words + 1
      BY GeometryType DEF Init
    <2>2. todo \in [Bios -> SUBSET (0 .. Nbits - 1)]
      BY DEF Init
    <2>3. owe \in [Bios -> SUBSET (0 .. DevSectors - 1)]
      BY DEF Init
    <2>4. owed \subseteq 0 .. DevSectors - 1 /\ overflowed \in BOOLEAN /\ bitmap \subseteq 0 .. Nbits - 1
      BY DEF Init
    <2> QED BY <2>1, <2>2, <2>3, <2>4 DEF BitmapType
  <1>6. LogType
    BY DEF Init, LogType
  <1> QED
    BY <1>2, <1>3, <1>4, <1>5, <1>6 DEF TypeOK

\* Entering cdp_map keeps the types.
LEMMA SubmitType ==
    ASSUME TypeOK, NEW b \in Bios, NEW r \in Requests, Submit(b, r)
    PROVE  TypeOK'
  <1>1. MarkChunks(r) \subseteq 0 .. Nbits - 1
    BY ChunksType
  <1>2. SectorsOf(r) \subseteq 0 .. DevSectors - 1
    BY InputsAssumption DEF SectorsOf
  <1>3. r \in [type : ReqTypes, sector : Nat, len : Nat]
    BY InputsAssumption
  <1>4. RingType'
    BY DEF TypeOK, Submit, RingType, ringVars
  <1>5. BioType'
    <2>1. bst' \in [Bios -> BioStates]
      BY DEF TypeOK, Submit, BioType, BioStates
    <2>2. breq' \in [Bios -> [type : ReqTypes, sector : Nat, len : Nat]]
      BY <1>3 DEF TypeOK, Submit, BioType
    <2>3. \A x \in Bios :
            /\ bst'[x] # "free" => breq'[x] \in Requests
            /\ bst'[x] \in {"log", "padded"} => breq'[x].type \in LoggedTypes
      BY <1>3 DEF TypeOK, Submit, Logs, BioType
    <2>4. pb' \in [Bios -> [rec_off : Nat, logged : BOOLEAN]]
      BY DEF TypeOK, Submit, FreshBioData, BioType
    <2>5. nsub' \in 0 .. MaxSubmits /\ off' \in [Bios -> Nat]
      BY DEF TypeOK, Submit, BioType
    <2> QED BY <2>1, <2>2, <2>3, <2>4, <2>5 DEF BioType
  <1>6. ReadType'
    BY DEF TypeOK, Submit, ReadType, readVars
  <1>7. BitmapType'
    BY <1>1, <1>2 DEF TypeOK, Submit, BitmapType
  <1>8. LogType'
    BY DEF TypeOK, Submit, LogType
  <1> QED
    BY <1>4, <1>5, <1>6, <1>7, <1>8 DEF TypeOK

\* A store of cells gives a ring of cells.
LEMMA StoredType ==
    ASSUME RingType, NEW c \in Nat, NEW ks \in SUBSET Int, NEW g,
           ring' = [x \in 0 .. RingSize - 1 |->
                      IF x - c \in ks THEN g[x - c] ELSE ring[x]],
           \A k \in ks : g[k] \in Cells
    PROVE  ring' \in [0 .. RingSize - 1 -> Cells]
  BY DEF RingType

\* A store of the state into a header gives a cell.
LEMMA WithStateType ==
    ASSUME NEW h \in Cells, NEW st \in States, NEW e \in BOOLEAN
    PROVE  WithState(h, st, e) \in Cells
  <1>1. CASE IsHdr(h)
    <2>1. h \in HdrCells
      BY <1>1 DEF IsHdr, Cells, DatCells, Raw
    <2>2. (h.err \/ e) \in BOOLEAN
      BY <2>1 DEF HdrCells
    <2>3. [h EXCEPT !.state = st, !.err = h.err \/ e] \in HdrCells
      BY <2>1, <2>2 DEF HdrCells
    <2> QED BY <1>1, <2>3 DEF Cells, WithState
  <1>2. CASE ~IsHdr(h)
    BY <1>2 DEF Cells, WithState
  <1> QED BY <1>1, <1>2

\* The same for the whole ring.
LEMMA SetStateType ==
    ASSUME RingType, NEW c \in 0 .. RingSize - 1, NEW st \in States,
           NEW e \in BOOLEAN
    PROVE  SetState(c, st, e) \in [0 .. RingSize - 1 -> Cells]
  <1>1. WithState(ring[c], st, e) \in Cells
    BY WithStateType DEF RingType
  <1> QED BY <1>1 DEF SetState, RingType

\* The units of a payload are cells.
LEMMA DatType == ASSUME NEW i \in Nat, NEW k \in Nat PROVE Dat(i, k) \in Cells
  BY DEF Dat, Cells, DatCells

\* A pad record of any length is a cell.
LEMMA PadHeaderType == ASSUME NEW p \in Nat PROVE PadHeader(p) \in Cells
  <1>1. PadHeader(p) \in HdrCells
    BY DEF PadHeader, HdrCells, States
  <1> QED BY <1>1 DEF Cells

\* A cell that looks like a header is one.
LEMMA HdrType == ASSUME NEW h \in Cells, IsHdr(h) PROVE h \in HdrCells
  BY DEF IsHdr, Cells, DatCells, Raw

\* An offset of the line has its cell in the ring.
LEMMA PosType == ASSUME NEW p \in Nat PROVE p % RingSize \in 0 .. RingSize - 1
  BY GeometryType

\* The padding cdp_reserve computes is never negative.
LEMMA PadType ==
    ASSUME RingType, NEW r \in Requests
    PROVE  Pad(r) \in Nat
  <1>1. head % RingSize \in 0 .. RingSize - 1
    BY PosType DEF RingType
  <1> QED BY <1>1, NeedType DEF Pad

\* cdp_next returns an offset of the line.
LEMMA NextPosType ==
    ASSUME RingType, NEW p \in Nat
    PROVE  NextPos(p) \in Nat
  <1>1. p % RingSize \in 0 .. RingSize - 1
    BY PosType
  <1>2. ring[p % RingSize] \in Cells
    BY <1>1 DEF RingType
  <1>3. IsHdr(ring[p % RingSize]) => ring[p % RingSize].rec_len \in Nat
    BY <1>2, HdrType DEF HdrCells
  <1> QED BY <1>1, <1>3 DEF NextPos

\* What cdp_read looks at is a cell, and a header when it is deliverable.
LEMMA ReadHdrType ==
    ASSUME RingType
    PROVE  /\ ReadPos \in Nat
           /\ ReadPos % RingSize \in 0 .. RingSize - 1
           /\ ReadHdr \in Cells
           /\ Readable => ReadHdr \in HdrCells /\ ReadHdr.rec_len \in Nat
  <1>1. ReadPos \in Nat
    BY NextPosType DEF ReadPos, RingType
  <1>2. ReadPos % RingSize \in 0 .. RingSize - 1
    BY <1>1, PosType
  <1>3. ReadHdr \in Cells
    BY <1>2 DEF ReadHdr, RingType
  <1>4. Readable => ReadHdr \in HdrCells /\ ReadHdr.rec_len \in Nat
    BY <1>3, HdrType DEF Readable, HdrCells
  <1> QED BY <1>1, <1>2, <1>3, <1>4

\* The request of a bio that is inside the target.
LEMMA BusyRequest ==
    ASSUME TypeOK, NEW b \in Bios, bst[b] # "free"
    PROVE  /\ breq[b] \in Requests
           /\ Need(breq[b]) \in Nat /\ Need(breq[b]) >= HdrSize
  BY NeedType DEF TypeOK, BioType

\* cdp_mark keeps the types.
LEMMA MarkType ==
    ASSUME TypeOK, NEW b \in Bios, Mark(b)
    PROVE  TypeOK'
  <1>1. RingType' /\ BioType' /\ ReadType' /\ LogType'
    BY DEF TypeOK, Mark, RingType, BioType, ReadType, LogType, ringVars,
           readVars
  <1>2. BitmapType'
    BY DEF TypeOK, Mark, BitmapType
  <1> QED BY <1>1, <1>2 DEF TypeOK

\* The overflow exits of cdp_reserve keep the types.
LEMMA DropType ==
    ASSUME TypeOK, NEW b \in Bios, Drop(b)
    PROVE  TypeOK'
  <1>1. RingType' /\ ReadType' /\ LogType'
    BY DEF TypeOK, Drop, RingType, ReadType, LogType, readVars
  <1>2. BioType'
    BY DEF TypeOK, Drop, Reserving, BioType, BioStates
  <1>3. BitmapType'
    BY DEF TypeOK, Drop, BitmapType
  <1> QED BY <1>1, <1>2, <1>3 DEF TypeOK

\* The pad branch of cdp_reserve keeps the types.
LEMMA ReservePadType ==
    ASSUME TypeOK, NEW b \in Bios, ReservePad(b)
    PROVE  TypeOK'
  <1> DEFINE pad == Pad(breq[b])
  <1>1. pad \in Nat
    BY BusyRequest, PadType DEF TypeOK, ReservePad, Reserving
  <1>2. ring' \in [0 .. RingSize - 1 -> Cells]
    <2> DEFINE h(k) == IF k > 0 THEN Dat(0, k) ELSE PadHeader(pad)
    <2>1. \A k \in 0 .. HdrSize - 1 : h(k) \in Cells
      BY <1>1, DatType, PadHeaderType
    <2>2. CASE pad < HdrSize
      BY <2>2 DEF TypeOK, RingType, ReservePad, PadStored
    <2>3. CASE ~(pad < HdrSize)
      <3> DEFINE c == head % RingSize
      <3>1. ring' = [x \in 0 .. RingSize - 1 |->
                       IF x - c \in 0 .. HdrSize - 1 THEN h(x - c)
                                                     ELSE ring[x]]
        BY <2>3 DEF ReservePad, PadStored, Stored
      <3> HIDE DEF h
      <3> QED BY <3>1, <2>1 DEF TypeOK, RingType
    <2> QED BY <2>2, <2>3
  <1>3. RingType'
    BY <1>1, <1>2 DEF TypeOK, ReservePad, RingType
  <1>4. BioType'
    BY DEF TypeOK, ReservePad, Reserving, BioType, BioStates
  <1>5. ReadType' /\ BitmapType' /\ LogType'
    BY DEF TypeOK, ReservePad, ReadType, BitmapType, LogType, readVars,
           bitmapVars
  <1> QED BY <1>3, <1>4, <1>5 DEF TypeOK

\* A change of one entry gives a log of the same length; entry 0 is none.
LEMMA EntryUpdate ==
    ASSUME LogType, NEW i \in 0 .. Len(log),
           NEW v, i # 0 => v \in Entries
    PROVE  /\ [log EXCEPT ![i] = v] \in Seq(Entries)
           /\ Len([log EXCEPT ![i] = v]) = Len(log)
  <1>1. CASE i = 0
    <2>1. [log EXCEPT ![i] = v] = log
      BY <1>1 DEF LogType
    <2> QED BY <2>1 DEF LogType
  <1>2. CASE i # 0
    BY <1>2 DEF LogType
  <1> QED BY <1>1, <1>2

\* Reserving a record keeps the types.
LEMMA ReserveType ==
    ASSUME TypeOK, NEW b \in Bios, ReserveRecord(b)
    PROVE  TypeOK'
  <1> DEFINE r == breq[b]
             i == Len(log) + 1
             h(k) == NewHeader(r, k, i)
             e == [req |-> r, off |-> head, need |-> Need(r), lost |-> lost,
                   copied |-> FALSE, res |-> "pending"]
  <1>1. bst[b] \in {"log", "padded"}
    BY DEF ReserveRecord, Reserving
  <1>2. r \in Requests /\ Need(r) \in Nat
    BY <1>1, BusyRequest
  <1>3. \A k \in 0 .. HdrSize - 1 : h(k) \in Cells
    <2>1. i \in Nat
      BY DEF TypeOK, LogType
    <2>2. r.type \in LoggedTypes
      BY <1>1 DEF TypeOK, BioType
    <2>3. h(0) \in HdrCells
      BY <1>2, <2>2, InputsAssumption DEF NewHeader, HdrCells, States, TypeOK, RingType
    <2> QED BY <2>1, <2>3, DatType DEF NewHeader, Cells
  <1>4. ring' \in [0 .. RingSize - 1 -> Cells]
    <2> DEFINE c == head % RingSize
    <2>1. ring' = [x \in 0 .. RingSize - 1 |->
                     IF x - c \in 0 .. HdrSize - 1 THEN h(x - c) ELSE ring[x]]
      BY DEF ReserveRecord, Stored
    <2> HIDE DEF h
    <2> QED BY <2>1, <1>3 DEF TypeOK, RingType
  <1>5. RingType'
    <2>1. /\ head' = head + Need(r) /\ tail' = tail
          /\ seqNext' = seqNext + 1 /\ gapPending' = FALSE /\ lost' = FALSE
          /\ dead' = dead /\ lock' = None
      BY DEF ReserveRecord
    <2>2. head' \in Nat /\ tail' \in Nat /\ seqNext' \in Nat
      BY <2>1, <1>2 DEF TypeOK, RingType
    <2> QED BY <2>1, <2>2, <1>4 DEF TypeOK, RingType
  <1>6. BioType'
    BY <1>1 DEF TypeOK, RingType, ReserveRecord, BioType, BioStates
  <1>7. ReadType' /\ BitmapType'
    BY DEF TypeOK, ReserveRecord, ReadType, BitmapType, readVars
  <1>8. LogType'
    <2>1. e \in Entries
      BY <1>2 DEF Entries, TypeOK, RingType
    <2>2. log' = Append(log, e) /\ slot' = [slot EXCEPT ![b] = i]
      BY DEF ReserveRecord
    <2> HIDE DEF e
    <2>3. log' \in Seq(Entries) /\ Len(log') = Len(log) + 1
      BY <2>1, <2>2 DEF TypeOK, LogType
    <2> QED BY <2>2, <2>3, SMTT(30) DEF TypeOK, LogType, ReserveRecord
  <1> QED BY <1>5, <1>6, <1>7, <1>8 DEF TypeOK

\* Copying the payload keeps the types.
LEMMA CopyDataType ==
    ASSUME TypeOK, NEW b \in Bios, CopyData(b)
    PROVE  TypeOK'
  <1> DEFINE c == off[b] % RingSize
             ks == {0} \cup (HdrSize .. Need(breq[b]) - 1)
             h(k) == IF k > 0 THEN Dat(slot[b], k)
                     ELSE WithState(ring[c], "DATA", FALSE)
  <1>1. c \in 0 .. RingSize - 1
    BY PosType DEF TypeOK, BioType
  <1>2. \A k \in ks : h(k) \in Cells
    <2>1. WithState(ring[c], "DATA", FALSE) \in Cells
      BY <1>1, WithStateType DEF TypeOK, RingType, States
    <2>2. \A k \in ks : k > 0 => k \in Nat
      BY BusyRequest DEF CopyData
    <2> QED BY <2>1, <2>2, DatType DEF TypeOK, LogType
  <1>3. ring' \in [0 .. RingSize - 1 -> Cells]
    <2>1. ring' = [x \in 0 .. RingSize - 1 |->
                     IF x - c \in ks THEN h(x - c) ELSE ring[x]]
      BY DEF CopyData, Stored
    <2> HIDE DEF h, ks
    <2> QED BY <2>1, <1>2 DEF TypeOK, RingType
  <1>4. RingType'
    <2>1. UNCHANGED <<head, tail, seqNext, gapPending, lock, lost, dead>>
      BY DEF CopyData
    <2> QED BY <2>1, <1>3 DEF TypeOK, RingType
  <1>5. BioType'
    <2>1. /\ pb' = [pb EXCEPT ![b] = [rec_off |-> off[b], logged |-> TRUE]]
          /\ bst[b] = "reserved"
          /\ bst' = [bst EXCEPT ![b] = "inflight"]
          /\ UNCHANGED <<breq, off, nsub>>
      BY DEF CopyData
    <2> QED BY <2>1 DEF TypeOK, BioType, BioStates
  <1>6. ReadType' /\ BitmapType'
    BY DEF TypeOK, CopyData, ReadType, BitmapType, readVars, bitmapVars
  <1>7. LogType'
    <2>1. /\ log' = [log EXCEPT ![slot[b]].copied = TRUE]
          /\ UNCHANGED <<got, slot>>
      BY DEF CopyData
    <2> DEFINE v == [log[slot[b]] EXCEPT !.copied = TRUE]
    <2>2. slot[b] \in 0 .. Len(log) /\ (slot[b] # 0 => v \in Entries)
      <3>1. slot[b] \in 0 .. Len(log) /\ log \in Seq(Entries)
        BY DEF TypeOK, LogType
      <3>2. slot[b] # 0 => log[slot[b]] \in Entries
        BY <3>1
      <3> QED BY <3>1, <3>2 DEF Entries
    <2>3. log' = [log EXCEPT ![slot[b]] = v]
      BY <2>1
    <2> HIDE DEF v
    <2>4. log' \in Seq(Entries) /\ Len(log') = Len(log)
      BY <2>2, <2>3, EntryUpdate DEF TypeOK
    <2> QED BY <2>1, <2>4 DEF TypeOK, LogType
  <1> QED BY <1>4, <1>5, <1>6, <1>7 DEF TypeOK

\* A wake-up keeps the types of the readers.
LEMMA WokenType == ASSUME ReadType PROVE Woken \in [Files -> ReadStates]
  BY DEF ReadType, Woken, ReadStates

\* cdp_end_io keeps the types.
LEMMA EndIoType ==
    ASSUME TypeOK, NEW b \in Bios, NEW e \in BOOLEAN, EndIo(b, e)
    PROVE  TypeOK'
  <1>1. ring' \in [0 .. RingSize - 1 -> Cells]
    <2>1. pb[b].rec_off % RingSize \in 0 .. RingSize - 1
      BY PosType DEF TypeOK, BioType
    <2>2. SetState(pb[b].rec_off % RingSize, "COMMITTED", e)
            \in [0 .. RingSize - 1 -> Cells]
      BY <2>1, SetStateType DEF TypeOK, States
    <2> QED BY <2>2 DEF TypeOK, RingType, EndIo
  <1>2. RingType'
    BY <1>1 DEF TypeOK, RingType, EndIo
  <1>3. BioType'
    BY DEF TypeOK, BioType, BioStates, EndIo
  <1>4. ReadType'
    BY WokenType DEF TypeOK, ReadType, EndIo
  <1>5. BitmapType'
    BY DEF TypeOK, BitmapType, EndIo, bitmapVars
  <1>6. LogType'
    <2> DEFINE v == [log[slot[b]] EXCEPT
                       !.res = IF e THEN "error" ELSE "ok"]
    <2>1. slot[b] \in 0 .. Len(log) /\ (slot[b] # 0 => v \in Entries)
      <3>1. slot[b] \in 0 .. Len(log) /\ log \in Seq(Entries)
        BY DEF TypeOK, LogType
      <3>2. slot[b] # 0 => log[slot[b]] \in Entries
        BY <3>1
      <3> QED BY <3>1, <3>2 DEF Entries
    <2>2. log' = IF slot[b] = 0 THEN log ELSE [log EXCEPT ![slot[b]] = v]
      BY DEF EndIo
    <2>3. got' = got /\ slot' = [slot EXCEPT ![b] = 0]
      BY DEF EndIo
    <2> HIDE DEF v
    <2>4. log' \in Seq(Entries) /\ Len(log') = Len(log)
      BY <2>1, <2>2, EntryUpdate DEF TypeOK, LogType
    <2> QED BY <2>3, <2>4 DEF TypeOK, LogType
  <1> QED BY <1>2, <1>3, <1>4, <1>5, <1>6 DEF TypeOK

\* Every step of cdp_read keeps the types.
LEMMA ReadStepType ==
    ASSUME TypeOK, NEW f \in Files,
           ReadStep(f) \/ Interrupted(f) \/ CopyFault(f)
    PROVE  TypeOK'
  <1>1. ASSUME Return(f) PROVE TypeOK'
    BY <1>1 DEF Return, TypeOK, RingType, BioType, ReadType, BitmapType,
                LogType, ReadStates, ringVars, bioVars, bitmapVars
  <1>2. ASSUME NEW st \in ReadStates, Step(f, st),
               readLock' \in Files \cup {None}
        PROVE  TypeOK'
    BY <1>2 DEF Step, TypeOK, RingType, BioType, ReadType, BitmapType,
                LogType, ringVars, bioVars, bitmapVars
  <1>3. ASSUME NEW n \in BufSizes, BeginRead(f, n) PROVE TypeOK'
    BY <1>3, InputsAssumption
       DEF BeginRead, TypeOK, RingType, BioType, ReadType, BitmapType,
           LogType, ReadStates, ringVars, bioVars, bitmapVars
  <1>4. ASSUME FindEmpty(f) \/ Wait(f) \/ WaitCheck(f) \/ Relock(f)
                 \/ Interrupted(f)
        PROVE  TypeOK'
    <2>1. PICK st \in ReadStates : Step(f, st)
      BY <1>4 DEF FindEmpty, Wait, WaitCheck, Relock, Interrupted, ReadStates
    <2>2. readLock' \in Files \cup {None}
      BY <1>4 DEF FindEmpty, Wait, WaitCheck, Relock, Interrupted, TypeOK,
                  ReadType
    <2> QED BY <2>1, <2>2, <1>2
  <1>5. ASSUME ReturnData(f) \/ ReturnEof(f) \/ ReturnAgain(f)
                 \/ ShortBuffer(f) \/ CopyFault(f)
        PROVE  TypeOK'
    BY <1>1, <1>5 DEF ReturnData, ReturnEof, ReturnAgain, ShortBuffer,
                      CopyFault
  <1>6. ASSUME CopyOut(f) PROVE TypeOK'
    <2> DEFINE n == ReadHdr.rec_len
               buf == [k \in 1 .. n |->
                         CellAt((ReadPos % RingSize) + k - 1)]
    <2>1. /\ ReadPos \in Nat /\ n \in Nat
          /\ ReadPos % RingSize \in 0 .. RingSize - 1
      BY <1>6, ReadHdrType DEF CopyOut, TypeOK
    <2>2. \A k \in 1 .. n : CellAt((ReadPos % RingSize) + k - 1) \in Cells
      BY <2>1 DEF CellAt, TypeOK, RingType, Cells
    <2>3. buf \in Seq(Cells)
      BY <2>1, <2>2
    <2>4. /\ rbuf' = [rbuf EXCEPT ![f] = buf]
          /\ rnext' = [rnext EXCEPT ![f] = ReadPos + n]
          /\ rroom' = [rroom EXCEPT ![f] = @ - n] /\ n <= rroom[f]
          /\ rdone' = [rdone EXCEPT ![f] = TRUE]
          /\ rst' = [rst EXCEPT ![f] = "copied"]
          /\ UNCHANGED <<readLock, rlate>>
      BY <1>6 DEF CopyOut
    <2> HIDE DEF buf, n
    <2>5. ReadType'
      BY <2>1, <2>3, <2>4, SMTT(30) DEF TypeOK, ReadType, ReadStates
    <2>6. RingType' /\ BioType' /\ BitmapType' /\ LogType'
      BY <1>6 DEF CopyOut, TypeOK, RingType, BioType, BitmapType, LogType,
                  ringVars, bioVars, bitmapVars
    <2> QED BY <2>5, <2>6 DEF TypeOK
  <1>7. ASSUME Advance(f) PROVE TypeOK'
    <2>1. RingType' /\ BioType' /\ BitmapType'
      BY <1>7 DEF Advance, TypeOK, RingType, BioType, BitmapType, ReadType,
                  bioVars, bitmapVars
    <2>3. ReadType'
      BY <1>7 DEF Advance, TypeOK, ReadType, ReadStates
    <2>2. LogType'
      BY <1>7 DEF Advance, TypeOK, LogType, ReadType, bioVars
    <2> QED BY <2>1, <2>2, <2>3 DEF TypeOK
  <1> QED
    BY <1>3, <1>4, <1>5, <1>6, <1>7 DEF ReadStep

\* The bitmap ioctls and cdp_dtr keep the types.
LEMMA ClearDtrType ==
    ASSUME TypeOK, ClearBegin \/ ClearWord \/ ClearFlag \/ Dtr
    PROVE  TypeOK'
  <1>1. CASE ClearBegin \/ ClearFlag
    <2>1. RingType' /\ BioType' /\ ReadType' /\ LogType'
      BY <1>1 DEF ClearBegin, ClearFlag, TypeOK, RingType, BioType, ReadType,
                  LogType, ringVars, bioVars, readVars
    <2>2. clr' \in 0 .. Words + 1
      BY <1>1, GeometryType DEF ClearBegin, ClearFlag
    <2>3. BitmapType'
      BY <1>1, <2>2 DEF ClearBegin, ClearFlag, TypeOK, BitmapType, bioVars
    <2> QED BY <2>1, <2>3 DEF TypeOK
  <1>2. CASE ClearWord
    <2>1. RingType' /\ BioType' /\ ReadType' /\ LogType'
      BY <1>2 DEF ClearWord, TypeOK, RingType, BioType, ReadType, LogType,
                  ringVars, bioVars, readVars
    <2>2. BitmapType'
      <3>1. clr' \in 0 .. Words + 1
        BY <1>2, GeometryType DEF ClearWord
      <3>2. owe' \in [Bios -> SUBSET (0 .. DevSectors - 1)]
        BY <1>2 DEF ClearWord, TypeOK, BitmapType
      <3>3. /\ bitmap' \subseteq 0 .. Nbits - 1
            /\ owed' \subseteq 0 .. DevSectors - 1
            /\ UNCHANGED <<overflowed, todo>>
        BY <1>2 DEF ClearWord, TypeOK, BitmapType, bioVars
      <3> QED BY <3>1, <3>2, <3>3 DEF TypeOK, BitmapType
    <2> QED BY <2>1, <2>2 DEF TypeOK
  <1>3. CASE Dtr
    BY <1>3, WokenType
       DEF Dtr, TypeOK, RingType, BioType, ReadType, BitmapType, LogType,
           ringVars, bioVars, bitmapVars
  <1> QED BY <1>1, <1>2, <1>3

\* Every step of the target keeps the types.
LEMMA TypeNext == TypeOK /\ [Next]_vars => TypeOK'
  <1> SUFFICES ASSUME TypeOK, [Next]_vars PROVE TypeOK'
    OBVIOUS
  <1>1. CASE UNCHANGED vars
    BY <1>1 DEF vars, TypeOK, RingType, BioType, ReadType, BitmapType,
                LogType, ringVars, bioVars, readVars, bitmapVars
  <1>2. ASSUME NEW b \in Bios, MapStep(b) PROVE TypeOK'
    BY <1>2, MarkType, DropType, ReservePadType, ReserveType, CopyDataType
       DEF MapStep
  <1> QED
    BY <1>1, <1>2, SubmitType, EndIoType, ReadStepType, ClearDtrType DEF Next

\* The type invariant holds for every ring, device, set of bios and readers.
\* The types of the target's state (TypeOK) hold in every reachable state: no
\* operation marks a chunk outside the bitmap or stores a malformed header.
THEOREM TypeCorrect == Spec => []TypeOK
  BY InitType, TypeNext, PTL DEF Spec
=============================================================================
