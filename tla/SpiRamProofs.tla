---------------------------- MODULE SpiRamProofs ----------------------------
(***************************************************************************)
(* Proofs about the SPI RAM, for every number and size of buffers, banks   *)
(* and chips and every bound: its write path, and then its readers.        *)
(***************************************************************************)
EXTENDS ReadBack, SpiRamProps, WellFoundedInduction, TLAPS

(* Outside a session nothing waits for the DMA and no transfer runs.       *)
QuietOutside ==
  phase \in {"idle", "done"} => num_ready = 0 /\ pos = BUFFER_SIZE

(* The writer's buffer is never empty: it holds a header, or was opened for *)
(* a byte.  So spiram_multi_write_end always has a last buffer to send.     *)
WriterHasData == phase = "write" => buffer_usage > 0

RingInv == TypeOK /\ RingAccounting /\ QuietOutside /\ WriterHasData

LEMMA NextSlotType ==
  ASSUME NEW i \in Slot
  PROVE  NextSlot(i) \in Slot
BY SizesAssumption DEF NextSlot, Slot

LEMMA HeaderType ==
  ASSUME NEW i \in Int
  PROVE  Header(i) \in Cell
<1>1. CASE i = 0
  BY <1>1 DEF Header, Cell
<1>2. CASE i # 0
  <2>1. 0 \in 0 .. MaxBytes
    BY ClientAssumption
  <2>. QED BY <1>2, <2>1 DEF Header, Cell
<1>. QED BY <1>1, <1>2

(***************************************************************************)
(* The steps that move buffers between the writer and the DMA, as far as   *)
(* the ring's indices are concerned.                                       *)
(***************************************************************************)
LEMMA WriterAdvances ==
  ASSUME NEW d \in Slot, NEW w \in Slot, NEW r \in 0 .. NUM_BUFFER - 1,
         Wrap(d + r) = w, NextSlot(w) # d
  PROVE  r + 1 < NUM_BUFFER /\ Wrap(d + (r + 1)) = NextSlot(w)
BY SizesAssumption DEF Wrap, NextSlot, Slot

LEMMA RingFull ==
  ASSUME NEW d \in Slot, NEW w \in Slot, NEW r \in 0 .. NUM_BUFFER - 1,
         Wrap(d + r) = w, NextSlot(w) = d
  PROVE  r = NUM_BUFFER - 1
BY SizesAssumption DEF Wrap, NextSlot, Slot

LEMMA DmaAdvances ==
  ASSUME NEW d \in Slot, NEW r \in 1 .. NUM_BUFFER
  PROVE  Wrap(NextSlot(d) + (r - 1)) = Wrap(d + r)
BY SizesAssumption DEF Wrap, NextSlot, Slot

LEMMA LastBufferCounted ==
  ASSUME NEW d \in Slot, NEW r \in 0 .. NUM_BUFFER - 1
  PROVE  Wrap(d + (r + 1)) = NextSlot(Wrap(d + r))
BY SizesAssumption DEF Wrap, NextSlot, Slot

LEMMA InitRing == Init => RingInv
<1> SUFFICES ASSUME Init PROVE RingInv
  OBVIOUS
<1>1. 0 \in Cell
  BY ClientAssumption DEF Cell
<1>2. BufferType
  BY <1>1, SizesAssumption DEF Init, BufferType, Slot
<1>3. DmaType
  <2>1. 0 \in Slot /\ NUM_CHIPS - 1 \in Chip /\ BUFFER_SIZE \in 0 .. BUFFER_SIZE
    BY SizesAssumption DEF Slot, Chip
  <2>. QED BY <2>1 DEF Init, DmaType
<1>4. ChipType
  BY <1>1, ClientAssumption DEF Init, ChipType
<1>5. UserType
  BY ClientAssumption DEF Init, UserType
<1>6. RingAccounting /\ QuietOutside /\ WriterHasData
  BY DEF Init, RingAccounting, QuietOutside, WriterHasData
<1>. QED BY <1>2, <1>3, <1>4, <1>5, <1>6 DEF RingInv, TypeOK

(***************************************************************************)
(* Type correctness and the ring's accounts, kept by each action.          *)
(***************************************************************************)
LEMMA BeginKeeps ==
  ASSUME RingInv, multi_write_begin
  PROVE  RingInv'
<1>. USE DEF RingInv, TypeOK, multi_write_begin
<1>1. 0 \in Slot /\ 0 \in Chip
  BY SizesAssumption DEF Slot, Chip
<1>2. buffer' \in [Slot -> [0 .. BUFFER_SIZE - 1 -> Cell]]
  <2>. DEFINE b == [i \in DOMAIN buffer[0] |->
                     IF i < HeaderSize THEN Header(i) ELSE buffer[0][i]]
  <2>1. b \in [0 .. BUFFER_SIZE - 1 -> Cell]
    <3>1. buffer[0] \in [0 .. BUFFER_SIZE - 1 -> Cell]
      BY <1>1 DEF BufferType
    <3>2. \A i \in 0 .. BUFFER_SIZE - 1 : Header(i) \in Cell
      BY HeaderType
    <3>. HIDE DEF RingInv, TypeOK, multi_write_begin
    <3>. QED BY <3>1, <3>2
  <2>2. buffer' = [buffer EXCEPT ![0] = b]
    BY <1>1 DEF BufferType
  <2>. QED BY <1>1, <2>1, <2>2 DEF BufferType
<1>3. BufferType'
  BY <1>1, <1>2, SizesAssumption DEF BufferType, HeaderSize
<1>4. DmaType'
  <2>1. BUFFER_SIZE \in 0 .. BUFFER_SIZE
    BY SizesAssumption
  <2>. QED BY <1>1, <2>1 DEF DmaType
<1>5. ChipType'
  BY DEF ChipType, DmaType, multi_init
<1>6. UserType'
  BY ClientAssumption DEF UserType
<1>7. RingAccounting'
  BY SizesAssumption DEF RingAccounting, Wrap
<1>8. QuietOutside' /\ WriterHasData'
  BY DEF QuietOutside, WriterHasData, HeaderSize
<1>. QED BY <1>3, <1>4, <1>5, <1>6, <1>7, <1>8

LEMMA AppendOrdinal ==
  ASSUME TypeOK, multi_write_byte
  PROVE  offered + 1 \in 1 .. MaxBytes /\ offered + 1 \in Cell
BY ClientAssumption DEF TypeOK, UserType, multi_write_byte, Cell

LEMMA ByteKeeps ==
  ASSUME RingInv, multi_write_byte
  PROVE  RingInv'
<1>. USE DEF RingInv, TypeOK
<1>1. offered + 1 \in 1 .. MaxBytes /\ offered + 1 \in Cell
  BY AppendOrdinal
<1>2. /\ phase = "write" /\ phase' = "write"
      /\ UNCHANGED <<dmaVars, chipVars>>
      /\ offered < MaxBytes /\ pending < MaxCode
      /\ offered' = offered + 1 /\ pending' = pending + 1
      /\ since' \in {since, since + 1}
      /\ sessions' = sessions
  BY DEF multi_write_byte
<1>3. DmaType' /\ ChipType'
  BY <1>2 DEF DmaType, ChipType, dmaVars, chipVars
<1>4. /\ num_ready \in 0 .. NUM_BUFFER - 1
      /\ Wrap(dma_index + num_ready) = buffer_index
  BY <1>2, SizesAssumption DEF RingAccounting, BufferType
<1>5. QuietOutside' /\ WriterHasData'
  <2>1. QuietOutside'
    BY <1>2 DEF QuietOutside
  <2>2. buffer_usage' > 0
    BY <1>2, SizesAssumption
       DEF multi_write_byte, StoreInBuffer, StoreInNextBuffer, DropByte,
           HeaderRoom, HeaderSize, WriterHasData, BufferType
  <2>. QED BY <2>1, <2>2 DEF WriterHasData
<1>6. CASE StoreInBuffer(offered + 1)
  <2>1. BufferType'
    BY <1>1, <1>6, SizesAssumption, ClientAssumption DEF BufferType, StoreInBuffer, Accept, HeaderSize
  <2>2. UserType'
    BY <1>1, <1>2, <1>6, ClientAssumption DEF UserType, StoreInBuffer, Accept
  <2>3. RingAccounting'
    BY <1>2, <1>4, <1>6, SizesAssumption DEF RingAccounting, StoreInBuffer, dmaVars, Wrap
  <2>. QED BY <1>3, <1>5, <2>1, <2>2, <2>3
<1>7. CASE StoreInNextBuffer(offered + 1)
  <2>. DEFINE next == NextSlot(buffer_index)
  <2>1. next \in Slot /\ next # dma_index
    BY <1>7, NextSlotType DEF BufferType, StoreInNextBuffer, SlotFree
  <2>2. num_ready + 1 < NUM_BUFFER /\ Wrap(dma_index + (num_ready + 1)) = next
    BY <1>4, <2>1, WriterAdvances DEF BufferType, DmaType
  <2>3. buffer' \in [Slot -> [0 .. BUFFER_SIZE - 1 -> Cell]]
    BY <1>1, <1>7, <2>1, HeaderType DEF BufferType, StoreInNextBuffer
  <2>4. bank_no' \in 0 .. NUM_BANKS - 1 /\ chip_no' \in Nat
    BY <1>7, SizesAssumption DEF BufferType, StoreInNextBuffer
  <2>5. on_chip' \in [Slot -> Nat]
    BY <1>7, <2>4 DEF BufferType, StoreInNextBuffer
  <2>6. buffer_usage' \in 0 .. BUFFER_SIZE
    BY <1>7, SizesAssumption DEF StoreInNextBuffer, HeaderRoom, HeaderSize
  <2>7. /\ total' \in Nat /\ checksum' \in Nat /\ stream' \in Seq(1 .. MaxBytes)
        /\ buffer_overruns' = buffer_overruns
        /\ num_ready' = num_ready + 1 /\ buffer_index' = next
    BY <1>1, <1>7 DEF StoreInNextBuffer, Accept, BufferType, UserType
  <2>8. BufferType'
    BY <2>1, <2>2, <2>3, <2>4, <2>5, <2>6, <2>7, SizesAssumption DEF BufferType
  <2>9. UserType'
    BY <1>2, <2>7, ClientAssumption DEF UserType
  <2>10. RingAccounting'
    BY <1>2, <2>2, <2>7 DEF RingAccounting, dmaVars, Wrap
  <2>. QED BY <1>3, <1>5, <2>8, <2>9, <2>10
<1>8. CASE DropByte
  <2>1. BufferType'
    BY <1>8 DEF BufferType, DropByte
  <2>2. UserType'
    BY <1>2, <1>8, ClientAssumption DEF UserType, DropByte
  <2>3. RingAccounting'
    BY <1>2, <1>4, <1>8, SizesAssumption DEF RingAccounting, DropByte, dmaVars, Wrap
  <2>. QED BY <1>3, <1>5, <2>1, <2>2, <2>3
<1>. QED BY <1>6, <1>7, <1>8 DEF multi_write_byte

(* Handle, in the loop of either phase. *)
LEMMA HandleTypes ==
  ASSUME TypeOK, Handle
  PROVE  BufferType' /\ DmaType' /\ ChipType' /\ since' \in Nat
<1>. USE DEF TypeOK, Handle
<1>1. ChipType'
  BY DEF ChipType, chipVars
<1>2. CASE DmaServiceable /\ StartDma
  <2>1. num_ready \in 1 .. NUM_BUFFER /\ num_ready' = num_ready - 1
    BY <1>2 DEF StartDma, BufferType
  <2>2. BufferType'
    BY <2>1, SizesAssumption DEF BufferType
  <2>3. NextSlot(dma_index) \in Slot /\ ptr' \in Slot
    BY <1>2, NextSlotType DEF DmaType, StartDma, SlotToSend
  <2>4. on_chip[dma_index] \in Nat /\ on_chip[dma_index] % NUM_CHIPS \in Chip
    BY SizesAssumption DEF BufferType, DmaType, Chip
  <2>5. /\ dma_chip_no' \in Nat /\ sel' \in Chip
        /\ clocked' \in Nat /\ armed' \in BOOLEAN
    <3>1. CASE SwitchChip
      <4>1. /\ dma_chip_no' = on_chip[dma_index] /\ clocked' = 0
            /\ sel' = on_chip[dma_index] % NUM_CHIPS /\ armed' = FALSE
        BY <1>2, <3>1 DEF StartDma
      <4>. QED BY <2>4, <4>1
    <3>2. CASE ~SwitchChip
      <4>1. UNCHANGED <<dma_chip_no, sel, clocked, armed>>
        BY <1>2, <3>2 DEF StartDma
      <4>. QED BY <4>1 DEF DmaType
    <3>. QED BY <3>1, <3>2
  <2>6. pos' \in 0 .. BUFFER_SIZE /\ dma_busy' \in BOOLEAN /\ since' \in Nat
    BY <1>2, SizesAssumption DEF StartDma, HeaderSize
  <2>7. DmaType'
    BY <1>2, <2>3, <2>5, <2>6 DEF DmaType, StartDma
  <2>. QED BY <1>1, <2>2, <2>6, <2>7
<1>3. CASE DmaServiceable /\ Idle
  BY <1>1, <1>3 DEF Idle, BufferType, DmaType, UserType
<1>4. CASE ~DmaServiceable
  BY <1>1, <1>4 DEF dmaVars, BufferType, DmaType, UserType
<1>. QED BY <1>2, <1>3, <1>4

(* Handle takes a buffer from the front of the queue or leaves it alone. *)
LEMMA HandleQueue ==
  ASSUME TypeOK, Handle
  PROVE  /\ Wrap(dma_index' + num_ready') = Wrap(dma_index + num_ready)
         /\ num_ready' <= num_ready
         /\ buffer_index' = buffer_index
<1>. USE DEF TypeOK, Handle
<1>1. CASE DmaServiceable /\ StartDma
  <2>1. num_ready \in 1 .. NUM_BUFFER
    BY <1>1 DEF StartDma, BufferType
  <2>. QED BY <1>1, <2>1, DmaAdvances DEF StartDma, DmaType
<1>2. CASE ~(DmaServiceable /\ StartDma)
  <2>1. dma_index' = dma_index /\ num_ready' = num_ready
    BY <1>2 DEF Idle, dmaVars
  <2>. QED BY <2>1 DEF BufferType
<1>. QED BY <1>1, <1>2

LEMMA LoopHandleKeeps ==
  ASSUME RingInv, multi_write_handle
  PROVE  RingInv'
<1>. USE DEF RingInv, multi_write_handle
<1>1. BufferType' /\ DmaType' /\ ChipType' /\ since' \in Nat
  BY HandleTypes
<1>2. UserType'
  BY <1>1, ClientAssumption DEF TypeOK, UserType, Handle
<1>3. RingAccounting'
  <2>1. phase = "write" /\ phase' = "write"
    OBVIOUS
  <2>2. num_ready < NUM_BUFFER /\ Wrap(dma_index + num_ready) = buffer_index
    BY <2>1 DEF RingAccounting
  <2>3. /\ Wrap(dma_index' + num_ready') = Wrap(dma_index + num_ready)
        /\ num_ready' <= num_ready
        /\ buffer_index' = buffer_index
    BY HandleQueue
  <2>4. num_ready \in Nat /\ num_ready' \in Nat /\ NUM_BUFFER \in Nat
    BY <1>1, SizesAssumption DEF TypeOK, BufferType
  <2>5. num_ready' < NUM_BUFFER
    BY <2>2, <2>3, <2>4
  <2>. HIDE DEF RingInv, multi_write_handle
  <2>. QED BY <2>1, <2>2, <2>3, <2>5 DEF RingAccounting, Wrap
<1>4. QuietOutside' /\ WriterHasData'
  BY DEF QuietOutside, WriterHasData, Handle
<1>. QED BY <1>1, <1>2, <1>3, <1>4 DEF TypeOK

LEMMA FlushHandleKeeps ==
  ASSUME RingInv, FlushHandle
  PROVE  RingInv'
<1>. USE DEF RingInv, FlushHandle
<1>1. BufferType' /\ DmaType' /\ ChipType' /\ since' \in Nat
  BY HandleTypes
<1>2. UserType'
  BY <1>1 DEF TypeOK, UserType, Handle
<1>3. RingAccounting'
  BY HandleQueue DEF RingAccounting, NextSlot
<1>4. QuietOutside' /\ WriterHasData'
  BY DEF QuietOutside, WriterHasData, Handle
<1>. QED BY <1>1, <1>2, <1>3, <1>4 DEF TypeOK

LEMMA EndKeeps ==
  ASSUME RingInv, multi_write_end
  PROVE  RingInv'
<1>. USE DEF RingInv, TypeOK, multi_write_end
<1>1. num_ready \in 0 .. NUM_BUFFER - 1 /\ num_ready' = num_ready + 1
  BY SizesAssumption DEF LastBuffer, WriterHasData, RingAccounting, BufferType
<1>2. BufferType'
  BY <1>1, SizesAssumption DEF BufferType
<1>3. DmaType' /\ ChipType' /\ UserType'
  BY DEF DmaType, ChipType, UserType, dmaVars, chipVars, userVars
<1>4. RingAccounting'
  <2>1. dma_index' = dma_index /\ buffer_index' = buffer_index
    BY DEF dmaVars
  <2>2. Wrap(dma_index + num_ready') = NextSlot(buffer_index)
    BY <1>1, LastBufferCounted DEF RingAccounting, DmaType
  <2>. QED BY <2>1, <2>2 DEF RingAccounting, Wrap, NextSlot
<1>5. QuietOutside' /\ WriterHasData'
  BY DEF QuietOutside, WriterHasData
<1>. QED BY <1>2, <1>3, <1>4, <1>5

LEMMA FlushDoneKeeps ==
  ASSUME RingInv, FlushDone
  PROVE  RingInv'
<1>. USE DEF RingInv, TypeOK, FlushDone
<1>1. BufferType' /\ DmaType' /\ ChipType' /\ UserType'
  BY DEF BufferType, DmaType, ChipType, UserType, ringVars, chipVars, userVars
<1>2. RingAccounting' /\ QuietOutside' /\ WriterHasData'
  BY DEF RingAccounting, QuietOutside, WriterHasData, AllSent, rx_dma_empty,
         ringVars
<1>. QED BY <1>1, <1>2

LEMMA ShiftKeeps ==
  ASSUME RingInv, DmaShift
  PROVE  RingInv'
<1>. USE DEF RingInv, TypeOK, DmaShift
<1>1. BufferType' /\ UserType'
  BY DEF BufferType, UserType, ringVars, userVars
<1>2. pos \in 0 .. BUFFER_SIZE - 1
  BY SizesAssumption DEF DmaType, rx_dma_empty
<1>3. buffer[ptr][pos] \in Cell
  BY <1>2 DEF BufferType, DmaType
<1>4. DmaType'
  <2>1. armed' \in BOOLEAN
    BY DEF DmaType, ChipTakes
  <2>2. pos' \in 0 .. BUFFER_SIZE /\ clocked' \in Nat
    BY <1>2, SizesAssumption DEF DmaType, ChipTakes
  <2>. QED BY <2>1, <2>2 DEF DmaType
<1>5. ChipType'
  <2>1. \/ mem' = mem
        \/ mem' = [mem EXCEPT ![sel][(clocked - HeaderSize) % ChipSize] = buffer[ptr][pos]]
    BY DEF ChipTakes
  <2>2. mode' = mode /\ sel \in Chip
    BY DEF DmaType
  <2>3. CASE mem' = mem
    BY <2>2, <2>3 DEF ChipType
  <2>4. CASE mem' = [mem EXCEPT ![sel][(clocked - HeaderSize) % ChipSize] = buffer[ptr][pos]]
    <3>. DEFINE a == (clocked - HeaderSize) % ChipSize
                byte == buffer[ptr][pos]
                chip == [mem[sel] EXCEPT ![a] = byte]
    <3>1. mem[sel] \in [0 .. ChipSize - 1 -> Cell]
      BY <2>2 DEF ChipType
    <3>2. chip \in [0 .. ChipSize - 1 -> Cell]
      BY <1>3, <3>1
    <3>3. mem' = [mem EXCEPT ![sel] = chip]
      BY <2>4
    <3>. HIDE DEF chip, DmaShift
    <3>. QED BY <2>2, <3>2, <3>3 DEF ChipType
  <2>. QED BY <2>1, <2>3, <2>4
<1>6. RingAccounting' /\ QuietOutside' /\ WriterHasData'
  BY DEF RingAccounting, QuietOutside, WriterHasData, rx_dma_empty, ringVars,
         Wrap, NextSlot
<1>. QED BY <1>1, <1>4, <1>5, <1>6

LEMMA StutterKeeps ==
  ASSUME RingInv, UNCHANGED vars
  PROVE  RingInv'
<1>. USE DEF RingInv, TypeOK, vars, ringVars, dmaVars, chipVars, userVars
<1>1. BufferType' /\ DmaType' /\ ChipType' /\ UserType'
  BY DEF BufferType, DmaType, ChipType, UserType
<1>2. RingAccounting' /\ QuietOutside' /\ WriterHasData'
  BY DEF RingAccounting, QuietOutside, WriterHasData, Wrap, NextSlot
<1>. QED BY <1>1, <1>2

LEMMA NextRing == RingInv /\ [Next]_vars => RingInv'
<1> SUFFICES ASSUME RingInv, [Next]_vars PROVE RingInv'
  OBVIOUS
<1>. QED
  BY BeginKeeps, ByteKeeps, LoopHandleKeeps, EndKeeps, FlushHandleKeeps,
     FlushDoneKeeps, ShiftKeeps, StutterKeeps DEF Next, Finished

(* In every reachable state the ring indices and spiram_num_ready account  *)
(* for the same buffers, and every variable has its type: in particular    *)
(* num_ready never exceeds the ring and the indices stay inside it.        *)
THEOREM RingCorrect == Spec => []RingSound
<1>1. RingInv => RingSound
  BY DEF RingInv, RingSound
<1>. QED BY <1>1, InitRing, NextRing, PTL DEF Spec

(***************************************************************************)
(* No byte is dropped while the ring has room.                             *)
(***************************************************************************)
LEMMA DropStep ==
  ASSUME RingInv, [Next]_vars, buffer_overruns' > buffer_overruns
  PROVE  num_ready = NUM_BUFFER - 1
<1>1. ~ UNCHANGED buffer_overruns /\ buffer_overruns \in Nat
  BY DEF RingInv, TypeOK, BufferType
<1>2. multi_write_byte
  <2>1. ~multi_write_begin
    BY <1>1 DEF multi_write_begin
  <2>2. ~Handle
    BY <1>1 DEF Handle
  <2>3. UNCHANGED ringVars => UNCHANGED buffer_overruns
    BY DEF ringVars
  <2>. QED BY <1>1, <2>1, <2>2, <2>3
    DEF Next, multi_write_handle, FlushHandle, multi_write_end, FlushDone,
        DmaShift, Finished, vars
<1>3. DropByte
  BY <1>1, <1>2 DEF multi_write_byte, StoreInBuffer, StoreInNextBuffer
<1>4. /\ NextSlot(buffer_index) = dma_index
      /\ Wrap(dma_index + num_ready) = buffer_index
      /\ num_ready \in 0 .. NUM_BUFFER - 1
  BY <1>2, <1>3, SizesAssumption
     DEF DropByte, SlotFree, multi_write_byte, RingInv, TypeOK, BufferType,
         RingAccounting
<1>. QED BY <1>4, RingFull DEF RingInv, TypeOK, BufferType, DmaType

(* A byte is lost only in a state in which every buffer but the writer's   *)
(* is counted as ready: the overflow test of next_buffer never fires early.*)
THEOREM DropsOnlyWhenFull == Spec => DropOnlyWhenRingFull
<1>1. RingInv /\ [Next]_vars =>
        [buffer_overruns' > buffer_overruns => num_ready = NUM_BUFFER - 1]_vars
  BY DropStep
<1>. QED BY <1>1, InitRing, NextRing, PTL DEF Spec, DropOnlyWhenRingFull

(***************************************************************************)
(* With the timing bound no byte is lost, and the writer and the DMA never *)
(* share a buffer.  Between two transfers at most one buffer becomes full; *)
(* during a transfer none does, because the burst that followed the last   *)
(* full buffer and the bytes that may arrive still fit.                    *)
(***************************************************************************)
PacedInv ==
  /\ buffer_overruns = 0
  /\ phase = "write" /\ ~rx_dma_empty =>
       /\ num_ready = 0
       /\ dma_index = NextSlot(ptr)
       /\ since <= BytesPerTransfer
       /\ buffer_usage <= HeaderSize + MaxCode + since
  /\ phase = "write" /\ rx_dma_empty =>
       \/ num_ready = 0
       \/ num_ready = 1 /\ buffer_usage <= HeaderSize + pending

LEMMA PacedBegin ==
  ASSUME multi_write_begin
  PROVE  PacedInv'
BY DEF multi_write_begin, PacedInv, rx_dma_empty

(* When the writer's buffer is full the DMA has sent all others.           *)
LEMMA FullBufferQuiet ==
  ASSUME Paced, RingInv, PacedInv, multi_write_byte, buffer_usage = BUFFER_SIZE
  PROVE  rx_dma_empty /\ num_ready = 0
<1>1. /\ phase = "write" /\ pending < MaxCode
      /\ ~rx_dma_empty => since < BytesPerTransfer
  BY DEF multi_write_byte
<1>2. pending \in 0 .. MaxCode /\ since \in Nat
  BY DEF RingInv, TypeOK, UserType
<1>3. /\ BytesPerTransfer + MaxCode + HeaderSize <= BUFFER_SIZE
      /\ BytesPerTransfer \in Nat /\ MaxCode \in Nat
      /\ BUFFER_SIZE \in Nat /\ HeaderSize = 3
  BY SizesAssumption, ClientAssumption DEF Paced, HeaderSize
<1>. QED BY <1>1, <1>2, <1>3 DEF PacedInv

LEMMA PacedByte ==
  ASSUME Paced, RingInv, PacedInv, multi_write_byte
  PROVE  PacedInv'
<1>. USE DEF RingInv, TypeOK
<1>1. /\ phase = "write" /\ pending < MaxCode /\ pending' = pending + 1
      /\ rx_dma_empty' = rx_dma_empty
      /\ dma_index' = dma_index /\ ptr' = ptr
      /\ ~rx_dma_empty => since' = since + 1 /\ since < BytesPerTransfer
      /\ rx_dma_empty => since' = since
  BY DEF multi_write_byte, dmaVars, rx_dma_empty
<1>2. /\ pending \in 0 .. MaxCode /\ since \in Nat
      /\ buffer_usage \in 0 .. BUFFER_SIZE /\ num_ready \in 0 .. NUM_BUFFER
      /\ dma_index \in Slot /\ buffer_index \in Slot
  BY DEF UserType, BufferType, DmaType
<1>3. /\ BytesPerTransfer + MaxCode + HeaderSize <= BUFFER_SIZE
      /\ BytesPerTransfer \in Nat /\ MaxCode \in Nat /\ MaxCode > 0
      /\ BUFFER_SIZE \in Nat /\ HeaderSize = 3
  BY SizesAssumption, ClientAssumption DEF Paced, HeaderSize
<1>4. dma_index' = NextSlot(ptr') <=> dma_index = NextSlot(ptr)
  BY <1>1 DEF NextSlot
<1>5. CASE StoreInBuffer(offered + 1)
  <2>1. /\ buffer_usage' = buffer_usage + 1 /\ num_ready' = num_ready
        /\ buffer_overruns' = buffer_overruns
    BY <1>5 DEF StoreInBuffer
  <2>. QED BY <1>1, <1>2, <1>3, <1>4, <2>1 DEF PacedInv
<1>6. CASE buffer_usage = BUFFER_SIZE
  <2>1. rx_dma_empty /\ num_ready = 0
    BY <1>6, FullBufferQuiet
  <2>2. buffer_index = dma_index
    <3>1. Wrap(dma_index + num_ready) = buffer_index
      BY <1>1 DEF RingAccounting
    <3>2. dma_index + 0 = dma_index /\ ~(dma_index >= NUM_BUFFER)
      BY <1>2, SizesAssumption DEF Slot
    <3>. QED BY <2>1, <3>1, <3>2 DEF Wrap
  <2>3. SlotFree(NextSlot(buffer_index))
    BY <1>2, <2>2, SizesAssumption DEF SlotFree, NextSlot, Slot
  <2>4. StoreInNextBuffer(offered + 1)
    BY <1>6, <2>3 DEF multi_write_byte, StoreInBuffer, DropByte
  <2>5. /\ num_ready' = 1 /\ buffer_usage' \in 1 .. HeaderSize + 1
        /\ buffer_overruns' = buffer_overruns
    BY <1>3, <2>1, <2>4 DEF StoreInNextBuffer, HeaderRoom
  <2>6. rx_dma_empty' /\ pending' \in Nat /\ pending' >= 1
    BY <1>1, <1>2, <2>1
  <2>. HIDE DEF RingInv, TypeOK
  <2>. QED BY <1>1, <1>2, <1>3, <2>1, <2>5, <2>6 DEF PacedInv
<1>. QED BY <1>5, <1>6 DEF multi_write_byte, StoreInNextBuffer, DropByte

LEMMA PacedHandle ==
  ASSUME RingInv, PacedInv, multi_write_handle
  PROVE  PacedInv'
<1>. USE DEF RingInv, TypeOK
<1>1. /\ phase = "write" /\ phase' = "write" /\ pending' = 0
      /\ buffer_usage' = buffer_usage /\ buffer_overruns' = buffer_overruns
  BY DEF multi_write_handle, Handle
<1>2. /\ pending \in 0 .. MaxCode /\ MaxCode \in Nat /\ BytesPerTransfer \in Nat
      /\ buffer_usage \in 0 .. BUFFER_SIZE /\ num_ready \in 0 .. NUM_BUFFER
  BY ClientAssumption DEF UserType, BufferType
<1>3. CASE rx_dma_empty /\ StartDma
  <2>1. /\ num_ready > 0 /\ num_ready' = num_ready - 1 /\ since' = 0
        /\ ptr' = dma_index /\ dma_index' = NextSlot(dma_index) /\ pos' = 0
    BY <1>3 DEF StartDma, SlotToSend
  <2>2. num_ready = 1 /\ buffer_usage <= HeaderSize + MaxCode
    BY <1>1, <1>2, <1>3, <2>1 DEF PacedInv, HeaderSize
  <2>3. dma_index' = NextSlot(ptr')
    BY <2>1 DEF NextSlot
  <2>4. ~rx_dma_empty'
    BY <2>1, SizesAssumption DEF rx_dma_empty, HeaderSize
  <2>. QED BY <1>1, <1>2, <2>1, <2>2, <2>3, <2>4 DEF PacedInv, HeaderSize
<1>4. CASE rx_dma_empty /\ Idle
  <2>1. num_ready' = 0 /\ rx_dma_empty'
    BY <1>4 DEF Idle, rx_dma_empty
  <2>. QED BY <1>1, <2>1 DEF PacedInv
<1>5. CASE ~rx_dma_empty
  <2>1. UNCHANGED <<dmaVars, num_ready, since>>
    BY <1>5 DEF multi_write_handle, Handle, DmaServiceable
  <2>2. ~rx_dma_empty' /\ dma_index' = dma_index /\ ptr' = ptr
        /\ num_ready' = num_ready /\ since' = since
    BY <1>5, <2>1 DEF dmaVars, rx_dma_empty
  <2>3. dma_index' = NextSlot(ptr')
    BY <1>1, <1>5, <2>2 DEF PacedInv, NextSlot
  <2>. QED BY <1>1, <1>5, <2>2, <2>3 DEF PacedInv
<1>. QED BY <1>3, <1>4, <1>5 DEF multi_write_handle, Handle, DmaServiceable

LEMMA PacedShift ==
  ASSUME RingInv, PacedInv, DmaShift
  PROVE  PacedInv'
<1>1. /\ ~rx_dma_empty
      /\ UNCHANGED <<phase, buffer_overruns, num_ready, dma_index, ptr, since,
                     buffer_usage, pending>>
  BY DEF DmaShift, ringVars, userVars
<1>. QED BY <1>1 DEF PacedInv, NextSlot

LEMMA PacedFlush ==
  ASSUME PacedInv, multi_write_end \/ FlushHandle \/ FlushDone
  PROVE  PacedInv'
BY DEF PacedInv, multi_write_end, FlushHandle, FlushDone, Handle, ringVars

LEMMA PacedNext == Paced /\ RingInv /\ PacedInv /\ [Next]_vars => PacedInv'
<1> SUFFICES ASSUME Paced, RingInv, PacedInv, [Next]_vars PROVE PacedInv'
  OBVIOUS
<1>1. CASE UNCHANGED vars
  BY <1>1 DEF vars, ringVars, dmaVars, userVars, PacedInv, rx_dma_empty, NextSlot
<1>. QED
  BY <1>1, PacedBegin, PacedByte, PacedHandle, PacedShift, PacedFlush
     DEF Next, Finished

LEMMA PacedApart ==
  ASSUME RingInv, PacedInv
  PROVE  WriterOutsideTransfer
<1> SUFFICES ASSUME phase = "write", ~rx_dma_empty PROVE buffer_index # ptr
  BY DEF WriterOutsideTransfer
<1>1. /\ num_ready = 0 /\ dma_index = NextSlot(ptr)
      /\ Wrap(dma_index + num_ready) = buffer_index
  BY DEF PacedInv, RingInv, RingAccounting
<1>2. dma_index \in Slot /\ ptr \in Slot
  BY DEF RingInv, TypeOK, DmaType
<1>. QED BY <1>1, <1>2, SizesAssumption DEF Wrap, NextSlot, Slot

(* If what arrives during one transfer, a header and one burst fit in a    *)
(* buffer, no byte of any stream is ever dropped and the writer is never   *)
(* in the buffer that is being sent.                                       *)
THEOREM PacedCorrect == Paced => (Spec => [](NoOverrun /\ WriterOutsideTransfer))
<1> SUFFICES ASSUME Paced PROVE Spec => [](NoOverrun /\ WriterOutsideTransfer)
  OBVIOUS
<1>1. Init => PacedInv
  BY DEF Init, PacedInv
<1>2. RingInv /\ PacedInv => NoOverrun /\ WriterOutsideTransfer
  BY PacedApart DEF PacedInv, NoOverrun
<1>3. RingInv /\ PacedInv /\ [Next]_vars => PacedInv'
  BY PacedNext
<1>. QED BY <1>1, <1>2, <1>3, InitRing, NextRing, PTL DEF Spec

(***************************************************************************)
(* Second part: the bytes of a session are where the layout puts them, in  *)
(* the ring until their turn and in the chips after, and the write path    *)
(* implements ByteStream.                                                  *)
(***************************************************************************)

(***************************************************************************)
(* Chip select.                                                            *)
(***************************************************************************)
(* The address lines change, or a command ends, only between two           *)
(* transfers, whatever the pace of the bytes and the mode of the chips.    *)
THEOREM ChipSwitchBetweenTransfers == Spec => ChipSwitchQuiet
<1>1. ASSUME RingInv, [Next]_vars, sel' # sel \/ clocked' < clocked
      PROVE  rx_dma_empty
  <2>1. clocked \in Nat
    BY <1>1 DEF RingInv, TypeOK, DmaType
  <2>2. CASE multi_write_begin
    BY <1>1, <2>2 DEF multi_write_begin, RingInv, QuietOutside, rx_dma_empty
  <2>3. CASE Handle
    BY <1>1, <2>1, <2>3 DEF Handle, DmaServiceable, dmaVars
  <2>4. CASE FlushDone
    BY <2>4 DEF FlushDone, AllSent
  <2>5. CASE UNCHANGED dmaVars
    BY <1>1, <2>1, <2>5 DEF dmaVars
  <2>6. CASE DmaShift
    BY <1>1, <2>1, <2>6 DEF DmaShift, ChipTakes
  <2>. QED
    BY <1>1, <2>2, <2>3, <2>4, <2>5, <2>6
       DEF Next, vars, multi_write_byte, multi_write_handle, multi_write_end,
           FlushHandle, Finished
<1>2. RingInv /\ [Next]_vars => [sel' # sel \/ clocked' < clocked => rx_dma_empty]_vars
  BY <1>1
<1>. QED BY <1>2, InitRing, NextRing, PTL DEF Spec, ChipSwitchQuiet

(***************************************************************************)
(* Division: rows of d places, and the place of a number in them.          *)
(***************************************************************************)
LEMMA ProductMonotone ==
  ASSUME NEW a \in Nat, NEW b \in Nat, NEW d \in Nat, a <= b
  PROVE  a * d <= b * d /\ a * d \in Nat /\ b * d \in Nat
BY SMT

LEMMA NextProduct ==
  ASSUME NEW a \in Nat, NEW d \in Nat
  PROVE  (a + 1) * d = a * d + d /\ a * d \in Nat
BY SMT

LEMMA DivisionOf ==
  ASSUME NEW d \in Nat \ {0}, NEW x \in Nat
  PROVE  /\ x = (x \div d) * d + (x % d)
         /\ x % d \in 0 .. d - 1 /\ x \div d \in Nat
BY SMT

(* Two places in rows of d: the earlier row, or the earlier in the row. *)
LEMMA RowOrder ==
  ASSUME NEW d \in Nat, NEW a \in Nat, NEW b \in Nat,
         NEW p \in Nat, NEW q \in 0 .. d, p < d
  PROVE  a * d + p < b * d + q <=> a < b \/ (a = b /\ p < q)
<1>1. CASE a < b
  <2>1. (a + 1) * d <= b * d /\ b * d \in Nat
    BY <1>1, ProductMonotone
  <2>2. (a + 1) * d = a * d + d /\ a * d \in Nat
    BY NextProduct
  <2>. QED BY <1>1, <2>1, <2>2
<1>2. CASE a = b
  BY <1>2, NextProduct
<1>3. CASE b < a
  <2>1. (b + 1) * d <= a * d /\ a * d \in Nat
    BY <1>3, ProductMonotone
  <2>2. (b + 1) * d = b * d + d /\ b * d \in Nat
    BY NextProduct
  <2>. QED BY <1>3, <2>1, <2>2
<1>. QED BY <1>1, <1>2, <1>3

(* The row and the place in the row are unique.                            *)
LEMMA RowUnique ==
  ASSUME NEW d \in Nat, NEW a \in Nat, NEW b \in Nat,
         NEW p \in 0 .. d - 1, NEW q \in 0 .. d - 1, a * d + p = b * d + q
  PROVE  a = b /\ p = q
<1>1. ~(a * d + p < b * d + q) /\ ~(b * d + q < a * d + p)
  BY NextProduct
<1>2. a * d + p < b * d + q <=> a < b \/ (a = b /\ p < q)
  BY RowOrder
<1>3. b * d + q < a * d + p <=> b < a \/ (b = a /\ q < p)
  BY RowOrder
<1>. QED BY <1>1, <1>2, <1>3

LEMMA DivisionUnique ==
  ASSUME NEW d \in Nat \ {0}, NEW q \in Nat, NEW r \in 0 .. d - 1,
         NEW x \in Nat, x = q * d + r
  PROVE  x \div d = q /\ x % d = r
<1>. DEFINE y == x \div d
            z == x % d
<1>1. x = y * d + z /\ z \in 0 .. d - 1 /\ y \in Nat
  BY DivisionOf
<1>. HIDE DEF y, z
<1>2. q = y /\ r = z
  BY <1>1, RowUnique
<1>. QED BY <1>2 DEF y, z

LEMMA NextRemainder ==
  ASSUME NEW d \in Nat \ {0}, NEW x \in Nat
  PROVE  IF x % d = d - 1 THEN (x + 1) % d = 0 /\ (x + 1) \div d = x \div d + 1
         ELSE (x + 1) % d = (x % d) + 1 /\ (x + 1) \div d = x \div d
<1>. DEFINE q == x \div d
            r == x % d
<1>1. x = q * d + r /\ r \in 0 .. d - 1 /\ q \in Nat
  BY DivisionOf
<1>. HIDE DEF q, r
<1>2. CASE r = d - 1
  <2>. DEFINE s == q + 1
              o == 0
  <2>1. x + 1 = s * d + o /\ s \in Nat /\ o \in 0 .. d - 1 /\ x + 1 \in Nat
    BY <1>1, <1>2, NextProduct
  <2>2. (x + 1) \div d = s /\ (x + 1) % d = o
    <3>. HIDE DEF s, o
    <3>. QED BY <2>1, DivisionUnique
  <2>. QED BY <1>2, <2>2 DEF q, r
<1>3. CASE r # d - 1
  <2>1. x + 1 = q * d + (r + 1) /\ r + 1 \in 0 .. d - 1 /\ x + 1 \in Nat
    BY <1>1, <1>3, NextProduct
  <2>2. (x + 1) \div d = q /\ (x + 1) % d = r + 1
    BY <1>1, <2>1, DivisionUnique
  <2>. QED BY <1>3, <2>2 DEF q, r
<1>. QED BY <1>2, <1>3

(* Numbers less than d apart have different remainders. *)
LEMMA RemainderInjective ==
  ASSUME NEW d \in Nat \ {0}, NEW a \in Nat, NEW b \in Nat,
         a <= b, b < a + d, a % d = b % d
  PROVE  a = b
<1>. DEFINE q == a \div d
            s == b \div d
            r == a % d
<1>1. a = q * d + r /\ r \in 0 .. d - 1 /\ q \in Nat
  BY DivisionOf
<1>2. b = s * d + r /\ s \in Nat
  BY DivisionOf
<1>. HIDE DEF q, s, r
<1>3. CASE q < s
  <2>1. (q + 1) * d <= s * d /\ s * d \in Nat
    BY <1>1, <1>2, <1>3, ProductMonotone
  <2>2. (q + 1) * d = q * d + d /\ q * d \in Nat
    BY <1>1, NextProduct
  <2>. QED BY <1>1, <1>2, <2>1, <2>2
<1>4. CASE s < q
  <2>1. (s + 1) * d <= q * d /\ q * d \in Nat
    BY <1>1, <1>2, <1>4, ProductMonotone
  <2>2. (s + 1) * d = s * d + d /\ s * d \in Nat
    BY <1>2, NextProduct
  <2>. QED BY <1>1, <1>2, <2>1, <2>2
<1>5. CASE q = s
  BY <1>1, <1>2, <1>5
<1>. QED BY <1>1, <1>2, <1>3, <1>4, <1>5

LEMMA ZeroDivision ==
  ASSUME NEW d \in Nat \ {0}
  PROVE  0 % d = 0 /\ 0 \div d = 0
BY SMT

LEMMA SmallRemainder ==
  ASSUME NEW d \in Nat \ {0}, NEW x \in 0 .. d - 1
  PROVE  x % d = x
BY SMT

(***************************************************************************)
(* The layout, as arithmetic: byte n of the stream is in buffer            *)
(* BufferOf(n) of the session at PlaceOf(n), a buffer is NUM_BANKS to a    *)
(* chip, and the first of each chip starts with the header.                *)
(***************************************************************************)
(* The buffer of the stream that holds byte n, counted from the session's  *)
(* begin, and the byte's place in it.                                      *)
BufferOf(n) == Raw(n) \div BUFFER_SIZE
PlaceOf(n)  == Raw(n) % BUFFER_SIZE

LEMMA ChipSizes ==
  /\ ChipSize \in Nat \ {0} /\ ChipSize >= BUFFER_SIZE
  /\ ChipCap \in Nat \ {0} /\ ChipCap = ChipSize - HeaderSize
  /\ HeaderSize = 3
<1>1. 1 * BUFFER_SIZE <= NUM_BANKS * BUFFER_SIZE /\ NUM_BANKS * BUFFER_SIZE \in Nat
  BY SizesAssumption, ProductMonotone
<1>. QED BY <1>1, SizesAssumption DEF ChipSize, ChipCap, HeaderSize

LEMMA BankOffset ==
  ASSUME NEW k \in 0 .. NUM_BANKS - 1, NEW p \in 0 .. BUFFER_SIZE
  PROVE  /\ k * BUFFER_SIZE + p \in 0 .. ChipSize
         /\ p < BUFFER_SIZE => k * BUFFER_SIZE + p \in 0 .. ChipSize - 1
<1>1. (k + 1) * BUFFER_SIZE <= NUM_BANKS * BUFFER_SIZE
  BY SizesAssumption, ProductMonotone
<1>2. (k + 1) * BUFFER_SIZE = k * BUFFER_SIZE + BUFFER_SIZE /\ k * BUFFER_SIZE \in Nat
  BY SizesAssumption, NextProduct
<1>. QED BY <1>1, <1>2, ChipSizes, SizesAssumption DEF ChipSize

LEMMA ChipProduct ==
  ASSUME NEW c \in Nat
  PROVE  /\ c * ChipSize = c * ChipCap + HeaderSize * c
         /\ c * ChipSize \in Nat /\ c * ChipCap \in Nat
BY ChipSizes

LEMMA BankProduct ==
  ASSUME NEW c \in Nat, NEW k \in Nat
  PROVE  (c * NUM_BANKS + k) * BUFFER_SIZE = c * ChipSize + k * BUFFER_SIZE
<1>. DEFINE K == NUM_BANKS
            B == BUFFER_SIZE
<1>1. K \in Nat /\ B \in Nat
  BY SizesAssumption
<1>. HIDE DEF K, B
<1>2. (c * K + k) * B = c * (K * B) + k * B
  BY <1>1
<1>. QED BY <1>2 DEF K, B, ChipSize

(* Byte n by chip and by buffer.                                           *)
LEMMA RawByChip ==
  ASSUME NEW n \in Nat \ {0}
  PROVE  LET c == (n - 1) \div ChipCap
             a == (n - 1) % ChipCap
         IN  /\ c \in Nat /\ a \in 0 .. ChipCap - 1 /\ n - 1 = c * ChipCap + a
             /\ Raw(n) = c * ChipSize + (a + HeaderSize)
             /\ Raw(n) \in Nat
<1>. DEFINE c == (n - 1) \div ChipCap
            a == (n - 1) % ChipCap
<1>1. c \in Nat /\ a \in 0 .. ChipCap - 1 /\ n - 1 = c * ChipCap + a
  <2>. DEFINE m == n - 1
  <2>1. m \in Nat /\ ChipCap \in Nat \ {0}
    BY ChipSizes
  <2>. HIDE DEF m
  <2>2. m \div ChipCap \in Nat /\ m % ChipCap \in 0 .. ChipCap - 1
        /\ m = (m \div ChipCap) * ChipCap + (m % ChipCap)
    BY <2>1, DivisionOf
  <2>. QED BY <2>2 DEF m
<1>2. Raw(n) = n - 1 + HeaderSize * (1 + c)
  BY DEF Raw
<1>. HIDE DEF c, a
<1>3. c * ChipSize = c * ChipCap + HeaderSize * c /\ c * ChipSize \in Nat
      /\ c * ChipCap \in Nat
  BY <1>1, ChipProduct
<1>4. Raw(n) = c * ChipSize + (a + HeaderSize) /\ Raw(n) \in Nat
  BY <1>1, <1>2, <1>3, ChipSizes
<1>. QED BY <1>1, <1>4 DEF c, a

LEMMA BytePlace ==
  ASSUME NEW n \in Nat \ {0}
  PROVE  LET t == BufferOf(n)
             p == PlaceOf(n)
         IN  /\ t \in Nat /\ p \in 0 .. BUFFER_SIZE - 1
             /\ Raw(n) = t * BUFFER_SIZE + p
             /\ t \div NUM_BANKS \in Nat /\ t % NUM_BANKS \in 0 .. NUM_BANKS - 1
             /\ (n - 1) \div ChipCap = t \div NUM_BANKS
             /\ (n - 1) % ChipCap = ((t % NUM_BANKS) * BUFFER_SIZE + p) - HeaderSize
             /\ (t % NUM_BANKS) * BUFFER_SIZE + p >= HeaderSize
             /\ t % NUM_BANKS = 0 => p >= HeaderSize
<1>. DEFINE t == BufferOf(n)
            p == PlaceOf(n)
            c == t \div NUM_BANKS
            k == t % NUM_BANKS
            q == (n - 1) \div ChipCap
            a == (n - 1) % ChipCap
<1>1. /\ q \in Nat /\ a \in 0 .. ChipCap - 1
      /\ Raw(n) = q * ChipSize + (a + HeaderSize)
      /\ Raw(n) \in Nat
  BY RawByChip
<1>2. t \in Nat /\ p \in 0 .. BUFFER_SIZE - 1 /\ Raw(n) = t * BUFFER_SIZE + p
  <2>. DEFINE x == Raw(n)
  <2>1. x \in Nat /\ BUFFER_SIZE \in Nat \ {0}
    BY <1>1, SizesAssumption DEF HeaderSize
  <2>. HIDE DEF x
  <2>2. x \div BUFFER_SIZE \in Nat /\ x % BUFFER_SIZE \in 0 .. BUFFER_SIZE - 1
        /\ x = (x \div BUFFER_SIZE) * BUFFER_SIZE + (x % BUFFER_SIZE)
    BY <2>1, DivisionOf
  <2>. QED BY <2>2 DEF x, BufferOf, PlaceOf
<1>3. c \in Nat /\ k \in 0 .. NUM_BANKS - 1 /\ t = c * NUM_BANKS + k
  BY <1>2, DivisionOf, SizesAssumption
<1>. HIDE DEF t, p, c, k, q, a
<1>4. t * BUFFER_SIZE = c * ChipSize + k * BUFFER_SIZE
  BY <1>3, BankProduct
<1>5. k * BUFFER_SIZE + p \in 0 .. ChipSize - 1 /\ k * BUFFER_SIZE \in Nat
  BY <1>2, <1>3, BankOffset, NextProduct, SizesAssumption
<1>. DEFINE r == k * BUFFER_SIZE + p
            s == a + HeaderSize
<1>6. Raw(n) = c * ChipSize + r /\ r \in 0 .. ChipSize - 1 /\ c \in Nat
  BY <1>2, <1>3, <1>4, <1>5, ChipProduct
<1>7. Raw(n) = q * ChipSize + s /\ s \in 0 .. ChipSize - 1
  BY <1>1, ChipSizes
<1>8. c = q /\ r = s
  <2>. HIDE DEF r, s
  <2>. QED BY <1>1, <1>6, <1>7, ChipSizes, RowUnique
<1>9. k = 0 => p >= HeaderSize
  BY <1>1, <1>2, <1>8, ChipSizes, SizesAssumption
<1>. QED
  BY <1>1, <1>2, <1>3, <1>5, <1>8, <1>9, ChipSizes DEF t, p, c, k, q, a

LEMMA PlaceInjective ==
  ASSUME NEW m \in Nat \ {0}, NEW n \in Nat \ {0},
         BufferOf(m) = BufferOf(n), PlaceOf(m) = PlaceOf(n)
  PROVE  m = n
<1>1. (m - 1) \div ChipCap = (n - 1) \div ChipCap
  BY BytePlace
<1>2. (m - 1) % ChipCap = (n - 1) % ChipCap
  BY BytePlace
<1>3. m - 1 = n - 1
  BY <1>1, <1>2, RawByChip
<1>. QED BY <1>3

(* The place of the byte after n others, when the writer has put u bytes in *)
(* buffer k of chip c.                                                     *)
LEMMA NextPlace ==
  ASSUME NEW c \in Nat, NEW k \in 0 .. NUM_BANKS - 1,
         NEW u \in 0 .. BUFFER_SIZE - 1, k = 0 => u >= HeaderSize,
         NEW n \in Nat, n + HeaderSize = c * ChipCap + k * BUFFER_SIZE + u
  PROVE  BufferOf(n + 1) = c * NUM_BANKS + k /\ PlaceOf(n + 1) = u
<1>. DEFINE t == c * NUM_BANKS + k
            r == k * BUFFER_SIZE + u
            m == n + 1
<1>1. r \in 0 .. ChipSize - 1
  <2>1. u \in 0 .. BUFFER_SIZE /\ u < BUFFER_SIZE
    BY SizesAssumption
  <2>. QED BY <2>1, BankOffset
<1>2. r >= HeaderSize
  <2>1. CASE k = 0
    BY <2>1, SizesAssumption
  <2>2. CASE k # 0
    <3>1. 1 * BUFFER_SIZE <= k * BUFFER_SIZE /\ k * BUFFER_SIZE \in Nat
      BY <2>2, ProductMonotone, SizesAssumption
    <3>. QED BY <3>1, SizesAssumption DEF HeaderSize
  <2>. QED BY <2>1, <2>2
<1>3. (n + 1) - 1 = c * ChipCap + (r - HeaderSize) /\ r - HeaderSize \in 0 .. ChipCap - 1
  <2>1. c * ChipCap \in Nat /\ k * BUFFER_SIZE \in Nat
    BY ChipProduct, NextProduct, SizesAssumption
  <2>. QED BY <1>1, <1>2, <2>1, ChipSizes
<1>4. /\ BufferOf(m) \in Nat /\ PlaceOf(m) \in 0 .. BUFFER_SIZE - 1
      /\ BufferOf(m) \div NUM_BANKS \in Nat
      /\ BufferOf(m) % NUM_BANKS \in 0 .. NUM_BANKS - 1
      /\ (m - 1) \div ChipCap = BufferOf(m) \div NUM_BANKS
      /\ (m - 1) % ChipCap = ((BufferOf(m) % NUM_BANKS) * BUFFER_SIZE + PlaceOf(m)) - HeaderSize
  BY BytePlace
<1>5. (m - 1) \div ChipCap = c /\ (m - 1) % ChipCap = r - HeaderSize
  <2>. DEFINE x == m - 1
              a == r - HeaderSize
              D == ChipCap
  <2>1. x \in Nat /\ x = c * D + a /\ a \in 0 .. D - 1
    BY <1>3
  <2>2. D \in Nat \ {0} /\ c \in Nat
    BY ChipSizes
  <2>. HIDE DEF x, a, r, m, D
  <2>3. x \div D = c /\ x % D = a
    <3>1. ASSUME NEW y \in Nat, NEW e \in Nat \ {0}, NEW q \in Nat, NEW b \in 0 .. e - 1,
                 y = q * e + b
          PROVE  y \div e = q /\ y % e = b
      BY <3>1, DivisionUnique
    <3>. QED BY <2>1, <2>2, <3>1, Zenon
  <2>. QED BY <2>3 DEF x, a, D
<1>. DEFINE k2 == BufferOf(m) % NUM_BANKS
            p2 == PlaceOf(m)
<1>6. k2 * BUFFER_SIZE + p2 = k * BUFFER_SIZE + u
  <2>1. k2 * BUFFER_SIZE \in Nat /\ k * BUFFER_SIZE \in Nat
    BY <1>4, NextProduct, SizesAssumption
  <2>. QED BY <1>4, <1>5, <2>1, ChipSizes
<1>7. k2 \in Nat /\ p2 \in 0 .. BUFFER_SIZE - 1
  BY <1>4, SizesAssumption
<1>8. k2 = k /\ p2 = u
  <2>1. k \in Nat /\ BUFFER_SIZE \in Nat
    BY SizesAssumption
  <2>. HIDE DEF k2, p2
  <2>. QED BY <1>6, <1>7, <2>1, RowUnique
<1>9. BufferOf(m) = (BufferOf(m) \div NUM_BANKS) * NUM_BANKS + k2
  BY <1>4, DivisionOf, SizesAssumption
<1>. QED BY <1>4, <1>5, <1>8, <1>9

(* The bytes written are those before the writer's place.                  *)
LEMMA WrittenBefore ==
  ASSUME NEW c \in Nat, NEW k \in 0 .. NUM_BANKS - 1,
         NEW u \in 0 .. BUFFER_SIZE, k = 0 => u >= HeaderSize,
         NEW len \in Nat, len + HeaderSize = c * ChipCap + k * BUFFER_SIZE + u,
         NEW n \in 1 .. len
  PROVE  LET w == c * NUM_BANKS + k
         IN  BufferOf(n) < w \/ (BufferOf(n) = w /\ PlaceOf(n) < u)
<1>. DEFINE t == BufferOf(n)
            p == PlaceOf(n)
            c2 == t \div NUM_BANKS
            k2 == t % NUM_BANKS
            a == (k * BUFFER_SIZE + u) - HeaderSize
            a2 == (k2 * BUFFER_SIZE + p) - HeaderSize
<1>1. /\ t \in Nat /\ p \in 0 .. BUFFER_SIZE - 1
      /\ c2 \in Nat /\ k2 \in 0 .. NUM_BANKS - 1
      /\ n - 1 = c2 * ChipCap + a2 /\ a2 \in 0 .. ChipCap - 1
      /\ t = c2 * NUM_BANKS + k2
  <2>1. /\ t \in Nat /\ p \in 0 .. BUFFER_SIZE - 1
        /\ c2 \in Nat /\ k2 \in 0 .. NUM_BANKS - 1
        /\ (n - 1) \div ChipCap = c2 /\ (n - 1) % ChipCap = a2
    BY BytePlace
  <2>2. /\ n - 1 = ((n - 1) \div ChipCap) * ChipCap + ((n - 1) % ChipCap)
        /\ (n - 1) % ChipCap \in 0 .. ChipCap - 1
    <3>1. n - 1 \in Nat
      OBVIOUS
    <3>2. ChipCap \in Nat \ {0}
      BY ChipSizes
    <3>. QED BY <3>1, <3>2, DivisionOf
  <2>3. t = c2 * NUM_BANKS + k2
    <3>1. t \in Nat
      BY <2>1
    <3>. HIDE DEF t
    <3>. QED BY <3>1, DivisionOf, SizesAssumption
  <2>. HIDE DEF t, p, c2, k2, a2
  <2>. QED BY <2>1, <2>2, <2>3
<1>. HIDE DEF t, p, c2, k2
<1>2. /\ k * BUFFER_SIZE \in Nat /\ k2 * BUFFER_SIZE \in Nat
      /\ c * ChipCap \in Nat /\ c2 * ChipCap \in Nat
  BY <1>1, NextProduct, ChipProduct, SizesAssumption
<1>3. a \in 0 .. ChipCap
  <2>1. k * BUFFER_SIZE + u \in 0 .. ChipSize
    BY BankOffset
  <2>2. k * BUFFER_SIZE + u >= HeaderSize
    <3>1. CASE k = 0
      BY <3>1, SizesAssumption
    <3>2. CASE k # 0
      <4>1. 1 * BUFFER_SIZE <= k * BUFFER_SIZE
        BY <3>2, ProductMonotone, SizesAssumption
      <4>. QED BY <1>2, <4>1, SizesAssumption DEF HeaderSize
    <3>. QED BY <3>1, <3>2
  <2>3. k * BUFFER_SIZE \in Nat /\ u \in Nat
    BY <1>2
  <2>. QED BY <2>1, <2>2, <2>3, ChipSizes
<1>4. c2 * ChipCap + a2 < c * ChipCap + a
  <2>1. len = c * ChipCap + a
    BY <1>2, ChipSizes, SizesAssumption
  <2>. HIDE DEF a, a2
  <2>. QED BY <1>1, <1>2, <1>3, <2>1, ChipSizes
<1>5. c2 < c \/ (c2 = c /\ a2 < a)
  <2>1. a2 \in Nat /\ a2 < ChipCap
    BY <1>1, ChipSizes
  <2>. HIDE DEF a, a2
  <2>. QED BY <1>1, <1>3, <1>4, <2>1, ChipSizes, RowOrder
<1>6. a2 < a => k2 < k \/ (k2 = k /\ p < u)
  <2>1. a2 < a => k2 * BUFFER_SIZE + p < k * BUFFER_SIZE + u
    BY <1>1, <1>2, ChipSizes, SizesAssumption
  <2>2. k2 \in Nat /\ k \in Nat /\ p \in Nat /\ p < BUFFER_SIZE
    BY <1>1, SizesAssumption
  <2>. QED BY <2>1, <2>2, RowOrder, SizesAssumption
<1>7. c2 < c \/ (c2 = c /\ k2 < k) => c2 * NUM_BANKS + k2 < c * NUM_BANKS + k
  <2>1. k2 \in Nat /\ k2 < NUM_BANKS /\ k \in 0 .. NUM_BANKS
    BY <1>1, SizesAssumption
  <2>. QED BY <1>1, <2>1, RowOrder, SizesAssumption
<1>8. t < c * NUM_BANKS + k \/ (t = c * NUM_BANKS + k /\ p < u)
  BY <1>1, <1>5, <1>6, <1>7
<1>. QED BY <1>8 DEF t, p

(* Two places in the chips are the same only if they are the same place of *)
(* the same buffer.                                                        *)
LEMMA ChipPlaceUnique ==
  ASSUME NEW s \in Nat, NEW t \in Nat,
         NEW p \in 0 .. BUFFER_SIZE - 1, NEW q \in 0 .. BUFFER_SIZE - 1,
         s \div NUM_BANKS = t \div NUM_BANKS,
         (s % NUM_BANKS) * BUFFER_SIZE + p = (t % NUM_BANKS) * BUFFER_SIZE + q
  PROVE  s = t /\ p = q
<1>. DEFINE c == s \div NUM_BANKS
            d == t \div NUM_BANKS
            k == s % NUM_BANKS
            l == t % NUM_BANKS
<1>1. s = c * NUM_BANKS + k /\ k \in 0 .. NUM_BANKS - 1 /\ c \in Nat
  BY DivisionOf, SizesAssumption
<1>2. t = d * NUM_BANKS + l /\ l \in 0 .. NUM_BANKS - 1 /\ c = d
  BY DivisionOf, SizesAssumption
<1>3. k * BUFFER_SIZE + p = l * BUFFER_SIZE + q
  OBVIOUS
<1>. HIDE DEF c, d, k, l
<1>4. k = l /\ p = q
  BY <1>1, <1>2, <1>3, RowUnique, SizesAssumption
<1>. QED BY <1>1, <1>2, <1>4

(* Byte n has been sent when the transfer of its buffer is past its place. *)
LEMMA SentOrder ==
  ASSUME NEW n \in Nat \ {0}, NEW s \in Nat, NEW p \in 0 .. BUFFER_SIZE
  PROVE  Raw(n) < s * BUFFER_SIZE + p
           <=> BufferOf(n) < s \/ (BufferOf(n) = s /\ PlaceOf(n) < p)
<1>. DEFINE t == BufferOf(n)
            q == PlaceOf(n)
<1>1. Raw(n) = t * BUFFER_SIZE + q /\ t \in Nat /\ q \in Nat /\ q < BUFFER_SIZE
  BY BytePlace, SizesAssumption
<1>. HIDE DEF t, q
<1>2. t * BUFFER_SIZE + q < s * BUFFER_SIZE + p <=> t < s \/ (t = s /\ q < p)
  BY <1>1, RowOrder, SizesAssumption
<1>. QED BY <1>1, <1>2 DEF t, q

(***************************************************************************)
(* The inductive invariant. The buffers of a session are numbered from 0;  *)
(* Opened counts those the writer has opened, Started those handed to the  *)
(* DMA, and Unsent is the first that is not sent to its end. Everything    *)
(* else, the indices, the chips and the bytes, follows from these numbers. *)
(***************************************************************************)
Opened == chip_no * NUM_BANKS + bank_no + 1
Unsent == IF rx_dma_empty THEN Started ELSE Started - 1
InSession == phase \in {"write", "flush"}

WriterPlaced ==
  /\ Len(stream) + HeaderSize
       = chip_no * ChipCap + bank_no * BUFFER_SIZE + buffer_usage
  /\ bank_no = 0 => buffer_usage >= HeaderSize
  /\ bank_no = 0 /\ chip_no > 0 => buffer_usage > HeaderSize
  /\ InSession => buffer_index = (Opened - 1) % NUM_BUFFER

QueuePlaced == InSession =>
  /\ dma_index = Started % NUM_BUFFER
  /\ \A t \in Started .. Opened - 1 : on_chip[t % NUM_BUFFER] = t \div NUM_BANKS

HeadersPlaced == InSession =>
  \A t \in Unsent .. Opened - 1 :
    t % NUM_BANKS = 0 =>
      \A i \in 0 .. HeaderSize - 1 : buffer[t % NUM_BUFFER][i] = Header(i)

TransferPlaced == InSession =>
  /\ Started = 0 => rx_dma_empty /\ dma_chip_no = 0 /\ sel = 0 /\ clocked = 0
  /\ Started > 0 =>
       /\ ptr = (Started - 1) % NUM_BUFFER
       /\ dma_chip_no = (Started - 1) \div NUM_BANKS
       /\ sel = dma_chip_no % NUM_CHIPS
       /\ clocked = ((Started - 1) % NUM_BANKS) * BUFFER_SIZE + pos
       /\ clocked > 0 => armed

IsSent(n) ==
  Started > 0 /\ (\/ BufferOf(n) < Started - 1
                  \/ BufferOf(n) = Started - 1 /\ PlaceOf(n) < pos)

BytesPlaced ==
  \A n \in 1 .. Len(stream) :
    stream[n] = IF IsSent(n) THEN InRam(n) ELSE InRing(n)

PlaceInv ==
  phase # "idle" =>
    /\ Started \in Nat
    /\ WriterPlaced /\ QueuePlaced /\ HeadersPlaced /\ TransferPlaced /\ BytesPlaced

LEMMA PlaceBegin ==
  ASSUME RingInv, multi_write_begin
  PROVE  PlaceInv'
<1>. USE DEF multi_write_begin
<1>1. Opened' = 1 /\ Started' = 0 /\ rx_dma_empty' /\ Unsent' = 0
  BY SizesAssumption DEF Opened, Started, Unsent, rx_dma_empty
<1>2. WriterPlaced'
  <2>1. 0 % NUM_BUFFER = 0 /\ 0 * ChipCap = 0 /\ 0 * BUFFER_SIZE = 0
    BY ZeroDivision, SizesAssumption, ChipSizes
  <2>2. Len(stream') = 0 /\ chip_no' = 0 /\ bank_no' = 0 /\ buffer_index' = 0
        /\ buffer_usage' = HeaderSize
    OBVIOUS
  <2>. QED BY <1>1, <2>1, <2>2 DEF WriterPlaced, HeaderSize
<1>3. QueuePlaced'
  <2>1. on_chip'[0] = 0
    BY SizesAssumption DEF RingInv, TypeOK, BufferType, Slot
  <2>. QED BY <1>1, <2>1, ZeroDivision, SizesAssumption DEF QueuePlaced
<1>4. HeadersPlaced'
  <2>1. \A i \in 0 .. HeaderSize - 1 : buffer'[0][i] = Header(i)
    BY SizesAssumption DEF RingInv, TypeOK, BufferType, Slot, HeaderSize
  <2>2. \A t \in Unsent' .. Opened' - 1 : t = 0
    BY <1>1
  <2>3. 0 % NUM_BUFFER = 0
    BY ZeroDivision, SizesAssumption
  <2>. HIDE DEF multi_write_begin
  <2>. QED BY <2>1, <2>2, <2>3 DEF HeadersPlaced
<1>5. TransferPlaced' /\ BytesPlaced'
  BY <1>1 DEF TransferPlaced, BytesPlaced
<1>. QED BY <1>1, <1>2, <1>3, <1>4, <1>5 DEF PlaceInv

(* What the write path's types say of the writer's buffer count.           *)
LEMMA OpenedType ==
  ASSUME RingInv
  PROVE  /\ chip_no \in Nat /\ bank_no \in 0 .. NUM_BANKS - 1
         /\ buffer_usage \in 0 .. BUFFER_SIZE /\ num_ready \in 0 .. NUM_BUFFER
         /\ Opened \in Nat /\ Opened - 1 \in Nat
         /\ pos \in 0 .. BUFFER_SIZE
         /\ buffer_index \in Slot /\ dma_index \in Slot /\ ptr \in Slot
         /\ Len(stream) \in Nat
<1>1. /\ chip_no \in Nat /\ bank_no \in 0 .. NUM_BANKS - 1
      /\ buffer_usage \in 0 .. BUFFER_SIZE /\ num_ready \in 0 .. NUM_BUFFER
      /\ pos \in 0 .. BUFFER_SIZE
      /\ buffer_index \in Slot /\ dma_index \in Slot /\ ptr \in Slot
      /\ Len(stream) \in Nat
  BY DEF RingInv, TypeOK, BufferType, DmaType, UserType
<1>2. chip_no * NUM_BANKS \in Nat /\ bank_no \in Nat
  BY <1>1, NextProduct, SizesAssumption
<1>. QED BY <1>1, <1>2 DEF Opened

LEMMA WriterProducts ==
  ASSUME RingInv
  PROVE  /\ chip_no * ChipCap \in Nat /\ bank_no * BUFFER_SIZE \in Nat
         /\ chip_no * ChipSize \in Nat
         /\ chip_no * NUM_BANKS \in Nat
         /\ Opened - 1 = chip_no * NUM_BANKS + bank_no
         /\ (Opened - 1) % NUM_BANKS = bank_no /\ (Opened - 1) \div NUM_BANKS = chip_no
<1>1. chip_no \in Nat /\ bank_no \in 0 .. NUM_BANKS - 1 /\ bank_no \in Nat
  BY OpenedType, SizesAssumption
<1>2. chip_no * NUM_BANKS \in Nat /\ bank_no * BUFFER_SIZE \in Nat
  BY <1>1, NextProduct, SizesAssumption
<1>3. chip_no * ChipCap \in Nat /\ chip_no * ChipSize \in Nat
  BY <1>1, ChipProduct
<1>. DEFINE T == Opened - 1
<1>4. T \in Nat /\ T = chip_no * NUM_BANKS + bank_no
  BY <1>1, <1>2 DEF Opened
<1>5. T % NUM_BANKS = bank_no /\ T \div NUM_BANKS = chip_no
  <2>. HIDE DEF T
  <2>. QED BY <1>1, <1>4, DivisionUnique, SizesAssumption
<1>. QED BY <1>2, <1>3, <1>4, <1>5

(* The same of a step's second state.                                      *)
WriterFacts ==
  /\ chip_no \in Nat /\ bank_no \in 0 .. NUM_BANKS - 1
  /\ buffer_usage \in 0 .. BUFFER_SIZE /\ num_ready \in Nat /\ Opened \in Nat
  /\ chip_no * ChipCap \in Nat /\ bank_no * BUFFER_SIZE \in Nat
  /\ Opened - 1 = chip_no * NUM_BANKS + bank_no
  /\ (Opened - 1) % NUM_BANKS = bank_no /\ (Opened - 1) \div NUM_BANKS = chip_no

LEMMA WriterFactsHold == RingInv => WriterFacts
BY OpenedType, WriterProducts DEF WriterFacts

(* While the client writes, the buffers not yet sent are fewer than the    *)
(* ring has.                                                               *)
LEMMA RingRoom ==
  ASSUME RingInv, PacedInv, PlaceInv, phase = "write"
  PROVE  /\ Started = Opened - 1 - num_ready
         /\ Unsent \in Nat /\ Unsent <= Opened - 1
         /\ Opened - 1 < Unsent + NUM_BUFFER
<1>1. Started = Opened - 1 - num_ready
  BY DEF Started, Opened
<1>2. Started \in Nat /\ num_ready \in Nat /\ num_ready < NUM_BUFFER /\ NUM_BUFFER > 1
      /\ NUM_BUFFER \in Nat /\ Opened \in Nat
  BY OpenedType, SizesAssumption DEF PlaceInv, RingInv, RingAccounting
<1>3. CASE rx_dma_empty
  BY <1>1, <1>2, <1>3 DEF Unsent
<1>4. CASE ~rx_dma_empty
  <2>1. num_ready = 0 /\ Started > 0
    BY <1>2, <1>4 DEF PacedInv, PlaceInv, TransferPlaced, InSession
  <2>. QED BY <1>1, <1>2, <1>4, <2>1 DEF Unsent
<1>. QED BY <1>1, <1>3, <1>4

(* Two buffers of the ring that are not sent lie in different slots.       *)
LEMMA SlotsDiffer ==
  ASSUME RingInv, PacedInv, PlaceInv, phase = "write",
         NEW t \in Unsent .. Opened - 1, t # Opened - 1
  PROVE  t % NUM_BUFFER # (Opened - 1) % NUM_BUFFER
<1>1. t \in Nat /\ Opened - 1 \in Nat /\ t <= Opened - 1 /\ Opened - 1 < t + NUM_BUFFER
  <2>1. Unsent \in Nat /\ Opened - 1 < Unsent + NUM_BUFFER
    BY RingRoom
  <2>2. Opened - 1 \in Nat
    BY OpenedType
  <2>3. NUM_BUFFER \in Nat /\ t \in Unsent .. Opened - 1
    BY SizesAssumption
  <2>. QED BY ONLY <2>1, <2>2, <2>3
<1>2. NUM_BUFFER \in Nat \ {0} /\ t # Opened - 1
  BY SizesAssumption
<1>. QED BY ONLY <1>1, <1>2, RemainderInjective

(* A byte of the stream that is not sent is in one of those buffers.       *)
LEMMA UnsentByte ==
  ASSUME RingInv, Started \in Nat, Started > 0 \/ rx_dma_empty, NEW n \in Nat \ {0}, ~IsSent(n)
  PROVE  BufferOf(n) >= Unsent
<1>. DEFINE t == BufferOf(n)
            p == PlaceOf(n)
<1>1. t \in Nat /\ p \in 0 .. BUFFER_SIZE - 1
  BY BytePlace
<1>2. Started = 0 \/ ~(t < Started - 1 \/ (t = Started - 1 /\ p < pos))
  BY DEF IsSent
<1>3. rx_dma_empty => p < pos
  BY <1>1, SizesAssumption DEF rx_dma_empty
<1>. HIDE DEF t, p
<1>4. t >= Unsent
  BY <1>1, <1>2, <1>3 DEF Unsent
<1>. QED BY <1>4 DEF t

LEMMA StreamBefore ==
  ASSUME RingInv, WriterPlaced, NEW n \in 1 .. Len(stream)
  PROVE  /\ BufferOf(n) \in Nat /\ PlaceOf(n) \in 0 .. BUFFER_SIZE - 1
         /\ BufferOf(n) <= Opened - 1
         /\ BufferOf(n) = Opened - 1 => PlaceOf(n) < buffer_usage
<1>1. /\ chip_no \in Nat /\ bank_no \in 0 .. NUM_BANKS - 1
      /\ buffer_usage \in 0 .. BUFFER_SIZE /\ Len(stream) \in Nat
      /\ bank_no = 0 => buffer_usage >= HeaderSize
      /\ Len(stream) + HeaderSize
           = chip_no * ChipCap + bank_no * BUFFER_SIZE + buffer_usage
  BY OpenedType DEF WriterPlaced
<1>2. \/ BufferOf(n) < chip_no * NUM_BANKS + bank_no
      \/ BufferOf(n) = chip_no * NUM_BANKS + bank_no /\ PlaceOf(n) < buffer_usage
  BY <1>1, WrittenBefore
<1>3. BufferOf(n) \in Nat /\ PlaceOf(n) \in 0 .. BUFFER_SIZE - 1
  BY BytePlace
<1>. DEFINE w == chip_no * NUM_BANKS + bank_no
<1>4. Opened - 1 = w /\ w \in Nat
  <2>1. chip_no * NUM_BANKS \in Nat
    BY <1>1, NextProduct, SizesAssumption
  <2>. QED BY <1>1, <2>1 DEF Opened
<1>. HIDE DEF w
<1>. QED BY <1>2, <1>3, <1>4 DEF w

(***************************************************************************)
(* One lemma per action: the placement is kept.                            *)
(***************************************************************************)
(* The byte goes to the place the layout gives it, in the writer's buffer. *)
LEMMA PlaceStore ==
  ASSUME RingInv, RingInv', PacedInv, PlaceInv, multi_write_byte,
         StoreInBuffer(offered + 1)
  PROVE  PlaceInv'
<1>. DEFINE T == Opened - 1
            L == Len(stream)
<1>1. /\ phase = "write" /\ phase' = "write"
      /\ buffer_usage # BUFFER_SIZE /\ buffer_usage' = buffer_usage + 1
      /\ buffer' = [buffer EXCEPT ![buffer_index][buffer_usage] = offered + 1]
      /\ stream' = Append(stream, offered + 1)
      /\ UNCHANGED <<buffer_index, chip_no, bank_no, on_chip, num_ready>>
      /\ UNCHANGED <<dma_index, dma_chip_no, ptr, pos, sel, clocked, armed, mem>>
  BY DEF multi_write_byte, StoreInBuffer, Accept, dmaVars, chipVars
<1>2. /\ Started \in Nat /\ WriterPlaced /\ QueuePlaced /\ HeadersPlaced
      /\ TransferPlaced /\ BytesPlaced
  BY <1>1 DEF PlaceInv
<1>3. /\ Opened' = Opened /\ Started' = Started /\ rx_dma_empty' = rx_dma_empty
      /\ Unsent' = Unsent /\ T \in Nat
  BY <1>1, OpenedType DEF Opened, Started, rx_dma_empty, Unsent
<1>4. /\ buffer \in [Slot -> [0 .. BUFFER_SIZE - 1 -> Cell]]
      /\ buffer_index \in Slot /\ buffer_usage \in 0 .. BUFFER_SIZE - 1
      /\ buffer_index = T % NUM_BUFFER
      /\ stream \in Seq(1 .. MaxBytes) /\ L \in Nat
  <2>1. /\ buffer \in [Slot -> [0 .. BUFFER_SIZE - 1 -> Cell]]
        /\ stream \in Seq(1 .. MaxBytes)
    BY DEF RingInv, TypeOK, BufferType, UserType
  <2>2. buffer_index = T % NUM_BUFFER
    BY <1>1, <1>2 DEF WriterPlaced, InSession
  <2>3. buffer_usage \in 0 .. BUFFER_SIZE - 1 /\ buffer_index \in Slot /\ L \in Nat
    <3>1. buffer_usage \in 0 .. BUFFER_SIZE /\ buffer_index \in Slot /\ L \in Nat
      BY OpenedType
    <3>2. BUFFER_SIZE \in Nat /\ buffer_usage # BUFFER_SIZE
      BY <1>1, SizesAssumption
    <3>. QED BY ONLY <3>1, <3>2
  <2>. QED BY <2>1, <2>2, <2>3
<1>5. /\ Len(stream') = L + 1 /\ stream'[L + 1] = offered + 1
      /\ \A n \in 1 .. L : stream'[n] = stream[n]
  BY <1>1, <1>4
<1>6. WriterPlaced'
  <2>1. /\ chip_no * ChipCap \in Nat /\ bank_no * BUFFER_SIZE \in Nat
        /\ buffer_usage \in Nat /\ HeaderSize \in Nat
    BY OpenedType, WriterProducts, SizesAssumption DEF HeaderSize
  <2>2. /\ L + HeaderSize = chip_no * ChipCap + bank_no * BUFFER_SIZE + buffer_usage
        /\ bank_no = 0 => buffer_usage >= HeaderSize
        /\ bank_no = 0 /\ chip_no > 0 => buffer_usage > HeaderSize
    BY <1>2 DEF WriterPlaced
  <2>3. /\ Len(stream') + HeaderSize
              = chip_no * ChipCap + bank_no * BUFFER_SIZE + buffer_usage'
        /\ bank_no = 0 => buffer_usage' >= HeaderSize
        /\ bank_no = 0 /\ chip_no > 0 => buffer_usage' > HeaderSize
    <3>1. Len(stream') = L + 1 /\ buffer_usage' = buffer_usage + 1 /\ L \in Nat
      BY <1>1, <1>4, <1>5
    <3>. HIDE DEF L, T
    <3>. QED BY <2>1, <2>2, <3>1
  <2>4. buffer_index' = (Opened' - 1) % NUM_BUFFER
    BY <1>1, <1>3, <1>4
  <2>. QED BY <1>1, <2>3, <2>4 DEF WriterPlaced
<1>7. QueuePlaced' /\ TransferPlaced'
  <2>1. QueuePlaced'
    BY <1>1, <1>2, <1>3 DEF QueuePlaced, InSession
  <2>2. TransferPlaced'
    BY <1>1, <1>2, <1>3 DEF TransferPlaced, InSession
  <2>. QED BY <2>1, <2>2
(* No other slot and no other place of this one changes. *)
<1>8. ASSUME NEW t \in Unsent .. T, NEW i \in 0 .. BUFFER_SIZE - 1, t < T \/ i < buffer_usage
      PROVE  buffer'[t % NUM_BUFFER][i] = buffer[t % NUM_BUFFER][i]
  <2>1. t \in Nat /\ t % NUM_BUFFER \in Slot
    BY <1>1, RingRoom, DivisionOf, SizesAssumption DEF Slot
  <2>2. CASE t = T
    BY <1>1, <1>4, <1>8, <2>1, <2>2
  <2>3. CASE t # T
    <3>1. t % NUM_BUFFER # buffer_index
      BY <1>1, <1>4, <2>3, SlotsDiffer
    <3>. QED BY <1>1, <1>4, <2>1, <3>1
  <2>. QED BY <2>2, <2>3
<1>9. HeadersPlaced'
  <2> SUFFICES ASSUME NEW t \in Unsent .. T, t % NUM_BANKS = 0,
                      NEW i \in 0 .. HeaderSize - 1
               PROVE  buffer'[t % NUM_BUFFER][i] = Header(i)
    BY <1>3 DEF HeadersPlaced
  <2>1. buffer[t % NUM_BUFFER][i] = Header(i)
    BY <1>1, <1>2 DEF HeadersPlaced, InSession
  <2>2. t = T => bank_no = 0
    BY WriterProducts
  <2>3. t < T \/ i < buffer_usage
    BY <1>1, <1>2, <1>3, <1>4, <2>2, RingRoom, SizesAssumption DEF WriterPlaced, HeaderSize
  <2>4. i \in 0 .. BUFFER_SIZE - 1
    BY SizesAssumption DEF HeaderSize
  <2>. QED BY <1>8, <2>1, <2>3, <2>4
<1>10. BytesPlaced'
  <2>1. ASSUME NEW n \in Nat \ {0}
        PROVE  IsSent(n)' = IsSent(n) /\ InRam(n)' = InRam(n)
    BY <1>1, <1>3 DEF IsSent, BufferOf, PlaceOf, InRam, Raw
  <2>2. ASSUME NEW n \in Nat \ {0}
        PROVE  /\ InRing(n) = buffer[BufferOf(n) % NUM_BUFFER][PlaceOf(n)]
               /\ InRing(n)' = buffer'[BufferOf(n) % NUM_BUFFER][PlaceOf(n)]
    BY DEF InRing, BufferOf, PlaceOf, Raw
  <2>3. ASSUME NEW n \in 1 .. L
        PROVE  stream'[n] = IF IsSent(n)' THEN InRam(n)' ELSE InRing(n)'
    <3>1. stream[n] = IF IsSent(n) THEN InRam(n) ELSE InRing(n)
      BY <1>2 DEF BytesPlaced
    <3>2. CASE IsSent(n)
      BY <1>4, <1>5, <2>1, <2>3, <3>1, <3>2
    <3>3. CASE ~IsSent(n)
      <4>1. /\ BufferOf(n) \in Nat /\ PlaceOf(n) \in 0 .. BUFFER_SIZE - 1
            /\ BufferOf(n) <= T
            /\ BufferOf(n) = T => PlaceOf(n) < buffer_usage
        BY <1>2, StreamBefore
      <4>2. BufferOf(n) >= Unsent
        <5>1. Started > 0 \/ rx_dma_empty
          BY <1>1, <1>2 DEF TransferPlaced, InSession
        <5>. QED BY <1>2, <3>3, <5>1, UnsentByte
      <4>3. InRing(n)' = InRing(n)
        <5>1. Unsent \in Nat
          BY <1>1, RingRoom
        <5>2. /\ BufferOf(n) \in Unsent .. T
              /\ BufferOf(n) < T \/ PlaceOf(n) < buffer_usage
          <6>. HIDE DEF T
          <6>. QED BY <1>3, <4>1, <4>2, <5>1
        <5>3. buffer'[BufferOf(n) % NUM_BUFFER][PlaceOf(n)]
                = buffer[BufferOf(n) % NUM_BUFFER][PlaceOf(n)]
          <6>. DEFINE t == BufferOf(n)
                      i == PlaceOf(n)
          <6>1. t \in Unsent .. T /\ i \in 0 .. BUFFER_SIZE - 1 /\ (t < T \/ i < buffer_usage)
            BY <4>1, <5>2
          <6>. HIDE DEF T, t, i
          <6>2. buffer'[t % NUM_BUFFER][i] = buffer[t % NUM_BUFFER][i]
            BY <1>8, <6>1
          <6>. QED BY <6>2 DEF t, i
        <5>. QED BY <2>2, <5>3
      <4>. QED BY <1>4, <1>5, <2>1, <3>1, <3>3, <4>3
    <3>. QED BY <3>2, <3>3
  <2>4. ASSUME NEW n \in Nat \ {0}, n = L + 1
        PROVE  stream'[n] = IF IsSent(n)' THEN InRam(n)' ELSE InRing(n)'
    <3>1. BufferOf(n) = T /\ PlaceOf(n) = buffer_usage
      <4>1. /\ chip_no \in Nat /\ bank_no \in 0 .. NUM_BANKS - 1
            /\ bank_no = 0 => buffer_usage >= HeaderSize
            /\ L + HeaderSize
                 = chip_no * ChipCap + bank_no * BUFFER_SIZE + buffer_usage
        BY <1>2, OpenedType DEF WriterPlaced
      <4>2. BufferOf(L + 1) = chip_no * NUM_BANKS + bank_no /\ PlaceOf(L + 1) = buffer_usage
        <5>. HIDE DEF L, T
        <5>. QED BY <1>4, <4>1, NextPlace
      <4>. QED BY <2>4, <4>2, WriterProducts
    <3>2. ~IsSent(n)
      <4>1. Started <= T
        BY <1>1, RingRoom, OpenedType
      <4>. HIDE DEF T
      <4>. QED BY <1>2, <1>3, <3>1, <4>1 DEF IsSent
    <3>3. InRing(n)' = offered + 1
      <4>1. InRing(n)' = buffer'[buffer_index][buffer_usage]
        BY <1>4, <2>2, <3>1
      <4>. QED BY <1>1, <1>4, <4>1
    <3>. QED BY <1>5, <2>1, <2>4, <3>2, <3>3
  <2>5. \A n \in 1 .. Len(stream') : n \in 1 .. L \/ n = L + 1
    <3>. HIDE DEF L, T
    <3>. QED BY <1>4, <1>5
  <2>. QED BY <2>3, <2>4, <2>5 DEF BytesPlaced
<1>. QED BY <1>2, <1>3, <1>6, <1>7, <1>9, <1>10 DEF PlaceInv

(* The writer's next buffer is numbered one more, in the same chip or the  *)
(* next, and is the only one that waits beside the one it leaves.          *)
LEMMA NextNumbered ==
  ASSUME RingInv, RingInv', StoreInNextBuffer(offered + 1)
  PROVE  Opened' = Opened + 1
<1>. DEFINE newChip == bank_no + 1 = NUM_BANKS
<1>1. /\ bank_no' = (IF newChip THEN 0 ELSE bank_no + 1)
      /\ chip_no' = (IF newChip THEN chip_no + 1 ELSE chip_no)
  BY DEF StoreInNextBuffer
<1>2. /\ chip_no \in Nat /\ bank_no \in 0 .. NUM_BANKS - 1 /\ NUM_BANKS \in Nat
      /\ Opened = chip_no * NUM_BANKS + bank_no + 1
      /\ Opened' = chip_no' * NUM_BANKS + bank_no' + 1
  BY OpenedType, SizesAssumption DEF Opened
<1>3. (chip_no + 1) * NUM_BANKS = chip_no * NUM_BANKS + NUM_BANKS
      /\ chip_no * NUM_BANKS \in Nat
  BY <1>2, NextProduct
<1>4. CASE newChip
  <2>1. chip_no' = chip_no + 1 /\ bank_no' = 0 /\ bank_no + 1 = NUM_BANKS
    BY <1>1, <1>4
  <2>2. Opened' = (chip_no + 1) * NUM_BANKS + 0 + 1
    BY <1>2, <2>1
  <2>. HIDE DEF newChip
  <2>. QED BY <1>2, <1>3, <2>1, <2>2
<1>5. CASE ~newChip
  <2>1. chip_no' = chip_no /\ bank_no' = bank_no + 1
    BY <1>1, <1>5
  <2>. QED BY <1>2, <1>3, <2>1
<1>. QED BY <1>4, <1>5

LEMMA NextKeepsStarted ==
  ASSUME RingInv, RingInv', multi_write_byte, StoreInNextBuffer(offered + 1)
  PROVE  Started' = Started
<1>1. /\ phase = "write" /\ phase' = "write" /\ num_ready' = num_ready + 1
      /\ Opened' = Opened + 1 /\ Opened \in Nat /\ num_ready \in Nat
  BY NextNumbered, OpenedType DEF multi_write_byte, StoreInNextBuffer
<1>2. Started = Opened - 1 - num_ready /\ Started' = Opened' - 1 - num_ready'
  BY <1>1 DEF Started, Opened
<1>. QED BY <1>1, <1>2

(* The writer moves on: the buffer it leaves stays as it is, and the next  *)
(* opens with a header if it is the first of a chip.                       *)
LEMMA PlaceNext ==
  ASSUME Paced, RingInv, RingInv', PacedInv, PlaceInv, multi_write_byte,
         StoreInNextBuffer(offered + 1)
  PROVE  PlaceInv'
<1>. DEFINE T == Opened - 1
            L == Len(stream)
            next == NextSlot(buffer_index)
            newChip == bank_no + 1 = NUM_BANKS
            first == HeaderRoom(newChip)
<1>0. WriterFacts'
  <2>1. RingInv' => WriterFacts'
    BY WriterFactsHold, PTL
  <2>. QED BY <2>1
<1>1. /\ phase = "write" /\ phase' = "write" /\ buffer_usage = BUFFER_SIZE
      /\ rx_dma_empty /\ num_ready = 0
  <2>1. phase = "write" /\ phase' = "write" /\ buffer_usage = BUFFER_SIZE
    BY DEF multi_write_byte, StoreInNextBuffer
  <2>. QED BY <2>1, FullBufferQuiet
<1>2. /\ Started \in Nat /\ WriterPlaced /\ QueuePlaced /\ HeadersPlaced
      /\ TransferPlaced /\ BytesPlaced
  BY <1>1 DEF PlaceInv
<1>3. /\ buffer_index' = next /\ num_ready' = 1 /\ buffer_usage' = first + 1
      /\ bank_no' = (IF newChip THEN 0 ELSE bank_no + 1)
      /\ chip_no' = (IF newChip THEN chip_no + 1 ELSE chip_no)
      /\ on_chip' = [on_chip EXCEPT ![next] = chip_no']
      /\ buffer' = [buffer EXCEPT ![next] =
           [i \in DOMAIN @ |-> IF i < first THEN Header(i)
                               ELSE IF i = first THEN offered + 1 ELSE @[i]]]
      /\ stream' = Append(stream, offered + 1)
      /\ UNCHANGED <<dma_index, dma_chip_no, ptr, pos, sel, clocked, armed, mem>>
  BY <1>1 DEF multi_write_byte, StoreInNextBuffer, Accept, dmaVars, chipVars
<1>4. first = (IF newChip THEN HeaderSize ELSE 0) /\ first \in 0 .. BUFFER_SIZE - 1
  BY SizesAssumption DEF HeaderRoom, HeaderSize
<1>5. /\ T \in Nat /\ T = chip_no * NUM_BANKS + bank_no
      /\ chip_no \in Nat /\ bank_no \in 0 .. NUM_BANKS - 1
      /\ chip_no' \in Nat /\ bank_no' \in 0 .. NUM_BANKS - 1
  BY <1>0, OpenedType, WriterProducts DEF WriterFacts
<1>. HIDE DEF first
<1>6. Opened' - 1 = T + 1 /\ Opened' = T + 2
  BY <1>5, NextNumbered, OpenedType
<1>7. /\ Started = T /\ Started' = T /\ rx_dma_empty'
      /\ Unsent = T /\ Unsent' = T
  <2>1. Started = T
    BY <1>1, <1>5, RingRoom
  <2>2. Started' = T
    BY <2>1, NextKeepsStarted
  <2>3. rx_dma_empty'
    BY <1>1, <1>3 DEF rx_dma_empty
  <2>. QED BY <1>1, <2>1, <2>2, <2>3 DEF Unsent
<1>8. /\ buffer \in [Slot -> [0 .. BUFFER_SIZE - 1 -> Cell]]
      /\ on_chip \in [Slot -> Nat]
      /\ stream \in Seq(1 .. MaxBytes) /\ L \in Nat
  <2>1. stream \in Seq(1 .. MaxBytes)
    BY DEF RingInv, TypeOK, UserType
  <2>2. L \in Nat
    BY ONLY <2>1
  <2>. HIDE DEF L
  <2>. QED BY <2>1, <2>2 DEF RingInv, TypeOK, BufferType
<1>9. /\ buffer_index = T % NUM_BUFFER /\ next = (T + 1) % NUM_BUFFER
      /\ next \in Slot /\ T % NUM_BUFFER \in Slot /\ next # T % NUM_BUFFER
  <2>1. buffer_index = T % NUM_BUFFER
    BY <1>1, <1>2 DEF WriterPlaced, InSession
  <2>2. buffer_index \in Slot /\ next \in Slot
    BY OpenedType, NextSlotType
  <2>3. IF T % NUM_BUFFER = NUM_BUFFER - 1 THEN (T + 1) % NUM_BUFFER = 0
        ELSE (T + 1) % NUM_BUFFER = (T % NUM_BUFFER) + 1
    <3>1. T \in Nat
      BY <1>5
    <3>2. NUM_BUFFER \in Nat \ {0}
      BY SizesAssumption
    <3>. HIDE DEF T
    <3>. QED BY <3>1, <3>2, NextRemainder
  <2>4. next = (T + 1) % NUM_BUFFER
    BY <2>1, <2>3 DEF NextSlot
  <2>5. next # buffer_index
    BY <2>2, SizesAssumption DEF NextSlot, Slot
  <2>. QED BY <2>1, <2>2, <2>4, <2>5
<1>. HIDE DEF next
<1>10. /\ buffer'[T % NUM_BUFFER] = buffer[T % NUM_BUFFER]
       /\ on_chip'[T % NUM_BUFFER] = on_chip[T % NUM_BUFFER]
       /\ on_chip'[next] = chip_no'
       /\ \A i \in 0 .. first - 1 : buffer'[next][i] = Header(i)
       /\ buffer'[next][first] = offered + 1
  <2>. HIDE DEF T
  <2>1. /\ buffer'[T % NUM_BUFFER] = buffer[T % NUM_BUFFER]
        /\ on_chip'[T % NUM_BUFFER] = on_chip[T % NUM_BUFFER]
    BY <1>3, <1>8, <1>9
  <2>2. on_chip'[next] = chip_no'
    BY <1>3, <1>8, <1>9
  <2>3. buffer'[next] = [i \in 0 .. BUFFER_SIZE - 1 |->
           IF i < first THEN Header(i)
           ELSE IF i = first THEN offered + 1 ELSE buffer[next][i]]
    BY <1>3, <1>8, <1>9
  <2>4. /\ \A i \in 0 .. first - 1 : buffer'[next][i] = Header(i)
        /\ buffer'[next][first] = offered + 1
    BY <1>4, <2>3, SizesAssumption
  <2>. QED BY <2>1, <2>2, <2>4
<1>11. /\ Len(stream') = L + 1 /\ stream'[L + 1] = offered + 1
       /\ \A n \in 1 .. L : stream'[n] = stream[n]
  BY <1>3, <1>8
<1>12. L + HeaderSize = chip_no' * ChipCap + bank_no' * BUFFER_SIZE + first
  <2>1. L + HeaderSize = chip_no * ChipCap + bank_no * BUFFER_SIZE + BUFFER_SIZE
    BY <1>1, <1>2 DEF WriterPlaced
  <2>2. (bank_no + 1) * BUFFER_SIZE = bank_no * BUFFER_SIZE + BUFFER_SIZE
        /\ bank_no * BUFFER_SIZE \in Nat
    BY <1>5, NextProduct, SizesAssumption
  <2>3. (chip_no + 1) * ChipCap = chip_no * ChipCap + ChipCap
        /\ chip_no * ChipCap \in Nat
    BY <1>5, NextProduct, ChipSizes
  <2>4. CASE newChip
    <3>1. chip_no' = chip_no + 1 /\ bank_no' = 0 /\ first = HeaderSize
      BY <1>3, <1>4, <2>4
    <3>2. (bank_no + 1) * BUFFER_SIZE = ChipSize
      BY <2>4 DEF ChipSize
    <3>. DEFINE x == chip_no * ChipCap
                y == bank_no * BUFFER_SIZE
    <3>3. /\ L + HeaderSize = x + y + BUFFER_SIZE /\ ChipSize = y + BUFFER_SIZE
          /\ (chip_no + 1) * ChipCap = x + ChipCap /\ x \in Nat /\ y \in Nat
      BY <2>1, <2>2, <2>3, <3>2
    <3>4. L + HeaderSize = (chip_no + 1) * ChipCap + HeaderSize
      <4>1. L \in Nat /\ BUFFER_SIZE \in Nat /\ ChipCap = ChipSize - HeaderSize
            /\ ChipSize \in Nat /\ HeaderSize = 3
        BY <1>8, ChipSizes, SizesAssumption
      <4>. HIDE DEF L, x, y
      <4>. QED BY <3>3, <4>1
    <3>5. 0 * BUFFER_SIZE = 0 /\ x + ChipCap \in Nat
      BY <3>3, ChipSizes, SizesAssumption
    <3>6. chip_no' * ChipCap + bank_no' * BUFFER_SIZE + first
            = (chip_no + 1) * ChipCap + HeaderSize
      <4>. HIDE DEF x, y
      <4>. QED BY <3>1, <3>3, <3>5
    <3>. QED BY <3>4, <3>6
  <2>5. CASE ~newChip
    <3>1. chip_no' = chip_no /\ bank_no' = bank_no + 1 /\ first = 0
      BY <1>3, <1>4, <2>5
    <3>. QED BY <2>1, <2>2, <2>3, <3>1, SizesAssumption
  <2>. QED BY <2>4, <2>5
<1>13. bank_no' = 0 => first = HeaderSize
  BY <1>3, <1>4, <1>5
<1>14. WriterPlaced'
  <2>1. Len(stream') + HeaderSize
          = chip_no' * ChipCap + bank_no' * BUFFER_SIZE + buffer_usage'
    <3>1. chip_no' * ChipCap \in Nat /\ bank_no' * BUFFER_SIZE \in Nat
      BY <1>0 DEF WriterFacts
    <3>2. Len(stream') = L + 1 /\ buffer_usage' = first + 1 /\ first \in Nat /\ HeaderSize \in Nat
      BY <1>3, <1>4, <1>11, ChipSizes
    <3>. DEFINE x == chip_no' * ChipCap
                y == bank_no' * BUFFER_SIZE
    <3>3. L + HeaderSize = x + y + first /\ x \in Nat /\ y \in Nat /\ L \in Nat
      BY <1>8, <1>12, <3>1
    <3>4. Len(stream') + HeaderSize = x + y + buffer_usage'
      <4>. HIDE DEF L, x, y
      <4>. QED BY <3>2, <3>3
    <3>. QED BY <3>4
  <2>2. bank_no' = 0 => buffer_usage' > HeaderSize /\ buffer_usage' >= HeaderSize
    BY <1>3, <1>13 DEF HeaderSize
  <2>3. buffer_index' = (Opened' - 1) % NUM_BUFFER
    BY <1>3, <1>6, <1>9
  <2>. QED BY <2>1, <2>2, <2>3 DEF WriterPlaced
<1>15. QueuePlaced'
  <2>1. dma_index' = Started' % NUM_BUFFER
    BY <1>1, <1>2, <1>3, <1>7 DEF QueuePlaced, InSession
  <2>2. on_chip[T % NUM_BUFFER] = T \div NUM_BANKS
    BY <1>1, <1>2, <1>5, <1>7 DEF QueuePlaced, InSession
  <2>3. chip_no' = (T + 1) \div NUM_BANKS
    BY <1>0, <1>6 DEF WriterFacts
  <2>4. ASSUME NEW t \in T .. T + 1
        PROVE  on_chip'[t % NUM_BUFFER] = t \div NUM_BANKS
    <3>1. t = T \/ t = T + 1
      BY <1>5
    <3>. QED BY <1>9, <1>10, <2>2, <2>3, <3>1
  <2>. QED BY <1>6, <1>7, <2>1, <2>4 DEF QueuePlaced
<1>16. HeadersPlaced'
  <2>1. ASSUME NEW t \in T .. T + 1, t % NUM_BANKS = 0,
               NEW i \in 0 .. HeaderSize - 1
        PROVE  buffer'[t % NUM_BUFFER][i] = Header(i)
    <3>1. t = T \/ t = T + 1
      BY <1>5
    <3>2. CASE t = T
      BY <1>1, <1>2, <1>5, <1>7, <1>10, <2>1, <3>2 DEF HeadersPlaced, InSession
    <3>3. CASE t = T + 1
      <4>1. bank_no' = 0
        BY <1>0, <1>6, <2>1, <3>3 DEF WriterFacts
      <4>. QED BY <1>9, <1>10, <1>13, <3>3, <4>1
    <3>. QED BY <3>1, <3>2, <3>3
  <2>. QED BY <1>6, <1>7, <2>1 DEF HeadersPlaced
<1>17. TransferPlaced'
  BY <1>1, <1>2, <1>3, <1>7 DEF TransferPlaced, InSession
<1>18. BytesPlaced'
  <2>1. ASSUME NEW n \in Nat \ {0}
        PROVE  /\ IsSent(n)' = IsSent(n) /\ InRam(n)' = InRam(n)
               /\ InRing(n) = buffer[BufferOf(n) % NUM_BUFFER][PlaceOf(n)]
               /\ InRing(n)' = buffer'[BufferOf(n) % NUM_BUFFER][PlaceOf(n)]
    BY <1>3, <1>7 DEF IsSent, BufferOf, PlaceOf, InRam, InRing, Raw
  <2>2. ASSUME NEW n \in 1 .. L
        PROVE  stream'[n] = IF IsSent(n)' THEN InRam(n)' ELSE InRing(n)'
    <3>1. stream[n] = IF IsSent(n) THEN InRam(n) ELSE InRing(n)
      BY <1>2 DEF BytesPlaced
    <3>2. n \in Nat \ {0} /\ stream'[n] = stream[n]
      BY <1>8, <1>11
    <3>3. ~IsSent(n) => InRing(n)' = InRing(n)
      <4> SUFFICES ASSUME ~IsSent(n) PROVE InRing(n)' = InRing(n)
        OBVIOUS
      <4>1. BufferOf(n) \in Nat /\ BufferOf(n) <= T
        BY <1>2, StreamBefore
      <4>2. BufferOf(n) >= T
        BY <1>1, <1>2, <1>7, <3>2, UnsentByte
      <4>3. BufferOf(n) = T
        <5>. HIDE DEF T
        <5>. QED BY <1>5, <4>1, <4>2
      <4>. QED BY <1>10, <2>1, <3>2, <4>3
    <3>. QED BY <2>1, <3>1, <3>2, <3>3
  <2>3. ASSUME NEW n \in Nat \ {0}, n = L + 1
        PROVE  stream'[n] = IF IsSent(n)' THEN InRam(n)' ELSE InRing(n)'
    <3>1. BufferOf(n) = T + 1 /\ PlaceOf(n) = first
      <4>1. bank_no' = 0 => first >= HeaderSize
        BY <1>13, ChipSizes
      <4>2. BufferOf(L + 1) = chip_no' * NUM_BANKS + bank_no' /\ PlaceOf(L + 1) = first
        <5>. HIDE DEF L, T
        <5>. QED BY <1>4, <1>5, <1>8, <1>12, <4>1, NextPlace
      <4>. QED BY <1>0, <1>6, <2>3, <4>2 DEF WriterFacts
    <3>2. ~IsSent(n)
      <4>. HIDE DEF T
      <4>. QED BY <1>5, <1>7, <3>1 DEF IsSent
    <3>3. InRing(n)' = offered + 1
      BY <1>9, <1>10, <2>1, <3>1
    <3>. QED BY <1>11, <2>1, <2>3, <3>2, <3>3
  <2>4. \A n \in 1 .. Len(stream') : n \in 1 .. L \/ (n = L + 1 /\ n \in Nat \ {0})
    <3>. HIDE DEF L
    <3>. QED BY <1>8, <1>11
  <2>. QED BY <2>2, <2>3, <2>4 DEF BytesPlaced
<1>. QED BY <1>5, <1>7, <1>14, <1>15, <1>16, <1>17, <1>18 DEF PlaceInv

(* What the placement is about.                                            *)
placeVars ==
  <<phase, chip_no, bank_no, buffer_usage, buffer_index, buffer, on_chip,
    num_ready, stream, dma_index, dma_chip_no, ptr, pos, sel, clocked, armed, mem>>

LEMMA PlaceFrame ==
  ASSUME PlaceInv, UNCHANGED placeVars
  PROVE  PlaceInv'
<1>. USE DEF placeVars
<1>1. Started' = Started /\ Opened' = Opened /\ Unsent' = Unsent
      /\ rx_dma_empty' = rx_dma_empty /\ InSession' = InSession
  BY DEF Started, Opened, Unsent, rx_dma_empty, InSession
<1>2. WriterPlaced' = WriterPlaced
  BY <1>1 DEF WriterPlaced
<1>3. QueuePlaced' = QueuePlaced
  BY <1>1 DEF QueuePlaced
<1>4. HeadersPlaced' = HeadersPlaced
  BY <1>1 DEF HeadersPlaced
<1>5. TransferPlaced' = TransferPlaced
  BY <1>1 DEF TransferPlaced
<1>6. BytesPlaced' = BytesPlaced
  BY <1>1 DEF BytesPlaced, IsSent, BufferOf, PlaceOf, InRam, InRing, Raw
<1>. QED BY <1>1, <1>2, <1>3, <1>4, <1>5, <1>6 DEF PlaceInv

LEMMA PlaceDrop ==
  ASSUME PlaceInv, multi_write_byte, DropByte
  PROVE  PlaceInv'
BY PlaceFrame DEF multi_write_byte, DropByte, placeVars, dmaVars, chipVars

(* The last buffer is counted as ready when the phase in which the         *)
(* writer's own is not counted ends: the buffers started stay the same.    *)
LEMMA EndKeepsStarted ==
  ASSUME RingInv, multi_write_end
  PROVE  Started' = Started /\ Opened' = Opened
<1>1. num_ready' = num_ready + 1
  BY OpenedType DEF multi_write_end, LastBuffer, RingInv, WriterHasData
<1>2. Opened' = Opened
  BY DEF multi_write_end, Opened
<1>3. Started = Opened - 1 - num_ready /\ Started' = Opened - (num_ready + 1)
  BY <1>1, <1>2 DEF multi_write_end, Started, Opened
<1>. QED BY <1>2, <1>3, OpenedType

LEMMA PlaceEnd ==
  ASSUME RingInv, PlaceInv, multi_write_end
  PROVE  PlaceInv'
<1>1. /\ phase = "write" /\ phase' = "flush"
      /\ UNCHANGED <<chip_no, bank_no, buffer_usage, buffer_index, buffer,
                     on_chip, stream>>
      /\ UNCHANGED <<dma_index, dma_chip_no, ptr, pos, sel, clocked, armed, mem>>
  BY DEF multi_write_end, dmaVars, chipVars, userVars
<1>2. Started' = Started /\ Opened' = Opened /\ rx_dma_empty' = rx_dma_empty
      /\ Unsent' = Unsent
  BY <1>1, EndKeepsStarted DEF rx_dma_empty, Unsent
<1>3. /\ Started \in Nat /\ WriterPlaced /\ QueuePlaced /\ HeadersPlaced
      /\ TransferPlaced /\ BytesPlaced
  BY <1>1 DEF PlaceInv
<1>4. WriterPlaced'
  BY <1>1, <1>2, <1>3 DEF WriterPlaced, InSession
<1>5. QueuePlaced'
  BY <1>1, <1>2, <1>3 DEF QueuePlaced, InSession
<1>6. HeadersPlaced'
  BY <1>1, <1>2, <1>3 DEF HeadersPlaced, InSession
<1>7. TransferPlaced'
  BY <1>1, <1>2, <1>3 DEF TransferPlaced, InSession
<1>8. BytesPlaced'
  BY <1>1, <1>2, <1>3 DEF BytesPlaced, IsSent, BufferOf, PlaceOf, InRam, InRing, Raw
<1>. QED BY <1>2, <1>3, <1>4, <1>5, <1>6, <1>7, <1>8 DEF PlaceInv

LEMMA PlaceFlushDone ==
  ASSUME PlaceInv, FlushDone
  PROVE  PlaceInv'
<1>1. /\ phase = "flush" /\ phase' = "done"
      /\ UNCHANGED <<chip_no, bank_no, buffer_usage, buffer_index, buffer,
                     on_chip, num_ready, stream, pos, mem>>
  BY DEF FlushDone, ringVars, chipVars, userVars
<1>2. Started' = Started /\ Opened' = Opened
  BY <1>1 DEF Started, Opened
<1>3. Started \in Nat /\ WriterPlaced /\ BytesPlaced
  BY <1>1 DEF PlaceInv
<1>4. WriterPlaced' /\ QueuePlaced' /\ HeadersPlaced' /\ TransferPlaced'
  BY <1>1, <1>3
     DEF WriterPlaced, QueuePlaced, HeadersPlaced, TransferPlaced, InSession
<1>5. BytesPlaced'
  BY <1>1, <1>2, <1>3 DEF BytesPlaced, IsSent, BufferOf, PlaceOf, InRam, InRing, Raw
<1>. QED BY <1>2, <1>3, <1>4, <1>5 DEF PlaceInv

(* Handing a buffer to the DMA counts it as started.                       *)
LEMMA StartCounts ==
  ASSUME RingInv, PlaceInv, InSession, phase' = phase, Handle, StartDma
  PROVE  /\ Opened' = Opened /\ Opened \in Nat /\ Opened - 1 \in Nat
         /\ Started \in Nat /\ Started <= Opened - 1 /\ Started' = Started + 1
<1>1. Opened' = Opened
  BY DEF Handle, Opened
<1>2. Started = (IF phase = "write" THEN Opened - 1 - num_ready ELSE Opened - num_ready)
  BY DEF Started, Opened
<1>3. Started' = (IF phase = "write" THEN Opened - 1 - num_ready' ELSE Opened - num_ready')
  BY <1>1 DEF Started, Opened
<1>4. Opened \in Nat /\ Opened - 1 \in Nat /\ num_ready \in Nat
  BY OpenedType
<1>5. num_ready > 0 /\ num_ready' = num_ready - 1
  BY DEF Handle, StartDma
<1>6. Started <= Opened - 1 /\ Started' = Started + 1
  BY <1>2, <1>3, <1>4, <1>5
<1>. QED BY <1>1, <1>4, <1>6 DEF PlaceInv, InSession

(* No byte is sent by that.                                                *)
LEMMA StartSendsNothing ==
  ASSUME RingInv, PlaceInv, InSession, phase' = phase, Handle, rx_dma_empty, StartDma,
         NEW n \in Nat \ {0}
  PROVE  IsSent(n)' <=> IsSent(n)
<1>1. BufferOf(n)' = BufferOf(n) /\ PlaceOf(n)' = PlaceOf(n)
  BY DEF BufferOf, PlaceOf, Raw
<1>2. BufferOf(n) \in Nat /\ PlaceOf(n) \in 0 .. BUFFER_SIZE - 1
  BY BytePlace
<1>3. /\ Started \in Nat /\ Started' = Started + 1
      /\ pos = BUFFER_SIZE /\ pos' = 0
  BY StartCounts DEF StartDma, rx_dma_empty
<1>4. IsSent(n)' <=> BufferOf(n) < Started
  BY <1>1, <1>2, <1>3 DEF IsSent
<1>5. IsSent(n) <=> BufferOf(n) < Started
  BY <1>2, <1>3, SizesAssumption DEF IsSent
<1>. QED BY <1>4, <1>5

(* A transfer starts where the last one ended: in the next buffer, and in  *)
(* the next chip when the buffers of one chip have all been sent.          *)
LEMMA PlaceStart ==
  ASSUME RingInv, PlaceInv, InSession, InSession', phase' = phase,
         Handle, rx_dma_empty, StartDma
  PROVE  PlaceInv'
<1>. DEFINE S == Started
<1>1. /\ num_ready > 0 /\ num_ready' = num_ready - 1 /\ pos = BUFFER_SIZE /\ pos' = 0
      /\ ptr' = dma_index /\ dma_index' = NextSlot(dma_index)
      /\ UNCHANGED <<buffer, buffer_index, buffer_usage, chip_no, bank_no,
                     on_chip, stream, mem>>
  BY DEF Handle, StartDma, SlotToSend, rx_dma_empty, chipVars
<1>2. /\ S \in Nat /\ WriterPlaced /\ QueuePlaced /\ HeadersPlaced
      /\ TransferPlaced /\ BytesPlaced
  BY DEF PlaceInv, InSession
<1>3. /\ Opened' = Opened /\ Opened \in Nat /\ Opened - 1 \in Nat
      /\ S <= Opened - 1 /\ Started' = S + 1
  BY StartCounts
<1>4. Unsent = S /\ Unsent' = S
  BY <1>1, <1>2, <1>3, SizesAssumption DEF Unsent, rx_dma_empty, HeaderSize
<1>5. dma_index = S % NUM_BUFFER /\ on_chip[dma_index] = S \div NUM_BANKS
  BY <1>2, <1>3 DEF QueuePlaced
<1>6. dma_index' = Started' % NUM_BUFFER
  <2>1. IF S % NUM_BUFFER = NUM_BUFFER - 1 THEN (S + 1) % NUM_BUFFER = 0
        ELSE (S + 1) % NUM_BUFFER = (S % NUM_BUFFER) + 1
    <3>1. S \in Nat /\ NUM_BUFFER \in Nat \ {0}
      BY <1>2, SizesAssumption
    <3>. HIDE DEF S
    <3>. QED BY <3>1, NextRemainder
  <2>. QED BY <1>1, <1>3, <1>5, <2>1 DEF NextSlot
<1>7. WriterPlaced'
  BY <1>1, <1>2, <1>3 DEF WriterPlaced
<1>8. QueuePlaced'
  BY <1>1, <1>2, <1>3, <1>6 DEF QueuePlaced
<1>9. HeadersPlaced'
  BY <1>1, <1>2, <1>3, <1>4 DEF HeadersPlaced
<1>10. /\ dma_chip_no' = S \div NUM_BANKS
       /\ sel' = dma_chip_no' % NUM_CHIPS
       /\ clocked' = (S % NUM_BANKS) * BUFFER_SIZE
       /\ clocked' > 0 => armed'
  <2>0. 0 * BUFFER_SIZE = 0 /\ 0 % NUM_CHIPS = 0 /\ 0 % NUM_BANKS = 0
        /\ 0 \div NUM_BANKS = 0 /\ BUFFER_SIZE \in Nat
    BY ZeroDivision, SizesAssumption
  <2>1. S > 0 =>
          IF (S - 1) % NUM_BANKS = NUM_BANKS - 1
          THEN S % NUM_BANKS = 0 /\ S \div NUM_BANKS = (S - 1) \div NUM_BANKS + 1
          ELSE S % NUM_BANKS = ((S - 1) % NUM_BANKS) + 1
               /\ S \div NUM_BANKS = (S - 1) \div NUM_BANKS
    <3> SUFFICES ASSUME S > 0
                 PROVE  IF (S - 1) % NUM_BANKS = NUM_BANKS - 1
                        THEN S % NUM_BANKS = 0 /\ S \div NUM_BANKS = (S - 1) \div NUM_BANKS + 1
                        ELSE S % NUM_BANKS = ((S - 1) % NUM_BANKS) + 1
                             /\ S \div NUM_BANKS = (S - 1) \div NUM_BANKS
      OBVIOUS
    <3>. DEFINE x == S - 1
    <3>1. x \in Nat /\ S = x + 1 /\ NUM_BANKS \in Nat \ {0}
      BY <1>2, SizesAssumption
    <3>. HIDE DEF S, x
    <3>2. IF x % NUM_BANKS = NUM_BANKS - 1
          THEN S % NUM_BANKS = 0 /\ S \div NUM_BANKS = x \div NUM_BANKS + 1
          ELSE S % NUM_BANKS = (x % NUM_BANKS) + 1 /\ S \div NUM_BANKS = x \div NUM_BANKS
      BY <3>1, NextRemainder
    <3>. QED BY <3>2 DEF x
  <2>2. S > 0 =>
          /\ dma_chip_no = (S - 1) \div NUM_BANKS /\ sel = dma_chip_no % NUM_CHIPS
          /\ clocked = ((S - 1) % NUM_BANKS) * BUFFER_SIZE + BUFFER_SIZE
          /\ clocked > 0 => armed
          /\ (S - 1) \div NUM_BANKS \in Nat /\ (S - 1) % NUM_BANKS \in Nat
    <3> SUFFICES ASSUME S > 0
                 PROVE  /\ dma_chip_no = (S - 1) \div NUM_BANKS /\ sel = dma_chip_no % NUM_CHIPS
                        /\ clocked = ((S - 1) % NUM_BANKS) * BUFFER_SIZE + BUFFER_SIZE
                        /\ clocked > 0 => armed
                        /\ (S - 1) \div NUM_BANKS \in Nat /\ (S - 1) % NUM_BANKS \in Nat
      OBVIOUS
    <3>1. S - 1 \in Nat /\ NUM_BANKS \in Nat \ {0}
      BY <1>2, SizesAssumption
    <3>2. (S - 1) \div NUM_BANKS \in Nat /\ (S - 1) % NUM_BANKS \in Nat
      BY <3>1, DivisionOf
    <3>. QED BY <1>1, <1>2, <3>2 DEF TransferPlaced
  <2>3. S = 0 => dma_chip_no = 0 /\ sel = 0 /\ clocked = 0
    BY <1>2 DEF TransferPlaced
  <2>4. CASE SwitchChip
    <3>1. /\ dma_chip_no' = S \div NUM_BANKS /\ sel' = dma_chip_no' % NUM_CHIPS
          /\ clocked' = 0 /\ dma_chip_no # S \div NUM_BANKS
      BY <1>5, <2>4 DEF StartDma, SwitchChip
    <3>2. S % NUM_BANKS = 0
      BY <1>2, <2>0, <2>1, <2>2, <2>3, <3>1
    <3>. QED BY <2>0, <3>1, <3>2
  <2>5. CASE ~SwitchChip
    <3>1. /\ UNCHANGED <<dma_chip_no, sel, clocked, armed>>
          /\ dma_chip_no = S \div NUM_BANKS
      BY <1>5, <2>5 DEF StartDma, SwitchChip
    <3>2. CASE S = 0
      BY <2>0, <2>3, <3>1, <3>2
    <3>3. CASE S > 0
      <4>1. S % NUM_BANKS = ((S - 1) % NUM_BANKS) + 1
        BY <2>1, <2>2, <3>1, <3>3
      <4>2. clocked = (S % NUM_BANKS) * BUFFER_SIZE
        <5>. DEFINE k == (S - 1) % NUM_BANKS
        <5>1. (k + 1) * BUFFER_SIZE = k * BUFFER_SIZE + BUFFER_SIZE
          BY <2>0, <2>2, <3>3, NextProduct
        <5>. QED BY <2>2, <3>3, <4>1, <5>1
      <4>. QED BY <2>2, <3>1, <3>3, <4>2
    <3>. QED BY <1>2, <3>2, <3>3
  <2>. QED BY <2>4, <2>5
<1>11. TransferPlaced'
  <2>1. Started' = S + 1 /\ S + 1 > 0 /\ (S + 1) - 1 = S /\ S + 1 # 0
    BY <1>2, <1>3
  <2>2. (S % NUM_BANKS) * BUFFER_SIZE + 0 = (S % NUM_BANKS) * BUFFER_SIZE
    <3>1. S % NUM_BANKS \in Nat
      BY <1>2, DivisionOf, SizesAssumption
    <3>. QED BY <3>1, NextProduct, SizesAssumption
  <2>. HIDE DEF S
  <2>. QED BY <1>1, <1>5, <1>10, <2>1, <2>2 DEF TransferPlaced
<1>12. BytesPlaced'
  <2>1. ASSUME NEW n \in 1 .. Len(stream)
        PROVE  /\ IsSent(n)' <=> IsSent(n)
               /\ InRam(n)' = InRam(n) /\ InRing(n)' = InRing(n)
    <3>1. InRam(n)' = InRam(n) /\ InRing(n)' = InRing(n)
      BY <1>1 DEF InRam, InRing, Raw
    <3>2. n \in Nat \ {0}
      BY OpenedType
    <3>. QED BY <3>1, <3>2, StartSendsNothing
  <2>. QED BY <1>1, <1>2, <2>1 DEF BytesPlaced
<1>. QED BY <1>2, <1>3, <1>7, <1>8, <1>9, <1>11, <1>12 DEF PlaceInv

LEMMA PlaceHandle ==
  ASSUME RingInv, PlaceInv, InSession, InSession', phase' = phase, Handle
  PROVE  PlaceInv'
<1>1. CASE rx_dma_empty /\ StartDma
  BY <1>1, PlaceStart
<1>2. CASE rx_dma_empty /\ Idle
  <2>1. UNCHANGED placeVars
    BY <1>2 DEF Handle, Idle, placeVars, chipVars
  <2>. QED BY <2>1, PlaceFrame
<1>3. CASE ~rx_dma_empty
  <2>1. UNCHANGED placeVars
    BY <1>3 DEF Handle, DmaServiceable, placeVars, chipVars, dmaVars
  <2>. QED BY <2>1, PlaceFrame
<1>. QED BY <1>1, <1>2, <1>3 DEF Handle, DmaServiceable

(* If the stream fits, the writer's chip exists, and so does that of each  *)
(* byte; and if there is a byte, the chips opened are in sequential mode.  *)
LEMMA ChipsInRange ==
  ASSUME RingInv, WriterPlaced, StreamFits
  PROVE  /\ chip_no < NUM_CHIPS
         /\ \A n \in 1 .. Len(stream) : BufferOf(n) \div NUM_BANKS < NUM_CHIPS
         /\ Len(stream) > 0 => \A c \in 0 .. chip_no : mode[c] = "seq"
<1>. DEFINE x == chip_no * ChipCap
            y == bank_no * BUFFER_SIZE
            L == Len(stream)
<1>1. /\ chip_no \in Nat /\ bank_no \in 0 .. NUM_BANKS - 1
      /\ buffer_usage \in Nat /\ L \in Nat /\ x \in Nat /\ y \in Nat
      /\ ChipCap \in Nat \ {0} /\ HeaderSize = 3
      /\ BUFFER_SIZE \in Nat /\ BUFFER_SIZE > 3
      /\ NUM_CHIPS \in Nat \ {0}
  <2>1. BUFFER_SIZE > 3
    BY SizesAssumption DEF HeaderSize
  <2>. QED BY <2>1, OpenedType, WriterProducts, ChipSizes, SizesAssumption
<1>2. /\ L + HeaderSize = x + y + buffer_usage
      /\ bank_no = 0 /\ chip_no > 0 => buffer_usage > HeaderSize
  BY DEF WriterPlaced
<1>3. bank_no > 0 => y > 3
  <2>1. bank_no > 0 => 1 * BUFFER_SIZE <= bank_no * BUFFER_SIZE
    BY <1>1, ProductMonotone
  <2>. QED BY <1>1, <2>1
<1>4. chip_no > 0 => x < L
  <2>. HIDE DEF x, y, L
  <2>. QED BY <1>1, <1>2, <1>3
(* Each chip opened has a byte of the stream: its first. *)
<1>5. ASSUME NEW c \in 0 .. chip_no, L > 0
      PROVE  c < NUM_CHIPS /\ mode[c] = "seq"
  <2>. DEFINE w == c * ChipCap
  <2>1. c \in Nat /\ w \in Nat /\ w <= x
    <3>1. c \in Nat /\ c <= chip_no
      BY <1>1
    <3>2. c * ChipCap <= chip_no * ChipCap /\ c * ChipCap \in Nat
      BY <1>1, <3>1, ProductMonotone, NextProduct
    <3>. QED BY <3>1, <3>2
  <2>2. c = 0 => w = 0
    BY <1>1
  <2>3. w + 1 \in 1 .. L /\ (w + 1) - 1 = w
    <3>1. c > 0 => chip_no > 0
      BY <1>1
    <3>. HIDE DEF w, x, L
    <3>. QED BY <1>1, <1>4, <1>5, <2>1, <2>2, <3>1
  <2>4. ChipOf(w + 1) = c
    <3>1. w \in Nat /\ w = c * ChipCap + 0 /\ 0 \in 0 .. ChipCap - 1
      BY <1>1, <2>1
    <3>2. w \div ChipCap = c
      <4>. HIDE DEF w
      <4>. QED BY <1>1, <2>1, <3>1, DivisionUnique
    <3>3. (w + 1) - 1 = w
      BY <2>3
    <3>. HIDE DEF w
    <3>. QED BY <3>2, <3>3 DEF ChipOf
  <2>. HIDE DEF w
  <2>. QED BY <2>3, <2>4 DEF StreamFits
<1>6. chip_no < NUM_CHIPS
  <2>1. CASE chip_no = 0
    BY <1>1, <2>1
  <2>2. CASE chip_no > 0
    <3>1. L > 0 /\ chip_no \in 0 .. chip_no
      <4>. HIDE DEF x, L
      <4>. QED BY <1>1, <1>4, <2>2
    <3>. QED BY <1>5, <3>1
  <2>. QED BY <1>1, <2>1, <2>2
<1>7. ASSUME NEW n \in 1 .. L PROVE BufferOf(n) \div NUM_BANKS < NUM_CHIPS
  <2>1. n \in Nat \ {0}
    BY <1>1
  <2>2. (n - 1) \div ChipCap = BufferOf(n) \div NUM_BANKS
    BY <2>1, BytePlace
  <2>. QED BY <2>2 DEF StreamFits, ChipOf
<1>. QED BY <1>5, <1>6, <1>7

(* The DMA sends the byte at its place in its buffer, and no other.        *)
LEMMA ShiftSends ==
  ASSUME RingInv, PlaceInv, DmaShift
  PROVE  /\ InSession /\ InSession' /\ phase' = phase /\ stream' = stream
         /\ Started' = Started /\ Started > 0 /\ Started - 1 \in Nat
         /\ \A n \in Nat \ {0} :
              IsSent(n)' <=> IsSent(n) \/ (BufferOf(n) = Started - 1 /\ PlaceOf(n) = pos)
<1>1. pos # BUFFER_SIZE /\ pos' = pos + 1 /\ phase' = phase /\ stream' = stream
  BY DEF DmaShift, rx_dma_empty, userVars
<1>2. InSession /\ InSession'
  BY <1>1 DEF RingInv, QuietOutside, TypeOK, UserType, InSession, rx_dma_empty
<1>3. Started' = Started
  BY DEF DmaShift, ringVars, Started
<1>4. Started \in Nat /\ Started > 0 /\ pos \in Nat
  BY <1>1, <1>2, OpenedType DEF PlaceInv, TransferPlaced, InSession, rx_dma_empty, RingInv, TypeOK, DmaType
<1>5. ASSUME NEW n \in Nat \ {0}
      PROVE  IsSent(n)' <=> IsSent(n) \/ (BufferOf(n) = Started - 1 /\ PlaceOf(n) = pos)
  <2>1. BufferOf(n)' = BufferOf(n) /\ PlaceOf(n)' = PlaceOf(n)
    BY DEF BufferOf, PlaceOf, Raw
  <2>2. BufferOf(n) \in Nat /\ PlaceOf(n) \in Nat
    BY BytePlace, SizesAssumption
  <2>3. PlaceOf(n) < pos + 1 <=> PlaceOf(n) < pos \/ PlaceOf(n) = pos
    BY <1>4, <2>2
  <2>. QED BY <1>1, <1>3, <1>4, <2>1, <2>2, <2>3 DEF IsSent
<1>. QED BY <1>1, <1>2, <1>3, <1>4, <1>5

(* The byte on its way is the one the layout has at this place.            *)
LEMMA PlaceShift ==
  ASSUME RingInv, RingInv', PlaceInv, StreamFits, DmaShift
  PROVE  PlaceInv'
<1>. DEFINE S == Started
            s == Started - 1
            byte == buffer[ptr][pos]
            offset == (s % NUM_BANKS) * BUFFER_SIZE + pos
<1>1. /\ pos # BUFFER_SIZE /\ pos' = pos + 1 /\ clocked' = clocked + 1
      /\ UNCHANGED <<phase, buffer, buffer_index, buffer_usage, chip_no, bank_no,
                     on_chip, num_ready, dma_index, dma_chip_no, ptr, sel, mode,
                     stream>>
      /\ InSession
  <2>1. pos # BUFFER_SIZE
    BY DEF DmaShift, rx_dma_empty
  <2>2. InSession
    BY <2>1 DEF RingInv, QuietOutside, TypeOK, UserType, InSession
  <2>. QED BY <2>1, <2>2 DEF DmaShift, ringVars, userVars, ChipTakes
<1>2. /\ S \in Nat /\ WriterPlaced /\ QueuePlaced /\ HeadersPlaced
      /\ TransferPlaced /\ BytesPlaced
  BY <1>1 DEF PlaceInv, InSession
<1>3. Opened' = Opened /\ Started' = S
  BY <1>1 DEF Opened, Started
<1>4. /\ S > 0 /\ s \in Nat /\ Unsent = s /\ s <= Opened - 1
      /\ Opened - 1 \in Nat
  <2>1. S > 0 /\ Unsent = s
    BY <1>1, <1>2 DEF TransferPlaced, rx_dma_empty, Unsent
  <2>2. Started = (IF phase = "write" THEN Opened - 1 - num_ready ELSE Opened - num_ready)
    BY DEF Started, Opened
  <2>3. Opened \in Nat /\ Opened - 1 \in Nat /\ num_ready \in Nat
    BY OpenedType
  <2>. QED BY <1>2, <2>1, <2>2, <2>3
<1>5. /\ ptr = s % NUM_BUFFER /\ dma_chip_no = s \div NUM_BANKS
      /\ sel = (s \div NUM_BANKS) % NUM_CHIPS
      /\ clocked = offset
      /\ clocked > 0 => armed
  BY <1>1, <1>2, <1>4 DEF TransferPlaced
<1>6. /\ clocked \in Nat /\ pos \in 0 .. BUFFER_SIZE - 1 /\ sel \in Chip
      /\ s % NUM_BANKS \in 0 .. NUM_BANKS - 1 /\ s % NUM_BUFFER \in Slot
      /\ s \div NUM_BANKS \in Nat
      /\ armed \in BOOLEAN
  <2>1. clocked \in Nat /\ pos \in 0 .. BUFFER_SIZE - 1 /\ sel \in Chip
        /\ armed \in BOOLEAN
    BY <1>1, SizesAssumption DEF RingInv, TypeOK, DmaType
  <2>2. s \in Nat /\ NUM_BANKS \in Nat \ {0} /\ NUM_BUFFER \in Nat \ {0}
    BY <1>4, SizesAssumption
  <2>3. s % NUM_BANKS \in 0 .. NUM_BANKS - 1 /\ s % NUM_BUFFER \in 0 .. NUM_BUFFER - 1
        /\ s \div NUM_BANKS \in Nat
    <3>. HIDE DEF s
    <3>. QED BY <2>2, DivisionOf
  <2>. QED BY <2>1, <2>3 DEF Slot
<1>. HIDE DEF s
<1>7. clocked < ChipSize
  <2>1. pos \in 0 .. BUFFER_SIZE /\ pos < BUFFER_SIZE
    BY <1>6, SizesAssumption
  <2>2. offset \in 0 .. ChipSize - 1
    BY <1>6, <2>1, BankOffset
  <2>. QED BY <1>5, <2>2, ChipSizes
(* Until it has three bytes the chip receives the command. *)
<1>8. ASSUME clocked < HeaderSize PROVE s % NUM_BANKS = 0 /\ clocked = pos /\ byte = Header(clocked)
  <2>1. s % NUM_BANKS = 0
    <3>1. s % NUM_BANKS > 0 => 1 * BUFFER_SIZE <= (s % NUM_BANKS) * BUFFER_SIZE
      BY <1>6, ProductMonotone, SizesAssumption
    <3>2. (s % NUM_BANKS) * BUFFER_SIZE \in Nat
      BY <1>6, NextProduct, SizesAssumption
    <3>. DEFINE y == (s % NUM_BANKS) * BUFFER_SIZE
    <3>3. s % NUM_BANKS > 0 => BUFFER_SIZE <= y
      BY <3>1, SizesAssumption
    <3>4. y + pos < 3 /\ y \in Nat /\ BUFFER_SIZE > 3 /\ BUFFER_SIZE \in Nat
      BY <1>5, <1>8, <3>2, SizesAssumption DEF HeaderSize
    <3>. HIDE DEF y
    <3>. QED BY <1>6, <3>3, <3>4
  <2>2. clocked = pos
    BY <1>5, <1>6, <2>1, SizesAssumption
  <2>3. pos \in 0 .. HeaderSize - 1
    BY <1>6, <1>8, <2>2, ChipSizes
  <2>4. s \in Unsent .. Opened - 1
    BY <1>4
  <2>5. buffer[s % NUM_BUFFER][pos] = Header(pos)
    BY <1>1, <1>2, <2>1, <2>3, <2>4 DEF HeadersPlaced
  <2>. QED BY <1>5, <2>1, <2>2, <2>5
<1>9. armed'
  <2>1. CASE clocked < HeaderSize
    <3>1. clocked = 0 \/ armed
      BY <1>5, <1>6
    <3>. QED BY <1>8, <2>1, <3>1 DEF DmaShift, ChipTakes
  <2>2. CASE ~(clocked < HeaderSize)
    <3>1. clocked > 0
      BY <1>6, <2>2, ChipSizes
    <3>. QED BY <1>5, <2>2, <3>1 DEF DmaShift, ChipTakes
  <2>. QED BY <2>1, <2>2
<1>15. s \div NUM_BANKS <= chip_no /\ sel = s \div NUM_BANKS
  <2>1. (Opened - 1) \div NUM_BANKS = chip_no /\ chip_no \in Nat /\ chip_no < NUM_CHIPS
    BY <1>2, ChipsInRange, WriterProducts, OpenedType
  <2>2. s \div NUM_BANKS <= (Opened - 1) \div NUM_BANKS
    <3>. DEFINE w == Opened - 1
                cs == s \div NUM_BANKS
                cw == w \div NUM_BANKS
                ks == s % NUM_BANKS
                kw == w % NUM_BANKS
    <3>1. /\ s = cs * NUM_BANKS + ks /\ ks \in 0 .. NUM_BANKS - 1 /\ cs \in Nat
          /\ w = cw * NUM_BANKS + kw /\ kw \in 0 .. NUM_BANKS - 1 /\ cw \in Nat
          /\ s <= w
      <4>1. s \in Nat /\ w \in Nat /\ s <= w /\ NUM_BANKS \in Nat \ {0}
        BY <1>4, SizesAssumption
      <4>. HIDE DEF w
      <4>. QED BY <4>1, DivisionOf
    <3>. HIDE DEF w, cs, cw, ks, kw
    <3>2. ~(cw * NUM_BANKS + kw < cs * NUM_BANKS + ks)
      <4>1. s \in Nat /\ w \in Nat
        BY <1>4 DEF w
      <4>2. ~(w < s)
        BY <3>1, <4>1
      <4>. QED BY <3>1, <4>2
    <3>3. kw \in Nat /\ kw < NUM_BANKS /\ ks \in 0 .. NUM_BANKS /\ NUM_BANKS \in Nat
      BY <3>1, SizesAssumption
    <3>4. ~(cw < cs)
      BY <3>1, <3>2, <3>3, RowOrder
    <3>5. cs <= cw
      BY <3>1, <3>4
    <3>. QED BY <3>5 DEF w, cs, cw
  <2>3. s \div NUM_BANKS <= chip_no
    BY <2>1, <2>2
  <2>4. (s \div NUM_BANKS) % NUM_CHIPS = s \div NUM_BANKS
    <3>1. s \div NUM_BANKS \in 0 .. NUM_CHIPS - 1 /\ NUM_CHIPS \in Nat \ {0}
      <4>. DEFINE cs == s \div NUM_BANKS
      <4>1. cs \in Nat /\ cs <= chip_no
        BY <1>6, <2>3
      <4>. HIDE DEF cs
      <4>2. cs \in 0 .. NUM_CHIPS - 1
        BY <2>1, <4>1, SizesAssumption
      <4>. QED BY <4>2, SizesAssumption DEF cs
    <3>. QED BY <3>1, SmallRemainder
  <2>. QED BY <1>5, <2>3, <2>4
<1>10. ASSUME Len(stream) > 0
       PROVE  mem' = IF clocked >= HeaderSize
                     THEN [mem EXCEPT ![sel][clocked - HeaderSize] = byte]
                     ELSE mem
  <2>1. mode[sel] = "seq"
    <3>1. sel \in 0 .. chip_no
      <4>1. sel \in Nat /\ chip_no \in Nat /\ sel <= chip_no
        BY <1>6, <1>15, OpenedType
      <4>. QED BY <4>1
    <3>. QED BY <1>2, <1>10, <3>1, ChipsInRange
  <2>2. clocked >= HeaderSize =>
          /\ armed
          /\ (clocked - HeaderSize) % ChipSize = clocked - HeaderSize
    <3> SUFFICES ASSUME clocked >= HeaderSize
                 PROVE  armed /\ (clocked - HeaderSize) % ChipSize = clocked - HeaderSize
      OBVIOUS
    <3>1. armed
      BY <1>5, <1>6, ChipSizes
    <3>. DEFINE a == clocked - HeaderSize
    <3>2. a \in 0 .. ChipSize - 1 /\ ChipSize \in Nat \ {0}
      BY <1>6, <1>7, ChipSizes
    <3>3. a % ChipSize = a
      <4>. HIDE DEF a
      <4>. QED BY <3>2, SmallRemainder
    <3>. QED BY <3>1, <3>3
  <2>3. ChipTakes(byte)
    BY DEF DmaShift
  <2>. HIDE DEF byte
  <2>4. CASE clocked >= HeaderSize
    BY <2>1, <2>2, <2>3, <2>4 DEF ChipTakes
  <2>5. CASE ~(clocked >= HeaderSize)
    BY <2>3, <2>5 DEF ChipTakes
  <2>. QED BY <2>4, <2>5
<1>11. WriterPlaced' /\ QueuePlaced'
  BY <1>1, <1>2, <1>3 DEF WriterPlaced, QueuePlaced, InSession
<1>12. HeadersPlaced'
  <2>0. S = s + 1 /\ S - 1 = s
    BY <1>2 DEF s
  <2>1. Unsent' \in {s, s + 1}
    BY <1>3, <2>0 DEF Unsent
  <2>2. \A t \in Unsent' .. Opened - 1 : t \in Unsent .. Opened - 1
    BY <1>4, <2>1
  <2>. QED BY <1>1, <1>2, <1>3, <2>2 DEF HeadersPlaced
<1>13. TransferPlaced'
  <2>1. clocked' = (s % NUM_BANKS) * BUFFER_SIZE + pos'
    <3>1. (s % NUM_BANKS) * BUFFER_SIZE \in Nat
      BY <1>6, NextProduct, SizesAssumption
    <3>. DEFINE y == (s % NUM_BANKS) * BUFFER_SIZE
    <3>2. clocked = y + pos /\ y \in Nat /\ pos \in Nat
      BY <1>5, <1>6, <3>1
    <3>3. clocked' = y + pos'
      <4>. HIDE DEF y
      <4>. QED BY <1>1, <3>2
    <3>. QED BY <3>3
  <2>. QED BY <1>1, <1>3, <1>4, <1>5, <1>9, <2>1 DEF TransferPlaced, s
<1>14. BytesPlaced'
  <2> SUFFICES ASSUME NEW n \in 1 .. Len(stream)
               PROVE  stream[n] = IF IsSent(n)' THEN InRam(n)' ELSE InRing(n)'
    BY <1>1 DEF BytesPlaced
  <2>. DEFINE t == BufferOf(n)
              p == PlaceOf(n)
              c == t \div NUM_BANKS
              b == (t % NUM_BANKS) * BUFFER_SIZE + p
  <2>1. stream[n] = IF IsSent(n) THEN InRam(n) ELSE InRing(n)
    BY <1>2 DEF BytesPlaced
  <2>2. /\ t \in Nat /\ p \in 0 .. BUFFER_SIZE - 1
        /\ (n - 1) \div ChipCap = c /\ (n - 1) % ChipCap = b - HeaderSize
        /\ b >= HeaderSize /\ c \in Nat
        /\ (n - 1) % ChipCap \in 0 .. ChipCap - 1
    <3>1. n \in Nat \ {0}
      BY OpenedType
    <3>2. n - 1 \in Nat /\ ChipCap \in Nat \ {0}
      BY <3>1, ChipSizes
    <3>3. (n - 1) % ChipCap \in 0 .. ChipCap - 1
      BY <3>2, DivisionOf
    <3>4. t \in Nat /\ p \in 0 .. BUFFER_SIZE - 1 /\ c \in Nat
      BY <3>1, BytePlace
    <3>5. (n - 1) \div ChipCap = c
      BY <3>1, BytePlace
    <3>6. (n - 1) % ChipCap = b - HeaderSize
      BY <3>1, BytePlace
    <3>7. b >= HeaderSize
      BY <3>1, BytePlace
    <3>. HIDE DEF t, p, c, b
    <3>. QED BY <3>3, <3>4, <3>5, <3>6, <3>7
  <2>0. Len(stream) > 0
    BY OpenedType
  <2>3. c < NUM_CHIPS
    BY <1>2, ChipsInRange
  <2>4. c % NUM_CHIPS = c
    <3>. HIDE DEF c
    <3>1. c \in 0 .. NUM_CHIPS - 1 /\ NUM_CHIPS \in Nat \ {0}
      BY <2>2, <2>3, SizesAssumption
    <3>. QED BY <3>1, SmallRemainder
  <2>5. /\ InRam(n) = mem[c][b - HeaderSize]
        /\ InRam(n)' = mem'[c][b - HeaderSize]
        /\ InRing(n) = buffer[t % NUM_BUFFER][p]
        /\ InRing(n)' = buffer[t % NUM_BUFFER][p]
    <3>. HIDE DEF c, b
    <3>1. InRam(n) = mem[c][b - HeaderSize] /\ InRam(n)' = mem'[c][b - HeaderSize]
      BY <2>2, <2>4 DEF InRam
    <3>2. InRing(n) = buffer[t % NUM_BUFFER][p] /\ InRing(n)' = buffer[t % NUM_BUFFER][p]
      BY <1>1 DEF InRing, BufferOf, PlaceOf, Raw
    <3>. QED BY <3>1, <3>2
  <2>6. IsSent(n)' <=> IsSent(n) \/ (t = s /\ p = pos)
    <3>1. n \in Nat \ {0}
      BY OpenedType
    <3>. QED BY <3>1, ShiftSends DEF s
  <2>8. mem \in [Chip -> [0 .. ChipSize - 1 -> Cell]]
    BY DEF RingInv, TypeOK, ChipType
  <2>9. CASE t = s /\ p = pos
    <3>1. clocked = b /\ sel = c /\ ptr = t % NUM_BUFFER
      BY <1>5, <1>15, <2>9
    <3>2. clocked >= HeaderSize
      BY <2>2, <3>1
    <3>3. mem' = [mem EXCEPT ![c][b - HeaderSize] = byte]
      BY <1>10, <2>0, <3>1, <3>2
    <3>4. c \in Chip /\ b - HeaderSize \in 0 .. ChipSize - 1
      <4>. DEFINE r == (n - 1) % ChipCap  i == b - HeaderSize
      <4>1. r = i /\ r \in 0 .. ChipCap - 1 /\ c \in Nat /\ c < NUM_CHIPS
        BY <2>2, <2>3
      <4>2. ChipCap = ChipSize - 3 /\ ChipSize \in Nat /\ NUM_CHIPS \in Nat
        BY ChipSizes, SizesAssumption
      <4>. HIDE DEF r, i, c
      <4>3. c \in Chip /\ i \in 0 .. ChipSize - 1
        BY ONLY <4>1, <4>2 DEF Chip
      <4>. QED BY <4>3 DEF i
    <3>5. mem'[c][b - HeaderSize] = byte
      <4>. HIDE DEF byte, c, b
      <4>. QED BY ONLY <2>8, <3>3, <3>4
    <3>6. ~IsSent(n)
      BY <1>4, <1>6, <2>2, <2>9 DEF IsSent, s
    <3>7. byte = buffer[t % NUM_BUFFER][p]
      BY <2>9, <3>1
    <3>. HIDE DEF byte, c, b, t, p
    <3>. QED BY <2>1, <2>5, <2>6, <2>9, <3>5, <3>6, <3>7
  <2>10. CASE ~(t = s /\ p = pos)
    <3>1. mem'[c][b - HeaderSize] = mem[c][b - HeaderSize]
      <4>1. CASE clocked >= HeaderSize
        <5>1. ~(sel = c /\ clocked - HeaderSize = b - HeaderSize)
          <6>1. clocked = b /\ sel = c => t = s /\ p = pos
            <7>1. s \div NUM_BANKS = t \div NUM_BANKS
                  /\ (s % NUM_BANKS) * BUFFER_SIZE + pos = (t % NUM_BANKS) * BUFFER_SIZE + p
                  => s = t /\ pos = p
              <8>. HIDE DEF t, p
              <8>. QED BY <1>4, <1>6, <2>2, ChipPlaceUnique
            <7>. QED BY <1>5, <1>15, <7>1
          <6>2. clocked - HeaderSize = b - HeaderSize => clocked = b
            <7>1. b \in Nat /\ HeaderSize \in Nat
              <8>1. t % NUM_BANKS \in Nat
                <9>1. t \in Nat /\ NUM_BANKS \in Nat \ {0}
                  BY <2>2, SizesAssumption
                <9>. HIDE DEF t
                <9>. QED BY <9>1, DivisionOf
              <8>2. (t % NUM_BANKS) * BUFFER_SIZE \in Nat
                BY <8>1, NextProduct, SizesAssumption
              <8>3. p \in Nat
                BY <2>2
              <8>. QED BY <8>2, <8>3, ChipSizes
            <7>. HIDE DEF b
            <7>. QED BY <1>6, <7>1
          <6>. QED BY <2>10, <6>1, <6>2
        <5>2. mem' = [mem EXCEPT ![sel][clocked - HeaderSize] = byte]
          BY <1>10, <2>0, <4>1
        <5>3. c \in Chip /\ b - HeaderSize \in 0 .. ChipSize - 1
          <6>1. c \in 0 .. NUM_CHIPS - 1
            BY <2>2, <2>3, SizesAssumption
          <6>2. b - HeaderSize \in 0 .. ChipCap - 1
            BY <2>2
          <6>. HIDE DEF b, c
          <6>. QED BY <6>1, <6>2, ChipSizes DEF Chip
        <5>4. clocked - HeaderSize \in 0 .. ChipSize - 1
          BY <1>6, <1>7, <4>1, ChipSizes
        <5>. DEFINE a == clocked - HeaderSize
                    d == b - HeaderSize
        <5>. HIDE DEF a, d, byte, c
        <5>. QED BY <1>6, <2>8, <5>1, <5>2, <5>3, <5>4 DEF a, d
      <4>2. CASE ~(clocked >= HeaderSize)
        BY <1>10, <2>0, <4>2
      <4>. QED BY <4>1, <4>2
    <3>. HIDE DEF c, b, t, p
    <3>. QED BY <2>1, <2>5, <2>6, <2>10, <3>1
  <2>. QED BY <2>9, <2>10
<1>. QED BY <1>2, <1>3, <1>11, <1>12, <1>13, <1>14 DEF PlaceInv

(***************************************************************************)
(* The invariant of the placement, and its theorem.  A stream that fits    *)
(* has fitted since its session began: a session sets the modes before its *)
(* first byte, and the stream only grows.                                  *)
(***************************************************************************)
PlacementInv == RingInv /\ PacedInv /\ PlaceInv

PlacedIfFits == RingInv /\ PacedInv /\ (StreamFits => PlaceInv)

LEMMA FittedBefore ==
  ASSUME TypeOK, [Next]_vars, ~multi_write_begin, StreamFits'
  PROVE  StreamFits
<1>1. mode' = mode
  BY DEF Next, vars, chipVars, multi_write_byte, multi_write_handle, Handle, multi_write_end,
         FlushHandle, FlushDone, DmaShift, Finished
<1>2. stream' = stream \/ \E data : stream' = Append(stream, data)
  <2>1. CASE multi_write_byte
    BY <2>1 DEF multi_write_byte, StoreInBuffer, StoreInNextBuffer, DropByte, Accept
  <2>2. CASE ~multi_write_byte
    BY <2>2
       DEF Next, vars, userVars, multi_write_handle, Handle, multi_write_end, FlushHandle,
           FlushDone, DmaShift, Finished
  <2>. QED BY <2>1, <2>2
<1>3. stream \in Seq(1 .. MaxBytes)
  BY DEF TypeOK, UserType
<1>4. 1 .. Len(stream) \subseteq 1 .. Len(stream')
  <2>1. CASE stream' = stream
    BY <2>1
  <2>2. ASSUME NEW data, stream' = Append(stream, data) PROVE Len(stream') = Len(stream) + 1
    BY <1>3, <2>2
  <2>3. Len(stream) \in Nat
    BY <1>3
  <2>. QED BY <1>2, <2>1, <2>2, <2>3
<1>5. \A n : ChipOf(n)' = ChipOf(n)
  BY DEF ChipOf
<1>. QED BY <1>1, <1>4, <1>5 DEF StreamFits

LEMMA PlacementInit ==
  ASSUME Init
  PROVE  PlacedIfFits
<1>1. PacedInv /\ PlaceInv
  BY DEF Init, PacedInv, PlaceInv
<1>. QED BY <1>1, InitRing DEF PlacedIfFits

LEMMA PlaceBeginOrKept ==
  ASSUME Paced, PlacementInv, RingInv', StreamFits, [Next]_vars
  PROVE  PlaceInv'
<1>. USE DEF PlacementInv
<1>1. CASE multi_write_begin
  BY <1>1, PlaceBegin
<1>2. CASE multi_write_byte
  <2>1. CASE StoreInBuffer(offered + 1)
    BY <1>2, <2>1, PlaceStore
  <2>2. CASE StoreInNextBuffer(offered + 1)
    BY <1>2, <2>2, PlaceNext
  <2>3. CASE DropByte
    BY <1>2, <2>3, PlaceDrop
  <2>. QED BY <1>2, <2>1, <2>2, <2>3 DEF multi_write_byte
<1>3. CASE multi_write_handle
  <2>1. InSession /\ InSession' /\ phase' = phase /\ Handle
    BY <1>3 DEF multi_write_handle, InSession
  <2>. QED BY <2>1, PlaceHandle
<1>4. CASE multi_write_end
  BY <1>4, PlaceEnd
<1>5. CASE FlushHandle
  <2>1. InSession /\ InSession' /\ phase' = phase /\ Handle
    BY <1>5 DEF FlushHandle, InSession
  <2>. QED BY <2>1, PlaceHandle
<1>6. CASE FlushDone
  BY <1>6, PlaceFlushDone
<1>7. CASE DmaShift
  BY <1>7, PlaceShift
<1>8. CASE UNCHANGED vars
  BY <1>8, PlaceFrame DEF vars, ringVars, dmaVars, chipVars, userVars, placeVars
<1>. QED
  BY <1>1, <1>2, <1>3, <1>4, <1>5, <1>6, <1>7, <1>8 DEF Next, Finished

LEMMA PlacementStep ==
  ASSUME Paced, PlacedIfFits, [Next]_vars
  PROVE  PlacedIfFits'
<1>1. RingInv' /\ PacedInv'
  BY NextRing, PacedNext DEF PlacedIfFits
<1>2. ASSUME StreamFits' PROVE PlaceInv'
  <2>1. CASE multi_write_begin
    BY <2>1, PlaceBegin DEF PlacedIfFits
  <2>2. CASE ~multi_write_begin
    <3>1. StreamFits
      BY <1>2, <2>2, FittedBefore DEF PlacedIfFits, RingInv
    <3>. QED BY <1>1, <3>1, PlaceBeginOrKept DEF PlacedIfFits, PlacementInv
  <2>. QED BY <2>1, <2>2
<1>. QED BY <1>1, <1>2 DEF PlacedIfFits

LEMMA SentIsRaw ==
  ASSUME RingInv, Started \in Nat, NEW n \in Nat \ {0}
  PROVE  Raw(n) < RawSent <=> IsSent(n)
<1>1. BufferOf(n) \in Nat /\ PlaceOf(n) \in 0 .. BUFFER_SIZE - 1 /\ Raw(n) \in Nat
  BY BytePlace, RawByChip
<1>2. CASE Started = 0
  BY <1>1, <1>2 DEF RawSent, IsSent
<1>3. CASE Started > 0
  <2>1. Started - 1 \in Nat /\ pos \in 0 .. BUFFER_SIZE
    BY <1>3, OpenedType
  <2>2. RawSent = (Started - 1) * BUFFER_SIZE + pos
    BY <1>3 DEF RawSent
  <2>. QED BY <1>3, <2>1, <2>2, SentOrder DEF IsSent
<1>. QED BY <1>2, <1>3

LEMMA PlacementImplies ==
  ASSUME PlacedIfFits
  PROVE  StreamPlaced
<1> SUFFICES ASSUME StreamFits PROVE WriterOutsideTransfer /\ ChipInStep /\ EveryBytePlaced
  BY DEF StreamPlaced
<1>0. PlacementInv
  BY DEF PlacedIfFits, PlacementInv
<1>1. WriterOutsideTransfer
  BY <1>0, PacedApart DEF PlacementInv
<1>2. ChipInStep
  BY <1>0 DEF PlacementInv, ChipInStep, PlaceInv, TransferPlaced, InSession
<1>3. EveryBytePlaced
  <2> SUFFICES ASSUME phase # "idle", NEW n \in 1 .. Len(stream)
               PROVE  stream[n] = IF Raw(n) < RawSent THEN InRam(n) ELSE InRing(n)
    BY DEF EveryBytePlaced
  <2>1. Started \in Nat /\ BytesPlaced
    BY <1>0 DEF PlacementInv, PlaceInv
  <2>2. Raw(n) < RawSent <=> IsSent(n)
    BY <1>0, <2>1, OpenedType, SentIsRaw DEF PlacementInv
  <2>. QED BY <2>1, <2>2 DEF BytesPlaced
<1>. QED BY <1>1, <1>2, <1>3

(* With a cell stream in the timing bound, and any number and size of      *)
(* buffers, banks and chips: while the stream is one that fits the chips   *)
(* found in sequential mode, each byte accepted is where the layout puts   *)
(* it from the time of its acceptance on: in the ring until its turn, in   *)
(* its chip after.                                                         *)
THEOREM PlacementCorrect == Paced => (Spec => []StreamPlaced)
<1> SUFFICES ASSUME Paced PROVE Spec => []StreamPlaced
  OBVIOUS
<1>1. Init => PlacedIfFits
  BY PlacementInit
<1>2. PlacedIfFits /\ [Next]_vars => PlacedIfFits'
  BY PlacementStep
<1>3. PlacedIfFits => StreamPlaced
  BY PlacementImplies
<1>. QED BY <1>1, <1>2, <1>3, PTL DEF Spec

(***************************************************************************)
(* The refinement.                                                         *)
(***************************************************************************)
(* What is stored is the part of the stream that has been sent.            *)
StoredIsPrefix == phase # "idle" =>
  /\ Len(stream) \in Nat /\ stream \in Seq(1 .. MaxBytes)
  /\ StoredLength \in 0 .. Len(stream)
  /\ \A n \in 1 .. Len(stream) : n <= StoredLength <=> IsSent(n)
  /\ StoredBytes = [n \in 1 .. StoredLength |-> stream[n]]

(* Bytes of the stream among the first r bytes clocked out.                *)
DataBefore(r) ==
  LET inLast == r % ChipSize
  IN  (r \div ChipSize) * ChipCap
      + (IF inLast < HeaderSize THEN 0 ELSE inLast - HeaderSize)

LEMMA DataBeforeCounts ==
  ASSUME NEW r \in Nat
  PROVE  /\ DataBefore(r) \in Nat
         /\ \A n \in Nat \ {0} : n <= DataBefore(r) <=> Raw(n) < r
<1>. DEFINE q == r \div ChipSize
            i == r % ChipSize
            e == IF i < HeaderSize THEN 0 ELSE i - HeaderSize
<1>1. r = q * ChipSize + i /\ q \in Nat /\ i \in 0 .. ChipSize - 1
  BY ChipSizes, DivisionOf
<1>2. e \in 0 .. ChipCap /\ DataBefore(r) = q * ChipCap + e
  BY <1>1, ChipSizes DEF DataBefore
<1>3. DataBefore(r) \in Nat
  BY <1>1, <1>2, ChipProduct
<1>. HIDE DEF q, i
<1>4. ASSUME NEW n \in Nat \ {0} PROVE n <= DataBefore(r) <=> Raw(n) < r
  <2>. DEFINE c == (n - 1) \div ChipCap
              a == (n - 1) % ChipCap
              b == a + HeaderSize
  <2>1. /\ c \in Nat /\ a \in 0 .. ChipCap - 1 /\ n - 1 = c * ChipCap + a
        /\ Raw(n) = c * ChipSize + b
    BY RawByChip
  <2>. HIDE DEF c, a
  <2>2. a \in Nat /\ a < ChipCap /\ b \in Nat /\ b < ChipSize
    BY <2>1, ChipSizes
  <2>3. Raw(n) < r <=> c < q \/ (c = q /\ b < i)
    <3>1. i \in 0 .. ChipSize /\ ChipSize \in Nat
      BY <1>1, ChipSizes
    <3>. HIDE DEF b
    <3>. QED BY <1>1, <2>1, <2>2, <3>1, RowOrder
  <2>4. c * ChipCap + a < q * ChipCap + e <=> c < q \/ (c = q /\ a < e)
    <3>. HIDE DEF e
    <3>. QED BY <1>1, <1>2, <2>1, <2>2, ChipSizes, RowOrder
  <2>5. b < i <=> a < e
    BY <1>1, <2>2, ChipSizes
  <2>6. n <= DataBefore(r) <=> n - 1 < DataBefore(r)
    BY <1>3
  <2>. QED BY <1>2, <2>1, <2>3, <2>4, <2>5, <2>6
<1>. QED BY <1>3, <1>4

LEMMA RawSentType ==
  ASSUME RingInv, Started \in Nat
  PROVE  RawSent \in Nat
<1>1. pos \in Nat /\ BUFFER_SIZE \in Nat
  BY OpenedType, SizesAssumption
<1>2. Started > 0 => Started - 1 \in Nat
  OBVIOUS
<1>3. Started > 0 => (Started - 1) * BUFFER_SIZE \in Nat
  BY <1>1, <1>2, NextProduct
<1>. QED BY <1>1, <1>3 DEF RawSent

LEMMA StoredPrefix == PlacementInv => StoredIsPrefix
<1> SUFFICES ASSUME PlacementInv, phase # "idle" PROVE StoredIsPrefix
  BY DEF StoredIsPrefix
<1>. DEFINE d == DataBefore(RawSent)
            L == Len(stream)
<1>1. RingInv /\ Started \in Nat /\ BytesPlaced
  BY DEF PlacementInv, PlaceInv
<1>2. d \in Nat /\ \A n \in Nat \ {0} : n <= d <=> Raw(n) < RawSent
  BY <1>1, RawSentType, DataBeforeCounts
<1>3. L \in Nat /\ stream \in Seq(1 .. MaxBytes)
  BY <1>1, OpenedType DEF RingInv, TypeOK, UserType
<1>4. StoredLength = IF d < L THEN d ELSE L
  BY DEF StoredLength, DataBefore
<1>. HIDE DEF d, L
<1>5. StoredLength \in 0 .. L
  BY <1>2, <1>3, <1>4
<1>6. ASSUME NEW n \in 1 .. L PROVE n <= StoredLength <=> IsSent(n)
  <2>1. n \in Nat \ {0}
    BY <1>3
  <2>2. n <= StoredLength <=> n <= d
    BY <1>2, <1>3, <1>4
  <2>. QED BY <1>1, <1>2, <2>1, <2>2, SentIsRaw
<1>7. ASSUME NEW n \in 1 .. StoredLength PROVE InRam(n) = stream[n]
  <2>1. n \in 1 .. L /\ n <= StoredLength
    BY <1>3, <1>5
  <2>2. IsSent(n)
    BY <1>6, <2>1
  <2>. QED BY <1>1, <2>1, <2>2 DEF BytesPlaced, L
<1>8. StoredBytes = [n \in 1 .. StoredLength |-> stream[n]]
  BY <1>7 DEF StoredBytes
<1>. QED BY <1>3, <1>5, <1>6, <1>8 DEF StoredIsPrefix, L

(* Nothing of the stream is sent by a step that sends nothing.             *)
LEMMA StoredSame ==
  ASSUME StoredIsPrefix, StoredIsPrefix', phase # "idle", phase' # "idle",
         Len(stream) <= Len(stream'),
         \A n \in 1 .. Len(stream) : stream'[n] = stream[n],
         \A n \in 1 .. Len(stream) : IsSent(n)' <=> IsSent(n),
         \A n \in Len(stream) + 1 .. Len(stream') : ~IsSent(n)'
  PROVE  StoredBytes' = StoredBytes
<1>. DEFINE L == Len(stream)
            M == Len(stream')
            x == StoredLength
            y == StoredLength'
<1>1. L \in Nat /\ M \in Nat /\ x \in 0 .. L /\ y \in 0 .. M /\ L <= M
  BY DEF StoredIsPrefix
<1>2. \A n \in 1 .. L : n <= x <=> IsSent(n)
  BY DEF StoredIsPrefix
<1>3. \A n \in 1 .. M : n <= y <=> IsSent(n)'
  BY DEF StoredIsPrefix
<1>4. StoredBytes = [n \in 1 .. x |-> stream[n]] /\ StoredBytes' = [n \in 1 .. y |-> stream'[n]]
  BY DEF StoredIsPrefix
<1>5. /\ \A n \in 1 .. L : stream'[n] = stream[n]
      /\ \A n \in 1 .. L : IsSent(n)' <=> IsSent(n)
      /\ \A n \in L + 1 .. M : ~IsSent(n)'
  OBVIOUS
<1>. HIDE DEF L, M, x, y
<1>6. y <= L
  <2> SUFFICES ASSUME ~(y <= L) PROVE FALSE
    OBVIOUS
  <2>1. y \in L + 1 .. M /\ y \in 1 .. M /\ y <= y
    BY <1>1
  <2>. QED BY <1>3, <1>5, <2>1
<1>7. \A n \in 1 .. L : n <= y <=> n <= x
  BY <1>1, <1>2, <1>3, <1>5
<1>8. x = y
  <2>1. ~(x < y)
    <3> SUFFICES ASSUME x < y PROVE FALSE
      OBVIOUS
    <3>1. y \in 1 .. L /\ y <= y
      BY <1>1, <1>6
    <3>. QED BY <1>1, <1>7, <3>1
  <2>2. ~(y < x)
    <3> SUFFICES ASSUME y < x PROVE FALSE
      OBVIOUS
    <3>1. x \in 1 .. L /\ x <= x
      BY <1>1
    <3>. QED BY <1>1, <1>7, <3>1
  <2>. QED BY <1>1, <2>1, <2>2
<1>9. \A n \in 1 .. x : n \in 1 .. L
  BY <1>1
<1>. QED BY <1>4, <1>5, <1>8, <1>9

(* A byte just accepted waits in the ring.                                 *)
LEMMA AcceptedWaits ==
  ASSUME RingInv, RingInv', PacedInv, PlaceInv, PlaceInv', Paced, multi_write_byte,
         ~DropByte
  PROVE  /\ offered + 1 \in 1 .. MaxBytes
         /\ stream' = Append(stream, offered + 1)
         /\ \A n \in 1 .. Len(stream) : IsSent(n)' <=> IsSent(n)
         /\ \A n \in Nat \ {0} : n = Len(stream) + 1 => ~IsSent(n)'
<1>. DEFINE L == Len(stream)
            u == buffer_usage' - 1
<1>1. /\ phase = "write" /\ phase' = "write" /\ pos' = pos
      /\ stream' = Append(stream, offered + 1)
      /\ offered + 1 \in 1 .. MaxBytes
      /\ StoreInBuffer(offered + 1) \/ StoreInNextBuffer(offered + 1)
  BY AppendOrdinal
     DEF multi_write_byte, StoreInBuffer, StoreInNextBuffer, Accept, dmaVars, RingInv
<1>0. WriterFacts'
  <2>1. RingInv' => WriterFacts'
    BY WriterFactsHold, PTL
  <2>. QED BY <2>1
<1>2. /\ chip_no' \in Nat /\ bank_no' \in 0 .. NUM_BANKS - 1
      /\ num_ready' \in Nat /\ Opened' \in Nat /\ buffer_usage' \in 0 .. BUFFER_SIZE
  BY <1>0 DEF WriterFacts
<1>3. L \in Nat /\ Len(stream') = L + 1
  <2>1. stream \in Seq(1 .. MaxBytes)
    BY DEF RingInv, TypeOK, UserType
  <2>. QED BY <1>1, <2>1
<1>4. WriterPlaced /\ WriterPlaced' /\ Started \in Nat /\ Started' \in Nat
  BY <1>1 DEF PlaceInv
<1>5. /\ u \in 0 .. BUFFER_SIZE - 1
      /\ bank_no' = 0 => u >= HeaderSize
  <2>1. CASE StoreInBuffer(offered + 1)
    <3>1. /\ buffer_usage # BUFFER_SIZE /\ buffer_usage' = buffer_usage + 1
          /\ bank_no' = bank_no
      BY <2>1 DEF StoreInBuffer
    <3>2. bank_no = 0 => buffer_usage >= HeaderSize
      BY <1>4 DEF WriterPlaced
    <3>3. buffer_usage \in 0 .. BUFFER_SIZE /\ BUFFER_SIZE \in Nat /\ HeaderSize = 3
      BY OpenedType, ChipSizes, SizesAssumption
    <3>. QED BY <3>1, <3>2, <3>3
  <2>2. CASE StoreInNextBuffer(offered + 1)
    <3>1. u = HeaderRoom(bank_no + 1 = NUM_BANKS)
      BY <2>2 DEF StoreInNextBuffer, HeaderRoom, HeaderSize
    <3>2. bank_no' = 0 => bank_no + 1 = NUM_BANKS
      BY <2>2, OpenedType, SizesAssumption DEF StoreInNextBuffer
    <3>. HIDE DEF u
    <3>. QED BY <3>1, <3>2, SizesAssumption DEF HeaderRoom, HeaderSize
  <2>. QED BY <1>1, <2>1, <2>2
<1>6. L + HeaderSize = chip_no' * ChipCap + bank_no' * BUFFER_SIZE + u
  <2>. DEFINE x == chip_no' * ChipCap
              y == bank_no' * BUFFER_SIZE
  <2>1. Len(stream') + HeaderSize = x + y + buffer_usage'
    BY <1>4 DEF WriterPlaced
  <2>2. x \in Nat /\ y \in Nat /\ buffer_usage' \in Nat /\ HeaderSize \in Nat
    <3>1. x \in Nat /\ y \in Nat
      BY <1>0 DEF WriterFacts
    <3>2. buffer_usage' \in Nat /\ HeaderSize \in Nat
      BY <1>2, ChipSizes
    <3>. QED BY <3>1, <3>2
  <2>3. L + HeaderSize = x + y + u
    <3>1. L \in Nat /\ Len(stream') = L + 1
      BY <1>3
    <3>. DEFINE M == Len(stream')
                v == buffer_usage'
                h == HeaderSize
    <3>2. M + h = x + y + v /\ M = L + 1 /\ L \in Nat
      BY <2>1, <3>1
    <3>3. x \in Nat /\ y \in Nat /\ v \in Nat /\ h \in Nat
      BY <2>2
    <3>. HIDE DEF x, y, L, M, v, h
    <3>4. L + h = x + y + (v - 1)
      BY <3>2, <3>3
    <3>. QED BY <3>4 DEF v, h
  <2>. QED BY <2>3
<1>7. BufferOf(L + 1) = Opened' - 1
  <2>1. BufferOf(L + 1) = chip_no' * NUM_BANKS + bank_no'
    <3>. DEFINE c == chip_no'
                k == bank_no'
    <3>1. c \in Nat /\ k \in 0 .. NUM_BANKS - 1 /\ L \in Nat
      BY <1>2, <1>3
    <3>2. u \in 0 .. BUFFER_SIZE - 1 /\ (k = 0 => u >= HeaderSize)
      BY <1>5
    <3>3. L + HeaderSize = c * ChipCap + k * BUFFER_SIZE + u
      BY <1>6
    <3>. HIDE DEF L, u, c, k
    <3>4. BufferOf(L + 1) = c * NUM_BANKS + k
      BY <3>1, <3>2, <3>3, NextPlace
    <3>. QED BY <3>4 DEF c, k
  <2>. QED BY <1>0, <2>1 DEF WriterFacts
<1>. DEFINE S == Started'
            O == Opened'
            r == num_ready'
<1>8. S <= O - 1 /\ S \in Nat /\ O \in Nat
  <2>1. S = O - 1 - r
    BY <1>1 DEF Started, Opened
  <2>2. S \in Nat /\ O \in Nat /\ r \in Nat
    BY <1>2, <1>4
  <2>. HIDE DEF S, O, r
  <2>. QED BY <2>1, <2>2
<1>9. ASSUME NEW n \in Nat \ {0}, n = L + 1 PROVE ~IsSent(n)'
  <2>1. BufferOf(n)' = BufferOf(n)
    BY DEF BufferOf, Raw
  <2>2. BufferOf(n) = Opened' - 1
    BY <1>7, <1>9
  <2>3. ~(BufferOf(n)' < Started' - 1) /\ BufferOf(n)' # Started' - 1
    <3>. DEFINE t == BufferOf(n)'
    <3>1. t = O - 1
      BY <2>1, <2>2
    <3>2. ~(t < S - 1) /\ t # S - 1
      <4>. HIDE DEF S, O, t
      <4>. QED BY <1>8, <3>1
    <3>. QED BY <3>2
  <2>. QED BY <2>3 DEF IsSent
<1>10. Started' = Started
  <2>1. CASE StoreInBuffer(offered + 1)
    BY <1>1, <2>1 DEF StoreInBuffer, Started
  <2>2. CASE StoreInNextBuffer(offered + 1)
    BY <2>2, NextKeepsStarted
  <2>. QED BY <1>1, <2>1, <2>2
<1>11. \A n \in 1 .. L : IsSent(n)' <=> IsSent(n)
  BY <1>1, <1>10 DEF IsSent, BufferOf, PlaceOf, Raw
<1>. QED BY <1>1, <1>9, <1>11

LEMMA AtStart ==
  ASSUME Init
  PROVE  Abstract!Init
BY DEF Init, Abstract!Init, StoredBytes

LEMMA BeginStream ==
  ASSUME RingInv, StoredIsPrefix', multi_write_begin
  PROVE  Abstract!Begin
<1>1. /\ phase \in {"idle", "done"} /\ phase' = "write" /\ stream' = <<>>
  BY DEF multi_write_begin
<1>2. StoredLength' = 0
  <2>1. Len(stream') = 0
    BY <1>1
  <2>2. StoredLength' \in 0 .. Len(stream')
    BY <1>1 DEF StoredIsPrefix
  <2>. DEFINE x == StoredLength'
              y == Len(stream')
  <2>. HIDE DEF x, y
  <2>3. x = 0
    BY <2>1, <2>2 DEF x, y
  <2>. QED BY <2>3 DEF x
<1>3. StoredBytes' = <<>>
  <2>1. StoredBytes' = [n \in 1 .. 0 |-> stream'[n]]
    BY <1>1, <1>2 DEF StoredIsPrefix
  <2>. QED BY <2>1
<1>. QED BY <1>1, <1>3 DEF Abstract!Begin

(* A step that leaves the stream and what is sent as they are.             *)
LEMMA StreamQuiet ==
  ASSUME StoredIsPrefix, StoredIsPrefix', phase # "idle", phase' # "idle",
         stream' = stream,
         \A n \in 1 .. Len(stream) : IsSent(n)' <=> IsSent(n)
  PROVE  StoredBytes' = StoredBytes
<1>1. Len(stream) <= Len(stream')
  BY DEF StoredIsPrefix
<1>2. \A n \in Len(stream) + 1 .. Len(stream') : ~IsSent(n)'
  <2>1. Len(stream) \in Nat /\ Len(stream') = Len(stream)
    BY DEF StoredIsPrefix
  <2>. QED BY <2>1
<1>. QED BY <1>1, <1>2, StoredSame

LEMMA SentFrame ==
  ASSUME Started' = Started, pos' = pos, NEW n
  PROVE  IsSent(n)' <=> IsSent(n)
BY DEF IsSent, BufferOf, PlaceOf, Raw

LEMMA ByteTaken ==
  ASSUME RingInv, RingInv', PacedInv, PlaceInv, PlaceInv', Paced,
         StoredIsPrefix, StoredIsPrefix', multi_write_byte
  PROVE  \/ \E b \in 1 .. MaxBytes : Abstract!Take(b)
         \/ UNCHANGED Abstract!streamVars
<1>1. phase = "write" /\ phase' = "write"
  BY DEF multi_write_byte
<1>2. CASE DropByte
  <2>1. stream' = stream /\ Started' = Started /\ pos' = pos
    BY <1>1, <1>2 DEF DropByte, multi_write_byte, dmaVars, Started
  <2>2. StoredBytes' = StoredBytes
    BY <1>1, <2>1, SentFrame, StreamQuiet
  <2>. QED BY <1>1, <2>1, <2>2 DEF Abstract!streamVars
<1>3. CASE ~DropByte
  <2>1. /\ offered + 1 \in 1 .. MaxBytes
        /\ stream' = Append(stream, offered + 1)
        /\ \A n \in 1 .. Len(stream) : IsSent(n)' <=> IsSent(n)
        /\ \A n \in Nat \ {0} : n = Len(stream) + 1 => ~IsSent(n)'
    BY <1>3, AcceptedWaits
  <2>2. Len(stream) \in Nat /\ stream \in Seq(1 .. MaxBytes)
    BY <1>1 DEF StoredIsPrefix
  <2>3. Len(stream') = Len(stream) + 1 /\ Len(stream) <= Len(stream')
    BY <2>1, <2>2
  <2>4. \A n \in 1 .. Len(stream) : stream'[n] = stream[n]
    BY <2>1, <2>2
  <2>5. \A n \in Len(stream) + 1 .. Len(stream') : ~IsSent(n)'
    <3>1. \A n \in Len(stream) + 1 .. Len(stream') :
            n \in Nat \ {0} /\ n = Len(stream) + 1
      BY <2>2, <2>3
    <3>. QED BY <2>1, <3>1
  <2>6. StoredBytes' = StoredBytes
    BY <1>1, <2>1, <2>3, <2>4, <2>5, StoredSame
  <2>7. Abstract!Take(offered + 1)
    BY <1>1, <2>1, <2>6 DEF Abstract!Take
  <2>. QED BY <2>1, <2>7
<1>. QED BY <1>2, <1>3

LEMMA HandleStream ==
  ASSUME RingInv, PlaceInv, StoredIsPrefix, StoredIsPrefix',
         InSession, InSession', phase' = phase, Handle
  PROVE  UNCHANGED Abstract!streamVars
<1>1. stream' = stream /\ phase # "idle" /\ phase' # "idle"
  BY DEF Handle, InSession
<1>2. ASSUME NEW n \in 1 .. Len(stream) PROVE IsSent(n)' <=> IsSent(n)
  <2>1. CASE rx_dma_empty /\ StartDma
    <3>1. n \in Nat \ {0}
      BY OpenedType
    <3>. QED BY <2>1, <3>1, StartSendsNothing
  <2>2. CASE rx_dma_empty /\ Idle
    BY <2>2, SentFrame DEF Handle, Idle, Started
  <2>3. CASE ~rx_dma_empty
    BY <2>3, SentFrame DEF Handle, DmaServiceable, dmaVars, Started
  <2>. QED BY <2>1, <2>2, <2>3 DEF Handle, DmaServiceable
<1>3. StoredBytes' = StoredBytes
  BY <1>1, <1>2, StreamQuiet
<1>. QED BY <1>1, <1>3 DEF Abstract!streamVars

LEMMA EndStream ==
  ASSUME RingInv, StoredIsPrefix, StoredIsPrefix', multi_write_end
  PROVE  UNCHANGED Abstract!streamVars
<1>1. phase = "write" /\ phase' = "flush" /\ stream' = stream /\ pos' = pos
  BY DEF multi_write_end, dmaVars, userVars
<1>2. StoredBytes' = StoredBytes
  BY <1>1, EndKeepsStarted, SentFrame, StreamQuiet
<1>. QED BY <1>1, <1>2 DEF Abstract!streamVars

(* When nothing is ready and no transfer runs, everything is sent.         *)
LEMMA FlushSentAll ==
  ASSUME RingInv, PlaceInv, StoredIsPrefix, phase = "flush", AllSent
  PROVE  StoredBytes = stream
<1>. DEFINE L == Len(stream)
            x == StoredLength
<1>1. /\ L \in Nat /\ stream \in Seq(1 .. MaxBytes) /\ x \in 0 .. L
      /\ \A n \in 1 .. L : n <= x <=> IsSent(n)
      /\ StoredBytes = [n \in 1 .. x |-> stream[n]]
  BY DEF StoredIsPrefix
<1>2. Started = Opened /\ Opened \in Nat /\ pos = BUFFER_SIZE /\ WriterPlaced
  <2>1. Started = Opened - num_ready /\ num_ready = 0 /\ pos = BUFFER_SIZE
    BY DEF Started, Opened, AllSent, rx_dma_empty
  <2>. QED BY <2>1, OpenedType DEF PlaceInv
<1>3. ASSUME NEW n \in 1 .. L PROVE IsSent(n)
  <2>1. /\ BufferOf(n) \in Nat /\ PlaceOf(n) \in 0 .. BUFFER_SIZE - 1
        /\ BufferOf(n) <= Opened - 1
    BY <1>2, StreamBefore
  <2>2. PlaceOf(n) < pos
    BY <1>2, <2>1, SizesAssumption
  <2>3. Started > 0 /\ (BufferOf(n) < Started - 1 \/ BufferOf(n) = Started - 1)
    BY <1>2, <2>1
  <2>. QED BY <2>2, <2>3 DEF IsSent
<1>4. x = L
  <2>. HIDE DEF x, L
  <2>1. L > 0 => L \in 1 .. L
    BY <1>1
  <2>2. L > 0 => L <= x
    BY <1>1, <1>3, <2>1
  <2>. QED BY <1>1, <2>2
<1>. QED BY <1>1, <1>4

LEMMA FlushCloses ==
  ASSUME RingInv, PlaceInv, StoredIsPrefix, StoredIsPrefix', FlushDone
  PROVE  Abstract!Close
<1>1. /\ phase = "flush" /\ phase' = "done" /\ AllSent /\ stream' = stream
      /\ pos' = pos /\ Started' = Started
  BY DEF FlushDone, ringVars, userVars, Started
<1>2. StoredBytes' = StoredBytes
  BY <1>1, SentFrame, StreamQuiet
<1>3. StoredBytes = stream
  BY <1>1, FlushSentAll
<1>. QED BY <1>1, <1>2, <1>3 DEF Abstract!Close

(* A byte the DMA moves is a header byte, old content at the end of the    *)
(* last buffer, or the next byte of the stream.                            *)
LEMMA ShiftStores ==
  ASSUME RingInv, PlaceInv, StoredIsPrefix, StoredIsPrefix', DmaShift
  PROVE  Abstract!Store \/ UNCHANGED Abstract!streamVars
<1>. DEFINE L == Len(stream)
            x == StoredLength
            y == StoredLength'
<1>1. /\ InSession /\ InSession' /\ phase' = phase /\ stream' = stream
      /\ \A n \in Nat \ {0} :
           IsSent(n)' <=> IsSent(n) \/ (BufferOf(n) = Started - 1 /\ PlaceOf(n) = pos)
  BY ShiftSends
<1>2. phase # "idle" /\ phase' # "idle"
  BY <1>1 DEF InSession
<1>3. /\ L \in Nat /\ stream \in Seq(1 .. MaxBytes) /\ x \in 0 .. L
      /\ \A n \in 1 .. L : n <= x <=> IsSent(n)
      /\ StoredBytes = [n \in 1 .. x |-> stream[n]]
  BY <1>2 DEF StoredIsPrefix
<1>4. /\ y \in 0 .. L
      /\ \A n \in 1 .. L : n <= y <=> IsSent(n)'
      /\ StoredBytes' = [n \in 1 .. y |-> stream[n]]
  BY <1>1, <1>2 DEF StoredIsPrefix
<1>. HIDE DEF L, x, y
<1>5. \A n \in 1 .. L : n \in Nat \ {0}
  BY <1>3
<1>6. ~(y < x)
  <2> SUFFICES ASSUME y < x PROVE FALSE
    OBVIOUS
  <2>1. x \in 1 .. L /\ x <= x /\ ~(x <= y)
    BY <1>3, <1>4
  <2>. QED BY <1>1, <1>3, <1>4, <1>5, <2>1
<1>7. ~(x + 1 < y)
  <2> SUFFICES ASSUME x + 1 < y PROVE FALSE
    OBVIOUS
  <2>. DEFINE a == x + 1
              b == x + 2
  <2>1. /\ a \in 1 .. L /\ b \in 1 .. L /\ a <= y /\ b <= y
        /\ ~(a <= x) /\ ~(b <= x) /\ a # b
    BY <1>3, <1>4
  <2>. HIDE DEF a, b
  <2>2. /\ BufferOf(a) = Started - 1 /\ PlaceOf(a) = pos
        /\ BufferOf(b) = Started - 1 /\ PlaceOf(b) = pos
    BY <1>1, <1>3, <1>4, <1>5, <2>1
  <2>3. a = b
    BY <1>5, <2>1, <2>2, PlaceInjective
  <2>. QED BY <2>1, <2>3
<1>8. y = x \/ y = x + 1
  BY <1>3, <1>4, <1>6, <1>7
<1>9. CASE y = x
  BY <1>1, <1>3, <1>4, <1>9 DEF Abstract!streamVars
<1>10. CASE y = x + 1
  <2>1. Len(StoredBytes) = x /\ x \in Nat /\ x < L
    BY <1>3, <1>4, <1>10
  <2>2. StoredBytes' = Append(StoredBytes, stream[x + 1])
    BY <1>3, <1>4, <1>10, <2>1
  <2>3. phase \in {"write", "flush"} /\ phase' \in {"write", "flush"}
    BY <1>1 DEF InSession
  <2>. QED BY <1>1, <2>1, <2>2, <2>3 DEF Abstract!Store, L
<1>. QED BY <1>8, <1>9, <1>10

LEMMA StreamStep ==
  ASSUME Paced, PlacementInv, PlacementInv', StoredIsPrefix, StoredIsPrefix',
         [Next]_vars
  PROVE  [Abstract!Next]_(Abstract!streamVars)
<1>. USE DEF PlacementInv
<1>1. CASE multi_write_begin
  BY <1>1, BeginStream DEF Abstract!Next
<1>2. CASE multi_write_byte
  BY <1>2, ByteTaken DEF Abstract!Next
<1>3. CASE multi_write_handle
  <2>1. InSession /\ InSession' /\ phase' = phase /\ Handle
    BY <1>3 DEF multi_write_handle, InSession
  <2>. QED BY <2>1, HandleStream
<1>4. CASE multi_write_end
  BY <1>4, EndStream
<1>5. CASE FlushHandle
  <2>1. InSession /\ InSession' /\ phase' = phase /\ Handle
    BY <1>5 DEF FlushHandle, InSession
  <2>. QED BY <2>1, HandleStream
<1>6. CASE FlushDone
  BY <1>6, FlushCloses DEF Abstract!Next
<1>7. CASE DmaShift
  BY <1>7, ShiftStores DEF Abstract!Next
<1>8. CASE UNCHANGED vars
  <2>1. UNCHANGED <<phase, stream>> /\ StoredBytes' = StoredBytes
    BY <1>8
       DEF vars, ringVars, dmaVars, chipVars, userVars, StoredBytes, StoredLength,
           RawSent, Started, InRam
  <2>. QED BY <2>1 DEF Abstract!streamVars
<1>. QED
  BY <1>1, <1>2, <1>3, <1>4, <1>5, <1>6, <1>7, <1>8 DEF Next, Finished

(* If every stream fits, the ring, the DMA and the chips implement the     *)
(* byte stream: each byte accepted is stored once, in order, and the       *)
(* session closes with all of them stored.                                 *)
THEOREM StreamImplemented == Paced => (Spec /\ []StreamFits => ImplementsByteStream)
<1> SUFFICES ASSUME Paced PROVE Spec /\ []StreamFits => ImplementsByteStream
  OBVIOUS
<1>1. Init => PlacedIfFits /\ Abstract!Init
  BY PlacementInit, AtStart
<1>2. PlacedIfFits /\ [Next]_vars => PlacedIfFits'
  BY PlacementStep
<1>3. PlacedIfFits /\ StreamFits => PlacementInv
  BY DEF PlacedIfFits, PlacementInv
<1>4. PlacementInv => StoredIsPrefix
  BY StoredPrefix
<1>5. /\ PlacementInv /\ PlacementInv' /\ StoredIsPrefix /\ StoredIsPrefix' /\ [Next]_vars
      => [Abstract!Next]_(Abstract!streamVars)
  BY StreamStep
<1>. QED
  BY <1>1, <1>2, <1>3, <1>4, <1>5, PTL DEF Spec, ImplementsByteStream, Abstract!Spec

(***************************************************************************)
(* The readers of the RAM: a check passes every good track, and what a     *)
(* save that returns STATUS_OK wrote is the track.                         *)
(*                                                                         *)
(* The writer leaves byte n of the stream at InRam(n).  A reader's size,   *)
(* chip and bank are three countdowns of their own; that they end          *)
(* together, at the last byte of the stream, is what ReaderInv says, and   *)
(* BlockRead is the arithmetic of it.                                      *)
(***************************************************************************)

(***************************************************************************)
(* The inductive invariant.                                                *)
(***************************************************************************)
Counted == total = Len(stream) /\ checksum = SumOf(stream)

(* While a session runs, what is proved above of it. *)
SessionInv ==
  cmd = "read" =>
    /\ phase # "idle" /\ PacedInv /\ (StreamFits => PlaceInv)
    /\ buf = EmptyBuffer /\ (~found => stream = <<>>)

(* A stream that did fit ends in the last chip the writer opened, and its  *)
(* chips stay in sequential mode: nothing sets a chip to byte mode.        *)
EndsInLastChip ==
  /\ chip_no < NUM_CHIPS
  /\ total <= (chip_no + 1) * ChipCap
  /\ chip_no > 0 => total > chip_no * ChipCap
  /\ total > 0 => \A c \in 0 .. chip_no : mode[c] = "seq"

(* The RAM holds the track, except where a memory test has overwritten it. *)
Stored == \A n \in 1 .. total : InRam(n) = track[n]
Faded  == \A n \in 1 .. total : InRam(n) \in {track[n], 0}

(* Between sessions the track buffer describes the last of them. *)
LoopInv ==
  cmd # "read" =>
    /\ phase \in {"idle", "done"}
    /\ buf = [size |-> total, checksum |-> checksum] /\ track = stream

KeptInv == cmd # "read" /\ kept => EndsInLastChip /\ Faded

(* Bytes of the stream a reader has not come to; what rd.size is then.     *)
Left == total - Len(seen)
SizeLeft == Left + (IF cmd = "save" THEN 0 ELSE HeaderSize * (chip_no - rd.chip))

Reading == cmd \in {"verify", "check", "save"}

ReaderInv ==
  Reading /\ kept =>
    /\ Len(seen) <= total /\ \A n \in 1 .. Len(seen) : seen[n] = InRam(n)
    /\ rd.sum = SumOf(seen) /\ rd.chip <= NUM_CHIPS
    /\ rd.size > 0 =>
         /\ Left > 0 /\ rd.size = SizeLeft
         /\ Len(seen) = rd.chip * ChipCap + rd.bank * BUFFER_SIZE /\ sel = rd.chip
    /\ rd.size = 0 => Left = 0
    /\ cmd = "verify" => found /\ Stored

(* No byte of a session was lost: a check starts from no error. *)
NoErrorYet == cmd \in {"verify", "check"} => result = STATUS_OK

(* The file has what was read of the RAM, or a part if it was cut. *)
FirstOf(s, t) == Len(s) <= Len(t) /\ \A n \in 1 .. Len(s) : s[n] = t[n]

FileInv == cmd = "save" => FirstOf(file, seen) /\ (cut \/ file = seen)

Outcome == GoodTrackPasses /\ SavedFileIsTrack

RBInv ==
  /\ RingInv /\ ReadBackType /\ Counted /\ LoopInv
  /\ SessionInv /\ KeptInv /\ NoErrorYet /\ ReaderInv /\ FileInv /\ Outcome

(***************************************************************************)
(* Sums.  SumOf is a recursive function: AddsUp says what its values are.  *)
(***************************************************************************)
(* A set of natural numbers has a least one. *)
LEMMA LeastNatural ==
  ASSUME NEW S \in SUBSET Nat, S # {}
  PROVE  \E m \in S : \A n \in S : m <= n
<1> DEFINE Less == {pair \in Nat \X Nat : pair[1] < pair[2]}
<1>1. IsWellFoundedOn(Less, Nat)
  BY NatLessThanWellFounded DEF OpToRel
<1>2. \A m, n \in Nat : n < m => <<n, m>> \in Less
  OBVIOUS
<1> HIDE DEF Less
<1>3. \E m \in S : \A n \in S : ~ (<<n, m>> \in Less)
  BY <1>1, WFMin
<1>4. PICK m \in S : \A n \in S : ~ (<<n, m>> \in Less)
  BY <1>3
<1>5. \A n \in S : ~ (n < m)
  BY <1>2, <1>4
<1>. QED  BY <1>5

(* f adds up the first n numbers of s. *)
AddsUp(f, s, n) ==
  /\ f[0] = 0
  /\ \A k \in 1 .. n : f[k] = f[k - 1] + s[k]

LEMMA SumsExist ==
  ASSUME NEW s \in Seq(Int)
  PROVE  \E f \in [0 .. Len(s) -> Int] : AddsUp(f, s, Len(s))
<1>. DEFINE Bad == {n \in 0 .. Len(s) : ~ \E f \in [0 .. n -> Int] : AddsUp(f, s, n)}
<1>1. Len(s) \in Nat /\ Bad \in SUBSET Nat
  OBVIOUS
<1> SUFFICES ASSUME Bad # {} PROVE FALSE
  BY <1>1
<1>2. PICK m \in Bad : \A n \in Bad : m <= n
  <2>. HIDE DEF Bad
  <2>. QED BY <1>1, LeastNatural
<1>3. CASE m = 0
  <2>. DEFINE f == [k \in 0 .. 0 |-> 0]
  <2>1. f \in [0 .. 0 -> Int] /\ f[0] = 0
    OBVIOUS
  <2>2. AddsUp(f, s, 0)
    BY <2>1 DEF AddsUp
  <2>. HIDE DEF f
  <2>. QED BY <1>2, <1>3, <2>1, <2>2
<1>4. CASE m > 0
  <2>1. m - 1 \in 0 .. Len(s) /\ m - 1 \notin Bad /\ m \in 1 .. Len(s)
    <3>1. m \in 0 .. Len(s)
      OBVIOUS
    <3>2. m - 1 \in 0 .. Len(s) /\ m \in 1 .. Len(s) /\ ~(m <= m - 1)
      BY <1>1, <1>4, <3>1
    <3>. HIDE DEF Bad
    <3>. QED BY <1>2, <3>2
  <2>2. PICK f \in [0 .. m - 1 -> Int] : AddsUp(f, s, m - 1)
    BY <2>1
  <2>. DEFINE g == [k \in 0 .. m |-> IF k = m THEN f[m - 1] + s[m] ELSE f[k]]
  <2>3. s[m] \in Int
    BY <2>1
  <2>4. /\ f \in [0 .. m - 1 -> Int] /\ f[0] = 0
        /\ \A k \in 1 .. m - 1 : f[k] = f[k - 1] + s[k]
    BY <2>2 DEF AddsUp
  <2>5. m \in Nat /\ f[m - 1] \in Int
    BY <1>1, <1>2, <2>1, <2>4
  <2>6. g \in [0 .. m -> Int] /\ g[0] = 0
    BY <1>4, <2>3, <2>4, <2>5
  <2>7. \A k \in 1 .. m : g[k] = g[k - 1] + s[k]
    <3>1. TAKE k \in 1 .. m
    <3>2. k - 1 \in 0 .. m - 1 /\ k - 1 \in 0 .. m /\ k \in 0 .. m
      BY <2>5
    <3>3. g[k - 1] = f[k - 1]
      BY <2>5, <3>2
    <3>. QED BY <2>4, <2>5, <3>2, <3>3
  <2>8. AddsUp(g, s, m)
    <3>. HIDE DEF g
    <3>. QED BY <2>6, <2>7 DEF AddsUp
  <2>. HIDE DEF g
  <2>. QED BY <1>2, <2>6, <2>8
<1>. QED BY <1>1, <1>2, <1>3, <1>4

LEMMA SumsUnique ==
  ASSUME NEW s, NEW l \in Nat, NEW f, NEW g, AddsUp(f, s, l), AddsUp(g, s, l)
  PROVE  f[l] = g[l]
<1>. DEFINE Bad == {n \in 0 .. l : f[n] # g[n]}
<1>1. Bad \in SUBSET Nat
  OBVIOUS
<1> SUFFICES ASSUME Bad # {} PROVE FALSE
  OBVIOUS
<1>2. PICK m \in Bad : \A n \in Bad : m <= n
  <2>. HIDE DEF Bad
  <2>. QED BY <1>1, LeastNatural
<1>3. m # 0
  BY <1>2 DEF AddsUp
<1>4. m - 1 \in 0 .. l /\ m - 1 \notin Bad /\ m \in 1 .. l
  BY <1>2, <1>3
<1>. QED BY <1>2, <1>4 DEF AddsUp

LEMMA SumIs ==
  ASSUME NEW s \in Seq(Int), NEW f \in [0 .. Len(s) -> Int], AddsUp(f, s, Len(s))
  PROVE  SumOf(s) = f[Len(s)]
<1>. DEFINE h == CHOOSE h : h = [n \in 0 .. Len(s) |-> IF n = 0 THEN 0 ELSE h[n - 1] + s[n]]
            l == Len(s)
<1>1. l \in Nat
  OBVIOUS
<1>2. f = [n \in 0 .. l |-> IF n = 0 THEN 0 ELSE f[n - 1] + s[n]]
  BY DEF AddsUp
<1>3. h = [n \in 0 .. l |-> IF n = 0 THEN 0 ELSE h[n - 1] + s[n]]
  BY <1>2
<1>4. SumOf(s) = h[l]
  BY DEF SumOf
<1>. HIDE DEF h, l
<1>5. AddsUp(h, s, l)
  BY <1>1, <1>3 DEF AddsUp
<1>. QED BY <1>1, <1>4, <1>5, SumsUnique DEF l

LEMMA SumType ==
  ASSUME NEW s \in Seq(Int)
  PROVE  SumOf(s) \in Int
BY SumsExist, SumIs

LEMMA SumEmpty == SumOf(<<>>) = 0
<1>1. <<>> \in Seq(Int) /\ Len(<<>>) = 0
  OBVIOUS
<1>2. [k \in 0 .. 0 |-> 0] \in [0 .. 0 -> Int] /\ AddsUp([k \in 0 .. 0 |-> 0], <<>>, 0)
  BY DEF AddsUp
<1>. QED BY <1>1, <1>2, SumIs

(* The sum of two sequences. *)
LEMMA SumConcat ==
  ASSUME NEW s \in Seq(Int), NEW t \in Seq(Int)
  PROVE  SumOf(s \o t) = SumOf(s) + SumOf(t)
<1>. DEFINE a == Len(s)
            b == Len(t)
            u == s \o t
<1>1. PICK f \in [0 .. a -> Int] : AddsUp(f, s, a)
  BY SumsExist
<1>2. PICK g \in [0 .. b -> Int] : AddsUp(g, t, b)
  BY SumsExist
<1>. DEFINE h == [k \in 0 .. a + b |-> IF k <= a THEN f[k] ELSE f[a] + g[k - a]]
<1>3. /\ a \in Nat /\ b \in Nat /\ u \in Seq(Int) /\ Len(u) = a + b
      /\ \A k \in 1 .. a : u[k] = s[k]
      /\ \A k \in a + 1 .. a + b : u[k] = t[k - a]
  OBVIOUS
<1>4. SumOf(s) = f[a] /\ SumOf(t) = g[b]
  BY <1>1, <1>2, SumIs
<1>. HIDE DEF a, b, u
<1>5. h \in [0 .. a + b -> Int]
  BY <1>1, <1>2, <1>3
<1>6. AddsUp(h, u, a + b)
  <2>1. h[0] = 0
    BY <1>1, <1>3 DEF AddsUp
  <2>2. ASSUME NEW k \in 1 .. a PROVE h[k] = h[k - 1] + u[k]
    <3>1. /\ k \in 0 .. a + b /\ k - 1 \in 0 .. a + b /\ k <= a /\ k - 1 <= a
          /\ u[k] = s[k]
      BY <1>3
    <3>2. f[k] = f[k - 1] + s[k]
      BY <1>1 DEF AddsUp
    <3>. QED BY <3>1, <3>2
  <2>3. ASSUME NEW k \in a + 1 .. a + b PROVE h[k] = h[k - 1] + u[k]
    <3>. DEFINE j == k - a
    <3>0. k \in Nat /\ k > a /\ k <= a + b
      BY <1>3
    <3>1. /\ j \in 1 .. b /\ j \in 0 .. b /\ j - 1 \in 0 .. b /\ j - 1 = (k - 1) - a
          /\ k \in Nat /\ k > a /\ u[k] = t[j]
      <4>1. u[k] = t[k - a]
        BY <1>3
      <4>2. k - a \in 1 .. b
        BY <1>3, <3>0
      <4>3. j \in 1 .. b /\ j \in 0 .. b /\ j - 1 \in 0 .. b /\ j - 1 = (k - 1) - a
        BY <1>3, <3>0, <4>2
      <4>4. u[k] = t[j]
        BY <4>1
      <4>. HIDE DEF j
      <4>. QED BY <3>0, <4>3, <4>4
    <3>2. g[j] = g[j - 1] + t[j] /\ g[0] = 0
      BY <1>2, <3>1 DEF AddsUp
    <3>3. /\ f[a] \in Int /\ g[j] \in Int /\ g[j - 1] \in Int
          /\ k \in 0 .. a + b /\ k - 1 \in 0 .. a + b /\ ~(k <= a)
      <4>1. f[a] \in Int
        BY <1>3
      <4>2. g[j] \in Int /\ g[j - 1] \in Int
        <5>. HIDE DEF j
        <5>. QED BY <3>1
      <4>. QED BY <1>3, <3>0, <4>1, <4>2
    <3>. HIDE DEF j
    <3>4. h[k] = f[a] + g[j]
      BY <3>3 DEF j
    <3>5. h[k - 1] = f[a] + g[j - 1]
      <4>1. CASE k - 1 <= a
        <5>1. k - 1 = a /\ j - 1 = 0
          BY <1>3, <3>0, <3>1, <4>1
        <5>. QED BY <3>2, <3>3, <4>1, <5>1
      <4>2. CASE ~(k - 1 <= a)
        BY <3>1, <3>3, <4>2
      <4>. QED BY <4>1, <4>2
    <3>6. t[j] = g[j] - g[j - 1]
      <4>1. t[j] \in Int
        BY <3>1 DEF b
      <4>. QED BY <3>2, <3>3, <4>1
    <3>. QED BY <3>1, <3>3, <3>4, <3>5, <3>6
  <2>4. \A k \in 1 .. a + b : k \in 1 .. a \/ k \in a + 1 .. a + b
    BY <1>3
  <2>. HIDE DEF h
  <2>. QED BY <2>1, <2>2, <2>3, <2>4 DEF AddsUp
<1>7. h[a + b] = f[a] + g[b]
  <2>1. a + b \in 0 .. a + b /\ (a + b <= a => b = 0) /\ a + b - a = b /\ f[a] \in Int
    BY <1>1, <1>3
  <2>2. g[0] = 0
    BY <1>2 DEF AddsUp
  <2>3. CASE a + b <= a
    BY <1>3, <2>1, <2>2, <2>3
  <2>. QED BY <1>3, <2>1, <2>3
<1>8. SumOf(u) = h[a + b]
  <2>. HIDE DEF h
  <2>. QED BY <1>3, <1>5, <1>6, SumIs
<1>. QED BY <1>4, <1>7, <1>8 DEF u

LEMMA SumAppend ==
  ASSUME NEW s \in Seq(Int), NEW x \in Int
  PROVE  SumOf(Append(s, x)) = SumOf(s) + x
<1>1. Append(s, x) = s \o <<x>> /\ <<x>> \in Seq(Int) /\ Len(<<x>>) = 1
  OBVIOUS
<1>. DEFINE f == [k \in 0 .. 1 |-> IF k = 0 THEN 0 ELSE x]
<1>2. f \in [0 .. 1 -> Int] /\ AddsUp(f, <<x>>, 1) /\ f[1] = x
  BY DEF AddsUp
<1>. HIDE DEF f
<1>3. SumOf(<<x>>) = x
  BY <1>1, <1>2, SumIs
<1>. QED BY <1>1, <1>3, SumConcat

(* Of numbers that are at least `low'. *)
LEMMA SumAtLeast ==
  ASSUME NEW s \in Seq(Int), NEW low \in {0, 1}, \A k \in 1 .. Len(s) : s[k] >= low
  PROVE  SumOf(s) \in Int /\ SumOf(s) >= low * Len(s)
<1>1. PICK f \in [0 .. Len(s) -> Int] : AddsUp(f, s, Len(s))
  BY SumsExist
<1>. DEFINE l == Len(s)
            Bad == {n \in 0 .. l : ~ (f[n] >= low * n)}
<1>2. l \in Nat /\ Bad \in SUBSET Nat
  OBVIOUS
<1>3. Bad = {}
  <2> SUFFICES ASSUME Bad # {} PROVE FALSE
    OBVIOUS
  <2>1. PICK m \in Bad : \A n \in Bad : m <= n
    <3>. HIDE DEF Bad
    <3>. QED BY <1>2, LeastNatural
  <2>2. m # 0
    BY <1>1, <2>1 DEF AddsUp
  <2>3. m - 1 \in 0 .. l /\ m - 1 \notin Bad /\ m \in 1 .. l
    BY <1>2, <2>1, <2>2
  <2>4. f[m] = f[m - 1] + s[m] /\ f[m - 1] >= low * (m - 1) /\ s[m] >= low
    BY <1>1, <2>3 DEF AddsUp
  <2>5. f[m - 1] \in Int /\ s[m] \in Int /\ m \in Nat /\ ~(f[m] >= low * m)
    <3>1. s[m] \in Int
      BY <2>3
    <3>2. f[m - 1] \in Int
      BY <1>1, <2>3
    <3>. QED BY <1>2, <2>1, <3>1, <3>2
  <2>. QED BY <2>4, <2>5
<1>4. f[l] >= low * l /\ f[l] \in Int
  <2>1. l \in 0 .. l /\ f[l] \in Int
    BY <1>2
  <2>2. l \notin Bad
    BY <1>3
  <2>. QED BY <2>1, <2>2
<1>. QED BY <1>1, <1>4, SumIs

(***************************************************************************)
(* One block.  k is its bank and c its chip, m the bytes taken before it,  *)
(* t those of the stream, which ends in chip `last'.                       *)
(***************************************************************************)
Capacity(k) == IF k = NUM_BANKS - 1 THEN BUFFER_SIZE - HeaderSize ELSE BUFFER_SIZE
NextBank(k) == IF k + 1 = NUM_BANKS THEN 0 ELSE k + 1
NextChip(c, k) == IF k + 1 = NUM_BANKS THEN c + 1 ELSE c

LEMMA BankFits ==
  ASSUME NEW k \in 0 .. NUM_BANKS - 1
  PROVE  /\ k * BUFFER_SIZE \in Nat /\ Capacity(k) \in Nat \ {0}
         /\ k * BUFFER_SIZE + Capacity(k) <= ChipCap
         /\ k + 1 = NUM_BANKS => k * BUFFER_SIZE + Capacity(k) = ChipCap
         /\ k + 1 # NUM_BANKS => (k + 1) * BUFFER_SIZE = k * BUFFER_SIZE + Capacity(k)
         /\ NextBank(k) \in 0 .. NUM_BANKS - 1
<1>1. (k + 1) * BUFFER_SIZE = k * BUFFER_SIZE + BUFFER_SIZE /\ k * BUFFER_SIZE \in Nat
  BY SizesAssumption, NextProduct
<1>2. CASE k + 1 = NUM_BANKS
  BY <1>1, <1>2, ChipSizes, SizesAssumption DEF Capacity, ChipSize, NextBank
<1>3. CASE k + 1 # NUM_BANKS
  <2>1. (k + 2) * BUFFER_SIZE <= NUM_BANKS * BUFFER_SIZE
    BY <1>3, SizesAssumption, ProductMonotone
  <2>2. (k + 2) * BUFFER_SIZE = (k + 1) * BUFFER_SIZE + BUFFER_SIZE
    <3>1. k + 1 \in Nat /\ BUFFER_SIZE \in Nat
      BY SizesAssumption
    <3>2. (k + 1 + 1) * BUFFER_SIZE = (k + 1) * BUFFER_SIZE + BUFFER_SIZE
      BY <3>1, NextProduct
    <3>. QED BY <3>2
  <2>3. Capacity(k) = BUFFER_SIZE /\ NextBank(k) = k + 1
    BY <1>3, SizesAssumption DEF Capacity, NextBank
  <2>4. BUFFER_SIZE \in Nat /\ BUFFER_SIZE > 3 /\ k + 1 \in 0 .. NUM_BANKS - 1
    BY <1>3, SizesAssumption DEF HeaderSize
  <2>5. ChipCap = NUM_BANKS * BUFFER_SIZE - 3 /\ NUM_BANKS * BUFFER_SIZE \in Nat
    BY ChipSizes DEF ChipSize
  <2>. QED BY <1>1, <1>3, <2>1, <2>2, <2>3, <2>4, <2>5
<1>. QED BY <1>2, <1>3

(* Taking all the block has room for leads to the begin of the next.       *)
LEMMA NextBlock ==
  ASSUME NEW c \in Nat, NEW k \in 0 .. NUM_BANKS - 1
  PROVE  /\ c * ChipCap \in Nat /\ (c + 1) * ChipCap = c * ChipCap + ChipCap
         /\ c * ChipCap + k * BUFFER_SIZE + Capacity(k)
              = NextChip(c, k) * ChipCap + NextBank(k) * BUFFER_SIZE
         /\ c * ChipCap + k * BUFFER_SIZE + Capacity(k) <= (c + 1) * ChipCap
<1>1. (c + 1) * ChipCap = c * ChipCap + ChipCap /\ c * ChipCap \in Nat /\ ChipCap \in Nat
  BY ChipSizes, NextProduct
<1>2. /\ k * BUFFER_SIZE \in Nat /\ Capacity(k) \in Nat
      /\ k * BUFFER_SIZE + Capacity(k) <= ChipCap
  BY BankFits
<1>3. CASE k + 1 = NUM_BANKS
  <2>1. NextChip(c, k) = c + 1 /\ NextBank(k) = 0 /\ 0 * BUFFER_SIZE = 0
    BY <1>3, SizesAssumption DEF NextChip, NextBank
  <2>2. k * BUFFER_SIZE + Capacity(k) = ChipCap
    BY <1>3, BankFits
  <2>. QED BY <1>1, <1>2, <2>1, <2>2
<1>4. CASE k + 1 # NUM_BANKS
  <2>1. NextChip(c, k) = c /\ NextBank(k) = k + 1
    BY <1>4 DEF NextChip, NextBank
  <2>2. (k + 1) * BUFFER_SIZE = k * BUFFER_SIZE + Capacity(k)
    BY <1>4, BankFits
  <2>. QED BY <1>1, <1>2, <2>1, <2>2
<1>. QED BY <1>3, <1>4

LEMMA ChipReached ==
  ASSUME NEW c \in Nat, NEW k \in 0 .. NUM_BANKS - 1, NEW t \in Nat, NEW last \in Nat,
         c * ChipCap + k * BUFFER_SIZE < t, t <= (last + 1) * ChipCap
  PROVE  c <= last
<1>1. last + 1 <= c => (last + 1) * ChipCap <= c * ChipCap
  BY ChipSizes, ProductMonotone
<1>2. c * ChipCap \in Nat /\ k * BUFFER_SIZE \in Nat /\ (last + 1) * ChipCap \in Nat
  BY BankFits, NextBlock, ChipSizes, NextProduct
<1>. QED BY <1>1, <1>2

(* What a block takes when s bytes are left to go, which may count the     *)
(* three bytes each chip falls short: the rest of the stream, or all the   *)
(* block has room for, and then the next block begins where this ends.     *)
Takes(k, s) ==
  LET n == BlockSize(s)
  IN  IF k = NUM_BANKS - 1 THEN Smaller(n, BUFFER_SIZE - HeaderSize) ELSE n

LEMMA TakenOfStream ==
  ASSUME NEW k \in 0 .. NUM_BANKS - 1, NEW s \in Nat \ {0}
  PROVE  /\ Takes(k, s) = Smaller(s, Capacity(k))
         /\ Takes(k, s) \in 1 .. Capacity(k) /\ Takes(k, s) <= s
BY SizesAssumption DEF Takes, BlockSize, Smaller, Capacity, HeaderSize

LEMMA SaveTakes ==
  ASSUME NEW c \in Nat, NEW k \in 0 .. NUM_BANKS - 1, NEW m \in Nat, NEW t \in Nat,
         m = c * ChipCap + k * BUFFER_SIZE, m < t
  PROVE  LET take == Takes(k, t - m)
         IN  /\ take \in 1 .. Capacity(k) /\ m + take <= t
             /\ m + take < t =>
                  m + take = NextChip(c, k) * ChipCap + NextBank(k) * BUFFER_SIZE
<1>. DEFINE take == Takes(k, t - m)
<1>1. /\ take = Smaller(t - m, Capacity(k)) /\ take \in 1 .. Capacity(k) /\ take <= t - m
  <2>1. t - m \in Nat \ {0}
    OBVIOUS
  <2>. QED BY <2>1, TakenOfStream
<1>2. Capacity(k) \in Nat
  BY BankFits
<1>. HIDE DEF take
<1>3. m + take <= t /\ (m + take < t => take = Capacity(k))
  BY <1>1, <1>2 DEF Smaller
<1>. QED BY <1>1, <1>3, NextBlock DEF take

LEMMA CheckTakes ==
  ASSUME NEW c \in Nat, NEW k \in 0 .. NUM_BANKS - 1, NEW m \in Nat, NEW t \in Nat,
         NEW last \in Nat, NEW s \in Nat \ {0},
         m = c * ChipCap + k * BUFFER_SIZE, m < t,
         t <= (last + 1) * ChipCap, last > 0 => t > last * ChipCap,
         s = t - m + HeaderSize * (last - c)
  PROVE  LET take == Takes(k, s)
             left == s - BlockSize(s)
         IN  /\ take \in 1 .. Capacity(k) /\ m + take <= t /\ left \in Nat
             /\ left = 0 <=> m + take = t
             /\ left > 0 =>
                  /\ m + take = NextChip(c, k) * ChipCap + NextBank(k) * BUFFER_SIZE
                  /\ left = t - (m + take) + HeaderSize * (last - NextChip(c, k))
<1>. DEFINE take == Takes(k, s)
            left == s - BlockSize(s)
<1>1. take = Smaller(s, Capacity(k)) /\ take \in 1 .. Capacity(k)
  BY TakenOfStream
<1>2. /\ Capacity(k) \in Nat \ {0} /\ k * BUFFER_SIZE \in Nat
      /\ k * BUFFER_SIZE + Capacity(k) <= ChipCap
      /\ BUFFER_SIZE \in Nat /\ BUFFER_SIZE > 3 /\ HeaderSize = 3
      /\ ChipCap \in Nat
  BY BankFits, SizesAssumption, ChipSizes DEF HeaderSize
<1>3. /\ c <= last
      /\ c * ChipCap \in Nat /\ (c + 1) * ChipCap = c * ChipCap + ChipCap
      /\ m + Capacity(k) = NextChip(c, k) * ChipCap + NextBank(k) * BUFFER_SIZE
      /\ m + Capacity(k) <= (c + 1) * ChipCap
  BY ChipReached, NextBlock
<1>4. left = IF s < BUFFER_SIZE THEN 0 ELSE s - BUFFER_SIZE
  BY <1>2 DEF BlockSize, Smaller
<1>5. /\ Capacity(k) = BUFFER_SIZE /\ NextChip(c, k) = c /\ k + 1 # NUM_BANKS
      \/ /\ Capacity(k) = BUFFER_SIZE - 3 /\ NextChip(c, k) = c + 1
         /\ k * BUFFER_SIZE + Capacity(k) = ChipCap
  BY <1>2, BankFits, SizesAssumption DEF Capacity, NextChip
<1>. HIDE DEF take, left
<1>6. CASE c = last
  <2>1. s = t - m /\ t - m <= ChipCap - k * BUFFER_SIZE
    BY <1>2, <1>3, <1>6
  <2>. QED BY <1>1, <1>2, <1>3, <1>4, <1>5, <1>6, <2>1 DEF Smaller, take, left
<1>7. CASE c < last
  <2>1. (c + 1) * ChipCap <= last * ChipCap /\ last * ChipCap \in Nat
    BY <1>2, <1>7, ProductMonotone
  <2>2. t - m > Capacity(k)
    BY <1>2, <1>3, <1>7, <2>1
  <2>3. s > BUFFER_SIZE /\ s > Capacity(k)
    BY <1>2, <1>3, <1>5, <1>7, <2>2
  <2>4. take = Capacity(k) /\ left = s - BUFFER_SIZE
    BY <1>1, <1>2, <1>4, <2>3 DEF Smaller
  <2>. QED BY <1>1, <1>2, <1>3, <1>5, <1>7, <2>2, <2>3, <2>4 DEF take, left
<1>. QED BY <1>3, <1>6, <1>7

(***************************************************************************)
(* A reader in the middle of the stream.                                   *)
(***************************************************************************)
(* The byte of a block is that of the stream.                              *)
LEMMA BlockInRam ==
  ASSUME NEW c \in 0 .. NUM_CHIPS - 1, NEW k \in 0 .. NUM_BANKS - 1, NEW i \in 1 .. Capacity(k)
  PROVE  InRam(c * ChipCap + k * BUFFER_SIZE + i) = mem[c][k * BUFFER_SIZE + (i - 1)]
<1>. DEFINE n == c * ChipCap + k * BUFFER_SIZE + i
            x == n - 1
            a == k * BUFFER_SIZE + (i - 1)
<1>1. k * BUFFER_SIZE \in Nat /\ Capacity(k) \in Nat /\ c * ChipCap \in Nat
      /\ k * BUFFER_SIZE + Capacity(k) <= ChipCap /\ ChipCap \in Nat \ {0}
      /\ c \in Nat /\ NUM_CHIPS \in Nat \ {0}
  BY BankFits, NextBlock, ChipSizes, SizesAssumption
<1>2. a \in 0 .. ChipCap - 1 /\ x \in Nat /\ x = c * ChipCap + a
  BY <1>1
<1>3. c % NUM_CHIPS = c
  BY <1>1, SmallRemainder
<1>. HIDE DEF x, a
<1>4. x \div ChipCap = c /\ x % ChipCap = a
  <2>1. ChipCap \in Nat \ {0} /\ c \in Nat /\ a \in 0 .. ChipCap - 1 /\ x \in Nat
        /\ x = c * ChipCap + a
    BY <1>1, <1>2
  <2>. QED BY ONLY <2>1, DivisionUnique
<1>5. InRam(n) = mem[(x \div ChipCap) % NUM_CHIPS][x % ChipCap]
  BY DEF InRam, x
<1>. HIDE DEF n
<1>6. InRam(n) = mem[c][a]
  BY <1>3, <1>4, <1>5
<1>. QED BY <1>6 DEF n, a

LEMMA SeqElement ==
  ASSUME NEW S, NEW s \in Seq(S), NEW n \in 1 .. Len(s)
  PROVE  s[n] \in S
OBVIOUS

LEMMA WiderSeq ==
  ASSUME NEW S, NEW T, S \subseteq T, NEW s \in Seq(S)
  PROVE  s \in Seq(T) /\ Len(s) \in Nat
<1>1. Len(s) \in Nat /\ \A n \in 1 .. Len(s) : s[n] \in T
  OBVIOUS
<1>2. s = [n \in 1 .. Len(s) |-> s[n]]
  OBVIOUS
<1>. QED BY <1>1, <1>2

LEMMA SameSeq ==
  ASSUME NEW S, NEW s \in Seq(S), NEW t \in Seq(S), Len(s) = Len(t),
         \A n \in 1 .. Len(s) : s[n] = t[n]
  PROVE  s = t
OBVIOUS

LEMMA LessSum ==
  ASSUME NEW a \in Int, NEW b \in Int, NEW x \in Int, NEW y \in Int,
         a <= b, x \in {y, 0}, y >= 1
  PROVE  /\ a + x <= b + y
         /\ a < b \/ x # y => a + x < b + y
OBVIOUS

(* Numbers of which some have become 0 add up to less.                     *)
LEMMA FadedSum ==
  ASSUME NEW s \in Seq(Int), NEW t \in Seq(Int), Len(s) = Len(t),
         \A n \in 1 .. Len(s) : s[n] \in {t[n], 0}, \A n \in 1 .. Len(t) : t[n] >= 1,
         SumOf(s) = SumOf(t)
  PROVE  s = t
<1> SUFFICES ASSUME NEW j \in 1 .. Len(s), s[j] # t[j] PROVE FALSE
  BY SameSeq
<1>. DEFINE l == Len(s)
<1>1. PICK f \in [0 .. l -> Int] : AddsUp(f, s, l)
  BY SumsExist
<1>2. PICK g \in [0 .. l -> Int] : AddsUp(g, t, l)
  BY SumsExist
<1>3. SumOf(s) = f[l] /\ SumOf(t) = g[l]
  BY <1>1, <1>2, SumIs
<1>. DEFINE Less(n) == f[n] <= g[n] /\ (n >= j => f[n] < g[n])
            Bad == {n \in 0 .. l : ~Less(n)}
<1>4. l \in Nat /\ j \in Nat /\ j <= l /\ j >= 1 /\ Bad \in SUBSET Nat
  OBVIOUS
<1>5. Bad = {}
  <2> SUFFICES ASSUME Bad # {} PROVE FALSE
    OBVIOUS
  <2>1. PICK m \in Bad : \A n \in Bad : m <= n
    <3>. HIDE DEF Bad
    <3>. QED BY <1>4, LeastNatural
  <2>2. m \in 0 .. l /\ ~Less(m)
    OBVIOUS
  <2>3. f[0] = 0 /\ g[0] = 0
    BY <1>1, <1>2 DEF AddsUp
  <2>4. m # 0
    BY <1>4, <2>2, <2>3
  <2>5. m - 1 \in 0 .. l /\ m \in 1 .. l /\ m \in Nat /\ ~(m <= m - 1)
    BY <1>4, <2>2, <2>4
  <2>6. Less(m - 1)
    BY <2>1, <2>5
  <2>7. f[m] = f[m - 1] + s[m] /\ g[m] = g[m - 1] + t[m]
    BY <1>1, <1>2, <2>5 DEF AddsUp
  <2>8. /\ s[m] \in Int /\ t[m] \in Int /\ s[m] \in {t[m], 0} /\ t[m] >= 1
        /\ m = j => s[m] # t[m]
    <3>1. m \in 1 .. Len(s) /\ m \in 1 .. Len(t)
      BY <2>5
    <3>. QED BY <3>1
  <2>9. f[m - 1] \in Int /\ g[m - 1] \in Int
    BY <2>5
  <2>10. /\ f[m - 1] + s[m] <= g[m - 1] + t[m]
         /\ f[m - 1] < g[m - 1] \/ s[m] # t[m] => f[m - 1] + s[m] < g[m - 1] + t[m]
    <3>1. f[m - 1] <= g[m - 1]
      BY <2>6
    <3>. QED BY <2>8, <2>9, <3>1, LessSum
  <2>11. Less(m)
    <3>1. f[m] <= g[m] /\ (m = j => f[m] < g[m])
      BY <2>7, <2>8, <2>10
    <3>2. ASSUME m >= j, m # j PROVE f[m] < g[m]
      <4>1. m - 1 >= j
        BY <1>4, <2>5, <3>2
      <4>2. f[m - 1] < g[m - 1]
        BY <2>6, <4>1
      <4>. QED BY <2>7, <2>10, <4>2
    <3>. QED BY <3>1, <3>2
  <2>. QED BY <2>2, <2>11
<1>6. f[l] # g[l]
  <2>1. l \in 0 .. l /\ l >= j
    BY <1>4
  <2>2. l >= j => f[l] < g[l]
    <3>1. Less(l)
      <4>. HIDE DEF Less
      <4>. QED BY <1>5, <2>1
    <3>. QED BY <3>1
  <2>3. f[l] \in Int /\ g[l] \in Int
    BY <2>1
  <2>. QED BY <2>1, <2>2, <2>3
<1>. QED BY <1>3, <1>6

(* What the state's types say of the readers' variables. *)
LEMMA ReaderTypes ==
  ASSUME RBInv
  PROVE  /\ rd = [size |-> rd.size, chip |-> rd.chip, bank |-> rd.bank, sum |-> rd.sum]
         /\ rd.size \in Nat /\ rd.sum \in Int
         /\ rd.chip \in Nat /\ rd.bank \in 0 .. NUM_BANKS - 1
         /\ seen \in Seq(Cell) /\ Len(seen) \in Nat /\ seen \in Seq(Int)
         /\ stream \in Seq(1 .. MaxBytes) /\ stream \in Seq(Cell) /\ stream \in Seq(Int)
         /\ Len(stream) \in Nat /\ total \in Nat /\ chip_no \in Nat /\ checksum \in Nat
         /\ buffer \in [Slot -> [0 .. BUFFER_SIZE - 1 -> Cell]]
         /\ mem \in [Chip -> [0 .. ChipSize - 1 -> Cell]]
         /\ mode \in [Chip -> {"byte", "seq"}] /\ sel \in Chip
<1>1. /\ rd \in [size : Nat, chip : Nat, bank : 0 .. NUM_BANKS - 1, sum : Int]
      /\ seen \in Seq(Cell)
  BY DEF RBInv, ReadBackType
<1>2. TypeOK
  BY DEF RBInv, RingInv
<1>3. stream \in Seq(1 .. MaxBytes)
  BY <1>2 DEF TypeOK, UserType
<1>4. 1 .. MaxBytes \subseteq Cell /\ 1 .. MaxBytes \subseteq Int /\ Cell \subseteq Int
  BY ClientAssumption DEF Cell, WriteCmd
<1>5. stream \in Seq(Cell) /\ stream \in Seq(Int) /\ Len(stream) \in Nat
  BY <1>3, <1>4, WiderSeq
<1>6. seen \in Seq(Int) /\ Len(seen) \in Nat
  BY <1>1, <1>4, WiderSeq
<1>. QED
  BY <1>1, <1>2, <1>3, <1>5, <1>6, SizesAssumption DEF TypeOK, BufferType, DmaType, ChipType

LEMMA ReaderAt ==
  ASSUME RBInv, kept, Reading, rd.size > 0
  PROVE  /\ Len(seen) = rd.chip * ChipCap + rd.bank * BUFFER_SIZE /\ Len(seen) < total
         /\ rd.size = SizeLeft /\ rd.size \in Nat \ {0}
         /\ EndsInLastChip
         /\ rd.chip <= chip_no /\ rd.chip \in 0 .. NUM_CHIPS - 1
         /\ sel = rd.chip /\ mode[sel] = "seq"
<1>1. /\ Len(seen) = rd.chip * ChipCap + rd.bank * BUFFER_SIZE
      /\ Left > 0 /\ rd.size = SizeLeft /\ sel = rd.chip
  BY DEF RBInv, ReaderInv
<1>2. Len(seen) < total
  BY <1>1, ReaderTypes DEF Left
<1>3. EndsInLastChip /\ cmd # "read"
  BY DEF RBInv, KeptInv, Reading
<1>4. rd.chip <= chip_no
  BY <1>1, <1>2, <1>3, ReaderTypes, ChipReached DEF EndsInLastChip
<1>5. rd.chip \in 0 .. NUM_CHIPS - 1 /\ rd.chip \in 0 .. chip_no
  BY <1>3, <1>4, ReaderTypes, SizesAssumption, SMTT(20) DEF EndsInLastChip
<1>6. mode[sel] = "seq"
  <2>1. total > 0
    BY <1>2, ReaderTypes
  <2>. QED BY <1>1, <1>3, <1>5, <2>1 DEF EndsInLastChip
<1>. QED BY <1>1, <1>2, <1>3, <1>4, <1>5, <1>6, ReaderTypes

LEMMA NextTypes ==
  ASSUME NEW c \in Nat, NEW k \in 0 .. NUM_BANKS - 1
  PROVE  /\ NextChip(c, k) \in Nat /\ NextBank(k) \in 0 .. NUM_BANKS - 1
         /\ NextChip(c, k) <= c + 1
BY SizesAssumption DEF NextChip, NextBank

LEMMA FunctionSeq ==
  ASSUME NEW S, NEW n \in Nat, NEW f, f = [i \in 1 .. n |-> f[i]], \A i \in 1 .. n : f[i] \in S
  PROVE  f \in Seq(S) /\ Len(f) = n
OBVIOUS

LEMMA ConcatSeq ==
  ASSUME NEW S, NEW s \in Seq(S), NEW t \in Seq(S)
  PROVE  /\ s \o t \in Seq(S) /\ Len(s) \in Nat /\ Len(t) \in Nat
         /\ Len(s \o t) = Len(s) + Len(t)
         /\ \A n \in 1 .. Len(s) : (s \o t)[n] = s[n]
         /\ \A n \in Len(s) + 1 .. Len(s) + Len(t) : (s \o t)[n] = t[n - Len(s)]
OBVIOUS

(* One pass of a loop: the types of what it leaves, whatever it reads.     *)
LEMMA AdvanceTypes ==
  ASSUME RBInv, NEW take \in 1 .. BUFFER_SIZE, NEW step \in Nat, step <= rd.size,
         NEW inMode, Advance(take, step, inMode)
  PROVE  /\ buffer' \in [Slot -> [0 .. BUFFER_SIZE - 1 -> Cell]]
         /\ sel' \in Chip
         /\ NextChip(rd.chip, rd.bank) < NUM_CHIPS =>
              sel' = IF rd.bank + 1 = NUM_BANKS THEN NextChip(rd.chip, rd.bank) ELSE sel
         /\ Taken(take, inMode) \in Seq(Cell) /\ Len(Taken(take, inMode)) = take
         /\ Taken(take, inMode) \in Seq(Int)
         /\ seen' = seen \o Taken(take, inMode)
         /\ seen' \in Seq(Cell) /\ Len(seen') = Len(seen) + take
         /\ rd' \in [size : Nat, chip : Nat, bank : 0 .. NUM_BANKS - 1, sum : Int]
         /\ rd'.size = rd.size - step /\ rd'.sum = rd.sum + SumOf(Taken(take, inMode))
         /\ rd'.chip = NextChip(rd.chip, rd.bank) /\ rd'.bank = NextBank(rd.bank)
<1>. DEFINE c == rd.chip
            k == rd.bank
            new == Taken(take, inMode)
<1>1. c \in Nat /\ k \in 0 .. NUM_BANKS - 1 /\ sel \in Chip /\ rd.size \in Nat
  BY ReaderTypes
<1>2. take \in Nat /\ take <= BUFFER_SIZE /\ BUFFER_SIZE \in Nat
  BY SizesAssumption
<1>3. /\ seen' = seen \o new
      /\ rd' = [size |-> rd.size - step, chip |-> NextChip(c, k), bank |-> NextBank(k),
                sum |-> rd.sum + SumOf(new)]
      /\ sel' = IF k + 1 = NUM_BANKS THEN (c + 1) % NUM_CHIPS ELSE sel
  BY DEF Advance, NextChip, NextBank
<1>4. ASSUME NEW i \in 0 .. BUFFER_SIZE - 1 PROVE BlockByte(i, inMode) \in Cell
  <2>1. i \in 0 .. BUFFER_SIZE /\ i < BUFFER_SIZE
    BY <1>2
  <2>2. k * BUFFER_SIZE + i \in 0 .. ChipSize - 1
    BY ONLY <1>1, <2>1, BankOffset
  <2>3. 0 \in Cell
    BY ClientAssumption DEF Cell
  <2>. QED BY <2>2, <2>3, ReaderTypes DEF BlockByte
<1>5. buffer' \in [Slot -> [0 .. BUFFER_SIZE - 1 -> Cell]]
  <2>1. buffer' = [buffer EXCEPT ![0] = [i \in DOMAIN @ |-> BlockByte(i, inMode)]]
    BY DEF Advance
  <2>2. 0 \in Slot /\ buffer \in [Slot -> [0 .. BUFFER_SIZE - 1 -> Cell]]
    <3>1. NUM_BUFFER \in Nat /\ NUM_BUFFER > 1
      BY SizesAssumption
    <3>2. 0 \in Slot
      BY ONLY <3>1 DEF Slot
    <3>. QED BY <3>2, ReaderTypes
  <2>3. DOMAIN buffer[0] = 0 .. BUFFER_SIZE - 1
    BY <2>2
  <2>. QED BY ONLY <1>4, <2>1, <2>2, <2>3
<1>6. new \in Seq(Cell) /\ new \in Seq(Int) /\ Len(new) = take
  <2>1. new = [i \in 1 .. take |-> BlockByte(i - 1, inMode)]
    BY DEF Taken
  <2>2. ASSUME NEW i \in 1 .. take PROVE BlockByte(i - 1, inMode) \in Cell
    <3>1. i - 1 \in 0 .. BUFFER_SIZE - 1
      BY <1>2
    <3>. QED BY <1>4, <3>1
  <2>. HIDE DEF new
  <2>3. new = [i \in 1 .. take |-> new[i]] /\ \A i \in 1 .. take : new[i] \in Cell
    BY <2>1, <2>2
  <2>4. new \in Seq(Cell) /\ Len(new) = take
    BY <1>2, <2>3, FunctionSeq
  <2>5. Cell \subseteq Int
    BY ClientAssumption DEF Cell, WriteCmd
  <2>. QED BY <2>4, <2>5, WiderSeq
<1>. HIDE DEF new
<1>7. seen' \in Seq(Cell) /\ Len(seen') = Len(seen) + take
  BY <1>3, <1>6, ConcatSeq, ReaderTypes
<1>8. NextChip(c, k) \in Nat /\ NextBank(k) \in 0 .. NUM_BANKS - 1
  BY <1>1, NextTypes
<1>9. /\ sel' \in Chip
      /\ NextChip(c, k) < NUM_CHIPS => sel' = IF k + 1 = NUM_BANKS THEN NextChip(c, k) ELSE sel
  <2>1. CASE k + 1 = NUM_BANKS
    <3>0. c + 1 \in Nat
      BY <1>1
    <3>1. sel' = (c + 1) % NUM_CHIPS /\ NextChip(c, k) = c + 1
      BY <1>3, <2>1 DEF NextChip
    <3>2. (c + 1) % NUM_CHIPS \in 0 .. NUM_CHIPS - 1
      BY <3>0, DivisionOf, SizesAssumption
    <3>3. c + 1 < NUM_CHIPS => (c + 1) % NUM_CHIPS = c + 1
      BY <3>0, SmallRemainder, SizesAssumption
    <3>. QED BY <2>1, <3>1, <3>2, <3>3 DEF Chip
  <2>2. CASE k + 1 # NUM_BANKS
    BY <1>1, <1>3, <2>2
  <2>. QED BY <2>1, <2>2
<1>10. rd.sum + SumOf(new) \in Int /\ rd.size - step \in Nat
  <2>1. SumOf(new) \in Int
    BY <1>6, SumType
  <2>2. rd.sum \in Int
    BY ReaderTypes
  <2>3. rd.size - step \in Nat
    BY <1>1
  <2>. QED BY <2>1, <2>2, <2>3
<1>11. rd' \in [size : Nat, chip : Nat, bank : 0 .. NUM_BANKS - 1, sum : Int]
  BY <1>3, <1>8, <1>10
<1>. QED
  BY <1>3, <1>5, <1>6, <1>7, <1>9, <1>11 DEF new

(* It reads the next bytes of the stream, if it takes no more than are     *)
(* left.                                                                   *)
LEMMA AdvanceReads ==
  ASSUME RBInv, kept, Reading, rd.size > 0, NEW take, NEW step \in Nat, step <= rd.size,
         take \in 1 .. Capacity(rd.bank), Len(seen) + take <= total,
         Advance(take, step, "seq")
  PROVE  /\ take \in 1 .. BUFFER_SIZE
         /\ NextChip(rd.chip, rd.bank) < NUM_CHIPS => sel' = NextChip(rd.chip, rd.bank)
         /\ \A n \in 1 .. Len(seen') : seen'[n] = InRam(n)
         /\ rd'.sum = SumOf(seen') /\ rd'.chip <= NUM_CHIPS
<1>. DEFINE c == rd.chip
            k == rd.bank
            m == Len(seen)
            new == Taken(take, "seq")
<1>1. /\ c \in 0 .. NUM_CHIPS - 1 /\ c \in Nat /\ k \in 0 .. NUM_BANKS - 1 /\ m \in Nat
      /\ m = c * ChipCap + k * BUFFER_SIZE
      /\ sel = c /\ total \in Nat
  BY ReaderTypes, ReaderAt
<1>2. take \in Nat /\ Capacity(k) \in Nat /\ c * ChipCap \in Nat /\ k * BUFFER_SIZE \in Nat
  BY <1>1, BankFits, NextBlock
<1>3. take \in 1 .. BUFFER_SIZE
  <2>1. Capacity(k) <= BUFFER_SIZE /\ BUFFER_SIZE \in Nat
    BY SizesAssumption DEF Capacity, HeaderSize
  <2>. QED BY <1>2, <2>1
<1>4. /\ seen' = seen \o new /\ new \in Seq(Cell) /\ new \in Seq(Int) /\ Len(new) = take
      /\ Len(seen') = m + take
      /\ rd'.sum = rd.sum + SumOf(new) /\ rd'.chip = NextChip(c, k)
      /\ NextChip(c, k) < NUM_CHIPS => sel' = IF k + 1 = NUM_BANKS THEN NextChip(c, k) ELSE sel
  BY <1>3, AdvanceTypes
<1>5. ASSUME NEW i \in 1 .. take PROVE new[i] = InRam(m + i)
  <2>1. i \in 1 .. Capacity(k)
    BY <1>2
  <2>2. new[i] = mem[c][k * BUFFER_SIZE + (i - 1)]
    BY <1>1 DEF Taken, BlockByte
  <2>3. InRam(c * ChipCap + k * BUFFER_SIZE + i) = mem[c][k * BUFFER_SIZE + (i - 1)]
    BY <1>1, <2>1, BlockInRam
  <2>4. m + i = c * ChipCap + k * BUFFER_SIZE + i
    BY <1>1
  <2>. HIDE DEF new, m, c, k
  <2>. QED BY <2>2, <2>3, <2>4
<1>. HIDE DEF new, m
<1>6. /\ \A n \in 1 .. m : seen'[n] = seen[n]
      /\ \A n \in m + 1 .. m + take : seen'[n] = new[n - m]
  <2>1. seen \in Seq(Cell)
    BY ReaderTypes
  <2>. QED BY <1>4, <2>1, ConcatSeq DEF m
<1>7. ASSUME NEW n \in 1 .. Len(seen') PROVE seen'[n] = InRam(n)
  <2>1. CASE n <= m
    <3>1. \A j \in 1 .. m : seen[j] = InRam(j)
      BY DEF RBInv, ReaderInv, m
    <3>. QED BY <1>1, <1>6, <2>1, <3>1
  <2>2. CASE ~(n <= m)
    <3>0. n \in Nat /\ n <= m + take /\ m \in Nat /\ take \in Nat
      BY <1>1, <1>2, <1>4
    <3>1. n - m \in 1 .. take /\ n \in m + 1 .. m + take /\ m + (n - m) = n
      BY <2>2, <3>0
    <3>2. new[n - m] = InRam(m + (n - m))
      BY <1>5, <3>1
    <3>. QED BY <1>6, <3>1, <3>2
  <2>. QED BY <2>1, <2>2
<1>8. rd'.sum = SumOf(seen')
  <2>1. SumOf(seen') = SumOf(seen) + SumOf(new)
    BY <1>4, ReaderTypes, SumConcat
  <2>2. rd.sum = SumOf(seen)
    BY DEF RBInv, ReaderInv
  <2>. QED BY <1>4, <2>1, <2>2
<1>9. NextChip(c, k) < NUM_CHIPS => sel' = NextChip(c, k)
  BY <1>1, <1>4 DEF NextChip
<1>10. rd'.chip <= NUM_CHIPS
  <2>1. NextChip(c, k) <= c + 1 /\ NextChip(c, k) \in Nat /\ NUM_CHIPS \in Nat
    BY <1>1, NextTypes, SizesAssumption
  <2>2. c \in 0 .. NUM_CHIPS - 1 /\ rd'.chip = NextChip(c, k)
    BY <1>1, <1>4
  <2>. HIDE DEF c, k
  <2>. QED BY ONLY <2>1, <2>2
<1>. QED
  BY <1>3, <1>7, <1>8, <1>9, <1>10

(* The state of the reader after a pass.                                   *)
LEMMA BlockRead ==
  ASSUME RBInv, kept, Reading, rd.size > 0, NEW take, NEW step \in Nat, step <= rd.size,
         take \in 1 .. Capacity(rd.bank), Len(seen) + take <= total,
         Advance(take, step, "seq"), cmd' \in {cmd, "loop"},
         UNCHANGED <<total, chip_no, mem, track, found>>,
         rd.size - step = 0 <=> Len(seen) + take = total,
         rd.size - step > 0 =>
           /\ Len(seen) + take
                = NextChip(rd.chip, rd.bank) * ChipCap + NextBank(rd.bank) * BUFFER_SIZE
           /\ rd.size - step = total - (Len(seen) + take)
                + (IF cmd = "save" THEN 0
                   ELSE HeaderSize * (chip_no - NextChip(rd.chip, rd.bank)))
  PROVE  ReaderInv'
<1> SUFFICES ASSUME Reading' PROVE ReaderInv'
  BY DEF ReaderInv
<1>1. cmd' = cmd
  BY DEF Reading
<1>. DEFINE c == NextChip(rd.chip, rd.bank)
            k == NextBank(rd.bank)
<1>2. /\ Len(seen') = Len(seen) + take
      /\ \A n \in 1 .. Len(seen') : seen'[n] = InRam(n)
      /\ rd'.size = rd.size - step /\ rd'.sum = SumOf(seen')
      /\ rd'.chip = c /\ rd'.bank = k /\ rd'.chip <= NUM_CHIPS
      /\ c < NUM_CHIPS => sel' = c
      /\ rd'.size \in Nat
  <2>1. /\ take \in 1 .. BUFFER_SIZE
        /\ c < NUM_CHIPS => sel' = c
        /\ \A n \in 1 .. Len(seen') : seen'[n] = InRam(n)
        /\ rd'.sum = SumOf(seen') /\ rd'.chip <= NUM_CHIPS
    BY AdvanceReads
  <2>. QED BY <2>1, AdvanceTypes
<1>3. \A n \in 1 .. Len(seen') : InRam(n)' = InRam(n)
  BY DEF InRam
<1>4. Len(seen') \in Nat /\ total \in Nat /\ Len(seen') <= total
  <2>1. take \in Nat /\ Len(seen) \in Nat /\ total \in Nat
    BY ReaderTypes, BankFits
  <2>. QED BY <1>2, <2>1
<1>5. ASSUME rd'.size > 0
      PROVE  /\ Left' > 0 /\ rd'.size = SizeLeft'
             /\ Len(seen') = c * ChipCap + k * BUFFER_SIZE /\ sel' = c
  <2>1. rd.size - step > 0 /\ Len(seen') < total /\ Left' = total - Len(seen')
    BY <1>2, <1>4, <1>5 DEF Left
  <2>2. Len(seen') = c * ChipCap + k * BUFFER_SIZE /\ rd'.size = SizeLeft'
    BY <1>1, <1>2, <2>1 DEF SizeLeft, Left
  <2>3. c \in Nat /\ k \in 0 .. NUM_BANKS - 1
    BY ReaderTypes, NextTypes
  <2>4. EndsInLastChip
    BY ReaderAt
  <2>5. c <= chip_no
    BY <1>4, <2>1, <2>2, <2>3, <2>4, ReaderTypes, ChipReached DEF EndsInLastChip
  <2>6. c < NUM_CHIPS
    BY <2>3, <2>4, <2>5, ReaderTypes, SizesAssumption, SMTT(20) DEF EndsInLastChip
  <2>. QED BY <1>2, <1>4, <2>1, <2>2, <2>6
<1>6. rd'.size = 0 => Left' = 0
  BY <1>2, <1>4 DEF Left
<1>7. Stored => Stored'
  BY DEF Stored, InRam
<1>8. cmd = "verify" => found /\ Stored
  BY DEF RBInv, ReaderInv
<1>. QED BY <1>1, <1>2, <1>3, <1>4, <1>5, <1>6, <1>7, <1>8 DEF ReaderInv, Reading

(***************************************************************************)
(* What the steps of the readers and the commands leave alone.             *)
(***************************************************************************)
LEMMA RingFrame ==
  ASSUME RingInv, UNCHANGED readOnly,
         buffer' \in [Slot -> [0 .. BUFFER_SIZE - 1 -> Cell]], sel' \in Chip,
         mode' \in [Chip -> {"byte", "seq"}], mem' \in [Chip -> [0 .. ChipSize - 1 -> Cell]]
  PROVE  RingInv'
<1>. USE DEF RingInv, TypeOK, readOnly, busVars, userVars
<1>1. BufferType' /\ DmaType' /\ ChipType' /\ UserType'
  BY DEF BufferType, DmaType, ChipType, UserType
<1>2. RingAccounting' /\ QuietOutside' /\ WriterHasData'
  BY DEF RingAccounting, QuietOutside, WriterHasData
<1>. QED BY <1>1, <1>2

LEMMA CountFrame ==
  ASSUME Counted, LoopInv, cmd # "read", UNCHANGED <<readOnly, buf, track>>
  PROVE  /\ Counted' /\ LoopInv'
         /\ UNCHANGED <<phase, total, chip_no, checksum, stream>>
BY DEF Counted, LoopInv, readOnly, userVars

(* A chip once in sequential mode stays in it, and the RAM holds its bytes *)
(* until a memory test leaves a 0.                                         *)
LEMMA KeptFrame ==
  ASSUME RBInv, cmd # "read", UNCHANGED <<total, chip_no, track, kept>>,
         \A n \in 1 .. total : InRam(n)' \in {InRam(n), 0},
         \A c \in Chip : mode[c] = "seq" => mode'[c] = "seq"
  PROVE  KeptInv'
<1> SUFFICES ASSUME kept PROVE EndsInLastChip' /\ Faded'
  BY DEF KeptInv
<1>1. EndsInLastChip /\ Faded
  BY DEF RBInv, KeptInv
<1>2. EndsInLastChip'
  <2>1. \A c \in 0 .. chip_no : c \in Chip
    BY <1>1, ReaderTypes, SizesAssumption DEF EndsInLastChip, Chip
  <2>. QED BY <1>1, <2>1 DEF EndsInLastChip
<1>3. Faded'
  BY <1>1 DEF Faded
<1>. QED BY <1>2, <1>3

LEMMA SameRam ==
  ASSUME mem' = mem
  PROVE  \A n : InRam(n)' = InRam(n)
BY DEF InRam

LEMMA InitModes ==
  ASSUME RBInv, multi_init
  PROVE  /\ mode' \in [Chip -> {"byte", "seq"}]
         /\ \A c \in Chip : mode[c] = "seq" => mode'[c] = "seq"
BY ReaderTypes DEF multi_init

(***************************************************************************)
(* The steps of a reader.                                                  *)
(***************************************************************************)
LEMMA BlockIsTaken ==
  ASSUME RBInv, rd.size > 0
  PROVE  /\ InBank(BlockSize(rd.size)) = Takes(rd.bank, rd.size)
         /\ Takes(rd.bank, rd.size) \in 1 .. BUFFER_SIZE
         /\ Takes(rd.bank, rd.size) <= rd.size
         /\ BlockSize(rd.size) \in Nat /\ BlockSize(rd.size) <= rd.size
<1>1. rd.bank \in 0 .. NUM_BANKS - 1 /\ rd.size \in Nat \ {0}
  BY ReaderTypes
<1>2. Takes(rd.bank, rd.size) \in 1 .. Capacity(rd.bank) /\ Takes(rd.bank, rd.size) <= rd.size
  BY <1>1, TakenOfStream
<1>3. Capacity(rd.bank) \in Nat /\ Capacity(rd.bank) <= BUFFER_SIZE
  BY <1>1, BankFits, SizesAssumption DEF Capacity, HeaderSize
<1>4. InBank(BlockSize(rd.size)) = Takes(rd.bank, rd.size)
  BY DEF InBank, Takes
<1>5. BlockSize(rd.size) \in Nat /\ BlockSize(rd.size) <= rd.size
  BY <1>1, SizesAssumption DEF BlockSize, Smaller
<1>. QED BY <1>2, <1>3, <1>4, <1>5, SizesAssumption

LEMMA CheckBlockKeeps ==
  ASSUME RBInv, CheckBlock
  PROVE  RBInv'
<1>. DEFINE take == Takes(rd.bank, rd.size)
            step == BlockSize(rd.size)
<1>1. /\ cmd \in {"verify", "check"} /\ Reading /\ rd.size > 0
      /\ UNCHANGED <<readOnly, chipVars, cmd, found, buf, file, cut, result, done, track,
                     kept, commands>>
      /\ Advance(take, step, mode[sel])
      /\ take \in 1 .. BUFFER_SIZE /\ step \in Nat /\ step <= rd.size
  BY BlockIsTaken DEF CheckBlock, Reading
<1>2. /\ UNCHANGED <<phase, total, chip_no, checksum, stream, mem, mode>>
      /\ Counted' /\ LoopInv'
  BY <1>1, CountFrame DEF RBInv, chipVars
<1>3. ReaderInv'
  <2> SUFFICES ASSUME kept PROVE ReaderInv'
    BY <1>1 DEF ReaderInv
  <2>1. /\ Len(seen) = rd.chip * ChipCap + rd.bank * BUFFER_SIZE /\ Len(seen) < total
        /\ rd.size = total - Len(seen) + HeaderSize * (chip_no - rd.chip)
        /\ rd.size \in Nat \ {0} /\ EndsInLastChip /\ mode[sel] = "seq"
    BY <1>1, ReaderAt DEF SizeLeft, Left
  <2>2. /\ take \in 1 .. Capacity(rd.bank) /\ Len(seen) + take <= total
        /\ rd.size - step = 0 <=> Len(seen) + take = total
        /\ rd.size - step > 0 =>
             /\ Len(seen) + take
                  = NextChip(rd.chip, rd.bank) * ChipCap + NextBank(rd.bank) * BUFFER_SIZE
             /\ rd.size - step = total - (Len(seen) + take)
                  + HeaderSize * (chip_no - NextChip(rd.chip, rd.bank))
    BY <2>1, ReaderTypes, CheckTakes DEF EndsInLastChip
  <2>. HIDE DEF take, step
  <2>. QED BY <1>1, <1>2, <2>1, <2>2, BlockRead
<1>. HIDE DEF take, step
<1>4. /\ buffer' \in [Slot -> [0 .. BUFFER_SIZE - 1 -> Cell]] /\ sel' \in Chip
      /\ seen' \in Seq(Cell)
      /\ rd' \in [size : Nat, chip : Nat, bank : 0 .. NUM_BANKS - 1, sum : Int]
  BY <1>1, AdvanceTypes
<1>5. RingInv'
  BY <1>1, <1>2, <1>4, ReaderTypes, RingFrame DEF RBInv
<1>6. ReadBackType'
  BY <1>1, <1>4, <1>5 DEF RBInv, RingInv, ReadBackType
<1>7. KeptInv' /\ SessionInv' /\ NoErrorYet' /\ FileInv' /\ Outcome'
  <2>1. cmd # "read" /\ cmd' = cmd /\ cmd # "loop" /\ cmd # "save"
    BY <1>1
  <2>2. KeptInv'
    BY <1>1, <1>2, <2>1, SameRam, KeptFrame
  <2>. QED
    BY <1>1, <2>1, <2>2
       DEF RBInv, SessionInv, NoErrorYet, FileInv, Outcome, GoodTrackPasses, SavedFileIsTrack
<1>. QED BY <1>2, <1>3, <1>5, <1>6, <1>7 DEF RBInv

(* What file_writer leaves of a block.                                     *)
LEMMA WrittenKeeps ==
  ASSUME file \in Seq(Cell), cut \in BOOLEAN, NEW s \in Seq(Cell), FirstOf(file, s),
         cut \/ file = s, NEW block \in Seq(Cell), NEW error, Written(block, error)
  PROVE  /\ file' \in Seq(Cell) /\ cut' \in BOOLEAN
         /\ FirstOf(file', s \o block)
         /\ error = STATUS_OK => cut' \/ file' = s \o block
<1>1. CASE ~cut /\ file' = file \o block /\ UNCHANGED cut
  BY <1>1, ConcatSeq DEF FirstOf
<1>2. ASSUME NEW n \in 0 .. Len(block) - 1, cut => n = 0,
             file' = file \o SubSeq(block, 1, n),
             \/ error = ERROR_FILE_WRITE /\ UNCHANGED cut
             \/ error = STATUS_OK /\ cut' = TRUE
      PROVE  /\ file' \in Seq(Cell) /\ cut' \in BOOLEAN
             /\ FirstOf(file', s \o block)
             /\ error = STATUS_OK => cut'
  <2>. DEFINE part == SubSeq(block, 1, n)
  <2>1. /\ part \in Seq(Cell) /\ Len(part) = n /\ n \in Nat /\ n <= Len(block)
        /\ \A j \in 1 .. n : part[j] = block[j]
    OBVIOUS
  <2>. HIDE DEF part
  <2>2. /\ file' = file \o part /\ file' \in Seq(Cell) /\ Len(file') = Len(file) + n
        /\ Len(file) \in Nat /\ Len(s) \in Nat /\ Len(block) \in Nat
        /\ \A j \in 1 .. Len(file) : file'[j] = file[j]
        /\ \A j \in Len(file) + 1 .. Len(file) + n : file'[j] = part[j - Len(file)]
    BY <1>2, <2>1, ConcatSeq DEF part
  <2>3. /\ Len(s \o block) = Len(s) + Len(block)
        /\ \A j \in 1 .. Len(s) : (s \o block)[j] = s[j]
        /\ \A j \in Len(s) + 1 .. Len(s) + Len(block) : (s \o block)[j] = block[j - Len(s)]
    BY ConcatSeq
  <2>4. FirstOf(file', s \o block)
    <3>1. CASE n = 0
      BY <2>2, <2>3, <3>1 DEF FirstOf
    <3>2. CASE file = s
      <4>1. Len(file') <= Len(s \o block)
        BY <2>1, <2>2, <2>3, <3>2
      <4>2. ASSUME NEW j \in 1 .. Len(file') PROVE file'[j] = (s \o block)[j]
        <5>1. CASE j <= Len(s)
          BY <2>2, <2>3, <3>2, <5>1
        <5>2. CASE ~(j <= Len(s))
          <6>1. j - Len(s) \in 1 .. n /\ j \in Len(s) + 1 .. Len(s) + n
                /\ j \in Len(s) + 1 .. Len(s) + Len(block)
            BY <2>1, <2>2, <3>2, <5>2
          <6>. QED BY <2>1, <2>2, <2>3, <3>2, <6>1
        <5>. QED BY <5>1, <5>2
      <4>. QED BY <4>1, <4>2 DEF FirstOf
    <3>. QED BY <1>2, <3>1, <3>2
  <2>5. cut' \in BOOLEAN /\ (error = STATUS_OK => cut')
    <3>1. STATUS_OK # ERROR_FILE_WRITE
      BY DEF STATUS_OK, ERROR_FILE_WRITE
    <3>2. CASE error = ERROR_FILE_WRITE /\ cut' = cut
      BY <3>1, <3>2
    <3>3. CASE error = STATUS_OK /\ cut' = TRUE
      BY <3>3
    <3>. QED BY <1>2, <3>2, <3>3
  <2>. QED BY <2>2, <2>4, <2>5
<1>. QED BY <1>1, <1>2 DEF Written

LEMMA SaveBlockKeeps ==
  ASSUME RBInv, SaveBlock
  PROVE  RBInv'
<1>. DEFINE take == Takes(rd.bank, rd.size)
            new  == Taken(take, "seq")
<1>1. /\ cmd = "save" /\ Reading /\ rd.size > 0 /\ multi_init
      /\ UNCHANGED <<readOnly, mem, found, buf, track, kept, commands>>
      /\ Advance(take, take, "seq")
      /\ take \in 1 .. BUFFER_SIZE /\ take \in Nat /\ take <= rd.size
  BY BlockIsTaken, SizesAssumption DEF SaveBlock, Reading
<1>2. UNCHANGED <<phase, total, chip_no, checksum, stream, mem>> /\ Counted' /\ LoopInv'
  BY <1>1, CountFrame DEF RBInv
<1>3. PICK error \in {STATUS_OK, ERROR_FILE_WRITE} :
        /\ Written(new, error)
        /\ IF error = STATUS_OK THEN UNCHANGED <<cmd, result, done>> ELSE SaveEndsWith(error)
  BY <1>1, BlockIsTaken DEF SaveBlock
<1>4. /\ cmd' \in {cmd, "loop"} /\ cmd' \in {"save", "loop"}
      /\ cmd' = "save" => error = STATUS_OK
      /\ cmd' = "loop" => done' = "save" /\ result' # STATUS_OK
      /\ result' \in 0 .. 255 /\ done' \in {"none", "read", "check", "save", "memory"}
  <2>1. result \in 0 .. 255 /\ done \in {"none", "read", "check", "save", "memory"}
    BY DEF RBInv, ReadBackType
  <2>2. CASE error = STATUS_OK
    BY <1>1, <1>3, <2>1, <2>2
  <2>3. CASE error # STATUS_OK
    BY <1>3, <2>3 DEF SaveEndsWith, STATUS_OK, ERROR_FILE_WRITE
  <2>. QED BY <2>2, <2>3
<1>5. ReaderInv'
  <2> SUFFICES ASSUME kept PROVE ReaderInv'
    BY <1>1 DEF ReaderInv
  <2>1. /\ Len(seen) = rd.chip * ChipCap + rd.bank * BUFFER_SIZE /\ Len(seen) < total
        /\ rd.size = total - Len(seen) /\ rd.size \in Nat
        /\ total \in Nat /\ Len(seen) \in Nat
    BY <1>1, ReaderAt, ReaderTypes DEF SizeLeft, Left
  <2>2. /\ take \in 1 .. Capacity(rd.bank) /\ Len(seen) + take <= total
        /\ Len(seen) + take < total =>
             Len(seen) + take
               = NextChip(rd.chip, rd.bank) * ChipCap + NextBank(rd.bank) * BUFFER_SIZE
    BY <2>1, ReaderTypes, SaveTakes
  <2>. HIDE DEF take
  <2>3. /\ rd.size - take = 0 <=> Len(seen) + take = total
        /\ rd.size - take > 0 => Len(seen) + take < total
        /\ rd.size - take = total - (Len(seen) + take)
        /\ total - (Len(seen) + take) + 0 = rd.size - take
    <3>1. take \in Nat
      BY <1>1
    <3>. QED BY ONLY <2>1, <2>2, <3>1
  <2>4. UNCHANGED <<total, chip_no, mem, track, found>> /\ cmd' \notin {"verify", "check"}
    BY <1>1, <1>2, <1>4
  <2>5. rd.size - take > 0 =>
          /\ Len(seen) + take
               = NextChip(rd.chip, rd.bank) * ChipCap + NextBank(rd.bank) * BUFFER_SIZE
          /\ rd.size - take = total - (Len(seen) + take)
               + (IF cmd = "save" THEN 0
                  ELSE HeaderSize * (chip_no - NextChip(rd.chip, rd.bank)))
    BY <1>1, <2>2, <2>3
  <2>. QED BY <1>1, <1>4, <2>2, <2>3, <2>4, <2>5, BlockRead
<1>. HIDE DEF take, new
<1>6. /\ buffer' \in [Slot -> [0 .. BUFFER_SIZE - 1 -> Cell]] /\ sel' \in Chip
      /\ seen' \in Seq(Cell) /\ new \in Seq(Cell) /\ seen' = seen \o new
      /\ rd' \in [size : Nat, chip : Nat, bank : 0 .. NUM_BANKS - 1, sum : Int]
  BY <1>1, AdvanceTypes DEF new
<1>7. /\ file' \in Seq(Cell) /\ cut' \in BOOLEAN
      /\ FirstOf(file', seen') /\ (error = STATUS_OK => cut' \/ file' = seen')
  <2>1. /\ file \in Seq(Cell) /\ cut \in BOOLEAN /\ seen \in Seq(Cell)
        /\ FirstOf(file, seen) /\ (cut \/ file = seen)
    BY <1>1 DEF RBInv, ReadBackType, FileInv
  <2>. QED BY <1>3, <1>6, <2>1, WrittenKeeps
<1>8. mode' \in [Chip -> {"byte", "seq"}] /\ \A c \in Chip : mode[c] = "seq" => mode'[c] = "seq"
  BY <1>1, InitModes
<1>9. RingInv'
  BY <1>1, <1>2, <1>6, <1>8, ReaderTypes, RingFrame DEF RBInv
<1>10. ReadBackType'
  BY <1>1, <1>4, <1>6, <1>7, <1>9 DEF RBInv, RingInv, ReadBackType
<1>11. KeptInv' /\ SessionInv' /\ NoErrorYet' /\ FileInv' /\ Outcome'
  <2>1. KeptInv'
    BY <1>1, <1>2, <1>8, SameRam, KeptFrame
  <2>. QED
    BY <1>4, <1>7, <2>1
       DEF SessionInv, NoErrorYet, FileInv, Outcome, GoodTrackPasses, SavedFileIsTrack
<1>. QED BY <1>2, <1>5, <1>9, <1>10, <1>11 DEF RBInv

(* At the end of the stream a reader has read all of it.                   *)
LEMMA ReaderAtEnd ==
  ASSUME RBInv, kept, Reading, rd.size = 0
  PROVE  /\ Len(seen) = Len(track) /\ track = stream
         /\ rd.sum = SumOf(seen) /\ buf.checksum = SumOf(track)
         /\ \A n \in 1 .. Len(seen) : seen[n] \in {track[n], 0}
         /\ Stored => seen = track
<1>1. /\ Left = 0 /\ \A n \in 1 .. Len(seen) : seen[n] = InRam(n)
      /\ rd.sum = SumOf(seen)
  BY DEF RBInv, ReaderInv
<1>2. /\ track = stream /\ buf.checksum = checksum /\ Faded
      /\ total = Len(stream) /\ checksum = SumOf(stream)
  BY DEF RBInv, KeptInv, LoopInv, Counted, Reading
<1>3. Len(seen) = total
  BY <1>1, ReaderTypes DEF Left
<1>4. ASSUME Stored PROVE seen = track
  <2>1. \A n \in 1 .. Len(seen) : seen[n] = track[n]
    BY <1>1, <1>3, <1>4 DEF Stored
  <2>2. seen \in Seq(Int) /\ track \in Seq(Int) /\ Len(seen) = Len(track)
    BY <1>2, <1>3, ReaderTypes
  <2>. QED BY <2>1, <2>2, SameSeq
<1>5. \A n \in 1 .. Len(seen) : seen[n] \in {track[n], 0}
  BY <1>1, <1>2, <1>3 DEF Faded
<1>. QED BY <1>1, <1>2, <1>3, <1>4, <1>5

LEMMA ReadEndFrame ==
  ASSUME RBInv, Reading, cmd' = "loop",
         UNCHANGED <<vars, found, buf, rd, seen, track, kept, commands>>,
         file' \in Seq(Cell), cut' \in BOOLEAN,
         result' \in 0 .. 255, done' \in {"none", "read", "check", "save", "memory"}, Outcome'
  PROVE  RBInv'
<1>1. RingInv'
  BY StutterKeeps DEF RBInv
<1>2. UNCHANGED <<phase, total, chip_no, checksum, stream, mem, mode>>
  BY DEF vars, ringVars, chipVars, userVars
<1>3. ReadBackType'
  BY <1>1 DEF RBInv, RingInv, ReadBackType
<1>4. Counted' /\ LoopInv' /\ SessionInv' /\ NoErrorYet' /\ ReaderInv' /\ FileInv'
  BY <1>2 DEF RBInv, Counted, LoopInv, SessionInv, NoErrorYet, ReaderInv, FileInv, Reading
<1>5. KeptInv'
  BY <1>2, SameRam, KeptFrame DEF Reading
<1>. QED BY <1>1, <1>3, <1>4, <1>5 DEF RBInv

LEMMA CheckEndKeeps ==
  ASSUME RBInv, CheckEnd
  PROVE  RBInv'
<1>1. /\ cmd \in {"verify", "check"} /\ Reading /\ rd.size = 0 /\ cmd' = "loop"
      /\ UNCHANGED <<vars, found, buf, rd, seen, file, cut, track, kept, commands>>
      /\ result' = IF ChecksumFails THEN result + ERROR_SAMPLER_CHECKSUM_MISMATCH ELSE result
      /\ done' = IF cmd = "verify" THEN "read" ELSE "check"
  BY DEF CheckEnd, Reading
<1>2. file' \in Seq(Cell) /\ cut' \in BOOLEAN
  BY <1>1 DEF RBInv, ReadBackType
<1>3. kept /\ cmd = "verify" => seen = track /\ ~ChecksumFails
  <2> SUFFICES ASSUME kept, cmd = "verify" PROVE seen = track /\ ~ChecksumFails
    OBVIOUS
  <2>1. Stored
    BY <1>1 DEF RBInv, ReaderInv
  <2>. QED BY <1>1, <2>1, ReaderAtEnd DEF ChecksumFails
<1>4. result = STATUS_OK
  BY <1>1 DEF RBInv, NoErrorYet
<1>5. Outcome'
  BY <1>1, <1>3, <1>4 DEF Outcome, GoodTrackPasses, SavedFileIsTrack
<1>. QED
  BY <1>1, <1>2, <1>4, <1>5, ReadEndFrame DEF STATUS_OK, ERROR_SAMPLER_CHECKSUM_MISMATCH

LEMMA SaveModeFailsKeeps ==
  ASSUME RBInv, SaveModeFails
  PROVE  RBInv'
<1>1. /\ Reading /\ cmd' = "loop" /\ result' = ERROR_SAMPLER_NO_INDEX /\ done' = "save"
      /\ UNCHANGED <<vars, found, buf, rd, seen, file, cut, track, kept, commands>>
  BY DEF SaveModeFails, SaveEndsWith, Reading
<1>2. Outcome'
  BY <1>1 DEF Outcome, GoodTrackPasses, SavedFileIsTrack, STATUS_OK, ERROR_SAMPLER_NO_INDEX
<1>3. file' \in Seq(Cell) /\ cut' \in BOOLEAN
  BY <1>1 DEF RBInv, ReadBackType
<1>. QED BY <1>1, <1>2, <1>3, ReadEndFrame DEF ERROR_SAMPLER_NO_INDEX

(* A save of a track that a memory test has overwritten, if only in part,  *)
(* fails the checksum: the bytes of a track are at least one, those of the *)
(* test zero.                                                              *)
LEMMA SaveEndKeeps ==
  ASSUME RBInv, SaveEnd
  PROVE  RBInv'
<1>1. /\ cmd = "save" /\ Reading /\ rd.size = 0 /\ cmd' = "loop" /\ done' = "save"
      /\ UNCHANGED <<vars, found, buf, rd, seen, track, kept, commands>>
      /\ result' = IF ChecksumFails THEN ERROR_MEMORY_CHECKSUM_MISMATCH ELSE STATUS_OK
      /\ CloseFile
  BY DEF SaveEnd, SaveEndsWith, Reading
<1>2. ASSUME kept, ~ChecksumFails PROVE seen = track
  <2>1. /\ Len(seen) = Len(track) /\ track = stream
        /\ rd.sum = SumOf(seen) /\ buf.checksum = SumOf(track)
        /\ \A n \in 1 .. Len(seen) : seen[n] \in {track[n], 0}
    BY <1>1, <1>2, ReaderAtEnd
  <2>2. stream \in Seq(1 .. MaxBytes) /\ track \in Seq(Int) /\ seen \in Seq(Int)
    BY <2>1, ReaderTypes
  <2>3. \A k \in 1 .. Len(track) : track[k] >= 1
    <3>1. \A k \in 1 .. Len(track) : track[k] \in 1 .. MaxBytes
      BY <2>1, <2>2, SeqElement
    <3>. QED BY <3>1, ClientAssumption
  <2>4. SumOf(seen) = SumOf(track)
    BY <1>2, <2>1 DEF ChecksumFails
  <2>. QED BY <2>1, <2>2, <2>3, <2>4, FadedSum
<1>3. /\ file \in Seq(Cell) /\ cut \in BOOLEAN /\ FirstOf(file, seen) /\ (cut \/ file = seen)
  BY <1>1 DEF RBInv, ReadBackType, FileInv
<1>4. /\ file' \in Seq(Cell) /\ cut' \in BOOLEAN
      /\ FirstOf(file', seen) /\ (cut' \/ file' = seen)
  <2>1. CASE UNCHANGED <<file, cut>>
    BY <1>3, <2>1
  <2>2. CASE file' = <<>> /\ cut' = TRUE
    BY <2>2, ReaderTypes DEF FirstOf
  <2>. QED BY <1>1, <2>1, <2>2 DEF CloseFile
<1>5. Outcome'
  <2> SUFFICES ASSUME kept, result' = STATUS_OK
               PROVE  /\ \A n \in 1 .. Len(file') : n <= Len(track) /\ file'[n] = track[n]
                      /\ cut' \/ file' = track
    BY <1>1 DEF Outcome, GoodTrackPasses, SavedFileIsTrack
  <2>1. ~ChecksumFails
    BY <1>1 DEF STATUS_OK, ERROR_MEMORY_CHECKSUM_MISMATCH
  <2>2. seen = track
    BY <1>2, <2>1
  <2>3. Len(file') \in Nat /\ Len(seen) \in Nat
    BY <1>4, ReaderTypes
  <2>. QED BY <1>4, <2>2, <2>3 DEF FirstOf
<1>. QED
  BY <1>1, <1>4, <1>5, ReadEndFrame DEF STATUS_OK, ERROR_MEMORY_CHECKSUM_MISMATCH

(***************************************************************************)
(* The begin of a reader.                                                  *)
(***************************************************************************)
LEMMA ReaderStarts ==
  ASSUME RBInv, kept' => EndsInLastChip, NEW size \in Nat, StartReader(size),
         UNCHANGED <<total, chip_no>>,
         cmd' \in {"verify", "check", "save"},
         size = total + (IF cmd' = "save" THEN 0 ELSE HeaderSize * chip_no),
         kept' /\ cmd' = "verify" => found' /\ Stored'
  PROVE  ReaderInv'
<1> SUFFICES ASSUME kept' PROVE ReaderInv'
  BY DEF ReaderInv
<1>1. /\ seen' = <<>> /\ Len(seen') = 0 /\ sel' = 0
      /\ rd' = [size |-> size, chip |-> 0, bank |-> 0, sum |-> 0]
  BY DEF StartReader
<1>2. total \in Nat /\ chip_no \in Nat /\ HeaderSize = 3
  BY ReaderTypes, ChipSizes
<1>3. Left' = total
  BY <1>1, <1>2 DEF Left
<1>4. size > 0 => total > 0
  <2>1. chip_no > 0 => total > 0
    <3>1. chip_no > 0 => total > chip_no * ChipCap
      BY DEF EndsInLastChip
    <3>2. chip_no * ChipCap \in Nat
      BY <1>2, ChipProduct
    <3>. QED BY <1>2, <3>1, <3>2
  <2>. QED BY <1>2, <2>1
<1>5. size = SizeLeft'
  BY <1>1, <1>2, <1>3 DEF SizeLeft
<1>6. size = 0 => total = 0
  BY <1>2
<1>7. 0 = 0 * ChipCap + 0 * BUFFER_SIZE
  BY ChipSizes, SizesAssumption
<1>8. rd'.size = size /\ rd'.chip = 0 /\ rd'.bank = 0 /\ rd'.sum = 0 /\ 0 <= NUM_CHIPS
  BY <1>1, SizesAssumption
<1>. QED
  BY <1>1, <1>2, <1>3, <1>4, <1>5, <1>6, <1>7, <1>8, SumEmpty DEF ReaderInv, Reading

LEMMA StartTypes ==
  ASSUME RBInv, NEW size \in Nat, StartReader(size)
  PROVE  /\ sel' \in Chip /\ mode' \in [Chip -> {"byte", "seq"}]
         /\ \A c \in Chip : mode[c] = "seq" => mode'[c] = "seq"
         /\ seen' \in Seq(Cell)
         /\ rd' \in [size : Nat, chip : Nat, bank : 0 .. NUM_BANKS - 1, sum : Int]
<1>1. multi_init /\ sel' = 0 /\ seen' = <<>>
      /\ rd' = [size |-> size, chip |-> 0, bank |-> 0, sum |-> 0]
  BY DEF StartReader
<1>. QED BY <1>1, InitModes, SizesAssumption DEF Chip

LEMMA CheckSizeType ==
  ASSUME RBInv
  PROVE  CheckSize \in Nat /\ CheckSize = total + HeaderSize * chip_no
BY ReaderTypes, ChipSizes, SMTT(20) DEF CheckSize

(***************************************************************************)
(* A session.                                                              *)
(***************************************************************************)
LEMMA ReadBeginKeeps ==
  ASSUME RBInv, ReadBegin
  PROVE  RBInv'
<1>1. /\ multi_write_begin /\ multi_init /\ cmd' = "read" /\ found' \in BOOLEAN
      /\ buf' = EmptyBuffer
      /\ UNCHANGED <<rd, seen, file, cut, result, done, track, kept, commands>>
      /\ total' = 0 /\ checksum' = 0 /\ stream' = <<>> /\ phase' = "write"
  BY DEF ReadBegin, ClearedBuffer, multi_write_begin
<1>2. RingInv' /\ PacedInv' /\ PlaceInv'
  BY <1>1, BeginKeeps, PacedBegin, PlaceBegin DEF RBInv
<1>3. ReadBackType'
  BY <1>1, <1>2 DEF RBInv, RingInv, ReadBackType, EmptyBuffer
<1>4. Counted'
  BY <1>1, SumEmpty DEF Counted
<1>5. /\ SessionInv' /\ LoopInv' /\ KeptInv' /\ NoErrorYet' /\ ReaderInv' /\ FileInv'
      /\ Outcome'
  BY <1>1, <1>2
     DEF SessionInv, LoopInv, KeptInv, NoErrorYet, ReaderInv, Reading, FileInv, Outcome,
         GoodTrackPasses, SavedFileIsTrack
<1>. QED BY <1>2, <1>3, <1>4, <1>5 DEF RBInv

LEMMA SamplingKeeps ==
  ASSUME Paced, RBInv, Sampling
  PROVE  RBInv'
<1>1. cmd = "read" /\ UNCHANGED readerVars /\ UNCHANGED <<cmd, found, buf, result, done>>
  BY DEF Sampling, readerVars
<1>2. /\ phase # "idle" /\ PacedInv /\ (StreamFits => PlaceInv)
      /\ buf = EmptyBuffer /\ (~found => stream = <<>>)
  BY <1>1 DEF RBInv, SessionInv
<1>3. [Next]_vars
  BY DEF Sampling, Next
<1>4. RingInv' /\ PacedInv' /\ (StreamFits' => PlaceInv')
  BY <1>2, <1>3, PlacementStep DEF PlacedIfFits, RBInv
<1>5. phase' # "idle"
  BY <1>2
     DEF Sampling, multi_write_byte, multi_write_handle, multi_write_end, FlushHandle, FlushDone,
         DmaShift, Handle
<1>6. Counted' /\ (~found => stream' = stream)
  <2>1. CASE UNCHANGED <<total, checksum, stream>>
    BY <2>1 DEF RBInv, Counted
  <2>2. CASE found /\ multi_write_byte /\ Accept(offered + 1)
    <3>1. /\ total' = total + 1 /\ checksum' = checksum + (offered + 1)
          /\ stream' = Append(stream, offered + 1)
      BY <2>2 DEF Accept
    <3>2. stream \in Seq(Int) /\ Len(stream) \in Nat /\ offered + 1 \in Int
      BY <2>2, ReaderTypes, AppendOrdinal DEF RBInv, RingInv
    <3>3. SumOf(stream') = SumOf(stream) + (offered + 1) /\ Len(stream') = Len(stream) + 1
      BY <3>1, <3>2, SumAppend
    <3>. QED BY <2>2, <3>1, <3>3 DEF RBInv, Counted
  <2>3. found /\ multi_write_byte => Accept(offered + 1) \/ UNCHANGED <<total, checksum, stream>>
    BY DEF multi_write_byte, StoreInBuffer, StoreInNextBuffer, DropByte
  <2>4. multi_write_handle \/ multi_write_end \/ FlushHandle \/ FlushDone \/ DmaShift
        => UNCHANGED <<total, checksum, stream>>
    BY DEF multi_write_handle, multi_write_end, FlushHandle, FlushDone, DmaShift, Handle,
           userVars, ringVars
  <2>. QED BY <2>1, <2>2, <2>3, <2>4 DEF Sampling
<1>7. SessionInv'
  BY <1>1, <1>2, <1>4, <1>5, <1>6 DEF SessionInv
<1>8. ReadBackType'
  BY <1>1, <1>4 DEF RBInv, RingInv, ReadBackType, readerVars
<1>9. LoopInv' /\ KeptInv' /\ NoErrorYet' /\ ReaderInv' /\ FileInv' /\ Outcome'
  BY <1>1
     DEF LoopInv, KeptInv, NoErrorYet, ReaderInv, Reading, FileInv, Outcome, GoodTrackPasses,
         SavedFileIsTrack
<1>. QED BY <1>4, <1>6, <1>7, <1>8, <1>9 DEF RBInv

(* The stream of a session that fits ends in a chip that is there.         *)
LEMMA SessionEnds ==
  ASSUME RBInv, WriterPlaced, StreamFits
  PROVE  EndsInLastChip
<1>. DEFINE x == chip_no * ChipCap
            y == bank_no * BUFFER_SIZE
<1>1. /\ chip_no < NUM_CHIPS
      /\ Len(stream) > 0 => \A c \in 0 .. chip_no : mode[c] = "seq"
  BY ChipsInRange DEF RBInv
<1>2. /\ total = Len(stream) /\ total \in Nat /\ chip_no \in Nat /\ x \in Nat /\ y \in Nat
      /\ bank_no \in 0 .. NUM_BANKS - 1 /\ buffer_usage \in 0 .. BUFFER_SIZE
      /\ total + 3 = x + y + buffer_usage
      /\ bank_no = 0 /\ chip_no > 0 => buffer_usage > 3
      /\ BUFFER_SIZE \in Nat /\ BUFFER_SIZE > 3 /\ buffer_usage \in Nat
  BY ReaderTypes, OpenedType, WriterProducts, ChipSizes, SizesAssumption
     DEF RBInv, Counted, WriterPlaced, HeaderSize
<1>3. y + buffer_usage <= ChipSize /\ ChipSize \in Nat /\ ChipCap = ChipSize - 3
  <2>1. y + buffer_usage \in 0 .. ChipSize
    BY <1>2, BankOffset
  <2>. HIDE DEF y
  <2>. QED BY <2>1, ChipSizes
<1>4. (chip_no + 1) * ChipCap = x + ChipCap
  BY <1>2, ChipSizes, NextProduct
<1>5. bank_no # 0 => y > 3
  <2>1. bank_no # 0 => 1 * BUFFER_SIZE <= bank_no * BUFFER_SIZE
    BY <1>2, ProductMonotone, SizesAssumption
  <2>. QED BY <1>2, <2>1
<1>. HIDE DEF x, y
<1>6. total <= x + ChipCap /\ (chip_no > 0 => total > x)
  BY <1>2, <1>3, <1>5
<1>. QED BY <1>1, <1>2, <1>4, <1>6 DEF EndsInLastChip, x

(* At its end every byte has been sent to its place in a chip. *)
LEMMA SessionStored ==
  ASSUME RBInv, PlaceInv, phase = "done", NEW n \in 1 .. Len(stream)
  PROVE  InRam(n) = stream[n]
<1>1. RingInv /\ Started \in Nat /\ WriterPlaced /\ BytesPlaced
  BY DEF RBInv, PlaceInv
<1>2. num_ready = 0 /\ pos = BUFFER_SIZE
  BY <1>1 DEF RingInv, QuietOutside
<1>3. Started = Opened /\ Opened \in Nat
  BY <1>1, <1>2, OpenedType DEF Started, Opened
<1>4. /\ BufferOf(n) \in Nat /\ PlaceOf(n) \in 0 .. BUFFER_SIZE - 1 /\ BufferOf(n) <= Opened - 1
  BY <1>1, StreamBefore
<1>5. PlaceOf(n) < pos
  BY <1>2, <1>4, SizesAssumption
<1>6. IsSent(n)
  BY <1>3, <1>4, <1>5 DEF IsSent
<1>. QED BY <1>1, <1>6 DEF BytesPlaced

LEMMA ReadEndKeeps ==
  ASSUME RBInv, ReadEnd
  PROVE  RBInv'
<1>1. /\ cmd = "read" /\ phase = "done" /\ kept' = StreamFits
      /\ UNCHANGED <<phase, ringVars, busVars, mem, userVars, found, file, cut, commands>>
  BY DEF ReadEnd
<1>2. /\ UNCHANGED <<phase, total, chip_no, checksum, stream, mem, found, file, cut, commands>>
      /\ UNCHANGED readOnly /\ buffer' = buffer /\ Counted' /\ kept' \in BOOLEAN
  BY <1>1 DEF ringVars, userVars, readOnly, busVars, RBInv, Counted, StreamFits
<1>3. /\ PacedInv /\ buf = EmptyBuffer /\ (~found => stream = <<>>)
      /\ StreamFits => PlaceInv
  BY <1>1 DEF RBInv, SessionInv
<1>4. kept' => EndsInLastChip
  BY <1>1, <1>3, SessionEnds DEF PlaceInv
<1>5. ASSUME kept', track' = stream PROVE Stored'
  <2>1. ASSUME NEW n \in 1 .. total PROVE InRam(n)' = track'[n]
    <3>1. n \in 1 .. Len(stream)
      BY DEF RBInv, Counted
    <3>2. InRam(n) = stream[n]
      BY <1>1, <1>3, <1>5, <3>1, SessionStored
    <3>. QED BY <1>2, <1>5, <3>2 DEF InRam
  <2>. QED BY <1>2, <2>1 DEF Stored
<1>6. buffer_overruns = 0
  BY <1>3 DEF PacedInv
<1>7. ASSUME track' = stream, \A c \in Chip : mode[c] = "seq" => mode'[c] = "seq"
      PROVE  KeptInv'
  <2> SUFFICES ASSUME kept' PROVE EndsInLastChip' /\ Faded'
    BY DEF KeptInv
  <2>1. Faded'
    BY <1>5, <1>7 DEF Stored, Faded
  <2>2. \A c \in 0 .. chip_no : c \in Chip
    BY <1>4, ReaderTypes, SizesAssumption DEF EndsInLastChip, Chip
  <2>3. EndsInLastChip'
    BY <1>2, <1>4, <1>7, <2>2 DEF EndsInLastChip
  <2>. QED BY <2>1, <2>3
<1>8. CASE found
  <2>1. /\ buf' = [size |-> total, checksum |-> checksum] /\ track' = stream /\ cmd' = "verify"
        /\ StartReader(CheckSize) /\ result' = STATUS_OK /\ done' = done
    BY <1>6, <1>8 DEF ReadEnd, SamplerResult
  <2>2. ReaderInv'
    BY <1>2, <1>4, <1>5, <1>8, <2>1, CheckSizeType, ReaderStarts
  <2>3. /\ sel' \in Chip /\ mode' \in [Chip -> {"byte", "seq"}]
        /\ \A c \in Chip : mode[c] = "seq" => mode'[c] = "seq"
        /\ seen' \in Seq(Cell)
        /\ rd' \in [size : Nat, chip : Nat, bank : 0 .. NUM_BANKS - 1, sum : Int]
    BY <2>1, CheckSizeType, StartTypes
  <2>4. RingInv'
    BY <1>2, <2>3, ReaderTypes, RingFrame DEF RBInv
  <2>5. ReadBackType'
    BY <1>2, <2>1, <2>3, <2>4, ReaderTypes DEF RBInv, RingInv, ReadBackType, STATUS_OK
  <2>6. KeptInv'
    BY <1>7, <2>1, <2>3
  <2>7. SessionInv' /\ LoopInv' /\ NoErrorYet' /\ FileInv' /\ Outcome'
    BY <1>1, <1>2, <2>1
       DEF SessionInv, LoopInv, NoErrorYet, FileInv, Outcome, GoodTrackPasses, SavedFileIsTrack
  <2>. QED BY <1>2, <2>2, <2>4, <2>5, <2>6, <2>7 DEF RBInv
<1>9. CASE ~found
  <2>1. /\ cmd' = "loop" /\ track' = <<>> /\ result' = ERROR_SAMPLER_NO_INDEX /\ done' = "read"
        /\ UNCHANGED <<buf, rd, seen, mode, sel>>
    BY <1>9 DEF ReadEnd
  <2>2. stream = <<>> /\ track' = stream /\ total = 0 /\ checksum = 0
    BY <1>3, <1>9, <2>1, SumEmpty DEF RBInv, Counted
  <2>3. RingInv'
    BY <1>2, <2>1, ReaderTypes, RingFrame DEF RBInv
  <2>4. ReadBackType'
    BY <1>2, <2>1, <2>3 DEF RBInv, RingInv, ReadBackType, ERROR_SAMPLER_NO_INDEX
  <2>5. KeptInv'
    BY <1>7, <2>1, <2>2
  <2>6. /\ SessionInv' /\ LoopInv' /\ NoErrorYet' /\ ReaderInv' /\ FileInv' /\ Outcome'
    BY <1>1, <1>2, <1>3, <1>9, <2>1, <2>2
       DEF SessionInv, LoopInv, NoErrorYet, ReaderInv, Reading, FileInv, Outcome,
           GoodTrackPasses, SavedFileIsTrack, EmptyBuffer
  <2>. QED BY <1>2, <2>3, <2>4, <2>5, <2>6 DEF RBInv
<1>. QED BY <1>8, <1>9

(***************************************************************************)
(* The commands.                                                           *)
(***************************************************************************)
LEMMA NextCommandType ==
  ASSUME RBInv, NextCommand
  PROVE  /\ cmd = "loop" /\ cmd # "read" /\ commands' \in 0 .. MaxCommands
         /\ kept => EndsInLastChip
         /\ buf = [size |-> total, checksum |-> checksum]
BY CommandAssumption DEF NextCommand, RBInv, ReadBackType, LoopInv, KeptInv

LEMMA CheckCommandKeeps ==
  ASSUME RBInv, CheckCommand
  PROVE  RBInv'
<1>1. /\ StartReader(CheckSize) /\ cmd' = "check" /\ result' = STATUS_OK
      /\ UNCHANGED <<readOnly, buffer, mem, found, buf, file, cut, done, track, kept>>
      /\ cmd = "loop" /\ cmd # "read" /\ commands' \in 0 .. MaxCommands
      /\ kept => EndsInLastChip
  BY NextCommandType DEF CheckCommand
<1>2. UNCHANGED <<phase, total, chip_no, checksum, stream>> /\ Counted' /\ LoopInv'
  BY <1>1, CountFrame DEF RBInv
<1>3. ReaderInv'
  BY <1>1, <1>2, CheckSizeType, ReaderStarts
<1>4. /\ sel' \in Chip /\ mode' \in [Chip -> {"byte", "seq"}]
      /\ \A c \in Chip : mode[c] = "seq" => mode'[c] = "seq"
      /\ seen' \in Seq(Cell)
      /\ rd' \in [size : Nat, chip : Nat, bank : 0 .. NUM_BANKS - 1, sum : Int]
  BY <1>1, CheckSizeType, StartTypes
<1>5. RingInv'
  BY <1>1, <1>4, ReaderTypes, RingFrame DEF RBInv
<1>6. ReadBackType'
  BY <1>1, <1>4, <1>5 DEF RBInv, RingInv, ReadBackType, STATUS_OK
<1>7. KeptInv'
  BY <1>1, <1>2, <1>4, SameRam, KeptFrame
<1>8. SessionInv' /\ NoErrorYet' /\ FileInv' /\ Outcome'
  BY <1>1 DEF SessionInv, NoErrorYet, FileInv, Outcome, GoodTrackPasses, SavedFileIsTrack
<1>. QED BY <1>2, <1>3, <1>5, <1>6, <1>7, <1>8 DEF RBInv

LEMMA SaveCommandKeeps ==
  ASSUME RBInv, SaveCommand
  PROVE  RBInv'
<1>1. /\ file' = <<>> /\ cut' = FALSE
      /\ UNCHANGED <<readOnly, buffer, mem, found, buf, track, kept>>
      /\ cmd = "loop" /\ cmd # "read" /\ commands' \in 0 .. MaxCommands
      /\ kept => EndsInLastChip
  BY NextCommandType DEF SaveCommand
<1>2. UNCHANGED <<phase, total, chip_no, checksum, stream>> /\ Counted' /\ LoopInv'
  BY <1>1, CountFrame DEF RBInv
<1>3. buf.size = total /\ total \in Nat
  BY NextCommandType, ReaderTypes DEF SaveCommand
<1>4. /\ ReaderInv' /\ FileInv' /\ NoErrorYet' /\ Outcome' /\ cmd' \in {"save", "loop"}
      /\ sel' \in Chip /\ mode' \in [Chip -> {"byte", "seq"}]
      /\ \A c \in Chip : mode[c] = "seq" => mode'[c] = "seq"
      /\ seen' \in Seq(Cell)
      /\ rd' \in [size : Nat, chip : Nat, bank : 0 .. NUM_BANKS - 1, sum : Int]
      /\ result' \in 0 .. 255 /\ done' \in {"none", "read", "check", "save", "memory"}
  <2>1. /\ result \in 0 .. 255 /\ done \in {"none", "read", "check", "save", "memory"}
        /\ seen \in Seq(Cell)
        /\ rd \in [size : Nat, chip : Nat, bank : 0 .. NUM_BANKS - 1, sum : Int]
    BY DEF RBInv, ReadBackType
  <2>2. CASE StartReader(buf.size) /\ cmd' = "save" /\ UNCHANGED <<result, done>>
    <3>1. StartReader(total)
      BY <1>3, <2>2
    <3>2. ReaderInv'
      BY <1>1, <1>2, <1>3, <2>2, <3>1, ReaderStarts
    <3>3. /\ sel' \in Chip /\ mode' \in [Chip -> {"byte", "seq"}]
          /\ \A c \in Chip : mode[c] = "seq" => mode'[c] = "seq"
          /\ seen' \in Seq(Cell)
          /\ rd' \in [size : Nat, chip : Nat, bank : 0 .. NUM_BANKS - 1, sum : Int]
      BY <1>3, <3>1, StartTypes
    <3>4. seen' = <<>>
      BY <2>2 DEF StartReader
    <3>5. FileInv' /\ NoErrorYet' /\ Outcome'
      BY <1>1, <2>2, <3>4
         DEF FileInv, FirstOf, NoErrorYet, Outcome, GoodTrackPasses, SavedFileIsTrack
    <3>. QED BY <2>1, <2>2, <3>2, <3>3, <3>5
  <2>3. CASE SaveEndsWith(ERROR_MEMORY_INIT) /\ UNCHANGED <<mode, sel, rd, seen>>
    <3>1. cmd' = "loop" /\ result' = 32 /\ done' = "save"
      BY <2>3 DEF SaveEndsWith, ERROR_MEMORY_INIT
    <3>2. ReaderInv' /\ FileInv' /\ NoErrorYet' /\ Outcome'
      BY <3>1 DEF ReaderInv, Reading, FileInv, NoErrorYet, Outcome, GoodTrackPasses,
                  SavedFileIsTrack, STATUS_OK
    <3>. QED BY <2>1, <2>3, <3>1, <3>2, ReaderTypes
  <2>. QED BY <2>2, <2>3 DEF SaveCommand
<1>5. RingInv'
  BY <1>1, <1>4, ReaderTypes, RingFrame DEF RBInv
<1>6. ReadBackType'
  <2>1. /\ cmd' \in {"loop", "read", "verify", "check", "save"} /\ file' \in Seq(Cell)
        /\ cut' \in BOOLEAN /\ kept' = kept /\ found' = found /\ buf' = buf /\ track' = track
    <3>1. <<>> \in Seq(Cell) /\ FALSE \in BOOLEAN
      OBVIOUS
    <3>2. cmd' \in {"loop", "read", "verify", "check", "save"}
      BY <1>4
    <3>. QED BY <1>1, <3>1, <3>2
  <2>. QED BY <1>1, <1>4, <1>5, <2>1 DEF RBInv, RingInv, ReadBackType
<1>7. KeptInv'
  BY <1>1, <1>2, <1>4, SameRam, KeptFrame
<1>8. SessionInv'
  BY <1>4 DEF SessionInv
<1>. QED BY <1>2, <1>4, <1>5, <1>6, <1>7, <1>8 DEF RBInv

(* What a memory test writes to a chip.                                    *)
LEMMA OverwrittenCells ==
  ASSUME NEW cells \in [0 .. ChipSize - 1 -> Cell], NEW inMode
  PROVE  /\ Overwritten(cells, inMode) \in [0 .. ChipSize - 1 -> Cell]
         /\ \A a \in 0 .. ChipSize - 1 : Overwritten(cells, inMode)[a] \in {cells[a], 0}
<1>1. 0 \in Cell
  BY ClientAssumption DEF Cell
<1>. QED BY <1>1 DEF Overwritten

(* A byte of the stream is in a cell of the chips.                         *)
LEMMA InCell ==
  ASSUME NEW n \in Nat \ {0}
  PROVE  \E c \in Chip, a \in 0 .. ChipSize - 1 : InRam(n) = mem[c][a] /\ InRam(n)' = mem'[c][a]
<1>. DEFINE q == (n - 1) \div ChipCap
            a == (n - 1) % ChipCap
<1>1. q \in Nat /\ a \in 0 .. ChipCap - 1
  BY RawByChip
<1>2. InRam(n) = mem[q % NUM_CHIPS][a] /\ InRam(n)' = mem'[q % NUM_CHIPS][a]
  BY DEF InRam
<1>. HIDE DEF q, a
<1>3. q % NUM_CHIPS \in Chip
  BY <1>1, DivisionOf, SizesAssumption DEF Chip
<1>4. a \in 0 .. ChipSize - 1
  BY <1>1, ChipSizes
<1>. QED BY <1>2, <1>3, <1>4

(* A memory test leaves zeroes of the track, of all of it or of a part.    *)
LEMMA MemoryTestKeeps ==
  ASSUME RBInv, memory_init \/ memory_check
  PROVE  RBInv'
<1>1. PICK error \in {STATUS_OK, MEMORY_FAULT} : MemoryTest(error)
  BY DEF memory_init, memory_check
<1>2. /\ cmd = "loop" /\ cmd' = "loop" /\ cmd # "read" /\ commands' \in 0 .. MaxCommands
      /\ UNCHANGED <<readOnly, found, buf, rd, seen, file, cut, track, kept>>
      /\ result' \in 0 .. 255 /\ done' = "memory"
  BY <1>1, NextCommandType DEF MemoryTest, STATUS_OK, MEMORY_FAULT
<1>3. UNCHANGED <<phase, total, chip_no, checksum, stream>> /\ Counted' /\ LoopInv'
  BY <1>2, CountFrame DEF RBInv
<1>4. /\ buffer \in [Slot -> [0 .. BUFFER_SIZE - 1 -> Cell]]
      /\ mem \in [Chip -> [0 .. ChipSize - 1 -> Cell]]
      /\ mode \in [Chip -> {"byte", "seq"}] /\ sel \in Chip /\ NUM_CHIPS - 1 \in Chip
  BY ReaderTypes, SizesAssumption DEF Chip
<1>5. TestBuffer => buffer' \in [Slot -> [0 .. BUFFER_SIZE - 1 -> Cell]]
  <2>1. 0 \in Cell
    BY ClientAssumption DEF Cell
  <2>2. 0 \in Slot
    BY SizesAssumption DEF Slot
  <2>3. DOMAIN buffer[0] = 0 .. BUFFER_SIZE - 1
    BY <1>4, <2>2
  <2>4. [i \in 0 .. BUFFER_SIZE - 1 |-> 0] \in [0 .. BUFFER_SIZE - 1 -> Cell]
    BY <2>1
  <2>5. TestBuffer => buffer' = [buffer EXCEPT ![0] = [i \in 0 .. BUFFER_SIZE - 1 |-> 0]]
    BY <2>3 DEF TestBuffer
  <2>. QED BY ONLY <1>4, <2>4, <2>5
<1>6. /\ buffer' \in [Slot -> [0 .. BUFFER_SIZE - 1 -> Cell]] /\ sel' \in Chip
      /\ mode' \in [Chip -> {"byte", "seq"}]
      /\ \A c \in Chip : mode[c] = "seq" => mode'[c] = "seq"
      /\ mem' \in [Chip -> [0 .. ChipSize - 1 -> Cell]]
      /\ \A c \in Chip, a \in 0 .. ChipSize - 1 : mem'[c][a] \in {mem[c][a], 0}
  <2>1. CASE UNCHANGED <<mode, mem, buffer, sel>>
    BY <1>4, <2>1
  <2>2. CASE /\ multi_init /\ TestBuffer /\ sel' = NUM_CHIPS - 1
             /\ mem' = [c \in Chip |-> Overwritten(mem[c], mode'[c])]
    BY <1>4, <1>5, <2>2, InitModes, OverwrittenCells
  <2>3. CASE memory_check
    <3>1. PICK answers \in SUBSET Chip :
            /\ mode' = [c \in Chip |-> IF c \in answers THEN "seq" ELSE mode[c]]
            /\ mem' = [c \in Chip |-> IF c \in answers THEN Overwritten(mem[c], "seq")
                                                       ELSE mem[c]]
            /\ TestBuffer \/ UNCHANGED buffer
            /\ sel' = NUM_CHIPS - 1
      BY <2>3 DEF memory_check
    <3>. QED BY <1>4, <1>5, <3>1, OverwrittenCells
  <2>. QED BY <2>1, <2>2, <2>3 DEF memory_init
<1>7. ASSUME NEW n \in 1 .. total PROVE InRam(n)' \in {InRam(n), 0}
  <2>1. n \in Nat \ {0}
    BY ReaderTypes
  <2>2. PICK c \in Chip, a \in 0 .. ChipSize - 1 :
          InRam(n) = mem[c][a] /\ InRam(n)' = mem'[c][a]
    BY <2>1, InCell
  <2>3. mem'[c][a] \in {mem[c][a], 0}
    BY <1>6
  <2>. QED BY <2>2, <2>3
<1>8. RingInv'
  BY <1>2, <1>6, RingFrame DEF RBInv
<1>9. ReadBackType'
  BY <1>2, <1>8 DEF RBInv, RingInv, ReadBackType
<1>10. KeptInv'
  BY <1>2, <1>3, <1>6, <1>7, KeptFrame
<1>11. SessionInv' /\ NoErrorYet' /\ ReaderInv' /\ FileInv' /\ Outcome'
  BY <1>2 DEF SessionInv, NoErrorYet, ReaderInv, Reading, FileInv, Outcome, GoodTrackPasses,
              SavedFileIsTrack
<1>. QED BY <1>3, <1>8, <1>9, <1>10, <1>11 DEF RBInv

LEMMA SameKeeps ==
  ASSUME RBInv, UNCHANGED allVars
  PROVE  RBInv'
<1>1. UNCHANGED <<vars, cmd, found, buf, rd, seen, file, cut, result, done, track, kept, commands>>
  BY DEF allVars, readerVars
<1>2. RingInv'
  BY <1>1, StutterKeeps DEF RBInv
<1>3. UNCHANGED <<phase, total, chip_no, checksum, stream, mem, mode, sel>>
  BY <1>1 DEF vars, ringVars, chipVars, userVars, dmaVars
<1>4. ReadBackType'
  BY <1>1, <1>2 DEF RBInv, RingInv, ReadBackType
<1>5. Counted' /\ LoopInv' /\ NoErrorYet' /\ FileInv' /\ Outcome'
  BY <1>1, <1>3
     DEF RBInv, Counted, LoopInv, NoErrorYet, FileInv, FirstOf, Outcome, GoodTrackPasses,
         SavedFileIsTrack
<1>6. PacedInv' = PacedInv /\ StreamFits' = StreamFits
  BY <1>1, <1>3 DEF PacedInv, rx_dma_empty, vars, ringVars, dmaVars, userVars, StreamFits
<1>7. PlaceInv => PlaceInv'
  BY <1>1, PlaceFrame DEF placeVars, vars, ringVars, dmaVars, chipVars, userVars
<1>8. SessionInv'
  BY <1>1, <1>3, <1>6, <1>7 DEF RBInv, SessionInv
<1>9. KeptInv'
  <2>1. CASE cmd = "read"
    BY <1>1, <2>1 DEF KeptInv
  <2>2. CASE cmd # "read"
    BY <1>1, <1>3, <2>2, SameRam, KeptFrame
  <2>. QED BY <2>1, <2>2
<1>10. ReaderInv'
  <2>1. Stored' = Stored /\ SizeLeft' = SizeLeft /\ Left' = Left /\ Reading' = Reading
        /\ \A n \in 1 .. Len(seen) : InRam(n)' = InRam(n)
    BY <1>1, <1>3 DEF Stored, SizeLeft, Left, Reading, InRam
  <2>. QED BY <1>1, <1>3, <2>1 DEF RBInv, ReaderInv
<1>. QED BY <1>2, <1>4, <1>5, <1>8, <1>9, <1>10 DEF RBInv

(***************************************************************************)
(* The invariant, and the theorems.                                        *)
(***************************************************************************)
LEMMA ReadBackInit ==
  ASSUME InitReadBack
  PROVE  RBInv
<1>1. /\ Init /\ cmd = "loop" /\ found = FALSE /\ buf = EmptyBuffer /\ rd = NoReader
      /\ seen = <<>> /\ file = <<>> /\ cut = FALSE /\ track = <<>> /\ kept = TRUE
      /\ result = STATUS_OK /\ done = "none" /\ commands = 0
  BY DEF InitReadBack
<1>2. RingInv
  BY <1>1, InitRing
<1>3. ReadBackType
  <2>1. TypeOK
    BY <1>2 DEF RingInv
  <2>2. buf \in [size : Nat, checksum : Nat]
    BY <1>1 DEF EmptyBuffer
  <2>3. rd \in [size : Nat, chip : Nat, bank : 0 .. NUM_BANKS - 1, sum : Int]
    BY <1>1, SizesAssumption DEF NoReader
  <2>4. seen \in Seq(Cell) /\ file \in Seq(Cell) /\ track \in Seq(Cell)
    BY <1>1
  <2>5. result \in 0 .. 255 /\ commands \in 0 .. MaxCommands
    BY <1>1, CommandAssumption DEF STATUS_OK
  <2>. QED BY <1>1, <2>1, <2>2, <2>3, <2>4, <2>5 DEF ReadBackType
<1>4. phase = "idle" /\ total = 0 /\ checksum = 0 /\ stream = <<>> /\ chip_no = 0
  BY <1>1 DEF Init
<1>5. Counted /\ LoopInv
  BY <1>1, <1>4, SumEmpty DEF Counted, LoopInv, EmptyBuffer
<1>6. KeptInv
  <2>1. EndsInLastChip
    BY <1>4, ChipSizes, SizesAssumption DEF EndsInLastChip
  <2>. QED BY <1>4, <2>1 DEF KeptInv, Faded
<1>7. SessionInv /\ NoErrorYet /\ ReaderInv /\ FileInv /\ Outcome
  BY <1>1 DEF SessionInv, NoErrorYet, ReaderInv, Reading, FileInv, Outcome, GoodTrackPasses,
              SavedFileIsTrack
<1>. QED BY <1>2, <1>3, <1>5, <1>6, <1>7 DEF RBInv

LEMMA ReadBackStep ==
  ASSUME Paced, RBInv, [NextReadBack]_allVars
  PROVE  RBInv'
<1>1. CASE UNCHANGED allVars
  BY <1>1, SameKeeps
<1>. QED
  BY <1>1, ReadBeginKeeps, SamplingKeeps, ReadEndKeeps, CheckBlockKeeps, CheckEndKeeps,
     CheckCommandKeeps, SaveCommandKeeps, SaveBlockKeeps, SaveModeFailsKeeps, SaveEndKeeps,
     MemoryTestKeeps
     DEF NextReadBack, Exhausted

(* If what arrives during one transfer fits in a buffer: the check after a *)
(* session never fails a track that fitted the chips and found them in     *)
(* sequential mode, whatever its length, wherever the buffers, banks and   *)
(* chips end, whatever modes the chips have at power-up and whatever       *)
(* sessions, saves and memory tests, failed ones included, were before;    *)
(* and no reader of such a track leaves the chips.                         *)
THEOREM CheckAlwaysTrustworthy ==
  Paced => (SpecReadBack => []CheckTrustworthy)
<1> SUFFICES ASSUME Paced PROVE SpecReadBack => []CheckTrustworthy
  OBVIOUS
<1>1. InitReadBack => RBInv
  BY ReadBackInit
<1>2. RBInv /\ [NextReadBack]_allVars => RBInv'
  BY ReadBackStep
<1>3. RBInv => CheckTrustworthy
  BY DEF RBInv, ReaderInv, Reading, Outcome, CheckTrustworthy, ReaderInChips
<1>. QED BY <1>1, <1>2, <1>3, PTL DEF SpecReadBack

(* Under the same condition, and with a card that may run full or fail in  *)
(* any block: a save of such a track that returns STATUS_OK wrote the      *)
(* track of the last session from its first byte on, and all of it unless  *)
(* the card ran full or the close failed, whatever checks, failed saves    *)
(* and memory tests there were between.                                    *)
THEOREM SaveAlwaysTheTrack ==
  Paced => (SpecReadBack => []SavedFileIsTrack)
<1> SUFFICES ASSUME Paced PROVE SpecReadBack => []SavedFileIsTrack
  OBVIOUS
<1>1. InitReadBack => RBInv
  BY ReadBackInit
<1>2. RBInv /\ [NextReadBack]_allVars => RBInv'
  BY ReadBackStep
<1>3. RBInv => SavedFileIsTrack
  BY DEF RBInv, Outcome
<1>. QED BY <1>1, <1>2, <1>3, PTL DEF SpecReadBack
=============================================================================
