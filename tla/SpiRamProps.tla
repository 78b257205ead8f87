---------------------------- MODULE SpiRamProps ----------------------------
(***************************************************************************)
(* Properties of the SPI RAM write path, and the mapping under which it    *)
(* implements ByteStream.                                                  *)
(***************************************************************************)
EXTENDS SpiRam

Wrap(x) == IF x >= NUM_BUFFER THEN x - NUM_BUFFER ELSE x

(* The buffers between the DMA's index and the writer's are exactly those  *)
(* counted in spiram_num_ready: the count and the two ring indices, each   *)
(* updated in a different function, never disagree about which buffers     *)
(* hold unsent data.  spiram_multi_write_end also counts the writer's own. *)
RingAccounting ==
  /\ phase = "write" => /\ num_ready < NUM_BUFFER
                        /\ Wrap(dma_index + num_ready) = buffer_index
  /\ phase = "flush" => Wrap(dma_index + num_ready) = NextSlot(buffer_index)

(* The ring is sound: its variables have their types, and its count and    *)
(* indices name the same buffers (spiram.c:170-236, spiram.h:60-125).      *)
RingSound == TypeOK /\ RingAccounting

(* The writer never fills the buffer the DMA is sending, which the test of *)
(* spiram_multi_write_next_buffer ("DMA is using this buffer") is for.     *)
WriterOutsideTransfer ==
  phase = "write" /\ ~rx_dma_empty => buffer_index # ptr

(* The timing bound: what arrives during one transfer, with the header and *)
(* one uninterrupted burst of the client, fits in a buffer.                *)
Paced == BytesPerTransfer + MaxCode + HeaderSize <= BUFFER_SIZE

(* No byte is lost while a cell stream within the timing bound is stored:  *)
(* spiram_buffer_overruns stays zero.                                      *)
NoOverrun == buffer_overruns = 0

(* A byte is dropped only when every other buffer waits for the DMA, never *)
(* while the ring has room.                                                *)
DropOnlyWhenRingFull ==
  [][buffer_overruns' > buffer_overruns => num_ready = NUM_BUFFER - 1]_vars

(* Chip select and the address lines move only while no transfer runs, so  *)
(* no transfer is cut in two or spread over two chips.                     *)
ChipSwitchQuiet ==
  [][sel' # sel \/ clocked' < clocked => rx_dma_empty]_vars

(***************************************************************************)
(* Where the bytes of the stream are.  Raw(n) is the position of byte n    *)
(* among all bytes clocked to the chips in this session, headers included. *)
(***************************************************************************)
ChipCap == ChipSize - HeaderSize

ChipOf(n) == (n - 1) \div ChipCap

(* Every byte of the stream belongs to a chip that exists and is in        *)
(* sequential mode.  The code sees to neither: it has no test for the end  *)
(* of the last chip, and spiram_multi_init sets one chip only.             *)
StreamFits ==
  \A n \in 1 .. Len(stream) : ChipOf(n) < NUM_CHIPS /\ mode[ChipOf(n)] = "seq"

Raw(n) == n - 1 + HeaderSize * (1 + (n - 1) \div ChipCap)

(* Buffers handed to the DMA so far, and bytes of them sent.               *)
Started ==
  LET opened == chip_no * NUM_BANKS + bank_no + 1
  IN  IF phase = "write" THEN opened - 1 - num_ready ELSE opened - num_ready

RawSent == IF Started = 0 THEN 0 ELSE (Started - 1) * BUFFER_SIZE + pos

(* The chip receives what the ring sends at the place the layout gives it: *)
(* the selected chip and its byte count follow from the number of buffers  *)
(* started alone.                                                          *)
ChipInStep ==
  phase \in {"write", "flush"} /\ Started > 0 =>
    /\ sel = ((Started - 1) \div NUM_BANKS) % NUM_CHIPS
    /\ clocked = ((Started - 1) % NUM_BANKS) * BUFFER_SIZE + pos

InRam(n)  == mem[((n - 1) \div ChipCap) % NUM_CHIPS][(n - 1) % ChipCap]
InRing(n) == buffer[(Raw(n) \div BUFFER_SIZE) % NUM_BUFFER][Raw(n) % BUFFER_SIZE]

(* Every accepted byte is at its place in a chip if its turn to be sent    *)
(* has come, and at its place in the ring until then: none is overwritten, *)
(* skipped or sent twice by the wrap of the ring or the change of chip.    *)
EveryBytePlaced ==
  phase # "idle" =>
    \A n \in 1 .. Len(stream) :
      stream[n] = IF Raw(n) < RawSent THEN InRam(n) ELSE InRing(n)

(* The way of a stream that fits: the writer stays out of the buffer in    *)
(* transfer, the chips are in step with the ring, and each byte of the     *)
(* stream is at its place in one of them.                                  *)
StreamPlaced ==
  StreamFits => WriterOutsideTransfer /\ ChipInStep /\ EveryBytePlaced

(* spiram_multi_write_end returns: its flush loop and its wait for the     *)
(* last transfer both end.                                                 *)
FlushTerminates == phase = "flush" ~> phase = "done"

(***************************************************************************)
(* The refinement.                                                         *)
(***************************************************************************)
StoredLength ==
  LET inLast == RawSent % ChipSize
      sent   == (RawSent \div ChipSize) * ChipCap
                + (IF inLast < HeaderSize THEN 0 ELSE inLast - HeaderSize)
  IN  IF sent < Len(stream) THEN sent ELSE Len(stream)

(* What the chips hold of the stream.                                      *)
StoredBytes == IF phase = "idle" THEN <<>> ELSE [n \in 1 .. StoredLength |-> InRam(n)]

Abstract == INSTANCE ByteStream WITH
  Byte     <- 1 .. MaxBytes,
  open     <- phase \in {"write", "flush"},
  accepted <- stream,
  stored   <- StoredBytes

(* The ring, the DMA and the chips together implement a byte stream: every *)
(* accepted byte reaches the RAM once and in order, and the session ends   *)
(* with all of them there.                                                 *)
ImplementsByteStream == Abstract!Spec
=============================================================================
