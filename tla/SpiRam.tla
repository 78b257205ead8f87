------------------------------- MODULE SpiRam -------------------------------
(***************************************************************************)
(* The sampler's write path into the SPI RAM chips: spiram.c and the       *)
(* inline functions of spiram.h (sampler/sam7x).                           *)
(*                                                                         *)
(* The sampling loop stores bytes one at a time in a ring of NUM_BUFFER    *)
(* buffers of BUFFER_SIZE bytes.  A full buffer is handed to the DMA,      *)
(* which clocks it over the SPI bus into the selected RAM chip while the   *)
(* loop fills the next one.  The first buffer of each chip starts with the *)
(* three bytes of the chip's WRITE command, so a chip of NUM_BANKS buffers *)
(* takes NUM_BANKS * BUFFER_SIZE - 3 bytes of data.                        *)
(*                                                                         *)
(* A data byte is its ordinal among the bytes offered, so any byte lost,   *)
(* repeated or misplaced shows.                                            *)
(***************************************************************************)
EXTENDS Integers, Sequences

CONSTANTS
  NUM_BUFFER,       \* buffers in the ring           (SPIRAM_NUM_BUFFER)
  BUFFER_SIZE,      \* bytes in a buffer             (SPIRAM_BUFFER_SIZE)
  NUM_BANKS,        \* buffers that fill one chip    (SPIRAM_NUM_BANKS)
  NUM_CHIPS,        \* chips on the address lines    (SPIRAM_NUM_CHIPS)
  MaxCode,          \* most bytes the client stores between two calls of handle
  BytesPerTransfer, \* timing: most bytes offered while one DMA transfer runs
  PowerUpModes,     \* modes a chip may be in when the sampler has started
  MaxBytes,         \* bound: bytes offered in a behaviour
  MaxSessions       \* bound: write sessions in a behaviour

HeaderSize == 3

ASSUME SizesAssumption ==
  /\ NUM_BUFFER \in Nat /\ NUM_BUFFER > 1
  /\ BUFFER_SIZE \in Nat /\ BUFFER_SIZE > HeaderSize
  /\ NUM_BANKS \in Nat \ {0}
  /\ NUM_CHIPS \in Nat \ {0}

ASSUME ClientAssumption ==
  /\ MaxCode \in Nat \ {0}
  /\ BytesPerTransfer \in Nat
  /\ PowerUpModes \subseteq {"byte", "seq"}
  /\ MaxBytes \in Nat
  /\ MaxSessions \in Nat

Slot     == 0 .. NUM_BUFFER - 1
Chip     == 0 .. NUM_CHIPS - 1
ChipSize == NUM_BANKS * BUFFER_SIZE

WriteCmd  == -1                              \* SPIRAM_CMD_WRITE
Header(i) == IF i = 0 THEN WriteCmd ELSE 0   \* WRITE, address hi, address lo
Cell      == {WriteCmd} \cup 0 .. MaxBytes   \* 0: an address byte or old content

VARIABLES
  phase,        \* progress of the caller through the multi_write functions
  (* globals of spiram.c *)
  buffer, buffer_index, buffer_usage, buffer_overruns, chip_no, bank_no,
  on_chip, num_ready, dma_index, dma_chip_no, dma_busy, total, checksum,
  (* DMA controller, SPI bus and chips *)
  ptr,          \* buffer of the current transfer
  pos,          \* bytes of it already sent; BUFFER_SIZE: no transfer runs
  sel,          \* chip selected by the address lines
  clocked,      \* bytes the chip received since chip select went low
  armed,        \* what it received is, so far, a WRITE to address 0
  mode,         \* operating mode of each chip
  mem,          \* content of each chip
  (* the caller *)
  offered,      \* bytes offered so far
  pending,      \* of these, offered since handle was last called
  since,        \* of these, offered since the current transfer started
  sessions,     \* sessions begun
  stream        \* history: the bytes accepted in this session, in order

ringVars == <<buffer, buffer_index, buffer_usage, buffer_overruns, chip_no,
              bank_no, on_chip, num_ready, total, checksum>>
dmaVars  == <<dma_index, dma_chip_no, dma_busy, ptr, pos, sel, clocked, armed>>
chipVars == <<mode, mem>>
userVars == <<offered, pending, since, sessions, stream>>
vars     == <<phase, ringVars, dmaVars, chipVars, userVars>>

BufferType ==
  /\ buffer \in [Slot -> [0 .. BUFFER_SIZE - 1 -> Cell]]
  /\ buffer_index \in Slot
  /\ buffer_usage \in 0 .. BUFFER_SIZE
  /\ buffer_overruns \in Nat
  /\ chip_no \in Nat
  /\ bank_no \in 0 .. NUM_BANKS - 1
  /\ on_chip \in [Slot -> Nat]
  /\ num_ready \in 0 .. NUM_BUFFER
  /\ total \in Nat
  /\ checksum \in Nat

DmaType ==
  /\ dma_index \in Slot
  /\ dma_chip_no \in Nat
  /\ dma_busy \in BOOLEAN
  /\ ptr \in Slot
  /\ pos \in 0 .. BUFFER_SIZE
  /\ sel \in Chip
  /\ clocked \in Nat
  /\ armed \in BOOLEAN

ChipType ==
  /\ mode \in [Chip -> {"byte", "seq"}]
  /\ mem \in [Chip -> [0 .. ChipSize - 1 -> Cell]]

UserType ==
  /\ phase \in {"idle", "write", "flush", "done"}
  /\ offered \in 0 .. MaxBytes
  /\ pending \in 0 .. MaxCode
  /\ since \in Nat
  /\ sessions \in 0 .. MaxSessions
  /\ stream \in Seq(1 .. MaxBytes)

TypeOK == BufferType /\ DmaType /\ ChipType /\ UserType

(* The sampler after its start: all address lines are high (spi_low.c:14,  *)
(* target.h:89), and memory_init leaves them on the last chip.  It has set *)
(* the mode of that chip if the chip answered.                             *)
Init ==
  /\ phase = "idle"
  /\ buffer = [s \in Slot |-> [i \in 0 .. BUFFER_SIZE - 1 |-> 0]]
  /\ buffer_index = 0 /\ buffer_usage = 0 /\ buffer_overruns = 0
  /\ chip_no = 0 /\ bank_no = 0 /\ on_chip = [s \in Slot |-> 0]
  /\ num_ready = 0 /\ dma_index = 0 /\ dma_chip_no = 0 /\ dma_busy = FALSE
  /\ total = 0 /\ checksum = 0
  /\ ptr = 0 /\ pos = BUFFER_SIZE
  /\ sel = NUM_CHIPS - 1 /\ clocked = 0 /\ armed = FALSE
  /\ mode \in [Chip -> PowerUpModes]
  /\ mem = [c \in Chip |-> [a \in 0 .. ChipSize - 1 |-> 0]]
  /\ offered = 0 /\ pending = 0 /\ since = 0 /\ sessions = 0
  /\ stream = <<>>

(* (i + 1) & (SPIRAM_NUM_BUFFER - 1) *)
NextSlot(i) == IF i = NUM_BUFFER - 1 THEN 0 ELSE i + 1

rx_dma_empty == pos = BUFFER_SIZE

(***************************************************************************)
(* The decisions of the ring that are worth getting wrong: an operator     *)
(* each, and before some of them the variants (Bug...) with a plausible    *)
(* mistake that the runs must be able to tell from the code.               *)
(***************************************************************************)
BugOneSlotSpare(slot)  == slot # dma_index /\ NextSlot(slot) # dma_index
(* spiram_multi_write_next_buffer may move on to this buffer.              *)
SlotFree(slot) == slot # dma_index

BugNoHeaderRoom(newChip) == 0
(* Bytes of the WRITE command at the start of a buffer.                    *)
HeaderRoom(newChip) == IF newChip THEN HeaderSize ELSE 0

(* The buffer the next transfer sends.                                     *)
SlotToSend == dma_index

(* The next transfer goes to another chip than the last.                   *)
SwitchChip == dma_chip_no # on_chip[dma_index]

BugHandleAnyTime == TRUE
BugHandleWhenIdle == rx_dma_empty /\ ~dma_busy
(* spiram_multi_write_handle has something to do.                          *)
DmaServiceable == rx_dma_empty

BugForgetLast == 0
(* Buffers spiram_multi_write_end makes ready.                             *)
LastBuffer == IF buffer_usage > 0 THEN 1 ELSE 0

(* spiram_multi_write_end has sent everything.                             *)
AllSent == num_ready = 0 /\ rx_dma_empty

(***************************************************************************)
(* spiram_multi_init, then spiram_multi_write_begin.  The loop of the      *)
(* former never moves the address lines: it sets the mode of the selected  *)
(* chip NUM_CHIPS times, and of no other, whatever its comment says.  The  *)
(* selected chip is the last one written, read or tested.                  *)
(***************************************************************************)
multi_init == mode' = [mode EXCEPT ![sel] = "seq"]

multi_write_begin ==
  /\ phase \in {"idle", "done"} /\ sessions < MaxSessions
  /\ multi_init
  /\ buffer' = [buffer EXCEPT ![0] =
       [i \in DOMAIN @ |-> IF i < HeaderSize THEN Header(i) ELSE @[i]]]
  /\ buffer_index' = 0 /\ buffer_usage' = HeaderSize /\ buffer_overruns' = 0
  /\ chip_no' = 0 /\ bank_no' = 0 /\ on_chip' = [on_chip EXCEPT ![0] = 0]
  /\ num_ready' = 0 /\ dma_index' = 0 /\ dma_chip_no' = 0 /\ dma_busy' = FALSE
  /\ total' = 0 /\ checksum' = 0
  /\ pos' = BUFFER_SIZE
  /\ sel' = 0 /\ clocked' = 0 /\ armed' = FALSE
  /\ pending' = 0 /\ since' = 0 /\ sessions' = sessions + 1 /\ stream' = <<>>
  /\ phase' = "write"
  /\ UNCHANGED <<ptr, mem, offered>>

(***************************************************************************)
(* spiram_multi_write_byte, with the three outcomes of its condition.      *)
(***************************************************************************)
Accept(data) ==
  /\ total' = total + 1
  /\ checksum' = checksum + data
  /\ stream' = Append(stream, data)

StoreInBuffer(data) ==
  /\ buffer_usage # BUFFER_SIZE
  /\ buffer' = [buffer EXCEPT ![buffer_index][buffer_usage] = data]
  /\ buffer_usage' = buffer_usage + 1
  /\ Accept(data)
  /\ UNCHANGED <<buffer_index, buffer_overruns, chip_no, bank_no, on_chip,
                 num_ready>>

(* spiram_multi_write_next_buffer returns 1, and the byte is the first of  *)
(* the new buffer, after the header if the buffer opens a new chip.        *)
StoreInNextBuffer(data) ==
  LET next    == NextSlot(buffer_index)
      newChip == bank_no + 1 = NUM_BANKS
      first   == HeaderRoom(newChip)
  IN  /\ buffer_usage = BUFFER_SIZE
      /\ SlotFree(next)
      /\ buffer_index' = next
      /\ bank_no' = IF newChip THEN 0 ELSE bank_no + 1
      /\ chip_no' = IF newChip THEN chip_no + 1 ELSE chip_no
      /\ on_chip' = [on_chip EXCEPT ![next] = chip_no']
      /\ num_ready' = num_ready + 1
      /\ buffer' = [buffer EXCEPT ![next] =
           [i \in DOMAIN @ |-> IF i < first THEN Header(i)
                               ELSE IF i = first THEN data ELSE @[i]]]
      /\ buffer_usage' = first + 1
      /\ Accept(data)
      /\ UNCHANGED buffer_overruns

(* spiram_multi_write_next_buffer returns 0: the byte is lost.             *)
DropByte ==
  /\ buffer_usage = BUFFER_SIZE
  /\ ~SlotFree(NextSlot(buffer_index))
  /\ buffer_overruns' = buffer_overruns + 1
  /\ UNCHANGED <<buffer, buffer_index, buffer_usage, chip_no, bank_no, on_chip,
                 num_ready, total, checksum, stream>>

(* The flux of the disk gives the bytes their pace: while one transfer     *)
(* runs, at most BytesPerTransfer of them arrive.                          *)
multi_write_byte ==
  /\ phase = "write"
  /\ offered < MaxBytes /\ pending < MaxCode
  /\ ~rx_dma_empty => since < BytesPerTransfer
  /\ \/ StoreInBuffer(offered + 1)
     \/ StoreInNextBuffer(offered + 1)
     \/ DropByte
  /\ offered' = offered + 1 /\ pending' = pending + 1
  /\ since' = IF rx_dma_empty THEN since ELSE since + 1
  /\ UNCHANGED <<phase, dmaVars, chipVars, sessions>>

(***************************************************************************)
(* spiram_multi_write_handle: retire a finished transfer, start the next.  *)
(***************************************************************************)
StartDma ==
  /\ num_ready > 0
  /\ ptr' = SlotToSend
  /\ dma_index' = NextSlot(dma_index)
  /\ num_ready' = num_ready - 1
  /\ IF SwitchChip
     THEN /\ dma_chip_no' = on_chip[dma_index]
          /\ sel' = on_chip[dma_index] % NUM_CHIPS
          /\ clocked' = 0 /\ armed' = FALSE
     ELSE UNCHANGED <<dma_chip_no, sel, clocked, armed>>
  /\ pos' = 0
  /\ dma_busy' = TRUE
  /\ since' = 0

Idle ==
  /\ num_ready = 0
  /\ dma_busy' = FALSE
  /\ UNCHANGED <<ptr, dma_index, num_ready, dma_chip_no, sel, clocked, armed,
                 pos, since>>

Handle ==
  /\ IF DmaServiceable
     THEN StartDma \/ Idle
     ELSE UNCHANGED <<dmaVars, num_ready, since>>
  /\ UNCHANGED <<buffer, buffer_index, buffer_usage, buffer_overruns, chip_no,
                 bank_no, on_chip, total, checksum, chipVars, offered,
                 sessions, stream>>

(* The sampling loops call handle after the bytes of each cell.            *)
multi_write_handle ==
  /\ phase = "write" /\ pending > 0
  /\ Handle
  /\ pending' = 0
  /\ UNCHANGED phase

(***************************************************************************)
(* spiram_multi_write_end: the last buffer, the flush loop, the wait for   *)
(* the last transfer.  dma_busy is left as it is.                          *)
(***************************************************************************)
multi_write_end ==
  /\ phase = "write" /\ pending = 0
  /\ num_ready' = num_ready + LastBuffer
  /\ phase' = "flush"
  /\ UNCHANGED <<buffer, buffer_index, buffer_usage, buffer_overruns, chip_no,
                 bank_no, on_chip, total, checksum, dmaVars, chipVars,
                 userVars>>

FlushHandle ==
  /\ phase = "flush" /\ num_ready > 0
  /\ Handle
  /\ UNCHANGED <<phase, pending>>

FlushDone ==
  /\ phase = "flush" /\ AllSent
  /\ clocked' = 0 /\ armed' = FALSE
  /\ phase' = "done"
  /\ UNCHANGED <<ringVars, dma_index, dma_chip_no, dma_busy, ptr, pos, sel,
                 chipVars, userVars>>

(***************************************************************************)
(* The DMA moves one byte to the selected chip.  A chip in byte mode takes *)
(* the first byte of data only.                                            *)
(***************************************************************************)
ChipTakes(byte) ==
  /\ armed' = IF clocked < HeaderSize
              THEN (clocked = 0 \/ armed) /\ byte = Header(clocked)
              ELSE armed
  /\ IF armed /\ clocked >= HeaderSize /\ (mode[sel] = "seq" \/ clocked = HeaderSize)
     THEN mem' = [mem EXCEPT ![sel][(clocked - HeaderSize) % ChipSize] = byte]
     ELSE UNCHANGED mem
  /\ clocked' = clocked + 1

DmaShift ==
  /\ ~rx_dma_empty
  /\ ChipTakes(buffer[ptr][pos])
  /\ pos' = pos + 1
  /\ UNCHANGED <<phase, ringVars, dma_index, dma_chip_no, dma_busy, ptr, sel,
                 mode, userVars>>

(* The bounds are used up: the caller is back in its command loop.         *)
Finished ==
  /\ phase \in {"idle", "done"} /\ sessions = MaxSessions
  /\ UNCHANGED vars

Next ==
  \/ multi_write_begin
  \/ multi_write_byte
  \/ multi_write_handle
  \/ multi_write_end
  \/ FlushHandle
  \/ FlushDone
  \/ DmaShift
  \/ Finished

Spec == Init /\ [][Next]_vars

(* A started transfer proceeds, and multi_write_end runs on: both are      *)
(* unconditional in the hardware and in the code.                          *)
Fairness == WF_vars(DmaShift) /\ WF_vars(FlushHandle) /\ WF_vars(FlushDone)

FairSpec == Spec /\ Fairness
=============================================================================
