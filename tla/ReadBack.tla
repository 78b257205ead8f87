------------------------------ MODULE ReadBack ------------------------------
(***************************************************************************)
(* The track buffer over the SPI RAM: what the sampler does with a stored  *)
(* stream.  A reading session ends with buffer_set (buffer.c) and the      *)
(* check of trk_check_spiram (trk_read.c); later commands check the RAM    *)
(* again, save it to the SD card (buffer_write, file.c) or overwrite it    *)
(* with the memory tests (memory.c).                                       *)
(*                                                                         *)
(* The writer and the readers find the bytes of a stream by separate       *)
(* address arithmetic; the readers share spiram_buffer[0] with the ring.   *)
(***************************************************************************)
EXTENDS SpiRamProps

CONSTANT MaxCommands  \* bound: commands that follow the reading sessions

ASSUME CommandAssumption == MaxCommands \in Nat

STATUS_OK                       == 0
ERROR_SAMPLER_NO_INDEX          == 1
ERROR_SAMPLER_DATA_OVERRUN      == 4
ERROR_SAMPLER_CHECKSUM_MISMATCH == 8
ERROR_FILE_WRITE                == 16
ERROR_MEMORY_INIT               == 32
ERROR_MEMORY_CHECKSUM_MISMATCH  == 33
MEMORY_FAULT                    == 255  \* a mask of chips, or the 0xff of one

VARIABLES
  cmd,          \* command in progress; "loop" between commands
  found,        \* an index was found: the session may store bytes
  buf,          \* the track buffer of buffer.c: size and checksum
  rd,           \* locals of the reading loop: size left, chip, bank, sum
  seen,         \* history: the bytes the loop consumed
  file,         \* bytes of the file being saved
  cut,          \* history: the card ran full under this file, or the close
                \* failed; the code sees neither
  result,       \* error code the last command returned
  done,         \* the last command completed
  track,        \* history: the stream of the last completed session
  kept,         \* history: that stream did fit the chips
  commands      \* commands executed

readerVars == <<cmd, found, buf, rd, seen, file, cut, result, done, track, kept, commands>>
allVars    == <<vars, readerVars>>

EmptyBuffer == [size |-> 0, checksum |-> 0]
NoReader    == [size |-> 0, chip |-> 0, bank |-> 0, sum |-> 0]

ReadBackType ==
  /\ TypeOK
  /\ cmd \in {"loop", "read", "verify", "check", "save"} /\ found \in BOOLEAN
  /\ buf \in [size : Nat, checksum : Nat]
  /\ rd \in [size : Nat, chip : Nat, bank : 0 .. NUM_BANKS - 1, sum : Int]
  /\ seen \in Seq(Cell) /\ file \in Seq(Cell) /\ track \in Seq(Cell)
  /\ cut \in BOOLEAN /\ kept \in BOOLEAN
  /\ result \in 0 .. 255
  /\ done \in {"none", "read", "check", "save", "memory"}
  /\ commands \in 0 .. MaxCommands

InitReadBack ==
  /\ Init
  /\ cmd = "loop" /\ found = FALSE
  /\ buf = EmptyBuffer /\ rd = NoReader
  /\ seen = <<>> /\ file = <<>> /\ cut = FALSE /\ track = <<>> /\ kept = TRUE
  /\ result = STATUS_OK /\ done = "none" /\ commands = 0

(***************************************************************************)
(* A reading session: the part of trk_read_to_spiram around the stream.    *)
(***************************************************************************)
(* buffer_clear, before every session. *)
ClearedBuffer == EmptyBuffer

ReadBegin ==
  /\ cmd = "loop" /\ multi_write_begin
  /\ cmd' = "read" /\ found' \in BOOLEAN
  /\ buf' = ClearedBuffer
  /\ UNCHANGED <<rd, seen, file, cut, result, done, track, kept, commands>>

Sampling ==
  /\ cmd = "read"
  /\ \/ found /\ multi_write_byte
     \/ multi_write_handle \/ multi_write_end
     \/ FlushHandle \/ FlushDone \/ DmaShift
  /\ UNCHANGED readerVars

SamplerResult ==
  IF buffer_overruns > 0 THEN ERROR_SAMPLER_DATA_OVERRUN ELSE STATUS_OK

(* The loops of both readers start at chip 0, after spiram_multi_init.     *)
StartReader(size) ==
  /\ multi_init
  /\ sel' = 0
  /\ rd' = [size |-> size, chip |-> 0, bank |-> 0, sum |-> 0]
  /\ seen' = <<>>

(* Bytes trk_check_spiram goes over: the stream, and for each chip but the *)
(* last the three bytes its last bank falls short.                         *)
CheckSize == total + chip_no * HeaderSize

busVars == <<dma_index, dma_chip_no, dma_busy, ptr, pos, clocked, armed>>

ReadEnd ==
  /\ cmd = "read" /\ phase = "done"
  /\ kept' = StreamFits
  /\ IF found
     THEN /\ buf' = [size |-> total, checksum |-> checksum]
          /\ track' = stream
          /\ cmd' = "verify"
          /\ StartReader(CheckSize)
          /\ result' = SamplerResult
          /\ UNCHANGED done
     ELSE /\ cmd' = "loop" /\ track' = <<>>
          /\ result' = ERROR_SAMPLER_NO_INDEX /\ done' = "read"
          /\ UNCHANGED <<buf, rd, seen, mode, sel>>
  /\ UNCHANGED <<phase, ringVars, busVars, mem, userVars, found, file, cut, commands>>

(***************************************************************************)
(* One pass of either loop: fetch a whole buffer into spiram_buffer[0],    *)
(* take the first `take' bytes of it, go on by `step'.  A chip in byte     *)
(* mode delivers no more than the first byte; 0 stands for the rest.       *)
(***************************************************************************)
BlockByte(i, inMode) ==
  IF inMode = "seq" \/ i = 0 THEN mem[sel][rd.bank * BUFFER_SIZE + i] ELSE 0

Taken(take, inMode) == [i \in 1 .. take |-> BlockByte(i - 1, inMode)]

SumOf(s) ==
  LET sum[n \in 0 .. Len(s)] == IF n = 0 THEN 0 ELSE sum[n - 1] + s[n]
  IN  sum[Len(s)]

Advance(take, step, inMode) ==
  LET lastBank == rd.bank + 1 = NUM_BANKS
  IN  /\ buffer' = [buffer EXCEPT ![0] = [i \in DOMAIN @ |-> BlockByte(i, inMode)]]
      /\ seen' = seen \o Taken(take, inMode)
      /\ rd' = [size |-> rd.size - step,
                chip |-> IF lastBank THEN rd.chip + 1 ELSE rd.chip,
                bank |-> IF lastBank THEN 0 ELSE rd.bank + 1,
                sum  |-> rd.sum + SumOf(Taken(take, inMode))]
      /\ sel' = IF lastBank THEN (rd.chip + 1) % NUM_CHIPS ELSE sel

Smaller(a, b) == IF a < b THEN a ELSE b

(* Bytes of the next block, of `left' to go.                               *)
BlockSize(left) == Smaller(left, BUFFER_SIZE)

BugFullLastBank(n) == n
(* The last bank of a chip holds three bytes less.                         *)
InBank(n) ==
  IF rd.bank = NUM_BANKS - 1 THEN Smaller(n, BUFFER_SIZE - HeaderSize) ELSE n

readOnly == <<phase, buffer_index, buffer_usage, buffer_overruns, chip_no,
              bank_no, on_chip, num_ready, total, checksum, busVars, userVars>>

CheckBlock ==
  /\ cmd \in {"verify", "check"} /\ rd.size > 0
  /\ LET delta == BlockSize(rd.size)
     IN  Advance(InBank(delta), delta, mode[sel])
  /\ UNCHANGED <<readOnly, chipVars, cmd, found, buf, file, cut, result, done, track,
                 kept, commands>>

BugNoCompare == FALSE
ChecksumFails == rd.sum # buf.checksum

CheckEnd ==
  /\ cmd \in {"verify", "check"} /\ rd.size = 0
  /\ result' = IF ChecksumFails
               THEN result + ERROR_SAMPLER_CHECKSUM_MISMATCH ELSE result
  /\ cmd' = "loop" /\ done' = IF cmd = "verify" THEN "read" ELSE "check"
  /\ UNCHANGED <<vars, found, buf, rd, seen, file, cut, track, kept, commands>>

(***************************************************************************)
(* Further commands.                                                       *)
(***************************************************************************)
NextCommand ==
  /\ cmd = "loop" /\ phase \in {"idle", "done"} /\ commands < MaxCommands
  /\ commands' = commands + 1

(* The `rv' command: trk_check_spiram on its own.                          *)
CheckCommand ==
  /\ NextCommand
  /\ StartReader(CheckSize)
  /\ cmd' = "check" /\ result' = STATUS_OK
  /\ UNCHANGED <<readOnly, buffer, mem, found, buf, file, cut, done, track, kept>>

(* file_save_buffer has opened the file with FA_CREATE_ALWAYS and calls    *)
(* buffer_write.  A chip that does not answer the mode ends it at once.    *)
SaveEndsWith(error) == cmd' = "loop" /\ result' = error /\ done' = "save"

SaveCommand ==
  /\ NextCommand
  /\ file' = <<>> /\ cut' = FALSE
  /\ \/ StartReader(buf.size) /\ cmd' = "save" /\ UNCHANGED <<result, done>>
     \/ SaveEndsWith(ERROR_MEMORY_INIT) /\ UNCHANGED <<mode, sel, rd, seen>>
  /\ UNCHANGED <<readOnly, buffer, mem, found, buf, track, kept>>

(* What file_writer appends for a block and the code it returns: on an     *)
(* error of f_write any part of the block may be on the card.  The number  *)
(* of bytes written is not looked at, so a card that runs full is no       *)
(* error; it stays full, and the blocks that follow add nothing.           *)
Written(block, error) ==
  \/ ~cut /\ file' = file \o block /\ error = STATUS_OK /\ UNCHANGED cut
  \/ \E n \in 0 .. Len(block) - 1 :
       /\ cut => n = 0
       /\ file' = file \o SubSeq(block, 1, n)
       /\ \/ error = ERROR_FILE_WRITE /\ UNCHANGED cut
          \/ error = STATUS_OK /\ cut' = TRUE

(* One block of buffer_write; the mode of the chip is set, and read back,  *)
(* for each.                                                               *)
SaveBlock ==
  LET blk == InBank(BlockSize(rd.size))
  IN  /\ cmd = "save" /\ rd.size > 0
      /\ multi_init
      /\ Advance(blk, blk, "seq")
      /\ \E error \in {STATUS_OK, ERROR_FILE_WRITE} :
           /\ Written(Taken(blk, "seq"), error)
           /\ IF error = STATUS_OK THEN UNCHANGED <<cmd, result, done>>
                                   ELSE SaveEndsWith(error)
      /\ UNCHANGED <<readOnly, mem, found, buf, track, kept, commands>>

(* The chip does not answer the mode: buffer_write returns a plain 1,      *)
(* which is the code of a missing index.                                   *)
SaveModeFails ==
  /\ cmd = "save" /\ rd.size > 0
  /\ SaveEndsWith(ERROR_SAMPLER_NO_INDEX)
  /\ UNCHANGED <<vars, found, buf, rd, seen, file, cut, track, kept, commands>>

(* The result of f_close is not looked at: if it fails, the directory may  *)
(* still give the file no byte at all.                                     *)
CloseFile ==
  \/ UNCHANGED <<file, cut>>
  \/ file' = <<>> /\ cut' = TRUE

SaveEnd ==
  /\ cmd = "save" /\ rd.size = 0
  /\ SaveEndsWith(IF ChecksumFails THEN ERROR_MEMORY_CHECKSUM_MISMATCH
                                   ELSE STATUS_OK)
  /\ CloseFile
  /\ UNCHANGED <<vars, found, buf, rd, seen, track, kept, commands>>

(***************************************************************************)
(* The memory tests.  What they write is a content of their own, for which *)
(* 0 stands; the track buffer is not told.                                 *)
(***************************************************************************)
MemoryTest(error) ==
  /\ NextCommand
  /\ result' = error /\ done' = "memory"
  /\ UNCHANGED <<readOnly, cmd, found, buf, rd, seen, file, cut, track, kept>>

(* A chip in byte mode takes the first byte only.                          *)
Overwritten(cells, inMode) ==
  [a \in DOMAIN cells |-> IF inMode = "seq" \/ a = 0 THEN 0 ELSE cells[a]]

TestBuffer == buffer' = [buffer EXCEPT ![0] = [i \in DOMAIN @ |-> 0]]

(* memory_init (command `mi').  The selected chip does not answer the      *)
(* mode, and that is all; else every chip is written and read back, and    *)
(* those in byte mode fail.                                                *)
memory_init ==
  \/ MemoryTest(MEMORY_FAULT) /\ UNCHANGED <<mode, mem, buffer, sel>>
  \/ /\ multi_init
     /\ mem' = [c \in Chip |-> Overwritten(mem[c], mode'[c])]
     /\ TestBuffer
     /\ sel' = NUM_CHIPS - 1
     /\ MemoryTest(IF \A c \in Chip : mode'[c] = "seq" THEN STATUS_OK
                                                       ELSE MEMORY_FAULT)

(* memory_check (`mc'): each chip in turn is selected, set and tested.     *)
(* One that does not answer is left at that, the others still follow.  The *)
(* test without DMA does not use the buffer.                               *)
memory_check == \E answers \in SUBSET Chip :
  /\ mode' = [c \in Chip |-> IF c \in answers THEN "seq" ELSE mode[c]]
  /\ mem' = [c \in Chip |-> IF c \in answers THEN Overwritten(mem[c], "seq")
                                             ELSE mem[c]]
  /\ (answers # {} /\ TestBuffer) \/ UNCHANGED buffer
  /\ sel' = NUM_CHIPS - 1
  /\ MemoryTest(IF answers = Chip THEN STATUS_OK ELSE MEMORY_FAULT)

(* The bounds are used up.                                                 *)
Exhausted ==
  /\ cmd = "loop" /\ sessions = MaxSessions /\ commands = MaxCommands
  /\ UNCHANGED allVars

NextReadBack ==
  \/ ReadBegin \/ Sampling \/ ReadEnd
  \/ CheckBlock \/ CheckEnd
  \/ CheckCommand
  \/ SaveCommand \/ SaveBlock \/ SaveModeFails \/ SaveEnd
  \/ memory_init \/ memory_check
  \/ Exhausted

SpecReadBack == InitReadBack /\ [][NextReadBack]_allVars

(***************************************************************************)
(* Properties.                                                             *)
(***************************************************************************)

(* A check right after its session, of a stream that fitted the chips and  *)
(* found them in sequential mode, finds what was stored: the reader's      *)
(* addresses and sizes meet the writer's at every boundary of a buffer,    *)
(* bank and chip, so the checksum never fails a good track, whatever       *)
(* failed sessions, saves and memory tests were before.                    *)
GoodTrackPasses ==
  done = "read" /\ cmd = "loop" /\ found /\ kept => seen = track /\ result = STATUS_OK

(* A reader of such a stream never goes on to a chip that is not there.    *)
ReaderInChips == cmd \in {"verify", "check", "save"} /\ kept => rd.chip <= NUM_CHIPS

(* A check can be trusted: the reader keeps within the chips and what it   *)
(* fails was not stored.                                                   *)
CheckTrustworthy == ReadBackType /\ ReaderInChips /\ GoodTrackPasses

(* A save that returns STATUS_OK has written nothing but the stream of the *)
(* session the track buffer describes, from its first byte on: not an      *)
(* older one, not the content of a memory test.  It is all of it, as       *)
(* doc/sampler.txt:48 ("save memory to file") has it, unless the card ran  *)
(* full or the file could not be closed, which the code does not see       *)
(* (file.c:45, 93).                                                        *)
SavedFileIsTrack ==
  done = "save" /\ cmd = "loop" /\ result = STATUS_OK /\ kept =>
    /\ \A n \in 1 .. Len(file) : n <= Len(track) /\ file[n] = track[n]
    /\ cut \/ file = track
=============================================================================
