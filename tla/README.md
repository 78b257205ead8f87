# Verification of DiskFreezerX

DiskFreezerX reads floppy disks at the level of flux: a microcontroller (the
sampler, `sampler/sam7x`) times the distance between flux changes, stores the
distances of a track in SPI RAM chips, and writes the RAM to files on an SD card. A
Linux program (`capture/linux`) can fetch tracks over SPI, a Python program
(`analyze`) decodes saved tracks, and an AVR board (`sampler/avr`) shows text.
This directory holds TLA+ models of them, TLC runs that check the models on small
instances, and proofs checked by TLAPS.

Paths without a directory are in `src/sampler/sam7x`.

## 1. Inventory

| component | code | state | operations | status |
|---|---|---|---|---|
| SPI RAM write path | `spiram.c/h`, `spi_low.c/h` | ring of 4 buffers, two ring indices, count of ready buffers, chip and bank of the writer, chip of the DMA, overruns, total, checksum | `spiram_multi_init`, `_write_begin`, `_write_byte`, `_write_handle`, `_write_end` | `SpiRam` |
| Track buffer, read-back | `buffer.c`, `trk_read.c` (`trk_check_spiram`), `memory.c`, `file.c` (`file_writer`) | track, size and checksum of what is in the RAM | `buffer_set/clear/write`, `trk_check_spiram`, memory tests | `ReadBack` |
| Track sampler | `trk_read.c`, `index.c`, `status.c` | `idx_flag`, code buffer, counters, index times | `trk_read_to_spiram`, `read_index_func` | `TrackRead` |
| Interval timer | `pit.c`, and its users `file.c`, `trk_read.c` | timer and interrupt enables, PICNT, timestamp, seconds | `pit_irq_start/stop/svc`, `pit_peek`, index and cell counting | `PitClock` |
| Drive and disk commands | `floppy.c`, `floppy-low.c`, `track.c`, `disk.c`, `file.c`, `cmd_parse.c` | select and motor, track, side, `max_track`, directory name, files on the card | commands `f t is im rm rf R` | `DiskRead` |
| File commands and FAT | `file.c`, `ff.c` | sectors of the card; window, free cluster hints, open file, directory position | `f_mount/open/write/close/mkdir/opendir/readdir`, the three file commands | `FatVolume`, `FileStore` |
| SD card driver | `diskio_spi.c` | `Stat`, `CardType`, two countdown timers, the bus | `disk_initialize/read/write/ioctl`, `disk_timerproc` | `SdCard` |
| Capture host | `capture/linux` | track and side it believes in, raw blocks, files | `read_dsk`, `read_trk`, `cmd_exec`, block protocol and decoder | `Capture` |
| Analyzer | `analyze/dfx-analyze.py` | samples, index marks, bits, blocks, sectors | `analyze_file` | `Analyzer` |
| AVR console | `sampler/avr`: `main.c`, `console.c`, `uart.c` | receive ring, cursor, characters, display | receive interrupt, `uart_read`, `console_putch` | `AvrConsole` |
| AVR drivers | `sampler/avr`: the rest | | | not modelled |
| Network | `wiz.c`, `wiz_low.c`, `net.c` | registers of the WIZnet chip | set-up, one test command | not modelled |
| Clock chip | `rtc.c` | registers | get, set | not modelled |
| Console of the sampler | `uart*.c`, `cmdline.c` | line, result buffer | get line, parse | not modelled; its commands are actions |
| Cell timer, histogram | `timer.c`, `spectrum.c` | | | timer is an input of `TrackRead` |

How they interact. The sampler's main program is one thread: it reads a line, `cmd_parse`
runs each command to its end. Beside it run the DMA (moves a buffer to a chip),
the index interrupt (`read_index_func`, `index_func`), the timer interrupt
(`pit_irq_svc`, only during file commands, which counts the card driver's timers down)
and the disk, which sets the pace of flux and index pulses. Shared without locks are:
the ring (writer, handler, DMA, and later the readers, which use `spiram_buffer[0]`),
`idx_flag` (interrupt, loop), the timer (a clock for the sampler, a tick for the file
commands), `Timer1` and `Timer2` (driver, interrupt), the SPI bus and its lines (RAM
chips, SD card), the content of the RAM (sampler, memory tests, save), and the card
(file commands, and whatever an interrupted one left). The capture host talks to a sampler
in lines of commands and streams of blocks. A saved track is what the sampler's codes
were and what the analyzer reads.

What is hard here, and so what the properties are about:

* the DMA and the writer in one ring, with an index that moves early;
* the three command bytes at the start of each chip, which shift every address, and
  the separate arithmetic of the writer and of two readers;
* an interrupt between any two accesses to `idx_flag`, between a poll and its timeout,
  between a test for a byte and its read;
* the timer, left on by one command and read as a clock by another;
* heads whose position is known by counting steps only, on either end of a link;
* failures in the middle: of a card, a track, a directory, a full disk, the power;
* the order in which FAT, directory, FSInfo and data reach the card;
* frames that begin and end anywhere in a block; damaged cells anywhere in a track;
* what a saved file claims (name, completeness) against what was sampled when.

`PROJECT.json` lists each of these at its line under "hazards".

## 2. Modules

| module | models | constants of the code |
|---|---|---|
| `ByteStream` | abstract: a session stores accepted bytes once, in order, and closes when all are stored | |
| `SpiRam` | the write path, the DMA byte by byte, the chips | 4 buffers of `SPI_BUFFER_SIZE`, 8 chips of 32 KiB |
| `SpiRamProps` | its properties and the mapping to `ByteStream` | |
| `SpiRamProofs` | theorems about the ring, the pace of the DMA, the chips, the abstract stream and the readers of `ReadBack` | |
| `ReadBack` | EXTENDS `SpiRam`: sessions followed by checks, saves and memory tests | |
| `TrackRead` | the sampling loop and its interrupt | `NO_IDX_COUNT`, up to 8 indices |
| `TrackReadProofs` | its theorems | |
| `PitClock` | the timer, its interrupt, its users | timeout 5 turns, 1000 ms, 32 bits |
| `PitClockProofs` | its theorems | |
| `DiskRead` | commands, head, buffer, directories, `disk_read_all` | 80 tracks, 84 steps, cap 85, 16-bit numbers |
| `DiskReadProofs` | its theorems | |
| `TrackStore` | abstract: a save touches the file it names, which then holds a beginning of the data; a new directory is empty | |
| `FatVolume` | FatFs as the file commands use it, in single disk operations | sectors of 512 bytes |
| `FileStore` | EXTENDS `FatVolume`: the file commands, failing operations, loss of power | |
| `SdCard` | the card driver poll by poll, the card, its socket, the tick | timers of 10 to 100 ticks, 100 readings |
| `SdCardProofs` | theorems about the protocol and what a good card is given | |
| `DiskCapture` | abstract: the tracks asked for, in their order, each whole unless the host's disk cut it; success only at the end, cut files or not | |
| `Capture` | the capture host and a sampler it does not control | blocks of 4096 bytes |
| `CaptureProofs` | its theorems | |
| `Analyzer` | from a track file to its sectors | 11 sectors, noise level 24, marker 4 |
| `AnalyzerProofs` | its theorems | |
| `AvrConsole` | ring, console and main loop of the AVR board | ring of 16, console of 40 by 2 |
| `AvrConsoleProofs` | its theorems | |
| `MC_*` | instances for TLC | |

The actions carry the names of the functions, and variables those of the C
variables without their prefix. A part of a function that another actor can
interrupt, or that a test hardly reaches, is an action of its own:
`trk_read_to_spiram` is `Setup`, `ClearFlag`, `Wait`, `Poll`, `TestIndex`,
`StoreIndex`, `AckIndex`, `StopHardware`, `Finish`, since `idx_flag` is tested, read
and reset by separate instructions; a wait of the card driver is `Poll` and `TestTimer`;
`uart_read` is `SeeByte` (its test, with interrupts on) and `uart_read` (the rest, with
interrupts off). `spiram_multi_write_byte` is one action with three outcomes: only the
DMA runs beside it, and the DMA reads nothing the function writes in between. A decision
with a plausible mistake (`SlotFree`, `HeaderRoom`, `InBank`, `MayStep`, `Truncate`,
...) is an operator; the definitions `Bug...` before it are those mistakes, which the
runs must be able to tell from the code. They are used nowhere else.

### SpiRam

A byte is its ordinal among the bytes offered, so any byte lost, doubled or out of
place shows. `DmaShift` moves one byte; chips take what follows a WRITE at address 0
since chip select fell. In byte mode a chip keeps the first byte only. At start the
address lines are at the last chip: all of them are raised at boot (`spi_low.c:14`,
`target.h:89`) and the loops of `memory_init` leave them so (`spiram.c:112-124`).

The disk's pace is the guard of `multi_write_byte`: while a transfer runs at most
`BytesPerTransfer` bytes are offered, and at most `MaxCode` between two calls of
`multi_write_handle`. At 6 MHz a 512-byte transfer takes 683 us; cells come no
faster than one in 2 us (the simulated track has `delay_us(2)` in its loop,
`trk_read.c:254`), so no more than 341 bytes arrive: with the header and a code of
five bytes this is below 512, the assumption `Paced`. `SpiRam_burst` drops the bound.

The pointer `spiram_buffer_ptr` and the chip-select line are implied by
`buffer_index` and `sel`/`clocked`. Checksums and totals are integers: 2^32 is above
the sum of all bytes of the RAM.

### ReadBack

The readers' loops take a block per step. A checksum is a sum of
ordinals, and whatever else may be in the RAM is zeros, which lower the sum: a checksum
that agrees by chance is outside the model. The memory tests write to
chips of either mode, and a chip need not answer the command that sets its mode; of what
they find only that there was a fault is kept (`MEMORY_FAULT`), and their content is the
one value 0.

`file` is what the card holds. The code looks neither at the number of bytes that `f_write`
took (`file.c:45`) nor at the result of `f_close` (`file.c:93`): a card may run full in any
block, or the close may fail, and the save still returns `STATUS_OK`. The history `cut`
says that this happened. `kept` says that the stream of the last session fitted the chips
and found them in sequential mode.

### TrackRead

Time is counted in passes. `code` and `ram` hold records of a byte's meaning and the
pass of its cause. A `Regime` says what disk and ring do during a command: how many steps
of the loop lie between two pulses, how wide cells are, and whether the ring may refuse
bytes. A turn is 200 ms and a pass some microseconds, so the real gap is larger than any
in the instance, and a gap of 4 already lets a pulse fall at each instruction of a pass.
`CleanTrackIsWhole` counts one marker less than pulses: the loop ends with the last
marker in `code`, before it is written (`trk_read.c:354, 399`).

### PitClock

Time is counted in turns of the timer (PICNT). A spinning disk sends a pulse between
two turns while it is waited for (200 ms against 350 ms, the period with PIV at its
maximum). An interrupt can be `MaxLate` turns late. The callbacks of `pit_irq_svc`
do not touch the timer; the card driver's is in `SdCard`.
`CounterReset` is an action of its own, since the index interrupt is on by then
(`trk_read.c:42-45, 83-86`): a pulse before it is in the store only. `CountData` may end
with `ERROR_SAMPLER_CELL_OVERRUN` (`trk_read.c:114-124`); cells are not followed here.
`TimedOut` has `>=` for the code's `>`: `pit_peek` reads the whole register, whose low part
is almost never 0.
`Spin` starts and stops the disk between commands only. `failed` remembers that the last
file command returned without `pit_irq_stop`: index times and timeouts are right unless
it did, and the next file command that ends repairs them.

### DiskRead

A file is the place on the disk whose flux it holds and its state: whole, cut (a full card
or a failed close, which return `STATUS_OK`), or failed. One `ERROR_FILE` stands for all
codes of the file and memory functions. The drive's head is real, `track` is counted, and
`HeadMax` is the last cylinder of the drive. The count is right on a drive the firmware can
count (`DriveFits`): one with the tracks that `track_init` allows (80), from whose last one
the seek gets back (84 steps), if `tm` asks for no more. `track_set_max` does not see to
that by itself: it takes up to 85 (`track.c:51`), where no drive has a cylinder and the seek
to zero would stop one short. The instance keeps these relations: a cap beyond the seek, a
seek beyond the drive. `disk_read_all` goes track by track; each step may fail in each way
its callee can. The search for a number may have seen only some of the directories, as a
read error ends it like the end of the table does (`file.c:191`); `f_mkdir` may fail after
it has written the entry. The card may hold any set of directories at boot. `im` takes any
number. What becomes of a file inside the card is the subject of `FileStore`.

### FatVolume and FileStore

A volume is a record threaded through the functions: the sectors, the window and
whether it is dirty, FSInfo's hints, the directory position, the open file, the result.
Every function ends in `DiskOp`, one sector read or written, which counts itself in `ops`
and fails if it is the one chosen to; `log` is the list of the writes. So a command is
one action of `FileStore`, and yet any operation in it can fail, and `PowerLoss` leaves
the card with any beginning of the command's writes. Single writes of a sector are
atomic and done in order. An operation that fails leaves its sector as it was; a card that fails
from some point on leaves what a loss of power there leaves, as to its content.

`tree` is what a reader of the card makes of it: entries with their chains and bytes.
It is computed from the sectors after each command. Not followed further is a card whose
tables show an entry in a cluster that was never cleared (`Garbled`): what is in it is
arbitrary, and FatFs has no test for it.

Names are members of small sets. Long names are configured, and the name of a disk whose
number has a hexadecimal letter (`disk000A.dfx`: a capital digit among small letters) cannot
be a short entry with one case, so a long entry goes in front of it (`IsLong`, `PutLong`);
such a directory takes two entries, in up to two sectors, and power may be lost between them.
Without its long entry it is read as `DISK000A.DFX`. Not followed are what the
sampler's names never need: short names that have to be numbered, several long entries for
a name, checksums of them that agree by chance. `Block` is the size of the blocks that
`buffer_write` hands over: at most a sector, so `WriteWhole` writes one. FAT16 and FAT32
are modelled, with one and two FATs; FAT12, the search for a partition and a
protected card (which `SdCard` has) are not.

What the models keep of the code, because the properties have to live with it:

* `ERROR_MEMORY` comes from a RAM that falls silent after any amount of data (`silent`);
* `dir_name` is set even if the directory cannot be made;
* the results of `f_close` and the number of bytes `f_write` took are ignored, so
  `SavedIsComplete` excepts a card with no free cluster and a failed operation;
* `f_mkdir` that fails in `dir_register` frees the cluster in the window only, and it is
  lost: `LossByMkdirOnly` counts them;
* a read error in a listing ends it as if the table ended there;
* `create_chain`'s result for a disk error goes into `org_clust` before it is tested
  (`ff.c:1874`), and from there into the entry: such a file is empty, and cannot be
  opened over again.

### SdCard

Every wait is a loop of `Poll` (read the card) and `TestTimer` (read the counter), and
`disk_timerproc` can come between. `polled` lets the driver move between two ticks: a tick
is 11 ms, a poll some microseconds. The card works on something for up to `Patience` ticks
if it is good, may refuse a command or a block, gets stuck, or is pulled; after a session
another may be put in, whose contacts bounce. A session is what a file command makes of the
driver: `disk_initialize`, reads, writes and `CTRL_SYNC`, reads of the RAM in between,
`CTRL_POWER`. `Echoes` is the test of what the card sends behind its answer to CMD8
(`diskio_spi.c:344`); a good card echoes it. The file commands pass `CTRL_POWER` a null
pointer and the driver reads its sub-command through it: on, off and neither are all
possible.

`GoodCardServed` holds of cards that take a tick or two less than a timeout allows:
`Patience` says how much less, and why.

### Capture

A stream is a sequence of data, fill and markers; `at` is how much of it was sent. The
sampler runs a line in its own time, may fail a command of it, abort it, or never get
to it, and while it runs polls see either its status or a byte that looks like READY.
Before a track the head may be anywhere. `fopen` may fail; what `fwrite` and `fclose`
return is not looked at (`read.c:227-228, 342-343`), so on a full disk of the host a
file is truncated, the capture goes on, and at its end comes the message of success.
`cut` names those files; `DiskCapture` promises no more. Transfers themselves do not fail:
`spi_transmit` takes every result of `ioctl` but 1 for success (`spi.c:85`), and what the
buffer holds then is not modelled. The same for `malloc`: when it fails,
`spi_bulk_read_raw_blocks` returns before it sets its results (`spi_bulk.c:33`).

`ShortRead` in `GoodTrackTaken` is the code's: the end of a track is looked for from the
second block on (`spi_bulk.c:87-103`).

### Analyzer

A bit is known by the cell it was written with, so that a checksum is the question
whether the bits are those of one sector. `Code` has what the sampler writes for a cell,
undamaged or damaged in nine ways. Each function of `analyze_file` is an action; an
exception of Python is the stage "raised". What the tool's reading of the codes comes to:

* the filter keeps bytes *below* marker 4, so the mark of a timer overflow is taken for
  a spike and makes the next sample four ticks longer (`dfx-analyze.py:201`);
* it also takes the low byte of an overflow's value for a spike if it is below 25; then
  `extract_markers` takes the next sample for the value: the kind "longlow", whose next
  sample is `Swallowed`. `IndexInPlace` does not count marks on such a track;
* the spike made of that low byte waits for the next sample, and several of them add
  up, across samples that were lost: two times 20 ticks make a cell of three bits of one
  of two. `Becomes` says which cells come through, so it has at most one of
  `SpikesBefore`;
* samples of 4 or less (`trk_read.c:368-370`) would be read as marks; no flux is that
  short, and they are not among the codes.

Damage is not local in one respect: the program may raise, and then the whole track is
lost with all its sectors. It does so in three places: `chr()` of a sample above 255, which
spikes in front of a weak or slow one make (`dfx-analyze.py:212-214`); a value that ends the
data before its byte (`:89`); and a sector number of 11 or more (`:516`). `Lost` names the
three causes (`TooLong`, `ValueCut`, `UnknownSector`), all of which occur in the run, and
`TrackLost` says that there is no other.

`sync_pos`, `raw_blks` and `blks` are lists in the code and sets here: the order of the
first two is that of the offsets, and the order of the blocks, in which the first valid
one is written, is `Earlier`: those found by their syncs are before those that
`recover_lost_sync_blocks` appends (`lost`), and both are in the order of the bits.

### AvrConsole

Bytes arrive at any moment but in the instructions of `uart_read` that run with
interrupts off. The ring has no test for being full, so the interrupt may lap the reader:
`RingKeepsLast` says what is lost then. `read_image` covers the display from the top to
where the file could be read, and the console draws over it.

## 3. Runs

| run | checks | instance |
|---|---|---|
| `SpiRam_paced` | placement of every byte, no loss, DMA and writer apart, chips switched between transfers, refinement of `ByteStream` | 4 buffers of 7 bytes, 2 chips of 3 banks, 2 sessions, 36 bytes = both chips to the last byte |
| `SpiRam_burst` | ring sound, drops only when full, flush ends | 4 buffers of 4, 18 bytes against a capacity of 10, no pace |
| `ReadBack_sessions` | a check of a track that fitted can be trusted; a save of it with `STATUS_OK` is the track, all of it unless the card ran full or the close failed | 2 buffers of 6, 2 chips of 2 banks = 18 bytes, chips that start in either mode, sessions of every length, then 2 commands |
| `TrackRead_command` | markers in place, pulses neither lost nor doubled; the result tells of lost bytes; the command ends | 2 indices; gaps 4 to 6, word cells, all status words; and a ring that refuses any byte, both widths, gap 4 |
| `PitClock_shared` | exact timestamp, true index times, waits end, spinning disk never reported missing | any 3 commands, the early return of a file command among them; timeout 3 turns, waits of up to 5, second of 3, counters modulo 8 |
| `DiskRead_commands` | head counted, names of files, a finished disk has a file of each track, no disk overwritten, drive restored | 4 cylinders, 3 numbers for directories, 3 commands, four ranges of tracks: two inside the disk (one to its end), one empty, one beyond `max_track` |
| `FileStore_commands` | volume sound, FATs and FSInfo exact, found number fresh, saved file complete, refinement of `TrackStore` | 3 volumes (FAT16, FAT32, FAT32 with two sectors to a cluster), sectors of 2 bytes, 4 FAT or 3 directory entries; 2 disks, one of them with a long name, 2 tracks of 1 or 5 bytes, 3 commands, one failing operation or loss of power anywhere |
| `SdCard_sessions` | bus and card protocol, success is done, good card served, card identified, calls end | timers of 3, 3 and 8 ticks, 4 readings of the contacts, SDHC, SD1 and MMC, up to 2 blocks, 3 calls |
| `Capture_sessions` | head in step, tracks decoded, files cut by the host's disk only, good tracks taken, host ends, refinement of `DiskCapture` | 6 command lines, blocks of 3 bytes, up to 2 before and 4 with the track, streams of up to three frames with 0 to 6 bytes of fill before and 0 to 2 between |
| `Analyzer_tracks` | sectors found and none made up, or the track lost for one of three causes; index in place | 3 short tracks of up to 4 sectors, any 2 damaged cells, 9 kinds of damage |
| `AvrConsole_bytes` | console and display are the text; the ring loses whole laps only | ring of 3, console of 2 by 2, any 6 bytes |

A buffer is larger than its header and smaller than the stream, a chip has more than
one bank and there is more than one chip, so every boundary (buffer, ring, bank, chip)
is crossed, and crossed again in the second session with what the first one left. The
ring of the write path has the code's four buffers. Directory numbers wrap at 3
instead of 65536, seconds at 3 instead of 1000: each wrap occurs. A track of five bytes
takes three sectors, so a file crosses sectors and clusters, the three volumes run full, a
directory grows, and the FAT16 root runs out of entries. Two damaged cells can hit
two parts of a sector, two sectors, or a sync and the sector before it. Six bytes scroll
the console twice and lap the ring.

One run ends with a violation, a disagreement of the code with its own words:
`PitClock_no_card`. The comment at `trk_read.c:17` says "PIT timeout if no index was
found"; early returns of the file functions (`file.c:74-81`) leave the timer's interrupt
on, which resets the clock of the timeout, and without a disk the search never ends.

Other disagreements met while modelling, which have no run of their own:

* `spiram.c:90` "set SEQ mode for all chips": the loop does not change the chip, and sets
  the mode of the selected one eight times, at boot the last. If the chips power up in byte
  mode, the others stay there until `mc` or a save selects and sets each of them.
  In `ReadBack_sessions` chips start in either mode; `SpiRam_paced` has them in sequential
  mode, so that a stream can fill them all;
* `spiram.c:179` "DMA is using this buffer": the index has moved past that buffer when
  its transfer starts; harmless at the pace of a disk, see `PacedCorrect`;
* `doc/sampler.txt:19` "init track counter (seek zero)": `is_init` is set at boot
  (`track.c:16`), the command does nothing;
* `doc/sampler.txt:48` "save memory to file": on a full card, or when the close fails, a
  truncated file is saved with `STATUS_OK` (`file.c:45, 93`): the exceptions that
  `SavedFileIsTrack` and `DiskComplete` state;
* `dfx-analyze.py:202` "keep markers": marker 4 is not kept.

`PROJECT.json` names for each property a mutated definition under which TLC finds it
violated.

### Fairness

* `SpiRam`: the DMA goes on once started (hardware), and `spiram_multi_write_end` runs
  on (it is a loop without a wait for anybody else). Nothing is assumed of the disk.
* `TrackRead`: the main program runs on, and a disk that spins goes on spinning. The
  second is needed: once the first index was found the loop has no timeout.
* `PitClock`: the timer turns while enabled, an interrupt is served, a spinning disk
  sends pulses, the main program looks again.
* `SdCard`: the driver runs on, the timer interrupt comes (a file command has started it
  before, `file.c:70`), and a good card gets done. Nothing is assumed of a card that is
  stuck or gone: `CallsEnd` holds by the counters.
* `Capture`: the host runs on. Nothing is assumed of the sampler.
* `DiskRead`, `ReadBack`, `FileStore`, `Analyzer`, `AvrConsole`: safety only. A command
  of `FileStore` is one step and ends by construction.

`CHECK_DEADLOCK FALSE` is set in two runs only: `FileStore_commands`, which ends after its
commands, and `AvrConsole_bytes`, where nothing is left to do once no byte comes.

## 4. Proofs

`SpiRamProofs` holds for every number and size of buffers, banks and chips and for any
bound, under `SizesAssumption` and `ClientAssumption` (at least two buffers, each larger
than a header; at least one byte in a burst).

* `RingCorrect`: `Spec => []RingSound`, types and `RingAccounting`. `RingAccounting` is not
  inductive alone: at the end of a session the last buffer is counted only if it
  is not empty, and a session starts from a quiet DMA. `RingInv` adds
  `WriterHasData` and `QuietOutside`. The lemmas `WriterAdvances`, `RingFull`,
  `DmaAdvances` and `LastBufferCounted` carry the modular arithmetic; one lemma
  per action follows.
* `DropsOnlyWhenFull`: from the same invariant, the action property
  `DropOnlyWhenRingFull`.
* `PacedCorrect`: under `Paced`, no byte is dropped and the writer is never in the
  buffer in transfer. `PacedInv` says why: during a transfer no buffer becomes full,
  since the writer's buffer holds no more than a header, the burst that opened it and
  what came since; between two transfers at most one does.

Its second part is about the chips.

* `ChipSwitchBetweenTransfers`: `Spec => ChipSwitchQuiet`, from `RingInv` alone.
* `PlacementCorrect`: under `Paced`, `Spec => []StreamPlaced`. Without the pace bytes are
  dropped and the layout is another one (`buffer_overruns` tells the user). `StreamPlaced`
  speaks of streams that fit (`StreamFits`): each byte belongs to a chip that exists and is
  in sequential mode. The code sees to neither. `PlaceInv` counts buffers since the session
  began: `Opened` by the writer, `Started` by the DMA. `WriterPlaced`, `QueuePlaced` and
  `TransferPlaced` derive every index, bank, chip and byte count of the two sides from these
  two numbers, `HeadersPlaced` says that the first buffer of a chip begins with the write
  command, and `BytesPlaced` that each byte of the stream is in the ring or in a chip, at
  the place its number gives it.
* `StreamImplemented`: under the same conditions `Spec /\ []StreamFits =>
  ImplementsByteStream`: what the DMA shifts out is the next byte of the stream, a header
  or a byte that moves nothing.

Its third part is about the readers of `ReadBack`. It goes on where `PlacementCorrect` ends,
under `Paced`, for chips that start in any mode, any number of sessions, checks, saves and
memory tests in any order, and a card that may fail any write, run full or fail the close.
What it says is said of streams that fitted (`kept`).

* `CheckAlwaysTrustworthy`: `Paced => (SpecReadBack => []CheckTrustworthy)`. During a
  session `SessionInv` is what the first two parts prove. At its end `PlaceInv` says that
  byte `n` is at `InRam(n)`, its place by the layout (`ReadEndKeeps`), and `KeptInv` keeps
  that until the next session. A memory test overwrites some of it with 0: `Faded`. A reader
  does not know the layout: it has three countdowns of its own, what is left of the
  size, of the chip and of the bank. `ReaderInv` says that what it has seen is the beginning
  of the RAM's content and that chip, bank and the size left follow from its length;
  `EndsInLastChip`, that the stream ends in the last chip the writer opened and all chips up to
  it are in sequential mode, is why they end together. `BlockRead` is the arithmetic of
  a block up to the next end of a bank, chip or stream, `CheckTakes` and `SaveTakes` bring the
  two loops to it. The sums of all parts are those of the stream by `SumEmpty` and
  `SumAppend`.
* `SaveAlwaysTheTrack`: `Paced => (SpecReadBack => []SavedFileIsTrack)`. Each byte a save
  reads is that of the track or 0 (`Faded`), and the ordinals are above 0, so a sum that
  agrees is that of the track. `FileInv`: the file is a beginning of what was read, and all
  of it unless the card has cut it.

`PitClockProofs` holds for every timeout, width of the counters, lateness and bound,
under `PitAssumption` (the interrupt is late by less than a second, as the handler takes
off one second at a time).

* `ClockTypes`: `Spec => []TypeOK`. `ClockInv` adds `Owner`: the interrupt is on only
  during a file command or after one that failed, and while it is on PICNT is bounded
  by its lateness; so `mscount` stays below a second.
* `TimestampCorrect`: `Spec => []ClockSound`, by the lemmas `ModMod` and `ModSucc`
  (to wrap twice, or before adding one, is to wrap once).
* `IndexTimes`: `Spec => []IndexTimesTrue` if `MaxTurns < Width`, which holds of a 12 bit
  register beside a 32 bit counter. `Recorded` says that without the interrupt PICNT is
  the time, and that the store is a prefix of the pulses: all of them until it is full.

`CaptureProofs` holds for every set of command lines and streams, every block size,
timeout and number of blocks, under `CaptureAssumption` (streams are framed as the
protocol says, ranges of tracks are not reversed).

* `HostKnowsHead`: `Spec => []HeadInStep`. While a track is read, decoded and written the
  drive is where the host's counts say. What the host believes depends on the line it
  sent, on whether the sampler got it, and on what a poll can take for an answer, so
  `IInv` adds `BeforeLine` (between lines the sampler is not busy and the head is where
  the counts are), `DuringLine` (a busy sampler heads for where the counts will be once
  the line succeeds; a ready one that reports full success is there; one still
  sending a track has not moved), `NothingSent` (a disk's stream was received to its end
  before another line is relied on), `Locals` (the side follows from the number of
  the track) and `LinesFit` (which lines belong to which command). `LineOverInv` and
  `ReadOverInv` are the two places where a line's answer and a track's end are taken.
* `TrackAlwaysDecoded`: `Spec => []TrackDecoded`. The lemma `DecodedIsData` is about
  streams alone: if there is no BOF before block 0, then what the decoder takes between
  the first BOF and the next EOT is the data of the stream. Data has a BOF before it with
  nothing but data between; conversely what is taken and is no code can only be
  fill, and going back from a fill byte one meets an EOF before any BOF (`NoFillInFrame`,
  by the least place from which there is only fill). `Fetching` brings this to the
  host: where in the stream each block began, that no BOF was passed, that block 0 has
  one, and that no EOT was seen yet.
* `GoodTrackAlwaysTaken`: `Spec => GoodTrackTaken`, from the same invariant.
* `CaptureImplemented`: `Spec => ImplementsDiskCapture`. `Saving` says that file `k` is that
  of the `k`-th place, whole unless the host's disk cut it, that `t` and `side` are the
  `i`-th place, and how the number of files follows from the line the host is at. Every step
  appends the next place, reports success when all are there, or changes nothing the
  abstract specification sees.

`SdCardProofs` holds for every kind of card, every number of blocks and calls, and every
length of the waits, under `SdCardAssumption`; the wait behind the stop token has to be of at
least two ticks.

* `ProtocolKept`: `Spec => []CardProtocol`. That the driver ends every stream of blocks it
  began follows from where it is (`Places`, `Sent`, `Streams`: which command was sent
  and the phase a good card is in there), but after the stop token of `disk_write` it
  returns when its counter is 0, whatever the card does. That a good card is never left
  there is a matter of time: `InTime` says that what the counter has lost the card has
  had, and that between the read of the card and that of the counter comes at most one
  tick. `Clock` says that the clock is slow while the card may be in its idle state, and
  `Counts` that a transfer has blocks to go. `AnswersKnown` sums up what a card may
  answer; the lemmas `...GoesOn`, `Block...`, `CallOver` and `PowerOff` serve both ways a
  wait ends, by the card and by its counter.

Its second part is about what a call comes to. The clock of a card that keeps its times and
the clock of the driver are not in step: a tick may come before the first poll, or
between the read of the card and that of the counter.

* `OkAlwaysDone`: `Spec => OkMeansDone` if the wait for the card to be ready is of at least two
  ticks (50 in the code). With one, `disk_ioctl`'s wait can end by its counter while the
  card works on.
* `GoodCardAlwaysServed` and `CardAlwaysIdentified`: `Spec => GoodCardServed` and
  `Spec => CardIdentified` under `LongEnough`: waits of two ticks for a block and for
  readiness, `InitSteps + 2` for the initialisation and four readings of the contacts (in
  the code 10, 50, 100 and 100). These are the least values: TLC finds a good card
  refused with any of them one less. `ServedInv` says for each place of the
  driver what is left of its counter: `WaitsInTime` that counter and lateness of the card
  add up, `InitInTime` that after the card's work there is a tick for each step to the
  last test; `Recognised` which kinds of card lead to each branch of
  `disk_initialize`, `NotGivenUp` that a transfer ends with no blocks left unless the card
  refused something, and `Readings` how the contacts were read so far.

`AvrConsoleProofs` holds for every size of the ring and the console, all boot texts and any
number of bytes.

* `RingReadsLast`: `Spec => []RingKeepsLast`. It is not inductive: the ring may be lapped
  between `SeeByte`, which found a byte, and `uart_read`, which then passes the end of the
  ring and finds a whole ring to read. `Indices` says that both indices are counters modulo the
  ring's size and that at that point fewer bytes were taken than arrived, `Newest` that every
  place holds the last byte that fell on it, `InOrder` that nothing is lost while
  less than a ring waits, or exactly one when it was just lapped.
* `ConsoleShowsLastLines`: `Spec => []ConsoleSound`. `lines` is a history variable: the text
  so far on paper without an end, which `Typed` continues. `Positioned` says that the cursor
  is behind the last line of the paper and how many lines are above the console, `Shows`
  that each place of the buffer has the character of the paper. `RowCol` and `OnPlace` are
  the division of a place by the width, `PaperAdvances` that a new line moves what is shown
  only if all lines of the console are used, `CharTyped` that a character changes one place.

`TrackReadProofs` holds for any number of index pulses, any cells, any timeout and rings that
take or refuse what they like, under `TrackAssumption`.

* `CleanTrackAlwaysWhole`: `Spec => []CleanTrackIsWhole`. `Whole` compares the stream with
  the counters of the status as long as nothing was lost; it is kept because what a pass
  adds (`PassGains`) is what it counts, and because a ring that takes all bytes takes them
  behind the marker that `code` still holds (`PollFacts`). `CodeHeld` says when it holds
  one.
* `IndicesAlwaysRight`: `Spec => []IndicesRight`, if the disk gives the loop four steps
  between two pulses (`LongTurns`; in the code a turn is 200 ms, a pass microseconds).
  Four is the least: with three TLC finds a pulse that `idx_flag = 0` wipes out. A pulse
  is known by another mark in each step of its handling; `PulsesKept` says which one,
  that each pulse has one, and how long ago it came, so that no other can come meanwhile.
  `BytesInTime` says that all bytes before a marker were seen before its pulse, and all
  others after it; `MarksConcat` and `MarksAppend` that a marker keeps its number as
  the stream grows.

`DiskReadProofs` holds for drives with any number of cylinders, cards with any set of
directories, any arguments of the commands and any number of them, under
`DiskAssumption` (the widths of the code's bytes). `DiskInv` is one invariant for all of
its theorems.

* `DriveAlwaysRestored`: `Spec => DriveRestored`. `Restoring` carries the status that
  `disk_read_all` found from its beginning to its end: the two flags say what it changed.
* `NoDiskEverOverwritten`: `Spec => NoDiskOverwritten`. `Keeping`: from the step that made
  it, the directory of a run is one that the card did not have. The number of it may well
  be one the card has (at the wrap of the 16 bits); then it is not made, and the run ends.
  It holds however many directories the search has seen.
* `DiskAlwaysComplete`: `Spec => []DiskComplete`. `Filling` says which tracks the directory
  holds at each step of the loop, and that the head is at the track the loop counts as long
  as that is not beyond the disk. There is a file for each track and none of a save that
  failed; one that was cut counts as saved, since the code takes it so. `track_next` repeats
  a move by a recursive function: `PathExists` constructs it, `PathStays` follows it from
  set to set, and `ManyCounted` finds by them that `n` moves from track zero lead to track
  `n`.
* `HeadAlwaysCounted` and `AlwaysSavedUnderItsName`: `Spec => []HeadCounted` and
  `Spec => []SavedUnderItsName`. Every way to move keeps `Counting`, that the head
  is where `track` says and `max_track` within the drive, if `DriveFits`; `Naming` says
  the same of what the buffer was filled with.

`AnalyzerProofs` holds for every set of tracks (any sequence of sectors and gaps, of any
length, with any numbers in their headers), every set of damages, any number of damaged
cells and any length of a sector's data; `AnalyzerAssumption` asks for no more than that
the constants are such.

* `IndexAlwaysInPlace`: `Spec => []IndexInPlace`, and `SectorsAlwaysFound`:
  `Spec => []AnalyzerSound`, from one invariant, `Inv`, which says what the steps so far have
  left: `data` is the file, then what the filter makes of it, then the samples; `bits` is
  `AllBits`; the blocks are those cut out at the syncs, then also all that is `Promised`.
* The passes over the whole track are recursive functions, and the lemmas say cell by cell
  what they come to. `IsFiltered`: the filter turns the codes of each cell into `Kept`, with
  what short times left over (`ShortAfter`). `IsRead`: `extract_markers` turns these into
  the cell's sample, or none, and its index mark; all it carries from cell to cell is
  whether the next byte belongs to a value (`ValueAfter`). `Strip`: each cell has its own
  interval of the bits, which is `Whole`, its own two bits, or `Blank`, none that was written;
  which one it is follows from the cell's damage and from what waits for it in front.
* `SyncFound`, `SyncOrigin`: a sync whose two cells are whole is found, and each position
  found is that of a sector's sync. `SectorRead`: the block behind it is then that sector
  (or does not pass its checksums), so nothing is made up (`Genuine`).
* When the program raises, it is for one of the causes of section 2: `FilterRaises` (a sample
  above 255 is a long one with its spikes, of which each adds 20 ticks, `SpikesCounted`),
  `ValueRaises` and `NumberRaises`. `SectorsAlwaysFound` holds `TrackLost` by them.
* A sector without its sync: `LineStraight` counts the bits from the last sync seen (all
  cells in between have two bits, whatever they say), `LineQuiet` says that no sync is found in
  between, and `LineBlock` that the block behind that sync is long enough for
  `recover_lost_sync_blocks` to look at the sector's very offset.

TLC corrected one property on the way: an earlier form of `Becomes` looked at the kind of
the cell and at the one in front of it only, which the run with two damaged cells
satisfies and one with three does not (spikes that add up, section 2).

An induction over data cannot be cited here (the library's induction theorems take an
operator as a parameter), but a least counterexample can: `LeastNatural` of `CaptureProofs`
(and again of `AnalyzerProofs`) derives from the library's theorem on well-founded relations
that a set of natural numbers has a least element, and `MinIsLeast` what `Min` returns.

Only model-checked: `FileStore`, with the volume and the abstract store under it; all
liveness (out of the prover's reach). `FileStore` and `FatVolume` (chains and tables) are built
from recursive operators over data, in whose presence the prover has no arithmetic.

## 5. Plan

1. Done: all modules of section 2 and eight modules of proofs.
2. Theorems to come: `FileStore`, when its chains are followed by recursive functions.
3. Composition to come: `SdCard` under `FileStore` (a call of the driver in place of
   `DiskOp`, so that timeouts and torn transfers of several blocks reach the FAT), and
   `TrackRead`'s codes as the input of `Analyzer`.

### Not modelled, and why

* Register headers, start-up code, board files (`common/`, about 7500 lines): no logic of
  the program.
* The second copy of FatFs (`sampler/avr/fat/ff.c`, 3153 lines, read-only use of one file)
  and the functions of the first that no file command calls (`f_read`, `f_lseek`,
  `f_unlink`, `f_rename`, `f_mkfs`, `f_printf`, FAT12, numbered short names and code pages).
  With the headers these are more than half of the repository's lines.
* `sampler/avr/fat/mmc.c` is another version of the driver in `SdCard`, for the one card
  read at boot; the AVR's display, font, `rram.c` and timer set-up are registers and
  tables, and `rram.c` has no caller.
* `wiz.c`, `net.c`: `net_send_buffer` is a stub that returns 0, and the only call of
  `wiz_write_tcp` is a test command that sends fourteen bytes (`cmd_parse.c:620`).
* `rtc.c`: no state of its own.
* `spectrum.c`, the analyzer's statistics, its other readers of cells and the KryoFlux
  format: computations that are printed and kept nowhere, or that the track path
  does not take.
* Formatting and wording of the consoles, the syntax of command lines.
