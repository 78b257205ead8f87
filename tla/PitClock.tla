------------------------------ MODULE PitClock ------------------------------
(***************************************************************************)
(* The periodic interval timer and the two ways the sampler uses it        *)
(* (pit.c, file.c, trk_read.c).                                            *)
(*                                                                         *)
(* The commands that search the index read it as a clock, with pit_peek,   *)
(* which leaves PICNT alone.  The file commands run it with its interrupt, *)
(* whose handler reads PIVR and so resets PICNT.  One timer, one pair of   *)
(* enable bits, and no owner: each command must leave it as the other      *)
(* expects it.                                                             *)
(*                                                                         *)
(* Time is counted in turns of the timer: PICNT, the upper bits of what    *)
(* pit_peek returns.  The part below PICNT is left out.                    *)
(***************************************************************************)
EXTENDS Integers, Sequences

CONSTANTS
  NO_IDX_COUNT,   \* turns an index is waited for (the code: 5)
  MaxIndex,       \* index_get_max_index()
  MsPerSecond,    \* 1000
  Width,          \* the counters of pit.c are Nat modulo Width (the code: 2^32)
  MaxLate,        \* turns its interrupt can be late
  MaxTurns,       \* bound: turns the timer can get ahead of its readers
  MaxFileTurns,   \* bound: turns in one file command
  MaxCommands     \* bound: commands executed

MAX_INDEX == 8    \* places of the index store

ASSUME PitAssumption ==
  /\ NO_IDX_COUNT \in Nat /\ MaxIndex \in 1 .. MAX_INDEX
  /\ MsPerSecond \in Nat \ {0} /\ Width \in Nat \ {0}
  /\ MaxLate \in 0 .. MsPerSecond - 1
  /\ MaxTurns \in Nat /\ MaxFileTurns \in Nat /\ MaxCommands \in Nat

STATUS_OK                  == 0
ERROR_SAMPLER_NO_INDEX     == 1
ERROR_SAMPLER_CELL_OVERRUN == 2
ERROR_FILE_INIT            == 17

VARIABLES
  pc,           \* "loop", "file", or a phase of an index command
  piten,        \* PITEN: the timer runs
  irq,          \* PITIEN and the AIC: its interrupt reaches pit_irq_svc
  pits,         \* PITS: a turn was completed since PIVR was read
  picnt,        \* PICNT
  timestamp, second_tick, mscount,  \* statics of pit.c
  idx_counter,
  index_pos,    \* index store
  result,
  spinning,     \* the disk turns
  seen,         \* the main program has looked since the last index pulse
  turned,       \* the timer has turned since the last index pulse
  elapsed,      \* history: turns since the command began, modulo Width
  pulses,       \* history: elapsed at the pulses the handler saw
  failed,       \* history: the last file command returned early
  commands      \* commands executed

registers == <<piten, irq, pits, picnt>>
ticks     == <<timestamp, second_tick, mscount>>
disk      == <<spinning, seen, turned>>
vars == <<pc, registers, ticks, idx_counter, index_pos, result, disk, elapsed,
          pulses, failed, commands>>

(* The phases of an index command in which the index interrupt is on.      *)
Arming == {"arm_index", "arm_data"}
Waits  == Arming \cup {"count_index", "find_index", "count_data"}

TimerType ==
  /\ piten \in BOOLEAN /\ irq \in BOOLEAN /\ pits \in BOOLEAN
  /\ picnt \in 0 .. MaxTurns
  /\ timestamp \in 0 .. Width - 1 /\ second_tick \in 0 .. Width - 1
  /\ mscount \in 0 .. MsPerSecond - 1
  /\ elapsed \in 0 .. Width - 1

IndexType ==
  /\ idx_counter \in Nat
  /\ index_pos \in Seq(Nat) /\ Len(index_pos) <= MAX_INDEX
  /\ pulses \in Seq(Nat)

MainType ==
  /\ pc \in {"loop", "file"} \cup Waits
  /\ result \in 0 .. 255 /\ commands \in 0 .. MaxCommands
  /\ spinning \in BOOLEAN /\ seen \in BOOLEAN /\ turned \in BOOLEAN
  /\ failed \in BOOLEAN

TypeOK == TimerType /\ IndexType /\ MainType

Init ==
  /\ pc = "loop" /\ piten = FALSE /\ irq = FALSE /\ pits = FALSE /\ picnt = 0
  /\ timestamp = 0 /\ second_tick = 0 /\ mscount = 0
  /\ idx_counter = 0 /\ index_pos = <<>> /\ result = STATUS_OK
  /\ spinning \in BOOLEAN /\ seen = TRUE /\ turned = FALSE
  /\ elapsed = 0 /\ pulses = <<>> /\ failed = FALSE /\ commands = 0

(* A counter of pit.c.                                                     *)
Wrapped(n) == n % Width

(***************************************************************************)
(* The timer and its interrupt.                                            *)
(***************************************************************************)
(* A spinning disk turns faster (200 ms) than the timer with its longest   *)
(* period (350 ms).                                                        *)
Turn ==
  /\ piten /\ picnt < MaxTurns
  /\ irq => picnt <= MaxLate
  /\ pc = "file" => elapsed < MaxFileTurns
  /\ pc \in Waits /\ spinning => ~turned
  /\ picnt' = picnt + 1 /\ pits' = TRUE /\ turned' = TRUE
  /\ elapsed' = Wrapped(elapsed + 1)
  /\ UNCHANGED <<pc, piten, irq, ticks, idx_counter, index_pos, result,
                 spinning, seen, pulses, failed, commands>>

BugCountInterrupts(count) == 1
(* pit_irq_svc takes the turns it was late for from PIVR. *)
Increment(count) == count

SecondOver(ms) == ms >= MsPerSecond

(* The functions called every 10 and 500 ms are left out. *)
pit_irq_svc ==
  /\ irq /\ pits
  /\ LET incr == Increment(picnt)
         ms   == mscount + incr
     IN  /\ timestamp' = Wrapped(timestamp + incr)
         /\ IF SecondOver(ms)
            THEN second_tick' = Wrapped(second_tick + 1) /\ mscount' = ms - MsPerSecond
            ELSE mscount' = ms /\ UNCHANGED second_tick
  /\ picnt' = 0 /\ pits' = FALSE
  /\ UNCHANGED <<pc, piten, irq, idx_counter, index_pos, result, disk, elapsed,
                 pulses, failed, commands>>

(***************************************************************************)
(* The file commands: pit_irq_start, the work, pit_irq_stop.               *)
(***************************************************************************)
FileBegin ==
  /\ pc = "loop" /\ commands < MaxCommands
  /\ pc' = "file" /\ commands' = commands + 1
  /\ piten' = TRUE /\ irq' = TRUE
  /\ pits' = FALSE /\ picnt' = 0 /\ timestamp' = 0 /\ elapsed' = 0
  /\ UNCHANGED <<second_tick, mscount, idx_counter, index_pos, result, disk, pulses,
                 failed>>

(* disk_initialize or f_mount fails: return, without pit_irq_stop. *)
FileFails ==
  /\ pc = "file"
  /\ pc' = "loop" /\ result' = ERROR_FILE_INIT /\ failed' = TRUE
  /\ UNCHANGED <<registers, ticks, idx_counter, index_pos, disk, elapsed, pulses,
                 commands>>

BugLeaveInterrupt == irq
IrqAfterStop == FALSE

FileEnd ==
  /\ pc = "file"
  /\ pc' = "loop" /\ result' = STATUS_OK
  /\ irq' = IrqAfterStop /\ piten' = FALSE /\ failed' = FALSE
  /\ UNCHANGED <<pits, picnt, ticks, idx_counter, index_pos, disk, elapsed, pulses,
                 commands>>

(***************************************************************************)
(* The index commands: trk_read_count_index and trk_read_count_data.       *)
(***************************************************************************)
(* index_func; the next pulse comes when the main program has moved on.    *)
index_func ==
  /\ spinning /\ seen /\ pc \in Waits
  /\ seen' = FALSE /\ turned' = FALSE
  /\ idx_counter' = idx_counter + 1
  /\ index_pos' = IF Len(index_pos) < MAX_INDEX THEN Append(index_pos, picnt)
                                                ELSE index_pos
  /\ pulses' = Append(pulses, elapsed)
  /\ UNCHANGED <<pc, registers, ticks, result, spinning, elapsed, failed, commands>>

(* Up to the enable of the index interrupt; its counter is still the old.  *)
IndexBegin(phase) ==
  /\ pc = "loop" /\ commands < MaxCommands
  /\ pc' = phase /\ commands' = commands + 1
  /\ piten' = TRUE /\ pits' = FALSE /\ picnt' = 0 /\ elapsed' = 0
  /\ index_pos' = <<>> /\ pulses' = <<>>
  /\ seen' = TRUE /\ turned' = FALSE
  /\ UNCHANGED <<irq, ticks, idx_counter, result, spinning, failed>>

(* The counter is reset: a pulse before this stays in the store alone.     *)
CounterReset ==
  /\ pc \in Arming
  /\ pc' = IF pc = "arm_index" THEN "count_index" ELSE "find_index"
  /\ idx_counter' = 0 /\ seen' = TRUE
  /\ UNCHANGED <<registers, ticks, index_pos, result, spinning, turned, elapsed,
                 pulses, failed, commands>>

(* floppy_low_disable_index_intr, pit_disable. *)
IndexEnd(code) ==
  /\ pc' = "loop" /\ result' = code
  /\ piten' = FALSE
  /\ UNCHANGED <<irq, pits, picnt, ticks, idx_counter, index_pos, disk, elapsed,
                 pulses, failed, commands>>

BugShortTimeout == picnt > 0
(* pit_peek() > NO_IDX_COUNT: PICNT is there, and the part below it is no  *)
(* longer 0.                                                               *)
TimedOut == picnt >= NO_IDX_COUNT

Look ==
  /\ seen' = TRUE
  /\ UNCHANGED <<pc, registers, ticks, idx_counter, index_pos, result, spinning,
                 turned, elapsed, pulses, failed, commands>>

CountIndex ==
  /\ pc = "count_index"
  /\ IF idx_counter >= MaxIndex \/ TimedOut
     THEN IndexEnd(IF idx_counter = 0 THEN ERROR_SAMPLER_NO_INDEX ELSE STATUS_OK)
     ELSE ~seen /\ Look

(* Between its two waits trk_read_count_data resets the index store, right *)
(* after a pulse: the next is a turn of the disk away.                     *)
FindIndex ==
  /\ pc = "find_index"
  /\ idx_counter >= 1 \/ TimedOut
  /\ IF idx_counter = 1
     THEN /\ pc' = "count_data" /\ seen' = TRUE
          /\ index_pos' = <<>> /\ pulses' = <<>> /\ idx_counter' = 0
          /\ UNCHANGED <<registers, ticks, result, spinning, turned, elapsed,
                         failed, commands>>
     ELSE IndexEnd(ERROR_SAMPLER_NO_INDEX)

(* Cells are counted here without an end but the index, and some of them   *)
(* may be lost.                                                            *)
CountData ==
  /\ pc = "count_data"
  /\ IF idx_counter >= MaxIndex
     THEN \E code \in {STATUS_OK, ERROR_SAMPLER_CELL_OVERRUN} : IndexEnd(code)
     ELSE ~seen /\ Look

(* The disk is started or stopped between commands. *)
Spin ==
  /\ pc = "loop" /\ commands < MaxCommands
  /\ spinning' = ~spinning
  /\ UNCHANGED <<pc, registers, ticks, idx_counter, index_pos, result, seen, turned,
                 elapsed, pulses, failed, commands>>

Main == FileBegin \/ FileFails \/ FileEnd \/ IndexBegin("arm_index")
        \/ IndexBegin("arm_data") \/ CounterReset \/ CountIndex \/ FindIndex \/ CountData

Done == pc = "loop" /\ commands = MaxCommands /\ UNCHANGED vars

Next == Turn \/ pit_irq_svc \/ index_func \/ Main \/ Spin \/ Done

(* The timer turns, interrupts are served, the main program runs, and a    *)
(* spinning disk sends pulses.                                             *)
Fairness ==
  /\ WF_vars(Turn) /\ WF_vars(pit_irq_svc) /\ WF_vars(index_func)
  /\ WF_vars(CounterReset \/ CountIndex \/ FindIndex \/ CountData)

Spec     == Init /\ [][Next]_vars
FairSpec == Spec /\ Fairness

(***************************************************************************)
(* Properties.                                                             *)
(***************************************************************************)
(* However late the interrupt is, the timestamp of a file command misses   *)
(* no turn: what it has not counted yet is in PICNT (pit.c:52-56).         *)
TimestampExact ==
  pc = "file" => Wrapped(timestamp + picnt) = elapsed

(* The clock of pit.c: its registers keep their widths, the part of a      *)
(* second is one, and the timestamp is exact.                              *)
ClockSound == TypeOK /\ TimestampExact

(* The index store holds the times of the pulses, in order, whatever       *)
(* commands used the timer before, as long as the last file command ended  *)
(* with pit_irq_stop (pit.c, trk_read.c:26-44, 77-103).                    *)
IndexTimesTrue ==
  pc \in Waits /\ ~failed => index_pos = SubSeq(pulses, 1, Len(index_pos))

(* So does a search for the index end: with the index, or by the timeout   *)
(* of the timer if none comes (trk_read.c:16-17, 45-53, 83-92).            *)
IndexWaitEnds == pc \in Waits /\ ~failed ~> pc = "loop"

(* Whatever file commands came before: "PIT timeout if no index was found" *)
(* (trk_read.c:17).                                                        *)
IndexTimeout == pc \in Waits ~> pc = "loop"

(* A spinning disk is never reported as missing, though a pulse between    *)
(* the enable of its interrupt and the reset of the counter is not         *)
(* counted: the timeout is longer than what is left of its turns, on the   *)
(* clock the command reads (trk_read.c:17, 42-62, 83-92, 126-128).         *)
SpinningDiskIsFound ==
  [][pc' = "loop" /\ pc \in Waits /\ spinning =>
       result' # ERROR_SAMPLER_NO_INDEX /\ index_pos # <<>>]_vars
=============================================================================
