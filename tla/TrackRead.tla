----------------------------- MODULE TrackRead -----------------------------
(***************************************************************************)
(* The track sampler: trk_read_to_spiram and its interrupt handler         *)
(* read_index_func (trk_read.c), against the flux timer and the index      *)
(* pulses of a disk.                                                       *)
(*                                                                         *)
(* The main loop polls the timer, turns what it finds into a code of a few *)
(* bytes, hands the code to the SPI RAM ring, and then looks for an index  *)
(* pulse, which the interrupt handler leaves in idx_flag at any moment.    *)
(*                                                                         *)
(* A byte of code is a record: its meaning, and the time (in loop passes)  *)
(* at which its cause was seen.  The time is history, no code reads it.    *)
(* The ring and the check of the SPI RAM are modelled in SpiRam and        *)
(* ReadBack; here the ring may refuse bytes and the check may fail.        *)
(***************************************************************************)
EXTENDS Integers, Sequences, SequencesExt, FiniteSetsExt

CONSTANTS
  MaxIndex,     \* index_get_max_index(): pulses that end a track
  NoIdxCount,   \* NO_IDX_COUNT, in loop passes
  Regimes       \* what disk and ring do during a command, any set of Regime

(* Steps of the main program between two pulses of a spinning disk, widths *)
(* of the cells ("delta" fits a byte, "word" does not), and whether the    *)
(* ring may refuse bytes.                                                  *)
Regime == [min_gap : Nat, max_gap : Nat, overruns : BOOLEAN,
           cells : SUBSET {"delta", "word"}]

ASSUME TrackAssumption ==
  /\ MaxIndex \in Nat /\ NoIdxCount \in Nat
  /\ \A r \in Regimes : r \in Regime /\ r.min_gap <= r.max_gap

(* A pulse is handled before the next one comes: four steps, from the poll *)
(* that it precedes to the reset of idx_flag.                              *)
LongTurns == \A r \in Regimes : r.min_gap >= 4

STATUS_OK                       == 0
ERROR_SAMPLER_NO_INDEX          == 1
ERROR_SAMPLER_CELL_OVERRUN      == 2
ERROR_SAMPLER_DATA_OVERRUN      == 4
ERROR_SAMPLER_CHECKSUM_MISMATCH == 8

VARIABLES
  regime,         \* member of Regimes
  pc,             \* point the main program has reached
  intr,           \* the index interrupt is enabled
  now,            \* pit_peek(), in loop passes since pit_reset
  idx_flag,       \* time of the last pulse, 0: none to handle
  index_counter, my_index, found_index,  \* locals of the main program
  code,           \* bytes put, not yet handed to the ring
  counts,         \* byte_values, word_values, cell_overruns, timer_overflows
  ram,            \* bytes the ring accepted
  data_overruns,  \* spiram_buffer_overruns
  index_pos,      \* index store of index.c
  buffer,         \* track buffer of buffer.c: "clear" or "set"
  result,
  spinning,       \* the disk turns: pulses come
  gap,            \* steps of the main program since the last pulse
  pulses          \* history: times of the pulses since the loop began

indexing == <<index_counter, my_index, found_index>>
stream   == <<code, counts, ram, data_overruns>>
outcome  == <<index_pos, buffer, result>>
disk     == <<regime, spinning, gap, pulses>>
vars     == <<pc, intr, now, idx_flag, indexing, stream, outcome, disk>>

Byte  == [is : {"delta", "word", "hi", "lo", "overflow", "overrun", "index"}, at : Nat]
Zeros == [byte_values |-> 0, word_values |-> 0, cell_overruns |-> 0,
          timer_overflows |-> 0]
MaxCode == 5  \* word marker, its two bytes, overrun marker, index marker

TypeOK ==
  /\ pc \in {"start", "arm", "wait", "sync", "poll", "test", "store", "ack",
             "finish", "done"}
  /\ intr \in BOOLEAN /\ found_index \in BOOLEAN /\ spinning \in BOOLEAN
  /\ now \in Nat /\ idx_flag \in Nat /\ gap \in 0 .. regime.max_gap
  /\ regime \in Regimes
  /\ index_counter \in 0 .. MaxIndex
  /\ my_index \in [0 .. MaxIndex - 1 -> Nat]
  /\ code \in Seq(Byte) /\ Len(code) <= MaxCode
  /\ counts \in [DOMAIN Zeros -> Nat]
  /\ ram \in Seq(Byte) /\ data_overruns \in Nat
  /\ index_pos \in Seq(Nat) /\ pulses \in Seq(Nat)
  /\ buffer \in {"clear", "set"} /\ result \in 0 .. 15

Init ==
  /\ regime \in Regimes
  /\ pc = "start" /\ intr = FALSE /\ now = 0 /\ idx_flag = 0
  /\ index_counter = MaxIndex /\ my_index = [i \in 0 .. MaxIndex - 1 |-> 0]
  /\ found_index = TRUE /\ code = <<>> /\ counts = Zeros
  /\ ram = <<>> /\ data_overruns = 0
  /\ index_pos = <<>> /\ buffer \in {"clear", "set"} /\ result = STATUS_OK
  /\ spinning \in BOOLEAN /\ gap \in 0 .. regime.max_gap /\ pulses = <<>>

(***************************************************************************)
(* The interrupt.  A pulse comes between any two steps of the main program *)
(* but not sooner than min_gap steps after the last one: a disk turns in    *)
(* 200 ms and a pass of the loop takes some microseconds.                  *)
(***************************************************************************)
read_index_func ==
  /\ spinning /\ gap >= regime.min_gap
  /\ gap' = 0
  /\ idx_flag' = IF intr THEN now ELSE idx_flag
  /\ pulses' = IF pc \in {"poll", "test", "store", "ack"} THEN Append(pulses, now)
                                                         ELSE pulses
  /\ UNCHANGED <<pc, intr, now, indexing, stream, outcome, regime, spinning>>

(* A step of the main program; it cannot outlast the turn of the disk.     *)
Step(from, to) ==
  /\ pc = from /\ pc' = to
  /\ spinning => gap < regime.max_gap
  /\ gap' = IF spinning THEN gap + 1 ELSE gap
  /\ UNCHANGED <<regime, spinning, pulses>>

(* Everything before the wait: index_reset, buffer_clear, PIT from zero,   *)
(* index interrupt enabled.                                                *)
Setup ==
  /\ Step("start", "arm")
  /\ now' = 1 /\ intr' = TRUE /\ buffer' = "clear" /\ index_pos' = <<>>
  /\ UNCHANGED <<idx_flag, indexing, stream, result>>

(* idx_flag = 0, once before the wait and once after it.                   *)
ClearFlag ==
  /\ Step("arm", "wait") \/ Step("sync", "poll")
  /\ idx_flag' = 0
  /\ UNCHANGED <<intr, now, indexing, stream, outcome>>

BugNeverLate == FALSE
TimedOut == now > NoIdxCount

(* while(!idx_flag): left on a pulse or on the timeout.  The timer counts  *)
(* on after that, but nobody looks: now is bounded by NoIdxCount + 1 here. *)
Wait ==
  \/ /\ idx_flag # 0
     /\ Step("wait", "sync")
     /\ UNCHANGED <<intr, now, idx_flag, indexing, stream, outcome>>
  \/ /\ idx_flag = 0 /\ TimedOut
     /\ Step("wait", "sync")
     /\ index_counter' = 0 /\ found_index' = FALSE
     /\ UNCHANGED <<intr, now, idx_flag, my_index, stream, outcome>>
  \/ /\ idx_flag = 0 /\ ~TimedOut
     /\ Step("wait", "wait")
     /\ now' = IF now > NoIdxCount THEN now ELSE now + 1
     /\ UNCHANGED <<intr, idx_flag, indexing, stream, outcome>>

(***************************************************************************)
(* One pass of the core loop: the timer's status, the code, the ring.      *)
(***************************************************************************)
Mark(meaning) == [is |-> meaning, at |-> now]

CellCode(kind) ==
  IF kind = "word" THEN <<Mark("word"), Mark("hi"), Mark("lo")>> ELSE <<Mark("delta")>>

(* What a status word adds to the code.  LDRAS: a cell of the given kind   *)
(* was captured; COVFS counts only without it; an overrun is marked after  *)
(* the cell that survived it.                                              *)
PassCode(ldras, kind, covfs, lovrs) ==
  (IF ldras THEN CellCode(kind) ELSE IF covfs THEN <<Mark("overflow")>> ELSE <<>>)
  \o (IF lovrs THEN <<Mark("overrun")>> ELSE <<>>)

BugPutInFront(put, new) == new \o put
(* The pass appends to what the code holds: a marker of the last pass.     *)
PutAfter(put, new) == put \o new

Counted(ldras, kind, covfs, lovrs) ==
  [byte_values     |-> counts.byte_values + (IF ldras /\ kind = "delta" THEN 1 ELSE 0),
   word_values     |-> counts.word_values + (IF ldras /\ kind = "word" THEN 1 ELSE 0),
   cell_overruns   |-> counts.cell_overruns + (IF lovrs THEN 1 ELSE 0),
   timer_overflows |-> counts.timer_overflows + (IF ~ldras /\ covfs THEN 1 ELSE 0)]

(* code_size = 0. *)
Unsent(bytes) == <<>>

(* The ring takes bytes until it is full; handle, which alone makes room,  *)
(* is called after the last of them.                                       *)
WriteCode(bytes) ==
  \E n \in 0 .. Len(bytes) :
    /\ n = Len(bytes) \/ regime.overruns
    /\ ram' = ram \o SubSeq(bytes, 1, n)
    /\ data_overruns' = data_overruns + Len(bytes) - n
    /\ code' = Unsent(bytes)

Poll ==
  /\ index_counter > 0
  /\ Step("poll", "test")
  /\ now' = now + 1
  /\ \E ldras, covfs, lovrs \in BOOLEAN, kind \in regime.cells :
       /\ counts' = Counted(ldras, kind, covfs, lovrs)
       /\ WriteCode(PutAfter(code, PassCode(ldras, kind, covfs, lovrs)))
  /\ UNCHANGED <<intr, idx_flag, indexing, outcome>>

(***************************************************************************)
(* The index part of the pass: three accesses to idx_flag.                 *)
(***************************************************************************)
TestIndex ==
  \/ /\ idx_flag # 0
     /\ Step("test", "store")
     /\ code' = Append(code, Mark("index"))
     /\ index_counter' = index_counter - 1
     /\ UNCHANGED <<intr, now, idx_flag, my_index, found_index, counts, ram,
                    data_overruns, outcome>>
  \/ /\ idx_flag = 0
     /\ Step("test", "poll")
     /\ UNCHANGED <<intr, now, idx_flag, indexing, stream, outcome>>

StoreIndex ==
  /\ Step("store", "ack")
  /\ my_index' = [my_index EXCEPT ![index_counter] = idx_flag]
  /\ UNCHANGED <<intr, now, idx_flag, index_counter, found_index, stream, outcome>>

Acknowledged == 0

AckIndex ==
  /\ Step("ack", "poll")
  /\ idx_flag' = Acknowledged
  /\ UNCHANGED <<intr, now, indexing, stream, outcome>>

(***************************************************************************)
(* After the loop: hardware off, flush, index store, status and result.    *)
(***************************************************************************)
StopHardware ==
  /\ index_counter = 0
  /\ Step("poll", "finish")
  /\ intr' = FALSE
  /\ UNCHANGED <<now, idx_flag, indexing, stream, outcome>>

(* my_index was filled from its end, and goes to the store from there.     *)
StoreOrder(i) == MaxIndex - 1 - i

Bit(condition, value) == IF condition THEN value ELSE 0

BugIgnoreRing == 0
(* spiram_buffer_overruns, as copied to the status.                        *)
RingLosses == data_overruns

Finish ==
  /\ Step("finish", "done")
  /\ \E mismatch \in BOOLEAN :
       IF found_index
       THEN /\ index_pos' = [i \in 1 .. MaxIndex |-> my_index[StoreOrder(i - 1)]]
            /\ buffer' = "set"
            /\ result' = Bit(RingLosses > 0, ERROR_SAMPLER_DATA_OVERRUN)
                         + Bit(counts.cell_overruns > 0, ERROR_SAMPLER_CELL_OVERRUN)
                         + Bit(mismatch, ERROR_SAMPLER_CHECKSUM_MISMATCH)
       ELSE /\ result' = ERROR_SAMPLER_NO_INDEX
            /\ UNCHANGED <<index_pos, buffer>>
  /\ UNCHANGED <<intr, now, idx_flag, indexing, stream>>

Main == Setup \/ ClearFlag \/ Wait \/ Poll \/ TestIndex \/ StoreIndex
        \/ AckIndex \/ StopHardware \/ Finish

Done == pc = "done" /\ UNCHANGED vars

Next == Main \/ read_index_func \/ Done

(* The main program runs, and a spinning disk goes on spinning.            *)
Fairness == WF_vars(Main) /\ WF_vars(read_index_func)

Spec     == Init /\ [][Next]_vars
FairSpec == Spec /\ Fairness

(***************************************************************************)
(* Properties.                                                             *)
(***************************************************************************)
Bytes   == ram \o code
Marks   == {i \in DOMAIN Bytes : Bytes[i].is = "index"}
Ordinal(i) == Cardinality({j \in Marks : j <= i})
InLoop  == pc \in {"poll", "test"}  \* no pulse is half handled
PulsesHandled == MaxIndex - index_counter

(* The time of a pulse and its marker come to the host by different ways,  *)
(* one through the interrupt, idx_flag and my_index, one through code and  *)
(* the ring (trk_read.c:398-403, 387-395).  They agree: the n-th marker    *)
(* lies in the flux where the n-th recorded pulse fell, with no cell seen  *)
(* before the pulse behind it and none seen after it in front.             *)
MarkersInPlace ==
  InLoop /\ data_overruns = 0 /\ found_index =>
    /\ Cardinality(Marks) = PulsesHandled
    /\ \A i \in Marks :
         LET pulse == my_index[MaxIndex - Ordinal(i)]
         IN  /\ \A j \in 1 .. i - 1 : Bytes[j].at <= pulse
             /\ \A j \in i + 1 .. Len(Bytes) : Bytes[j].at >= pulse

(* No pulse is lost and none is counted twice, whichever instruction of    *)
(* the loop it interrupts; the store of index.c has the pulses of the      *)
(* track in the order they came, though my_index is filled backwards       *)
(* (trk_read.c:26-31, 398-403, 412-416).                                   *)
RecordedIndices ==
  pc = "done" /\ found_index =>
    /\ Len(index_pos) = MaxIndex
    /\ IsPrefix(index_pos, pulses)

(* The index pulses of a track, in the stream and in the store: each is    *)
(* there once, at its time.                                                *)
IndicesRight == TypeOK /\ MarkersInPlace /\ RecordedIndices

Tally(meaning) == Cardinality({i \in DOMAIN Bytes : Bytes[i].is = meaning})

(* A sampled track whose result does not say that bytes were lost has all  *)
(* of them: the status counts what the stream holds, the bytes of a word   *)
(* value follow its marker, and all markers but the last one, which ends   *)
(* the loop before it is written, are there (trk_read.c:354-443).          *)
CleanTrackIsWhole ==
  pc = "done" /\ found_index /\ result \notin 4 .. 7 \cup 12 .. 15 =>
    /\ data_overruns = 0
    /\ Tally("delta") = counts.byte_values
    /\ Tally("word") = counts.word_values
    /\ Tally("overrun") = counts.cell_overruns
    /\ Tally("overflow") = counts.timer_overflows
    /\ \A i \in DOMAIN Bytes : Bytes[i].is = "word" =>
         i + 2 <= Len(Bytes) /\ Bytes[i + 1].is = "hi" /\ Bytes[i + 2].is = "lo"
    /\ MaxIndex > 0 =>
         Cardinality({i \in DOMAIN ram : ram[i].is = "index"}) = MaxIndex - 1

(* The command ends: by timeout without a disk (trk_read.c:16-17), and     *)
(* because the pulses of a spinning disk are all noticed with one.         *)
Terminates == <>(pc = "done")
=============================================================================
