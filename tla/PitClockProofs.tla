--------------------------- MODULE PitClockProofs ---------------------------
(***************************************************************************)
(* Proofs about the interval timer: for every timeout, width of the        *)
(* counters, delay of the interrupt and number of commands.                *)
(***************************************************************************)
EXTENDS PitClock, SequenceTheorems, TLAPS

(***************************************************************************)
(* Counters modulo w.                                                      *)
(***************************************************************************)
LEMMA ModSmall ==
  ASSUME NEW x \in Nat, NEW w \in Nat \ {0}, x < w
  PROVE  x % w = x
OBVIOUS

LEMMA ModRange ==
  ASSUME NEW x \in Nat, NEW w \in Nat \ {0}
  PROVE  x % w \in 0 .. w - 1
OBVIOUS

LEMMA ModMod ==
  ASSUME NEW x \in Nat, NEW w \in Nat \ {0}
  PROVE  (x % w) % w = x % w
<1>. DEFINE r == x % w
<1>1. r \in Nat /\ r < w
  BY ModRange
<1>. HIDE DEF r
<1>2. r % w = r
  BY <1>1, ModSmall
<1>. QED BY <1>2 DEF r

LEMMA ModUnique ==
  ASSUME NEW w \in Nat \ {0}, NEW q \in Nat, NEW r \in 0 .. w - 1
  PROVE  (w * q + r) % w = r
OBVIOUS

LEMMA ModSucc ==
  ASSUME NEW x \in Nat, NEW w \in Nat \ {0}
  PROVE  ((x % w) + 1) % w = (x + 1) % w
<1>. DEFINE r == x % w
            q == x \div w
<1>1. r \in 0 .. w - 1 /\ q \in Nat /\ x = w * q + r
  OBVIOUS
<1>. HIDE DEF r, q
<1>2. CASE r + 1 < w
  <2>1. r + 1 \in 0 .. w - 1 /\ x + 1 = w * q + (r + 1)
    BY <1>1, <1>2
  <2>2. (x + 1) % w = r + 1
    BY <1>1, <2>1, ModUnique
  <2>3. (r + 1) % w = r + 1
    BY <1>1, <1>2, ModSmall
  <2>. QED BY <2>2, <2>3 DEF r
<1>3. CASE r + 1 = w
  <2>1. x + 1 = w * (q + 1) + 0 /\ q + 1 \in Nat /\ 0 \in 0 .. w - 1
    BY <1>1, <1>3
  <2>2. (x + 1) % w = 0
    BY <2>1, ModUnique
  <2>3. w % w = 0
    BY ModUnique, w = w * 1 + 0
  <2>. QED BY <1>3, <2>2, <2>3 DEF r
<1>. QED BY <1>1, <1>2, <1>3

LEMMA WrappedType ==
  ASSUME NEW n \in Nat
  PROVE  Wrapped(n) \in 0 .. Width - 1
BY PitAssumption, ModRange DEF Wrapped

(***************************************************************************)
(* Types.  The seconds stay below MsPerSecond because an interrupt is late *)
(* by less than a second.  It is on during file commands, and after one    *)
(* that failed.                                                            *)
(***************************************************************************)
Owner ==
  /\ irq => picnt <= MaxLate + 1
  /\ pc = "file" => irq /\ piten
  /\ irq => failed \/ pc = "file"

ClockInv == TypeOK /\ Owner

LEMMA Zeros ==
  /\ 0 \in 0 .. MaxTurns /\ 0 \in 0 .. Width - 1
  /\ 0 \in 0 .. MsPerSecond - 1 /\ 0 \in 0 .. MaxCommands
<1>1. 0 \in 0 .. MaxTurns
  BY PitAssumption
<1>2. 0 \in 0 .. Width - 1
  BY PitAssumption
<1>3. 0 \in 0 .. MsPerSecond - 1
  BY PitAssumption
<1>4. 0 \in 0 .. MaxCommands
  BY PitAssumption
<1>. QED BY <1>1, <1>2, <1>3, <1>4

LEMMA OneMoreCommand ==
  ASSUME commands \in 0 .. MaxCommands, commands < MaxCommands
  PROVE  commands + 1 \in 0 .. MaxCommands
BY PitAssumption

LEMMA InitClock == Init => ClockInv
<1> SUFFICES ASSUME Init PROVE ClockInv
  OBVIOUS
<1>1. TimerType
  BY Zeros, Zenon DEF Init, TimerType
<1>2. IndexType
  BY DEF Init, IndexType, MAX_INDEX
<1>3. MainType
  <2>1. 0 \in 0 .. 255
    OBVIOUS
  <2>. QED BY <2>1, Zeros, Zenon DEF Init, MainType, STATUS_OK
<1>4. Owner
  BY DEF Init, Owner
<1>. QED BY <1>1, <1>2, <1>3, <1>4 DEF ClockInv, TypeOK

LEMMA TurnKeeps ==
  ASSUME ClockInv, Turn
  PROVE  ClockInv'
<1>. USE DEF ClockInv, TypeOK, Turn
<1>1. elapsed' \in 0 .. Width - 1
  BY PitAssumption, WrappedType DEF TimerType
<1>2. TimerType'
  BY <1>1, PitAssumption DEF TimerType, ticks
<1>3. IndexType' /\ MainType'
  BY DEF IndexType, MainType
<1>4. Owner'
  BY PitAssumption DEF TimerType, Owner
<1>. QED BY <1>2, <1>3, <1>4

LEMMA IrqKeeps ==
  ASSUME ClockInv, pit_irq_svc
  PROVE  ClockInv'
<1>. USE DEF ClockInv, TypeOK, pit_irq_svc
<1>1. timestamp' \in 0 .. Width - 1
  BY PitAssumption, WrappedType DEF TimerType, Increment
<1>2. second_tick' \in 0 .. Width - 1
  BY PitAssumption, WrappedType DEF TimerType
<1>3. mscount' \in 0 .. MsPerSecond - 1
  BY PitAssumption DEF TimerType, Owner, SecondOver, Increment
<1>4. TimerType'
  BY <1>1, <1>2, <1>3, Zeros, Zenon DEF TimerType
<1>5. IndexType' /\ MainType'
  BY DEF IndexType, MainType, disk
<1>6. Owner'
  BY PitAssumption DEF TimerType, Owner
<1>. QED BY <1>4, <1>5, <1>6

LEMMA PulseKeeps ==
  ASSUME ClockInv, index_func
  PROVE  ClockInv'
<1>. USE DEF ClockInv, TypeOK, index_func
<1>1. picnt \in Nat /\ elapsed \in Nat
  BY DEF TimerType
<1>2. pulses' \in Seq(Nat)
  BY <1>1, AppendProperties DEF IndexType
<1>3. index_pos' \in Seq(Nat) /\ Len(index_pos') <= MAX_INDEX
  BY <1>1, AppendProperties DEF IndexType, MAX_INDEX
<1>4. TimerType'
  BY DEF TimerType, registers, ticks
<1>5. IndexType'
  BY <1>2, <1>3 DEF IndexType
<1>6. MainType' /\ Owner'
  BY DEF MainType, Owner, registers
<1>. QED BY <1>4, <1>5, <1>6

LEMMA FileKeeps ==
  ASSUME ClockInv, FileBegin \/ FileFails \/ FileEnd
  PROVE  ClockInv'
<1>. USE DEF ClockInv, TypeOK
<1>1. TimerType'
  <2>1. CASE FileBegin
    BY <2>1, Zeros, Zenon DEF FileBegin, TimerType
  <2>2. CASE FileFails \/ FileEnd
    BY <2>2 DEF FileFails, FileEnd, TimerType, registers, ticks, IrqAfterStop
  <2>. QED BY <2>1, <2>2
<1>2. IndexType'
  BY DEF FileBegin, FileFails, FileEnd, IndexType
<1>3. MainType'
  <2>1. CASE FileBegin
    BY <2>1, OneMoreCommand DEF FileBegin, MainType, disk
  <2>2. CASE FileFails \/ FileEnd
    <3>1. result' \in 0 .. 255
      BY <2>2 DEF FileFails, FileEnd, STATUS_OK, ERROR_FILE_INIT
    <3>. QED BY <2>2, <3>1 DEF FileFails, FileEnd, MainType, disk
  <2>. QED BY <2>1, <2>2
<1>4. Owner'
  BY PitAssumption
     DEF FileBegin, FileFails, FileEnd, TimerType, Owner, registers, IrqAfterStop
<1>. QED BY <1>1, <1>2, <1>3, <1>4

LEMMA IndexBeginKeeps ==
  ASSUME ClockInv, NEW c \in Waits, IndexBegin(c)
  PROVE  ClockInv'
<1>. USE DEF ClockInv, TypeOK, IndexBegin
<1>1. TimerType'
  BY Zeros, Zenon DEF TimerType, ticks
<1>2. IndexType'
  BY DEF IndexType, MAX_INDEX
<1>3. MainType'
  BY OneMoreCommand DEF MainType
<1>4. Owner'
  BY PitAssumption DEF Owner, Waits, Arming
<1>. QED BY <1>1, <1>2, <1>3, <1>4

LEMMA IndexEndKeeps ==
  ASSUME ClockInv, NEW code \in 0 .. 255, pc \in Waits, IndexEnd(code)
  PROVE  ClockInv'
<1>. USE DEF ClockInv, TypeOK, IndexEnd
<1>1. TimerType' /\ IndexType'
  BY DEF TimerType, IndexType, ticks
<1>2. MainType' /\ Owner'
  BY DEF MainType, Owner, disk, Waits, Arming
<1>. QED BY <1>1, <1>2

LEMMA IndexKeeps ==
  ASSUME ClockInv, CounterReset \/ CountIndex \/ FindIndex \/ CountData \/ Spin
  PROVE  ClockInv'
<1>1. CASE Look /\ pc \in Waits
  BY <1>1 DEF Look, ClockInv, TypeOK, TimerType, IndexType, MainType, Owner,
              registers, ticks
<1>2. CASE CountIndex
  BY <1>1, <1>2, IndexEndKeeps
     DEF CountIndex, Waits, ERROR_SAMPLER_NO_INDEX, STATUS_OK
<1>3. CASE FindIndex
  <2>1. CASE idx_counter = 1
    BY <1>3, <2>1
       DEF FindIndex, ClockInv, TypeOK, TimerType, IndexType, MainType, Owner,
           registers, ticks, Waits, MAX_INDEX
  <2>2. CASE idx_counter # 1
    BY <1>3, <2>2, IndexEndKeeps DEF FindIndex, Waits, ERROR_SAMPLER_NO_INDEX
  <2>. QED BY <2>1, <2>2
<1>4. CASE CountData
  <2>1. CASE \E code \in {STATUS_OK, ERROR_SAMPLER_CELL_OVERRUN} : IndexEnd(code)
    BY <1>4, <2>1, IndexEndKeeps
       DEF CountData, Waits, STATUS_OK, ERROR_SAMPLER_CELL_OVERRUN
  <2>. QED BY <1>1, <1>4, <2>1 DEF CountData, Waits
<1>5. CASE Spin
  BY <1>5 DEF Spin, ClockInv, TypeOK, TimerType, IndexType, MainType, Owner,
              registers, ticks
<1>6. CASE CounterReset
  <2>1. TimerType' /\ IndexType'
    BY <1>6 DEF CounterReset, ClockInv, TypeOK, TimerType, IndexType, registers, ticks
  <2>2. MainType' /\ Owner'
    BY <1>6 DEF CounterReset, ClockInv, TypeOK, MainType, Owner, registers, Waits, Arming
  <2>. QED BY <2>1, <2>2 DEF ClockInv, TypeOK
<1>. QED BY <1>2, <1>3, <1>4, <1>5, <1>6

LEMMA StutterKeeps ==
  ASSUME ClockInv, UNCHANGED vars
  PROVE  ClockInv'
BY DEF vars, registers, ticks, disk, ClockInv, TypeOK, TimerType, IndexType,
       MainType, Owner

LEMMA NextClock == ClockInv /\ [Next]_vars => ClockInv'
<1> SUFFICES ASSUME ClockInv, [Next]_vars PROVE ClockInv'
  OBVIOUS
<1>1. CASE IndexBegin("arm_index") \/ IndexBegin("arm_data")
  BY <1>1, IndexBeginKeeps DEF Waits, Arming
<1>. QED
  BY <1>1, TurnKeeps, IrqKeeps, PulseKeeps, FileKeeps, IndexKeeps, StutterKeeps
     DEF Next, Main, Done

(* Every variable of the timer keeps its type: in particular the part of a *)
(* second counted by pit_irq_svc stays below a second, though it takes     *)
(* off only one second at a time (pit.c:58-63).                            *)
THEOREM ClockTypes == Spec => []TypeOK
<1>1. ClockInv => TypeOK
  BY DEF ClockInv
<1>. QED BY <1>1, InitClock, NextClock, PTL DEF Spec

(***************************************************************************)
(* The clock of the file commands.                                         *)
(***************************************************************************)
StampInv == ClockInv /\ TimestampExact

LEMMA WrappedTwice ==
  ASSUME NEW n \in Nat
  PROVE  /\ Wrapped(Wrapped(n)) = Wrapped(n)
         /\ Wrapped(Wrapped(n) + 1) = Wrapped(n + 1)
<1>1. Width \in Nat \ {0}
  BY PitAssumption
<1>2. (n % Width) % Width = n % Width
  BY <1>1, ModMod
<1>3. ((n % Width) + 1) % Width = (n + 1) % Width
  BY <1>1, ModSucc
<1>. QED BY <1>2, <1>3, Zenon DEF Wrapped

LEMMA InitStamp == Init => StampInv
BY InitClock DEF Init, StampInv, TimestampExact

LEMMA NextStamp == StampInv /\ [Next]_vars => StampInv'
<1> SUFFICES ASSUME StampInv, [Next]_vars PROVE TimestampExact'
  BY NextClock DEF StampInv
<1>1. timestamp \in Nat /\ picnt \in Nat /\ Width \in Nat \ {0}
  BY PitAssumption DEF StampInv, ClockInv, TypeOK, TimerType
<1>2. CASE Turn
  <2>1. Wrapped(Wrapped(timestamp + picnt) + 1) = Wrapped(timestamp + picnt + 1)
    BY <1>1, timestamp + picnt \in Nat, WrappedTwice
  <2>2. timestamp' = timestamp /\ picnt' = picnt + 1 /\ pc' = pc
    BY <1>2 DEF Turn, ticks
  <2>3. timestamp + (picnt + 1) = timestamp + picnt + 1
    BY <1>1
  <2>. QED BY <1>2, <2>1, <2>2, <2>3 DEF Turn, StampInv, TimestampExact
<1>3. CASE pit_irq_svc
  <2>1. Wrapped(Wrapped(timestamp + picnt)) = Wrapped(timestamp + picnt)
    BY <1>1, timestamp + picnt \in Nat, WrappedTwice
  <2>2. timestamp' = Wrapped(timestamp + picnt) /\ picnt' = 0
    BY <1>3 DEF pit_irq_svc, Increment
  <2>3. Wrapped(timestamp + picnt) + 0 = Wrapped(timestamp + picnt)
    BY <1>1, ModRange DEF Wrapped
  <2>4. pc' = pc /\ elapsed' = elapsed
    BY <1>3 DEF pit_irq_svc
  <2>. QED BY <2>1, <2>2, <2>3, <2>4 DEF StampInv, TimestampExact
<1>4. CASE FileBegin
  <2>1. Wrapped(0) = 0
    BY <1>1, ModSmall DEF Wrapped
  <2>2. timestamp' = 0 /\ picnt' = 0 /\ elapsed' = 0
    BY <1>4 DEF FileBegin
  <2>. QED BY <2>1, <2>2 DEF TimestampExact
<1>5. CASE index_func \/ FileFails \/ FileEnd
  BY <1>5 DEF index_func, FileFails, FileEnd, Waits, Arming, TimestampExact
<1>6. CASE IndexBegin("arm_index") \/ IndexBegin("arm_data") \/ Spin
  BY <1>6 DEF IndexBegin, Spin, TimestampExact
<1>7. CASE CounterReset \/ CountIndex \/ FindIndex \/ CountData
  BY <1>7 DEF CounterReset, CountIndex, FindIndex, CountData, IndexEnd, Look, TimestampExact
<1>8. CASE UNCHANGED vars
  BY <1>8 DEF vars, registers, ticks, StampInv, TimestampExact
<1>. QED BY <1>2, <1>3, <1>4, <1>5, <1>6, <1>7, <1>8 DEF Next, Main, Done

(* A file command's timestamp misses no turn of the timer, however late    *)
(* its interrupt is and however often the counter wraps: pit_irq_svc adds  *)
(* what PIVR counted, not one (pit.c:52-56).                               *)
THEOREM TimestampCorrect == Spec => []ClockSound
<1>1. StampInv => ClockSound
  BY DEF StampInv, ClockInv, ClockSound
<1>. QED BY <1>1, InitStamp, NextStamp, PTL DEF Spec

(***************************************************************************)
(* The clock of the index commands.  Their timer runs without its          *)
(* interrupt, so PICNT is the time itself; the index store keeps the first *)
(* MAX_INDEX of the pulses.                                                *)
(***************************************************************************)
Recorded ==
  /\ picnt = elapsed
  /\ Len(index_pos) <= Len(pulses)
  /\ Len(index_pos) < MAX_INDEX => Len(index_pos) = Len(pulses)
  /\ \A i \in 1 .. Len(index_pos) : index_pos[i] = pulses[i]

IndexInv == ClockInv /\ (pc \in Waits /\ ~failed => Recorded)

LEMMA RecordedTimes ==
  ASSUME IndexType, Recorded
  PROVE  index_pos = SubSeq(pulses, 1, Len(index_pos))
<1>. DEFINE n == Len(index_pos)
            sub == SubSeq(pulses, 1, n)
<1>1. n \in Nat /\ n <= Len(pulses) /\ index_pos \in Seq(Nat) /\ pulses \in Seq(Nat)
  BY LenProperties DEF IndexType, Recorded
<1>2. sub \in Seq(Nat) /\ Len(sub) = n
  BY <1>1, SubSeqProperties
<1>3. \A i \in 1 .. n : sub[i] = pulses[i]
  BY <1>1, SubSeqProperties
<1>. QED BY <1>1, <1>2, <1>3, SeqEqual DEF Recorded

LEMMA PulseRecords ==
  ASSUME ClockInv, Recorded, index_func
  PROVE  Recorded'
<1>1. /\ index_pos \in Seq(Nat) /\ pulses \in Seq(Nat)
      /\ picnt \in Nat /\ elapsed \in Nat /\ picnt = elapsed
  BY DEF ClockInv, TypeOK, IndexType, TimerType, Recorded
<1>2. pulses' = Append(pulses, elapsed) /\ picnt' = picnt /\ elapsed' = elapsed
  BY DEF index_func, registers
<1>3. /\ Len(pulses') = Len(pulses) + 1 /\ pulses'[Len(pulses) + 1] = elapsed
      /\ \A i \in 1 .. Len(pulses) : pulses'[i] = pulses[i]
  BY <1>1, <1>2, AppendProperties
<1>4. CASE Len(index_pos) < MAX_INDEX
  <2>1. index_pos' = Append(index_pos, picnt)
    BY <1>4 DEF index_func
  <2>2. /\ Len(index_pos') = Len(index_pos) + 1
        /\ index_pos'[Len(index_pos) + 1] = picnt
        /\ \A i \in 1 .. Len(index_pos) : index_pos'[i] = index_pos[i]
    BY <1>1, <2>1, AppendProperties
  <2>3. Len(index_pos) = Len(pulses) /\ Len(pulses) \in Nat
    BY <1>1, <1>4, LenProperties DEF Recorded
  <2>. QED BY <1>1, <1>2, <1>3, <2>2, <2>3 DEF Recorded
<1>5. CASE ~(Len(index_pos) < MAX_INDEX)
  <2>1. index_pos' = index_pos
    BY <1>5 DEF index_func
  <2>2. Len(index_pos) \in Nat /\ Len(pulses) \in Nat
    BY <1>1, LenProperties
  <2>. QED BY <1>1, <1>2, <1>3, <1>5, <2>1, <2>2 DEF Recorded
<1>. QED BY <1>4, <1>5

LEMMA TurnRecords ==
  ASSUME MaxTurns < Width, ClockInv, Recorded, Turn
  PROVE  Recorded'
<1>1. picnt \in Nat /\ picnt + 1 < Width /\ picnt = elapsed
  BY PitAssumption DEF ClockInv, TypeOK, TimerType, Turn, Recorded
<1>2. Wrapped(elapsed + 1) = picnt + 1
  BY <1>1, PitAssumption, ModSmall DEF Wrapped
<1>3. picnt' = picnt + 1 /\ elapsed' = Wrapped(elapsed + 1)
  BY DEF Turn
<1>4. UNCHANGED <<index_pos, pulses>>
  BY DEF Turn
<1>. QED BY <1>2, <1>3, <1>4 DEF Recorded

LEMMA InitIndex == Init => IndexInv
BY InitClock DEF Init, IndexInv, Waits, Arming

LEMMA NextIndex ==
  ASSUME MaxTurns < Width, IndexInv, [Next]_vars
  PROVE  IndexInv'
<1> SUFFICES ASSUME pc' \in Waits, ~failed' PROVE Recorded'
  BY NextClock DEF IndexInv
<1>1. ClockInv
  BY DEF IndexInv
<1>2. CASE Turn
  <2>1. pc \in Waits /\ ~failed
    BY <1>2 DEF Turn
  <2>. QED BY <1>1, <1>2, <2>1, TurnRecords DEF IndexInv
<1>3. CASE pit_irq_svc
  BY <1>1, <1>3 DEF pit_irq_svc, ClockInv, Owner, Waits, Arming
<1>4. CASE index_func
  <2>1. pc \in Waits /\ ~failed
    BY <1>4 DEF index_func
  <2>. QED BY <1>1, <1>4, <2>1, PulseRecords DEF IndexInv
<1>5. CASE FileBegin \/ FileFails \/ FileEnd \/ Spin
  BY <1>5 DEF FileBegin, FileFails, FileEnd, Spin, Waits, Arming
<1>6. CASE IndexBegin("arm_index") \/ IndexBegin("arm_data")
  BY <1>6 DEF IndexBegin, Recorded, MAX_INDEX
<1>7. CASE FindIndex
  <2>1. idx_counter = 1 /\ index_pos' = <<>> /\ pulses' = <<>>
    BY <1>7 DEF FindIndex, IndexEnd, Waits, Arming
  <2>2. pc \in Waits /\ ~failed /\ picnt' = picnt /\ elapsed' = elapsed
    BY <1>7, <2>1 DEF FindIndex, Waits, registers
  <2>3. picnt = elapsed
    BY <2>2 DEF IndexInv, Recorded
  <2>. QED BY <2>1, <2>2, <2>3 DEF Recorded, MAX_INDEX
<1>8. CASE CountIndex \/ CountData
  <2>1. Look /\ pc \in Waits
    BY <1>8 DEF CountIndex, CountData, IndexEnd, Waits, Arming
  <2>. QED BY <2>1 DEF Look, registers, IndexInv, Recorded
<1>9. CASE UNCHANGED vars
  BY <1>9 DEF vars, registers, IndexInv, Recorded
<1>10. CASE CounterReset
  BY <1>10 DEF CounterReset, registers, IndexInv, Recorded, Waits
<1>. QED
  BY <1>2, <1>3, <1>4, <1>5, <1>6, <1>7, <1>8, <1>9, <1>10 DEF Next, Main, Done

(* Unless a file command failed before, the index store holds the times of *)
(* the pulses in order, whatever commands shared the timer, and however    *)
(* many pulses come after the store is full (pit.c, trk_read.c:26-44,      *)
(* 77-103).  The timer's register is narrower than the counter the times   *)
(* are compared with.                                                      *)
THEOREM IndexTimes == ASSUME MaxTurns < Width PROVE Spec => []IndexTimesTrue
<1>1. IndexInv => IndexTimesTrue
  BY RecordedTimes DEF IndexInv, IndexTimesTrue, ClockInv, TypeOK
<1>2. IndexInv /\ [Next]_vars => IndexInv'
  BY NextIndex
<1>. QED BY <1>1, <1>2, InitIndex, PTL DEF Spec
=============================================================================
