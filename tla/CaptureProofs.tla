--------------------------- MODULE CaptureProofs ---------------------------
(***************************************************************************)
(* For disks of any size, streams of any length and blocks of any size:    *)
(* the host of Capture knows where the head is, takes and decodes every    *)
(* track it can, and writes the files that were asked for.                 *)
(*                                                                         *)
(* HeadInStep is not inductive: what the host believes after a line of     *)
(* commands depends on the line, on whether the sampler got it, and on     *)
(* what a poll can take for an answer (IInv).  The files depend in turn on *)
(* what the blocks of a track hold at each point of the reader (Fetching), *)
(* and on how the files written so far follow the host's locals (Saving).  *)
(***************************************************************************)
EXTENDS Capture, TLAPS, WellFoundedInduction

Codes5 == {"data", "fill", "BOF", "EOF", "EOT"}

Types ==
  /\ config \in Configs
  /\ pc \in {"tx", "rx", "track", "bof", "blocks", "decode", "write", "done"}
  /\ line \in {"start", "status", "next", "stop", "exec"}
  /\ i \in Nat /\ t \in Nat /\ side \in Side
  /\ sampler \in {"ready", "busy", "sending"}
  /\ drive \in Drive /\ target \in Drive
  /\ stream \in Seq(Codes5) /\ at \in Nat
  /\ \A p \in DOMAIN stream : stream[p] = "EOT" => p = Len(stream)

(* Commands and their lines. *)
LinesFit ==
  /\ line = "next" => config.cmd = "read_dsk"
  /\ line = "exec" <=> config.cmd = "exec"
  /\ line = "exec" \/ (line = "stop" /\ config.cmd = "read_dsk") =>
       pc \in {"tx", "rx", "done"}

(* The side follows the count of tracks. *)
Locals ==
  /\ config.sides = "a" => side = i % 2
  /\ config.sides # "a" => side = FirstSide(config)
  /\ line = "start" => i = 0 /\ t = config.begin_track

(* A line whose success the host relies on. *)
Relied == line \in {"start", "status", "next"} \/ (line = "stop" /\ config.cmd = "read_trk")

Here(d) == d.track = t /\ d.side = side

(* Where a line leaves the drive. *)
There(d) ==
  /\ d.track = IF line = "next" /\ (config.sides # "a" \/ side = 1) THEN t + 1 ELSE t
  /\ d.side = IF line = "next" /\ config.sides = "a" THEN 1 - side ELSE side

BeforeLine ==
  pc = "tx" =>
    /\ line = "start" => sampler = "ready"
    /\ Relied /\ line # "start" => sampler # "busy" /\ Here(drive)

DuringLine ==
  pc = "rx" /\ Relied =>
    /\ sampler = "busy" => There(target)
    /\ sampler = "ready" /\ answer = "all" => There(drive)
    /\ sampler = "sending" => line # "start" /\ Here(drive)

(* A disk's stream was received to its end, or the host gives up.          *)
NothingSent ==
  config.cmd = "read_dsk" /\ sampler = "sending" /\ pc \notin {"bof", "blocks"}
    /\ line # "stop" => at >= Len(stream)

IInv == /\ Types /\ LinesFit /\ Locals
        /\ HeadInStep /\ BeforeLine /\ DuringLine /\ NothingSent

-----------------------------------------------------------------------------
(* What a command line of the host is made of. *)
LEMMA ConfigFacts ==
  ASSUME NEW c \in Configs
  PROVE  /\ c.cmd \in {"read_dsk", "read_trk", "exec"} /\ c.begin_track \in Nat
         /\ c.end_track \in Nat /\ c.sides \in Sides /\ FirstSide(c) \in Side
         /\ c.sides = "a" => FirstSide(c) = 0
BY CaptureAssumption DEF CaptureAssumption, Sides, Side, FirstSide

LEMMA StreamFacts ==
  ASSUME NEW s \in Streams
  PROVE  /\ s \in Seq(Codes5)
         /\ \A p \in DOMAIN s : s[p] = "EOT" => p = Len(s)
BY CaptureAssumption DEF CaptureAssumption, Framed, Codes5

(* The other side. *)
LEMMA OtherSide ==
  ASSUME NEW n \in Nat, NEW s \in Side
  PROVE  /\ 1 - s \in Side
         /\ s = n % 2 => 1 - s = (n + 1) % 2
         /\ n % 2 \in {0, 1}
BY DEF Side

(* In the beginning. *)
LEMMA InitInv == Init => IInv
<1> SUFFICES ASSUME Init PROVE IInv
  OBVIOUS
<1>1. /\ config.cmd \in {"read_dsk", "read_trk", "exec"} /\ config.begin_track \in Nat
      /\ config.end_track \in Nat /\ FirstSide(config) \in Side
      /\ config.sides = "a" => FirstSide(config) = 0
  BY ConfigFacts DEF Init
<1>2. Types
  BY <1>1 DEF Init, Types, Drive, Side, Codes5
<1>3. LinesFit /\ HeadInStep /\ BeforeLine /\ DuringLine /\ NothingSent
  BY <1>1 DEF Init, LinesFit, HeadInStep, BeforeLine, DuringLine, NothingSent, Relied
<1>4. Locals
  BY <1>1 DEF Init, Locals
<1> QED
  BY <1>2, <1>3, <1>4 DEF IInv

(* The end of a line, of whose success the drive must be a witness.        *)
LEMMA LineOverInv ==
  ASSUME IInv, NEW result, LineOver(result),
         pc \in {"tx", "rx"},
         UNCHANGED <<config, sampler, drive, target, stream>>,
         at' \in Nat, at' >= at,
         result = "all" /\ Relied =>
           There(drive) /\ sampler # "busy"
  PROVE  IInv'
<1> USE DEF IInv
<1>0. /\ config.cmd \in {"read_dsk", "read_trk", "exec"}
      /\ config.sides \in Sides /\ FirstSide(config) \in Side
  BY ConfigFacts DEF Types
<1>1. CASE line = "exec"
  <2>1. pc' = "done" /\ UNCHANGED <<line, i, t, side, error, reported>>
    BY <1>1 DEF LineOver, Stay, Goto
  <2> QED
    BY <2>1, <1>1, <1>0 DEF Types, LinesFit, Locals, HeadInStep, BeforeLine, DuringLine,
       NothingSent, FirstSide
<1>2. CASE line = "start"
  <2>1. /\ pc' = IF result = "all" THEN "track" ELSE "done"
        /\ UNCHANGED <<line, i, t, side>>
    BY <1>2 DEF LineOver, Stay, Goto, Succeeded
  <2>2. pc' = "track" => Here(drive) /\ sampler # "busy"
    BY <2>1, <1>2 DEF Relied, There, Here
  <2> QED
    BY <2>1, <2>2, <1>2, <1>0 DEF Types, LinesFit, Locals, HeadInStep, BeforeLine, DuringLine,
       NothingSent, FirstSide, Here
<1>3. CASE line = "next"
  <2>1. /\ IF result = "all" THEN pc' = "track" /\ line' = line
                             ELSE pc' = "tx" /\ line' = "stop"
        /\ i' = i + 1
        /\ side' = IF config.sides = "a" THEN 1 - side ELSE side
        /\ t' = IF config.sides # "a" \/ side = 1 THEN t + 1 ELSE t
    BY <1>3 DEF LineOver, Stay, Goto, Send, Succeeded, NextTrack
  <2>2. Types'
    <3>1. side' \in Side /\ t' \in Nat /\ i' \in Nat
      BY <2>1 DEF Types, Side
    <3> QED
      BY <2>1, <3>1, <1>3 DEF Types
  <2>3. Locals'
    BY <2>1, <1>3, OtherSide DEF Types, Locals, FirstSide
  <2>4. HeadInStep'
    BY <2>1, <1>3 DEF HeadInStep, Relied, There
  <2> QED
    BY <2>1, <2>2, <2>3, <2>4, <1>3 DEF LinesFit, BeforeLine, DuringLine, NothingSent, Relied,
       Types
<1>4. CASE line = "status"
  <2>1. /\ UNCHANGED <<i, t, side>>
        /\ \/ result = "all" /\ pc' = "write" /\ line' = line
           \/ config.cmd = "read_dsk" /\ pc' = "tx" /\ line' = "stop"
           \/ pc' = "done" /\ line' = line
    BY <1>4, <1>0 DEF LineOver, Stay, Goto, Send, Succeeded, LinesFit
  <2>2. HeadInStep'
    BY <2>1, <1>4 DEF HeadInStep, Relied, There
  <2> QED
    BY <2>1, <2>2, <1>4, <1>0 DEF Types, LinesFit, Locals, BeforeLine, DuringLine, NothingSent,
       Relied, FirstSide
<1>5. CASE line = "stop"
  <2>1. /\ UNCHANGED <<line, i, t, side>>
        /\ \/ result = "all" /\ config.cmd = "read_trk" /\ pc' = "decode"
           \/ pc' = "done"
    BY <1>5, <1>0 DEF LineOver, Stay, Goto, Succeeded, LinesFit
  <2>2. HeadInStep'
    BY <2>1, <1>5 DEF HeadInStep, Relied, There
  <2> QED
    BY <2>1, <2>2, <1>5, <1>0 DEF Types, LinesFit, Locals, BeforeLine, DuringLine, NothingSent,
       FirstSide
<1> QED
  BY <1>1, <1>2, <1>3, <1>4, <1>5 DEF Types

(* One step of each operation of the host. *)
LEMMA TxInv == IInv /\ cmd_spi_tx => IInv'
<1> SUFFICES ASSUME IInv, cmd_spi_tx PROVE IInv'
  OBVIOUS
<1> USE DEF IInv
<1>0. /\ config.cmd \in {"read_dsk", "read_trk", "exec"} /\ config.begin_track \in Nat
      /\ config.sides \in Sides /\ FirstSide(config) \in Side
      /\ config.sides = "a" => FirstSide(config) = 0
  BY ConfigFacts DEF Types
<1>1. pc = "tx" /\ UNCHANGED <<config, drive, stream>> /\ at' \in Nat /\ at' >= at
  BY DEF cmd_spi_tx, Clocked, Types
<1>2. CASE /\ sampler = "ready" /\ pc' = "rx" /\ UNCHANGED <<line, i, t, side>>
           /\ sampler' = "busy" /\ target' = Executed(drive)
  <2>1. target' \in Drive
    <3>1. CASE line = "start"
      BY <1>0, <1>2, <3>1 DEF Executed, Drive
    <3>2. CASE line = "next"
      <4>1. (i + 1) % 2 \in Side
        BY DEF Types, Side
      <4> QED
        BY <1>2, <3>2, <4>1 DEF Executed, Types, Drive
    <3>3. CASE line \notin {"start", "next"}
      BY <1>2, <3>3 DEF Executed, Types, Drive
    <3> QED
      BY <3>1, <3>2, <3>3
  <2>2. Relied => There(target')
    <3>1. CASE line = "start"
      BY <1>0, <1>2, <3>1 DEF Executed, There, Locals, Types
    <3>2. CASE line = "next"
      <4>1. Here(drive)
        BY <1>1, <3>2 DEF BeforeLine, Relied
      <4>2. CASE config.sides = "a"
        BY <1>2, <3>2, <4>1, <4>2 DEF Executed, There, Here, Locals, Types, Drive, Side
      <4>3. CASE config.sides # "a"
        BY <1>2, <3>2, <4>1, <4>3 DEF Executed, There, Here, Types, Drive
      <4> QED
        BY <4>2, <4>3
    <3>3. CASE line \notin {"start", "next"}
      <4>1. Relied => Here(drive)
        BY <1>1, <3>3 DEF BeforeLine, Relied
      <4> QED
        BY <1>2, <3>3, <4>1 DEF Executed, There, Here, Types, Drive
    <3> QED
      BY <3>1, <3>2, <3>3
  <2>3. DuringLine'
    BY <1>1, <1>2, <2>2 DEF DuringLine, Relied, There
  <2> QED
    BY <1>1, <1>2, <2>1, <2>3 DEF Types, LinesFit, Locals, HeadInStep, BeforeLine,
       NothingSent, FirstSide
<1>3. CASE /\ sampler = "sending" /\ pc' = "rx" /\ UNCHANGED <<line, i, t, side>>
           /\ UNCHANGED <<sampler, target, answer>>
  <2>1. Relied => line # "start" /\ Here(drive)
    BY <1>1, <1>3 DEF BeforeLine
  <2> QED
    BY <1>1, <1>3, <2>1 DEF Types, LinesFit, Locals, HeadInStep, BeforeLine, DuringLine,
       NothingSent, FirstSide, Relied, Here
<1>4. CASE NotReady /\ UNCHANGED <<sampler, target>>
  <2>1. CASE LineOver("late")
    BY <1>1, <1>4, <2>1, LineOverInv
  <2>2. CASE UNCHANGED <<pc, line, i, t, side>>
    BY <1>1, <1>4, <2>2 DEF Types, LinesFit, Locals, HeadInStep, BeforeLine, DuringLine,
       NothingSent, FirstSide, Relied, Here
  <2> QED
    BY <1>4, <2>1, <2>2 DEF NotReady
<1> QED
  BY <1>2, <1>3, <1>4 DEF cmd_spi_tx, SeesReady, Goto

LEMMA RxInv == IInv /\ cmd_spi_rx => IInv'
<1> SUFFICES ASSUME IInv, cmd_spi_rx PROVE IInv'
  OBVIOUS
<1> USE DEF IInv
<1>0. config.cmd \in {"read_dsk", "read_trk", "exec"}
  BY ConfigFacts DEF Types
<1>1. /\ pc = "rx" /\ UNCHANGED <<config, sampler, answer, drive, target, stream>>
      /\ at' \in Nat /\ at' >= at
  BY DEF cmd_spi_rx, Clocked, Types
<1>2. CASE sampler = "ready" /\ LineOver(answer)
  BY <1>1, <1>2, LineOverInv DEF DuringLine
<1>3. CASE sampler = "sending" /\ SeesReady /\ \E garbage \in Answers : LineOver(garbage)
  <2>1. PICK garbage \in Answers : LineOver(garbage)
    BY <1>3
  <2>2. config.cmd # "read_dsk" \/ line = "stop"
    BY <1>1, <1>3 DEF SeesReady, NothingSent, Types
  <2>3. Relied => There(drive)
    BY <1>0, <1>1, <1>3, <2>2 DEF DuringLine, Relied, There, Here, LinesFit
  <2> QED
    BY <1>1, <1>3, <2>1, <2>3, LineOverInv
<1>4. CASE NotReady
  <2>1. CASE LineOver("late")
    BY <1>1, <2>1, LineOverInv
  <2>2. CASE UNCHANGED <<pc, line, i, t, side>>
    BY <1>1, <2>2 DEF Types, LinesFit, Locals, HeadInStep, BeforeLine, DuringLine,
       NothingSent, FirstSide, Relied, Here, There
  <2> QED
    BY <1>4, <2>1, <2>2 DEF NotReady
<1> QED
  BY <1>2, <1>3, <1>4 DEF cmd_spi_rx


LEMMA TrackReadInv == IInv /\ TrackRead => IInv'
<1> SUFFICES ASSUME IInv, TrackRead PROVE IInv'
  OBVIOUS
<1> USE DEF IInv
<1>1. /\ pc = "track" /\ pc' = "bof" /\ sampler' = "sending"
      /\ UNCHANGED <<config, line, i, t, side, answer, drive, target>>
      /\ stream' \in Streams /\ at' = 0
  BY DEF TrackRead, Goto
<1>2. Types'
  BY <1>1, StreamFacts DEF Types
<1> QED
  BY <1>1, <1>2 DEF LinesFit, Locals, HeadInStep, BeforeLine, DuringLine, NothingSent, FirstSide

(* The end of a track's blocks. *)
LEMMA ReadOverInv ==
  ASSUME IInv, NEW result, ReadOver(result), pc \in {"bof", "blocks"},
         UNCHANGED <<config, i, t, side, sampler, answer, drive, target, stream>>,
         at' \in Nat, result = 0 => at' >= Len(stream), result = 0 \/ result = -1
  PROVE  IInv'
<1> USE DEF IInv
<1>1. /\ config.cmd \in {"read_dsk", "read_trk", "exec"}
      /\ config.cmd # "exec"
  BY ConfigFacts DEF Types, LinesFit
<1>2. \/ pc' = "tx" /\ line' = "stop"
      \/ result = 0 /\ config.cmd = "read_dsk" /\ pc' = "decode" /\ line' = line
  BY <1>1 DEF ReadOver, Send, Goto
<1>3. sampler # "busy" /\ Here(drive)
  BY DEF HeadInStep, Here
<1> QED
  BY <1>1, <1>2, <1>3 DEF Types, LinesFit, Locals, HeadInStep, BeforeLine, DuringLine,
     NothingSent, FirstSide, Here

LEMMA FirstBlockReadInv == IInv /\ FirstBlockRead => IInv'
<1> SUFFICES ASSUME IInv, FirstBlockRead PROVE IInv'
  OBVIOUS
<1> USE DEF IInv
<1>1. /\ pc = "bof"
      /\ UNCHANGED <<config, i, t, side, sampler, answer, drive, target, stream>>
  BY DEF FirstBlockRead
<1>2. CASE ReadOver(-1) /\ at' = at
  BY <1>1, <1>2, ReadOverInv DEF Types
<1>3. CASE pc' \in {"bof", "blocks"} /\ line' = line /\ at' = at + SPI_BLOCK_SIZE
  BY <1>1, <1>3, CaptureAssumption DEF CaptureAssumption, Types, LinesFit, Locals, HeadInStep,
     BeforeLine, DuringLine, NothingSent, FirstSide
<1> QED
  BY <1>1, <1>2, <1>3 DEF FirstBlockRead, Goto

(* The block with the EOT reaches the end of the stream.                   *)
LEMMA BlockReadInv == IInv /\ BlockRead => IInv'
<1> SUFFICES ASSUME IInv, BlockRead PROVE IInv'
  OBVIOUS
<1> USE DEF IInv
<1>1. /\ pc = "blocks"
      /\ UNCHANGED <<config, i, t, side, sampler, answer, drive, target, stream>>
  BY DEF BlockRead
<1>2. CASE ReadOver(-1) /\ at' = at
  BY <1>1, <1>2, ReadOverInv DEF Types
<1>3. CASE /\ at' = at + SPI_BLOCK_SIZE
           /\ \E k \in FirstBlock : Byte(at + k) = "EOT"
           /\ ReadOver(0)
  <2>1. PICK k \in FirstBlock : Byte(at + k) = "EOT"
    BY <1>3
  <2>2. k \in 1 .. SPI_BLOCK_SIZE /\ SPI_BLOCK_SIZE \in Nat
    BY <2>1, CaptureAssumption DEF CaptureAssumption, FirstBlock
  <2>3. at + k <= Len(stream) /\ stream[at + k] = "EOT"
    BY <2>1 DEF Byte
  <2>4. at + k \in DOMAIN stream
    BY <2>2, <2>3 DEF Types
  <2>5. at + k = Len(stream)
    BY <2>3, <2>4 DEF Types
  <2>6. at' \in Nat /\ at' >= Len(stream)
    BY <1>3, <2>2, <2>5 DEF Types
  <2> QED
    BY <1>1, <1>3, <2>6, ReadOverInv
<1>4. CASE pc' = pc /\ line' = line /\ at' = at + SPI_BLOCK_SIZE
  BY <1>1, <1>4, CaptureAssumption DEF CaptureAssumption, Types, LinesFit, Locals, HeadInStep,
     BeforeLine, DuringLine, NothingSent, FirstSide
<1> QED
  BY <1>1, <1>2, <1>3, <1>4 DEF BlockRead

LEMMA DecodeInv == IInv /\ Decode => IInv'
<1> SUFFICES ASSUME IInv, Decode PROVE IInv'
  OBVIOUS
<1> USE DEF IInv
<1>1. /\ pc = "decode"
      /\ UNCHANGED <<config, i, t, side, sampler, answer, drive, target, stream, at>>
  BY DEF Decode, outside
<1>2. \/ pc' = "tx" /\ line' = "status"
      \/ pc' = "done" /\ line' = line
      \/ pc' = "tx" /\ line' = "stop" /\ config.cmd # "read_trk"
  BY DEF Decode, Send, Goto
<1>3. config.cmd # "exec" /\ sampler # "busy" /\ Here(drive)
  BY <1>1 DEF HeadInStep, Here, LinesFit, Types
<1> QED
  BY <1>1, <1>2, <1>3 DEF Types, LinesFit, Locals, HeadInStep, BeforeLine, DuringLine,
     NothingSent, FirstSide, Here, Relied

LEMMA WriteFileInv == IInv /\ WriteFile => IInv'
<1> SUFFICES ASSUME IInv, WriteFile PROVE IInv'
  OBVIOUS
<1> USE DEF IInv
<1>1. /\ pc = "write"
      /\ UNCHANGED <<config, i, t, side, sampler, answer, drive, target, stream, at>>
  BY DEF WriteFile, outside
<1>2. \/ pc' = "done" /\ line' = line
      \/ pc' = "tx" /\ line' \in {"stop", "next"} /\ config.cmd # "read_trk"
  BY DEF WriteFile, Send, Goto
<1>3. /\ config.cmd \in {"read_dsk", "read_trk"}
      /\ sampler # "busy" /\ Here(drive)
  BY <1>1, ConfigFacts DEF HeadInStep, Here, LinesFit, Types
<1> QED
  BY <1>1, <1>2, <1>3 DEF Types, LinesFit, Locals, HeadInStep, BeforeLine, DuringLine,
     NothingSent, FirstSide, Here, Relied

(* And of the sampler. *)
LEMMA SamplerRunsInv == IInv /\ SamplerRuns => IInv'
<1> SUFFICES ASSUME IInv, SamplerRuns PROVE IInv'
  OBVIOUS
<1> USE DEF IInv
<1>1. /\ sampler = "busy" /\ sampler' = "ready"
      /\ UNCHANGED <<config, pc, line, i, t, side, target, stream, at>>
      /\ \/ answer' = "all" /\ drive' = target
         \/ answer' # "all" /\ drive' \in Partly
  BY DEF SamplerRuns, host
<1>2. drive' \in Drive
  BY <1>1 DEF Types, Drive, Partly
<1>3. DuringLine'
  BY <1>1 DEF DuringLine, Relied, There
<1> QED
  BY <1>1, <1>2, <1>3 DEF Types, LinesFit, Locals, HeadInStep, BeforeLine, NothingSent,
     FirstSide, Relied

LEMMA StreamEndsInv == IInv /\ StreamEnds => IInv'
<1> SUFFICES ASSUME IInv, StreamEnds PROVE IInv'
  OBVIOUS
<1> USE DEF IInv
<1>1. /\ sampler = "sending" /\ sampler' = "ready" /\ answer' = "none"
      /\ UNCHANGED <<config, pc, line, i, t, side, drive, target, stream, at>>
  BY DEF StreamEnds, host
<1> QED
  BY <1>1 DEF Types, LinesFit, Locals, HeadInStep, BeforeLine, DuringLine, NothingSent,
     FirstSide, Relied, Here

LEMMA StutterInv == IInv /\ UNCHANGED vars => IInv'
BY DEF vars, host, outside, IInv, Types, LinesFit, Locals, HeadInStep, BeforeLine, DuringLine,
   NothingSent, FirstSide, Relied, Here, There

LEMMA StepInv == IInv /\ [Next]_vars => IInv'
BY TxInv, RxInv, TrackReadInv, FirstBlockReadInv, BlockReadInv, DecodeInv, WriteFileInv,
   SamplerRunsInv, StreamEndsInv, StutterInv DEF Next, Main, Done

-----------------------------------------------------------------------------
(* The host reads and names a track only while the head is where it says,  *)
(* whatever commands fail, are cut off or are never heard: nothing is ever *)
(* read back, the position is counted (read.c:137-350).                    *)
THEOREM HostKnowsHead == Spec => []HeadInStep
<1>1. Init => IInv
  BY InitInv
<1>2. IInv /\ [Next]_vars => IInv'
  BY StepInv
<1>3. IInv => HeadInStep
  BY DEF IInv
<1> QED
  BY <1>1, <1>2, <1>3, PTL DEF Spec

-----------------------------------------------------------------------------
(***************************************************************************)
(* Decoding.                                                               *)
(***************************************************************************)
(* A set of natural numbers has a least one. *)
LEMMA LeastNatural ==
  ASSUME NEW S \in SUBSET Nat, S # {}
  PROVE  \E m \in S : \A n \in S : m <= n
<1> DEFINE Less == {pair \in Nat \X Nat : pair[1] < pair[2]}
<1>1. IsWellFoundedOn(Less, Nat)
  BY NatLessThanWellFounded DEF OpToRel
<1>2. \A m, n \in Nat : n < m => <<n, m>> \in Less
  OBVIOUS
<1> HIDE DEF Less
<1>3. \E m \in S : \A n \in S : ~ (<<n, m>> \in Less)
  BY <1>1, WFMin
<1>4. PICK m \in S : \A n \in S : ~ (<<n, m>> \in Less)
  BY <1>3
<1>5. \A n \in S : ~ (n < m)
  BY <1>2, <1>4
<1>. QED  BY <1>5

LEMMA MinIsLeast ==
  ASSUME NEW S \in SUBSET Nat, S # {}
  PROVE  Min(S) \in S /\ \A n \in S : Min(S) <= n
BY LeastNatural DEF Min

(* What the sampler sends for a track. *)
LEMMA StreamForm ==
  ASSUME stream \in Streams
  PROVE  /\ stream \in Seq(Codes5) /\ Len(stream) \in Nat \ {0}
         /\ DOMAIN stream = 1 .. Len(stream)
         /\ \A p \in DOMAIN stream : stream[p] = "EOT" <=> p = Len(stream)
         /\ \A p \in DOMAIN stream : stream[p] = "data" =>
              \E b \in 1 .. p - 1 : stream[b] = "BOF" /\ \A q \in b + 1 .. p : stream[q] = "data"
         /\ \A p \in DOMAIN stream : stream[p] = "fill" /\ p > 1 =>
              stream[p - 1] \in {"fill", "EOF"}
<1>1. Framed(stream) /\ stream # <<>>
  BY CaptureAssumption DEF CaptureAssumption
<1>2. stream \in Seq(Codes5)
  BY <1>1 DEF Framed, Codes5
<1>3. Len(stream) \in Nat \ {0} /\ DOMAIN stream = 1 .. Len(stream)
  BY <1>1, <1>2
<1>. QED  BY <1>1, <1>2, <1>3 DEF Framed

(* Fill follows fill or the end of a frame: there is none between a BOF    *)
(* and the next EOF.                                                       *)
LEMMA NoFillInFrame ==
  ASSUME stream \in Streams, NEW j \in Nat, NEW k \in Nat, j < k, j >= 1, k <= Len(stream),
         stream[j] = "BOF", \A m \in j .. k - 1 : stream[m] # "EOF"
  PROVE  stream[k] # "fill"
<1> SUFFICES ASSUME stream[k] = "fill"  PROVE FALSE
  OBVIOUS
<1> DEFINE Fills == {m \in j .. k : \A q \in m .. k : stream[q] = "fill"}
<1>1. Fills \in SUBSET Nat /\ k \in Fills
  OBVIOUS
<1>2. PICK m \in Fills : \A n \in Fills : m <= n
  BY <1>1, LeastNatural
<1>3. m \in j .. k /\ \A q \in m .. k : stream[q] = "fill"
  BY <1>2
<1>4. m > j
  BY <1>3
<1>5. stream[m] = "fill" /\ m \in DOMAIN stream /\ m > 1
  BY <1>3, <1>4, StreamForm
<1>6. stream[m - 1] \in {"fill", "EOF"}
  BY <1>5, StreamForm
<1>7. stream[m - 1] = "fill"
  BY <1>3, <1>4, <1>6
<1>8. m - 1 \in Fills
  BY <1>3, <1>4, <1>7
<1>. QED  BY <1>2, <1>3, <1>8

NoBof(n) == \A p \in 1 .. n : Byte(p) # "BOF"

(* If there is no BOF before the first block, and a BOF in it and an EOT   *)
(* are found, then what is taken of the blocks is the data of the stream.  *)
LEMMA DecodedIsData ==
  ASSUME stream \in Streams, first \in Nat, num_blocks \in Nat, NoBof(first),
         Taken # {} \/ (Begins # {} /\ EndOf(Min(Begins)) # {})
  PROVE  {first + k : k \in Taken} = DataAt
<1>0. SPI_BLOCK_SIZE \in Nat \ {0} /\ num_blocks * SPI_BLOCK_SIZE \in Nat
  BY CaptureAssumption DEF CaptureAssumption
<1> DEFINE size == num_blocks * SPI_BLOCK_SIZE
           b == Min(Begins)
           e == Min(EndOf(b))
<1>1. Begins # {} /\ EndOf(b) # {}
  BY DEF Taken
<1>2. Received = 1 .. size
  BY DEF Received
<1>3. size \in Nat
  BY <1>0
<1> HIDE DEF size
<1>4. Begins \in SUBSET Nat /\ EndOf(b) \in SUBSET Nat
  BY <1>2, <1>3 DEF Begins, EndOf
<1>5. b \in Begins /\ \A k \in Begins : b <= k
  BY <1>1, <1>4, MinIsLeast
<1>6. e \in EndOf(b)
  BY <1>1, <1>4, MinIsLeast
<1>7. Taken = {k \in b + 1 .. e - 1 : Raw(k) \notin Codes /\ On(b, k)}
  BY <1>1 DEF Taken
<1> HIDE DEF b, e
<1>8. b \in Nat /\ b >= 1 /\ b <= SPI_BLOCK_SIZE /\ b <= size /\ Byte(first + b) = "BOF"
  BY <1>0, <1>2, <1>3, <1>5 DEF Begins, FirstBlock, Raw
<1>9. e \in Nat /\ e > b /\ Byte(first + e) = "EOT"
  BY <1>2, <1>3, <1>6 DEF EndOf, Raw
<1>10. first + e = Len(stream)
  <2>1. first + e <= Len(stream) /\ stream[first + e] = "EOT"
    BY <1>9 DEF Byte
  <2>2. first + e \in DOMAIN stream
    BY <1>8, <1>9, <2>1, StreamForm
  <2>. QED  BY <2>1, <2>2, StreamForm
<1>11. ASSUME NEW k \in Nat, k >= 1, k < b
       PROVE  Byte(first + k) # "BOF"
  <2>1. k \in FirstBlock \cap Received
    BY <1>0, <1>2, <1>3, <1>8, <1>11 DEF FirstBlock
  <2>2. k \notin Begins
    BY <1>5, <1>8, <1>11
  <2>. QED  BY <2>1, <2>2 DEF Begins, Raw
<1>12. ASSUME NEW p \in DataAt
       PROVE  \E k \in Taken : p = first + k
  <2>1. p \in 1 .. Len(stream) /\ Len(stream) \in Nat /\ stream[p] = "data"
    BY <1>12, StreamForm DEF DataAt
  <2>2. PICK q \in 1 .. p - 1 :
          stream[q] = "BOF" /\ \A r \in q + 1 .. p : stream[r] = "data"
    BY <2>1, StreamForm
  <2>3. q \in Nat /\ q > first /\ q < p
    BY <2>1, <2>2 DEF NoBof, Byte
  <2>4. q - first >= b
    <3>1. q - first \in Nat /\ q - first >= 1 /\ first + (q - first) = q
      BY <2>3
    <3>2. Byte(first + (q - first)) = "BOF"
      BY <2>1, <2>2, <2>3, <3>1 DEF Byte
    <3>. QED  BY <1>8, <1>11, <3>1, <3>2
  <2>5. p < Len(stream)
    BY <2>1, StreamForm
  <2>6. p - first \in b + 1 .. e - 1
    BY <1>8, <1>9, <1>10, <2>1, <2>3, <2>4, <2>5
  <2>7. Raw(p - first) = "data"
    BY <2>1 DEF Raw, Byte
  <2>8. On(b, p - first)
    <3>1. q - first \in b .. p - first - 1
      BY <1>8, <2>1, <2>3, <2>4
    <3>2. Raw(q - first) = "BOF"
      BY <2>1, <2>2, <2>3 DEF Raw, Byte
    <3>3. ASSUME NEW m \in q - first .. p - first - 1
          PROVE  Raw(m) # "EOF"
      <4>1. first + m \in q .. p - 1
        BY <2>1, <2>3
      <4>2. Raw(m) = stream[first + m]
        BY <2>1, <2>3, <4>1 DEF Raw, Byte
      <4>3. stream[first + m] \in {"BOF", "data"}
        BY <2>1, <2>2, <2>3, <4>1
      <4>. QED  BY <4>2, <4>3
    <3>. QED  BY <3>1, <3>2, <3>3 DEF On
  <2>. QED  BY <1>7, <2>1, <2>6, <2>7, <2>8 DEF Codes
<1>13. ASSUME NEW k \in Taken
       PROVE  first + k \in DataAt
  <2>1. k \in b + 1 .. e - 1 /\ Raw(k) \notin Codes /\ On(b, k)
    BY <1>7
  <2>2. k \in Nat /\ first + k \in 1 .. Len(stream) /\ Raw(k) = stream[first + k]
    BY <1>8, <1>9, <1>10, <2>1, StreamForm DEF Raw, Byte
  <2>3. stream[first + k] \in {"data", "fill"}
    BY <2>1, <2>2, StreamForm DEF Codes, Codes5
  <2>4. PICK j \in b .. k - 1 : Raw(j) = "BOF" /\ \A m \in j .. k - 1 : Raw(m) # "EOF"
    BY <2>1 DEF On
  <2>5. j \in Nat /\ first + j >= 1 /\ first + j < first + k /\ first + j \in Nat
    BY <1>8, <2>2, <2>4
  <2>6. stream[first + j] = "BOF"
    BY <2>2, <2>4, <2>5, StreamForm DEF Raw, Byte
  <2>7. ASSUME NEW m \in first + j .. first + k - 1
        PROVE  stream[m] # "EOF"
    <3>1. m - first \in j .. k - 1 /\ first + (m - first) = m /\ m <= Len(stream)
      BY <2>2, <2>5, StreamForm
    <3>. QED  BY <2>4, <3>1 DEF Raw, Byte
  <2>8. stream[first + k] # "fill"
    BY <2>2, <2>5, <2>6, <2>7, NoFillInFrame
  <2>. QED  BY <2>2, <2>3, <2>8, StreamForm DEF DataAt
<1>. QED  BY <1>12, <1>13

(***************************************************************************)
(* The invariant of reading and saving.                                    *)
(***************************************************************************)
(* The rest of the types. *)
Files == [name : Nat \X Side, place : Nat \X Side, exact : BOOLEAN, cut : BOOLEAN]

Rest ==
  /\ tries \in Nat /\ error \in -3 .. 0 /\ first \in Nat /\ num_blocks \in 0 .. MaxBlocks
  /\ files \in Seq(Files)
  /\ reported \in BOOLEAN /\ answer \in Answers \cup {"none"} /\ sampled \in Nat \X Side

(* The codes of the first block, and of those after it. *)
BeginFound == \E k \in FirstBlock : Byte(first + k) = "BOF"
EndFound ==
  \E p \in first + SPI_BLOCK_SIZE + 1 .. first + num_blocks * SPI_BLOCK_SIZE :
    Byte(p) = "EOT"

Asking(name) == line = name /\ pc \in {"tx", "rx"}

(* There is a track in the blocks, or there was an error the host of one   *)
(* track does not look at.                                                 *)
Fetched == \/ pc \in {"decode", "write"}
           \/ Asking("status")
           \/ config.cmd = "read_trk" /\ Asking("stop")

(* Where the host is in the stream, and what it has passed. *)
Fetching ==
  /\ pc \in {"track", "bof", "blocks"} => line \in {"start", "next"} /\ config.cmd # "exec"
  /\ config.cmd = "read_trk" /\ (Asking("start") \/ pc = "track") => first = 0
  /\ pc = "bof" =>
       /\ stream \in Streams /\ num_blocks = 1
       /\ at = tries * SPI_BLOCK_SIZE /\ NoBof(at)
       /\ tries = 0 /\ config.cmd = "read_trk" => first = 0
       /\ tries > 0 => first + SPI_BLOCK_SIZE = at
  /\ pc = "blocks" =>
       /\ stream \in Streams /\ num_blocks >= 1
       /\ at = first + num_blocks * SPI_BLOCK_SIZE
       /\ NoBof(first) /\ BeginFound /\ ~EndFound
  /\ Fetched => stream \in Streams /\ NoBof(first)
  /\ pc = "decode" /\ config.cmd = "read_dsk" => num_blocks >= 1 /\ BeginFound /\ EndFound
  /\ Asking("status") \/ pc = "write" => Taken # {}

(* The host is at track i, which is not yet saved. *)
AtTrack == pc \in {"track", "bof", "blocks", "decode", "write"} \/ Asking("status")

(* The locals follow the places. *)
Located == <<t, side>> = Place(i)

(* What a file of it may be: the disk of the host may cut any. *)
Whole(k) ==
  [name : {Place(k)}, place : {Place(k)}, exact : {TRUE}, cut : BOOLEAN]

(* The files so far, and the track the host is at. *)
Saving ==
  /\ pc = "write" => line = "status"
  /\ pc = "decode" => (line = "stop" <=> config.cmd = "read_trk")
  /\ pc \in {"bof", "blocks"} \/ Fetched => sampled = <<t, side>>
  /\ \A k \in DOMAIN files : files[k] \in Whole(k - 1)
  /\ reported => pc = "done"
  /\ config.cmd = "exec" => files = <<>>
  /\ config.cmd = "read_trk" => i = 0 /\ (pc # "done" => files = <<>>)
  /\ config.cmd = "read_dsk" =>
       /\ Asking("start") => files = <<>> /\ error = 0
       /\ AtTrack => Len(files) = i /\ i < NumTracks /\ error = 0
       /\ Asking("next") => Len(files) = i + 1 /\ i + 1 < NumTracks /\ error = 0
       /\ Asking("stop") /\ error = 0 => Len(files) = NumTracks

FileInv == IInv /\ Rest /\ Fetching /\ Located /\ Saving

LEMMA TracksCounted ==
  ASSUME Types
  PROVE  NumTracks \in Nat \ {0}
BY CaptureAssumption DEF CaptureAssumption, Types, NumTracks

LEMMA PlaceNext ==
  ASSUME Types
  PROVE  /\ Place(0) = <<config.begin_track, FirstSide(config)>>
         /\ \A n \in Nat :
              /\ Place(n) \in Nat \X Side
              /\ Place(n + 1) =
                   << IF config.sides # "a" \/ Place(n)[2] = 1 THEN Place(n)[1] + 1
                                                               ELSE Place(n)[1],
                      IF config.sides = "a" THEN 1 - Place(n)[2] ELSE Place(n)[2] >>
<1>1. /\ config.begin_track \in Nat /\ FirstSide(config) \in Side
      /\ config.sides = "a" => FirstSide(config) = 0
  BY ConfigFacts DEF Types
<1>2. CASE config.sides = "a"
  <2>1. \A n \in Nat : /\ Place(n) = <<config.begin_track + n \div 2, n % 2>>
                       /\ Place(n + 1) = <<config.begin_track + (n + 1) \div 2, (n + 1) % 2>>
    BY <1>2 DEF Place
  <2>2. \A n \in Nat : /\ n % 2 \in {0, 1} /\ n \div 2 \in Nat
                       /\ n % 2 = 0 => (n + 1) % 2 = 1 /\ (n + 1) \div 2 = n \div 2
                       /\ n % 2 = 1 => (n + 1) % 2 = 0 /\ (n + 1) \div 2 = (n \div 2) + 1
    OBVIOUS
  <2>3. Place(0) = <<config.begin_track, FirstSide(config)>>
    BY <1>1, <1>2 DEF Place
  <2>4. ASSUME NEW n \in Nat
        PROVE  /\ Place(n) \in Nat \X Side
               /\ Place(n + 1) =
                   << IF config.sides # "a" \/ Place(n)[2] = 1 THEN Place(n)[1] + 1
                                                               ELSE Place(n)[1],
                      IF config.sides = "a" THEN 1 - Place(n)[2] ELSE Place(n)[2] >>
    <3> DEFINE b == config.begin_track
               h == n \div 2
    <3>0. b \in Nat /\ h \in Nat
      BY <1>1, <2>2
    <3>1. CASE n % 2 = 0
      <4>1. Place(n) = <<b + h, 0>> /\ Place(n + 1) = <<b + h, 1>>
        BY <2>1, <2>2, <3>1
      <4> HIDE DEF b, h
      <4>. QED  BY <1>2, <3>0, <4>1 DEF Side
    <3>2. CASE n % 2 = 1
      <4>1. Place(n) = <<b + h, 1>> /\ Place(n + 1) = <<b + (h + 1), 0>>
        BY <2>1, <2>2, <3>2
      <4> HIDE DEF b, h
      <4>2. b + (h + 1) = (b + h) + 1 /\ b + h \in Nat
        BY <3>0
      <4>. QED  BY <1>2, <3>0, <4>1, <4>2 DEF Side
    <3>. QED  BY <2>2, <3>1, <3>2
  <2>. QED  BY <2>3, <2>4
<1>3. CASE config.sides # "a"
  BY <1>1, <1>3 DEF Place
<1>. QED  BY <1>2, <1>3

(* The end of a line. *)
LEMMA LineOverSaves ==
  ASSUME FileInv, NEW result, LineOver(result), pc \in {"tx", "rx"},
         UNCHANGED <<config, first, num_blocks, files, sampled, stream>>
  PROVE  /\ tries' \in Nat /\ error' \in -3 .. 0 /\ reported' \in BOOLEAN
         /\ Fetching' /\ Located' /\ Saving'
<1> USE DEF FileInv, Goto, Send, Stay
<1>1. /\ config \in Configs /\ config.cmd \in {"read_dsk", "read_trk", "exec"}
      /\ i \in Nat /\ Len(files) \in Nat /\ NumTracks \in Nat
  BY ConfigFacts, TracksCounted DEF IInv, Types, Rest
<1>2. tries' \in Nat /\ error' \in -3 .. 0
  BY DEF LineOver, Rest
<1>3. reported' \in BOOLEAN
  <2>1. reported' = reported \/ reported' = (Succeeded(result) /\ error = 0)
    BY DEF LineOver
  <2>. QED  BY <2>1, Zenon DEF Rest
<1>4. Taken' = Taken /\ (\A n : NoBof(n) => NoBof(n)') /\ NumTracks' = NumTracks
      /\ \A n : Place(n)' = Place(n) /\ Whole(n)' = Whole(n)
  BY DEF Taken, Begins, EndOf, Received, Raw, Byte, On, NoBof, NumTracks, Place, Whole
<1> HIDE DEF Goto, Send, Stay
<1>5. CASE line \in {"exec", "start"}
  <2>1. /\ UNCHANGED <<line, i, t, side, error, reported>>
        /\ line = "exec" => pc' = "done"
        /\ line = "start" => pc' \in {"track", "done"}
    BY <1>5 DEF LineOver, Goto, Stay
  <2>2. Fetching'
    BY <1>4, <1>5, <2>1 DEF Fetching, Fetched, Asking, IInv, LinesFit
  <2>3. AtTrack' /\ config.cmd = "read_dsk" => /\ i = 0 /\ files = <<>> /\ Len(files) = i
                                             /\ i < NumTracks /\ error = 0
    BY <1>5, <2>1, TracksCounted DEF AtTrack, Asking, IInv, Locals, Saving
  <2>4. Saving'
    <3>1. /\ pc' \notin {"write", "decode", "bof", "blocks"} /\ ~Fetched'
          /\ ~Asking("start")' /\ ~Asking("next")' /\ ~Asking("stop")'
      BY <1>5, <2>1 DEF Fetched, Asking
    <3>2. \A k \in DOMAIN files' : files'[k] \in Whole(k - 1)'
      BY <1>4 DEF Saving
    <3>3. reported' => pc' = "done"
      BY <1>5, <2>1 DEF Saving, IInv, LinesFit
    <3>. QED  BY <1>4, <1>5, <2>1, <2>3, <3>1, <3>2, <3>3 DEF Saving
  <2>5. Located'
    BY <2>1 DEF Located, Place
  <2>. QED  BY <1>2, <1>3, <2>2, <2>4, <2>5
<1>6. CASE line = "next"
  <2>1. /\ i' = i + 1 /\ UNCHANGED reported /\ config.cmd = "read_dsk"
        /\ side' = IF config.sides = "a" THEN 1 - side ELSE side
        /\ t' = IF config.sides # "a" \/ side = 1 THEN t + 1 ELSE t
        /\ \/ pc' = "track" /\ line' = "next" /\ error' = error
           \/ pc' = "tx" /\ line' = "stop" /\ error' = -1
    BY <1>6 DEF LineOver, Goto, Send, NextTrack, IInv, LinesFit
  <2>2. Fetching'
    BY <1>4, <1>6, <2>1 DEF Fetching, Fetched, Asking
  <2>3. Located'
    <3>1. Place(i)[1] = t /\ Place(i)[2] = side
      BY DEF Located
    <3>2. <<t', side'>> = Place(i + 1)
      BY <1>1, <2>1, <3>1, PlaceNext DEF IInv
    <3>. QED  BY <2>1, <3>2 DEF Located, Place
  <2>4. Saving'
    BY <1>1, <1>4, <1>6, <2>1 DEF Saving, Fetched, Asking, AtTrack
  <2>. QED  BY <1>2, <1>3, <2>2, <2>3, <2>4
<1>7. CASE line = "status"
  <2>1. /\ UNCHANGED <<i, t, side, reported>>
        /\ \/ pc' = "write" /\ line' = line /\ error' = error
           \/ pc' = "tx" /\ line' = "stop" /\ error' = -3 /\ config.cmd = "read_dsk"
           \/ pc' = "done" /\ line' = line
    BY <1>7 DEF LineOver, Goto, Send, Stay
  <2>2. Fetching'
    BY <1>4, <1>7, <2>1 DEF Fetching, Fetched, Asking
  <2>3. Saving'
    BY <1>1, <1>4, <1>7, <2>1 DEF Saving, Fetched, Asking, AtTrack
  <2>4. Located'
    BY <2>1 DEF Located, Place
  <2>. QED  BY <1>2, <1>3, <2>2, <2>3, <2>4
<1>8. CASE line = "stop"
  <2>1. /\ UNCHANGED <<line, i, t, side, error>>
        /\ \/ pc' = "decode" /\ reported' = reported /\ config.cmd = "read_trk"
           \/ pc' = "done"
    BY <1>8 DEF LineOver, Goto, Stay
  <2>2. Fetching'
    BY <1>4, <1>8, <2>1 DEF Fetching, Fetched, Asking
  <2>3. Saving'
    BY <1>1, <1>4, <1>8, <2>1 DEF Saving, Fetched, Asking, AtTrack
  <2>4. Located'
    BY <2>1 DEF Located, Place
  <2>. QED  BY <1>2, <1>3, <2>2, <2>3, <2>4
<1>. QED  BY <1>5, <1>6, <1>7, <1>8 DEF IInv, Types


(* A step that leaves the track, the files and the host's place alone.     *)
LEMMA QuietStep ==
  ASSUME FileInv,
         UNCHANGED <<config, line, i, t, side, error, first, num_blocks, files, reported,
                     sampled, stream>>,
         pc' = pc \/ (pc = "tx" /\ pc' = "rx"),
         pc \in {"tx", "rx"} \/ UNCHANGED <<tries, at>>,
         tries' \in Nat, answer' \in Answers \cup {"none"}
  PROVE  Rest' /\ Fetching' /\ Located' /\ Saving'
<1> USE DEF FileInv
<1>1. Taken' = Taken /\ (\A n : NoBof(n) => NoBof(n)') /\ NumTracks' = NumTracks
      /\ (\A n : Whole(n)' = Whole(n)) /\ BeginFound' = BeginFound /\ EndFound' = EndFound
  BY DEF Taken, Begins, EndOf, Received, Raw, Byte, On, NoBof, NumTracks, Place, Whole,
         BeginFound, EndFound
<1>2. Rest'
  BY DEF Rest
<1>3. /\ \A name : Asking(name)' = Asking(name)
      /\ Fetched' = Fetched /\ AtTrack' = AtTrack
      /\ \A p \in {"track", "bof", "blocks", "decode", "write", "done"} : pc' = p <=> pc = p
  BY DEF Asking, Fetched, AtTrack
<1>4. Fetching'
  <2>1. pc \in {"bof", "blocks"} => UNCHANGED <<tries, at>>
    OBVIOUS
  <2>2. pc = "bof" => NoBof(at)'
    <3>1. pc = "bof" => at' = at /\ NoBof(at)
      BY <2>1 DEF Fetching
    <3>. QED  BY <3>1 DEF NoBof, Byte
  <2>3. NoBof(first) => NoBof(first)'
    BY DEF NoBof, Byte
  <2>. QED  BY <1>1, <1>3, <2>1, <2>2, <2>3 DEF Fetching
<1>5. Located'
  BY DEF Located, Place
<1>6. Saving'
  BY <1>1, <1>3 DEF Saving
<1>. QED  BY <1>2, <1>4, <1>5, <1>6

LEMMA NotReadyFiles ==
  ASSUME FileInv, NotReady, pc \in {"tx", "rx"},
         UNCHANGED <<config, first, num_blocks, files, sampled, stream, answer>>
  PROVE  Rest' /\ Fetching' /\ Located' /\ Saving'
<1>1. CASE LineOver("late")
  <2>1. tries' \in Nat /\ error' \in -3 .. 0 /\ reported' \in BOOLEAN
        /\ Fetching' /\ Located' /\ Saving'
    BY <1>1, LineOverSaves
  <2>. QED  BY <2>1 DEF Rest, FileInv
<1>2. CASE tries' = tries + 1 /\ UNCHANGED <<pc, line, i, t, side, error, reported>>
  <2>1. tries' \in Nat /\ answer' \in Answers \cup {"none"}
    BY <1>2 DEF FileInv, Rest
  <2>. QED  BY <1>2, <2>1, QuietStep
<1>. QED  BY <1>1, <1>2 DEF NotReady

LEMMA TxFiles == FileInv /\ cmd_spi_tx => Rest' /\ Fetching' /\ Located' /\ Saving'
<1> SUFFICES ASSUME FileInv, cmd_spi_tx
             PROVE  Rest' /\ Fetching' /\ Located' /\ Saving'
  OBVIOUS
<1>1. pc = "tx" /\ UNCHANGED <<config, first, num_blocks, files, answer, sampled, stream>>
  BY DEF cmd_spi_tx
<1>2. CASE NotReady
  BY <1>1, <1>2, NotReadyFiles
<1>3. CASE pc' = "rx" /\ tries' = 0 /\ UNCHANGED <<line, i, t, side, error, reported>>
  <2>1. answer' \in Answers \cup {"none"}
    BY <1>1 DEF FileInv, Rest
  <2>. QED  BY <1>1, <1>3, <2>1, QuietStep
<1>. QED  BY <1>2, <1>3 DEF cmd_spi_tx, Goto

LEMMA RxFiles == FileInv /\ cmd_spi_rx => Rest' /\ Fetching' /\ Located' /\ Saving'
<1> SUFFICES ASSUME FileInv, cmd_spi_rx
             PROVE  Rest' /\ Fetching' /\ Located' /\ Saving'
  OBVIOUS
<1>1. pc = "rx" /\ UNCHANGED <<config, first, num_blocks, files, answer, sampled, stream>>
  BY DEF cmd_spi_rx
<1>2. CASE NotReady
  BY <1>1, <1>2, NotReadyFiles
<1>3. CASE \E result : LineOver(result)
  <2>1. PICK result : LineOver(result)
    BY <1>3
  <2>2. tries' \in Nat /\ error' \in -3 .. 0 /\ reported' \in BOOLEAN
        /\ Fetching' /\ Located' /\ Saving'
    BY <1>1, <2>1, LineOverSaves
  <2>. QED  BY <1>1, <2>2 DEF Rest, FileInv
<1>. QED  BY <1>2, <1>3 DEF cmd_spi_rx

LEMMA SamplerFiles ==
  FileInv /\ (SamplerRuns \/ StreamEnds \/ UNCHANGED vars)
    => Rest' /\ Fetching' /\ Located' /\ Saving'
<1> SUFFICES ASSUME FileInv, SamplerRuns \/ StreamEnds \/ UNCHANGED vars
             PROVE  Rest' /\ Fetching' /\ Located' /\ Saving'
  OBVIOUS
<1>1. /\ UNCHANGED <<config, line, i, t, side, error, first, num_blocks, files, reported,
                     sampled, stream, pc, tries, at>>
      /\ answer' \in Answers \/ answer' \in {"none", answer}
  BY DEF SamplerRuns, StreamEnds, vars, host, outside, Answers
<1>2. tries' \in Nat /\ answer' \in Answers \cup {"none"}
  BY <1>1 DEF FileInv, Rest
<1>. QED  BY <1>1, <1>2, QuietStep

LEMMA TrackReadFiles == FileInv /\ TrackRead => Rest' /\ Fetching' /\ Located' /\ Saving'
<1> SUFFICES ASSUME FileInv, TrackRead
             PROVE  Rest' /\ Fetching' /\ Located' /\ Saving'
  OBVIOUS
<1> USE DEF FileInv
<1>1. /\ pc = "track" /\ pc' = "bof" /\ tries' = 0 /\ num_blocks' = 1 /\ at' = 0
      /\ stream' \in Streams /\ sampled' = <<drive.track, drive.side>>
      /\ UNCHANGED <<config, line, i, t, side, error, first, files, reported, answer>>
  BY DEF TrackRead, Goto
<1>2. drive.track = t /\ drive.side = side /\ t \in Nat /\ side \in Side
  BY <1>1 DEF IInv, HeadInStep, Types
<1>3. Rest'
  <2>1. num_blocks' \in 0 .. MaxBlocks
    BY <1>1, CaptureAssumption DEF CaptureAssumption
  <2>2. sampled' \in Nat \X Side
    BY <1>1, <1>2
  <2>. QED  BY <1>1, <2>1, <2>2 DEF Rest
<1>4. NoBof(at)'
  BY <1>1 DEF NoBof
<1>5. /\ \A name : ~Asking(name)' /\ ~Asking(name)
      /\ ~Fetched' /\ AtTrack' /\ AtTrack
  BY <1>1 DEF Asking, Fetched, AtTrack
<1>6. at' = tries' * SPI_BLOCK_SIZE
  BY <1>1, CaptureAssumption DEF CaptureAssumption
<1>7. Fetching'
  BY <1>1, <1>4, <1>5, <1>6 DEF Fetching
<1>8. (\A n : Whole(n)' = Whole(n)) /\ NumTracks' = NumTracks
  BY <1>1 DEF Whole, Place, NumTracks
<1>9. Located'
  BY <1>1 DEF Located, Place
<1>10. Saving'
  BY <1>1, <1>2, <1>5, <1>8 DEF Saving
<1>. QED  BY <1>3, <1>7, <1>9, <1>10

(* The next block. *)
LEMMA BlockAfter ==
  ASSUME NEW n \in Nat
  PROVE  /\ SPI_BLOCK_SIZE \in Nat \ {0} /\ n * SPI_BLOCK_SIZE \in Nat
         /\ (n + 1) * SPI_BLOCK_SIZE = n * SPI_BLOCK_SIZE + SPI_BLOCK_SIZE
         /\ 0 * SPI_BLOCK_SIZE = 0 /\ 1 * SPI_BLOCK_SIZE = SPI_BLOCK_SIZE
         /\ n >= 1 => n * SPI_BLOCK_SIZE >= SPI_BLOCK_SIZE
<1>1. SPI_BLOCK_SIZE \in Nat \ {0}
  BY CaptureAssumption DEF CaptureAssumption
<1>2. n * SPI_BLOCK_SIZE \in Nat
  BY <1>1
<1>3. (n + 1) * SPI_BLOCK_SIZE = n * SPI_BLOCK_SIZE + SPI_BLOCK_SIZE
  BY <1>1
<1>4. n >= 1 => n * SPI_BLOCK_SIZE >= SPI_BLOCK_SIZE
  <2>1. SUFFICES ASSUME n >= 1 PROVE n * SPI_BLOCK_SIZE >= SPI_BLOCK_SIZE
    OBVIOUS
  <2>2. PICK m \in Nat : n = m + 1
    BY <2>1, n - 1 \in Nat
  <2>3. (m + 1) * SPI_BLOCK_SIZE = m * SPI_BLOCK_SIZE + SPI_BLOCK_SIZE
        /\ m * SPI_BLOCK_SIZE \in Nat
    BY <1>1
  <2>. QED  BY <1>1, <2>2, <2>3
<1>. QED  BY <1>1, <1>2, <1>3, <1>4

(* The end of the blocks. *)
LEMMA ReadOverFiles ==
  ASSUME FileInv, NEW result \in {-1, 0}, ReadOver(result), pc \in {"bof", "blocks"},
         UNCHANGED <<config, i, t, side, first, files, reported, answer, sampled, stream>>,
         num_blocks' \in 0 .. MaxBlocks, tries' \in Nat,
         NoBof(first),
         result = 0 => num_blocks' >= 1 /\ BeginFound' /\ EndFound'
  PROVE  Rest' /\ Fetching' /\ Located' /\ Saving'
<1> USE DEF FileInv
<1>1. /\ stream \in Streams /\ config.cmd \in {"read_dsk", "read_trk"}
      /\ line \in {"start", "next"}
  BY ConfigFacts DEF Fetching, IInv, Types
<1>2. /\ error' \in -3 .. 0
      /\ \/ config.cmd = "read_trk" /\ pc' = "tx" /\ line' = "stop"
         \/ /\ config.cmd = "read_dsk" /\ pc' = "tx" /\ line' = "stop"
            /\ result = -1 /\ error' = -1
         \/ /\ config.cmd = "read_dsk" /\ pc' = "decode" /\ line' = line
            /\ result = 0 /\ error' = 0
  BY <1>1 DEF ReadOver, Send, Goto
<1>3. NoBof(first)' /\ (\A n : Whole(n)' = Whole(n)) /\ NumTracks' = NumTracks
  BY DEF NoBof, Byte, Whole, Place, NumTracks
<1>4. Rest'
  BY <1>2 DEF Rest
<1>5. Fetching'
  BY <1>1, <1>2, <1>3 DEF Fetching, Asking, Fetched
<1>6. Located'
  BY DEF Located, Place
<1>7. AtTrack
  BY DEF AtTrack
<1>8. Saving'
  BY <1>1, <1>2, <1>3, <1>7 DEF Saving, Asking, Fetched, AtTrack
<1>. QED  BY <1>4, <1>5, <1>6, <1>8

LEMMA FirstBlockReadFiles ==
  FileInv /\ FirstBlockRead => Rest' /\ Fetching' /\ Located' /\ Saving'
<1> SUFFICES ASSUME FileInv, FirstBlockRead
             PROVE  Rest' /\ Fetching' /\ Located' /\ Saving'
  OBVIOUS
<1>1. /\ pc = "bof"
      /\ UNCHANGED <<config, i, t, side, num_blocks, files, reported, answer, sampled, stream>>
  BY DEF FirstBlockRead
<1>2. /\ stream \in Streams /\ num_blocks = 1 /\ tries \in Nat /\ at \in Nat /\ first \in Nat
      /\ at = tries * SPI_BLOCK_SIZE /\ NoBof(at) /\ config.cmd # "exec"
      /\ tries = 0 /\ config.cmd = "read_trk" => first = 0
      /\ tries > 0 => first + SPI_BLOCK_SIZE = at
      /\ num_blocks \in 0 .. MaxBlocks
  BY <1>1 DEF FileInv, Fetching, Rest, IInv, Types
<1>3. SPI_BLOCK_SIZE \in Nat \ {0} /\ 1 * SPI_BLOCK_SIZE = SPI_BLOCK_SIZE
      /\ (tries + 1) * SPI_BLOCK_SIZE = at + SPI_BLOCK_SIZE
  BY <1>2, BlockAfter
<1>4. \A name : ~Asking(name)
  BY <1>1 DEF Asking
<1>5. CASE ReadOver(-1) /\ UNCHANGED <<first, at>>
  <2>1. CASE config.cmd = "read_trk" \/ tries > 0
    <3>1. NoBof(first)
      <4>1. first = 0 \/ first <= at
        BY <1>2, <1>3, <2>1
      <4>. QED  BY <1>2, <4>1 DEF NoBof
    <3>2. tries' \in Nat
      BY <1>5 DEF ReadOver, Send, Goto
    <3>. QED  BY <1>1, <1>2, <1>5, <3>1, <3>2, ReadOverFiles
  <2>2. CASE config.cmd # "read_trk"
    <3>1. /\ pc' = "tx" /\ line' = "stop" /\ error' = -1 /\ tries' = 0
          /\ config.cmd = "read_dsk"
      BY <1>2, <1>5, <2>2, ConfigFacts DEF ReadOver, Send, Goto, FileInv, IInv, Types
    <3>2. (\A n : Whole(n)' = Whole(n)) /\ NumTracks' = NumTracks
      BY <1>1 DEF Whole, Place, NumTracks
    <3>3. Rest'
      BY <1>1, <1>5, <3>1 DEF Rest, FileInv
    <3>4. Fetching'
      BY <1>1, <3>1 DEF Fetching, Asking, Fetched
    <3>5. Located'
      BY <1>1 DEF Located, Place, FileInv
    <3>6. Saving'
      BY <1>1, <3>1, <3>2 DEF Saving, Asking, Fetched, AtTrack, FileInv
    <3>. QED  BY <3>3, <3>4, <3>5, <3>6
  <2>. QED  BY <2>1, <2>2
<1>6. ASSUME first' = at, at' = at + SPI_BLOCK_SIZE,
             \/ /\ \E k \in FirstBlock : Byte(at + k) = "BOF"
                /\ pc' = "blocks" /\ tries' = 0 /\ UNCHANGED <<line, error>>
             \/ /\ ~ \E k \in FirstBlock : Byte(at + k) = "BOF"
                /\ tries' = tries + 1 /\ UNCHANGED <<pc, line, error>>
      PROVE  Rest' /\ Fetching' /\ Located' /\ Saving'
  <2>1. (\A n : Whole(n)' = Whole(n)) /\ NumTracks' = NumTracks
        /\ (\A p : Byte(p)' = Byte(p))
    BY <1>1 DEF Whole, Place, NumTracks, Byte
  <2>2. Rest'
    BY <1>1, <1>2, <1>6 DEF Rest, FileInv
  <2>3. /\ pc' \in {"bof", "blocks"} /\ line' = line
        /\ (\A name : ~Asking(name)') /\ ~Fetched' /\ AtTrack' /\ AtTrack
    BY <1>1, <1>6 DEF Asking, Fetched, AtTrack
  <2>4. pc' = "blocks" =>
          /\ at' = first' + num_blocks' * SPI_BLOCK_SIZE
          /\ NoBof(first)' /\ BeginFound' /\ ~EndFound'
    <3>1. SUFFICES ASSUME pc' = "blocks"
                   PROVE  /\ at' = first' + num_blocks' * SPI_BLOCK_SIZE
                          /\ NoBof(first)' /\ BeginFound' /\ ~EndFound'
      OBVIOUS
    <3>2. NoBof(first)'
      BY <1>2, <1>6, <2>1 DEF NoBof
    <3>3. BeginFound'
      BY <1>1, <1>6, <2>1, <3>1 DEF BeginFound, FirstBlock
    <3>4. ~EndFound'
      <4>1. num_blocks' * SPI_BLOCK_SIZE = SPI_BLOCK_SIZE
        BY <1>1, <1>2, <1>3
      <4>. QED  BY <1>2, <1>3, <1>6, <4>1 DEF EndFound
    <3>5. at' = first' + num_blocks' * SPI_BLOCK_SIZE
      BY <1>1, <1>2, <1>3, <1>6
    <3>. QED  BY <3>2, <3>3, <3>4, <3>5
  <2>5. pc' = "bof" =>
          /\ at' = tries' * SPI_BLOCK_SIZE /\ NoBof(at)'
          /\ tries' > 0 /\ first' + SPI_BLOCK_SIZE = at'
    <3>1. SUFFICES ASSUME pc' = "bof"
                   PROVE  /\ at' = tries' * SPI_BLOCK_SIZE /\ NoBof(at)'
                          /\ tries' > 0 /\ first' + SPI_BLOCK_SIZE = at'
      OBVIOUS
    <3>2. ~ (\E k \in FirstBlock : Byte(at + k) = "BOF") /\ tries' = tries + 1
      BY <1>6, <3>1
    <3>3. ASSUME NEW p \in 1 .. at + SPI_BLOCK_SIZE  PROVE Byte(p) # "BOF"
      <4>1. CASE p <= at
        BY <1>2, <1>3, <4>1 DEF NoBof
      <4>2. CASE p > at
        <5>1. p - at \in FirstBlock /\ at + (p - at) = p
          BY <1>2, <1>3, <4>2 DEF FirstBlock
        <5>. QED  BY <3>2, <5>1
      <4>. QED  BY <1>2, <1>3, <4>1, <4>2
    <3>4. NoBof(at)'
      BY <1>6, <2>1, <3>3 DEF NoBof
    <3>5. at' = tries' * SPI_BLOCK_SIZE
      BY <1>3, <1>6, <3>2
    <3>. QED  BY <1>2, <1>6, <3>2, <3>4, <3>5
  <2>6. Fetching'
    <3>1. line \in {"start", "next"} /\ num_blocks' = 1 /\ stream' \in Streams
      BY <1>1, <1>2 DEF FileInv, Fetching
    <3>. QED  BY <1>1, <1>2, <2>3, <2>4, <2>5, <3>1 DEF Fetching
  <2>7. Located'
    BY <1>1 DEF Located, Place, FileInv
  <2>8. Saving'
    BY <1>1, <1>6, <2>1, <2>3 DEF Saving, FileInv
  <2>. QED  BY <2>2, <2>6, <2>7, <2>8
<1>. QED
  BY <1>5, <1>6 DEF FirstBlockRead, Goto

LEMMA BlockReadFiles == FileInv /\ BlockRead => Rest' /\ Fetching' /\ Located' /\ Saving'
<1> SUFFICES ASSUME FileInv, BlockRead
             PROVE  Rest' /\ Fetching' /\ Located' /\ Saving'
  OBVIOUS
<1>1. /\ pc = "blocks"
      /\ UNCHANGED <<config, i, t, side, first, files, reported, answer, sampled, stream>>
  BY DEF BlockRead
<1>2. /\ stream \in Streams /\ num_blocks \in 1 .. MaxBlocks /\ tries \in Nat /\ at \in Nat
      /\ first \in Nat /\ MaxBlocks \in Nat
      /\ at = first + num_blocks * SPI_BLOCK_SIZE
      /\ NoBof(first) /\ BeginFound /\ ~EndFound
  BY <1>1, CaptureAssumption DEF CaptureAssumption, FileInv, Fetching, Rest, IInv, Types
<1> DEFINE size == num_blocks * SPI_BLOCK_SIZE
           B == SPI_BLOCK_SIZE
<1>3. /\ B \in Nat \ {0} /\ size \in Nat /\ size >= B /\ at = first + size
      /\ (num_blocks + 1) * B = size + B
  BY <1>2, BlockAfter
<1>4. /\ (\A p : Byte(p)' = Byte(p)) /\ BeginFound'
  BY <1>1, <1>2 DEF Byte, BeginFound
<1>5. CASE ReadOver(-1) /\ UNCHANGED num_blocks
  <2>1. tries' \in Nat /\ num_blocks' \in 0 .. MaxBlocks
    BY <1>2, <1>5 DEF ReadOver, Send, Goto
  <2>. QED  BY <1>1, <1>2, <1>5, <2>1, ReadOverFiles
<1>6. CASE /\ num_blocks # MaxBlocks /\ num_blocks' = num_blocks + 1
           /\ \E k \in FirstBlock : Byte(at + k) = "EOT"
           /\ ReadOver(0)
  <2>1. tries' \in Nat /\ num_blocks' \in 0 .. MaxBlocks /\ num_blocks' >= 1
    BY <1>2, <1>6 DEF ReadOver, Send, Goto
  <2>2. PICK k \in FirstBlock : Byte(at + k) = "EOT"
    BY <1>6
  <2>3. EndFound'
    <3>1. num_blocks' * B = size + B
      BY <1>3, <1>6
    <3> HIDE DEF size
    <3>2. at + k \in first + B + 1 .. first + (size + B)
      BY <1>2, <1>3, <2>2 DEF FirstBlock
    <3>3. first' = first
      BY <1>1
    <3>. QED  BY <1>4, <2>2, <3>1, <3>2, <3>3 DEF EndFound
  <2>. QED  BY <1>1, <1>2, <1>4, <1>6, <2>1, <2>3, ReadOverFiles
<1>7. CASE /\ num_blocks # MaxBlocks /\ num_blocks' = num_blocks + 1 /\ at' = at + B
           /\ ~ \E k \in FirstBlock : Byte(at + k) = "EOT"
           /\ UNCHANGED <<pc, tries, line, error>>
  <2>1. (\A n : Whole(n)' = Whole(n)) /\ NumTracks' = NumTracks
    BY <1>1 DEF Whole, Place, NumTracks
  <2>2. num_blocks' \in 1 .. MaxBlocks
    BY <1>2, <1>7
  <2>3. Rest'
    BY <1>1, <1>7, <2>2 DEF Rest, FileInv
  <2>4. num_blocks' * B = size + B
    BY <1>3, <1>7
  <2>5. at' = first' + num_blocks' * SPI_BLOCK_SIZE
    <3>1. at' = first + (size + B)
      <4> HIDE DEF size
      <4>. QED  BY <1>2, <1>3, <1>7
    <3>. QED  BY <1>1, <2>4, <3>1
  <2>6. ~EndFound'
    <3>1. SUFFICES ASSUME NEW p \in first + B + 1 .. first + (size + B), Byte(p) = "EOT"
                   PROVE  FALSE
      BY <1>1, <1>4, <2>4 DEF EndFound
    <3>2. ~ \E q \in first + B + 1 .. first + size : Byte(q) = "EOT"
      BY <1>2 DEF EndFound
    <3> HIDE DEF size
    <3>3. p > first + size
      BY <1>2, <1>3, <3>1, <3>2
    <3>4. p - at \in FirstBlock /\ at + (p - at) = p
      BY <1>2, <1>3, <3>3 DEF FirstBlock
    <3>. QED  BY <1>7, <3>1, <3>4
  <2>7. NoBof(first)'
    BY <1>1, <1>2, <1>4 DEF NoBof
  <2>8. /\ (\A name : ~Asking(name)') /\ ~Fetched' /\ AtTrack' /\ AtTrack
    BY <1>1, <1>7 DEF Asking, Fetched, AtTrack
  <2>9. Fetching'
    <3>1. line \in {"start", "next"} /\ config.cmd # "exec" /\ num_blocks' >= 1
          /\ pc' = "blocks"
      BY <1>1, <1>7, <2>2 DEF FileInv, Fetching
    <3>. QED  BY <1>1, <1>2, <1>4, <1>7, <2>5, <2>6, <2>7, <2>8, <3>1 DEF Fetching
  <2>10. Located'
    BY <1>1 DEF Located, Place, FileInv
  <2>11. Saving'
    BY <1>1, <1>7, <2>1, <2>8 DEF Saving, FileInv
  <2>. QED  BY <2>3, <2>9, <2>10, <2>11
<1>. QED  BY <1>1, <1>5, <1>6, <1>7 DEF BlockRead, OutOfBlocks

LEMMA DecodeFiles == FileInv /\ Decode => Rest' /\ Fetching' /\ Located' /\ Saving'
<1> SUFFICES ASSUME FileInv, Decode
             PROVE  Rest' /\ Fetching' /\ Located' /\ Saving'
  OBVIOUS
<1> USE DEF FileInv
<1>1. /\ pc = "decode" /\ line \in {"start", "next", "status", "stop", "exec"}
      /\ UNCHANGED <<config, i, t, side, first, num_blocks, files, reported, answer, sampled,
                     stream, at>>
  BY DEF Decode, outside, IInv, Types
<1>2. /\ config.cmd \in {"read_dsk", "read_trk"} /\ stream \in Streams /\ NoBof(first)
  BY <1>1, ConfigFacts DEF Fetching, Fetched, IInv, Types, LinesFit
<1>3. /\ Taken' = Taken /\ NoBof(first)' /\ (\A n : Whole(n)' = Whole(n))
      /\ NumTracks' = NumTracks
  BY <1>1, <1>2 DEF Taken, Begins, EndOf, Received, Raw, Byte, On, NoBof, NumTracks, Place, Whole
<1>4. /\ \/ pc' = "tx" /\ tries' = 0 /\ line' = "status" /\ error' = error /\ Taken # {}
         \/ pc' = "done" /\ tries' = 0 /\ line' = line /\ error' = error
         \/ /\ pc' = "tx" /\ tries' = 0 /\ line' = "stop" /\ error' = -2
            /\ config.cmd # "read_trk"
  BY DEF Decode, Send, Goto
<1>5. Rest'
  BY <1>1, <1>4 DEF Rest
<1>6. Fetching'
  BY <1>1, <1>2, <1>3, <1>4 DEF Fetching, Asking, Fetched
<1>7. Located'
  BY <1>1 DEF Located, Place
<1>8. AtTrack /\ Fetched
  BY <1>1 DEF AtTrack, Fetched
<1>9. Saving'
  BY <1>1, <1>2, <1>3, <1>4, <1>8 DEF Saving, Asking, Fetched, AtTrack
<1>. QED  BY <1>5, <1>6, <1>7, <1>9

(* The track that is written is the one the host is at, and whole. *)
LEMMA SavedWhole ==
  ASSUME FileInv, pc = "write", SaveFile, UNCHANGED config
  PROVE  /\ \E file \in Whole(i) : files' = Append(files, file)
         /\ <<t, side>> = Place(i) /\ t \in Nat /\ side \in Side
<1>1. <<t, side>> = Place(i) /\ sampled = <<t, side>> /\ t \in Nat /\ side \in Side
  BY DEF FileInv, Located, Saving, Fetched, IInv, Types
<1>2. {first + k : k \in Taken} = DataAt
  <2>1. stream \in Streams /\ NoBof(first) /\ Taken # {} /\ first \in Nat /\ num_blocks \in Nat
    BY CaptureAssumption DEF CaptureAssumption, FileInv, Fetching, Fetched, Rest
  <2>. QED  BY <2>1, DecodedIsData
<1>3. PICK cut \in BOOLEAN :
        files' = Append(files, [name |-> <<t, side>>, place |-> sampled, exact |-> TRUE,
                                cut |-> cut])
  BY <1>2 DEF SaveFile
<1>. QED  BY <1>1, <1>3 DEF Whole

LEMMA WriteFileFiles == FileInv /\ WriteFile => Rest' /\ Fetching' /\ Located' /\ Saving'
<1> SUFFICES ASSUME FileInv, WriteFile
             PROVE  Rest' /\ Fetching' /\ Located' /\ Saving'
  OBVIOUS
<1> USE DEF FileInv
<1>1. /\ pc = "write" /\ line = "status"
      /\ UNCHANGED <<config, i, t, side, first, num_blocks, reported, answer, sampled, stream,
                     at>>
  BY DEF WriteFile, outside, Saving
<1>2. /\ config.cmd \in {"read_dsk", "read_trk"} /\ stream \in Streams /\ NoBof(first)
      /\ i \in Nat /\ Len(files) \in Nat /\ NumTracks \in Nat
  BY <1>1, ConfigFacts, TracksCounted DEF Fetching, Fetched, IInv, Types, LinesFit, Rest
<1>3. /\ NoBof(first)' /\ (\A n : Whole(n)' = Whole(n)) /\ NumTracks' = NumTracks
  BY <1>1, <1>2 DEF Byte, NoBof, NumTracks, Place, Whole
<1>4. Located'
  BY <1>1 DEF Located, Place
<1>5. config.cmd = "read_dsk" => Len(files) = i /\ i < NumTracks /\ error = 0
  BY <1>1 DEF Saving, AtTrack
<1>6. CASE /\ files' = files
           /\ IF config.cmd = "read_trk" THEN Goto("done") /\ UNCHANGED <<line, error>>
              ELSE Send("stop") /\ error' = -3
  <2>1. /\ tries' = 0 /\ error' \in -3 .. 0
        /\ \/ pc' = "done" /\ line' = line /\ error' = error
           \/ pc' = "tx" /\ line' = "stop" /\ error' = -3 /\ config.cmd = "read_dsk"
    BY <1>2, <1>6 DEF Send, Goto, Rest
  <2>2. Rest'
    BY <1>1, <1>6, <2>1 DEF Rest
  <2>3. Fetching'
    BY <1>1, <1>2, <1>3, <2>1 DEF Fetching, Asking, Fetched
  <2>4. Saving'
    BY <1>1, <1>2, <1>3, <1>6, <2>1 DEF Saving, Asking, Fetched, AtTrack
  <2>. QED  BY <1>4, <2>2, <2>3, <2>4
<1>7. CASE /\ SaveFile
           /\ IF config.cmd = "read_trk" THEN Goto("done") /\ UNCHANGED line
              ELSE Send(IF LastTrack THEN "stop" ELSE "next")
           /\ UNCHANGED error
  <2>0. PICK file \in Whole(i) : files' = Append(files, file)
    BY <1>1, <1>7, SavedWhole
  <2>1. <<t, side>> = Place(i) /\ Place(i) \in Nat \X Side
    BY <1>1, <1>7, SavedWhole
  <2>2. /\ tries' = 0 /\ error' \in -3 .. 0
        /\ \/ pc' = "done" /\ line' = line /\ config.cmd = "read_trk"
           \/ /\ pc' = "tx" /\ line' = (IF i = NumTracks - 1 THEN "stop" ELSE "next")
              /\ error' = error /\ config.cmd = "read_dsk"
    BY <1>2, <1>7 DEF Send, Goto, LastTrack, Rest
  <2>3. /\ Len(files') = Len(files) + 1 /\ DOMAIN files' = 1 .. Len(files) + 1
        /\ \A k \in 1 .. Len(files) + 1 :
             files'[k] = IF k <= Len(files) THEN files[k] ELSE file
    BY <1>2, <2>0 DEF Rest
  <2>4. Len(files) = i /\ (config.cmd = "read_trk" => i = 0)
    <3>1. config.cmd = "read_trk" => i = 0 /\ files = <<>>
      BY <1>1 DEF Saving
    <3>. QED  BY <1>2, <1>5, <3>1
  <2>5. \A k \in DOMAIN files' : files'[k] \in Whole(k - 1)'
    <3>1. ASSUME NEW k \in 1 .. Len(files) + 1  PROVE files'[k] \in Whole(k - 1)
      <4>1. CASE k <= Len(files)
        <5>1. k \in DOMAIN files
          BY <1>2, <4>1 DEF Rest
        <5>. QED  BY <2>3, <4>1, <5>1 DEF Saving
      <4>2. CASE k > Len(files)
        BY <1>2, <2>3, <2>4, <4>2
      <4>. QED  BY <1>2, <4>1, <4>2
    <3>. QED  BY <1>3, <2>3, <3>1
  <2>6. Rest'
    <3>1. file \in Files
      BY <2>1 DEF Whole, Files
    <3>. QED  BY <1>1, <2>0, <2>2, <3>1 DEF Rest
  <2>7. Fetching'
    BY <1>1, <1>2, <1>3, <2>2 DEF Fetching, Asking, Fetched
  <2>8. Saving'
    BY <1>1, <1>2, <1>3, <1>5, <2>2, <2>3, <2>4, <2>5 DEF Saving, Asking, Fetched, AtTrack
  <2>. QED  BY <1>4, <2>6, <2>7, <2>8
<1>. QED  BY <1>6, <1>7 DEF WriteFile

LEMMA InitFiles == Init => FileInv
<1> SUFFICES ASSUME Init PROVE FileInv
  OBVIOUS
<1>1. IInv
  BY InitInv
<1>2. config \in Configs /\ config.cmd \in {"read_dsk", "read_trk", "exec"}
  BY ConfigFacts DEF Init
<1>3. Rest
  <2>1. tries \in Nat /\ error \in -3 .. 0 /\ first \in Nat /\ num_blocks \in 0 .. MaxBlocks
    BY CaptureAssumption DEF CaptureAssumption, Init
  <2>2. files \in Seq(Files)
    BY DEF Init
  <2>3. reported \in BOOLEAN /\ answer \in Answers \cup {"none"}
    BY DEF Init
  <2>4. sampled \in Nat \X Side
    BY DEF Init, Side
  <2>. QED  BY <2>1, <2>2, <2>3, <2>4 DEF Rest
<1>4. Fetching
  BY <1>2 DEF Init, Fetching, Fetched, Asking
<1>5. Located
  BY <1>1, PlaceNext DEF Init, Located, IInv
<1>6. Saving
  BY <1>2 DEF Init, Saving, Fetched, Asking, AtTrack
<1>. QED  BY <1>1, <1>3, <1>4, <1>5, <1>6 DEF FileInv

LEMMA StepFiles == FileInv /\ [Next]_vars => FileInv'
<1> SUFFICES ASSUME FileInv, [Next]_vars PROVE FileInv'
  OBVIOUS
<1>1. IInv'
  BY StepInv DEF FileInv
<1>2. Rest' /\ Fetching' /\ Located' /\ Saving'
  BY TxFiles, RxFiles, TrackReadFiles, FirstBlockReadFiles, BlockReadFiles, DecodeFiles,
     WriteFileFiles, SamplerFiles DEF Next, Main, Done
<1>. QED  BY <1>1, <1>2 DEF FileInv

LEMMA FileInvHolds == Spec => []FileInv
BY InitFiles, StepFiles, PTL DEF Spec

-----------------------------------------------------------------------------
(* Whatever stream was found from its BOF to its EOT, cut into blocks of   *)
(* whatever size wherever its frames fall, decodes to the sampler's data;  *)
(* and the host's variables stay in their types (spi_bulk.c:60-195).       *)
THEOREM TrackAlwaysDecoded == Spec => []TrackDecoded
<1>1. FileInv => TrackDecoded
  <2>1. SUFFICES ASSUME FileInv PROVE TrackDecoded
    OBVIOUS
  <2>2. TypeOK
    BY <2>1 DEF FileInv, IInv, Types, Rest, TypeOK, Codes5, Files
  <2>3. ReceivedIsDecoded
    <3>1. SUFFICES ASSUME pc = "decode", config.cmd = "read_dsk"
                   PROVE  {first + k : k \in Taken} = DataAt
      BY DEF ReceivedIsDecoded
    <3>2. /\ stream \in Streams /\ first \in Nat /\ num_blocks \in Nat \ {0} /\ NoBof(first)
          /\ BeginFound /\ EndFound
      BY <2>1, <3>1, CaptureAssumption
         DEF CaptureAssumption, FileInv, Fetching, Fetched, Rest
    <3> DEFINE B == SPI_BLOCK_SIZE
               size == num_blocks * SPI_BLOCK_SIZE
    <3>3. B \in Nat \ {0} /\ size \in Nat /\ size >= B /\ Received = 1 .. size
      <4>1. num_blocks \in Nat /\ num_blocks >= 1
        BY <3>2
      <4>2. B \in Nat \ {0} /\ size \in Nat /\ size >= B
        BY <4>1, BlockAfter
      <4>. QED  BY <4>2 DEF Received
    <3>4. EndFound => \E p \in first + B + 1 .. first + size : Byte(p) = "EOT"
      BY DEF EndFound
    <3> HIDE DEF size
    <3>5. Begins # {}
      <4>1. PICK k \in FirstBlock : Byte(first + k) = "BOF"
        BY <3>2 DEF BeginFound
      <4>2. k \in FirstBlock \cap Received
        BY <3>3, <4>1 DEF FirstBlock
      <4>. QED  BY <4>1, <4>2 DEF Begins, Raw
    <3>6. Begins \in SUBSET Nat /\ \A b \in Begins : b <= B
      BY <3>3 DEF Begins, FirstBlock
    <3>7. Min(Begins) \in Nat /\ Min(Begins) <= B
      BY <3>5, <3>6, MinIsLeast
    <3>8. PICK p \in first + B + 1 .. first + size : Byte(p) = "EOT"
      BY <3>2, <3>4
    <3>9. p - first \in 1 .. size /\ p - first > Min(Begins) /\ first + (p - first) = p
      BY <3>2, <3>3, <3>7, <3>8
    <3>10. EndOf(Min(Begins)) # {}
      BY <3>3, <3>8, <3>9 DEF EndOf, Raw
    <3>. QED  BY <3>2, <3>5, <3>10, DecodedIsData
  <2>. QED  BY <2>2, <2>3 DEF TrackDecoded
<1>. QED  BY <1>1, FileInvHolds, PTL

(* A track is refused for what it is and never for where its frames and    *)
(* markers fall: it has no frame, begins too late, or its end is in its    *)
(* first block or beyond the buffers (spi_bulk.c:60-107).                  *)
THEOREM GoodTrackAlwaysTaken == Spec => GoodTrackTaken
<1>1. FileInv /\ [Next]_vars =>
        [error = 0 /\ error' < 0 /\ pc \in {"bof", "blocks"} =>
           NoFrame \/ LateFrame \/ ShortRead \/ LongRead]_vars
  <2>1. SUFFICES ASSUME FileInv, Next, error = 0, error' < 0, pc \in {"bof", "blocks"}
                 PROVE  NoFrame \/ LateFrame \/ ShortRead \/ LongRead
    OBVIOUS
  <2>2. stream \in Streams
    BY <2>1 DEF FileInv, Fetching
  <2>3. CASE FirstBlockRead
    <3>1. pc = "bof" /\ tries = WaitBlocks
      BY <2>1, <2>3 DEF FirstBlockRead
    <3>2. at = WaitBlocks * SPI_BLOCK_SIZE /\ NoBof(at) /\ at \in Nat
      BY <2>1, <3>1 DEF FileInv, Fetching, IInv, Types
    <3>3. SUFFICES ASSUME ~NoFrame PROVE LateFrame
      OBVIOUS
    <3> DEFINE S == {p \in DOMAIN stream : stream[p] = "BOF"} \cup {Len(stream)}
    <3>4. PICK q \in DOMAIN stream : stream[q] = "BOF"
      BY <3>3 DEF NoFrame, ToSet
    <3>5. \A p \in DOMAIN stream : stream[p] = "BOF" => p > at /\ p <= Len(stream)
      BY <2>2, <3>2, StreamForm DEF NoBof, Byte
    <3>6. S \in SUBSET Nat /\ S # {} /\ \A p \in S : p > at
      BY <2>2, <3>2, <3>4, <3>5, StreamForm
    <3> HIDE DEF S
    <3>7. Min(S) > at
      BY <3>6, MinIsLeast
    <3>. QED  BY <3>2, <3>7 DEF LateFrame, Where, S
  <2>4. CASE BlockRead
    <3>1. pc = "blocks" /\ num_blocks = MaxBlocks
      BY <2>1, <2>4 DEF BlockRead, OutOfBlocks, ReadOver, Send
    <3>2. ~EndFound /\ first \in Nat /\ num_blocks \in Nat
      BY <2>1, <3>1, CaptureAssumption DEF CaptureAssumption, FileInv, Fetching, Rest
    <3>3. {p \in DOMAIN stream : stream[p] = "EOT"} \cup {Len(stream)} = {Len(stream)}
      BY <2>2, StreamForm
    <3>4. Where("EOT") = Len(stream)
      <4>1. {Len(stream)} \in SUBSET Nat /\ {Len(stream)} # {}
        BY <2>2, StreamForm
      <4>2. Min({Len(stream)}) \in {Len(stream)}
        BY <4>1, MinIsLeast
      <4>. QED  BY <3>3, <4>2 DEF Where
    <3>5. Byte(Len(stream)) = "EOT" /\ Len(stream) \in Nat
      BY <2>2, StreamForm DEF Byte
    <3> DEFINE size == num_blocks * SPI_BLOCK_SIZE
    <3>6. SPI_BLOCK_SIZE \in Nat /\ size \in Nat
      BY <3>2, BlockAfter
    <3>7. Len(stream) \notin first + SPI_BLOCK_SIZE + 1 .. first + size
      BY <3>2, <3>5 DEF EndFound
    <3>8. LongRead <=> Where("EOT") > first + size
      BY <3>1 DEF LongRead
    <3> HIDE DEF size
    <3>. QED  BY <3>2, <3>4, <3>5, <3>6, <3>7, <3>8 DEF ShortRead
  <2>5. CASE ~FirstBlockRead /\ ~BlockRead
    <3>1. error' = error
      BY <2>1, <2>5
         DEF Next, Main, Done, SamplerRuns, StreamEnds, cmd_spi_tx, cmd_spi_rx, TrackRead, Decode,
             WriteFile, vars, host
    <3>. QED  BY <2>1, <3>1
  <2>. QED  BY <2>3, <2>4, <2>5
<1>. QED  BY <1>1, FileInvHolds, PTL DEF GoodTrackTaken, Spec

-----------------------------------------------------------------------------
(* The files as the abstract capture sees them. *)
Image == [k \in DOMAIN files |-> IF True(files[k]) THEN files[k].place ELSE <<>>]
Cut   == {k \in DOMAIN files : files[k].cut}

ImageFits ==
  /\ Image = [k \in 1 .. Len(files) |-> Place(k - 1)]
  /\ Len(files) \in Nat /\ Len(Image) = Len(files)

LEMMA ImageForm ==
  ASSUME FileInv
  PROVE  ImageFits
<1>1. DOMAIN files = 1 .. Len(files) /\ Len(files) \in Nat
  BY DEF FileInv, Rest
<1>2. \A k \in DOMAIN files : files[k] \in Whole(k - 1)
  BY DEF FileInv, Saving
<1>3. \A k \in DOMAIN files : True(files[k]) /\ files[k].place = Place(k - 1)
  BY <1>2 DEF True, Whole
<1>4. Image = [k \in 1 .. Len(files) |-> Place(k - 1)]
  BY <1>1, <1>3 DEF Image
<1>5. Len(Image) = Len(files)
  BY <1>1, <1>4
<1>. QED  BY <1>1, <1>4, <1>5 DEF ImageFits

(* What a step does to the files. *)
LEMMA WhatIsSaved ==
  ASSUME FileInv, [Next]_vars
  PROVE  /\ UNCHANGED config
         /\ \/ UNCHANGED <<files, reported>>
            \/ pc = "write" /\ SaveFile /\ UNCHANGED reported
            \/ /\ UNCHANGED files /\ reported' = TRUE /\ reported = FALSE
               /\ config.cmd = "read_dsk" /\ Asking("stop") /\ error = 0
<1>1. pc \in {"tx", "rx"} => reported = FALSE
  BY DEF FileInv, Saving, Rest
<1>2. ASSUME NEW result, LineOver(result), pc \in {"tx", "rx"}
      PROVE  \/ reported' = reported
             \/ reported' = TRUE /\ config.cmd = "read_dsk" /\ line = "stop" /\ error = 0
  <2>1. CASE line = "stop" /\ config.cmd = "read_dsk"
    <3>1. reported' = (Succeeded(result) /\ error = 0)
      BY <1>2, <2>1 DEF LineOver
    <3>2. CASE Succeeded(result) /\ error = 0
      BY <2>1, <3>1, <3>2
    <3>3. CASE ~ (Succeeded(result) /\ error = 0)
      BY <1>1, <1>2, <3>1, <3>3
    <3>. QED  BY <3>2, <3>3
  <2>2. CASE ~ (line = "stop" /\ config.cmd = "read_dsk")
    BY <1>2, <2>2 DEF LineOver, Stay
  <2>. QED  BY <2>1, <2>2
<1>3. CASE cmd_spi_tx \/ cmd_spi_rx
  <2>1. pc \in {"tx", "rx"} /\ UNCHANGED <<config, files>>
    BY <1>3 DEF cmd_spi_tx, cmd_spi_rx
  <2>2. reported' = reported \/ \E result : LineOver(result)
    BY <1>3 DEF cmd_spi_tx, cmd_spi_rx, NotReady
  <2>. QED  BY <1>1, <1>2, <2>1, <2>2 DEF Asking
<1>4. CASE WriteFile
  BY <1>4 DEF WriteFile
<1>5. CASE ~cmd_spi_tx /\ ~cmd_spi_rx /\ ~WriteFile
  BY <1>5
     DEF Next, Main, Done, SamplerRuns, StreamEnds, TrackRead, FirstBlockRead, BlockRead, Decode,
         vars, host
<1>. QED  BY <1>3, <1>4, <1>5

LEMMA TrackSaves ==
  ASSUME FileInv, ImageFits', pc = "write", SaveFile, UNCHANGED <<config, reported>>
  PROVE  ~reported /\ Abstract!Save
<1>1. PICK file \in Whole(i) : files' = Append(files, file)
  BY SavedWhole
<1>2. /\ ~reported /\ config.cmd \in {"read_dsk", "read_trk"} /\ i \in Nat /\ Len(files) \in Nat
      /\ NumTracks \in Nat
  <2>1. Types /\ LinesFit /\ Rest /\ Saving
    BY DEF FileInv, IInv
  <2>2. ~reported
    BY <2>1 DEF Saving
  <2>3. line # "exec" /\ i \in Nat /\ config \in Configs
    BY <2>1 DEF LinesFit, Types, Saving
  <2>4. config.cmd \in {"read_dsk", "read_trk"}
    BY <2>1, <2>3, ConfigFacts DEF LinesFit
  <2>5. Len(files) \in Nat
    BY <2>1 DEF Rest
  <2>6. NumTracks \in Nat
    BY <2>1, TracksCounted
  <2>. QED  BY <2>2, <2>3, <2>4, <2>5, <2>6
<1>3. Len(files) = i
  <2>1. config.cmd = "read_trk" => i = 0 /\ files = <<>>
    BY DEF FileInv, Saving
  <2>2. config.cmd = "read_dsk" => Len(files) = i
    BY DEF FileInv, Saving, AtTrack
  <2>. QED  BY <1>2, <2>1, <2>2
<1>4. i < Len(PlacesAsked) /\ PlacesAsked[i + 1] = Place(i)
  <2>1. CASE config.cmd = "read_dsk"
    <3>1. i < NumTracks
      BY <2>1 DEF FileInv, Saving, AtTrack
    <3>. QED  BY <1>2, <2>1, <3>1 DEF PlacesAsked
  <2>2. CASE config.cmd = "read_trk"
    <3>1. i = 0 /\ PlacesAsked = <<Place(0)>>
      BY <2>2 DEF FileInv, Saving, PlacesAsked
    <3>. QED  BY <3>1
  <2>. QED  BY <1>2, <2>1, <2>2
<1>5. PlacesAsked' = PlacesAsked
  BY DEF PlacesAsked, NumTracks, Place
<1>6. Len(files') = i + 1
  <2>1. Len(Append(files, file)) = Len(files) + 1
    BY DEF FileInv, Rest
  <2>. QED  BY <1>1, <1>3, <2>1
<1>7. Image = [k \in 1 .. i |-> Place(k - 1)] /\ Len(Image) = i
  BY <1>3, ImageForm DEF ImageFits
<1>8. Image' = [k \in 1 .. i + 1 |-> Place(k - 1)]
  <2>1. Image' = [k \in 1 .. Len(files') |-> Place(k - 1)']
    BY DEF ImageFits
  <2>2. \A k : Place(k - 1)' = Place(k - 1)
    BY DEF Place
  <2>. QED  BY <1>6, <2>1, <2>2
<1>9. Image' = Append(Image, PlacesAsked[i + 1])
  <2>1. Append(Image, Place(i)) = [k \in 1 .. i + 1 |-> IF k <= i THEN Image[k] ELSE Place(i)]
    BY <1>2, <1>7
  <2>2. \A k \in 1 .. i + 1 : (IF k <= i THEN Image[k] ELSE Place(i)) = Place(k - 1)
    BY <1>2, <1>7
  <2>. QED  BY <1>4, <1>8, <2>1, <2>2
<1>10. Cut' \in {Cut, Cut \cup {Len(Image) + 1}}
  <2>1. /\ DOMAIN files' = 1 .. i + 1 /\ DOMAIN files = 1 .. i
        /\ \A k \in 1 .. i : files'[k] = files[k]
    BY <1>1, <1>2, <1>3 DEF FileInv, Rest
  <2>2. Cut' = {k \in 1 .. i + 1 : files'[k].cut}
    BY <2>1 DEF Cut
  <2>3. Cut = {k \in 1 .. i : files'[k].cut}
    BY <2>1 DEF Cut
  <2>. QED  BY <1>2, <1>7, <2>2, <2>3
<1>. QED  BY <1>2, <1>4, <1>5, <1>7, <1>9, <1>10 DEF Abstract!Save, Image, Cut

LEMMA SuccessReports ==
  ASSUME FileInv, UNCHANGED <<config, files>>, reported' = TRUE, reported = FALSE,
         config.cmd = "read_dsk", Asking("stop"), error = 0
  PROVE  ~reported /\ Abstract!Report
<1>1. Len(files) = NumTracks
  BY DEF FileInv, Saving
<1>2. Image = PlacesAsked
  BY <1>1, ImageForm DEF ImageFits, PlacesAsked
<1>3. Image' = Image /\ Cut' = Cut /\ PlacesAsked' = PlacesAsked
  BY DEF Image, Cut, True, PlacesAsked, NumTracks, Place
<1>. QED  BY <1>2, <1>3 DEF Abstract!Report, Image, Cut

(* The program writes the files of the tracks asked for, one after the     *)
(* other, each under its own name and whole unless the disk of the host    *)
(* cut it, and reports success only when the last one is there, whatever   *)
(* fails on the way; the report says nothing of cut files                  *)
(* (read.c:137-350).                                                       *)
THEOREM CaptureImplemented == Spec => ImplementsDiskCapture
<1>1. Init => Image = <<>> /\ Cut = {} /\ reported = FALSE
  BY DEF Init, Image, Cut
<1>2. FileInv => ImageFits
  BY ImageForm
<1>3. FileInv /\ ImageFits' /\ [Next]_vars =>
        [~reported /\ (Abstract!Save \/ Abstract!Report)]_<<PlacesAsked, Image, Cut, reported>>
  <2>1. SUFFICES ASSUME FileInv, ImageFits', [Next]_vars
                 PROVE  \/ ~reported /\ (Abstract!Save \/ Abstract!Report)
                        \/ UNCHANGED <<PlacesAsked, Image, Cut, reported>>
    OBVIOUS
  <2>2. CASE UNCHANGED <<config, files, reported>>
    BY <2>2 DEF Image, Cut, True, PlacesAsked, NumTracks, Place
  <2>. QED  BY <2>1, <2>2, WhatIsSaved, TrackSaves, SuccessReports
<1>. QED
  BY <1>1, <1>2, <1>3, FileInvHolds, PTL DEF Spec, ImplementsDiskCapture, Abstract!CaptureSpec, Image,
     Cut
=============================================================================
