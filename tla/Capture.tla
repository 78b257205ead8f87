------------------------------ MODULE Capture ------------------------------
(***************************************************************************)
(* The capture host (capture/linux): a program that moves the drive of a   *)
(* sampler and reads tracks from it over SPI, as doc/protocol.txt has it.  *)
(*                                                                         *)
(* The host is the master of the link: it asks until the sampler is ready, *)
(* sends a line of commands, asks again and fetches the results; a track   *)
(* comes as a stream of frames, cut into blocks wherever they happen to    *)
(* begin.  The sampler runs a line in its own time, and any command of it  *)
(* may fail.                                                               *)
(*                                                                         *)
(* Transfers themselves do not fail here.                                  *)
(***************************************************************************)
EXTENDS Integers, Sequences, SequencesExt, FiniteSetsExt

CONSTANTS
  Configs,        \* command lines: cmd, begin_track, end_track, sides
  Streams,        \* streams of bytes the sampler may send for a track
  SPI_BLOCK_SIZE, \* the code: 4096
  WaitBlocks,     \* config.wait_blocks
  MaxBlocks,      \* config.max_blocks
  CmdTimeout      \* config.cmd_timeout, in polls

Sides == {"a", "t", "b"}

(* Data in frames from BOF to EOF, fill around them, and EOT at the end.   *)
Framed(s) ==
  /\ s \in Seq({"data", "fill", "BOF", "EOF", "EOT"})
  /\ \A p \in DOMAIN s :
       /\ s[p] = "EOT" <=> p = Len(s)
       /\ s[p] = "data" => \E b \in 1 .. p - 1 :
            s[b] = "BOF" /\ \A q \in b + 1 .. p : s[q] = "data"
       /\ s[p] = "fill" /\ p > 1 => s[p - 1] \in {"fill", "EOF"}

ASSUME CaptureAssumption ==
  /\ Configs \subseteq [cmd : {"read_dsk", "read_trk", "exec"}, begin_track : Nat,
                        end_track : Nat, sides : Sides]
  /\ \A s \in Streams : Framed(s) /\ s # <<>>
  /\ \A c \in Configs : c.begin_track <= c.end_track
  /\ SPI_BLOCK_SIZE \in Nat \ {0} /\ MaxBlocks \in Nat \ {0}
  /\ WaitBlocks \in Nat /\ CmdTimeout \in Nat \ {0}

VARIABLES
  config,
  pc,          \* point the host has reached
  line,        \* line of commands it sends: "start", "status", "next", "stop", or
               \* the one given to cmd_exec
  tries,       \* polls or blocks it has waited
  i, t, side,  \* locals of read_dsk; side 1 is the top
  error,       \* the same, or the result of spi_bulk_read_raw_blocks in read_trk
  first,       \* where in the stream block 0 begins
  num_blocks,
  files,       \* files written: name, place on the disk, whether it is all of the
               \* data of that place and nothing else, and whether the disk of the
               \* host was full or failed, and cut it
  reported,    \* "wrote tracks successfully"
  sampler,     \* "ready", "busy" with a line, or "sending" a track
  answer,      \* its results: all commands succeeded, only some, or an abort
  drive,       \* [on, track, side]
  target,      \* the drive as the line it runs asks for
  sampled,     \* place of the track it sends
  stream, at   \* bytes of that track, and how many it has sent

host    == <<pc, line, tries, i, t, side, error, first, num_blocks>>
outside == <<sampler, answer, drive, target, sampled, stream, at>>
vars    == <<config, host, files, reported, outside>>

Answers == {"all", "some", "abort"}
Side    == {0, 1}
Drive   == [on : BOOLEAN, track : Nat, side : Side]

(* The side start_floppy selects, and that read_dsk begins with.           *)
FirstSide(c) == IF c.sides = "t" THEN 1 ELSE 0

TypeOK ==
  /\ config \in Configs
  /\ pc \in {"tx", "rx", "track", "bof", "blocks", "decode", "write", "done"}
  /\ line \in {"start", "status", "next", "stop", "exec"}
  /\ tries \in Nat /\ i \in Nat /\ t \in Nat /\ side \in Side
  /\ error \in -3 .. 0 /\ first \in Nat /\ num_blocks \in 0 .. MaxBlocks
  /\ files \in Seq([name : Nat \X Side, place : Nat \X Side, exact : BOOLEAN,
                   cut : BOOLEAN])
  /\ reported \in BOOLEAN
  /\ sampler \in {"ready", "busy", "sending"} /\ answer \in Answers \cup {"none"}
  /\ drive \in Drive /\ target \in Drive /\ sampled \in Nat \X Side
  /\ stream \in Seq({"data", "fill", "BOF", "EOF", "EOT"}) /\ at \in Nat

Init ==
  /\ config \in Configs
  /\ pc = "tx" /\ line = (IF config.cmd = "exec" THEN "exec" ELSE "start") /\ tries = 0
  /\ i = 0 /\ t = config.begin_track /\ side = FirstSide(config)
  /\ error = 0 /\ first = 0 /\ num_blocks = 0
  /\ files = <<>> /\ reported = FALSE
  /\ sampler = "ready" /\ answer = "none"
  /\ drive \in [on : BOOLEAN, track : {0, config.end_track}, side : Side]
  /\ target = drive /\ sampled = <<0, 0>>
  /\ stream = <<>> /\ at = 0

(***************************************************************************)
(* The sampler.                                                            *)
(***************************************************************************)
(* What a line of commands makes of the drive d: "eosz?+..", "t", "b+01",  *)
(* "+01", "fd"; "r" leaves it alone, and so do the lines of cmd_exec here. *)
Executed(d) ==
  IF line = "start"
  THEN [on |-> TRUE, track |-> config.begin_track, side |-> FirstSide(config)]
  ELSE IF line = "next"
  THEN [on    |-> d.on,
        track |-> IF config.sides # "a" \/ i % 2 = 1 THEN d.track + 1 ELSE d.track,
        side  |-> IF config.sides = "a" THEN (i + 1) % 2 ELSE d.side]
  ELSE [d EXCEPT !.on = d.on /\ line # "stop"]

(* If a command of it fails or aborts the line, each part of the drive is  *)
(* as before or as asked for; a seek may end at track zero.                *)
Partly ==
  [on : {drive.on, target.on}, track : {drive.track, 0, target.track},
   side : {drive.side, target.side}]

(* It may take longer than the host waits. *)
SamplerRuns ==
  /\ sampler = "busy" /\ sampler' = "ready"
  /\ \/ answer' = "all" /\ drive' = target
     \/ answer' \in {"some", "abort"} /\ drive' \in Partly
  /\ UNCHANGED <<config, host, files, reported, target, sampled, stream, at>>

(* It goes back to commands once the stream is out, or gives it up.        *)
StreamEnds ==
  /\ sampler = "sending" /\ (at >= Len(stream) \/ pc \notin {"bof", "blocks"})
  /\ sampler' = "ready" /\ answer' = "none"
  /\ UNCHANGED <<config, host, files, reported, drive, target, sampled, stream, at>>

(***************************************************************************)
(* Lines of commands: cmd_parse_execute, cmd_spi_tx, cmd_spi_rx.           *)
(***************************************************************************)
Goto(label) == pc' = label /\ tries' = 0

Send(name) == Goto("tx") /\ line' = name

(* A byte of a track the sampler still sends may look like its ready flag. *)
SeesReady == \/ sampler = "ready"
             \/ sampler = "sending" /\ at < Len(stream)
CannotBeSure == sampler = "sending" \/ sampler = "busy"

(* A poll clocks two bytes. *)
Clocked == at' = IF sampler = "sending" /\ at < Len(stream) THEN at + 2 ELSE at

BugAnyAnswer(result) == result \in {"all", "some"}
(* As many successes as there are commands in the line.                    *)
Succeeded(result) == result = "all"

(* read_dsk and read_trk once a line is over; "late" is a timeout.         *)
NumTracks ==
  (config.end_track - config.begin_track + 1) * (IF config.sides = "a" THEN 2 ELSE 1)

(* The next track: t and side are set whether the drive got there or not.  *)
NextTrack ==
  /\ i' = i + 1
  /\ side' = IF config.sides = "a" THEN 1 - side ELSE side
  /\ t' = IF config.sides # "a" \/ side = 1 THEN t + 1 ELSE t

Stay == UNCHANGED <<line, i, t, side, error, reported>>

LineOver(result) ==
  \/ /\ line = "exec"
     /\ Goto("done") /\ Stay
  \/ /\ line = "start"
     /\ Goto(IF Succeeded(result) THEN "track" ELSE "done") /\ Stay
  \/ /\ line = "next"
     /\ IF Succeeded(result) THEN Goto("track") /\ UNCHANGED <<line, error>>
                             ELSE Send("stop") /\ error' = -1
     /\ NextTrack /\ UNCHANGED reported
  \/ /\ line = "status" /\ config.cmd = "read_dsk"
     /\ IF Succeeded(result) THEN Goto("write") /\ UNCHANGED <<line, error>>
                             ELSE Send("stop") /\ error' = -3
     /\ UNCHANGED <<i, t, side, reported>>
  \/ /\ line = "status" /\ config.cmd = "read_trk"
     /\ Goto(IF Succeeded(result) THEN "write" ELSE "done") /\ Stay
  \/ /\ line = "stop" /\ config.cmd = "read_dsk"
     /\ Goto("done") /\ reported' = (Succeeded(result) /\ error = 0)
     /\ UNCHANGED <<line, i, t, side, error>>
  \/ /\ line = "stop" /\ config.cmd = "read_trk"
     /\ Goto(IF Succeeded(result) THEN "decode" ELSE "done") /\ Stay

BugPollOn == UNCHANGED <<pc, line, tries, i, t, side, error, reported>>
(* wait_for_ready: not yet, or no longer.                                  *)
NotReady ==
  IF tries + 1 >= CmdTimeout THEN LineOver("late")
  ELSE tries' = tries + 1 /\ UNCHANGED <<pc, line, i, t, side, error, reported>>

(* A line sent while the sampler sends a track is lost.                    *)
cmd_spi_tx ==
  /\ pc = "tx"
  /\ \/ /\ SeesReady
        /\ Goto("rx")
        /\ IF sampler = "ready" THEN sampler' = "busy" /\ target' = Executed(drive)
                                ELSE UNCHANGED <<sampler, target>>
        /\ UNCHANGED <<line, i, t, side, error, reported>>
     \/ CannotBeSure /\ NotReady /\ UNCHANGED <<sampler, target>>
  /\ Clocked
  /\ UNCHANGED <<config, first, num_blocks, files, answer, drive, sampled, stream>>

cmd_spi_rx ==
  /\ pc = "rx"
  /\ \/ sampler = "ready" /\ LineOver(answer)
     \/ sampler = "sending" /\ SeesReady /\ \E garbage \in Answers : LineOver(garbage)
     \/ CannotBeSure /\ NotReady
  /\ Clocked
  /\ UNCHANGED <<config, first, num_blocks, files, sampler, answer, drive, target, sampled,
                 stream>>

(***************************************************************************)
(* A track: spi_bulk_read_raw_blocks.                                      *)
(***************************************************************************)
TrackRead ==
  /\ pc = "track"
  /\ Goto("bof") /\ num_blocks' = 1
  /\ stream' \in Streams
  /\ at' = 0 /\ sampler' = "sending" /\ sampled' = <<drive.track, drive.side>>
  /\ UNCHANGED <<config, line, i, t, side, error, first, files, reported, answer, drive,
                 target>>

(* The raw blocks, from byte 1; what is clocked after the stream is fill.  *)
Byte(p) == IF p <= Len(stream) THEN stream[p] ELSE "fill"
Raw(k)  == Byte(first + k)
Received == 1 .. num_blocks * SPI_BLOCK_SIZE
FirstBlock == 1 .. SPI_BLOCK_SIZE

(* The end of spi_bulk_read_raw_blocks; read_trk does not look at result.  *)
ReadOver(result) ==
  IF config.cmd = "read_trk" THEN Send("stop") /\ error' = result
  ELSE IF result < 0 THEN Send("stop") /\ error' = -1
  ELSE Goto("decode") /\ error' = 0 /\ UNCHANGED line

(* Block 0 is read again until it has a BOF.                               *)
FirstBlockRead ==
  /\ pc = "bof"
  /\ IF tries = WaitBlocks
     THEN ReadOver(-1) /\ UNCHANGED <<first, at>>
     ELSE /\ first' = at /\ at' = at + SPI_BLOCK_SIZE
          /\ IF \E k \in FirstBlock : Byte(at + k) = "BOF"
             THEN Goto("blocks") /\ UNCHANGED <<line, error>>
             ELSE tries' = tries + 1 /\ UNCHANGED <<pc, line, error>>
  /\ UNCHANGED <<config, i, t, side, num_blocks, files, reported, sampler, answer, drive,
                 target, sampled, stream>>

BugOneBlockLess == num_blocks = MaxBlocks - 1
OutOfBlocks     == num_blocks = MaxBlocks

(* The others are searched for an EOT, block 0 is not.                     *)
BlockRead ==
  /\ pc = "blocks"
  /\ IF OutOfBlocks
     THEN ReadOver(-1) /\ UNCHANGED <<num_blocks, at>>
     ELSE /\ num_blocks' = num_blocks + 1 /\ at' = at + SPI_BLOCK_SIZE
          /\ IF \E k \in FirstBlock : Byte(at + k) = "EOT"
             THEN ReadOver(0)
             ELSE UNCHANGED <<pc, tries, line, error>>
  /\ UNCHANGED <<config, i, t, side, first, files, reported, sampler, answer, drive, target,
                 sampled, stream>>

(***************************************************************************)
(* Decoding: spi_bulk_decode_raw_blocks.                                   *)
(***************************************************************************)
Codes == {"BOF", "EOF", "EOT"}

Begins == {k \in FirstBlock \cap Received : Raw(k) = "BOF"}
EndOf(b) == {k \in Received : k > b /\ Raw(k) = "EOT"}

BugOnAfterEof(b, k) == TRUE
(* Between a BOF and the next EOF; the first BOF is b.                     *)
On(b, k) ==
  \E j \in b .. k - 1 : Raw(j) = "BOF" /\ \A m \in j .. k - 1 : Raw(m) # "EOF"

Taken == IF Begins = {} \/ EndOf(Min(Begins)) = {} THEN {}
         ELSE {k \in Min(Begins) + 1 .. Min(EndOf(Min(Begins))) - 1 :
                 Raw(k) \notin Codes /\ On(Min(Begins), k)}

(* No data at all is an error like those of the codes, "no error".         *)
Decode ==
  /\ pc = "decode"
  /\ IF Taken # {} THEN Send("status") /\ UNCHANGED error
     ELSE IF config.cmd = "read_trk" THEN Goto("done") /\ UNCHANGED <<line, error>>
     ELSE Send("stop") /\ error' = -2
  /\ UNCHANGED <<config, i, t, side, first, num_blocks, files, reported, outside>>

(* Where the sampler put the data. *)
DataAt == {p \in DOMAIN stream : stream[p] = "data"}

(* check_status has the status of the sampler, whose size of the data must *)
(* be that of what was decoded; of lost data it only tells.  Then the file *)
(* is written.  It may fail to open; of fwrite and fclose the results are  *)
(* not looked at, and the host goes on behind a file that was cut.         *)
SaveFile ==
  \E cut \in BOOLEAN :
    files' = Append(files, [name  |-> <<t, side>>, place |-> sampled,
                            exact |-> {first + k : k \in Taken} = DataAt, cut |-> cut])

BugOneTrackMore == i = NumTracks
LastTrack       == i = NumTracks - 1

WriteFile ==
  /\ pc = "write"
  /\ \/ /\ Cardinality(Taken) = Cardinality(DataAt) /\ SaveFile
        /\ IF config.cmd = "read_trk" THEN Goto("done") /\ UNCHANGED line
           ELSE Send(IF LastTrack THEN "stop" ELSE "next")
        /\ UNCHANGED error
     \/ /\ IF config.cmd = "read_trk" THEN Goto("done") /\ UNCHANGED <<line, error>>
           ELSE Send("stop") /\ error' = -3
        /\ UNCHANGED files
  /\ UNCHANGED <<config, i, t, side, first, num_blocks, reported, outside>>

Main == \/ cmd_spi_tx \/ cmd_spi_rx \/ TrackRead \/ FirstBlockRead \/ BlockRead
        \/ Decode \/ WriteFile

Done == pc = "done" /\ UNCHANGED vars

Next == Main \/ SamplerRuns \/ StreamEnds \/ Done

(* The host goes on; nothing is assumed of the sampler.                    *)
Spec     == Init /\ [][Next]_vars
FairSpec == Spec /\ WF_vars(Main)

(***************************************************************************)
(* Properties.                                                             *)
(***************************************************************************)
(* The position of the head is known to the host by counting successful    *)
(* commands only, with failed, aborted and late lines on the way: while a  *)
(* track is read and saved, the drive is where t and side say (read.c:     *)
(* 137-271), or where the command line of read_trk says (read.c:273-350).  *)
HeadInStep ==
  pc \in {"track", "bof", "blocks", "decode", "write"} =>
    /\ drive.track = t /\ drive.side = side
    /\ sampler # "busy"

(* A stream that was received decodes to the data the sampler put in it,   *)
(* however frames, gaps and markers fall on the blocks, and the decoder's  *)
(* first BOF and EOT are the reader's, so it stays within what was         *)
(* received (spi_bulk.c:60-103, 121-195).                                  *)
ReceivedIsDecoded ==
  pc = "decode" /\ config.cmd = "read_dsk" =>
    {first + k : k \in Taken} = DataAt

(* The host's buffers and indices stay in range, and the data is decoded   *)
(* as it was framed.                                                       *)
TrackDecoded == TypeOK /\ ReceivedIsDecoded

(* Where a code comes first in the stream. *)
Where(code) == Min({p \in DOMAIN stream : stream[p] = code} \cup {Len(stream)})

(* A track is refused only if it begins too late or has no frame, is too   *)
(* long for the buffers, or ends in the block it begins in, where the end  *)
(* is not looked for (spi_bulk.c:60-107).                                  *)
NoFrame   == "BOF" \notin ToSet(stream)
LateFrame == Where("BOF") > WaitBlocks * SPI_BLOCK_SIZE
ShortRead == Where("EOT") <= first + SPI_BLOCK_SIZE
LongRead  == Where("EOT") > first + MaxBlocks * SPI_BLOCK_SIZE

GoodTrackTaken ==
  [][error = 0 /\ error' < 0 /\ pc \in {"bof", "blocks"} =>
       NoFrame \/ LateFrame \/ ShortRead \/ LongRead]_vars

(* The files are those asked for, in their order, each of the track its    *)
(* name says and whole, unless the disk of the host cut it; success is     *)
(* reported when the last one is there, and of cut files it says nothing   *)
(* (doc/sw-beagle.txt:46; read.c:137-350).                                 *)
Place(k) ==
  IF config.sides = "a" THEN <<config.begin_track + k \div 2, k % 2>>
  ELSE <<config.begin_track + k, FirstSide(config)>>

PlacesAsked ==
  IF config.cmd = "exec" THEN <<>>
  ELSE IF config.cmd = "read_trk" THEN <<Place(0)>>
  ELSE [k \in 1 .. NumTracks |-> Place(k - 1)]

True(file) == file.name = file.place /\ file.exact

Abstract == INSTANCE DiskCapture WITH
  order    <- PlacesAsked,
  image    <- [k \in DOMAIN files |-> IF True(files[k]) THEN files[k].place ELSE <<>>],
  cut      <- {k \in DOMAIN files : files[k].cut},
  reported <- reported

ImplementsDiskCapture == Abstract!CaptureSpec

(* Whatever the sampler does or does not, the program comes to its end:    *)
(* every wait is bounded (cmd_spi.c:22-40, spi_bulk.c:62-107).             *)
HostEnds == <>(pc = "done")
=============================================================================
