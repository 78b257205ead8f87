------------------------------ MODULE DiskRead ------------------------------
(***************************************************************************)
(* The drive, the track position, the disk directories on the card, and    *)
(* the commands that move between them: floppy.c, track.c, the seek of     *)
(* floppy-low.c, the names of file.c and disk_read_all (disk.c), as        *)
(* cmd_parse.c calls them.                                                 *)
(*                                                                         *)
(* The firmware never sees where the head is, only whether it is at track  *)
(* zero: track.c counts steps.  A file on the card records the place on    *)
(* the disk whose flux it holds, so a wrong count shows in what was saved. *)
(* The bytes of a track are modelled in SpiRam and ReadBack.               *)
(***************************************************************************)
EXTENDS Integers, Sequences, Functions, FiniteSetsExt

CONSTANTS
  MAX_TRACK,    \* max_track after track_init
  CAP,          \* largest max_track track_set_max takes
  SEEK_STEPS,   \* steps floppy_low_seek_zero tries, and track_check_max goes in
  HeadMax,      \* last cylinder the mechanism of the drive reaches
  DirMax,       \* largest number in a directory name (0xffff)
  StepArgs,     \* arguments of the commands t+ and t-
  MaxArgs,      \* arguments of the command tm
  Ranges,       \* arguments <<begin, end>> of the commands Rm and Rf
  MaxCommands   \* bound: commands executed

ASSUME DiskAssumption ==
  /\ MAX_TRACK \in 0 .. 255 /\ CAP \in 0 .. 255 /\ SEEK_STEPS \in 0 .. 255
  /\ HeadMax \in Nat /\ DirMax \in Nat /\ MaxCommands \in Nat
  /\ StepArgs \subseteq 0 .. 255 /\ MaxArgs \subseteq 0 .. 255
  /\ Ranges \subseteq (0 .. 255) \X (0 .. 255)

STATUS_OK        == 0
SamplerErrors    == 1 .. 15   \* the ERROR_SAMPLER bits
ERROR_FILE       == 16        \* for all the ERROR_FILE and ERROR_MEMORY codes

VARIABLES
  status,       \* floppy.c: subset of {"select", "motor"}
  max_track, is_init,
  at,           \* [track, side, head]: counters of track.c, and the real head
  buf,          \* track buffer: number and place of its track
  dir_name,     \* number in dir_name
  card,         \* directories on the card: number -> (track number -> file)
  run,          \* locals of disk_read_all, while it runs
  result,       \* code of the last command
  last,         \* history: name of the last command
  before,       \* history: card and status when disk_read_all began
  commands      \* commands executed

vars == <<status, max_track, is_init, at, buf, dir_name, card, run, result, last,
          before, commands>>

NoRun == [pc |-> "loop", begin |-> 0, t |-> 0, end |-> 0, save |-> FALSE,
          en |-> FALSE, mot |-> FALSE]

(* track << 1 | side, in a byte *)
Num(pos) == (2 * pos.track + pos.side) % 256
track_num == Num(at)

(* What the head reads: the place on the disk, or the simulated track.     *)
Under(pos) == [cylinder |-> pos.head, side |-> pos.side]
Simulated  == [cylinder |-> -1, side |-> 0]
Empty      == [num |-> 0, from |-> Simulated, size |-> 0]

TypeOK ==
  /\ status \subseteq {"select", "motor"}
  /\ max_track \in 0 .. 255 /\ is_init \in BOOLEAN
  /\ at \in [track : 0 .. 255, side : 0 .. 1, head : 0 .. HeadMax]
  /\ buf \in [num : 0 .. 255, size : 0 .. 1,
              from : {Simulated} \cup [cylinder : 0 .. HeadMax, side : 0 .. 1]]
  /\ dir_name \in 0 .. DirMax
  /\ DOMAIN card \subseteq 0 .. DirMax
  /\ run \in [pc : {"loop", "find", "make", "start", "read", "save", "next", "stop"},
              begin : 0 .. 255, t : 0 .. 255, end : 0 .. 255, save : BOOLEAN,
              en : BOOLEAN, mot : BOOLEAN]
  /\ result \in 0 .. 255 /\ commands \in 0 .. MaxCommands

(***************************************************************************)
(* Moves.  A step beyond the last cylinder leaves the head where it is.    *)
(***************************************************************************)
In(head, n)  == IF head + n > HeadMax THEN HeadMax ELSE head + n
Out(head, n) == IF head < n THEN 0 ELSE head - n

(* floppy_low_seek_zero gives up after SEEK_STEPS.                         *)
track_zero(pos) == [track |-> 0, side |-> 0, head |-> Out(pos.head, SEEK_STEPS)]

BugNoLimit(pos, n) == TRUE
BugNotTheLast(pos, n) == pos.track + n < max_track
MayStep(pos, n) == pos.track + n <= max_track

track_step_next(pos, n) ==
  IF MayStep(pos, n)
  THEN [pos EXCEPT !.track = @ + n, !.head = In(@, n)]
  ELSE pos

track_step_prev(pos, n) ==
  IF pos.track >= n
  THEN [pos EXCEPT !.track = @ - n, !.head = Out(@, n)]
  ELSE pos

track_side_toggle(pos) == [pos EXCEPT !.side = 1 - @]

NextPos(pos) ==
  LET over == track_side_toggle(pos)
  IN  IF over.side = 0 THEN track_step_next(over, 1) ELSE over

PrevPos(pos) ==
  LET over == track_side_toggle(pos)
  IN  IF over.side = 1 THEN track_step_prev(over, 1) ELSE over

Iterate(move(_), pos, n) ==
  LET after[i \in 0 .. n] == IF i = 0 THEN pos ELSE move(after[i - 1])
  IN  after[n]

track_next(pos, n) == Iterate(NextPos, pos, n)
track_prev(pos, n) == Iterate(PrevPos, pos, n)

(* main: floppy_select_on, track_init, floppy_select_off.  The card may    *)
(* hold disks of earlier sessions.                                         *)
Init ==
  /\ status = {} /\ max_track = MAX_TRACK /\ is_init = TRUE
  /\ \E h \in 0 .. HeadMax : at = track_zero([track |-> 0, side |-> 0, head |-> h])
  /\ buf = Empty /\ dir_name = 0
  /\ card \in {[d \in D |-> << >>] : D \in SUBSET (0 .. DirMax)}
  /\ run = NoRun /\ result = STATUS_OK /\ last = "boot"
  /\ before = [card |-> card, status |-> status]
  /\ commands = 0

Command(name) ==
  /\ run.pc = "loop" /\ commands < MaxCommands
  /\ commands' = commands + 1 /\ last' = name

filing == <<buf, dir_name, card, run, before>>

(***************************************************************************)
(* Floppy commands f, track commands t.  A track command selects the drive *)
(* and deselects it again if it was not selected.                          *)
(***************************************************************************)
cmd_floppy ==
  /\ Command("f")
  /\ \E s \in {"select", "motor"} : status' \in {status \cup {s}, status \ {s}}
  /\ result' = STATUS_OK
  /\ UNCHANGED <<max_track, is_init, at, filing>>

Moved(name, pos) ==
  /\ Command(name)
  /\ at' = pos
  /\ UNCHANGED <<status, filing>>

track_init ==
  /\ Moved("ti", IF is_init THEN at ELSE track_zero(at))
  /\ is_init' = TRUE /\ max_track' = IF is_init THEN max_track ELSE MAX_TRACK
  /\ result' = STATUS_OK

cmd_zero ==
  /\ Moved("tz", track_zero(at))
  /\ result' = STATUS_OK
  /\ UNCHANGED <<max_track, is_init>>

Walk ==
  /\ \E n \in StepArgs :
       \/ Moved("t+", track_step_next(at, n))
       \/ Moved("t-", track_step_prev(at, n))
       \/ Moved("tn", track_next(at, n))
       \/ Moved("tp", track_prev(at, n))
  /\ result' = Num(at')
  /\ UNCHANGED <<max_track, is_init>>

Sides ==
  /\ \E s \in 0 .. 1 : Moved("ts", [at EXCEPT !.side = s])
  /\ result' = Num(at')
  /\ UNCHANGED <<max_track, is_init>>

(* Out to zero, in as far as it goes, and out again, counted.              *)
track_check_max ==
  LET inner == In(Out(at.head, SEEK_STEPS), SEEK_STEPS)
      steps == IF inner < SEEK_STEPS THEN inner ELSE SEEK_STEPS
  IN  /\ Moved("tc", [at EXCEPT !.track = 0, !.head = Out(inner, SEEK_STEPS)])
      /\ max_track' = (steps - 1) % 256
      /\ result' = max_track'
      /\ UNCHANGED is_init

track_set_max ==
  /\ \E m \in MaxArgs : max_track' = IF m > CAP THEN CAP ELSE m
  /\ Moved("tm", at)
  /\ result' = max_track'
  /\ UNCHANGED is_init

(***************************************************************************)
(* The sampler, as these commands see it: an error, and perhaps an empty   *)
(* buffer, or the track under the head.                                    *)
(***************************************************************************)
Sampled(from) ==
  \/ result' = STATUS_OK /\ buf' = [num |-> track_num, from |-> from, size |-> 1]
  \/ /\ result' \in {Min(SamplerErrors), Max(SamplerErrors)}
     /\ buf' \in {Empty, [num |-> track_num, from |-> from, size |-> 1]}

(* rm: the drive is selected and its motor on meanwhile, track_init does   *)
(* nothing after the one at boot.  rf: trk_read_sim.                       *)
ReadTrack ==
  /\ \/ Command("rm") /\ Sampled(Under(at))
     \/ Command("rf") /\ Sampled(Simulated)
  /\ UNCHANGED <<status, max_track, is_init, at, dir_name, card, run, before>>

(***************************************************************************)
(* Files.                                                                  *)
(***************************************************************************)
(* file_find_disk_dir: one more than the largest number, but the sum is    *)
(* taken in 16 bits before it is compared.                                 *)
FreeDir(dirs) == Max({0} \cup {(d + 1) % (DirMax + 1) : d \in dirs})

(* The card or its file system fails before anything is changed. *)
CardError == result' = ERROR_FILE /\ UNCHANGED <<dir_name, card>>

(* An error of f_mkdir may come after the entry was written.               *)
file_make_disk_dir(num) ==
  \/ CardError
  \/ /\ dir_name' = num
     /\ \/ /\ num \notin DOMAIN card
           /\ result' \in {STATUS_OK, ERROR_FILE}
           /\ card' = [d \in DOMAIN card \cup {num} |->
                         IF d = num THEN << >> ELSE card[d]]
        \/ result' = ERROR_FILE /\ UNCHANGED card

BugNameOfHead == track_num
(* track_name(buffer_get_track()) *)
FileName == buf.num

(* "cut": the card ran full or the file was not closed, which is no error  *)
(* here; "failed": the save returned one.                                  *)
File(state) == [from |-> buf.from, state |-> state]

WithFile(file) ==
  [card EXCEPT ![dir_name] =
     [n \in DOMAIN @ \cup {FileName} |-> IF n = FileName THEN file ELSE @[n]]]

file_save_buffer ==
  \/ CardError
  \/ /\ dir_name \in DOMAIN card
     /\ \/ /\ result' = STATUS_OK
           /\ \E state \in {"whole", "cut"} : card' = WithFile(File(state))
        \/ result' = ERROR_FILE /\ card' = WithFile(File("failed"))
     /\ UNCHANGED dir_name

(* is: an empty buffer is not saved, and that is no error. *)
SaveTrack ==
  /\ Command("is")
  /\ IF buf.size > 0 THEN file_save_buffer
                     ELSE result' = STATUS_OK /\ UNCHANGED <<dir_name, card>>
  /\ UNCHANGED <<status, max_track, is_init, at, buf, run, before>>

MakeDir ==
  /\ Command("im")
  /\ \E num \in 0 .. DirMax : file_make_disk_dir(num)
  /\ UNCHANGED <<status, max_track, is_init, at, buf, run, before>>

(***************************************************************************)
(* disk_read_all.                                                          *)
(***************************************************************************)
Go(pc) == run' = [run EXCEPT !.pc = pc]

ReadAll ==
  /\ Command("R")
  /\ \E range \in Ranges, save \in BOOLEAN :
       run' = [pc |-> IF save THEN "find" ELSE "start", begin |-> range[1],
               t |-> range[1], end |-> range[2], save |-> save, en |-> FALSE, mot |-> FALSE]
  /\ before' = [card |-> card, status |-> status]
  /\ result' = STATUS_OK
  /\ UNCHANGED <<status, max_track, is_init, at, buf, dir_name, card>>

running == <<last, before, commands>>

FindDir ==
  /\ run.pc = "find"
  /\ \/ CardError /\ Go("loop")
     \/ Go("make") /\ UNCHANGED <<result, dir_name, card>>
  /\ UNCHANGED <<status, max_track, is_init, at, buf, running>>

BugIgnoreError(error) == TRUE
MayGoOn(error) == error = STATUS_OK

(* The search saw the directories up to a read error, which is no error of *)
(* the search.                                                             *)
NewDir ==
  /\ run.pc = "make"
  /\ \E seen \in SUBSET DOMAIN card : file_make_disk_dir(FreeDir(seen))
  /\ Go(IF MayGoOn(result') THEN "start" ELSE "loop")
  /\ UNCHANGED <<status, max_track, is_init, at, buf, running>>

Start ==
  /\ run.pc = "start"
  /\ status' = {"select", "motor"}
  /\ at' = track_next(track_zero(at), run.t)
  /\ run' = [run EXCEPT !.pc = IF run.t < run.end THEN "read" ELSE "stop",
                        !.en = "select" \notin status,
                        !.mot = "motor" \notin status]
  /\ UNCHANGED <<max_track, is_init, buf, dir_name, card, result, running>>

Read ==
  /\ run.pc = "read"
  /\ Sampled(Under(at))
  /\ Go(IF result' # STATUS_OK THEN "stop" ELSE IF run.save THEN "save" ELSE "next")
  /\ UNCHANGED <<status, max_track, is_init, at, dir_name, card, running>>

Save ==
  /\ run.pc = "save"
  /\ file_save_buffer
  /\ Go(IF result' = STATUS_OK THEN "next" ELSE "stop")
  /\ UNCHANGED <<status, max_track, is_init, at, buf, running>>

(* Between two tracks: a button may end the loop, without an error.        *)
NextTrack ==
  /\ run.pc = "next"
  /\ \/ Go("stop") /\ UNCHANGED <<at, last>>
     \/ /\ at' = track_next(at, 1)
        /\ run' = [run EXCEPT !.t = @ + 1,
                              !.pc = IF run.t + 1 < run.end THEN "read" ELSE "stop"]
        /\ last' = IF run.t + 1 < run.end THEN last ELSE "R complete"
  /\ UNCHANGED <<status, max_track, is_init, buf, dir_name, card, result, before,
                 commands>>

BugLeaveOn(s) == s
(* The drive as it was before.                                             *)
SwitchedBack(s) == s \ ((IF run.mot THEN {"motor"} ELSE {})
                        \cup (IF run.en THEN {"select"} ELSE {}))

Stop ==
  /\ run.pc = "stop"
  /\ status' = SwitchedBack(status)
  /\ Go("loop")
  /\ UNCHANGED <<max_track, is_init, at, buf, dir_name, card, result, running>>

disk_read_all == FindDir \/ NewDir \/ Start \/ Read \/ Save \/ NextTrack \/ Stop

Exhausted == run.pc = "loop" /\ commands = MaxCommands /\ UNCHANGED vars

Next ==
  \/ cmd_floppy \/ track_init \/ cmd_zero \/ Walk \/ Sides
  \/ track_check_max \/ track_set_max
  \/ ReadTrack \/ SaveTrack \/ MakeDir
  \/ ReadAll \/ disk_read_all
  \/ Exhausted

Spec == Init /\ [][Next]_vars

(***************************************************************************)
(* Properties.                                                             *)
(***************************************************************************)
(* The drive is one the firmware can count: it has the tracks track_init   *)
(* allows, the seek gets back from its last one, twice its tracks fit a    *)
(* byte, and tm asks for no more than it has.  CAP alone does not see to   *)
(* that: it is 85, and the seek makes 84 steps.                            *)
DriveFits ==
  /\ HeadMax \in 1 .. 127 /\ MAX_TRACK <= HeadMax /\ HeadMax <= SEEK_STEPS
  /\ CAP <= HeadMax \/ \A m \in MaxArgs : m <= HeadMax

(* The count of track.c is where the head is, after any commands, refused  *)
(* steps and checks of the range: nothing the firmware does between two    *)
(* seeks lets them part (track.c:14-91, floppy-low.c:138-162).             *)
HeadInStep == at.head = at.track

(* The position of the head is counted within its bounds, and is right.    *)
HeadCounted == TypeOK /\ (DriveFits => HeadInStep)

Files(d) == DOMAIN card[d]

(* A file holds the track its name says, although buffer, head and         *)
(* directory move independently between sampling and saving (file.c:53-64, *)
(* buffer.c:24-29, track.c:57-75).                                         *)
SavedUnderItsName ==
  DriveFits => \A d \in DOMAIN card : \A n \in Files(d) :
    LET from == card[d][n].from
    IN  from # Simulated => n = 2 * from.cylinder + from.side

(* When disk_read_all gets to its end, within max_track, the directory of  *)
(* the disk has a file for each track of the range and for no other, and   *)
(* none of them is what a failed save left.  A file cut by a full card or  *)
(* by a close that failed does not stop it: file_save_buffer calls that a  *)
(* success (disk.c:38-76, file.c:45, 93).                                  *)
DiskComplete ==
  last = "R complete" /\ run.pc = "loop" /\ run.save
    /\ run.end <= 2 * (max_track + 1) =>
      /\ Files(dir_name) = run.begin .. run.end - 1
      /\ \A n \in Files(dir_name) : card[dir_name][n].state # "failed"

(* disk_read_all writes no directory that was there before, whichever      *)
(* numbers the directories of the card have, the last one included,        *)
(* however many of them its search saw, and whichever step fails           *)
(* (disk.c:17-30, file.c:161-259).                                         *)
NoDiskOverwritten ==
  [][run.pc # "loop" =>
       \A d \in DOMAIN before.card : card'[d] = before.card[d]]_vars

(* However disk_read_all ends, select and motor are as it found them       *)
(* (disk.c:33-34, 78-79).                                                  *)
DriveRestored ==
  [][run.pc = "stop" /\ run'.pc = "loop" => status' = before.status]_vars
=============================================================================
