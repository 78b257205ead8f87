----------------------------- MODULE MC_Capture -----------------------------
(* Short disks and short streams for TLC.                                   *)
EXTENDS Capture

CommandLines ==
  {[cmd |-> "read_dsk", begin_track |-> 0, end_track |-> 1, sides |-> "a"],
   [cmd |-> "read_dsk", begin_track |-> 1, end_track |-> 2, sides |-> "t"],
   [cmd |-> "read_dsk", begin_track |-> 0, end_track |-> 1, sides |-> "b"],
   [cmd |-> "read_trk", begin_track |-> 1, end_track |-> 2, sides |-> "a"],
   [cmd |-> "read_trk", begin_track |-> 0, end_track |-> 0, sides |-> "t"],
   [cmd |-> "exec", begin_track |-> 0, end_track |-> 0, sides |-> "a"]}

Fill(n)  == [k \in 1 .. n |-> "fill"]
Frame(n) == <<"BOF">> \o [k \in 1 .. n |-> "data"] \o <<"EOF">>

StreamOf(lead, frames, gap) ==
  Fill(lead) \o FlattenSeq([f \in 1 .. Len(frames) |-> Frame(frames[f]) \o Fill(gap)])
  \o <<"EOT">>

(* With blocks of three bytes, BOF, EOF and EOT come at any place in one;   *)
(* some streams end in their first block, some begin or end too late.       *)
ShortStreams ==
  {StreamOf(lead, frames, gap) : lead \in 0 .. 6, gap \in 0 .. 2,
                                 frames \in {<<>>, <<0>>, <<2>>, <<1, 2>>, <<3, 0, 1>>}}
=============================================================================
