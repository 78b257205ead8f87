---------------------------- MODULE DiskCapture ----------------------------
(***************************************************************************)
(* What a capture of a disk promises: its files hold the tracks their      *)
(* names say, one after the other, and success is reported only when the   *)
(* last one is there.  Each of them is whole unless the disk of the host   *)
(* failed while it was written: then it is cut, the capture goes on, and   *)
(* the report of success says nothing of it.                               *)
(***************************************************************************)
EXTENDS Naturals, Sequences

VARIABLES
  order,      \* places asked for
  image,      \* places in the files, in the order they were saved
  cut,        \* files, by their number, that the disk of the host cut
  reported    \* success was reported

Save ==
  /\ Len(image) < Len(order)
  /\ image' = Append(image, order[Len(image) + 1])
  /\ cut' \in {cut, cut \cup {Len(image) + 1}}
  /\ UNCHANGED <<order, reported>>

Report ==
  /\ image = order
  /\ reported' = TRUE
  /\ UNCHANGED <<order, image, cut>>

CaptureSpec ==
  /\ image = <<>> /\ cut = {} /\ reported = FALSE
  /\ [][~reported /\ (Save \/ Report)]_<<order, image, cut, reported>>
=============================================================================
