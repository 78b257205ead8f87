----------------------------- MODULE TrackStore -----------------------------
(***************************************************************************)
(* What the card promises the sampler whatever happens to a command: a     *)
(* save touches the file it names and nothing else, and that file then     *)
(* holds a beginning of the data; a new directory adds an empty one.       *)
(***************************************************************************)
EXTENDS SequencesExt

CONSTANTS
  Dirs, Tracks,  \* names of directories and of tracks
  Streams        \* what a track buffer may hold

VARIABLES
  dirs,    \* directories on the card
  files    \* <<directory, name>> -> contents, those of the root included

store == <<dirs, files>>

MakeDir(d) ==
  /\ d \notin dirs
  /\ dirs' = dirs \cup {d}
  /\ UNCHANGED files

SaveTrack(d, t) ==
  /\ d \in dirs
  /\ DOMAIN files' = DOMAIN files \cup {<<d, t>>}
  /\ \A f \in DOMAIN files \ {<<d, t>>} : files'[f] = files[f]
  /\ \E data \in Streams : IsPrefix(files'[<<d, t>>], data)
  /\ UNCHANGED dirs

StoreNext ==
  \/ \E d \in Dirs : MakeDir(d)
  \/ \E d \in Dirs, t \in Tracks : SaveTrack(d, t)

TrackStoreSpec == dirs \subseteq Dirs /\ [][StoreNext]_store
=============================================================================
