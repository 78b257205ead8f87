--------------------------- MODULE DiskReadProofs ---------------------------
(***************************************************************************)
(* For drives with any number of cylinders, cards with any directories and *)
(* any number of commands: the head is where track.c counts it, a file     *)
(* holds the track its name says, and disk_read_all writes its own         *)
(* directory, with a file for each track if it gets to its end, and leaves *)
(* the drive as it found it.                                               *)
(*                                                                         *)
(* None of these is inductive.  What disk_read_all does at its end goes    *)
(* back to what it found at its beginning: the flags en and mot to the     *)
(* status it changed (Restoring), the directory to the card it was made on *)
(* (Keeping), the files to the range, the count of the loop and the place  *)
(* of the head (Filling).                                                  *)
(***************************************************************************)
EXTENDS DiskRead, TLAPS, WellFoundedInduction

Stations  == {"select", "motor"}
Preparing == {"find", "make", "start"}
Looping   == {"read", "save", "next"}

Restoring ==
  /\ run.pc # "loop" => before.status \subseteq Stations
  /\ run.pc \in Preparing => status = before.status
  /\ run.pc \in Looping \cup {"stop"} =>
       /\ status = Stations
       /\ run.en = ("select" \notin before.status)
       /\ run.mot = ("motor" \notin before.status)

(* The directory of this run is its own. *)
OwnDirectory == dir_name \in DOMAIN card \ DOMAIN before.card

Keeping ==
  /\ run.pc \in {"find", "make", "save"} => run.save
  /\ run.pc # "loop" =>
       \A d \in DOMAIN before.card : d \in DOMAIN card /\ card[d] = before.card[d]
  /\ run.pc \in {"start", "stop"} \cup Looping /\ run.save => OwnDirectory

Counting == DriveFits => HeadInStep /\ max_track <= HeadMax

(* The number in the buffer is that of the place it was read from. *)
Naming ==
  DriveFits /\ buf.from # Simulated => buf.num = 2 * buf.from.cylinder + buf.from.side

(* The tracks of the range are on the disk. *)
RangeFits == run.end <= 2 * (max_track + 1)

(* The directory holds the tracks of the range in front of track n. *)
FilledTo(n) ==
  /\ dir_name \in DOMAIN card
  /\ Files(dir_name) = run.begin .. n - 1
  /\ \A m \in Files(dir_name) : card[dir_name][m].state # "failed"

Filling ==
  /\ run.pc \in Preparing => run.t = run.begin
  /\ run.pc \in Looping => run.begin <= run.t /\ run.t < run.end
  /\ run.pc \in Preparing \cup Looping => last # "R complete"
  /\ run.pc \in Looping /\ RangeFits => 2 * at.track + at.side = run.t
  /\ run.pc = "save" /\ RangeFits => buf.num = run.t
  /\ run.save /\ RangeFits =>
       /\ run.pc \in {"start", "read", "save"} => FilledTo(run.t)
       /\ run.pc = "next" => FilledTo(run.t + 1)
       /\ run.pc \in {"stop", "loop"} /\ last = "R complete" => FilledTo(run.end)

DiskInv == /\ TypeOK
           /\ Restoring
           /\ Keeping
           /\ Counting
           /\ Naming
           /\ SavedUnderItsName
           /\ Filling

-----------------------------------------------------------------------------
(***************************************************************************)
(* Least and largest members, and the moves of the head.                   *)
(***************************************************************************)

LEMMA LeastNatural ==
  ASSUME NEW S \in SUBSET Nat, S # {}
  PROVE  \E m \in S : \A n \in S : m <= n
<1> DEFINE Less == {pair \in Nat \X Nat : pair[1] < pair[2]}
<1>1. IsWellFoundedOn(Less, Nat)
  BY NatLessThanWellFounded DEF OpToRel
<1>2. \A m, n \in Nat : n < m => <<n, m>> \in Less
  OBVIOUS
<1> HIDE DEF Less
<1>3. PICK m \in S : \A n \in S : ~ (<<n, m>> \in Less)
  BY <1>1, WFMin
<1>4. \A n \in S : ~ (n < m)
  BY <1>2, <1>3
<1>. QED  BY <1>4

LEMMA LargestNatural ==
  ASSUME NEW N \in Nat, NEW S \in SUBSET (0 .. N), S # {}
  PROVE  Max(S) \in S /\ \A n \in S : Max(S) >= n
<1> DEFINE Gaps == {g \in Nat : N - g \in S}
<1>1. \A n \in S : N - n \in Gaps
  OBVIOUS
<1>2. PICK g \in Gaps : \A h \in Gaps : g <= h
  BY <1>1, LeastNatural, Gaps \in SUBSET Nat
<1>3. \A n \in S : N - g >= n
  <2> TAKE n \in S
  <2>1. N - n \in Gaps /\ g \in Nat /\ n \in Nat
    BY <1>1, <1>2
  <2>2. g <= N - n
    BY <1>2, <2>1
  <2>. QED  BY <2>1, <2>2
<1>4. \E m \in S : \A n \in S : m >= n
  BY <1>2, <1>3
<1>. QED  BY <1>4 DEF Max

LEMMA SamplerResults ==
  /\ Min(SamplerErrors) \in SamplerErrors
  /\ Max(SamplerErrors) \in SamplerErrors
<1>1. Min(SamplerErrors) \in SamplerErrors
  <2>1. \E m \in SamplerErrors : \A n \in SamplerErrors : m =< n
    BY 1 \in SamplerErrors DEF SamplerErrors
  <2>. QED  BY <2>1 DEF Min
<1>2. Max(SamplerErrors) \in SamplerErrors
  BY LargestNatural, SamplerErrors \subseteq 0 .. 15, SamplerErrors # {} DEF SamplerErrors
<1>. QED  BY <1>1, <1>2

LEMMA FreeDirFits ==
  ASSUME NEW dirs \in SUBSET (0 .. DirMax)
  PROVE  FreeDir(dirs) \in 0 .. DirMax
<1> DEFINE Numbers == {0} \cup {(d + 1) % (DirMax + 1) : d \in dirs}
<1>1. Numbers \subseteq 0 .. DirMax
  BY DiskAssumption DEF DiskAssumption
<1>2. Max(Numbers) \in Numbers
  BY <1>1, LargestNatural, DiskAssumption DEF DiskAssumption
<1>. QED  BY <1>1, <1>2 DEF FreeDir

Positions == [track : 0 .. 255, side : 0 .. 1, head : 0 .. HeadMax]
Straight  == {pos \in Positions : pos.head = pos.track}

LEMMA Zeroed ==
  ASSUME NEW pos \in Positions
  PROVE  /\ track_zero(pos) \in Positions
         /\ track_zero(pos).track = 0 /\ track_zero(pos).side = 0
         /\ HeadMax <= SEEK_STEPS => track_zero(pos) \in Straight
BY DiskAssumption DEF DiskAssumption, Positions, Straight, track_zero, Out

LEMMA StepIn ==
  ASSUME NEW pos \in Positions, NEW n \in Nat, max_track \in 0 .. 255
  PROVE  /\ track_step_next(pos, n) \in Positions
         /\ max_track <= HeadMax /\ pos \in Straight => track_step_next(pos, n) \in Straight
<1>1. pos.track \in 0 .. 255 /\ pos.side \in 0 .. 1 /\ pos.head \in 0 .. HeadMax /\ HeadMax \in Nat
  BY DiskAssumption DEF DiskAssumption, Positions
<1>2. CASE ~ MayStep(pos, n)
  BY <1>2 DEF track_step_next
<1>3. CASE MayStep(pos, n)
  <2> DEFINE new == [track |-> pos.track + n, side |-> pos.side, head |-> In(pos.head, n)]
  <2>1. track_step_next(pos, n) = new
    BY <1>3 DEF track_step_next, Positions
  <2>2. pos.track + n <= max_track /\ pos.track + n \in 0 .. 255
    <3>1. pos.track + n <= max_track
      BY <1>3 DEF MayStep
    <3>2. \A t, m \in 0 .. 255 : t + n <= m => t + n \in 0 .. 255
      OBVIOUS
    <3>. QED  BY <1>1, <3>1, <3>2
  <2>3. In(pos.head, n) \in 0 .. HeadMax
    BY <1>1 DEF In
  <2>4. max_track <= HeadMax /\ pos.head = pos.track => In(pos.head, n) = pos.track + n
    BY <1>1, <2>2 DEF In
  <2>. QED  BY <1>1, <2>1, <2>2, <2>3, <2>4 DEF Positions, Straight
<1>. QED  BY <1>2, <1>3

LEMMA StepOut ==
  ASSUME NEW pos \in Positions, NEW n \in Nat
  PROVE  /\ track_step_prev(pos, n) \in Positions
         /\ pos \in Straight => track_step_prev(pos, n) \in Straight
<1>1. pos.track \in 0 .. 255 /\ pos.side \in 0 .. 1 /\ pos.head \in 0 .. HeadMax /\ HeadMax \in Nat
  BY DiskAssumption DEF DiskAssumption, Positions
<1>2. CASE ~ (pos.track >= n)
  BY <1>2 DEF track_step_prev
<1>3. CASE pos.track >= n
  <2> DEFINE new == [track |-> pos.track - n, side |-> pos.side, head |-> Out(pos.head, n)]
  <2>1. track_step_prev(pos, n) = new
    BY <1>3 DEF track_step_prev, Positions
  <2>2. pos.track - n \in 0 .. 255
    <3>1. \A t \in 0 .. 255 : t >= n => t - n \in 0 .. 255
      OBVIOUS
    <3>. QED  BY <1>1, <1>3, <3>1
  <2>3. Out(pos.head, n) \in 0 .. HeadMax
    BY <1>1 DEF Out
  <2>4. pos.head = pos.track => Out(pos.head, n) = pos.track - n
    BY <1>1, <1>3 DEF Out
  <2>. QED  BY <1>1, <2>1, <2>2, <2>3, <2>4 DEF Positions, Straight
<1>. QED  BY <1>2, <1>3

LEMMA Toggled ==
  ASSUME NEW pos \in Positions
  PROVE  /\ track_side_toggle(pos) \in Positions
         /\ track_side_toggle(pos).side = 1 - pos.side
         /\ track_side_toggle(pos).track = pos.track
         /\ pos \in Straight => track_side_toggle(pos) \in Straight
BY DEF Positions, Straight, track_side_toggle

LEMMA OneIn ==
  ASSUME NEW pos \in Positions, max_track \in 0 .. 255
  PROVE  /\ NextPos(pos) \in Positions
         /\ max_track <= HeadMax /\ pos \in Straight => NextPos(pos) \in Straight
BY Toggled, StepIn DEF NextPos

LEMMA OneOut ==
  ASSUME NEW pos \in Positions
  PROVE  /\ PrevPos(pos) \in Positions
         /\ pos \in Straight => PrevPos(pos) \in Straight
BY Toggled, StepOut DEF PrevPos

(* Below the last track of the disk, the next one is one more.             *)
LEMMA OneCounted ==
  ASSUME NEW pos \in Positions, max_track \in 0 .. 255,
         2 * pos.track + pos.side + 1 < 2 * (max_track + 1)
  PROVE  2 * NextPos(pos).track + NextPos(pos).side = 2 * pos.track + pos.side + 1
<1> DEFINE over == track_side_toggle(pos)
<1>1. over \in Positions /\ over.side = 1 - pos.side /\ over.track = pos.track
  BY Toggled
<1>2. pos.track \in 0 .. 255 /\ pos.side \in 0 .. 1
  BY DEF Positions
<1>3. CASE pos.side = 0
  BY <1>1, <1>2, <1>3 DEF NextPos
<1>4. CASE pos.side = 1
  <2>1. over.side = 0 /\ MayStep(over, 1)
    BY <1>1, <1>2, <1>4 DEF MayStep
  <2>2. NextPos(pos).track = over.track + 1 /\ NextPos(pos).side = 0
    BY <1>1, <2>1 DEF NextPos, track_step_next, Positions
  <2>. QED  BY <1>1, <1>2, <1>4, <2>2
<1>. QED  BY <1>2, <1>3, <1>4

(***************************************************************************)
(* Moving on by several tracks.  The k-th place is in the k-th of a        *)
(* sequence of sets if a move leads from each set to the next one.         *)
(***************************************************************************)
IsPath(g, n, P, pos, move) ==
  /\ g \in [0 .. n -> P]
  /\ g = [i \in 0 .. n |-> IF i = 0 THEN pos ELSE move[g[i - 1]]]

LEMMA PathExists ==
  ASSUME NEW P, NEW pos \in P, NEW move \in [P -> P], NEW number \in Nat
  PROVE  \E g : IsPath(g, number, P, pos, move)
<1> DEFINE Is(g, n) == IsPath(g, n, P, pos, move)
           S == {n \in Nat : ~ \E g : Is(g, n)}
<1> SUFFICES S = {}
  OBVIOUS
<1>1. SUFFICES ASSUME S # {}  PROVE FALSE
  OBVIOUS
<1>2. PICK n \in S : \A m \in S : n <= m
  BY <1>1, LeastNatural, S \in SUBSET Nat
<1>3. CASE n = 0
  <2>1. Is([i \in 0 .. 0 |-> pos], 0)
    BY DEF IsPath
  <2>. QED  BY <1>2, <1>3, <2>1
<1>4. CASE n # 0
  <2>1. n - 1 \in Nat /\ n - 1 \notin S
    BY <1>2, <1>4
  <2>2. PICK h : Is(h, n - 1)
    BY <2>1
  <2> DEFINE g == [i \in 0 .. n |-> IF i = n THEN move[h[n - 1]] ELSE h[i]]
  <2>3. n \in Nat /\ n > 0 /\ h \in [0 .. n - 1 -> P] /\ h[0] = pos
    BY <1>2, <1>4, <2>1, <2>2 DEF IsPath
  <2>4. \A i \in 1 .. n - 1 : h[i] = move[h[i - 1]]
    BY <2>2, <2>3 DEF IsPath
  <2>5. g \in [0 .. n -> P]
    BY <2>3
  <2>6. g[0] = pos /\ \A i \in 1 .. n : g[i] = move[g[i - 1]]
    BY <2>3, <2>4
  <2>7. g = [i \in 0 .. n |-> IF i = 0 THEN pos ELSE move[g[i - 1]]]
    <3> HIDE DEF g
    <3>. QED  BY <2>3, <2>5, <2>6
  <2>. QED  BY <1>2, <2>5, <2>7 DEF IsPath
<1>. QED  BY <1>3, <1>4

LEMMA PathStays ==
  ASSUME NEW n \in Nat, NEW f, NEW F,
         f[0] \in F[0],
         \A i \in 1 .. n : f[i - 1] \in F[i - 1] => f[i] \in F[i]
  PROVE  f[n] \in F[n]
<1> DEFINE S == {i \in 0 .. n : f[i] \notin F[i]}
<1>1. SUFFICES ASSUME S # {}  PROVE FALSE
  OBVIOUS
<1>2. PICK i \in S : \A m \in S : i <= m
  BY <1>1, LeastNatural, S \in SUBSET Nat
<1>3. i \in 1 .. n /\ i - 1 \in 0 .. n /\ i - 1 \notin S
  BY <1>2
<1>. QED  BY <1>2, <1>3

LEMMA NextPath ==
  ASSUME NEW pos \in Positions, NEW n \in Nat, max_track \in 0 .. 255
  PROVE  \E f : /\ f[0] = pos
                /\ \A i \in 1 .. n : f[i] = NextPos(f[i - 1])
                /\ track_next(pos, n) = f[n]
<1> DEFINE Is(f) == f = [i \in 0 .. n |-> IF i = 0 THEN pos ELSE NextPos(f[i - 1])]
           move  == [q \in Positions |-> NextPos(q)]
<1>1. move \in [Positions -> Positions] /\ \A q \in Positions : move[q] = NextPos(q)
  BY OneIn
<1> HIDE DEF move
<1>2. PICK g : IsPath(g, n, Positions, pos, move)
  BY <1>1, PathExists
<1>3. Is(g)
  <2>1. \A i \in 0 .. n : i # 0 => g[i - 1] \in Positions
    BY <1>2 DEF IsPath
  <2>. QED  BY <1>1, <1>2, <2>1 DEF IsPath
<1>4. track_next(pos, n) = (CHOOSE f : Is(f))[n]
  BY DEF track_next, Iterate
<1> HIDE DEF Is
<1>5. PICK f : Is(f) /\ track_next(pos, n) = f[n]
  BY <1>3, <1>4
<1>6. f[0] = pos /\ \A i \in 1 .. n : f[i] = NextPos(f[i - 1])
  BY <1>5 DEF Is
<1>. QED  BY <1>5, <1>6

LEMMA PrevPath ==
  ASSUME NEW pos \in Positions, NEW n \in Nat
  PROVE  \E f : /\ f[0] = pos
                /\ \A i \in 1 .. n : f[i] = PrevPos(f[i - 1])
                /\ track_prev(pos, n) = f[n]
<1> DEFINE Is(f) == f = [i \in 0 .. n |-> IF i = 0 THEN pos ELSE PrevPos(f[i - 1])]
           move  == [q \in Positions |-> PrevPos(q)]
<1>1. move \in [Positions -> Positions] /\ \A q \in Positions : move[q] = PrevPos(q)
  BY OneOut
<1> HIDE DEF move
<1>2. PICK g : IsPath(g, n, Positions, pos, move)
  BY <1>1, PathExists
<1>3. Is(g)
  <2>1. \A i \in 0 .. n : i # 0 => g[i - 1] \in Positions
    BY <1>2 DEF IsPath
  <2>. QED  BY <1>1, <1>2, <2>1 DEF IsPath
<1>4. track_prev(pos, n) = (CHOOSE f : Is(f))[n]
  BY DEF track_prev, Iterate
<1> HIDE DEF Is
<1>5. PICK f : Is(f) /\ track_prev(pos, n) = f[n]
  BY <1>3, <1>4
<1>6. f[0] = pos /\ \A i \in 1 .. n : f[i] = PrevPos(f[i - 1])
  BY <1>5 DEF Is
<1>. QED  BY <1>5, <1>6

LEMMA ManyIn ==
  ASSUME NEW pos \in Positions, NEW n \in Nat, max_track \in 0 .. 255
  PROVE  /\ track_next(pos, n) \in Positions
         /\ max_track <= HeadMax /\ pos \in Straight => track_next(pos, n) \in Straight
<1>1. PICK f : /\ f[0] = pos
               /\ \A i \in 1 .. n : f[i] = NextPos(f[i - 1])
               /\ track_next(pos, n) = f[n]
  BY NextPath
<1>2. track_next(pos, n) \in Positions
  <2> DEFINE F == [i \in 0 .. n |-> Positions]
  <2>1. f[0] \in F[0]
    BY <1>1
  <2>2. \A i \in 1 .. n : f[i - 1] \in F[i - 1] => f[i] \in F[i]
    BY <1>1, OneIn
  <2>3. F[n] = Positions
    OBVIOUS
  <2> HIDE DEF F
  <2>. QED  BY <1>1, <2>1, <2>2, <2>3, PathStays
<1>3. ASSUME max_track <= HeadMax, pos \in Straight  PROVE track_next(pos, n) \in Straight
  <2> DEFINE F == [i \in 0 .. n |-> Straight]
  <2>1. f[0] \in F[0]
    BY <1>1, <1>3
  <2>2. \A i \in 1 .. n : f[i - 1] \in F[i - 1] => f[i] \in F[i]
    BY <1>1, <1>3, OneIn, Straight \subseteq Positions DEF Straight
  <2>3. F[n] = Straight
    OBVIOUS
  <2> HIDE DEF F
  <2>. QED  BY <1>1, <2>1, <2>2, <2>3, PathStays
<1>. QED  BY <1>2, <1>3

LEMMA ManyOut ==
  ASSUME NEW pos \in Positions, NEW n \in Nat
  PROVE  /\ track_prev(pos, n) \in Positions
         /\ pos \in Straight => track_prev(pos, n) \in Straight
<1>1. PICK f : /\ f[0] = pos
               /\ \A i \in 1 .. n : f[i] = PrevPos(f[i - 1])
               /\ track_prev(pos, n) = f[n]
  BY PrevPath
<1>2. track_prev(pos, n) \in Positions
  <2> DEFINE F == [i \in 0 .. n |-> Positions]
  <2>1. f[0] \in F[0]
    BY <1>1
  <2>2. \A i \in 1 .. n : f[i - 1] \in F[i - 1] => f[i] \in F[i]
    BY <1>1, OneOut
  <2>3. F[n] = Positions
    OBVIOUS
  <2> HIDE DEF F
  <2>. QED  BY <1>1, <2>1, <2>2, <2>3, PathStays
<1>3. ASSUME pos \in Straight  PROVE track_prev(pos, n) \in Straight
  <2> DEFINE F == [i \in 0 .. n |-> Straight]
  <2>1. f[0] \in F[0]
    BY <1>1, <1>3
  <2>2. \A i \in 1 .. n : f[i - 1] \in F[i - 1] => f[i] \in F[i]
    BY <1>1, OneOut, Straight \subseteq Positions DEF Straight
  <2>3. F[n] = Straight
    OBVIOUS
  <2> HIDE DEF F
  <2>. QED  BY <1>1, <2>1, <2>2, <2>3, PathStays
<1>. QED  BY <1>2, <1>3

(* From track zero, n tracks on is track n of the disk. *)
LEMMA ManyCounted ==
  ASSUME NEW pos \in Positions, NEW n \in Nat, max_track \in 0 .. 255,
         pos.track = 0, pos.side = 0, n < 2 * (max_track + 1)
  PROVE  2 * track_next(pos, n).track + track_next(pos, n).side = n
<1> DEFINE Reached(k) == {q \in Positions : 2 * q.track + q.side = k}
           F == [i \in 0 .. n |-> Reached(i)]
<1>1. PICK f : /\ f[0] = pos
               /\ \A i \in 1 .. n : f[i] = NextPos(f[i - 1])
               /\ track_next(pos, n) = f[n]
  BY NextPath
<1>2. f[0] \in F[0]
  BY <1>1
<1>3. ASSUME NEW i \in 1 .. n, f[i - 1] \in F[i - 1]  PROVE f[i] \in F[i]
  <2>1. i - 1 \in 0 .. n /\ i \in 0 .. n
    OBVIOUS
  <2>2. f[i - 1] \in Positions /\ 2 * f[i - 1].track + f[i - 1].side = i - 1
    BY <1>3, <2>1
  <2>3. (i - 1) + 1 = i /\ i < 2 * (max_track + 1)
    OBVIOUS
  <2>4. 2 * NextPos(f[i - 1]).track + NextPos(f[i - 1]).side = i
    BY <2>2, <2>3, OneCounted
  <2>. QED  BY <1>1, <2>1, <2>2, <2>4, OneIn
<1>4. F[n] = Reached(n)
  OBVIOUS
<1> HIDE DEF F
<1>5. f[n] \in F[n]
  BY <1>2, <1>3, PathStays
<1>. QED  BY <1>1, <1>4, <1>5

LEMMA OnceIn == ASSUME NEW pos \in Positions, max_track \in 0 .. 255
                PROVE  track_next(pos, 1) = NextPos(pos)
<1>1. PICK f : /\ f[0] = pos
               /\ \A i \in 1 .. 1 : f[i] = NextPos(f[i - 1])
               /\ track_next(pos, 1) = f[1]
  BY NextPath
<1>. QED  BY <1>1

-----------------------------------------------------------------------------
(***************************************************************************)
(* What the sampler, the directories and the files of the card do.         *)
(***************************************************************************)

Places  == {Simulated} \cup [cylinder : 0 .. HeadMax, side : 0 .. 1]
Buffers == [num : 0 .. 255, size : 0 .. 1, from : Places]

LEMMA NumFacts ==
  ASSUME NEW pos \in Positions
  PROVE  /\ Num(pos) \in 0 .. 255
         /\ pos.track <= 127 => Num(pos) = 2 * pos.track + pos.side
<1>1. pos.track \in 0 .. 255 /\ pos.side \in 0 .. 1
  BY DEF Positions
<1>2. \A t \in 0 .. 255, s \in 0 .. 1 : (2 * t + s) % 256 \in 0 .. 255
  OBVIOUS
<1>3. \A t \in 0 .. 127, s \in 0 .. 1 : (2 * t + s) % 256 = 2 * t + s
  OBVIOUS
<1>. QED  BY <1>1, <1>2, <1>3 DEF Num

LEMMA UnderFacts ==
  ASSUME NEW pos \in Positions
  PROVE  /\ Under(pos) \in Places
         /\ Under(pos).cylinder = pos.head /\ Under(pos).side = pos.side
BY DEF Positions, Under, Places

LEMMA SampledFacts ==
  ASSUME at \in Positions, buf \in Buffers, NEW from \in Places, Sampled(from)
  PROVE  /\ result' \in 0 .. 255 /\ buf' \in Buffers
         /\ buf' \in {Empty, [num |-> track_num, from |-> from, size |-> 1]}
         /\ result' = STATUS_OK => buf'.num = track_num
<1>1. track_num \in 0 .. 255
  BY NumFacts DEF track_num
<1>2. SamplerErrors \subseteq 1 .. 15 /\ STATUS_OK = 0
  BY DEF SamplerErrors, STATUS_OK
<1>3. Empty \in Buffers /\ [num |-> track_num, from |-> from, size |-> 1] \in Buffers
  BY <1>1 DEF Empty, Buffers, Places
<1>4. \/ result' = STATUS_OK /\ buf' = [num |-> track_num, from |-> from, size |-> 1]
      \/ result' \in 1 .. 15 /\ buf' \in {Empty, [num |-> track_num, from |-> from, size |-> 1]}
  BY <1>2, SamplerResults DEF Sampled
<1>. QED  BY <1>2, <1>3, <1>4

(* A directory made is a new one, also if that is reported as an error,    *)
(* and the others stay as they are.                                        *)
LEMMA MadeFacts ==
  ASSUME dir_name \in 0 .. DirMax, DOMAIN card \subseteq 0 .. DirMax,
         NEW num \in 0 .. DirMax, file_make_disk_dir(num)
  PROVE  /\ result' \in 0 .. 255 /\ dir_name' \in 0 .. DirMax
         /\ DOMAIN card' \subseteq 0 .. DirMax
         /\ \/ card' = card /\ result' # STATUS_OK
            \/ /\ dir_name' = num
               /\ num \notin DOMAIN card /\ DOMAIN card' = DOMAIN card \cup {num}
               /\ card'[num] = << >>
               /\ \A d \in DOMAIN card : card'[d] = card[d]
BY DEF file_make_disk_dir, CardError, STATUS_OK, ERROR_FILE

LEMMA WithFileFacts ==
  ASSUME dir_name \in DOMAIN card, NEW file
  PROVE  /\ DOMAIN WithFile(file) = DOMAIN card
         /\ DOMAIN WithFile(file)[dir_name] = Files(dir_name) \cup {buf.num}
         /\ WithFile(file)[dir_name][buf.num] = file
         /\ \A n \in Files(dir_name) :
              n # buf.num => WithFile(file)[dir_name][n] = card[dir_name][n]
         /\ \A d \in DOMAIN card : d # dir_name => WithFile(file)[d] = card[d]
BY DEF WithFile, Files, FileName

(* A save touches the file of the buffer's number in the directory, if it  *)
(* touches anything, and that file is not one of a failed save if the save *)
(* is reported as done.                                                    *)
LEMMA SavedFacts ==
  ASSUME file_save_buffer
  PROVE  /\ dir_name' = dir_name /\ result' \in 0 .. 255
         /\ \/ card' = card /\ result' # STATUS_OK
            \/ /\ dir_name \in DOMAIN card
               /\ \/ /\ result' = STATUS_OK
                     /\ \E state \in {"whole", "cut"} : card' = WithFile(File(state))
                  \/ result' # STATUS_OK /\ card' = WithFile(File("failed"))
BY DEF file_save_buffer, CardError, STATUS_OK, ERROR_FILE

(* A save leaves all but one file as it was. *)
LEMMA SavedKeeps ==
  ASSUME file_save_buffer
  PROVE  /\ DOMAIN card' = DOMAIN card
         /\ \A d \in DOMAIN card : d # dir_name => card'[d] = card[d]
         /\ \A d \in DOMAIN card : \A n \in DOMAIN card'[d] :
              \/ n \in DOMAIN card[d] /\ card'[d][n] = card[d][n]
              \/ n = buf.num /\ card'[d][n].from = buf.from
<1>1. CASE card' = card
  BY <1>1
<1>2. ASSUME dir_name \in DOMAIN card, NEW w, card' = WithFile(File(w))
      PROVE  /\ DOMAIN card' = DOMAIN card
             /\ \A d \in DOMAIN card : d # dir_name => card'[d] = card[d]
             /\ \A d \in DOMAIN card : \A n \in DOMAIN card'[d] :
                  \/ n \in DOMAIN card[d] /\ card'[d][n] = card[d][n]
                  \/ n = buf.num /\ card'[d][n].from = buf.from
  <2>1. File(w).from = buf.from
    BY DEF File
  <2>2. /\ DOMAIN card' = DOMAIN card
        /\ \A d \in DOMAIN card : d # dir_name => card'[d] = card[d]
    BY <1>2, WithFileFacts
  <2>3. \A n \in DOMAIN card'[dir_name] :
          \/ n \in DOMAIN card[dir_name] /\ card'[dir_name][n] = card[dir_name][n]
          \/ n = buf.num /\ card'[dir_name][n].from = buf.from
    BY <1>2, <2>1, WithFileFacts DEF Files
  <2>. QED  BY <2>2, <2>3
<1>. QED  BY <1>1, <1>2, SavedFacts

-----------------------------------------------------------------------------
(***************************************************************************)
(* The commands at the prompt.                                             *)
(***************************************************************************)

LEMMA InitInv == Init => DiskInv
<1> SUFFICES ASSUME Init PROVE DiskInv
  OBVIOUS
<1>1. PICK h \in 0 .. HeadMax : at = track_zero([track |-> 0, side |-> 0, head |-> h])
  BY DEF Init
<1>2. [track |-> 0, side |-> 0, head |-> h] \in Positions
  BY DEF Positions
<1>3. at \in Positions /\ (HeadMax <= SEEK_STEPS => at \in Straight)
  BY <1>1, <1>2, Zeroed
<1>4. TypeOK
  <2>1. buf \in Buffers
    BY DEF Init, Empty, Buffers, Places
  <2>2. run \in [pc : {"loop", "find", "make", "start", "read", "save", "next", "stop"},
                  begin : 0 .. 255, t : 0 .. 255, end : 0 .. 255, save : BOOLEAN,
                  en : BOOLEAN, mot : BOOLEAN]
    BY DEF Init, NoRun
  <2>3. DOMAIN card \subseteq 0 .. DirMax
    BY DEF Init
  <2>4. /\ status \subseteq {"select", "motor"} /\ max_track \in 0 .. 255
        /\ is_init \in BOOLEAN /\ dir_name \in 0 .. DirMax
        /\ result \in 0 .. 255 /\ commands \in 0 .. MaxCommands
    BY DiskAssumption DEF DiskAssumption, Init, STATUS_OK
  <2>. QED  BY <1>3, <2>1, <2>2, <2>3, <2>4 DEF TypeOK, Positions, Buffers, Places
<1>5. run.pc = "loop" /\ ~ run.save /\ last = "boot" /\ buf.from = Simulated
  BY DEF Init, NoRun, Empty
<1>6. Restoring /\ Keeping /\ Naming /\ Filling
  BY <1>5 DEF Restoring, Keeping, Naming, Filling, Preparing, Looping
<1>7. Counting
  BY <1>3 DEF Counting, DriveFits, HeadInStep, Straight, Init
<1>8. SavedUnderItsName
  <2>1. PICK D : card = [d \in D |-> << >>]
    BY DEF Init
  <2>2. \A d \in DOMAIN card : Files(d) = {}
    BY <2>1 DEF Files
  <2>. QED  BY <2>2 DEF SavedUnderItsName
<1>. QED  BY <1>4, <1>6, <1>7, <1>8 DEF DiskInv

Moves == \/ cmd_floppy \/ track_init \/ cmd_zero \/ Walk \/ Sides
         \/ track_check_max \/ track_set_max

CountedHere == HeadInStep /\ max_track <= HeadMax

LEMMA MoveFacts ==
  ASSUME TypeOK, Counting, Moves
  PROVE  /\ at' \in Positions /\ status' \subseteq Stations
         /\ max_track' \in 0 .. 255 /\ is_init' \in BOOLEAN /\ result' \in 0 .. 255
         /\ DriveFits => CountedHere'
<1> DEFINE Goal == /\ at' \in Positions /\ status' \subseteq Stations
                   /\ max_track' \in 0 .. 255 /\ is_init' \in BOOLEAN
                   /\ result' \in 0 .. 255
                   /\ DriveFits => CountedHere'
<1>1. /\ at \in Positions /\ status \subseteq Stations
      /\ max_track \in 0 .. 255 /\ is_init \in BOOLEAN
  BY DEF TypeOK, Positions, Stations
<1>2. DriveFits => at \in Straight /\ max_track <= HeadMax
  BY <1>1 DEF Counting, HeadInStep, Straight
<1>3. STATUS_OK \in 0 .. 255
  BY DEF STATUS_OK
<1>4. ASSUME at' \in Positions, DriveFits => at' \in Straight,
             max_track' = max_track, is_init' = is_init, status' = status,
             result' \in {STATUS_OK, Num(at')}
      PROVE  Goal
  BY <1>1, <1>2, <1>3, <1>4, NumFacts DEF CountedHere, HeadInStep, Straight
<1>5. CASE cmd_floppy
  BY <1>1, <1>2, <1>3, <1>5 DEF cmd_floppy, Stations, CountedHere, HeadInStep, Straight
<1>6. CASE track_init
  <2>1. CASE is_init
    BY <1>1, <1>2, <1>4, <1>6, <2>1 DEF track_init, Moved
  <2>2. CASE ~ is_init
    <3>1. at' = track_zero(at) /\ max_track' = MAX_TRACK
      BY <1>6, <2>2 DEF track_init, Moved
    <3>2. at' \in Positions /\ (DriveFits => at' \in Straight /\ max_track' <= HeadMax)
      BY <1>1, <3>1, Zeroed DEF DriveFits
    <3>3. max_track' \in 0 .. 255
      BY <3>1, DiskAssumption DEF DiskAssumption
    <3>4. CountedHere' = (at'.head = at'.track /\ max_track' <= HeadMax)
      BY DEF CountedHere, HeadInStep
    <3>. QED  BY <1>1, <1>3, <1>6, <3>2, <3>3, <3>4 DEF track_init, Moved, Straight
  <2>. QED  BY <1>1, <2>1, <2>2
<1>7. CASE cmd_zero
  <2>1. at' = track_zero(at)
    BY <1>7 DEF cmd_zero, Moved
  <2>. QED  BY <1>1, <1>4, <1>7, <2>1, Zeroed DEF cmd_zero, Moved, DriveFits
<1>8. CASE Walk
  <2>1. PICK n \in StepArgs :
          at' \in {track_step_next(at, n), track_step_prev(at, n),
                   track_next(at, n), track_prev(at, n)}
    BY <1>8 DEF Walk, Moved
  <2>2. n \in Nat
    BY DiskAssumption DEF DiskAssumption
  <2>3. at' \in Positions /\ (DriveFits => at' \in Straight)
    BY <1>1, <1>2, <2>1, <2>2, StepIn, StepOut, ManyIn, ManyOut
  <2>. QED  BY <1>4, <1>8, <2>3 DEF Walk, Moved
<1>9. CASE Sides
  <2>1. PICK s \in 0 .. 1 : at' = [at EXCEPT !.side = s]
    BY <1>9 DEF Sides, Moved
  <2>2. at' \in Positions /\ (DriveFits => at' \in Straight)
    BY <1>1, <1>2, <2>1 DEF Positions, Straight
  <2>. QED  BY <1>4, <1>9, <2>2 DEF Sides, Moved
<1>10. CASE track_check_max
  <2> DEFINE inner == In(Out(at.head, SEEK_STEPS), SEEK_STEPS)
             steps == IF inner < SEEK_STEPS THEN inner ELSE SEEK_STEPS
  <2>1. /\ at' = [at EXCEPT !.track = 0, !.head = Out(inner, SEEK_STEPS)]
        /\ max_track' = (steps - 1) % 256 /\ result' = max_track'
        /\ status' = status /\ is_init' = is_init
    BY <1>10 DEF track_check_max, Moved
  <2>2. at.head \in 0 .. HeadMax /\ HeadMax \in Nat /\ SEEK_STEPS \in 0 .. 255
    BY <1>1, DiskAssumption DEF DiskAssumption, Positions
  <2>3. inner \in 0 .. HeadMax
    BY <2>2 DEF In, Out
  <2>4. Out(inner, SEEK_STEPS) \in 0 .. HeadMax
    BY <2>2, <2>3 DEF Out
  <2>5. steps \in 0 .. 255
    BY <2>2, <2>3
  <2>6. max_track' \in 0 .. 255
    <3>1. \A k \in 0 .. 255 : (k - 1) % 256 \in 0 .. 255
      OBVIOUS
    <3> HIDE DEF steps
    <3>. QED  BY <2>1, <2>5, <3>1
  <2>7. at' \in Positions
    <3> DEFINE h == Out(inner, SEEK_STEPS)
    <3>1. h \in 0 .. HeadMax /\ at' = [at EXCEPT !.track = 0, !.head = h]
      BY <2>1, <2>4
    <3> HIDE DEF h
    <3>2. at' = [track |-> 0, side |-> at.side, head |-> h]
      BY <1>1, <3>1 DEF Positions
    <3>3. 0 \in 0 .. 255 /\ at.side \in 0 .. 1
      BY <1>1 DEF Positions
    <3>. QED  BY <3>1, <3>2, <3>3 DEF Positions
  <2>8. DriveFits => CountedHere'
    <3> SUFFICES ASSUME DriveFits PROVE CountedHere'
      OBVIOUS
    <3>1. HeadMax \in 1 .. 127 /\ HeadMax <= SEEK_STEPS
      BY DEF DriveFits
    <3>2. inner = HeadMax
      BY <2>2, <3>1 DEF In, Out
    <3>3. steps = HeadMax
      BY <2>2, <3>1, <3>2
    <3>4. Out(inner, SEEK_STEPS) = 0
      BY <2>2, <3>1, <3>2 DEF Out
    <3>5. max_track' = HeadMax - 1
      BY <2>1, <3>1, <3>3
    <3>6. at'.head = 0 /\ at'.track = 0
      BY <1>1, <2>1, <3>4 DEF Positions
    <3>. QED  BY <3>1, <3>5, <3>6 DEF CountedHere, HeadInStep
  <2>. QED  BY <1>1, <2>1, <2>6, <2>7, <2>8
<1>11. CASE track_set_max
  <2>1. PICK m \in MaxArgs : max_track' = IF m > CAP THEN CAP ELSE m
    BY <1>11 DEF track_set_max
  <2>2. m \in 0 .. 255 /\ CAP \in 0 .. 255 /\ HeadMax \in Nat
    BY DiskAssumption DEF DiskAssumption
  <2>3. max_track' \in 0 .. 255 /\ max_track' <= m /\ max_track' <= CAP
    BY <2>1, <2>2
  <2>4. DriveFits => max_track' <= HeadMax
    BY <2>2, <2>3 DEF DriveFits
  <2>5. at' = at /\ status' = status /\ is_init' = is_init /\ result' = max_track'
    BY <1>11 DEF track_set_max, Moved
  <2>. QED  BY <1>1, <1>2, <2>3, <2>4, <2>5 DEF CountedHere, HeadInStep, Straight
<1>. QED  BY <1>5, <1>6, <1>7, <1>8, <1>9, <1>10, <1>11 DEF Moves

Runs == [pc : {"loop", "find", "make", "start", "read", "save", "next", "stop"},
         begin : 0 .. 255, t : 0 .. 255, end : 0 .. 255, save : BOOLEAN,
         en : BOOLEAN, mot : BOOLEAN]

LEMMA TypeFacts ==
  TypeOK <=> /\ status \subseteq Stations
             /\ max_track \in 0 .. 255 /\ is_init \in BOOLEAN
             /\ at \in Positions /\ buf \in Buffers /\ dir_name \in 0 .. DirMax
             /\ DOMAIN card \subseteq 0 .. DirMax
             /\ run \in Runs
             /\ result \in 0 .. 255 /\ commands \in 0 .. MaxCommands
BY DEF TypeOK, Stations, Positions, Buffers, Places, Runs

LEMMA TypesNext ==
  TypeOK' <=> /\ status' \subseteq Stations
              /\ max_track' \in 0 .. 255 /\ is_init' \in BOOLEAN
              /\ at' \in Positions /\ buf' \in Buffers /\ dir_name' \in 0 .. DirMax
              /\ DOMAIN card' \subseteq 0 .. DirMax
              /\ run' \in Runs
              /\ result' \in 0 .. 255 /\ commands' \in 0 .. MaxCommands
BY DEF TypeOK, Stations, Positions, Buffers, Places, Runs

LEMMA CommandFacts ==
  ASSUME TypeOK, NEW name, Command(name)
  PROVE  /\ run.pc = "loop" /\ last' = name
         /\ commands' \in 0 .. MaxCommands
BY DiskAssumption DEF DiskAssumption, Command, TypeOK

(* A command at the prompt leaves nothing for disk_read_all to undo. *)
LEMMA AtPrompt ==
  ASSUME run.pc = "loop", run' = run, last' # "R complete"
  PROVE  Restoring' /\ Keeping' /\ Filling'
<1>1. run'.pc = "loop" /\ last' # "R complete"
  OBVIOUS
<1>2. Restoring'
  BY <1>1 DEF Restoring, Preparing, Looping
<1>3. Keeping'
  BY <1>1 DEF Keeping, Looping
<1>4. Filling'
  BY <1>1 DEF Filling, Preparing, Looping
<1>. QED  BY <1>2, <1>3, <1>4

LEMMA MoveInv == DiskInv /\ Moves => DiskInv'
<1> SUFFICES ASSUME DiskInv, Moves PROVE DiskInv'
  OBVIOUS
<1>1. TypeOK /\ Counting
  BY DEF DiskInv
<1>2. \E name \in {"f", "ti", "tz", "t+", "t-", "tn", "tp", "ts", "tc", "tm"} : Command(name)
  BY DEF Moves, cmd_floppy, track_init, cmd_zero, Walk, Sides, track_check_max,
         track_set_max, Moved
<1>3. run.pc = "loop" /\ last' # "R complete" /\ commands' \in 0 .. MaxCommands
  BY <1>1, <1>2, CommandFacts
<1>4. buf' = buf /\ dir_name' = dir_name /\ card' = card /\ run' = run /\ before' = before
  BY DEF Moves, cmd_floppy, track_init, cmd_zero, Walk, Sides, track_check_max,
         track_set_max, Moved, filing
<1>5. TypeOK'
  BY <1>1, <1>3, <1>4, MoveFacts, TypeFacts, TypesNext
<1>6. Counting'
  BY <1>1, MoveFacts DEF Counting, CountedHere
<1>7. Restoring' /\ Keeping' /\ Filling'
  BY <1>3, <1>4, AtPrompt
<1>8. Naming' /\ SavedUnderItsName'
  BY <1>4 DEF DiskInv, Naming, SavedUnderItsName, Files
<1>. QED  BY <1>5, <1>6, <1>7, <1>8 DEF DiskInv

LEMMA SampledNames ==
  ASSUME DiskInv, NEW from \in {Simulated, Under(at)}, Sampled(from)
  PROVE  Naming'
<1> SUFFICES ASSUME DriveFits, buf'.from # Simulated
             PROVE  buf'.num = 2 * buf'.from.cylinder + buf'.from.side
  BY DEF Naming
<1>1. at \in Positions /\ buf \in Buffers /\ Counting
  BY TypeFacts DEF DiskInv
<1>2. from \in Places
  BY <1>1, UnderFacts DEF Places
<1>3. buf' \in {Empty, [num |-> track_num, from |-> from, size |-> 1]}
  BY <1>1, <1>2, SampledFacts
<1>4. buf'.num = track_num /\ buf'.from = Under(at)
  BY <1>3 DEF Empty
<1>5. at.track <= 127 /\ at.head = at.track
  <2>1. at.head = at.track /\ at.head \in 0 .. HeadMax /\ HeadMax \in 1 .. 127
    BY <1>1 DEF Counting, HeadInStep, DriveFits, Positions
  <2>. QED  BY <2>1
<1>. QED  BY <1>1, <1>4, <1>5, NumFacts, UnderFacts DEF track_num

LEMMA SavedNames ==
  ASSUME Naming, SavedUnderItsName, file_save_buffer
  PROVE  SavedUnderItsName'
<1> SUFFICES ASSUME DriveFits, NEW d \in DOMAIN card', NEW n \in DOMAIN card'[d],
                    card'[d][n].from # Simulated
             PROVE  n = 2 * card'[d][n].from.cylinder + card'[d][n].from.side
  BY DEF SavedUnderItsName, Files
<1>1. d \in DOMAIN card
  BY SavedKeeps
<1>2. CASE n \in DOMAIN card[d] /\ card'[d][n] = card[d][n]
  BY <1>1, <1>2 DEF SavedUnderItsName, Files
<1>3. CASE n = buf.num /\ card'[d][n].from = buf.from
  BY <1>3 DEF Naming
<1>. QED  BY <1>1, <1>2, <1>3, SavedKeeps

LEMMA MadeNames ==
  ASSUME TypeOK, SavedUnderItsName, NEW num \in 0 .. DirMax, file_make_disk_dir(num)
  PROVE  SavedUnderItsName'
<1>1. \/ card' = card
      \/ /\ DOMAIN card' = DOMAIN card \cup {num} /\ card'[num] = << >>
         /\ \A d \in DOMAIN card : card'[d] = card[d]
  BY TypeFacts, MadeFacts
<1>2. \A d \in DOMAIN card' :
        \/ d \in DOMAIN card /\ card'[d] = card[d]
        \/ DOMAIN card'[d] = {}
  BY <1>1
<1>. QED  BY <1>2 DEF SavedUnderItsName, Files

LEMMA ReadTrackInv == DiskInv /\ ReadTrack => DiskInv'
<1> SUFFICES ASSUME DiskInv, ReadTrack PROVE DiskInv'
  OBVIOUS
<1>1. TypeOK
  BY DEF DiskInv
<1>2. PICK from \in {Simulated, Under(at)} : Sampled(from)
  BY DEF ReadTrack
<1>3. /\ run.pc = "loop" /\ last' # "R complete" /\ commands' \in 0 .. MaxCommands
      /\ run' = run /\ card' = card /\ at' = at /\ max_track' = max_track
      /\ status' = status /\ is_init' = is_init /\ dir_name' = dir_name
  <2>1. \E name \in {"rm", "rf"} : Command(name)
    BY DEF ReadTrack
  <2>2. /\ run.pc = "loop" /\ last' # "R complete" /\ commands' \in 0 .. MaxCommands
    BY <1>1, <2>1, CommandFacts
  <2>. QED  BY <2>2 DEF ReadTrack
<1>4. TypeOK'
  BY <1>1, <1>2, <1>3, SampledFacts, UnderFacts, TypeFacts, TypesNext DEF Places
<1>5. Restoring' /\ Keeping' /\ Filling'
  BY <1>3, AtPrompt
<1>6. Counting' /\ SavedUnderItsName'
  BY <1>3 DEF DiskInv, Counting, HeadInStep, SavedUnderItsName, Files
<1>7. Naming'
  BY <1>2, SampledNames
<1>. QED  BY <1>4, <1>5, <1>6, <1>7 DEF DiskInv

LEMMA SaveTrackInv == DiskInv /\ SaveTrack => DiskInv'
<1> SUFFICES ASSUME DiskInv, SaveTrack PROVE DiskInv'
  OBVIOUS
<1>1. TypeOK /\ Naming /\ SavedUnderItsName
  BY DEF DiskInv
<1>2. /\ run.pc = "loop" /\ last' # "R complete" /\ commands' \in 0 .. MaxCommands
      /\ run' = run /\ buf' = buf /\ at' = at /\ max_track' = max_track
      /\ status' = status /\ is_init' = is_init
  <2>1. \E name \in {"is"} : Command(name)
    BY DEF SaveTrack
  <2>2. /\ run.pc = "loop" /\ last' # "R complete" /\ commands' \in 0 .. MaxCommands
    BY <1>1, <2>1, CommandFacts
  <2>. QED  BY <2>2 DEF SaveTrack
<1>3. \/ file_save_buffer
      \/ result' = STATUS_OK /\ dir_name' = dir_name /\ card' = card
  BY DEF SaveTrack
<1>4. /\ dir_name' = dir_name /\ DOMAIN card' = DOMAIN card
      /\ result' \in 0 .. 255
  <2>1. STATUS_OK \in 0 .. 255
    BY DEF STATUS_OK
  <2>. QED  BY <1>3, <2>1, SavedFacts, SavedKeeps
<1>5. TypeOK'
  BY <1>1, <1>2, <1>4, TypeFacts, TypesNext
<1>6. Restoring' /\ Keeping' /\ Filling'
  BY <1>2, AtPrompt
<1>7. Counting' /\ Naming'
  BY <1>2 DEF DiskInv, Counting, HeadInStep, Naming
<1>8. SavedUnderItsName'
  <2>1. CASE file_save_buffer
    BY <1>1, <2>1, SavedNames
  <2>2. CASE card' = card
    BY <1>1, <2>2 DEF SavedUnderItsName, Files
  <2>. QED  BY <1>3, <2>1, <2>2
<1>. QED  BY <1>5, <1>6, <1>7, <1>8 DEF DiskInv

LEMMA MakeDirInv == DiskInv /\ MakeDir => DiskInv'
<1> SUFFICES ASSUME DiskInv, MakeDir PROVE DiskInv'
  OBVIOUS
<1>1. TypeOK /\ SavedUnderItsName
  BY DEF DiskInv
<1>2. PICK num \in 0 .. DirMax : file_make_disk_dir(num)
  BY DEF MakeDir
<1>3. /\ run.pc = "loop" /\ last' # "R complete" /\ commands' \in 0 .. MaxCommands
      /\ run' = run /\ buf' = buf /\ at' = at /\ max_track' = max_track
      /\ status' = status /\ is_init' = is_init
  <2>1. \E name \in {"im"} : Command(name)
    BY DEF MakeDir
  <2>2. /\ run.pc = "loop" /\ last' # "R complete" /\ commands' \in 0 .. MaxCommands
    BY <1>1, <2>1, CommandFacts
  <2>. QED  BY <2>2 DEF MakeDir
<1>4. /\ result' \in 0 .. 255 /\ dir_name' \in 0 .. DirMax
      /\ DOMAIN card' \subseteq 0 .. DirMax
  BY <1>1, <1>2, TypeFacts, MadeFacts
<1>5. TypeOK'
  BY <1>1, <1>3, <1>4, TypeFacts, TypesNext
<1>6. Restoring' /\ Keeping' /\ Filling'
  BY <1>3, AtPrompt
<1>7. Counting' /\ Naming'
  BY <1>3 DEF DiskInv, Counting, HeadInStep, Naming
<1>8. SavedUnderItsName'
  BY <1>1, <1>2, MadeNames
<1>. QED  BY <1>5, <1>6, <1>7, <1>8 DEF DiskInv

-----------------------------------------------------------------------------
(***************************************************************************)
(* disk_read_all.                                                          *)
(***************************************************************************)

LEMMA ReadAllInv == DiskInv /\ ReadAll => DiskInv'
<1> SUFFICES ASSUME DiskInv, ReadAll PROVE DiskInv'
  OBVIOUS
<1>1. TypeOK
  BY DEF DiskInv
<1>2. last' = "R" /\ commands' \in 0 .. MaxCommands
  BY <1>1, CommandFacts DEF ReadAll
<1>3. PICK range \in Ranges, save \in BOOLEAN :
        run' = [pc |-> IF save THEN "find" ELSE "start", begin |-> range[1],
                t |-> range[1], end |-> range[2], save |-> save, en |-> FALSE, mot |-> FALSE]
  BY DEF ReadAll
<1>4. range[1] \in 0 .. 255 /\ range[2] \in 0 .. 255
  BY DiskAssumption DEF DiskAssumption
<1>5. /\ before' = [card |-> card, status |-> status] /\ result' = STATUS_OK
      /\ status' = status /\ max_track' = max_track /\ is_init' = is_init
      /\ at' = at /\ buf' = buf /\ dir_name' = dir_name /\ card' = card
  BY DEF ReadAll
<1>6. run' \in Runs
  BY <1>3, <1>4 DEF Runs
<1>7. TypeOK'
  <2>1. STATUS_OK \in 0 .. 255
    BY DEF STATUS_OK
  <2>. QED  BY <1>1, <1>2, <1>5, <1>6, <2>1, TypeFacts, TypesNext
<1>8. /\ \/ run'.pc = "find" /\ run'.save
         \/ run'.pc = "start" /\ ~ run'.save
      /\ run'.t = run'.begin
  BY <1>3
<1>9. Restoring'
  BY <1>1, <1>5, <1>8, TypeFacts DEF Restoring, Preparing, Looping
<1>10. Keeping'
  BY <1>5, <1>8 DEF Keeping, Looping
<1>11. Filling'
  BY <1>2, <1>8 DEF Filling, Preparing, Looping
<1>12. Counting' /\ Naming' /\ SavedUnderItsName'
  BY <1>5 DEF DiskInv, Counting, HeadInStep, Naming, SavedUnderItsName, Files
<1>. QED  BY <1>7, <1>9, <1>10, <1>11, <1>12 DEF DiskInv

(* The steps of disk_read_all move its pc, and a step of the loop its      *)
(* count, and nothing else of its locals.                                  *)
LEMMA GoFacts ==
  ASSUME run \in Runs, NEW pc, Go(pc)
  PROVE  /\ run'.pc = pc /\ run'.t = run.t /\ run'.begin = run.begin
         /\ run'.end = run.end /\ run'.save = run.save
         /\ run'.en = run.en /\ run'.mot = run.mot
         /\ pc \in {"loop", "find", "make", "start", "read", "save", "next", "stop"}
              => run' \in Runs
BY DEF Go, Runs

LEMMA FindDirInv == DiskInv /\ FindDir => DiskInv'
<1> SUFFICES ASSUME DiskInv, FindDir PROVE DiskInv'
  OBVIOUS
<1>1. TypeOK
  BY DEF DiskInv
<1>2. /\ run.pc = "find" /\ last' = last /\ before' = before /\ commands' = commands
      /\ status' = status /\ max_track' = max_track /\ is_init' = is_init
      /\ at' = at /\ buf' = buf /\ dir_name' = dir_name /\ card' = card
  BY DEF FindDir, running, CardError
<1>3. \/ result' = ERROR_FILE /\ Go("loop")
      \/ result' = result /\ Go("make")
  BY DEF FindDir, CardError
<1>4. /\ run' \in Runs /\ run'.pc \in {"loop", "make"} /\ run'.t = run.t
      /\ run'.begin = run.begin /\ run'.save = run.save
  BY <1>1, <1>3, TypeFacts, GoFacts
<1>5. TypeOK'
  <2>1. ERROR_FILE \in 0 .. 255
    BY DEF ERROR_FILE
  <2>. QED  BY <1>1, <1>2, <1>3, <1>4, <2>1, TypeFacts, TypesNext
<1>6. Restoring'
  BY <1>2, <1>4 DEF DiskInv, Restoring, Preparing, Looping
<1>7. Keeping'
  BY <1>2, <1>4 DEF DiskInv, Keeping, Looping
<1>8. Filling'
  BY <1>2, <1>4 DEF DiskInv, Filling, Preparing, Looping
<1>9. Counting' /\ Naming' /\ SavedUnderItsName'
  BY <1>2 DEF DiskInv, Counting, HeadInStep, Naming, SavedUnderItsName, Files
<1>. QED  BY <1>5, <1>6, <1>7, <1>8, <1>9 DEF DiskInv

LEMMA NewDirInv == DiskInv /\ NewDir => DiskInv'
<1> SUFFICES ASSUME DiskInv, NewDir PROVE DiskInv'
  OBVIOUS
<1>1. TypeOK /\ SavedUnderItsName
  BY DEF DiskInv
<1>2. PICK num \in 0 .. DirMax : file_make_disk_dir(num)
  <2>1. PICK seen \in SUBSET DOMAIN card : file_make_disk_dir(FreeDir(seen))
    BY DEF NewDir
  <2>2. seen \in SUBSET (0 .. DirMax)
    BY <1>1, TypeFacts
  <2>. QED  BY <2>1, <2>2, FreeDirFits
<1>3. file_make_disk_dir(num)
  BY <1>2
<1>4. /\ run.pc = "make" /\ last' = last /\ before' = before /\ commands' = commands
      /\ status' = status /\ max_track' = max_track /\ is_init' = is_init
      /\ at' = at /\ buf' = buf
  BY DEF NewDir, running
<1>5. Go(IF result' = STATUS_OK THEN "start" ELSE "loop")
  BY DEF NewDir, MayGoOn
<1>6. /\ result' \in 0 .. 255 /\ dir_name' \in 0 .. DirMax
      /\ DOMAIN card' \subseteq 0 .. DirMax
      /\ \/ card' = card /\ result' # STATUS_OK
         \/ /\ dir_name' = num
            /\ num \notin DOMAIN card /\ DOMAIN card' = DOMAIN card \cup {num}
            /\ card'[num] = << >>
            /\ \A d \in DOMAIN card : card'[d] = card[d]
  BY <1>1, <1>2, <1>3, TypeFacts, MadeFacts
<1>6a. run'.t = run.t /\ run'.begin = run.begin
  BY <1>1, <1>5, TypeFacts, GoFacts
<1>7. /\ run' \in Runs /\ run'.t = run.t /\ run'.begin = run.begin
      /\ run'.save = run.save /\ run'.end = run.end
      /\ run'.pc = IF result' = STATUS_OK THEN "start" ELSE "loop"
  BY <1>1, <1>5, TypeFacts, GoFacts
<1>8. TypeOK'
  BY <1>1, <1>4, <1>6, <1>7, TypeFacts, TypesNext
<1>9. Counting' /\ Naming'
  BY <1>4 DEF DiskInv, Counting, HeadInStep, Naming
<1>10. SavedUnderItsName'
  BY <1>1, <1>2, <1>3, MadeNames
<1>11. Restoring'
  BY <1>4, <1>7 DEF DiskInv, Restoring, Preparing, Looping
<1>12. /\ run.save /\ last # "R complete" /\ run.t = run.begin
       /\ \A d \in DOMAIN before.card : d \in DOMAIN card /\ card[d] = before.card[d]
  BY <1>4 DEF DiskInv, Keeping, Filling, Preparing
<1>13. CASE result' # STATUS_OK
  <2>1. run'.pc = "loop"
    BY <1>7, <1>13
  <2>2. Keeping'
    BY <2>1 DEF Keeping, Looping
  <2>3. Filling'
    BY <1>4, <1>12, <2>1 DEF Filling, Preparing, Looping
  <2>. QED  BY <1>8, <1>9, <1>10, <1>11, <2>2, <2>3 DEF DiskInv
<1>14. CASE result' = STATUS_OK
  <2>1. run'.pc = "start"
    BY <1>7, <1>14
  <2>2. /\ dir_name' = num
        /\ num \notin DOMAIN card /\ DOMAIN card' = DOMAIN card \cup {num}
        /\ card'[num] = << >>
        /\ \A d \in DOMAIN card : card'[d] = card[d]
    BY <1>6, <1>14
  <2>3. Keeping'
    BY <1>4, <1>12, <2>1, <2>2 DEF Keeping, Looping, OwnDirectory
  <2>4. FilledTo(run.t)'
    <3>1. dir_name' \in DOMAIN card' /\ DOMAIN card'[dir_name'] = {}
      BY <2>2
    <3>2. run'.begin .. run'.t - 1 = {}
      <4>1. run.t \in 0 .. 255
        BY <1>1, TypeFacts DEF Runs
      <4>2. run.t = run.begin
        BY <1>12
      <4>. QED  BY <1>6a, <4>1, <4>2
    <3>. QED  BY <3>1, <3>2 DEF FilledTo, Files
  <2>5. Filling'
    BY <1>4, <1>7, <1>12, <2>1, <2>4 DEF Filling, Preparing, Looping
  <2>. QED  BY <1>8, <1>9, <1>10, <1>11, <2>3, <2>5 DEF DiskInv
<1>. QED  BY <1>13, <1>14

LEMMA StartInv == DiskInv /\ Start => DiskInv'
<1> SUFFICES ASSUME DiskInv, Start PROVE DiskInv'
  OBVIOUS
<1>1. TypeOK /\ run \in Runs /\ at \in Positions /\ max_track \in 0 .. 255
  BY TypeFacts DEF DiskInv
<1>2. /\ run.pc = "start" /\ last' = last /\ before' = before /\ commands' = commands
      /\ status' = Stations /\ max_track' = max_track /\ is_init' = is_init
      /\ buf' = buf /\ dir_name' = dir_name /\ card' = card /\ result' = result
      /\ at' = track_next(track_zero(at), run.t)
  BY DEF Start, running, Stations
<1>3. /\ run'.pc = IF run.t < run.end THEN "read" ELSE "stop"
      /\ run'.t = run.t /\ run'.begin = run.begin /\ run'.end = run.end
      /\ run'.save = run.save /\ run' \in Runs
      /\ run'.en = ("select" \notin status) /\ run'.mot = ("motor" \notin status)
  <2> DEFINE pc  == IF run.t < run.end THEN "read" ELSE "stop"
             en  == "select" \notin status
             mot == "motor" \notin status
  <2>1. run' = [run EXCEPT !.pc = pc, !.en = en, !.mot = mot]
    BY DEF Start
  <2>2. pc \in {"read", "stop"} /\ en \in BOOLEAN /\ mot \in BOOLEAN
    OBVIOUS
  <2> HIDE DEF pc, en, mot
  <2>3. /\ run'.pc = pc /\ run'.t = run.t /\ run'.begin = run.begin
        /\ run'.end = run.end /\ run'.save = run.save
        /\ run'.en = en /\ run'.mot = mot
    BY <1>1, <2>1 DEF Runs
  <2>4. run' \in Runs
    BY <1>1, <2>1, <2>2 DEF Runs
  <2>. QED  BY <2>3, <2>4 DEF pc, en, mot
<1>4. run.t \in Nat /\ run.t \in 0 .. 255 /\ run.end \in 0 .. 255
  BY <1>1 DEF Runs
<1>4a. run'.t = run.t /\ run'.begin = run.begin /\ run'.end = run.end
  BY <1>3
<1>5. /\ track_zero(at) \in Positions
      /\ track_zero(at).track = 0 /\ track_zero(at).side = 0
  BY <1>1, Zeroed
<1>6. at' \in Positions
  BY <1>1, <1>2, <1>4, <1>5, ManyIn
<1>7. TypeOK'
  BY <1>1, <1>2, <1>3, <1>6, TypeFacts, TypesNext
<1>8. Restoring'
  BY <1>2, <1>3 DEF DiskInv, Restoring, Preparing, Looping
<1>9. Keeping'
  BY <1>2, <1>3 DEF DiskInv, Keeping, Looping, OwnDirectory
<1>10. Counting'
  <2> SUFFICES ASSUME DriveFits PROVE HeadInStep' /\ max_track' <= HeadMax
    BY DEF Counting
  <2>1. max_track <= HeadMax
    BY DEF DiskInv, Counting
  <2>2. track_zero(at) \in Straight
    BY <1>1, Zeroed DEF DriveFits
  <2>3. at' \in Straight
    BY <1>1, <1>2, <1>4, <1>5, <2>1, <2>2, ManyIn
  <2>. QED  BY <1>2, <2>1, <2>3 DEF HeadInStep, Straight
<1>11. Naming' /\ SavedUnderItsName'
  BY <1>2 DEF DiskInv, Naming, SavedUnderItsName, Files
<1>12. last # "R complete" /\ run.t = run.begin
  BY <1>2 DEF DiskInv, Filling, Preparing
<1>13. run.save /\ RangeFits => FilledTo(run.t)
  BY <1>2 DEF DiskInv, Filling
<1>14. run'.save /\ RangeFits' => FilledTo(run.t)'
  BY <1>2, <1>3, <1>13 DEF RangeFits, FilledTo, Files
<1>15. run.t < run.end /\ RangeFits' => 2 * at'.track + at'.side = run'.t
  <2> SUFFICES ASSUME run.t < run.end, RangeFits'
               PROVE  2 * at'.track + at'.side = run'.t
    OBVIOUS
  <2>1. run.end <= 2 * (max_track + 1)
    BY <1>2, <1>3 DEF RangeFits
  <2>2. run.t < 2 * (max_track + 1)
    BY <1>1, <1>4, <2>1
  <2>. QED  BY <1>1, <1>2, <1>3, <1>4, <1>5, <2>2, ManyCounted
<1>16. Filling'
  <2>1. CASE run.t < run.end
    <3>1. run'.begin <= run'.t /\ run'.t < run'.end
      <4>1. run.t = run.begin
        BY <1>12
      <4>. QED  BY <1>4, <1>4a, <2>1, <4>1
    <3>2. run'.pc = "read"
      BY <1>3, <2>1
    <3>. QED  BY <1>2, <1>12, <1>14, <1>15, <2>1, <3>1, <3>2 DEF Filling, Preparing, Looping
  <2>2. CASE ~ (run.t < run.end)
    BY <1>2, <1>3, <1>12, <2>2 DEF Filling, Preparing, Looping
  <2>. QED  BY <2>1, <2>2
<1>. QED  BY <1>7, <1>8, <1>9, <1>10, <1>11, <1>16 DEF DiskInv

LEMMA ReadInv == DiskInv /\ Read => DiskInv'
<1> SUFFICES ASSUME DiskInv, Read PROVE DiskInv'
  OBVIOUS
<1>1. TypeOK /\ run \in Runs /\ at \in Positions /\ buf \in Buffers
  BY TypeFacts DEF DiskInv
<1>2. /\ run.pc = "read" /\ last' = last /\ before' = before /\ commands' = commands
      /\ status' = status /\ max_track' = max_track /\ is_init' = is_init
      /\ at' = at /\ dir_name' = dir_name /\ card' = card
  BY DEF Read, running
<1>3. Sampled(Under(at)) /\ Under(at) \in Places
  BY <1>1, UnderFacts DEF Read
<1> DEFINE pc == IF result' # STATUS_OK THEN "stop" ELSE IF run.save THEN "save" ELSE "next"
<1>4. Go(pc)
  BY DEF Read
<1>5. pc \in {"stop", "save", "next"}
  OBVIOUS
<1>6. \/ pc = "stop"
      \/ pc = "save" /\ run.save /\ result' = STATUS_OK
      \/ pc = "next" /\ ~ run.save
  OBVIOUS
<1> HIDE DEF pc
<1>7. run' \in Runs /\ run'.pc = pc
  BY <1>1, <1>4, <1>5, GoFacts
<1>8. run'.t = run.t /\ run'.begin = run.begin /\ run'.end = run.end
  BY <1>1, <1>4, GoFacts
<1>9. run'.save = run.save /\ run'.en = run.en /\ run'.mot = run.mot
  BY <1>1, <1>4, GoFacts
<1>10. result' \in 0 .. 255 /\ buf' \in Buffers
  BY <1>1, <1>3, SampledFacts
<1>11. TypeOK'
  BY <1>1, <1>2, <1>7, <1>10, TypeFacts, TypesNext
<1>12. Restoring'
  BY <1>2, <1>5, <1>7, <1>9 DEF DiskInv, Restoring, Preparing, Looping
<1>13. Keeping'
  BY <1>2, <1>5, <1>6, <1>7, <1>9 DEF DiskInv, Keeping, Looping, OwnDirectory
<1>14. Counting' /\ SavedUnderItsName'
  BY <1>2 DEF DiskInv, Counting, HeadInStep, SavedUnderItsName, Files
<1>15. Naming'
  BY <1>3, SampledNames
<1>16. /\ last # "R complete" /\ run.begin <= run.t /\ run.t < run.end
       /\ RangeFits => 2 * at.track + at.side = run.t
       /\ run.save /\ RangeFits => FilledTo(run.t)
  BY <1>2 DEF DiskInv, Filling, Looping
<1>17. RangeFits' = RangeFits /\ FilledTo(run.t)' = FilledTo(run.t)
  BY <1>2, <1>8 DEF RangeFits, FilledTo, Files
<1>18. result' = STATUS_OK /\ RangeFits => buf'.num = run.t
  <2> SUFFICES ASSUME result' = STATUS_OK, RangeFits PROVE buf'.num = run.t
    OBVIOUS
  <2>1. buf'.num = track_num
    BY <1>1, <1>3, SampledFacts
  <2>2. 2 * at.track + at.side = run.t /\ run.t \in 0 .. 255
    BY <1>1, <1>16 DEF Runs
  <2>3. at.track \in 0 .. 255 /\ at.side \in 0 .. 1
    BY <1>1 DEF Positions
  <2>4. at.track <= 127
    <3>1. \A a, b, c \in Nat : 2 * a + b = c /\ c <= 255 => a <= 127
      OBVIOUS
    <3>2. at.track \in Nat /\ at.side \in Nat /\ run.t \in Nat /\ run.t <= 255
      BY <2>2, <2>3
    <3>. QED  BY <2>2, <3>1, <3>2
  <2>. QED  BY <1>1, <2>1, <2>2, <2>4, NumFacts DEF track_num
<1>19. Filling'
  <2>1. CASE pc = "stop"
    BY <1>2, <1>7, <1>16, <2>1 DEF Filling, Preparing, Looping
  <2>2. CASE pc = "save" /\ run.save /\ result' = STATUS_OK
    <3>1. run'.pc = "save" /\ run'.begin <= run'.t /\ run'.t < run'.end
      BY <1>7, <1>8, <1>16, <2>2
    <3>. QED  BY <1>2, <1>8, <1>9, <1>16, <1>17, <1>18, <2>2, <3>1
              DEF Filling, Preparing, Looping
  <2>3. CASE pc = "next" /\ ~ run.save
    <3>1. run'.pc = "next" /\ run'.begin <= run'.t /\ run'.t < run'.end
      BY <1>7, <1>8, <1>16, <2>3
    <3>. QED  BY <1>2, <1>8, <1>9, <1>16, <1>17, <2>3, <3>1
              DEF Filling, Preparing, Looping
  <2>. QED  BY <1>6, <2>1, <2>2, <2>3
<1>. QED  BY <1>11, <1>12, <1>13, <1>14, <1>15, <1>19 DEF DiskInv

LEMMA SaveInv == DiskInv /\ Save => DiskInv'
<1> SUFFICES ASSUME DiskInv, Save PROVE DiskInv'
  OBVIOUS
<1>1. TypeOK /\ run \in Runs /\ Naming /\ SavedUnderItsName
  BY TypeFacts DEF DiskInv
<1>2. /\ run.pc = "save" /\ last' = last /\ before' = before /\ commands' = commands
      /\ status' = status /\ max_track' = max_track /\ is_init' = is_init
      /\ at' = at /\ buf' = buf
  BY DEF Save, running
<1>3. file_save_buffer
  BY DEF Save
<1> DEFINE pc == IF result' = STATUS_OK THEN "next" ELSE "stop"
<1>4. Go(pc) /\ pc \in {"next", "stop"} /\ (pc = "next" <=> result' = STATUS_OK)
  BY DEF Save
<1> HIDE DEF pc
<1>5. run' \in Runs /\ run'.pc = pc
  BY <1>1, <1>4, GoFacts
<1>6. run'.t = run.t /\ run'.begin = run.begin /\ run'.end = run.end
  BY <1>1, <1>4, GoFacts
<1>7. run'.save = run.save /\ run'.en = run.en /\ run'.mot = run.mot
  BY <1>1, <1>4, GoFacts
<1>8. /\ dir_name' = dir_name /\ result' \in 0 .. 255 /\ DOMAIN card' = DOMAIN card
      /\ \A d \in DOMAIN card : d # dir_name => card'[d] = card[d]
  BY <1>3, SavedFacts, SavedKeeps
<1>9. TypeOK'
  BY <1>1, <1>2, <1>5, <1>8, TypeFacts, TypesNext
<1>10. Restoring'
  BY <1>2, <1>4, <1>5, <1>7 DEF DiskInv, Restoring, Preparing, Looping
<1>11. /\ run.save /\ OwnDirectory
       /\ \A d \in DOMAIN before.card : d \in DOMAIN card /\ card[d] = before.card[d]
  BY <1>2 DEF DiskInv, Keeping, Looping
<1>12. Keeping'
  <2>1. \A d \in DOMAIN before.card : d # dir_name
    BY <1>11 DEF OwnDirectory
  <2>2. OwnDirectory'
    BY <1>2, <1>8, <1>11 DEF OwnDirectory
  <2>. QED  BY <1>2, <1>4, <1>5, <1>7, <1>8, <1>11, <2>1, <2>2 DEF Keeping, Looping
<1>13. Counting' /\ Naming'
  BY <1>2 DEF DiskInv, Counting, HeadInStep, Naming
<1>14. SavedUnderItsName'
  BY <1>1, <1>3, SavedNames
<1>15. /\ last # "R complete" /\ run.begin <= run.t /\ run.t < run.end
       /\ RangeFits => 2 * at.track + at.side = run.t /\ buf.num = run.t /\ FilledTo(run.t)
  BY <1>2, <1>11 DEF DiskInv, Filling, Looping
<1>16. RangeFits' = RangeFits
  BY <1>2, <1>6 DEF RangeFits
<1>17. result' = STATUS_OK /\ RangeFits => FilledTo(run.t + 1)'
  <2> SUFFICES ASSUME result' = STATUS_OK, RangeFits PROVE FilledTo(run.t + 1)'
    OBVIOUS
  <2>1. PICK state \in {"whole", "cut"} :
          dir_name \in DOMAIN card /\ card' = WithFile(File(state))
    BY <1>3, SavedFacts
  <2>2. /\ buf.num = run.t /\ Files(dir_name) = run.begin .. run.t - 1
        /\ \A n \in Files(dir_name) : card[dir_name][n].state # "failed"
    BY <1>15 DEF FilledTo
  <2>3. /\ DOMAIN card'[dir_name] = Files(dir_name) \cup {run.t}
        /\ card'[dir_name][run.t] = File(state)
        /\ \A n \in Files(dir_name) :
             n # run.t => card'[dir_name][n] = card[dir_name][n]
    BY <2>1, <2>2, WithFileFacts
  <2>4. (run.begin .. run.t - 1) \cup {run.t} = run.begin .. run.t
    <3>1. run.begin \in Nat /\ run.t \in Nat
      BY <1>1 DEF Runs
    <3>2. run.begin <= run.t
      BY <1>15
    <3>3. \A b, n \in Nat : b <= n => (b .. n - 1) \cup {n} = b .. n
      OBVIOUS
    <3>. QED  BY <3>1, <3>2, <3>3
  <2>5. File(state).state # "failed"
    BY DEF File
  <2>6. \A n \in DOMAIN card'[dir_name] : card'[dir_name][n].state # "failed"
    BY <2>2, <2>3, <2>5
  <2>7. DOMAIN card'[dir_name] = run.begin .. run.t
    BY <2>2, <2>3, <2>4
  <2>8. (run.t + 1) - 1 = run.t
    BY <1>1 DEF Runs
  <2>. QED  BY <1>6, <1>8, <2>1, <2>6, <2>7, <2>8 DEF FilledTo, Files
<1>18. Filling'
  <2>1. CASE pc = "stop"
    BY <1>2, <1>5, <1>15, <2>1 DEF Filling, Preparing, Looping
  <2>2. CASE pc = "next"
    <3>1. run'.pc = "next" /\ run'.begin <= run'.t /\ run'.t < run'.end
      BY <1>5, <1>6, <1>15, <2>2
    <3>2. RangeFits => FilledTo(run.t + 1)'
      BY <1>4, <1>17, <2>2
    <3>. QED  BY <1>2, <1>6, <1>15, <1>16, <3>1, <3>2
              DEF Filling, Preparing, Looping
  <2>. QED  BY <1>4, <2>1, <2>2
<1>. QED  BY <1>9, <1>10, <1>12, <1>13, <1>14, <1>18 DEF DiskInv

LEMMA NextTrackInv == DiskInv /\ NextTrack => DiskInv'
<1> SUFFICES ASSUME DiskInv, NextTrack PROVE DiskInv'
  OBVIOUS
<1>1. TypeOK /\ run \in Runs /\ at \in Positions /\ max_track \in 0 .. 255
  BY TypeFacts DEF DiskInv
<1>2. /\ run.pc = "next" /\ before' = before /\ commands' = commands
      /\ status' = status /\ max_track' = max_track /\ is_init' = is_init
      /\ buf' = buf /\ dir_name' = dir_name /\ card' = card /\ result' = result
  BY DEF NextTrack
<1>3. /\ last # "R complete" /\ run.begin <= run.t /\ run.t < run.end
      /\ RangeFits => 2 * at.track + at.side = run.t
      /\ run.save /\ RangeFits => FilledTo(run.t + 1)
  BY <1>2 DEF DiskInv, Filling, Looping
<1>4. Naming' /\ SavedUnderItsName'
  BY <1>2 DEF DiskInv, Naming, SavedUnderItsName, Files
<1>5. CASE Go("stop") /\ at' = at /\ last' = last
  <2>1. run' \in Runs /\ run'.pc = "stop"
    BY <1>1, <1>5, GoFacts
  <2>2. run'.save = run.save /\ run'.en = run.en /\ run'.mot = run.mot
    BY <1>1, <1>5, GoFacts
  <2>3. TypeOK'
    BY <1>1, <1>2, <1>5, <2>1, TypeFacts, TypesNext
  <2>4. Restoring'
    BY <1>2, <2>1, <2>2 DEF DiskInv, Restoring, Preparing, Looping
  <2>5. Keeping'
    BY <1>2, <2>1, <2>2 DEF DiskInv, Keeping, Looping, OwnDirectory
  <2>6. Counting'
    BY <1>2, <1>5 DEF DiskInv, Counting, HeadInStep
  <2>7. Filling'
    BY <1>3, <1>5, <2>1 DEF Filling, Preparing, Looping
  <2>. QED  BY <1>4, <2>3, <2>4, <2>5, <2>6, <2>7 DEF DiskInv
<1>6. CASE /\ at' = track_next(at, 1)
           /\ run' = [run EXCEPT !.t = @ + 1,
                                 !.pc = IF run.t + 1 < run.end THEN "read" ELSE "stop"]
           /\ last' = IF run.t + 1 < run.end THEN last ELSE "R complete"
  <2> DEFINE pc == IF run.t + 1 < run.end THEN "read" ELSE "stop"
  <2>1. run.t \in 0 .. 255 /\ run.end \in 0 .. 255 /\ run.begin \in 0 .. 255
    BY <1>1 DEF Runs
  <2>1a. run.t \in Nat /\ run.end \in Nat /\ run.begin \in Nat /\ max_track \in Nat
    BY <1>1, <2>1
  <2>2. run.t + 1 \in 0 .. 255
    <3>1. run.t < run.end
      BY <1>3
    <3>. QED  BY <2>1, <3>1
  <2>3. pc \in {"read", "stop"} /\ run' = [run EXCEPT !.t = run.t + 1, !.pc = pc]
    BY <1>1, <1>6 DEF Runs
  <2> HIDE DEF pc
  <2>4. run' \in Runs
    BY <1>1, <2>2, <2>3 DEF Runs
  <2>5. run'.t = run.t + 1 /\ run'.begin = run.begin /\ run'.end = run.end
    BY <1>1, <2>3 DEF Runs
  <2>6. run'.pc = pc /\ run'.save = run.save /\ run'.en = run.en /\ run'.mot = run.mot
    BY <1>1, <2>3 DEF Runs
  <2>7. at' = NextPos(at) /\ at' \in Positions
    BY <1>1, <1>6, OnceIn, OneIn
  <2>8. TypeOK'
    BY <1>1, <1>2, <2>4, <2>7, TypeFacts, TypesNext
  <2>9. Restoring'
    BY <1>2, <2>3, <2>6 DEF DiskInv, Restoring, Preparing, Looping
  <2>10. Keeping'
    BY <1>2, <2>3, <2>6 DEF DiskInv, Keeping, Looping, OwnDirectory
  <2>11. Counting'
    <3> SUFFICES ASSUME DriveFits PROVE HeadInStep' /\ max_track' <= HeadMax
      BY DEF Counting
    <3>1. max_track <= HeadMax /\ at \in Straight
      BY <1>1 DEF DiskInv, Counting, HeadInStep, Straight
    <3>2. at' \in Straight
      BY <1>1, <2>7, <3>1, OneIn
    <3>. QED  BY <1>2, <3>1, <3>2 DEF HeadInStep, Straight
  <2>12. RangeFits' = RangeFits
    BY <1>2, <2>5 DEF RangeFits
  <2>13. run.save /\ RangeFits => FilledTo(run.t)'
    BY <1>2, <1>3, <2>5 DEF FilledTo, Files
  <2>14. ASSUME run.t + 1 < run.end  PROVE Filling'
    <3>1. pc = "read" /\ last' = last
      BY <1>6, <2>14 DEF pc
    <3>2. run'.begin <= run'.t /\ run'.t < run'.end
      <4>1. run.begin <= run.t
        BY <1>3
      <4>. QED  BY <2>1a, <2>5, <2>14, <4>1
    <3>3. RangeFits => 2 * at'.track + at'.side = run'.t
      <4> SUFFICES ASSUME RangeFits PROVE 2 * at'.track + at'.side = run'.t
        OBVIOUS
      <4>1. 2 * at.track + at.side = run.t /\ run.end <= 2 * (max_track + 1)
        BY <1>3 DEF RangeFits
      <4>2. 2 * at.track + at.side + 1 < 2 * (max_track + 1)
        BY <2>1a, <2>14, <4>1
      <4>. QED  BY <1>1, <2>5, <2>7, <4>1, <4>2, OneCounted
    <3>. QED  BY <1>3, <2>6, <2>12, <2>13, <3>1, <3>2, <3>3
              DEF Filling, Preparing, Looping
  <2>15. ASSUME ~ (run.t + 1 < run.end)  PROVE Filling'
    <3>1. pc = "stop"
      BY <2>15 DEF pc
    <3>2. run'.t = run'.end
      <4>1. run.t < run.end
        BY <1>3
      <4>. QED  BY <2>1a, <2>5, <2>15, <4>1
    <3>3. run.save /\ RangeFits => FilledTo(run.end)'
      BY <2>13, <3>2 DEF FilledTo
    <3>. QED  BY <2>6, <2>12, <3>1, <3>3 DEF Filling, Preparing, Looping
  <2>16. Filling'
    BY <2>14, <2>15
  <2>. QED  BY <1>4, <2>8, <2>9, <2>10, <2>11, <2>16 DEF DiskInv
<1>. QED  BY <1>5, <1>6 DEF NextTrack

LEMMA SwitchedBackFacts ==
  ASSUME DiskInv, run.pc = "stop"
  PROVE  SwitchedBack(status) = before.status
<1>1. /\ status = Stations /\ before.status \subseteq Stations
      /\ run.en = ("select" \notin before.status)
      /\ run.mot = ("motor" \notin before.status)
  BY DEF DiskInv, Restoring, Looping
<1>2. \A x \in Stations : x \in SwitchedBack(status) <=> x \in before.status
  <2>1. "select" \in SwitchedBack(status) <=> "select" \in before.status
    BY <1>1 DEF SwitchedBack, Stations
  <2>2. "motor" \in SwitchedBack(status) <=> "motor" \in before.status
    BY <1>1 DEF SwitchedBack, Stations
  <2>. QED  BY <2>1, <2>2 DEF Stations
<1>3. SwitchedBack(status) \subseteq Stations
  BY <1>1 DEF SwitchedBack
<1>. QED  BY <1>1, <1>2, <1>3

LEMMA StopInv == DiskInv /\ Stop => DiskInv'
<1> SUFFICES ASSUME DiskInv, Stop PROVE DiskInv'
  OBVIOUS
<1>1. TypeOK /\ run \in Runs
  BY TypeFacts DEF DiskInv
<1>2. /\ run.pc = "stop" /\ before' = before /\ commands' = commands /\ last' = last
      /\ max_track' = max_track /\ is_init' = is_init /\ at' = at
      /\ buf' = buf /\ dir_name' = dir_name /\ card' = card /\ result' = result
      /\ status' = SwitchedBack(status)
  BY DEF Stop, running
<1>3. Go("loop")
  BY DEF Stop
<1>4. run' \in Runs /\ run'.pc = "loop" /\ run'.save = run.save
  BY <1>1, <1>3, GoFacts
<1>5. run'.begin = run.begin /\ run'.end = run.end
  BY <1>1, <1>3, GoFacts
<1>6. status' \subseteq Stations
  BY <1>2, SwitchedBackFacts DEF DiskInv, Restoring
<1>7. TypeOK'
  BY <1>1, <1>2, <1>4, <1>6, TypeFacts, TypesNext
<1>8. Restoring' /\ Keeping'
  BY <1>4 DEF Restoring, Keeping, Preparing, Looping
<1>9. Counting' /\ Naming' /\ SavedUnderItsName'
  BY <1>2 DEF DiskInv, Counting, HeadInStep, Naming, SavedUnderItsName, Files
<1>10. Filling'
  <2>1. RangeFits' = RangeFits /\ FilledTo(run.end)' = FilledTo(run.end)
    BY <1>2, <1>5 DEF RangeFits, FilledTo, Files
  <2>2. run.save /\ RangeFits /\ last = "R complete" => FilledTo(run.end)
    BY <1>2 DEF DiskInv, Filling
  <2>. QED  BY <1>2, <1>4, <2>1, <2>2 DEF Filling, Preparing, Looping
<1>. QED  BY <1>7, <1>8, <1>9, <1>10 DEF DiskInv

LEMMA StutterInv == DiskInv /\ UNCHANGED vars => DiskInv'
<1> SUFFICES ASSUME DiskInv, UNCHANGED vars PROVE DiskInv'
  OBVIOUS
<1>1. /\ status' = status /\ max_track' = max_track /\ is_init' = is_init /\ at' = at
      /\ buf' = buf /\ dir_name' = dir_name /\ card' = card /\ run' = run
      /\ result' = result /\ last' = last /\ before' = before /\ commands' = commands
  BY DEF vars
<1>2. TypeOK'
  BY <1>1, TypeFacts, TypesNext DEF DiskInv
<1>3. Restoring' /\ Keeping'
  BY <1>1 DEF DiskInv, Restoring, Keeping, OwnDirectory
<1>4. Counting' /\ Naming' /\ SavedUnderItsName'
  BY <1>1 DEF DiskInv, Counting, HeadInStep, Naming, SavedUnderItsName, Files
<1>5. Filling'
  BY <1>1 DEF DiskInv, Filling, RangeFits, FilledTo, Files
<1>. QED  BY <1>2, <1>3, <1>4, <1>5 DEF DiskInv

LEMMA StepInv == DiskInv /\ [Next]_vars => DiskInv'
<1> SUFFICES ASSUME DiskInv, [Next]_vars PROVE DiskInv'
  OBVIOUS
<1>1. CASE Moves
  BY <1>1, MoveInv
<1>2. CASE ReadTrack
  BY <1>2, ReadTrackInv
<1>3. CASE SaveTrack
  BY <1>3, SaveTrackInv
<1>4. CASE MakeDir
  BY <1>4, MakeDirInv
<1>5. CASE ReadAll
  BY <1>5, ReadAllInv
<1>6. CASE FindDir
  BY <1>6, FindDirInv
<1>7. CASE NewDir
  BY <1>7, NewDirInv
<1>8. CASE Start
  BY <1>8, StartInv
<1>9. CASE Read
  BY <1>9, ReadInv
<1>10. CASE Save
  BY <1>10, SaveInv
<1>11. CASE NextTrack
  BY <1>11, NextTrackInv
<1>12. CASE Stop
  BY <1>12, StopInv
<1>13. CASE UNCHANGED vars
  BY <1>13, StutterInv
<1>. QED
  BY <1>1, <1>2, <1>3, <1>4, <1>5, <1>6, <1>7, <1>8, <1>9, <1>10, <1>11, <1>12, <1>13
  DEF Next, Moves, disk_read_all, Exhausted

LEMMA DiskInvAlways == Spec => []DiskInv
BY InitInv, StepInv, PTL DEF Spec

-----------------------------------------------------------------------------
(***************************************************************************)
(* The theorems.                                                           *)
(***************************************************************************)

(* After any commands, on a drive the firmware can count, the head is at   *)
(* the cylinder that track.c believes, and all counts are in their bounds  *)
(* on any drive (track.c:14-91, floppy-low.c:138-162).                     *)
THEOREM HeadAlwaysCounted == Spec => []HeadCounted
<1>1. DiskInv => HeadCounted
  BY DEF DiskInv, HeadCounted, Counting
<1>. QED  BY <1>1, DiskInvAlways, PTL

(* Each file of each directory holds the flux of the place its name says,  *)
(* however sampling, moving and saving are mixed (file.c:53-64,            *)
(* buffer.c:24-29, track.c:57-75).                                         *)
THEOREM AlwaysSavedUnderItsName == Spec => []SavedUnderItsName
<1>1. DiskInv => SavedUnderItsName
  BY DEF DiskInv
<1>. QED  BY <1>1, DiskInvAlways, PTL

(* A disk_read_all that gets to its end has saved a file for each track of *)
(* its range and for no other, none by a save that failed.  A file cut by  *)
(* a full card or a failed close counts as saved (disk.c:38-76, file.c:45, *)
(* 93).                                                                    *)
THEOREM DiskAlwaysComplete == Spec => []DiskComplete
<1>1. DiskInv => DiskComplete
  BY DEF DiskInv, DiskComplete, Filling, RangeFits, FilledTo
<1>. QED  BY <1>1, DiskInvAlways, PTL

(* disk_read_all changes no directory that was on the card when it began,  *)
(* however many of them its search saw and whichever of its steps fails    *)
(* (disk.c:17-30, file.c:161-259).                                         *)
THEOREM NoDiskEverOverwritten == Spec => NoDiskOverwritten
<1>1. ASSUME DiskInv, Next, run.pc # "loop", NEW d \in DOMAIN before.card
      PROVE  card'[d] = before.card[d]
  <2>1. /\ TypeOK /\ d \in DOMAIN card /\ card[d] = before.card[d]
        /\ run.pc = "save" => OwnDirectory
    BY <1>1 DEF DiskInv, Keeping, Looping
  <2>2. CASE NewDir
    <3>1. PICK seen \in SUBSET DOMAIN card : file_make_disk_dir(FreeDir(seen))
      BY <2>2 DEF NewDir
    <3>2. FreeDir(seen) \in 0 .. DirMax
      BY <2>1, TypeFacts, FreeDirFits
    <3>. QED  BY <2>1, <3>1, <3>2, TypeFacts, MadeFacts
  <2>3. CASE Save
    <3>1. d # dir_name /\ file_save_buffer
      BY <1>1, <2>1, <2>3 DEF Save, OwnDirectory
    <3>. QED  BY <2>1, <3>1, SavedKeeps
  <2>4. CASE FindDir \/ Start \/ Read \/ NextTrack \/ Stop \/ Exhausted
    <3>1. card' = card
      BY <2>4 DEF FindDir, CardError, Start, Read, NextTrack, Stop, Exhausted, vars
    <3>. QED  BY <2>1, <3>1
  <2>. QED
    BY <1>1, <2>2, <2>3, <2>4
    DEF Next, disk_read_all, cmd_floppy, track_init, cmd_zero, Walk, Sides,
        track_check_max, track_set_max, Moved, ReadTrack, SaveTrack, MakeDir, ReadAll,
        Command
<1>2. DiskInv /\ [Next]_vars =>
        [run.pc # "loop" => \A d \in DOMAIN before.card : card'[d] = before.card[d]]_vars
  BY <1>1
<1>. QED  BY <1>2, DiskInvAlways, PTL DEF NoDiskOverwritten, Spec

(* However disk_read_all ends, it leaves select and motor as it found them *)
(* (disk.c:33-34, 78-79).                                                  *)
THEOREM DriveAlwaysRestored == Spec => DriveRestored
<1>1. ASSUME DiskInv, Next, run.pc = "stop", run'.pc = "loop"
      PROVE  status' = before.status
  <2>1. Stop \/ UNCHANGED vars
    BY <1>1
    DEF Next, disk_read_all, cmd_floppy, track_init, cmd_zero, Walk, Sides,
        track_check_max, track_set_max, Moved, ReadTrack, SaveTrack, MakeDir, ReadAll,
        Command, FindDir, NewDir, Start, Read, Save, NextTrack, Exhausted
  <2>2. run' # run
    BY <1>1
  <2>. QED  BY <1>1, <2>1, <2>2, SwitchedBackFacts DEF Stop, vars
<1>2. DiskInv /\ [Next]_vars =>
        [run.pc = "stop" /\ run'.pc = "loop" => status' = before.status]_vars
  BY <1>1
<1>. QED  BY <1>2, DiskInvAlways, PTL DEF DriveRestored, Spec
=============================================================================
