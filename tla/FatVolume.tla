----------------------------- MODULE FatVolume -----------------------------
(***************************************************************************)
(* The part of FatFs (ff.c) the sampler uses: the sector window, the FAT,  *)
(* directories, and the creation and writing of files, for FAT16 and FAT32 *)
(* volumes.                                                                *)
(*                                                                         *)
(* The file system runs in the main program alone, so a function of ff.c   *)
(* is an operator from a state v of the file system to the next.  v holds  *)
(* the FATFS object, the open DIR and FIL, the sectors of the card, the    *)
(* result of the last function (res, or val where it returns a cluster),   *)
(* and the log of the sectors written, in order: what a loss of power      *)
(* leaves on the card is a prefix of it.  The disk operation that has the  *)
(* number v.bad in the command fails.                                      *)
(***************************************************************************)
EXTENDS Integers, Sequences

CONSTANTS
  SS,             \* bytes in a sector (the code: 512)
  FatPerSector,   \* FAT entries in a sector (the code: 256 or 128)
  DirPerSector,   \* directory entries in a sector (the code: SS / 32)
  Formats         \* volumes: fs_type, csize, max_clust, n_fats, n_rootdir

ASSUME VolumeAssumption ==
  /\ {SS, FatPerSector} \subseteq Nat \ {0}
  /\ DirPerSector \in Nat \ {0, 1}
  /\ Formats \subseteq [fs_type : {"FAT16", "FAT32"}, csize : Nat \ {0},
                        max_clust : Nat \ (0 .. 3), n_fats : Nat \ {0},
                        n_rootdir : Nat]

FR_OK == 0
FR_DISK_ERR == 1
FR_INT_ERR == 2
FR_NOT_READY == 3
FR_NO_FILE == 4
FR_NO_PATH == 5
FR_DENIED == 7
FR_EXIST == 8

EOC      == 268435455    \* 0x0FFFFFFF: end of a chain
DISK_ERR == 2147483647   \* 0xFFFFFFFF in the code
UNKNOWN  == DISK_ERR     \* free_clust before it is known

(***************************************************************************)
(* Layout of a volume f, as auto_mount computes it.                        *)
(***************************************************************************)
fatbase(f)   == IF f.fs_type = "FAT32" THEN 2 ELSE 1
fsi_sector   == 1
sects_fat(f) == (f.max_clust + FatPerSector - 1) \div FatPerSector
RootBase(f)  == fatbase(f) + f.n_fats * sects_fat(f)
RootClust(f) == IF f.fs_type = "FAT32" THEN 2 ELSE 0
database(f)  == RootBase(f) + f.n_rootdir \div DirPerSector
Clusters(f)  == 2 .. f.max_clust - 1
Sectors(f)   == 0 .. database(f) + (f.max_clust - 2) * f.csize - 1

clust2sect(f, clst) ==
  IF clst \in Clusters(f) THEN (clst - 2) * f.csize + database(f) ELSE 0

FatSector(f, clst) == fatbase(f) + clst \div FatPerSector

(* Sectors.  Of an entry that a table without entries seems to hold, only  *)
(* that it is not blank and has no name looked for here.                   *)
FatTable(f)   == [kind |-> "fat", at |-> f]
Table(f)      == [kind |-> "dir", at |-> f]
Data(f)       == [kind |-> "data", at |-> f]
Info(free, last) == [kind |-> "info", free |-> free, next |-> last]

Entry(name, attr, clst, size) == [name |-> name, attr |-> attr, clst |-> clst, size |-> size]
NoEntry    == Entry(<<"end", 0>>, "blank", 0, 0)
Garbage    == Entry(<<"garbage", 0>>, "garbage", 0, 0)
Deleted    == Entry(<<"deleted", 0>>, "blank", 0, 0)
Blank      == {NoEntry.name, Deleted.name}
Unlisted   == {Deleted.name, <<".", 0>>, <<"..", 0>>}
EmptyTable == Table([i \in 0 .. DirPerSector - 1 |-> NoEntry])

EntryAt(sector, i) == IF sector.kind = "dir" THEN sector.at[i] ELSE Garbage

Ok(v)       == [v EXCEPT !.res = FR_OK]
Err(v, r)   == [v EXCEPT !.res = r]
Value(v, x) == [v EXCEPT !.val = x, !.res = FR_OK]

(* With(v, Step) is Step(v), with v computed once.  Then is C's            *)
(* `if (res == FR_OK)': Step runs if v did not fail.                       *)
With(v, Step(_)) == CHOOSE y \in {Step(w) : w \in {v}} : TRUE
Then(v, Step(_)) == With(v, LAMBDA w : IF w.res = FR_OK THEN Step(w) ELSE w)

(***************************************************************************)
(* Disk operations and the window.                                         *)
(***************************************************************************)
DiskOp(v) ==
  [v EXCEPT !.ops = @ + 1,
            !.res = IF v.ops + 1 = v.bad THEN FR_DISK_ERR ELSE FR_OK]

disk_write(v, s, content) ==
  Then(DiskOp(v), LAMBDA w : [w EXCEPT !.sec[s] = content, !.log = Append(@, <<s, content>>)])

(* The other copies of a FAT sector; whether they are written is ignored.  *)
RECURSIVE WriteCopies(_, _, _)
WriteCopies(v, s, nf) ==
  IF nf = 1 THEN Ok(v)
  ELSE With(disk_write(v, s + sects_fat(v.f), v.win), LAMBDA w :
         WriteCopies(w, s + sects_fat(v.f), nf - 1))

BugFirstCopyOnly(v) ==
  Then(disk_write(v, v.winsect, v.win), LAMBDA w : [w EXCEPT !.wflag = FALSE])
WriteBack(v) ==
  Then(disk_write(v, v.winsect, v.win), LAMBDA w :
    Then([w EXCEPT !.wflag = FALSE], LAMBDA u :
      IF v.winsect < fatbase(v.f) + sects_fat(v.f)
      THEN WriteCopies(u, v.winsect, v.f.n_fats) ELSE u))

Load(v, s) ==
  Then(DiskOp(v), LAMBDA w : [w EXCEPT !.win = w.sec[s], !.winsect = s])

FlushDirty(v) == IF v.wflag THEN WriteBack(v) ELSE Ok(v)

move_window(v, s) ==
  IF v.winsect = s THEN Ok(v)
  ELSE Then(FlushDirty(v), LAMBDA w : IF s = 0 THEN w ELSE Load(w, s))

WriteInfo(v) ==
  With([v EXCEPT !.winsect = 0, !.win = Info(v.free_clust, v.last_clust)], LAMBDA w :
    [disk_write(w, fsi_sector, w.win) EXCEPT !.fsi_flag = FALSE])

sync(v) ==
  Then(move_window(v, 0), LAMBDA w :
    With(IF w.f.fs_type = "FAT32" /\ w.fsi_flag THEN WriteInfo(w) ELSE w, DiskOp))

(***************************************************************************)
(* The FAT.                                                                *)
(***************************************************************************)
get_fat(v, clst) ==
  IF clst \notin Clusters(v.f) THEN Value(v, 1)
  ELSE With(move_window(v, FatSector(v.f, clst)), LAMBDA w :
         Value(w, IF w.res = FR_OK THEN w.win.at[clst % FatPerSector] ELSE DISK_ERR))

(* The window is marked dirty whether it could be moved or not. *)
put_fat(v, clst, x) ==
  IF clst \notin Clusters(v.f) THEN Err(v, FR_INT_ERR)
  ELSE With(move_window(v, FatSector(v.f, clst)), LAMBDA w :
         [(IF w.res = FR_OK THEN [w EXCEPT !.win.at[clst % FatPerSector] = x] ELSE w)
           EXCEPT !.wflag = TRUE])

CountFree(v, n) ==
  IF v.free_clust = UNKNOWN THEN v
  ELSE [v EXCEPT !.free_clust = @ + n, !.fsi_flag = TRUE]

RECURSIVE FreeFrom(_, _)
FreeFrom(v, clst) ==
  IF clst >= v.f.max_clust THEN Ok(v)
  ELSE With(get_fat(v, clst), LAMBDA w :
         CASE w.val = 0        -> w
           [] w.val = 1        -> Err(w, FR_INT_ERR)
           [] w.val = DISK_ERR -> Err(w, FR_DISK_ERR)
           [] OTHER -> Then(put_fat(w, clst, 0), LAMBDA u :
                         With(CountFree(u, 1), LAMBDA x : FreeFrom(x, w.val))))

remove_chain(v, clst) ==
  IF clst \notin Clusters(v.f) THEN Err(v, FR_INT_ERR) ELSE FreeFrom(v, clst)

(* The next free cluster after `at', around to scl; 0 if there is none.    *)
RECURSIVE FreeAfter(_, _, _)
FreeAfter(v, at, scl) ==
  LET ncl == IF at + 1 >= v.f.max_clust THEN 2 ELSE at + 1
  IN  IF ncl < at + 1 /\ ncl > scl THEN Value(v, 0)
      ELSE With(get_fat(v, ncl), LAMBDA w :
             CASE w.val = 0               -> Value(w, ncl)
               [] w.val \in {1, DISK_ERR} -> w
               [] ncl = scl               -> Value(w, 0)
               [] OTHER                   -> FreeAfter(w, ncl, scl))

MarkAndLink(v, clst, ncl) ==
  Then(put_fat(v, ncl, EOC), LAMBDA w : IF clst = 0 THEN w ELSE put_fat(w, clst, ncl))

Allocate(v, clst, scl) ==
  With(FreeAfter(v, scl, scl), LAMBDA found :
    IF found.val \in {0, 1, DISK_ERR} THEN found
    ELSE With(MarkAndLink(found, clst, found.val), LAMBDA w :
           IF w.res # FR_OK THEN Value(w, DISK_ERR)
           ELSE Value([CountFree(w, -1) EXCEPT !.last_clust = found.val], found.val)))

create_chain(v, clst) ==
  IF clst = 0
  THEN Allocate(v, 0, IF v.last_clust \in 1 .. v.f.max_clust - 1 THEN v.last_clust ELSE 1)
  ELSE With(get_fat(v, clst), LAMBDA w :
         CASE w.val < 2             -> Value(w, 1)
           [] w.val < v.f.max_clust -> w
           [] OTHER                 -> Allocate(w, clst, clst))

(***************************************************************************)
(* Directories.  A name is <<kind, number>>.  One whose short form is not  *)
(* enough has an entry of its long form in front of that of the short one, *)
(* by which it is found.                                                   *)
(***************************************************************************)
(* create_name: capitals and small letters meet in the body of a name.     *)
(* That is so for disk000A.dfx, whose hexadecimal digits are capitals, and *)
(* not for disk0009.dfx or the names of tracks.                            *)
HasLetter(n)   == \E k \in 0 .. 3 : (n \div 16 ^ k) % 16 > 9
IsLong(name)   == name[1] = "disk" /\ HasLetter(name[2])
LongPart(name) == Entry(<<"long", name[2]>>, "long", 0, 0)
Places(name)   == IF IsLong(name) THEN 2 ELSE 1

CurrentEntry(v) == EntryAt(v.win, v.dj.index % DirPerSector)

SetEntry(v, i, e) == [v EXCEPT !.win.at[i % DirPerSector] = e, !.wflag = TRUE]

(* The cluster that holds entry i of a table, counted from clst. *)
RECURSIVE ClusterOf(_, _, _)
ClusterOf(v, clst, i) ==
  IF i < DirPerSector * v.f.csize THEN Value(v, clst)
  ELSE With(get_fat(v, clst), LAMBDA w :
         CASE w.val = DISK_ERR         -> Err(w, FR_DISK_ERR)
           [] w.val \in Clusters(v.f) -> ClusterOf(w, w.val, i - DirPerSector * v.f.csize)
           [] OTHER                    -> Err(w, FR_INT_ERR))

(* To entry i of the table at sclust; that of FAT16's root has no cluster. *)
dir_seek(v, sclust, i) ==
  LET start == IF sclust = 0 THEN RootClust(v.f) ELSE sclust
      To(w, clust, sect) ==
        Ok([w EXCEPT !.dj = [sclust |-> sclust, index |-> i, clust |-> clust, sect |-> sect]])
  IN  IF sclust = 1 \/ sclust >= v.f.max_clust \/ (start = 0 /\ i >= v.f.n_rootdir)
      THEN Err(v, FR_INT_ERR)
      ELSE IF start = 0 THEN To(v, 0, RootBase(v.f) + i \div DirPerSector)
      ELSE Then(ClusterOf(v, start, i), LAMBDA w :
             To(w, w.val, clust2sect(w.f, w.val) + ((i \div DirPerSector) % w.f.csize)))

(* Writes n sectors from s, the window first, the others empty. *)
RECURSIVE WriteTable(_, _, _)
WriteTable(v, s, n) ==
  IF n = 0 THEN Ok(v)
  ELSE Then(With([v EXCEPT !.winsect = s, !.wflag = TRUE], LAMBDA w : move_window(w, 0)),
         LAMBDA w : With([w EXCEPT !.win = EmptyTable], LAMBDA u : WriteTable(u, s + 1, n - 1)))

(* A new cluster of a table, once linked, is cleared; the window is back   *)
(* at its start.                                                           *)
ClearTable(v, clst) ==
  Then(move_window(v, 0), LAMBDA w :
    Then([w EXCEPT !.win = EmptyTable], LAMBDA u :
      Then(WriteTable(u, clust2sect(v.f, clst), v.f.csize), LAMBDA x :
        [x EXCEPT !.winsect = clust2sect(v.f, clst)])))

StretchTable(v) ==
  With(create_chain(v, v.dj.clust), LAMBDA w :
    CASE w.val = 0        -> Err(w, FR_DENIED)
      [] w.val = 1        -> Err(w, FR_INT_ERR)
      [] w.val = DISK_ERR -> Err(w, FR_DISK_ERR)
      [] OTHER            -> ClearTable(w, w.val))

NextCluster(v, stretch) ==
  With(get_fat(v, v.dj.clust), LAMBDA w :
    CASE w.val \in {0, 1}      -> Err(w, FR_INT_ERR)
      [] w.val = DISK_ERR      -> Err(w, FR_DISK_ERR)
      [] w.val < v.f.max_clust -> w
      [] ~stretch              -> Err(w, FR_NO_FILE)
      [] OTHER                 -> StretchTable(w))

dir_next(v, stretch) ==
  LET i == v.dj.index + 1
      To(w, clust, sect) ==
        Ok([w EXCEPT !.dj = [@ EXCEPT !.index = i, !.clust = clust, !.sect = sect]])
  IN  CASE i % DirPerSector # 0 -> To(v, v.dj.clust, v.dj.sect)
        [] v.dj.clust = 0 ->
             IF i >= v.f.n_rootdir THEN Err(v, FR_NO_FILE)
             ELSE To(v, 0, v.dj.sect + 1)
        [] (i \div DirPerSector) % v.f.csize # 0 -> To(v, v.dj.clust, v.dj.sect + 1)
        [] OTHER -> Then(NextCluster(v, stretch), LAMBDA w :
                      To(w, w.val, clust2sect(w.f, w.val)))

RECURSIVE FindFrom(_, _)
FindFrom(v, name) ==
  Then(move_window(v, v.dj.sect), LAMBDA w :
    CASE CurrentEntry(w) = NoEntry    -> Err(w, FR_NO_FILE)
      [] CurrentEntry(w).name = name  -> w
      [] OTHER -> Then(dir_next(w, FALSE), LAMBDA u : FindFrom(u, name)))

dir_find(v, sclust, name) ==
  Then(dir_seek(v, sclust, 0), LAMBDA w : FindFrom(w, name))

(* `places' blank entries in a row, n of them passed; val is the first.    *)
RECURSIVE BlankFrom(_, _, _)
BlankFrom(v, n, places) ==
  Then(move_window(v, v.dj.sect), LAMBDA w :
    LET row == IF CurrentEntry(w).name \in Blank THEN n + 1 ELSE 0
    IN  IF row = places THEN Value(w, w.dj.index - (places - 1))
        ELSE Then(dir_next(w, TRUE), LAMBDA u : BlankFrom(u, row, places)))

PutEntry(v, e) ==
  Then(move_window(v, v.dj.sect), LAMBDA w : SetEntry(w, w.dj.index, e))

PutLong(v, name) ==
  Then(dir_seek(v, v.dj.sclust, v.val), LAMBDA w :
    Then(PutEntry(w, LongPart(name)), LAMBDA u : dir_next(u, FALSE)))

dir_register(v, name) ==
  Then(dir_seek(v, v.dj.sclust, 0), LAMBDA w :
    Then(BlankFrom(w, 0, Places(name)), LAMBDA b :
      Then(IF IsLong(name) THEN PutLong(b, name) ELSE b, LAMBDA u :
        PutEntry(u, Entry(name, "file", 0, 0)))))

(* A path of one or two names from the root. *)
RECURSIVE FollowFrom(_, _, _)
FollowFrom(v, sclust, path) ==
  With(dir_find(v, sclust, Head(path)), LAMBDA w :
    CASE w.res = FR_NO_FILE /\ Len(path) > 1 -> Err(w, FR_NO_PATH)
      [] w.res # FR_OK \/ Len(path) = 1      -> w
      [] CurrentEntry(w).attr # "dir"        -> Err(w, FR_NO_PATH)
      [] OTHER -> FollowFrom(w, CurrentEntry(w).clst, Tail(path)))

follow_path(v, path) == FollowFrom(v, 0, path)

(***************************************************************************)
(* Mounting.  disk_initialize is called again, then the boot record and,   *)
(* on FAT32, FSInfo are read; last_clust is not reset.                     *)
(***************************************************************************)
ReadInfo(v) ==
  With(DiskOp(v), LAMBDA w :
    IF w.res # FR_OK THEN Ok(w)
    ELSE [w EXCEPT !.last_clust = w.sec[fsi_sector].next,
                   !.free_clust = w.sec[fsi_sector].free])

BootRead(v) ==
  Then(DiskOp(v), LAMBDA w :
    [w EXCEPT !.free_clust = UNKNOWN, !.wflag = FALSE, !.fsi_flag = FALSE])

auto_mount(v) ==
  With(DiskOp(v), LAMBDA ready :
    IF ready.res # FR_OK THEN Err(ready, FR_NOT_READY)
    ELSE Then(BootRead(ready), LAMBDA w :
           [(IF w.f.fs_type = "FAT32" THEN ReadInfo(w) ELSE w) EXCEPT !.winsect = 0]))

(***************************************************************************)
(* Files, opened with FA_WRITE and FA_CREATE_ALWAYS.                       *)
(***************************************************************************)
(* The entry is reset in the window, the chain freed, the window restored. *)
Reset(v, e) == SetEntry(v, v.dj.index, [e EXCEPT !.clst = 0, !.size = 0])

FreeChain(v, clst) ==
  IF clst = 0 THEN Ok(v)
  ELSE Then(remove_chain(v, clst), LAMBDA w : [w EXCEPT !.last_clust = clst - 1])

BugFreeFirst(v, e) ==
  Then(FreeChain(v, e.clst), LAMBDA w :
    Then(move_window(w, v.winsect), LAMBDA u : Reset(u, e)))
Truncate(v, e) ==
  Then(With(Reset(v, e), LAMBDA w : FreeChain(w, e.clst)), LAMBDA u :
    move_window(u, v.winsect))

(* csect starts at 255: past any cluster. *)
OpenFile(v) ==
  LET e == [CurrentEntry(v) EXCEPT !.attr = "file"]
  IN  [SetEntry(v, v.dj.index, e) EXCEPT
        !.fp = [org |-> e.clst, curr |-> 0, csect |-> 255, fptr |-> 0, fsize |-> e.size,
                dsect |-> 0, buf |-> Data([i \in 0 .. SS - 1 |-> 0]), dirty |-> FALSE,
                written |-> TRUE, dir_sect |-> v.winsect, index |-> v.dj.index]]

f_open(v, path) ==
  Then(auto_mount(v), LAMBDA m :
    With(follow_path(m, path), LAMBDA w :
      CASE w.res = FR_NO_FILE -> Then(dir_register(w, path[Len(path)]), OpenFile)
        [] w.res # FR_OK      -> w
        [] CurrentEntry(w).attr = "dir" -> Err(w, FR_DENIED)
        [] OTHER -> Then(Truncate(w, CurrentEntry(w)), OpenFile)))

(* The next cluster of the file: what create_chain returns for the first   *)
(* one goes to org_clust before it is looked at.                           *)
FileCluster(v) ==
  LET first == v.fp.fptr = 0
  IN  With(create_chain(v, IF first THEN 0 ELSE v.fp.curr), LAMBDA w :
        With(IF first THEN [w EXCEPT !.fp.org = w.val] ELSE w, LAMBDA u :
          CASE u.val = 0        -> u
            [] u.val = 1        -> Err(u, FR_INT_ERR)
            [] u.val = DISK_ERR -> Err(u, FR_DISK_ERR)
            [] OTHER            -> [u EXCEPT !.fp.curr = u.val, !.fp.csect = 0]))

BugDropBuffer(v) == [v EXCEPT !.fp.dirty = FALSE, !.res = FR_OK]
FlushBuffer(v) ==
  IF ~v.fp.dirty THEN Ok(v)
  ELSE Then(disk_write(v, v.fp.dsect, v.fp.buf), LAMBDA w : [w EXCEPT !.fp.dirty = FALSE])

(* val is 0 if there is no free cluster. *)
FileSector(v) ==
  Then(IF v.fp.csect >= v.f.csize THEN FileCluster(v) ELSE Value(v, v.fp.curr), LAMBDA w :
    IF w.val = 0 THEN w
    ELSE Then(FlushBuffer(w), LAMBDA u : Value(u, clust2sect(u.f, u.fp.curr) + u.fp.csect)))

(* A whole sector goes to the card directly, others by the file's buffer.  *)
WriteWhole(v, data) ==
  Then(disk_write(v, v.val, Data([i \in 0 .. SS - 1 |-> data[i + 1]])), LAMBDA w :
    [w EXCEPT !.fp.csect = @ + 1, !.fp.fptr = @ + SS])

NewBuffer(v) == [v EXCEPT !.fp.dsect = v.val, !.fp.csect = @ + 1]

PutPart(v, data, n) ==
  LET at == v.fp.fptr % SS
  IN  [v EXCEPT !.fp.buf.at = [i \in 0 .. SS - 1 |->
                                 IF i \in at .. at + n - 1 THEN data[i - at + 1] ELSE @[i]],
                !.fp.fptr = @ + n, !.fp.dirty = TRUE]

RECURSIVE WriteFrom(_, _)
WriteFrom(v, data) ==
  LET boundary == v.fp.fptr % SS = 0
      room     == SS - (v.fp.fptr % SS)
      n        == IF room < Len(data) THEN room ELSE Len(data)
      Rest(w, k) == WriteFrom(w, SubSeq(data, k + 1, Len(data)))
  IN  IF data = <<>> THEN Ok(v)
      ELSE Then(IF boundary THEN FileSector(v) ELSE Ok(v), LAMBDA w :
             CASE boundary /\ w.val = 0 -> w
               [] boundary /\ Len(data) >= SS ->
                    Then(WriteWhole(w, data), LAMBDA u : Rest(u, SS))
               [] OTHER ->
                    With(PutPart(IF boundary THEN NewBuffer(w) ELSE w, data, n), LAMBDA u :
                      Rest(u, n)))

f_write(v, data) ==
  Then(WriteFrom(v, data), LAMBDA w :
    [w EXCEPT !.fp.fsize = w.fp.fptr, !.fp.written = TRUE])

UpdateEntry(v) ==
  LET i == v.fp.index
      e == [EntryAt(v.win, i % DirPerSector) EXCEPT !.size = v.fp.fsize, !.clst = v.fp.org]
  IN  [SetEntry(v, i, e) EXCEPT !.fp.written = FALSE]

f_sync(v) ==
  IF ~v.fp.written THEN Ok(v)
  ELSE Then(FlushBuffer(v), LAMBDA w :
         Then(move_window(w, w.fp.dir_sect), LAMBDA u : sync(UpdateEntry(u))))

f_close(v) == f_sync(v)

(***************************************************************************)
(* Directories of the root.                                                *)
(***************************************************************************)
NewTable(clst, parent) ==
  Table([i \in 0 .. DirPerSector - 1 |->
          CASE i = 0 -> Entry(<<".", 0>>, "dir", clst, 0)
            [] i = 1 -> Entry(<<"..", 0>>, "dir", parent, 0)
            [] OTHER -> NoEntry])

(* The new table is on the card before its entry. *)
FillTable(v, clst) ==
  Then(move_window(v, 0), LAMBDA w :
    With([w EXCEPT !.win = NewTable(clst, w.dj.sclust)], LAMBDA u :
      WriteTable(u, clust2sect(v.f, clst), v.f.csize)))

RegisterTable(v, name, clst) ==
  With(dir_register(v, name), LAMBDA w :
    IF w.res # FR_OK THEN With(remove_chain(w, clst), LAMBDA u : Err(u, w.res))
    ELSE With(SetEntry(w, w.dj.index, Entry(name, "dir", clst, 0)), sync))

f_mkdir(v, name) ==
  Then(auto_mount(v), LAMBDA m :
    With(follow_path(m, <<name>>), LAMBDA w :
      CASE w.res = FR_OK      -> Err(w, FR_EXIST)
        [] w.res # FR_NO_FILE -> w
        [] OTHER -> With(create_chain(w, 0), LAMBDA c :
             CASE c.val = 0        -> Err(c, FR_DENIED)
               [] c.val = 1        -> Err(c, FR_INT_ERR)
               [] c.val = DISK_ERR -> Err(c, FR_DISK_ERR)
               [] OTHER -> Then(FillTable(c, c.val), LAMBDA t :
                             RegisterTable(t, name, c.val)))))

f_opendir(v) == Then(auto_mount(v), LAMBDA w : dir_seek(w, 0, 0))

(* A long name is read as it was given only if its entry is in front of    *)
(* that of the short one, else in capitals.                                *)
ReadName(e, before) ==
  IF IsLong(e.name) /\ before # LongPart(e.name) THEN <<"DISK", e.name[2]>> ELSE e.name

(* f_readdir until it has no more to give or fails; val is the names read. *)
(* An error ends the listing like the end of the table does.               *)
RECURSIVE NamesFrom(_, _, _)
NamesFrom(v, names, before) ==
  With(move_window(v, v.dj.sect), LAMBDA w :
    LET e    == CurrentEntry(w)
        more == IF e.name \in Unlisted \/ e.attr = "long" THEN names
                ELSE names \cup {ReadName(e, before)}
    IN  IF w.res # FR_OK \/ e = NoEntry THEN Value(w, names)
        ELSE With(dir_next(w, FALSE), LAMBDA n :
               CASE n.res = FR_OK      -> NamesFrom(n, more, e)
                 [] n.res = FR_NO_FILE -> Value(n, more)
                 [] OTHER              -> Value(n, names)))

f_readdir(v) == NamesFrom(v, {}, NoEntry)
=============================================================================
