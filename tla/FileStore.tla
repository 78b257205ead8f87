----------------------------- MODULE FileStore -----------------------------
(***************************************************************************)
(* The SD card as the file commands of the sampler (file.c) use it through *)
(* FatFs, with faults of the card and loss of power.                       *)
(*                                                                         *)
(* A command runs to its end in the main program, mounting the card at its *)
(* start and forgetting it at its end, so it is one action; what happens   *)
(* inside is the sequence of disk operations of FatVolume.  Any of them    *)
(* may fail, and power may go between any two sectors written.             *)
(***************************************************************************)
EXTENDS FatVolume, FiniteSetsExt, SequencesExt

CONSTANTS
  Disks,        \* numbers of disk directories used
  Tracks,       \* numbers of tracks
  Sizes,        \* lengths of a track
  NUM_BANKS,    \* blocks in a chip of the SPI RAM; the last holds SS - 1 bytes
  ForeignSizes, \* clusters a file put on the card by others may take
  Faults,       \* what may happen, once: subset of {"power", "error"}
  MaxCommands   \* bound: commands executed

ASSUME StoreAssumption ==
  /\ Disks \subseteq Nat /\ Tracks \subseteq Nat /\ Sizes \subseteq Nat
  /\ ForeignSizes \subseteq Nat \ {0} /\ NUM_BANKS \in Nat \ {0} /\ MaxCommands \in Nat
  /\ Faults \subseteq {"power", "error"}

STATUS_OK        == 0
ERROR_FILE_WRITE == 16
ERROR_FILE_INIT  == 17
ERROR_FILE_OPEN  == 19
ERROR_FILE_MKDIR == 20
ERROR_MEMORY     == 32    \* buffer_write: the SPI RAM does not answer

VARIABLES
  card,        \* [f, sec]: the volume and its sectors
  tree,        \* what card holds: its files and directories
  last_clust,  \* fatfs.last_clust, which a mount of a FAT16 volume keeps
  dir_name,    \* number in dir_name
  found,       \* number file_find_disk_dir returned last
  status,      \* result of the last command
  last,        \* history: last command
  harm,        \* history: what went wrong so far; "none" at first
  mkdirErrors, \* history: directories that could not be made
  commands     \* commands executed

vars == <<card, tree, last_clust, dir_name, found, status, last, harm, mkdirErrors, commands>>

Disk(n)  == <<"disk", n>>
Track(n) == <<"trk", n>>
Foreign(n) == <<"other", n>>
Root     == <<"root", 0>>

(***************************************************************************)
(* The tree on the card.                                                   *)
(***************************************************************************)
fatEntry(c, clst) == c.sec[FatSector(c.f, clst)].at[clst % FatPerSector]

RECURSIVE ChainFrom(_, _, _)
ChainFrom(c, clst, limit) ==
  IF limit = 0 \/ clst \notin Clusters(c.f) THEN <<>>
  ELSE <<clst>> \o ChainFrom(c, fatEntry(c, clst), limit - 1)
Chain(c, clst) == ChainFrom(c, clst, c.f.max_clust)

(* The i-th sector of a chain, from 0; the root of FAT16 has none.         *)
SectorOf(c, chain, i) ==
  IF chain = <<>> THEN RootBase(c.f) + i
  ELSE clust2sect(c.f, chain[i \div c.f.csize + 1]) + (i % c.f.csize)

Slots(c, chain) ==
  DirPerSector * IF chain = <<>> THEN database(c.f) - RootBase(c.f)
                 ELSE Len(chain) * c.f.csize

Bytes(c, chain, size) ==
  [i \in 1 .. size |->
     LET sector == c.sec[SectorOf(c, chain, (i - 1) \div SS)]
     IN  IF sector.kind = "data" THEN sector.at[(i - 1) % SS] ELSE -1]

(* A node is an entry in use, with its directory, its chain and, if it is  *)
(* a file with the clusters it needs, its bytes.                           *)
Node(c, dir, i, e) ==
  With(Chain(c, e.clst), LAMBDA chain :
    [dir |-> dir, at |-> i, e |-> e, chain |-> chain,
     bytes |-> IF e.attr = "file" /\ e.size <= Len(chain) * c.f.csize * SS
               THEN Bytes(c, chain, e.size) ELSE <<>>])

(* The entries of a table up to the first that was never used, but the     *)
(* long forms of names.                                                    *)
Listing(c, dir, chain) ==
  LET slot(i) == EntryAt(c.sec[SectorOf(c, chain, i \div DirPerSector)], i % DirPerSector)
  IN  With({i \in 0 .. Slots(c, chain) - 1 : slot(i) = NoEntry}, LAMBDA ends :
        With(Min({Slots(c, chain)} \cup ends), LAMBDA n :
          {Node(c, dir, i, slot(i)) :
             i \in {k \in 0 .. n - 1 : slot(k).name \notin Unlisted /\ slot(k).attr # "long"}}))

RootNode(c) == Node(c, Root, -1, Entry(Root, "dir", RootClust(c.f), 0))

OfKind(nodes, attr) == {n \in nodes : n.e.attr = attr}

(* All nodes on the card, the root itself among them. *)
Tree(c) ==
  With(Listing(c, Root, Chain(c, RootClust(c.f))), LAMBDA top :
    {RootNode(c)} \cup top \cup
    UNION {Listing(c, d.e.name, d.chain) : d \in OfKind(top, "dir")})

DirNames == {d.e.name : d \in OfKind(tree, "dir")} \ {Root}

Named(g) == CHOOSE n \in tree : <<n.dir, n.e.name>> = g
Files    == [g \in {<<n.dir, n.e.name>> : n \in OfKind(tree, "file")} |-> Named(g).bytes]

Garbled == OfKind(tree, "garbage") # {}

(***************************************************************************)
(* The card at the start: formatted, with a file of others that takes n     *)
(* clusters; pc: it was used in a computer, which keeps FSInfo and deletes *)
(* files.                                                                  *)
(***************************************************************************)
ForeignAt(f, n) == f.max_clust - n

FirstFat(f, n) ==
  [c \in 0 .. f.max_clust - 1 |->
     CASE c < 2 \/ c = RootClust(f) \/ c = f.max_clust - 1 -> EOC
       [] c >= ForeignAt(f, n) -> c + 1
       [] OTHER -> 0]

FirstRoot(f, n, next) ==
  Table([EmptyTable.at EXCEPT ![0] = Entry(Foreign(0), "file", ForeignAt(f, n), n * f.csize * SS),
                              ![1] = next])

RootSectors(f) ==
  IF f.fs_type = "FAT32" THEN database(f) .. database(f) + f.csize - 1
  ELSE RootBase(f) .. database(f) - 1

FormattedSector(f, n, next, free, s) ==
  LET fat  == (s - fatbase(f)) % sects_fat(f)
      root == RootSectors(f)
  IN  CASE s < fatbase(f)  -> Info(free, 2)
        [] s < RootBase(f) ->
             FatTable([i \in 0 .. FatPerSector - 1 |->
                         IF fat * FatPerSector + i < f.max_clust
                         THEN FirstFat(f, n)[fat * FatPerSector + i] ELSE 0])
        [] s = Min(root)   -> FirstRoot(f, n, next)
        [] s \in root      -> EmptyTable
        [] OTHER           -> Data([i \in 0 .. SS - 1 |-> 0])

FreeClusters(f, n) == f.max_clust - 2 - n - (IF RootClust(f) = 0 THEN 0 ELSE 1)

Init ==
  /\ \E f \in Formats, n \in ForeignSizes, pc \in BOOLEAN :
       card = [f |-> f, sec |-> [s \in Sectors(f) |->
                 FormattedSector(f, n, IF pc THEN Deleted ELSE Entry(Foreign(1), "file", 0, 0),
                                 IF pc THEN FreeClusters(f, n) ELSE UNKNOWN, s)]]
  /\ tree = Tree(card)
  /\ last_clust = 0 /\ dir_name = 0 /\ found = 0
  /\ status = STATUS_OK /\ last = "none" /\ harm = "none"
  /\ mkdirErrors = 0 /\ commands = 0

(***************************************************************************)
(* A command: disk_initialize and f_mount, then what it does.              *)
(***************************************************************************)
Healthy == 0

NoFile == [org |-> 0, curr |-> 0, csect |-> 255, fptr |-> 0, fsize |-> 0, dsect |-> 0,
           buf |-> Data([i \in 0 .. SS - 1 |-> 0]), dirty |-> FALSE, written |-> FALSE,
           dir_sect |-> 0, index |-> 0]

Idle(bad) ==
  [f |-> card.f, sec |-> card.sec, log |-> <<>>, ops |-> 0, bad |-> bad, res |-> FR_OK,
   val |-> 0, win |-> Info(0, 0), winsect |-> 0, wflag |-> FALSE, last_clust |-> last_clust,
   free_clust |-> UNKNOWN, fsi_flag |-> FALSE, fp |-> NoFile,
   dj |-> [sclust |-> 0, index |-> 0, clust |-> 0, sect |-> 0]]

disk_initialize(bad) == DiskOp(Idle(bad))

(* f_readdir over the root; both commands that list it go on to the end. *)
Scan(bad) == Then(Then(disk_initialize(bad), f_opendir), f_readdir)

BugNotNext(names) == Max({0} \cup {n \in Disks : Disk(n) \in names})
(* The number after the largest found. *)
NextDisk(names) == Max({0} \cup {n + 1 : n \in {m \in Disks : Disk(m) \in names}})

MakeDir(num, bad) ==
  Then(disk_initialize(bad), LAMBDA v : f_mkdir(v, Disk(num)))

(* buffer_write hands the file the blocks of the SPI RAM.                  *)
Block(bank, left) ==
  LET most == IF bank = NUM_BANKS - 1 THEN SS - 1 ELSE SS
  IN  IF left < most THEN left ELSE most

RECURSIVE WriteBlocks(_, _, _)
WriteBlocks(v, data, bank) ==
  LET n == Block(bank, Len(data))
  IN  IF data = <<>> THEN v
      ELSE Then(f_write(v, SubSeq(data, 1, n)), LAMBDA w :
             WriteBlocks(w, SubSeq(data, n + 1, Len(data)), (bank + 1) % NUM_BANKS))

Opened(trk, bad) ==
  Then(disk_initialize(bad), LAMBDA v : f_open(v, <<Disk(dir_name), Track(trk)>>))

Written(opened, data) == WriteBlocks(opened, data, 0)

(* The file is closed whatever the writing came to; so is the result of    *)
(* the closing.                                                            *)
BugNotClosed(opened, written) == written
Closed(opened, written) == IF opened.res = FR_OK THEN f_close(Ok(written)) ELSE opened

InitFailed(v) == v.ops = 1
Failed(v, error) == IF InitFailed(v) THEN ERROR_FILE_INIT ELSE error

(***************************************************************************)
(* Faults.  One disk operation of a command fails; a card that fails from  *)
(* then on is left as by a loss of power.                                  *)
(***************************************************************************)
FaultsOf(v) ==
  {Healthy} \cup (IF harm = "none" /\ "error" \in Faults THEN 1 .. v.ops ELSE {})

HarmOf(bad) == IF bad = Healthy THEN harm ELSE "error"

(* What is on the card once the first n writes were done. *)
After(log, n) ==
  FoldLeft(LAMBDA sec, w : [sec EXCEPT ![w[1]] = w[2]], card.sec, SubSeq(log, 1, n))

(***************************************************************************)
(* The commands.  What the sampler makes of a table that was never written *)
(* is not followed.                                                        *)
(***************************************************************************)
Ready == commands < MaxCommands /\ ~Garbled

Executed(name, v, bad) ==
  /\ card' = [card EXCEPT !.sec = v.sec]
  /\ tree' = Tree(card')
  /\ last_clust' = v.last_clust
  /\ last' = name /\ harm' = HarmOf(bad)
  /\ commands' = commands + 1

(* file_dir and file_find_disk_dir.  If the root cannot be opened, there is *)
(* nothing found.                                                          *)
FindDisk ==
  /\ Ready
  /\ \E bad \in FaultsOf(Scan(Healthy)) :
       LET v == Scan(bad)
       IN  /\ Executed("find", v, bad)
           /\ found' = CASE InitFailed(v)   -> found
                        [] v.res = FR_OK   -> NextDisk(v.val)
                        [] OTHER           -> 0
           /\ status' = IF v.res = FR_OK THEN STATUS_OK ELSE Failed(v, ERROR_FILE_OPEN)
           /\ UNCHANGED <<dir_name, mkdirErrors>>

(* The directory has its name even if it cannot be made. *)
MakeDisk(num) ==
  /\ Ready
  /\ \E bad \in FaultsOf(MakeDir(num, Healthy)) :
       LET v == MakeDir(num, bad)
       IN  /\ Executed("make", v, bad)
           /\ dir_name' = IF InitFailed(v) THEN dir_name ELSE num
           /\ status' = IF v.res = FR_OK THEN STATUS_OK ELSE Failed(v, ERROR_FILE_MKDIR)
           /\ mkdirErrors' = mkdirErrors + IF v.res = FR_OK THEN 0 ELSE 1
           /\ UNCHANGED found

Stream(size) == [i \in 1 .. size |-> 10 * (commands + 1) + i]

(* data is what the SPI RAM gave; it may have fallen silent after it.  *)
Save(trk) ==
  /\ Ready
  /\ \E size \in Sizes, silent \in BOOLEAN :
       LET data  == Stream(size)
           Run(bad) == LET o == Opened(trk, bad) IN [o |-> o, w |-> Written(o, data)]
           End(r)   == Closed(r.o, r.w)
       IN \E bad \in FaultsOf(End(Run(Healthy))) :
            LET r == Run(bad)
            IN  /\ Executed("save", End(r), bad)
                /\ status' = CASE r.o.res # FR_OK -> Failed(r.o, ERROR_FILE_OPEN)
                               [] r.w.res # FR_OK -> ERROR_FILE_WRITE
                               [] silent          -> ERROR_MEMORY
                               [] OTHER           -> STATUS_OK
                /\ UNCHANGED <<dir_name, found, mkdirErrors>>

(* Power goes before command v has written all it would, and the sampler   *)
(* starts anew.                                                            *)
PowerLoss ==
  /\ Ready /\ harm = "none" /\ "power" \in Faults
  /\ \E size \in Sizes, t \in Tracks, d \in Disks, c \in {"make", "save"} :
       LET opened == Opened(t, Healthy)
           v == IF c = "make" THEN MakeDir(d, Healthy)
                ELSE Closed(opened, Written(opened, Stream(size)))
       IN  \E n \in 0 .. Len(v.log) - 1 : card' = [card EXCEPT !.sec = After(v.log, n)]
  /\ tree' = Tree(card')
  /\ last_clust' = 0 /\ dir_name' = 0 /\ found' = 0 /\ status' = STATUS_OK
  /\ last' = "boot" /\ harm' = "power" /\ commands' = commands + 1
  /\ UNCHANGED mkdirErrors

Next ==
  \/ FindDisk
  \/ \E d \in Disks : MakeDisk(d)
  \/ \E t \in Tracks : Save(t)
  \/ PowerLoss

Spec == Init /\ [][Next]_vars

(***************************************************************************)
(* Properties.                                                             *)
(***************************************************************************)
Reached == UNION {ToSet(n.chain) : n \in tree}

Lost == {k \in Clusters(card.f) : fatEntry(card, k) # 0} \ Reached

TypeOK ==
  /\ card.f \in Formats /\ DOMAIN card.sec = Sectors(card.f)
  /\ tree = Tree(card)
  /\ last_clust \in 0 .. card.f.max_clust - 1
  /\ dir_name \in Disks /\ found \in Nat
  /\ status \in 0 .. 255 /\ harm \in {"none"} \cup Faults

(* No cluster belongs to two files or tables, or twice to one, every       *)
(* cluster of an entry is marked in use, and a file has the clusters its   *)
(* size takes.                                                             *)
ChainsSound ==
  /\ MapThenSumSet(LAMBDA n : Len(n.chain), tree) = Cardinality(Reached)
  /\ \A k \in Reached : fatEntry(card, k) # 0
  /\ \A n \in tree : n.e.size <= Len(n.chain) * card.f.csize * SS

(* Directories are tables the code wrote: only a fault or loss of power    *)
(* between the link to a new cluster and its clearing (dir_next) shows     *)
(* what the card held there before.                                        *)
DirectoriesClear == harm = "none" => ~Garbled

(* Without faults a cluster is lost only by f_mkdir failing: it frees the  *)
(* chain of the new table in the window alone.                             *)
LossByMkdirOnly == harm = "none" => Cardinality(Lost) <= mkdirErrors

(* The volume survives whatever interrupts a command, a fault or a loss of *)
(* power: the orders of writing in create_chain, f_open, f_mkdir, dir_next *)
(* and f_sync keep its chains sound.  Without one, its directories are     *)
(* tables and it loses no cluster but to a failing f_mkdir (ff.c:450-503,  *)
(* 600-625, 1690-1712, 2470-2540).                                         *)
VolumeSound == TypeOK /\ ChainsSound /\ DirectoriesClear /\ LossByMkdirOnly

FirstCopy == fatbase(card.f) .. fatbase(card.f) + sects_fat(card.f) - 1

(* Without faults, after every command the copies of the FAT agree and     *)
(* FSInfo, if it counts at all, counts as free what no entry reaches,      *)
(* though both are written behind the window's back (ff.c:240-257,         *)
(* 271-300).                                                               *)
RedundancyExact ==
  harm = "none" =>
    /\ \A s \in FirstCopy, k \in 1 .. card.f.n_fats - 1 :
         card.sec[s] = card.sec[s + k * sects_fat(card.f)]
    /\ card.f.fs_type = "FAT32" =>
         card.sec[fsi_sector].free \in {UNKNOWN, Cardinality(Clusters(card.f) \ Reached)}

CardFull == \A k \in Clusters(card.f) : fatEntry(card, k) # 0

(* A track saved with STATUS_OK is complete, unless a disk operation       *)
(* failed or the card has no free cluster left (file_save_buffer ignores   *)
(* the result of f_close, and the number of bytes written).                *)
SavedIsComplete ==
  [][(last' = "save" /\ status' = STATUS_OK /\ harm' = "none") =>
       CardFull' \/ \E t \in Tracks, n \in Sizes :
                      \E node \in tree' : /\ node.dir = Disk(dir_name)
                                          /\ node.e.name = Track(t)
                                          /\ node.bytes = Stream(n)]_vars

(* After a search without a fault, the number found is of no directory.    *)
FoundIsFresh ==
  (last = "find" /\ harm = "none" /\ status = STATUS_OK) => Disk(found) \notin DirNames

(* Whatever happens to the commands, each is a step of the abstract store. *)
Store == INSTANCE TrackStore WITH
  Dirs    <- {Disk(n) : n \in Disks},
  Tracks  <- {Track(n) : n \in Tracks},
  Streams <- {[i \in 1 .. n |-> 10 * k + i] : n \in Sizes, k \in 1 .. MaxCommands},
  dirs    <- DirNames,
  files   <- Files

ImplementsTrackStore == Store!TrackStoreSpec
=============================================================================
