------------------------------ MODULE Analyzer ------------------------------
(***************************************************************************)
(* The off-line decoding of a saved track (analyze/dfx-analyze.py):        *)
(* analyze_file from the codes of the sampler to the sectors it writes.    *)
(*                                                                         *)
(* A track is sectors and gaps.  A sector is a sync, a header and its      *)
(* data; all of its cells are two bits long.  Cells may have been damaged  *)
(* on the disk or while they were sampled.  A bit is known by the cell it  *)
(* was written with, so that a checksum is the question whether the bits   *)
(* are those of one sector.  Times are those of the program, in ticks.     *)
(***************************************************************************)
EXTENDS Integers, Sequences, SequencesExt, FiniteSetsExt

CONSTANTS
  Tracks,     \* sequences of sectors [sector, to_gap] and gaps [cells]
  Damages,    \* sets of what may happen to one cell
  MaxDamages, \* cells of a track that are damaged
  DataCells,  \* cells of the data of a sector
  NumSectors  \* the program: 11

SyncCells == 2
HeadCells == 1
BlockCells == HeadCells + DataCells

Damage == {"split", "index", "timer", "flip", "slow", "weak", "overrun", "long", "longlow"}

ASSUME AnalyzerAssumption ==
  /\ Damages \subseteq Damage
  /\ MaxDamages \in Nat /\ DataCells \in Nat \ {0} /\ NumSectors \in Nat \ {0}
  /\ \A tr \in Tracks :
       tr \in Seq([sector : Nat, to_gap : Nat] \cup [cells : Nat])

VARIABLES
  track, damage,  \* what is on the disk, and the damaged cells
  stage,          \* the next step of analyze_file
  data,           \* bytes, later samples
  index_pos,      \* index marks: samples in front of them
  bits,
  raw_blks,       \* found blocks: offset and length
  blks,           \* decoded blocks; the order of the list is Earlier
  file            \* what is written for each sector

vars == <<track, damage, stage, data, index_pos, bits, raw_blks, blks, file>>

(***************************************************************************)
(* The track file.                                                         *)
(***************************************************************************)
Sectors(tr) == {k \in DOMAIN tr : "sector" \in DOMAIN tr[k]}

Part(k, name, n) == [j \in 1 .. n |-> <<k, name, j>>]

CellsOf(tr, k) ==
  IF k \in Sectors(tr)
  THEN Part(k, "sync", SyncCells) \o Part(k, "head", HeadCells) \o Part(k, "data", DataCells)
  ELSE Part(k, "gap", tr[k].cells)

Cells(tr) == FlattenSeq([k \in DOMAIN tr |-> CellsOf(tr, k)])

Nothing == <<0, "nothing", 0>>
Byte(t) == [t |-> t, cell |-> Nothing]
Sample(t, cell) == [t |-> t, cell |-> cell]

(* trk_read.h *)
marker_index          == 1
marker_overflow       == 2
marker_overrun        == 3
marker_timer_overflow == 4
marker_last           == 4

(* Codes of the sampler for a cell: with a spike in it, behind an index or *)
(* timer mark, with other bits, read too long by a bit, read as no cell at *)
(* all, lost, or lost in a pulse that does not fit in a byte.              *)
Code(cell) ==
  LET kind == IF cell \in DOMAIN damage THEN damage[cell] ELSE "none"
  IN  CASE kind = "none"    -> <<Sample(96, cell)>>
        [] kind = "split"   -> <<Byte(10), Sample(86, cell)>>
        [] kind = "index"   -> <<Byte(marker_index), Sample(96, cell)>>
        [] kind = "timer"   -> <<Byte(marker_timer_overflow), Sample(96, cell)>>
        [] kind = "flip"    -> <<Sample(96, Nothing)>>
        [] kind = "slow"    -> <<Sample(126, cell)>>
        [] kind = "weak"    -> <<Sample(240, cell)>>
        [] kind = "overrun" -> <<Byte(marker_overrun)>>
        [] kind = "long"    -> <<Byte(marker_overflow), Byte(1), Byte(100)>>
        [] kind = "longlow" -> <<Byte(marker_overflow), Byte(1), Byte(20)>>

TrackFile ==
  LET cells == Cells(track) IN FlattenSeq([j \in DOMAIN cells |-> Code(cells[j])])

Init ==
  /\ track \in Tracks
  /\ \E n \in 0 .. MaxDamages : \E cs \in kSubset(n, ToSet(Cells(track))) :
       damage \in [cs -> Damages]
  /\ stage = "read" /\ data = <<>> /\ index_pos = <<>>
  /\ bits = <<>> /\ raw_blks = {} /\ blks = {}
  /\ file = [s \in 0 .. NumSectors - 1 |-> <<>>]

read_track_data ==
  /\ stage = "read"
  /\ data' = TrackFile /\ stage' = "filter"
  /\ UNCHANGED <<track, damage, index_pos, bits, raw_blks, blks, file>>

(***************************************************************************)
(* From codes to samples.                                                  *)
(***************************************************************************)
noise_level == 24

BugAllFiltered(t) == FALSE
(* The comparison is with less than the last marker.                       *)
KeptMarker(t) == t < marker_last

(* A short time is added to the next sample that is none.                  *)
FilterByte(acc, b) ==
  IF KeptMarker(b.t) THEN [acc EXCEPT !.out = Append(@, b)]
  ELSE IF b.t <= noise_level THEN [acc EXCEPT !.short_time = @ + b.t]
  ELSE [out |-> Append(acc.out, [b EXCEPT !.t = @ + acc.short_time]), short_time |-> 0]

Filtered(bytes) ==
  LET pass[n \in 0 .. Len(bytes)] ==
        IF n = 0 THEN [out |-> <<>>, short_time |-> 0] ELSE FilterByte(pass[n - 1], bytes[n])
  IN  pass[Len(bytes)]

(* chr() raises ValueError above 255. *)
filter_spikes ==
  /\ stage = "filter"
  /\ data' = Filtered(data).out
  /\ stage' = IF \A j \in DOMAIN data' : data'[j].t <= 255 THEN "extract" ELSE "raised"
  /\ UNCHANGED <<track, damage, index_pos, bits, raw_blks, blks, file>>

(* The two bytes after an overflow mark are its value. *)
ExtractByte(acc, b) ==
  IF acc.value > 0 THEN [acc EXCEPT !.value = @ - 1]
  ELSE IF b.t = marker_index THEN [acc EXCEPT !.index_pos = Append(@, Len(acc.out))]
  ELSE IF b.t = marker_overflow THEN [acc EXCEPT !.value = 2]
  ELSE IF b.t \in {marker_overrun, marker_timer_overflow} THEN acc
  ELSE [acc EXCEPT !.out = Append(@, b)]

Extracted(bytes) ==
  LET pass[n \in 0 .. Len(bytes)] ==
        IF n = 0 THEN [out |-> <<>>, index_pos |-> <<>>, value |-> 0]
                 ELSE ExtractByte(pass[n - 1], bytes[n])
  IN  pass[Len(bytes)]

(* IndexError if the file ends before the value does. *)
extract_markers ==
  /\ stage = "extract"
  /\ data' = Extracted(data).out /\ index_pos' = Extracted(data).index_pos
  /\ stage' = IF Extracted(data).value = 0 THEN "bits" ELSE "raised"
  /\ UNCHANGED <<track, damage, bits, raw_blks, blks, file>>

(***************************************************************************)
(* From samples to bits.                                                   *)
(***************************************************************************)
one_us == 24
b0 == 4 * one_us - one_us
b1 == 6 * one_us - one_us
b2 == 8 * one_us - one_us
b3 == 8 * one_us + one_us

(* Bits of a sample; the weak ones have none. *)
CellBits(t) ==
  IF t < b0 \/ t > b3 THEN 0 ELSE IF t <= b1 THEN 2 ELSE IF t <= b2 THEN 3 ELSE 4

SampleBits(s) ==
  [n \in 1 .. CellBits(s.t) |-> <<IF CellBits(s.t) = 2 THEN s.cell ELSE Nothing, n>>]

all_cellcodes_to_bits ==
  /\ stage = "bits"
  /\ bits' = FlattenSeq([j \in DOMAIN data |-> SampleBits(data[j])])
  /\ stage' = "cut"
  /\ UNCHANGED <<track, damage, data, index_pos, raw_blks, blks, file>>

(***************************************************************************)
(* From bits to blocks.  Offsets begin with 0.                             *)
(***************************************************************************)
amiga_sync_bit_len       == 2 * SyncCells
amiga_hdr_bit_len        == 2 * HeadCells
amiga_data_bit_len       == 2 * DataCells
amiga_block_bit_len      == amiga_hdr_bit_len + amiga_data_bit_len
amiga_sync_block_bit_len == amiga_block_bit_len + amiga_sync_bit_len

(* Bits [off : off + len]; fewer at the end. *)
Slice(off, len) == SubSeq(bits, off + 1, IF off + len < Len(bits) THEN off + len ELSE Len(bits))

(* The bits of a part of a sector, as they were written.                   *)
Written(k, name, n) == [m \in 1 .. 2 * n |-> <<<<k, name, (m + 1) \div 2>>, 2 - (m % 2)>>]

(* All syncs look the same. *)
Look(bit) == <<bit[1][2], bit[1][3], bit[2]>>
sync == [m \in 1 .. amiga_sync_bit_len |-> Look(Written(0, "sync", SyncCells)[m])]

(* The first bit of a sync is not looked at. *)
sync_len == amiga_sync_bit_len - 1
SyncAt(pos) ==
  /\ pos + sync_len <= Len(bits)
  /\ \A m \in 1 .. sync_len : Look(bits[pos + m]) = sync[m + 1]

(* The first one is looked for behind the length of a sync.  A sync does   *)
(* not overlap another.                                                    *)
sync_pos == {pos \in sync_len .. Len(bits) : SyncAt(pos)}

BeginOf(pos)  == pos + sync_len
Later(pos)    == {next \in sync_pos : next > pos}
NextSync(pos) == Min(Later(pos))

(* What follows the last sync is no block. *)
cut_by_sync ==
  /\ stage = "cut"
  /\ raw_blks' = {[off |-> BeginOf(pos), size |-> NextSync(pos) - BeginOf(pos) - 1] :
                    pos \in {at \in sync_pos : Later(at) # {}}}
  /\ stage' = "decode"
  /\ UNCHANGED <<track, damage, data, index_pos, bits, blks, file>>

HeadersAt(off) ==
  {k \in Sectors(track) : Slice(off, amiga_hdr_bit_len) = Written(k, "head", HeadCells)}

(* The header of a bad block says anything of its distance to the gap;     *)
(* lost: it is one of recover_lost_sync_blocks.                            *)
decode_amiga_block(off, gap_bits, to_gap, lost) ==
  LET hdr_ok == HeadersAt(off) # {}
      k      == CHOOSE h \in HeadersAt(off) : TRUE
      part   == Slice(off + amiga_hdr_bit_len, amiga_data_bit_len)
  IN  [hdr_ok |-> hdr_ok, dat_ok |-> hdr_ok /\ part = Written(k, "data", DataCells),
       gap_bits |-> gap_bits, off |-> off, lost |-> lost,
       sector |-> IF hdr_ok THEN track[k].sector ELSE 0,
       to_gap |-> IF hdr_ok THEN track[k].to_gap ELSE to_gap]

decode_all_amiga_blocks ==
  /\ stage = "decode"
  /\ \E to_gap \in [raw_blks -> 1 .. 2] :
       blks' = {decode_amiga_block(raw.off, raw.size - amiga_block_bit_len, to_gap[raw], FALSE) :
                  raw \in {r \in raw_blks : r.off + amiga_block_bit_len <= Len(bits)}}
  /\ stage' = "recover"
  /\ UNCHANGED <<track, damage, data, index_pos, bits, raw_blks, file>>

LongSectors == {b \in blks : b.to_gap # 1 /\ b.gap_bits > 0}

BugNoLostSync(b, n) == b.off + amiga_block_bit_len + n * amiga_block_bit_len
(* Where the n-th block of the gap after b would be.                       *)
LostOffset(b, n) == b.off + n * amiga_sync_block_bit_len

LostBlocks(b) ==
  {decode_amiga_block(LostOffset(b, n), b.gap_bits - n * amiga_sync_block_bit_len, 2, TRUE) :
     n \in 1 .. b.gap_bits \div amiga_sync_block_bit_len}

recover_lost_sync_blocks ==
  /\ stage = "recover"
  /\ blks' = blks \cup UNION {LostBlocks(b) : b \in LongSectors}
  /\ stage' = "assign"
  /\ UNCHANGED <<track, damage, data, index_pos, bits, raw_blks, file>>

(* blk_tab has no more than NumSectors entries: IndexError.                *)
assign_blocks ==
  /\ stage = "assign"
  /\ stage' = IF \A b \in blks : b.hdr_ok => b.sector < NumSectors THEN "write" ELSE "raised"
  /\ UNCHANGED <<track, damage, data, index_pos, bits, raw_blks, blks, file>>

(* The blocks found by their syncs are before the recovered ones in the    *)
(* list, and both in the order of the bits: the gap after a block is       *)
(* before the next sync.                                                   *)
Earlier(a, b) == IF a.lost = b.lost THEN a.off < b.off ELSE b.lost

ValidBlocks(s) == {b \in blks : b.hdr_ok /\ b.dat_ok /\ b.sector = s}
FirstOf(list)  == CHOOSE b \in list : \A a \in list : ~Earlier(a, b)

write_blocks ==
  /\ stage = "write"
  /\ file' = [s \in DOMAIN file |->
                IF ValidBlocks(s) = {} THEN <<>>
                ELSE Slice(FirstOf(ValidBlocks(s)).off + amiga_hdr_bit_len, amiga_data_bit_len)]
  /\ stage' = "done"
  /\ UNCHANGED <<track, damage, data, index_pos, bits, raw_blks, blks>>

Finished == stage \in {"done", "raised"} /\ UNCHANGED vars

Next == \/ read_track_data \/ filter_spikes \/ extract_markers \/ all_cellcodes_to_bits
        \/ cut_by_sync \/ decode_all_amiga_blocks \/ recover_lost_sync_blocks \/ assign_blocks
        \/ write_blocks \/ Finished

Spec == Init /\ [][Next]_vars

(***************************************************************************)
(* Properties.                                                             *)
(***************************************************************************)
TypeOK ==
  /\ track \in Tracks /\ \A c \in DOMAIN damage : damage[c] \in Damages
  /\ stage \in {"read", "filter", "extract", "bits", "cut", "decode", "recover", "assign",
                "write", "done", "raised"}
  /\ \A n \in DOMAIN index_pos : index_pos[n] \in Nat
  /\ \A b \in blks : b.off \in 0 .. Len(bits) - amiga_block_bit_len

Kind(c) == IF c \in DOMAIN damage THEN damage[c] ELSE "none"

(* The cells in front of c. *)
Before(c) ==
  LET all == Cells(track)
      at  == CHOOSE p \in DOMAIN all : all[p] = c
  IN  SubSeq(all, 1, at - 1)

(* The two bytes after an overflow mark are its value; if the filter took  *)
(* the second for a spike, what follows it is one of them.                 *)
Swallowed(c) == LET b == Before(c) IN b # <<>> /\ Kind(b[Len(b)]) = "longlow"

(* Those spikes are added to the next sample: the ones that wait for c.    *)
SpikesBefore(c) ==
  LET b == Before(c)
  IN  {p \in DOMAIN b : Kind(b[p]) = "longlow" /\
                        \A q \in p .. Len(b) : Kind(b[q]) \in {"overrun", "longlow"}}

(* One of 20 ticks makes no cell of two bits one of three. *)
Becomes(c, kinds) ==
  Kind(c) \in kinds /\ ~Swallowed(c) /\ \A p, q \in SpikesBefore(c) : p = q

Harmless   == {"none", "split", "index", "timer"}
SameLength == Harmless \cup {"flip"}

CellsIn(k, names) == {c \in ToSet(CellsOf(track, k)) : c[2] \in names}

SyncSeen(k) ==
  /\ k \in Sectors(track) /\ \A c \in CellsIn(k, {"sync"}) : Becomes(c, Harmless)
  /\ \E g \in 1 .. k - 1 : \E c \in ToSet(CellsOf(track, g)) : Becomes(c, Harmless)

(* The sync of k is lost, but the sector follows, without a gap and with   *)
(* no bit more or less, one whose header says where it is.                 *)
InLine(k) ==
  \E o \in 1 .. k - 1 :
    /\ o .. k \subseteq Sectors(track) /\ SyncSeen(o) /\ track[o].to_gap # 1
    /\ \A c \in CellsIn(o, {"head"}) : Becomes(c, Harmless)
    /\ \A c \in (UNION {CellsIn(m, {"sync", "head", "data"}) : m \in o .. k - 1})
               \cup CellsIn(k, {"sync"}) : Becomes(c, SameLength)
    /\ \A m \in o + 1 .. k : ~SyncSeen(m)

(* If the program comes to its end, a sector whose own bits came through,  *)
(* with its sync or with its place in the line of sectors, and with any    *)
(* sync behind it, is found, whatever spikes, marks, lost and doubtful     *)
(* pulses there are elsewhere; and a sector in the file is always one of   *)
(* the disk (dfx-analyze.py:195-215, 355-375, 492-592, 833-849).           *)
SectorsFound ==
  stage = "done" =>
    /\ \A s \in DOMAIN file : file[s] # <<>> =>
         \E k \in Sectors(track) :
           track[k].sector = s /\ file[s] = Written(k, "data", DataCells)
    /\ \A k \in Sectors(track) :
         /\ \A c \in CellsIn(k, {"head", "data"}) : Becomes(c, Harmless)
         /\ SyncSeen(k) \/ InLine(k)
         /\ \E m \in k + 1 .. Len(track) : SyncSeen(m)
         => file[track[k].sector] # <<>>

(* The program does not always come to its end, and then damage in one     *)
(* place has lost the whole track.  A sample and the spikes in front of it *)
(* may be too long for a byte; the track may end in an overflow mark whose *)
(* value the filter has cut; and a sector may have a number the program    *)
(* does not know.                                                          *)
Ticks(kind) ==
  CASE kind \in {"timer", "long"} -> 100
    [] kind = "slow" -> 126
    [] kind = "weak" -> 240
    [] OTHER -> 96

TooLong ==
  \E c \in ToSet(Cells(track)) :
    /\ Kind(c) \notin {"overrun", "longlow"}
    /\ Ticks(Kind(c)) + 20 * Cardinality(SpikesBefore(c)) > 255

ValueCut == Cells(track) # <<>> /\ Kind(Cells(track)[Len(Cells(track))]) = "longlow"

UnknownSector == \E k \in Sectors(track) : track[k].sector >= NumSectors

(* There is no other way to lose it (dfx-analyze.py:89, 208-214, 516).     *)
Lost      == TooLong \/ ValueCut \/ UnknownSector
TrackLost == stage = "raised" => Lost

(* The tool's steps keep their data in shape, and find what is there, or   *)
(* raise for a cause.                                                      *)
AnalyzerSound == TypeOK /\ SectorsFound /\ TrackLost

(* The filter moves and merges samples before the marks are taken out of   *)
(* the stream, so positions of marks are those in the filtered stream: an  *)
(* index mark is where it was put, in front of the cell that followed it,  *)
(* and no other is found (dfx-analyze.py:71-113, 195-215, 747-762).        *)
IndexInPlace ==
  stage = "bits" =>
    /\ \A c \in DOMAIN damage : damage[c] = "index" /\ ~Swallowed(c) =>
         \E n \in DOMAIN index_pos : data[index_pos[n] + 1].cell = c
    /\ "longlow" \notin {damage[c] : c \in DOMAIN damage} =>
         Len(index_pos) = Cardinality({c \in DOMAIN damage : damage[c] = "index"})
=============================================================================
