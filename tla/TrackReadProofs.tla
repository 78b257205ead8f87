-------------------------- MODULE TrackReadProofs --------------------------
(***************************************************************************)
(* For any number of index pulses and any disk, cells and ring: a track    *)
(* that is reported clean is whole; and if the disk gives the loop four    *)
(* steps between two pulses, each pulse is in the store and in the stream, *)
(* once, at its time.                                                      *)
(*                                                                         *)
(* A pulse is handled in four steps, in each of which it is known by       *)
(* another mark: idx_flag, the marker in code, index_counter, my_index.    *)
(* The invariant says which of them has it at each point of the loop       *)
(* (PulsesKept), that no other pulse can come meanwhile (gap), and that    *)
(* all bytes seen since are later than it (BytesInTime).                   *)
(***************************************************************************)
EXTENDS TrackRead, FiniteSetTheorems, TLAPS

Core  == {"poll", "test", "store", "ack"}
Early == {"start", "arm", "wait", "sync"}

MarkSet(s)    == {i \in DOMAIN s : s[i].is = "index"}
OrdinalOf(s, i) == Cardinality({j \in MarkSet(s) : j <= i})
TallyOf(s, m) == Cardinality({i \in DOMAIN s : s[i].is = m})

WordsWhole(s) ==
  \A i \in DOMAIN s : s[i].is = "word" =>
    i + 2 <= Len(s) /\ s[i + 1].is = "hi" /\ s[i + 2].is = "lo"

(* The last marker stays in code. *)
CodeHeld ==
  /\ pc \in Early \cup {"test"} => code = << >>
  /\ code # << >> => Len(code) = 1 /\ code[1].is = "index"
  /\ found_index /\ index_counter = 0 /\ MaxIndex > 0 => code # << >>

Progress ==
  /\ pc \in Early => /\ ram = << >> /\ counts = Zeros /\ data_overruns = 0
                     /\ pulses = << >>
                     /\ found_index => index_counter = MaxIndex
  /\ pc \in {"start", "arm", "wait"} => found_index
  /\ ~ found_index => index_counter = 0 /\ pc \notin {"test", "store", "ack"}
  /\ pc = "test" => index_counter > 0
  /\ pc \in {"store", "ack"} => index_counter < MaxIndex
  /\ pc \in {"finish", "done"} => index_counter = 0
  /\ pc # "start" => now >= 1
  /\ pc \in {"arm", "wait", "sync"} \cup Core => intr
  /\ pc = "done" /\ found_index /\ data_overruns > 0 => result \in 4 .. 7 \cup 12 .. 15

(* Without a loss all that was seen is there. *)
Whole ==
  data_overruns = 0 =>
    /\ TallyOf(Bytes, "delta") = counts.byte_values
    /\ TallyOf(Bytes, "word") = counts.word_values
    /\ TallyOf(Bytes, "overrun") = counts.cell_overruns
    /\ TallyOf(Bytes, "overflow") = counts.timer_overflows
    /\ WordsWhole(Bytes)
    /\ found_index => Cardinality(MarkSet(Bytes)) = PulsesHandled

(* The pulses that wait in idx_flag. *)
Pending == IF InLoop /\ idx_flag # 0 THEN 1 ELSE 0

PulsesKept ==
  found_index /\ pc \in Core =>
    /\ Len(pulses) = PulsesHandled + Pending
    /\ Pending = 1 \/ pc = "store" => pulses[Len(pulses)] = idx_flag
    /\ \A k \in 1 .. PulsesHandled :
         (pc = "store" /\ k = PulsesHandled) \/ my_index[MaxIndex - k] = pulses[k]
    /\ \A k \in DOMAIN pulses : pulses[k] <= now
    /\ pc = "poll" /\ idx_flag # 0 => gap = 0 /\ idx_flag = now
    /\ pc = "test" /\ idx_flag # 0 => gap <= 1 /\ idx_flag >= now - 1
    /\ pc = "store" => gap <= 2
    /\ pc = "ack" => gap <= 3

PulsesStored ==
  found_index /\ pc \in {"finish", "done"} =>
    /\ Len(pulses) >= MaxIndex
    /\ \A k \in 1 .. MaxIndex : my_index[MaxIndex - k] = pulses[k]

BytesInTime ==
  found_index /\ pc \in Core /\ data_overruns = 0 =>
    /\ \A j \in DOMAIN Bytes : Bytes[j].at <= now
    /\ pc = "test" => \A j \in DOMAIN Bytes : Bytes[j].at < now
    /\ \A i \in MarkSet(Bytes) : \A j \in DOMAIN Bytes :
         LET pulse == pulses[OrdinalOf(Bytes, i)]
         IN  /\ j < i => Bytes[j].at <= pulse
             /\ j > i => Bytes[j].at >= pulse

StreamInv == TypeOK /\ CodeHeld /\ Progress /\ Whole

Placed == PulsesKept /\ PulsesStored /\ BytesInTime /\ RecordedIndices

TrackInv == StreamInv /\ Placed

-----------------------------------------------------------------------------
(***************************************************************************)
(* Streams of bytes.                                                       *)
(***************************************************************************)

LEMMA WholeSubSeq == ASSUME NEW s \in Seq(Byte)
                     PROVE  SubSeq(s, 1, Len(s)) = s
OBVIOUS

LEMMA ConcatNothing == ASSUME NEW s \in Seq(Byte)
                       PROVE  s \o << >> = s /\ << >> \o s = s
OBVIOUS

LEMMA ConcatTwice == ASSUME NEW s \in Seq(Byte), NEW t \in Seq(Byte), NEW u \in Seq(Byte)
                     PROVE  (s \o t) \o u = s \o (t \o u)
OBVIOUS

LEMMA ConcatPlaces ==
  ASSUME NEW s \in Seq(Byte), NEW t \in Seq(Byte)
  PROVE  /\ s \o t \in Seq(Byte)
         /\ Len(s) \in Nat /\ Len(s \o t) = Len(s) + Len(t)
         /\ DOMAIN (s \o t) = 1 .. Len(s) + Len(t)
         /\ \A i \in 1 .. Len(s) : (s \o t)[i] = s[i]
         /\ \A k \in 1 .. Len(t) : (s \o t)[Len(s) + k] = t[k]
OBVIOUS

LEMMA OneByte == ASSUME NEW s \in Seq(Byte), Len(s) = 1
                 PROVE  s[1] \in Byte /\ s = <<s[1]>>
OBVIOUS

LEMMA ConcatOne == ASSUME NEW s \in Seq(Byte), NEW b \in Byte
                   PROVE  s \o <<b>> = Append(s, b)
OBVIOUS

LEMMA ConcatThree ==
  ASSUME NEW s \in Seq(Byte), NEW a \in Byte, NEW b \in Byte, NEW c \in Byte
  PROVE  s \o <<a, b, c>> = Append(Append(Append(s, a), b), c)
OBVIOUS

LEMMA PrefixByPlace ==
  ASSUME NEW s \in Seq(Nat), NEW t \in Seq(Nat), Len(s) <= Len(t),
         \A i \in 1 .. Len(s) : s[i] = t[i]
  PROVE  IsPrefix(s, t)
<1>1. SubSeq(s, 1, Len(s)) = SubSeq(t, 1, Len(s))
  OBVIOUS
<1>. QED  BY <1>1 DEF IsPrefix

LEMMA TallyFinite ==
  ASSUME NEW s \in Seq(Byte), NEW m
  PROVE  /\ IsFiniteSet({i \in DOMAIN s : s[i].is = m})
         /\ TallyOf(s, m) \in Nat
<1>1. IsFiniteSet(1 .. Len(s))
  BY FS_Interval
<1>2. {i \in DOMAIN s : s[i].is = m} \subseteq 1 .. Len(s)
  OBVIOUS
<1>3. IsFiniteSet({i \in DOMAIN s : s[i].is = m})
  BY <1>1, <1>2, FS_Subset
<1>. QED  BY <1>3, FS_CardinalityType DEF TallyOf

LEMMA TallyEmpty == \A m : TallyOf(<< >>, m) = 0
BY FS_EmptySet DEF TallyOf

LEMMA TallyAppend ==
  ASSUME NEW s \in Seq(Byte), NEW b \in Byte, NEW m
  PROVE  TallyOf(Append(s, b), m) = TallyOf(s, m) + (IF b.is = m THEN 1 ELSE 0)
<1> DEFINE S == {i \in DOMAIN s : s[i].is = m}
           new == Len(s) + 1
           T == {i \in DOMAIN Append(s, b) : Append(s, b)[i].is = m}
<1>1. IsFiniteSet(S) /\ Cardinality(S) \in Nat
  BY TallyFinite DEF TallyOf
<1>2. new \notin S
  OBVIOUS
<1>3. T = IF b.is = m THEN S \cup {new} ELSE S
  OBVIOUS
<1>4. Cardinality(S \cup {new}) = Cardinality(S) + 1
  BY <1>1, <1>2, FS_AddElement
<1> HIDE DEF S, new, T
<1>5. Cardinality(T) = Cardinality(S) + (IF b.is = m THEN 1 ELSE 0)
  BY <1>1, <1>3, <1>4
<1>. QED  BY <1>5 DEF S, T, TallyOf

LEMMA WordsAppend ==
  ASSUME NEW s \in Seq(Byte), NEW b \in Byte, WordsWhole(s), b.is # "word"
  PROVE  WordsWhole(Append(s, b))
BY DEF WordsWhole

LEMMA WordsCell ==
  ASSUME NEW s \in Seq(Byte), NEW a \in Byte, NEW b \in Byte, NEW c \in Byte,
         WordsWhole(s), a.is = "word", b.is = "hi", c.is = "lo"
  PROVE  WordsWhole(s \o <<a, b, c>>)
<1> DEFINE t == s \o <<a, b, c>>
           n == Len(s)
<1>1. /\ n \in Nat /\ Len(t) = n + 3 /\ DOMAIN t = 1 .. n + 3
      /\ \A i \in 1 .. n : t[i] = s[i]
      /\ t[n + 1] = a /\ t[n + 2] = b /\ t[n + 3] = c
  <2> DEFINE u == <<a, b, c>>
  <2>1. u \in Seq(Byte) /\ Len(u) = 3 /\ u[1] = a /\ u[2] = b /\ u[3] = c
    OBVIOUS
  <2> HIDE DEF u
  <2>2. 1 \in 1 .. Len(u) /\ 2 \in 1 .. Len(u) /\ 3 \in 1 .. Len(u)
    BY <2>1
  <2>3. /\ n \in Nat /\ Len(s \o u) = n + Len(u) /\ DOMAIN (s \o u) = 1 .. n + Len(u)
        /\ \A i \in 1 .. n : (s \o u)[i] = s[i]
        /\ \A k \in 1 .. Len(u) : (s \o u)[n + k] = u[k]
    BY <2>1, ConcatPlaces
  <2>4. t = s \o u
    BY DEF u
  <2> HIDE DEF t, n
  <2>5. t[n + 1] = a /\ t[n + 2] = b /\ t[n + 3] = c
    BY <2>1, <2>2, <2>3, <2>4
  <2>. QED  BY <2>1, <2>3, <2>4, <2>5
<1>2. \A i \in 1 .. n : s[i].is = "word" =>
        i + 2 <= n /\ s[i + 1].is = "hi" /\ s[i + 2].is = "lo"
  <2>1. DOMAIN s = 1 .. n
    OBVIOUS
  <2>. QED  BY <2>1, Zenon DEF WordsWhole
<1> HIDE DEF t, n
<1>3. ASSUME NEW i \in 1 .. n + 3, t[i].is = "word"
      PROVE  i + 2 <= n + 3 /\ t[i + 1].is = "hi" /\ t[i + 2].is = "lo"
  <2>1. CASE i \in 1 .. n
    <3>1. i + 2 <= n /\ s[i + 1].is = "hi" /\ s[i + 2].is = "lo"
      BY <1>1, <1>2, <1>3, <2>1
    <3>2. i + 1 \in 1 .. n /\ i + 2 \in 1 .. n
      BY <1>1, <2>1, <3>1
    <3>. QED  BY <1>1, <3>1, <3>2
  <2>2. CASE i = n + 1
    <3>1. i + 1 = n + 2 /\ i + 2 = n + 3
      BY <1>1, <2>2
    <3>. QED  BY <1>1, <3>1
  <2>3. i # n + 2 /\ i # n + 3
    BY <1>1, <1>3
  <2>. QED  BY <1>1, <2>1, <2>2, <2>3
<1>. QED  BY <1>1, <1>3 DEF WordsWhole, t

(* The place of a marker among the markers does not change as the stream   *)
(* grows.                                                                  *)
LEMMA MarksConcat ==
  ASSUME NEW s \in Seq(Byte), NEW t \in Seq(Byte),
         \A k \in DOMAIN t : t[k].is # "index"
  PROVE  /\ MarkSet(s \o t) = MarkSet(s)
         /\ \A i : OrdinalOf(s \o t, i) = OrdinalOf(s, i)
<1>1. MarkSet(s \o t) = MarkSet(s)
  <2>1. DOMAIN (s \o t) = 1 .. Len(s) + Len(t)
    OBVIOUS
  <2>2. \A i \in 1 .. Len(s) : (s \o t)[i] = s[i]
    OBVIOUS
  <2>3. \A i \in Len(s) + 1 .. Len(s) + Len(t) : (s \o t)[i].is # "index"
    <3> TAKE i \in Len(s) + 1 .. Len(s) + Len(t)
    <3>1. (s \o t)[i] = t[i - Len(s)] /\ i - Len(s) \in DOMAIN t
      OBVIOUS
    <3>. QED  BY <3>1
  <2>. QED  BY <2>1, <2>2, <2>3 DEF MarkSet
<1>. QED  BY <1>1 DEF OrdinalOf

LEMMA MarksAppend ==
  ASSUME NEW s \in Seq(Byte), NEW b \in Byte, b.is = "index"
  PROVE  /\ MarkSet(Append(s, b)) = MarkSet(s) \cup {Len(s) + 1}
         /\ \A i \in MarkSet(s) : OrdinalOf(Append(s, b), i) = OrdinalOf(s, i)
         /\ OrdinalOf(Append(s, b), Len(s) + 1) = TallyOf(s, "index") + 1
<1>1. MarkSet(Append(s, b)) = MarkSet(s) \cup {Len(s) + 1}
  BY DEF MarkSet
<1>2. MarkSet(s) \subseteq 1 .. Len(s)
  BY DEF MarkSet
<1>3. ASSUME NEW i \in MarkSet(s)  PROVE OrdinalOf(Append(s, b), i) = OrdinalOf(s, i)
  <2>1. {j \in MarkSet(Append(s, b)) : j <= i} = {j \in MarkSet(s) : j <= i}
    BY <1>1, <1>2
  <2>. QED  BY <2>1 DEF OrdinalOf
<1>4. OrdinalOf(Append(s, b), Len(s) + 1) = TallyOf(s, "index") + 1
  <2>1. {j \in MarkSet(Append(s, b)) : j <= Len(s) + 1} = MarkSet(s) \cup {Len(s) + 1}
    BY <1>1, <1>2
  <2>2. IsFiniteSet(MarkSet(s)) /\ Len(s) + 1 \notin MarkSet(s)
    BY <1>2, TallyFinite DEF MarkSet
  <2>3. Cardinality(MarkSet(s) \cup {Len(s) + 1}) = Cardinality(MarkSet(s)) + 1
    BY <2>2, FS_AddElement
  <2>. QED  BY <2>1, <2>3 DEF OrdinalOf, TallyOf, MarkSet
<1>. QED  BY <1>1, <1>3, <1>4

LEMMA OrdinalRange ==
  ASSUME NEW s \in Seq(Byte), NEW i \in MarkSet(s)
  PROVE  OrdinalOf(s, i) \in 1 .. TallyOf(s, "index")
<1> DEFINE S == {j \in MarkSet(s) : j <= i}
<1>1. IsFiniteSet(MarkSet(s)) /\ Cardinality(MarkSet(s)) = TallyOf(s, "index")
  BY TallyFinite DEF MarkSet, TallyOf
<1>2. S \subseteq MarkSet(s) /\ i \in S
  BY DEF MarkSet
<1> HIDE DEF S
<1>3. IsFiniteSet(S) /\ Cardinality(S) <= Cardinality(MarkSet(s))
  BY <1>1, <1>2, FS_Subset
<1>4. Cardinality(S) # 0 /\ Cardinality(S) \in Nat
  BY <1>2, <1>3, FS_EmptySet, FS_CardinalityType
<1>5. Cardinality(MarkSet(s)) \in Nat
  BY <1>1, FS_CardinalityType
<1>. QED  BY <1>1, <1>3, <1>4, <1>5 DEF OrdinalOf, S

-----------------------------------------------------------------------------
(***************************************************************************)
(* What a pass of the loop adds to the stream.                             *)
(***************************************************************************)

(* The first part of PassCode: the cell, or the overflow.                  *)
CellOrOverflow(ldras, kind, covfs) ==
  IF ldras THEN CellCode(kind) ELSE IF covfs THEN <<Mark("overflow")>> ELSE << >>

(* t is s and some bytes more: d cells of a byte, w of a word, v overruns, *)
(* f overflows, no index.                                                  *)
Gains(s, t, d, w, v, f) ==
  /\ TallyOf(t, "delta") = TallyOf(s, "delta") + d
  /\ TallyOf(t, "word") = TallyOf(s, "word") + w
  /\ TallyOf(t, "overrun") = TallyOf(s, "overrun") + v
  /\ TallyOf(t, "overflow") = TallyOf(s, "overflow") + f
  /\ TallyOf(t, "index") = TallyOf(s, "index")
  /\ WordsWhole(s) => WordsWhole(t)

One(condition) == IF condition THEN 1 ELSE 0

LEMMA MarkFacts ==
  ASSUME now \in Nat,
         NEW m \in {"delta", "word", "hi", "lo", "overflow", "overrun", "index"}
  PROVE  Mark(m) \in Byte /\ Mark(m).is = m /\ Mark(m).at = now
BY DEF Mark, Byte

LEMMA AppendGains ==
  ASSUME NEW s \in Seq(Byte), NEW b \in Byte,
         b.is \in {"delta", "overrun", "overflow"}
  PROVE  Gains(s, Append(s, b), One(b.is = "delta"), 0,
               One(b.is = "overrun"), One(b.is = "overflow"))
<1>1. \A m : TallyOf(s, m) \in Nat
  BY TallyFinite
<1>2. \A m : TallyOf(Append(s, b), m) = TallyOf(s, m) + (IF b.is = m THEN 1 ELSE 0)
  BY TallyAppend
<1>3. WordsWhole(s) => WordsWhole(Append(s, b))
  BY WordsAppend
<1>. QED  BY <1>1, <1>2, <1>3 DEF Gains, One

LEMMA WordGains ==
  ASSUME NEW s \in Seq(Byte), NEW a \in Byte, NEW b \in Byte, NEW c \in Byte,
         a.is = "word", b.is = "hi", c.is = "lo"
  PROVE  Gains(s, s \o <<a, b, c>>, 0, 1, 0, 0)
<1> DEFINE s1 == Append(s, a)
           s2 == Append(s1, b)
           s3 == Append(s2, c)
<1>1. s \o <<a, b, c>> = s3
  BY ConcatThree
<1>2. WordsWhole(s) => WordsWhole(s \o <<a, b, c>>)
  BY WordsCell
<1>3. s1 \in Seq(Byte) /\ s2 \in Seq(Byte)
  OBVIOUS
<1>4. \A m : TallyOf(s1, m) = TallyOf(s, m) + (IF a.is = m THEN 1 ELSE 0)
  BY TallyAppend
<1> HIDE DEF s1
<1>5. \A m : TallyOf(s2, m) = TallyOf(s1, m) + (IF b.is = m THEN 1 ELSE 0)
  BY <1>3, TallyAppend
<1> HIDE DEF s2
<1>6. \A m : TallyOf(s3, m) = TallyOf(s2, m) + (IF c.is = m THEN 1 ELSE 0)
  BY <1>3, TallyAppend
<1> HIDE DEF s3
<1>7. \A m : TallyOf(s, m) \in Nat
  BY TallyFinite
<1>8. ASSUME NEW m \in {"delta", "word", "overrun", "overflow", "index"}
      PROVE  TallyOf(s3, m) = TallyOf(s, m) + (IF m = "word" THEN 1 ELSE 0)
  <2>1. TallyOf(s1, m) = TallyOf(s, m) + (IF m = "word" THEN 1 ELSE 0)
    BY <1>4
  <2>2. TallyOf(s2, m) = TallyOf(s1, m) + 0
    BY <1>5
  <2>3. TallyOf(s3, m) = TallyOf(s2, m) + 0
    BY <1>6
  <2>. QED  BY <1>7, <2>1, <2>2, <2>3
<1>9. WordsWhole(s) => WordsWhole(s3)
  BY <1>1, <1>2
<1>10. Gains(s, s3, 0, 1, 0, 0)
  BY <1>7, <1>8, <1>9 DEF Gains
<1>. QED  BY <1>1, <1>10

LEMMA FrontGains ==
  ASSUME now \in Nat, NEW s \in Seq(Byte),
         NEW ldras \in BOOLEAN, NEW kind \in {"delta", "word"}, NEW covfs \in BOOLEAN
  PROVE  /\ s \o CellOrOverflow(ldras, kind, covfs) \in Seq(Byte)
         /\ Gains(s, s \o CellOrOverflow(ldras, kind, covfs), One(ldras /\ kind = "delta"),
                  One(ldras /\ kind = "word"), 0, One(~ldras /\ covfs))
<1> DEFINE t == s \o CellOrOverflow(ldras, kind, covfs)
<1>1. CASE ldras /\ kind = "delta"
  <2>1. t = Append(s, Mark("delta"))
    BY <1>1, MarkFacts, ConcatOne DEF CellOrOverflow, CellCode
  <2>2. t \in Seq(Byte)
    BY <2>1, MarkFacts
  <2>3. Gains(s, t, 1, 0, 0, 0)
    BY <2>1, MarkFacts, AppendGains DEF One
  <2>. QED  BY <1>1, <2>2, <2>3 DEF One
<1>2. CASE ldras /\ kind = "word"
  <2>1. t = s \o <<Mark("word"), Mark("hi"), Mark("lo")>>
    BY <1>2 DEF CellOrOverflow, CellCode
  <2>2. t \in Seq(Byte)
    BY <2>1, MarkFacts, ConcatThree
  <2>3. Gains(s, t, 0, 1, 0, 0)
    BY <2>1, MarkFacts, WordGains
  <2>. QED  BY <1>2, <2>2, <2>3 DEF One
<1>3. CASE ~ldras /\ covfs
  <2>1. t = Append(s, Mark("overflow"))
    BY <1>3, MarkFacts, ConcatOne DEF CellOrOverflow
  <2>2. t \in Seq(Byte)
    BY <2>1, MarkFacts
  <2>3. Gains(s, t, 0, 0, 0, 1)
    BY <2>1, MarkFacts, AppendGains DEF One
  <2>. QED  BY <1>3, <2>2, <2>3 DEF One
<1>4. CASE ~ldras /\ ~covfs
  <2>1. t = s
    BY <1>4, ConcatNothing DEF CellOrOverflow
  <2>2. \A m : TallyOf(s, m) \in Nat
    BY TallyFinite
  <2>3. Gains(s, s, 0, 0, 0, 0)
    BY <2>2 DEF Gains
  <2>. QED  BY <1>4, <2>1, <2>3 DEF One
<1>. QED  BY <1>1, <1>2, <1>3, <1>4

LEMMA PassGains ==
  ASSUME now \in Nat, NEW s \in Seq(Byte), NEW ldras \in BOOLEAN,
         NEW kind \in {"delta", "word"}, NEW covfs \in BOOLEAN, NEW lovrs \in BOOLEAN
  PROVE  /\ s \o PassCode(ldras, kind, covfs, lovrs) \in Seq(Byte)
         /\ Gains(s, s \o PassCode(ldras, kind, covfs, lovrs),
                  One(ldras /\ kind = "delta"), One(ldras /\ kind = "word"),
                  One(lovrs), One(~ldras /\ covfs))
<1> DEFINE t == s \o CellOrOverflow(ldras, kind, covfs)
           u == s \o PassCode(ldras, kind, covfs, lovrs)
           d == One(ldras /\ kind = "delta")
           w == One(ldras /\ kind = "word")
           f == One(~ldras /\ covfs)
<1>1. t \in Seq(Byte) /\ Gains(s, t, d, w, 0, f)
  BY FrontGains
<1>2. d \in Nat /\ w \in Nat /\ f \in Nat
  BY DEF One
<1>3. CellOrOverflow(ldras, kind, covfs) \in Seq(Byte)
  BY MarkFacts DEF CellOrOverflow, CellCode
<1>4. PassCode(ldras, kind, covfs, lovrs)
        = CellOrOverflow(ldras, kind, covfs) \o (IF lovrs THEN <<Mark("overrun")>> ELSE << >>)
  BY DEF PassCode, CellOrOverflow
<1>5. u = t \o (IF lovrs THEN <<Mark("overrun")>> ELSE << >>)
  <2> DEFINE over == IF lovrs THEN <<Mark("overrun")>> ELSE << >>
  <2>1. over \in Seq(Byte)
    BY MarkFacts
  <2> HIDE DEF over
  <2>2. (s \o CellOrOverflow(ldras, kind, covfs)) \o over
          = s \o (CellOrOverflow(ldras, kind, covfs) \o over)
    BY <1>3, <2>1, ConcatTwice
  <2>. QED  BY <1>4, <2>2 DEF over
<1>6. \A m : TallyOf(s, m) \in Nat /\ TallyOf(t, m) \in Nat
  BY <1>1, TallyFinite
<1> HIDE DEF t, u, d, w, f
<1>7. CASE lovrs
  <2>1. u = Append(t, Mark("overrun")) /\ u \in Seq(Byte)
    BY <1>1, <1>5, <1>7, MarkFacts, ConcatOne
  <2>2. Gains(t, u, 0, 0, 1, 0)
    BY <1>1, <2>1, MarkFacts, AppendGains DEF One
  <2>3. Gains(s, u, d, w, 1, f)
    BY <1>1, <1>2, <1>6, <2>2 DEF Gains
  <2>. QED  BY <1>7, <2>1, <2>3 DEF One, u, d, w, f
<1>8. CASE ~lovrs
  <2>1. u = t
    BY <1>1, <1>5, <1>8, ConcatNothing
  <2>. QED  BY <1>1, <1>8, <2>1 DEF One, u, d, w, f
<1>. QED  BY <1>7, <1>8

(* Bytes of one pass, no marker of an index among them.                    *)
SeenNow(q) == /\ q \in Seq(Byte)
              /\ \A k \in DOMAIN q : q[k].is # "index" /\ q[k].at = now

LEMMA PassBytes ==
  ASSUME now \in Nat, NEW ldras \in BOOLEAN,
         NEW kind \in {"delta", "word"}, NEW covfs \in BOOLEAN, NEW lovrs \in BOOLEAN
  PROVE  SeenNow(PassCode(ldras, kind, covfs, lovrs))
<1> DEFINE a == CellOrOverflow(ldras, kind, covfs)
           b == IF lovrs THEN <<Mark("overrun")>> ELSE << >>
<1>1. SeenNow(a)
  BY MarkFacts DEF CellOrOverflow, CellCode, SeenNow
<1>2. SeenNow(b)
  BY MarkFacts DEF SeenNow
<1>3. PassCode(ldras, kind, covfs, lovrs) = a \o b
  BY DEF PassCode, CellOrOverflow
<1> HIDE DEF a, b
<1>4. SeenNow(a \o b)
  <2>1. /\ a \o b \in Seq(Byte)
        /\ Len(a) \in Nat /\ Len(b) \in Nat
        /\ DOMAIN (a \o b) = 1 .. Len(a) + Len(b)
        /\ DOMAIN a = 1 .. Len(a) /\ DOMAIN b = 1 .. Len(b)
        /\ \A i \in 1 .. Len(a) : (a \o b)[i] = a[i]
        /\ \A k \in 1 .. Len(b) : (a \o b)[Len(a) + k] = b[k]
    BY <1>1, <1>2, ConcatPlaces DEF SeenNow
  <2>2. ASSUME NEW k \in DOMAIN (a \o b)
        PROVE  (a \o b)[k].is # "index" /\ (a \o b)[k].at = now
    <3>1. CASE k \in 1 .. Len(a)
      BY <1>1, <2>1, <3>1 DEF SeenNow
    <3>2. CASE k \notin 1 .. Len(a)
      <4>1. k - Len(a) \in 1 .. Len(b) /\ Len(a) + (k - Len(a)) = k
        BY <2>1, <3>2
      <4>. QED  BY <1>2, <2>1, <4>1 DEF SeenNow
    <3>. QED  BY <3>1, <3>2
  <2>. QED  BY <2>1, <2>2 DEF SeenNow
<1>. QED  BY <1>3, <1>4

-----------------------------------------------------------------------------
(***************************************************************************)
(* The stream and the counters of the status, step by step.                *)
(***************************************************************************)

LEMMA RegimeFacts ==
  ASSUME TypeOK
  PROVE  /\ regime.min_gap \in Nat /\ regime.max_gap \in Nat
         /\ regime.cells \subseteq {"delta", "word"}
         /\ gap \in Nat
BY TrackAssumption DEF TypeOK, Regime

LEMMA StepTypes ==
  ASSUME TypeOK, NEW from, NEW to, Step(from, to)
  PROVE  /\ gap' \in 0 .. regime'.max_gap /\ regime' \in Regimes
         /\ spinning' \in BOOLEAN /\ pulses' \in Seq(Nat)
         /\ pc = from /\ pc' = to /\ pulses' = pulses /\ regime' = regime
         /\ gap' <= gap + 1
BY RegimeFacts DEF TypeOK, Step

LEMMA SameBytes ==
  ASSUME StreamInv, UNCHANGED <<ram, code, data_overruns, counts, index_counter, found_index>>
  PROVE  Whole'
BY DEF StreamInv, Whole, Bytes, PulsesHandled

LEMMA SetupStream == StreamInv /\ Setup => StreamInv'
<1> SUFFICES ASSUME StreamInv, Setup  PROVE StreamInv'
  OBVIOUS
<1> USE DEF StreamInv
<1>1. TypeOK'
  BY StepTypes DEF Setup, TypeOK, indexing, stream, Byte, Zeros
<1>2. CodeHeld'
  BY DEF CodeHeld, Setup, Step, Early, indexing, stream
<1>3. Progress'
  BY DEF Progress, Setup, Step, Early, Core, indexing, stream
<1>4. Whole'
  BY SameBytes DEF Setup, indexing, stream
<1>. QED  BY <1>1, <1>2, <1>3, <1>4

LEMMA ClearFlagStream == StreamInv /\ ClearFlag => StreamInv'
<1> SUFFICES ASSUME StreamInv, ClearFlag  PROVE StreamInv'
  OBVIOUS
<1> USE DEF StreamInv
<1>1. TypeOK'
  BY StepTypes DEF ClearFlag, TypeOK, indexing, stream, outcome, Byte, Zeros
<1>2. CodeHeld'
  BY DEF CodeHeld, ClearFlag, Step, Early, indexing, stream
<1>3. Progress'
  BY DEF Progress, ClearFlag, Step, Early, Core, indexing, stream, outcome
<1>4. Whole'
  BY SameBytes DEF ClearFlag, indexing, stream
<1>. QED  BY <1>1, <1>2, <1>3, <1>4

LEMMA WaitStream == StreamInv /\ Wait => StreamInv'
<1> SUFFICES ASSUME StreamInv, Wait  PROVE StreamInv'
  OBVIOUS
<1> USE DEF StreamInv
<1>1. TypeOK'
  <2>1. gap' \in 0 .. regime'.max_gap /\ regime' \in Regimes
        /\ spinning' \in BOOLEAN /\ pulses' \in Seq(Nat)
    BY StepTypes DEF Wait
  <2>2. pc' \in {"sync", "wait"}
    BY DEF Wait, Step
  <2>3. now' \in Nat /\ idx_flag' \in Nat
    BY DEF Wait, TypeOK
  <2>4. index_counter' = index_counter \/ index_counter' = 0
    BY DEF Wait, indexing
  <2>5. index_counter' \in 0 .. MaxIndex
    BY <2>4, TrackAssumption DEF TypeOK
  <2>6. found_index' \in BOOLEAN
    BY DEF Wait, TypeOK, indexing
  <2>7. UNCHANGED <<intr, my_index, code, counts, ram, data_overruns, index_pos, buffer, result>>
    BY DEF Wait, indexing, stream, outcome
  <2>. QED  BY <2>1, <2>2, <2>3, <2>5, <2>6, <2>7 DEF TypeOK
<1>2. CodeHeld'
  BY DEF CodeHeld, Wait, Step, Early, indexing, stream
<1>3. Progress'
  BY DEF Progress, Wait, Step, Early, Core, indexing, stream, outcome, TypeOK
<1>4. Whole'
  <2>1. CASE UNCHANGED <<index_counter, found_index>>
    BY <2>1, SameBytes DEF Wait, stream
  <2>2. CASE found_index' = FALSE
    BY <2>2 DEF Wait, stream, Whole, Bytes
  <2>. QED  BY <2>1, <2>2 DEF Wait, indexing
<1>. QED  BY <1>1, <1>2, <1>3, <1>4

(* A pass of the loop: the ring took what there was, or it says so.        *)
LEMMA PollFacts ==
  ASSUME TypeOK, Poll
  PROVE  /\ ram' \in Seq(Byte) /\ code' = << >>
         /\ data_overruns' \in Nat /\ data_overruns <= data_overruns'
         /\ \E ldras, covfs, lovrs \in BOOLEAN, kind \in {"delta", "word"} :
              /\ counts' = Counted(ldras, kind, covfs, lovrs)
              /\ data_overruns' = 0 =>
                   data_overruns = 0 /\ Bytes' = Bytes \o PassCode(ldras, kind, covfs, lovrs)
<1>1. PICK ldras \in BOOLEAN, covfs \in BOOLEAN, lovrs \in BOOLEAN, kind \in regime.cells :
        /\ counts' = Counted(ldras, kind, covfs, lovrs)
        /\ WriteCode(PutAfter(code, PassCode(ldras, kind, covfs, lovrs)))
  BY DEF Poll
<1> DEFINE p == PassCode(ldras, kind, covfs, lovrs)
           new == code \o p
<1>2. kind \in {"delta", "word"}
  BY RegimeFacts
<1>3. now \in Nat /\ code \in Seq(Byte) /\ ram \in Seq(Byte) /\ data_overruns \in Nat
  BY DEF TypeOK
<1>4. p \in Seq(Byte)
  BY <1>2, <1>3, PassBytes DEF SeenNow
<1>5. WriteCode(new)
  BY <1>1 DEF PutAfter
<1> HIDE DEF p
<1>6. new \in Seq(Byte) /\ Len(new) \in Nat
  BY <1>3, <1>4
<1>7. (ram \o code) \o p = ram \o new
  BY <1>3, <1>4, ConcatTwice
<1> HIDE DEF new
<1>8. PICK n \in 0 .. Len(new) :
        /\ ram' = ram \o SubSeq(new, 1, n)
        /\ data_overruns' = data_overruns + Len(new) - n
        /\ code' = << >>
  BY <1>5 DEF WriteCode, Unsent
<1>9. SubSeq(new, 1, n) \in Seq(Byte)
  BY <1>6
<1>10. ram' \in Seq(Byte)
  BY <1>3, <1>8, <1>9
<1>11. data_overruns' \in Nat /\ data_overruns <= data_overruns'
       /\ (data_overruns' = 0 => data_overruns = 0 /\ n = Len(new))
  BY <1>3, <1>6, <1>8
<1>12. ASSUME data_overruns' = 0
       PROVE  data_overruns = 0 /\ Bytes' = Bytes \o p
  <2>1. n = Len(new) /\ data_overruns = 0
    BY <1>11, <1>12
  <2>2. ram' = ram \o new
    BY <1>6, <1>8, <2>1, WholeSubSeq
  <2>3. ram' \o code' = ram'
    BY <1>8, <1>10, ConcatNothing
  <2>. QED  BY <1>7, <2>1, <2>2, <2>3 DEF Bytes
<1>. QED  BY <1>1, <1>2, <1>8, <1>10, <1>11, <1>12 DEF p

LEMMA PollStream == StreamInv /\ Poll => StreamInv'
<1> SUFFICES ASSUME StreamInv, Poll  PROVE StreamInv'
  OBVIOUS
<1> USE DEF StreamInv
<1>1. PICK ldras \in BOOLEAN, covfs \in BOOLEAN, lovrs \in BOOLEAN,
           kind \in {"delta", "word"} :
        /\ counts' = Counted(ldras, kind, covfs, lovrs)
        /\ data_overruns' = 0 =>
             data_overruns = 0 /\ Bytes' = Bytes \o PassCode(ldras, kind, covfs, lovrs)
  BY PollFacts
<1>2. ram' \in Seq(Byte) /\ code' = << >> /\ data_overruns' \in Nat
  BY PollFacts
<1>3. counts' \in [DOMAIN Zeros -> Nat]
  BY <1>1 DEF TypeOK, Counted, Zeros
<1>4. pc = "poll" /\ pc' = "test" /\ index_counter > 0 /\ now' = now + 1
      /\ UNCHANGED <<intr, idx_flag, index_counter, my_index, found_index,
                     index_pos, buffer, result>>
  BY DEF Poll, Step, indexing, outcome
<1>5. TypeOK'
  <2>1. code' \in Seq(Byte) /\ Len(code') <= MaxCode
    BY <1>2 DEF MaxCode
  <2>2. now' \in Nat
    BY <1>4 DEF TypeOK
  <2>3. gap' \in 0 .. regime'.max_gap /\ regime' \in Regimes
        /\ spinning' \in BOOLEAN /\ pulses' \in Seq(Nat)
    BY StepTypes DEF Poll
  <2>. QED  BY <1>2, <1>3, <1>4, <2>1, <2>2, <2>3 DEF TypeOK
<1>6. CodeHeld'
  BY <1>2, <1>4 DEF CodeHeld, TypeOK
<1>7. Progress'
  BY <1>4 DEF Progress, Early, Core, TypeOK
<1>8. Whole'
  <2> SUFFICES ASSUME data_overruns' = 0
               PROVE  /\ TallyOf(Bytes', "delta") = counts'.byte_values
                      /\ TallyOf(Bytes', "word") = counts'.word_values
                      /\ TallyOf(Bytes', "overrun") = counts'.cell_overruns
                      /\ TallyOf(Bytes', "overflow") = counts'.timer_overflows
                      /\ WordsWhole(Bytes')
                      /\ found_index => TallyOf(Bytes', "index") = PulsesHandled
    BY <1>4 DEF Whole, PulsesHandled, TallyOf, MarkSet
  <2>1. Bytes \in Seq(Byte) /\ now \in Nat
    BY DEF Bytes, TypeOK
  <2>2. data_overruns = 0 /\ Bytes' = Bytes \o PassCode(ldras, kind, covfs, lovrs)
    BY <1>1
  <2>3. Gains(Bytes, Bytes', One(ldras /\ kind = "delta"), One(ldras /\ kind = "word"),
              One(lovrs), One(~ldras /\ covfs))
    BY <2>1, <2>2, PassGains
  <2>4. /\ TallyOf(Bytes, "delta") = counts.byte_values
        /\ TallyOf(Bytes, "word") = counts.word_values
        /\ TallyOf(Bytes, "overrun") = counts.cell_overruns
        /\ TallyOf(Bytes, "overflow") = counts.timer_overflows
        /\ WordsWhole(Bytes)
        /\ found_index => TallyOf(Bytes, "index") = PulsesHandled
    BY <2>2 DEF Whole, TallyOf, MarkSet
  <2>5. /\ counts'.byte_values = counts.byte_values + One(ldras /\ kind = "delta")
        /\ counts'.word_values = counts.word_values + One(ldras /\ kind = "word")
        /\ counts'.cell_overruns = counts.cell_overruns + One(lovrs)
        /\ counts'.timer_overflows = counts.timer_overflows + One(~ldras /\ covfs)
    BY <1>1 DEF Counted, One
  <2>. QED  BY <2>3, <2>4, <2>5 DEF Gains
<1>. QED  BY <1>5, <1>6, <1>7, <1>8

LEMMA TestIndexStream == StreamInv /\ TestIndex => StreamInv'
<1> SUFFICES ASSUME StreamInv, TestIndex  PROVE StreamInv'
  OBVIOUS
<1> USE DEF StreamInv
<1>1. CASE /\ idx_flag = 0 /\ Step("test", "poll")
           /\ UNCHANGED <<intr, now, idx_flag, indexing, stream, outcome>>
  <2>1. TypeOK'
    BY <1>1, StepTypes DEF TypeOK, indexing, stream, outcome, Byte, Zeros
  <2>2. CodeHeld'
    BY <1>1 DEF CodeHeld, Step, Early, indexing, stream
  <2>3. Progress'
    BY <1>1 DEF Progress, Step, Early, Core, indexing, stream, outcome
  <2>4. Whole'
    BY <1>1, SameBytes DEF indexing, stream
  <2>. QED  BY <2>1, <2>2, <2>3, <2>4
<1>2. CASE /\ idx_flag # 0 /\ Step("test", "store")
           /\ code' = Append(code, Mark("index"))
           /\ index_counter' = index_counter - 1
           /\ UNCHANGED <<intr, now, idx_flag, my_index, found_index, counts, ram,
                          data_overruns, outcome>>
  <2> DEFINE b == Mark("index")
  <2>1. b \in Byte /\ b.is = "index" /\ now \in Nat
    BY MarkFacts DEF TypeOK
  <2>2. pc = "test" /\ pc' = "store" /\ code = << >> /\ index_counter > 0
        /\ index_counter \in 0 .. MaxIndex /\ found_index
    BY <1>2 DEF Step, CodeHeld, Progress, TypeOK
  <2> HIDE DEF b
  <2>3. code' = Append(<< >>, b)
    BY <1>2, <2>2 DEF b
  <2>4. code' = <<b>> /\ code' \in Seq(Byte) /\ Len(code') = 1 /\ code'[1] = b
    BY <2>1, <2>3
  <2>5. index_counter' \in 0 .. MaxIndex /\ index_counter' < MaxIndex
    BY <1>2, <2>2, TrackAssumption
  <2>6. TypeOK'
    <3>1. gap' \in 0 .. regime'.max_gap /\ regime' \in Regimes
          /\ spinning' \in BOOLEAN /\ pulses' \in Seq(Nat)
      BY <1>2, StepTypes
    <3>2. Len(code') <= MaxCode
      BY <2>4 DEF MaxCode
    <3>. QED  BY <1>2, <2>2, <2>4, <2>5, <3>1, <3>2 DEF TypeOK, outcome
  <2>7. CodeHeld'
    BY <2>1, <2>2, <2>4 DEF CodeHeld, Early
  <2>8. Progress'
    BY <1>2, <2>2, <2>5 DEF Progress, Early, Core
  <2>9. Whole'
    <3> SUFFICES ASSUME data_overruns = 0
                 PROVE  /\ TallyOf(Bytes', "delta") = counts.byte_values
                        /\ TallyOf(Bytes', "word") = counts.word_values
                        /\ TallyOf(Bytes', "overrun") = counts.cell_overruns
                        /\ TallyOf(Bytes', "overflow") = counts.timer_overflows
                        /\ WordsWhole(Bytes')
                        /\ TallyOf(Bytes', "index") = MaxIndex - index_counter'
      BY <1>2 DEF Whole, PulsesHandled, TallyOf, MarkSet
    <3>1. Bytes \in Seq(Byte) /\ Bytes' = Append(Bytes, b)
      <4>1. ram \in Seq(Byte) /\ code \in Seq(Byte) /\ ram' = ram
        BY <1>2 DEF TypeOK
      <4>2. Bytes = ram
        BY <2>2, <4>1, ConcatNothing DEF Bytes
      <4>3. Bytes' = ram \o <<b>>
        BY <2>4, <4>1 DEF Bytes
      <4>. QED  BY <2>1, <4>1, <4>2, <4>3, ConcatOne
    <3>2. /\ TallyOf(Bytes, "delta") = counts.byte_values
          /\ TallyOf(Bytes, "word") = counts.word_values
          /\ TallyOf(Bytes, "overrun") = counts.cell_overruns
          /\ TallyOf(Bytes, "overflow") = counts.timer_overflows
          /\ WordsWhole(Bytes)
          /\ TallyOf(Bytes, "index") = MaxIndex - index_counter
      BY <2>2 DEF Whole, TallyOf, MarkSet, PulsesHandled
    <3>3. \A m : TallyOf(Bytes', m) = TallyOf(Bytes, m) + (IF b.is = m THEN 1 ELSE 0)
      BY <2>1, <3>1, TallyAppend
    <3>4. \A m : TallyOf(Bytes, m) \in Nat
      BY <3>1, TallyFinite
    <3>5. \A m \in {"delta", "word", "overrun", "overflow"} :
            TallyOf(Bytes', m) = TallyOf(Bytes, m)
      BY <2>1, <3>3, <3>4
    <3>6. TallyOf(Bytes', "index") = TallyOf(Bytes, "index") + 1
      BY <2>1, <3>3
    <3>7. WordsWhole(Bytes')
      BY <2>1, <3>1, <3>2, WordsAppend
    <3>8. MaxIndex - index_counter + 1 = MaxIndex - index_counter'
      BY <1>2, <2>2, TrackAssumption
    <3>. QED  BY <3>2, <3>5, <3>6, <3>7, <1>2, <2>2, TrackAssumption
  <2>. QED  BY <2>6, <2>7, <2>8, <2>9
<1>. QED  BY <1>1, <1>2 DEF TestIndex

LEMMA StoreIndexStream == StreamInv /\ StoreIndex => StreamInv'
<1> SUFFICES ASSUME StreamInv, StoreIndex  PROVE StreamInv'
  OBVIOUS
<1> USE DEF StreamInv
<1>1. pc = "store" /\ pc' = "ack"
      /\ UNCHANGED <<intr, now, idx_flag, index_counter, found_index, code, counts, ram,
                     data_overruns, index_pos, buffer, result>>
  BY DEF StoreIndex, Step, stream, outcome
<1>2. TypeOK'
  <2>1. gap' \in 0 .. regime'.max_gap /\ regime' \in Regimes
        /\ spinning' \in BOOLEAN /\ pulses' \in Seq(Nat)
    BY StepTypes DEF StoreIndex
  <2>2. my_index' \in [0 .. MaxIndex - 1 -> Nat]
    BY DEF StoreIndex, TypeOK
  <2>. QED  BY <1>1, <2>1, <2>2 DEF TypeOK
<1>3. CodeHeld'
  BY <1>1 DEF CodeHeld, Early
<1>4. Progress'
  BY <1>1 DEF Progress, Early, Core
<1>5. Whole'
  BY <1>1, SameBytes
<1>. QED  BY <1>2, <1>3, <1>4, <1>5

LEMMA AckIndexStream == StreamInv /\ AckIndex => StreamInv'
<1> SUFFICES ASSUME StreamInv, AckIndex  PROVE StreamInv'
  OBVIOUS
<1> USE DEF StreamInv
<1>1. pc = "ack" /\ pc' = "poll" /\ idx_flag' = 0
      /\ UNCHANGED <<intr, now, index_counter, my_index, found_index, code, counts, ram,
                     data_overruns, index_pos, buffer, result>>
  BY DEF AckIndex, Acknowledged, Step, stream, outcome, indexing
<1>2. TypeOK'
  <2>1. gap' \in 0 .. regime'.max_gap /\ regime' \in Regimes
        /\ spinning' \in BOOLEAN /\ pulses' \in Seq(Nat)
    BY StepTypes DEF AckIndex
  <2>. QED  BY <1>1, <2>1 DEF TypeOK
<1>3. CodeHeld'
  BY <1>1 DEF CodeHeld, Early
<1>4. Progress'
  BY <1>1 DEF Progress, Early, Core
<1>5. Whole'
  BY <1>1, SameBytes
<1>. QED  BY <1>2, <1>3, <1>4, <1>5

LEMMA StopHardwareStream == StreamInv /\ StopHardware => StreamInv'
<1> SUFFICES ASSUME StreamInv, StopHardware  PROVE StreamInv'
  OBVIOUS
<1> USE DEF StreamInv
<1>1. pc = "poll" /\ pc' = "finish" /\ intr' = FALSE /\ index_counter = 0
      /\ UNCHANGED <<idx_flag, now, index_counter, my_index, found_index, code, counts, ram,
                     data_overruns, index_pos, buffer, result>>
  BY DEF StopHardware, Step, stream, outcome, indexing
<1>2. TypeOK'
  <2>1. gap' \in 0 .. regime'.max_gap /\ regime' \in Regimes
        /\ spinning' \in BOOLEAN /\ pulses' \in Seq(Nat)
    BY StepTypes DEF StopHardware
  <2>. QED  BY <1>1, <2>1 DEF TypeOK
<1>3. CodeHeld'
  BY <1>1 DEF CodeHeld, Early
<1>4. Progress'
  BY <1>1 DEF Progress, Early, Core
<1>5. Whole'
  BY <1>1, SameBytes
<1>. QED  BY <1>2, <1>3, <1>4, <1>5

LEMMA FinishResult ==
  ASSUME TypeOK, Finish
  PROVE  /\ result' \in 0 .. 15
         /\ found_index /\ data_overruns > 0 => result' \in 4 .. 7 \cup 12 .. 15
<1>1. PICK mismatch \in BOOLEAN :
        IF found_index
        THEN result' = Bit(RingLosses > 0, ERROR_SAMPLER_DATA_OVERRUN)
                       + Bit(counts.cell_overruns > 0, ERROR_SAMPLER_CELL_OVERRUN)
                       + Bit(mismatch, ERROR_SAMPLER_CHECKSUM_MISMATCH)
        ELSE result' = ERROR_SAMPLER_NO_INDEX
  BY DEF Finish
<1> DEFINE a == Bit(RingLosses > 0, ERROR_SAMPLER_DATA_OVERRUN)
           b == Bit(counts.cell_overruns > 0, ERROR_SAMPLER_CELL_OVERRUN)
           c == Bit(mismatch, ERROR_SAMPLER_CHECKSUM_MISMATCH)
<1>2. a \in {0, 4} /\ (data_overruns > 0 => a = 4)
  BY DEF Bit, RingLosses, ERROR_SAMPLER_DATA_OVERRUN
<1>3. b \in {0, 2}
  BY DEF Bit, ERROR_SAMPLER_CELL_OVERRUN
<1>4. c \in {0, 8}
  BY DEF Bit, ERROR_SAMPLER_CHECKSUM_MISMATCH
<1>5. CASE found_index
  <2>1. result' = a + b + c
    BY <1>1, <1>5
  <2> HIDE DEF a, b, c
  <2>. QED  BY <1>2, <1>3, <1>4, <2>1
<1>6. CASE ~found_index
  BY <1>1, <1>6 DEF ERROR_SAMPLER_NO_INDEX
<1>. QED  BY <1>5, <1>6

(* The store: the last of my_index is the first pulse.                     *)
LEMMA FinishStore ==
  ASSUME TypeOK, Finish
  PROVE  /\ found_index => index_pos' = [i \in 1 .. MaxIndex |-> my_index[MaxIndex - i]]
         /\ index_pos' \in Seq(Nat)
         /\ buffer' \in {"clear", "set"}
<1>1. CASE found_index
  <2>1. index_pos' = [i \in 1 .. MaxIndex |-> my_index[StoreOrder(i - 1)]]
        /\ buffer' = "set"
    BY <1>1 DEF Finish
  <2>2. ASSUME NEW i \in 1 .. MaxIndex
        PROVE  /\ StoreOrder(i - 1) = MaxIndex - i
               /\ MaxIndex - i \in 0 .. MaxIndex - 1
    BY TrackAssumption DEF StoreOrder
  <2>3. index_pos' = [i \in 1 .. MaxIndex |-> my_index[MaxIndex - i]]
    BY <2>1, <2>2
  <2>4. \A i \in 1 .. MaxIndex : my_index[MaxIndex - i] \in Nat
    BY <2>2 DEF TypeOK
  <2>5. index_pos' \in Seq(Nat)
    BY <2>3, <2>4, TrackAssumption
  <2>. QED  BY <2>1, <2>3, <2>5
<1>2. CASE ~found_index
  BY <1>2 DEF Finish, TypeOK
<1>. QED  BY <1>1, <1>2

LEMMA FinishStream == StreamInv /\ Finish => StreamInv'
<1> SUFFICES ASSUME StreamInv, Finish  PROVE StreamInv'
  OBVIOUS
<1> USE DEF StreamInv
<1>1. pc = "finish" /\ pc' = "done"
      /\ UNCHANGED <<intr, idx_flag, now, index_counter, my_index, found_index, code,
                     counts, ram, data_overruns>>
  BY DEF Finish, Step, stream, indexing
<1>2. TypeOK'
  <2>1. gap' \in 0 .. regime'.max_gap /\ regime' \in Regimes
        /\ spinning' \in BOOLEAN /\ pulses' \in Seq(Nat)
    BY StepTypes DEF Finish
  <2>. QED  BY <1>1, <2>1, FinishResult, FinishStore DEF TypeOK
<1>3. CodeHeld'
  BY <1>1 DEF CodeHeld, Early
<1>4. Progress'
  BY <1>1, FinishResult DEF Progress, Early, Core
<1>5. Whole'
  BY <1>1, SameBytes
<1>. QED  BY <1>2, <1>3, <1>4, <1>5

LEMMA PulseStream == StreamInv /\ read_index_func => StreamInv'
<1> SUFFICES ASSUME StreamInv, read_index_func  PROVE StreamInv'
  OBVIOUS
<1> USE DEF StreamInv
<1>1. UNCHANGED <<pc, intr, now, index_counter, my_index, found_index, code, counts, ram,
                  data_overruns, index_pos, buffer, result, regime, spinning>>
  BY DEF read_index_func, indexing, stream, outcome
<1>2. TypeOK'
  <2>1. gap' \in 0 .. regime'.max_gap
    BY <1>1, RegimeFacts DEF read_index_func
  <2>2. idx_flag' \in Nat
    BY DEF read_index_func, TypeOK
  <2>3. pulses' \in Seq(Nat)
    BY DEF read_index_func, TypeOK
  <2>. QED  BY <1>1, <2>1, <2>2, <2>3 DEF TypeOK
<1>3. CodeHeld'
  BY <1>1 DEF CodeHeld
<1>4. Progress'
  BY <1>1 DEF Progress, Early, read_index_func
<1>5. Whole'
  BY <1>1, SameBytes
<1>. QED  BY <1>2, <1>3, <1>4, <1>5

LEMMA StreamInit == Init => StreamInv
<1> SUFFICES ASSUME Init  PROVE StreamInv
  OBVIOUS
<1>1. regime \in Regimes /\ MaxIndex \in Nat
  BY TrackAssumption DEF Init
<1>2. TypeOK
  <2>1. counts \in [DOMAIN Zeros -> Nat]
    BY DEF Init, Zeros
  <2>2. code = << >> /\ code \in Seq(Byte) /\ Len(code) <= MaxCode
        /\ ram \in Seq(Byte) /\ index_pos \in Seq(Nat) /\ pulses \in Seq(Nat)
    BY DEF Init, MaxCode
  <2>3. my_index \in [0 .. MaxIndex - 1 -> Nat]
    BY DEF Init
  <2>4. index_counter \in 0 .. MaxIndex
    BY <1>1 DEF Init
  <2>5. pc = "start" /\ intr = FALSE /\ found_index = TRUE
        /\ spinning \in BOOLEAN /\ buffer \in {"clear", "set"}
    BY DEF Init
  <2>6. now \in Nat /\ idx_flag \in Nat /\ data_overruns \in Nat /\ result \in 0 .. 15
    BY DEF Init, STATUS_OK
  <2>7. gap \in 0 .. regime.max_gap /\ regime \in Regimes
    BY DEF Init
  <2>. QED  BY <2>1, <2>2, <2>3, <2>4, <2>5, <2>6, <2>7 DEF TypeOK
<1>3. CodeHeld
  BY DEF Init, CodeHeld
<1>4. Progress
  BY DEF Init, Progress, Early, Core
<1>5. Whole
  <2>1. Bytes = << >>
    BY DEF Init, Bytes
  <2>2. \A m : TallyOf(Bytes, m) = 0
    BY <2>1, TallyEmpty
  <2>3. WordsWhole(Bytes)
    BY <2>1 DEF WordsWhole
  <2>4. Cardinality(MarkSet(Bytes)) = PulsesHandled
    <3>1. Cardinality(MarkSet(Bytes)) = TallyOf(Bytes, "index")
      BY DEF TallyOf, MarkSet
    <3>2. PulsesHandled = 0
      BY <1>1 DEF PulsesHandled, Init
    <3>. QED  BY <2>2, <3>1, <3>2
  <2>. QED  BY <2>2, <2>3, <2>4 DEF Whole, Init, Zeros
<1>. QED  BY <1>2, <1>3, <1>4, <1>5 DEF StreamInv

LEMMA StreamStep == StreamInv /\ [Next]_vars => StreamInv'
<1> SUFFICES ASSUME StreamInv, [Next]_vars  PROVE StreamInv'
  OBVIOUS
<1>1. CASE UNCHANGED vars
  BY <1>1 DEF StreamInv, TypeOK, CodeHeld, Progress, Whole, Bytes, PulsesHandled,
              vars, indexing, stream, outcome, disk
<1>2. CASE Main
  BY <1>2, SetupStream, ClearFlagStream, WaitStream, PollStream, TestIndexStream,
     StoreIndexStream, AckIndexStream, StopHardwareStream, FinishStream DEF Main
<1>3. CASE read_index_func
  BY <1>3, PulseStream
<1>4. CASE Done
  BY <1>1, <1>4 DEF Done
<1>. QED  BY <1>1, <1>2, <1>3, <1>4 DEF Next

LEMMA StreamAlways == Spec => []StreamInv
<1>. QED  BY StreamInit, StreamStep, PTL DEF Spec

(* A track that was sampled with no byte lost is whole in the stream, and  *)
(* the status counts what is there (CleanTrackIsWhole, trk_read.c:354-443).*)
THEOREM CleanTrackAlwaysWhole == Spec => []CleanTrackIsWhole
<1>1. StreamInv => CleanTrackIsWhole
  <2> SUFFICES ASSUME StreamInv, pc = "done", found_index,
                      result \notin 4 .. 7 \cup 12 .. 15
               PROVE  /\ data_overruns = 0
                      /\ Tally("delta") = counts.byte_values
                      /\ Tally("word") = counts.word_values
                      /\ Tally("overrun") = counts.cell_overruns
                      /\ Tally("overflow") = counts.timer_overflows
                      /\ WordsWhole(Bytes)
                      /\ MaxIndex > 0 => TallyOf(ram, "index") = MaxIndex - 1
    BY DEF CleanTrackIsWhole, WordsWhole, TallyOf
  <2>1. data_overruns = 0
    BY DEF StreamInv, Progress, TypeOK
  <2>2. \A m : Tally(m) = TallyOf(Bytes, m)
    BY DEF Tally, TallyOf
  <2>3. ASSUME MaxIndex > 0
        PROVE  TallyOf(ram, "index") = MaxIndex - 1
    <3>1. index_counter = 0
      BY DEF StreamInv, Progress
    <3>2. ram \in Seq(Byte) /\ code \in Seq(Byte)
      BY DEF StreamInv, TypeOK
    <3>3. Len(code) = 1 /\ code[1].is = "index"
      BY <2>3, <3>1 DEF StreamInv, CodeHeld
    <3>4. code[1] \in Byte /\ code = <<code[1]>>
      BY <3>2, <3>3, OneByte
    <3>5. Bytes = Append(ram, code[1])
      BY <3>2, <3>4, ConcatOne DEF Bytes
    <3>6. TallyOf(Bytes, "index") = TallyOf(ram, "index") + 1
      BY <3>2, <3>3, <3>4, <3>5, TallyAppend
    <3>7. TallyOf(Bytes, "index") = MaxIndex
      BY <2>1, <3>1, TrackAssumption DEF StreamInv, Whole, TallyOf, MarkSet, PulsesHandled
    <3>8. TallyOf(ram, "index") \in Nat
      BY <3>2, TallyFinite
    <3>. QED  BY <3>6, <3>7, <3>8
  <2>. QED  BY <2>1, <2>2, <2>3 DEF StreamInv, Whole
<1>. QED  BY <1>1, StreamAlways, PTL

-----------------------------------------------------------------------------
(***************************************************************************)
(* The pulses and their markers, step by step.                             *)
(***************************************************************************)

LEMMA TurnFacts ==
  ASSUME LongTurns, TypeOK
  PROVE  regime.min_gap \in Nat /\ regime.min_gap >= 4
BY RegimeFacts DEF LongTurns, TypeOK

(* The types that the following proofs need.                               *)
LEMMA PlainTypes ==
  ASSUME TypeOK
  PROVE  /\ MaxIndex \in Nat /\ index_counter \in 0 .. MaxIndex /\ gap \in Nat
         /\ now \in Nat /\ idx_flag \in Nat
         /\ PulsesHandled \in Nat /\ PulsesHandled = MaxIndex - index_counter
         /\ pulses \in Seq(Nat) /\ Len(pulses) \in Nat
         /\ DOMAIN pulses = 1 .. Len(pulses)
         /\ \A k \in 1 .. Len(pulses) : pulses[k] \in Nat
         /\ Bytes \in Seq(Byte) /\ Len(Bytes) \in Nat
         /\ DOMAIN Bytes = 1 .. Len(Bytes)
         /\ \A j \in 1 .. Len(Bytes) : Bytes[j].at \in Nat
<1>1. MaxIndex \in Nat /\ index_counter \in 0 .. MaxIndex /\ gap \in Nat
      /\ now \in Nat /\ idx_flag \in Nat /\ pulses \in Seq(Nat)
  BY TrackAssumption, RegimeFacts DEF TypeOK
<1>2. PulsesHandled \in Nat /\ PulsesHandled = MaxIndex - index_counter
  BY <1>1 DEF PulsesHandled
<1>3. Bytes \in Seq(Byte)
  BY DEF TypeOK, Bytes
<1>4. \A j \in 1 .. Len(Bytes) : Bytes[j] \in Byte
  BY <1>3
<1>5. \A b \in Byte : b.at \in Nat
  BY DEF Byte
<1>. QED  BY <1>1, <1>2, <1>3, <1>4, <1>5

(* A marker in a whole stream belongs to a pulse that was handled.         *)
LEMMA MarkOfPulse ==
  ASSUME StreamInv, found_index, data_overruns = 0, NEW i \in MarkSet(Bytes)
  PROVE  OrdinalOf(Bytes, i) \in 1 .. PulsesHandled
<1>1. TallyOf(Bytes, "index") = PulsesHandled
  BY DEF StreamInv, Whole, TallyOf, MarkSet
<1>2. Bytes \in Seq(Byte)
  BY PlainTypes DEF StreamInv
<1>. QED  BY <1>1, <1>2, OrdinalRange

LEMMA PulseFacts ==
  ASSUME TypeOK, PulsesKept, found_index, pc \in Core
  PROVE  /\ Pending \in {0, 1} /\ Len(pulses) = PulsesHandled + Pending
         /\ PulsesHandled <= Len(pulses)
         /\ \A k \in 1 .. Len(pulses) : pulses[k] <= now
<1>1. Pending \in {0, 1}
  BY DEF Pending
<1>2. Len(pulses) = PulsesHandled + Pending
  BY DEF PulsesKept
<1>3. PulsesHandled <= Len(pulses)
  BY <1>1, <1>2, PlainTypes
<1>4. \A k \in 1 .. Len(pulses) : pulses[k] <= now
  BY PlainTypes DEF PulsesKept
<1>. QED  BY <1>1, <1>2, <1>3, <1>4

LEMMA SameMarks ==
  ASSUME BytesInTime, pc \in Core, pc' # "test",
         UNCHANGED <<ram, code, data_overruns, found_index, now, pulses>>
  PROVE  BytesInTime'
BY DEF BytesInTime, Bytes

LEMMA PollPlaced == TrackInv /\ Poll => Placed'
<1> SUFFICES ASSUME TrackInv, Poll  PROVE Placed'
  OBVIOUS
<1> USE DEF TrackInv, StreamInv, Placed
<1>1. pc = "poll" /\ pc' = "test" /\ now' = now + 1 /\ pulses' = pulses
      /\ UNCHANGED <<idx_flag, index_counter, my_index, found_index>>
  BY DEF Poll, Step, indexing
<1>2. gap' <= gap + 1 /\ gap' \in Nat
  BY StepTypes, RegimeFacts DEF Poll
<1>3. PulsesHandled' = PulsesHandled
  BY <1>1 DEF PulsesHandled
<1>4. Pending' = Pending
  BY <1>1 DEF Pending, InLoop
<1>5. PulsesKept'
  <2> SUFFICES ASSUME found_index
               PROVE  /\ Len(pulses) = PulsesHandled + Pending
                      /\ Pending = 1 => pulses[Len(pulses)] = idx_flag
                      /\ \A k \in 1 .. PulsesHandled : my_index[MaxIndex - k] = pulses[k]
                      /\ \A k \in DOMAIN pulses : pulses[k] <= now'
                      /\ idx_flag # 0 => gap' <= 1 /\ idx_flag >= now' - 1
    BY <1>1, <1>3, <1>4 DEF PulsesKept
  <2>1. \A k \in DOMAIN pulses : pulses[k] <= now'
    BY <1>1, PlainTypes DEF PulsesKept, Core
  <2>2. idx_flag # 0 => gap' <= 1 /\ idx_flag >= now' - 1
    BY <1>1, <1>2, PlainTypes DEF PulsesKept, Core
  <2>. QED  BY <1>1, <2>1, <2>2 DEF PulsesKept, Core
<1>6. PulsesStored'
  BY <1>1 DEF PulsesStored
<1>7. BytesInTime'
  <2> SUFFICES ASSUME found_index, data_overruns' = 0
               PROVE  /\ \A j \in DOMAIN Bytes' : Bytes'[j].at <= now' /\ Bytes'[j].at < now'
                      /\ \A i \in MarkSet(Bytes') : \A j \in DOMAIN Bytes' :
                           LET pulse == pulses[OrdinalOf(Bytes', i)]
                           IN  /\ j < i => Bytes'[j].at <= pulse
                               /\ j > i => Bytes'[j].at >= pulse
    BY <1>1 DEF BytesInTime
  <2>1. PICK new \in Seq(Byte) :
          /\ data_overruns = 0 /\ Bytes' = Bytes \o new
          /\ \A k \in DOMAIN new : new[k].is # "index" /\ new[k].at = now
    <3>1. PICK ldras \in BOOLEAN, covfs \in BOOLEAN, lovrs \in BOOLEAN,
               kind \in {"delta", "word"} :
            data_overruns = 0 /\ Bytes' = Bytes \o PassCode(ldras, kind, covfs, lovrs)
      BY PollFacts
    <3> DEFINE new == PassCode(ldras, kind, covfs, lovrs)
    <3>2. SeenNow(new)
      BY PassBytes, PlainTypes
    <3> HIDE DEF new
    <3>3. data_overruns = 0 /\ Bytes' = Bytes \o new
      BY <3>1 DEF new
    <3>. QED  BY <3>2, <3>3 DEF SeenNow
  <2>2. /\ MarkSet(Bytes') = MarkSet(Bytes)
        /\ \A i : OrdinalOf(Bytes', i) = OrdinalOf(Bytes, i)
    BY <2>1, PlainTypes, MarksConcat
  <2>3. /\ Len(new) \in Nat /\ DOMAIN new = 1 .. Len(new)
        /\ DOMAIN Bytes' = 1 .. Len(Bytes) + Len(new)
        /\ \A j \in 1 .. Len(Bytes) : Bytes'[j] = Bytes[j]
        /\ \A k \in 1 .. Len(new) : Bytes'[Len(Bytes) + k] = new[k]
    BY <2>1, PlainTypes, ConcatPlaces
  <2>4. ASSUME NEW j \in DOMAIN Bytes', j \notin 1 .. Len(Bytes)
        PROVE  Bytes'[j].at = now
    <3>1. j - Len(Bytes) \in 1 .. Len(new) /\ Len(Bytes) + (j - Len(Bytes)) = j
      BY <2>3, <2>4, PlainTypes
    <3>. QED  BY <2>1, <2>3, <3>1
  <2>5. /\ \A j \in 1 .. Len(Bytes) : Bytes[j].at <= now
        /\ \A i \in MarkSet(Bytes) : \A j \in 1 .. Len(Bytes) :
             LET pulse == pulses[OrdinalOf(Bytes, i)]
             IN  /\ j < i => Bytes[j].at <= pulse
                 /\ j > i => Bytes[j].at >= pulse
    BY <1>1, <2>1, PlainTypes DEF BytesInTime, Core
  <2>6. ASSUME NEW j \in DOMAIN Bytes'
        PROVE  Bytes'[j].at <= now' /\ Bytes'[j].at < now'
    <3>1. CASE j \in 1 .. Len(Bytes)
      BY <1>1, <2>3, <2>5, <3>1, PlainTypes
    <3>2. CASE j \notin 1 .. Len(Bytes)
      BY <1>1, <2>4, <3>2, PlainTypes
    <3>. QED  BY <3>1, <3>2
  <2>7. ASSUME NEW i \in MarkSet(Bytes'), NEW j \in DOMAIN Bytes'
        PROVE  LET pulse == pulses[OrdinalOf(Bytes', i)]
               IN  /\ j < i => Bytes'[j].at <= pulse
                   /\ j > i => Bytes'[j].at >= pulse
    <3> DEFINE o == OrdinalOf(Bytes, i)
    <3>1. i \in MarkSet(Bytes) /\ OrdinalOf(Bytes', i) = o /\ i \in 1 .. Len(Bytes)
      BY <2>2, PlainTypes DEF MarkSet
    <3>2. o \in 1 .. PulsesHandled
      BY <2>1, <3>1, MarkOfPulse
    <3>3. PulsesHandled <= Len(pulses) /\ \A k \in 1 .. Len(pulses) : pulses[k] <= now
      BY <1>1, PulseFacts DEF Core
    <3> HIDE DEF o
    <3>4. pulses[o] <= now /\ pulses[o] \in Nat
      BY <3>2, <3>3, PlainTypes
    <3>5. CASE j \in 1 .. Len(Bytes)
      <4>1. /\ j < i => Bytes[j].at <= pulses[o]
            /\ j > i => Bytes[j].at >= pulses[o]
        BY <2>5, <3>1, <3>5 DEF o
      <4>. QED  BY <2>3, <3>1, <3>5, <4>1
    <3>6. CASE j \notin 1 .. Len(Bytes)
      <4>1. Bytes'[j].at = now
        BY <2>4, <3>6
      <4>2. ~ (j < i)
        BY <2>3, <3>1, <3>6, PlainTypes
      <4>. QED  BY <3>1, <3>4, <4>1, <4>2, PlainTypes
    <3>. QED  BY <3>5, <3>6
  <2>. QED  BY <2>6, <2>7
<1>8. RecordedIndices'
  BY <1>1 DEF RecordedIndices
<1>. QED  BY <1>5, <1>6, <1>7, <1>8

LEMMA TestIndexPlaced == TrackInv /\ TestIndex => Placed'
<1> SUFFICES ASSUME TrackInv, TestIndex  PROVE Placed'
  OBVIOUS
<1> USE DEF TrackInv, StreamInv, Placed
<1>1. CASE /\ idx_flag = 0 /\ Step("test", "poll")
           /\ UNCHANGED <<intr, now, idx_flag, indexing, stream, outcome>>
  <2>1. pc = "test" /\ pc' = "poll" /\ pulses' = pulses /\ idx_flag = 0
        /\ UNCHANGED <<now, idx_flag, index_counter, my_index, found_index, ram, code,
                       data_overruns>>
    BY <1>1 DEF Step, indexing, stream
  <2>2. PulsesHandled' = PulsesHandled /\ Pending' = Pending
    BY <2>1 DEF PulsesHandled, Pending, InLoop
  <2>3. PulsesKept'
    BY <2>1, <2>2 DEF PulsesKept, Core
  <2>4. PulsesStored' /\ RecordedIndices'
    BY <2>1 DEF PulsesStored, RecordedIndices
  <2>5. BytesInTime'
    BY <2>1, SameMarks DEF Core
  <2>. QED  BY <2>3, <2>4, <2>5
<1>2. CASE /\ idx_flag # 0 /\ Step("test", "store")
           /\ code' = Append(code, Mark("index"))
           /\ index_counter' = index_counter - 1
           /\ UNCHANGED <<intr, now, idx_flag, my_index, found_index, counts, ram,
                          data_overruns, outcome>>
  <2>1. pc = "test" /\ pc' = "store" /\ pulses' = pulses /\ idx_flag # 0 /\ found_index
        /\ UNCHANGED <<now, idx_flag, my_index, found_index, ram, data_overruns>>
    BY <1>2 DEF Step, Progress
  <2>2. gap' \in Nat /\ gap' <= gap + 1
    BY <1>2, StepTypes, RegimeFacts
  <2>3. PulsesHandled' = PulsesHandled + 1
    BY <1>2, PlainTypes DEF PulsesHandled
  <2>4. Pending = 1 /\ Pending' = 0
    BY <2>1 DEF Pending, InLoop
  <2>5. Len(pulses) = PulsesHandled + 1
    BY <2>1, <2>4, PulseFacts DEF Core
  <2>6. pulses[Len(pulses)] = idx_flag /\ gap <= 1 /\ idx_flag >= now - 1
    BY <2>1, <2>4 DEF PulsesKept, Core
  <2>7. PulsesKept'
    <3>1. \A k \in 1 .. PulsesHandled' :
            k = PulsesHandled' \/ my_index[MaxIndex - k] = pulses[k]
      <4>1. \A k \in 1 .. PulsesHandled : my_index[MaxIndex - k] = pulses[k]
        BY <2>1 DEF PulsesKept, Core
      <4>2. \A k \in 1 .. PulsesHandled' : k = PulsesHandled' \/ k \in 1 .. PulsesHandled
        BY <2>3, PlainTypes
      <4>. QED  BY <4>1, <4>2
    <3>2. gap' <= 2
      BY <2>2, <2>6, PlainTypes
    <3>3. Len(pulses) = PulsesHandled' + Pending'
      BY <2>3, <2>4, <2>5, PlainTypes
    <3>4. \A k \in DOMAIN pulses : pulses[k] <= now
      BY <2>1 DEF PulsesKept, Core
    <3>. QED  BY <2>1, <2>6, <3>1, <3>2, <3>3, <3>4 DEF PulsesKept
  <2>8. PulsesStored' /\ RecordedIndices'
    BY <2>1 DEF PulsesStored, RecordedIndices
  <2>9. BytesInTime'
    <3> SUFFICES ASSUME data_overruns = 0
                 PROVE  /\ \A j \in DOMAIN Bytes' : Bytes'[j].at <= now
                        /\ \A i \in MarkSet(Bytes') : \A j \in DOMAIN Bytes' :
                             LET pulse == pulses[OrdinalOf(Bytes', i)]
                             IN  /\ j < i => Bytes'[j].at <= pulse
                                 /\ j > i => Bytes'[j].at >= pulse
      BY <2>1 DEF BytesInTime
    <3> DEFINE b == Mark("index")
               n == Len(Bytes)
    <3>1. b \in Byte /\ b.is = "index" /\ b.at = now
      BY MarkFacts, PlainTypes
    <3>2. Bytes \in Seq(Byte) /\ Bytes' = Append(Bytes, b)
      <4>1. ram \in Seq(Byte) /\ code = << >> /\ ram' = ram
        BY <1>2, <2>1 DEF TypeOK, CodeHeld
      <4>2. Bytes = ram
        BY <4>1, ConcatNothing DEF Bytes
      <4>3. code' = <<b>>
        BY <1>2, <4>1
      <4>. QED  BY <3>1, <4>1, <4>2, <4>3, ConcatOne DEF Bytes
    <3> HIDE DEF b
    <3>3. /\ n \in Nat /\ DOMAIN Bytes' = 1 .. n + 1 /\ Bytes'[n + 1] = b
          /\ \A j \in 1 .. n : Bytes'[j] = Bytes[j]
      BY <3>1, <3>2
    <3>4. /\ MarkSet(Bytes') = MarkSet(Bytes) \cup {n + 1}
          /\ \A i \in MarkSet(Bytes) : OrdinalOf(Bytes', i) = OrdinalOf(Bytes, i)
          /\ OrdinalOf(Bytes', n + 1) = TallyOf(Bytes, "index") + 1
      BY <3>1, <3>2, MarksAppend
    <3>5. OrdinalOf(Bytes', n + 1) = Len(pulses)
      BY <2>1, <2>5, <3>4 DEF Whole, TallyOf, MarkSet
    <3>6. /\ \A j \in 1 .. n : Bytes[j].at \in Nat /\ Bytes[j].at < now
          /\ \A i \in MarkSet(Bytes) : \A j \in 1 .. n :
               LET pulse == pulses[OrdinalOf(Bytes, i)]
               IN  /\ j < i => Bytes[j].at <= pulse
                   /\ j > i => Bytes[j].at >= pulse
      BY <2>1, PlainTypes DEF BytesInTime, Core
    <3>7. MarkSet(Bytes) \subseteq 1 .. n
      BY PlainTypes DEF MarkSet
    <3> HIDE DEF n
    <3>8. ASSUME NEW j \in DOMAIN Bytes'
          PROVE  Bytes'[j].at <= now
      <4>1. CASE j \in 1 .. n
        BY <3>3, <3>6, <4>1, PlainTypes
      <4>2. CASE j = n + 1
        BY <3>1, <3>3, <4>2, PlainTypes
      <4>. QED  BY <3>3, <4>1, <4>2
    <3>9. ASSUME NEW i \in MarkSet(Bytes), NEW j \in DOMAIN Bytes'
          PROVE  LET pulse == pulses[OrdinalOf(Bytes', i)]
                 IN  /\ j < i => Bytes'[j].at <= pulse
                     /\ j > i => Bytes'[j].at >= pulse
      <4> DEFINE o == OrdinalOf(Bytes, i)
      <4>1. o \in 1 .. PulsesHandled
        BY <2>1, MarkOfPulse
      <4>2. OrdinalOf(Bytes', i) = o
        BY <3>4
      <4>3. /\ PulsesHandled <= Len(pulses)
            /\ \A k \in 1 .. Len(pulses) : pulses[k] <= now
        BY <2>1, PulseFacts DEF Core
      <4>4. \A k \in 1 .. n : /\ k < i => Bytes[k].at <= pulses[o]
                              /\ k > i => Bytes[k].at >= pulses[o]
        BY <3>6
      <4> HIDE DEF o
      <4>5. pulses[o] <= now
        BY <4>1, <4>3, PlainTypes
      <4>6. CASE j \in 1 .. n
        BY <3>3, <4>2, <4>4, <4>6
      <4>7. CASE j = n + 1
        <5>1. ~ (j < i)
          BY <3>3, <3>7, <4>7
        <5>2. Bytes'[j].at = now
          BY <3>1, <3>3, <4>7
        <5>3. now >= pulses[o]
          BY <4>1, <4>3, <4>5, PlainTypes
        <5>. QED  BY <4>2, <5>1, <5>2, <5>3
      <4>. QED  BY <3>3, <4>6, <4>7
    <3>10. ASSUME NEW j \in DOMAIN Bytes'
           PROVE  /\ j < n + 1 => Bytes'[j].at <= idx_flag
                  /\ ~ (j > n + 1)
      <4>1. ~ (j > n + 1)
        BY <3>3
      <4>2. ASSUME j < n + 1  PROVE Bytes'[j].at <= idx_flag
        <5>1. j \in 1 .. n
          BY <3>3, <4>2
        <5>2. Bytes'[j].at \in Nat /\ Bytes'[j].at < now
          BY <3>3, <3>6, <5>1
        <5>3. \A x, y, z \in Nat : x < y /\ z >= y - 1 => x <= z
          OBVIOUS
        <5>. QED  BY <2>6, <5>2, <5>3, PlainTypes
      <4>. QED  BY <4>1, <4>2
    <3>11. ASSUME NEW i \in MarkSet(Bytes'), NEW j \in DOMAIN Bytes'
           PROVE  LET pulse == pulses[OrdinalOf(Bytes', i)]
                  IN  /\ j < i => Bytes'[j].at <= pulse
                      /\ j > i => Bytes'[j].at >= pulse
      <4>1. CASE i \in MarkSet(Bytes)
        BY <3>9, <4>1
      <4>2. CASE i = n + 1
        BY <2>6, <3>5, <3>10, <4>2
      <4>. QED  BY <3>4, <4>1, <4>2
    <3>. QED  BY <3>8, <3>11
  <2>. QED  BY <2>7, <2>8, <2>9
<1>. QED  BY <1>1, <1>2 DEF TestIndex

LEMMA StoreIndexPlaced == TrackInv /\ StoreIndex => Placed'
<1> SUFFICES ASSUME TrackInv, StoreIndex  PROVE Placed'
  OBVIOUS
<1> USE DEF TrackInv, StreamInv, Placed
<1>1. pc = "store" /\ pc' = "ack" /\ pulses' = pulses
      /\ UNCHANGED <<now, idx_flag, index_counter, found_index, ram, code, data_overruns>>
  BY DEF StoreIndex, Step, stream
<1>2. my_index' = [my_index EXCEPT ![index_counter] = idx_flag]
  BY DEF StoreIndex
<1>3. found_index /\ index_counter < MaxIndex
  BY <1>1 DEF Progress
<1>4. gap' \in Nat /\ gap' <= gap + 1
  BY StepTypes, RegimeFacts DEF StoreIndex
<1>5. PulsesHandled' = PulsesHandled
  BY <1>1 DEF PulsesHandled
<1>6. Pending = 0 /\ Pending' = 0
  BY <1>1 DEF Pending, InLoop
<1>7. Len(pulses) = PulsesHandled /\ pulses[Len(pulses)] = idx_flag /\ gap <= 2
  BY <1>1, <1>3, <1>6, PlainTypes DEF PulsesKept, Core
<1>8. ASSUME NEW k \in 1 .. PulsesHandled
      PROVE  my_index'[MaxIndex - k] = pulses[k]
  <2>1. my_index \in [0 .. MaxIndex - 1 -> Nat]
    BY DEF TypeOK
  <2>2. CASE k = PulsesHandled
    <3>1. MaxIndex - k = index_counter /\ index_counter \in 0 .. MaxIndex - 1
      BY <1>3, <2>2, PlainTypes
    <3>. QED  BY <1>2, <1>7, <2>1, <2>2, <3>1
  <2>3. CASE k # PulsesHandled
    <3>1. MaxIndex - k # index_counter /\ MaxIndex - k \in 0 .. MaxIndex - 1
      BY <2>3, PlainTypes
    <3>2. my_index[MaxIndex - k] = pulses[k]
      BY <1>1, <1>3, <2>3 DEF PulsesKept, Core
    <3>. QED  BY <1>2, <2>1, <3>1, <3>2
  <2>. QED  BY <2>2, <2>3
<1>9. PulsesKept'
  <2>1. \A k \in DOMAIN pulses : pulses[k] <= now
    BY <1>1, <1>3 DEF PulsesKept, Core
  <2>2. gap' <= 3
    BY <1>4, <1>7, PlainTypes
  <2>3. Len(pulses) = PulsesHandled' + Pending'
    BY <1>5, <1>6, <1>7, PlainTypes
  <2>. QED  BY <1>1, <1>5, <1>6, <1>8, <2>1, <2>2, <2>3 DEF PulsesKept
<1>10. PulsesStored' /\ RecordedIndices'
  BY <1>1 DEF PulsesStored, RecordedIndices
<1>11. BytesInTime'
  BY <1>1, SameMarks DEF Core
<1>. QED  BY <1>9, <1>10, <1>11

LEMMA AckIndexPlaced == TrackInv /\ AckIndex => Placed'
<1> SUFFICES ASSUME TrackInv, AckIndex  PROVE Placed'
  OBVIOUS
<1> USE DEF TrackInv, StreamInv, Placed
<1>1. pc = "ack" /\ pc' = "poll" /\ pulses' = pulses /\ idx_flag' = 0
      /\ UNCHANGED <<now, index_counter, my_index, found_index, ram, code, data_overruns>>
  BY DEF AckIndex, Acknowledged, Step, stream, indexing
<1>2. PulsesHandled' = PulsesHandled
  BY <1>1 DEF PulsesHandled
<1>3. Pending = 0 /\ Pending' = 0
  BY <1>1 DEF Pending, InLoop
<1>4. PulsesKept'
  BY <1>1, <1>2, <1>3 DEF PulsesKept, Core
<1>5. PulsesStored' /\ RecordedIndices'
  BY <1>1 DEF PulsesStored, RecordedIndices
<1>6. BytesInTime'
  BY <1>1, SameMarks DEF Core
<1>. QED  BY <1>4, <1>5, <1>6

LEMMA StopHardwarePlaced == TrackInv /\ StopHardware => Placed'
<1> SUFFICES ASSUME TrackInv, StopHardware  PROVE Placed'
  OBVIOUS
<1> USE DEF TrackInv, StreamInv, Placed
<1>1. pc = "poll" /\ pc' = "finish" /\ pulses' = pulses /\ index_counter = 0
      /\ UNCHANGED <<my_index, found_index>>
  BY DEF StopHardware, Step, indexing
<1>2. PulsesStored'
  <2> SUFFICES ASSUME found_index
               PROVE  /\ Len(pulses) >= MaxIndex
                      /\ \A k \in 1 .. MaxIndex : my_index[MaxIndex - k] = pulses[k]
    BY <1>1 DEF PulsesStored
  <2>1. PulsesHandled = MaxIndex
    BY <1>1, PlainTypes
  <2>2. Len(pulses) >= MaxIndex
    BY <1>1, <2>1, PulseFacts, PlainTypes DEF Core
  <2>. QED  BY <1>1, <2>1, <2>2 DEF PulsesKept, Core
<1>3. PulsesKept' /\ BytesInTime' /\ RecordedIndices'
  BY <1>1 DEF PulsesKept, BytesInTime, RecordedIndices, Core
<1>. QED  BY <1>2, <1>3

LEMMA FinishPlaced == TrackInv /\ Finish => Placed'
<1> SUFFICES ASSUME TrackInv, Finish  PROVE Placed'
  OBVIOUS
<1> USE DEF TrackInv, StreamInv, Placed
<1>1. pc = "finish" /\ pc' = "done" /\ pulses' = pulses /\ UNCHANGED <<my_index, found_index>>
  BY DEF Finish, Step, indexing
<1>2. PulsesStored'
  BY <1>1 DEF PulsesStored
<1>3. PulsesKept' /\ BytesInTime'
  BY <1>1 DEF PulsesKept, BytesInTime, Core
<1>4. RecordedIndices'
  <2> SUFFICES ASSUME found_index
               PROVE  Len(index_pos') = MaxIndex /\ IsPrefix(index_pos', pulses)
    BY <1>1 DEF RecordedIndices
  <2>1. index_pos' = [i \in 1 .. MaxIndex |-> my_index[MaxIndex - i]]
        /\ index_pos' \in Seq(Nat)
    BY FinishStore
  <2>2. MaxIndex \in Nat /\ pulses \in Seq(Nat) /\ Len(pulses) >= MaxIndex
        /\ \A k \in 1 .. MaxIndex : my_index[MaxIndex - k] = pulses[k]
    BY <1>1, PlainTypes DEF PulsesStored
  <2>3. Len(index_pos') = MaxIndex /\ \A i \in 1 .. MaxIndex : index_pos'[i] = pulses[i]
    BY <2>1, <2>2
  <2>. QED  BY <2>1, <2>2, <2>3, PrefixByPlace
<1>. QED  BY <1>2, <1>3, <1>4

LEMMA PulsePlaced == LongTurns /\ TrackInv /\ read_index_func => Placed'
<1> SUFFICES ASSUME LongTurns, TrackInv, read_index_func  PROVE Placed'
  OBVIOUS
<1> USE DEF TrackInv, StreamInv, Placed
<1>1. gap >= 4 /\ gap' = 0
      /\ UNCHANGED <<pc, now, index_counter, my_index, found_index, ram, code,
                     data_overruns, index_pos>>
  <2>1. gap >= regime.min_gap
    BY DEF read_index_func
  <2>2. gap >= 4
    BY <2>1, TurnFacts, PlainTypes
  <2>. QED  BY <2>2 DEF read_index_func, indexing, stream, outcome
<1>2. CASE ~ (found_index /\ pc \in Core)
  <2>1. pulses' = pulses \/ ~ found_index
    BY <1>2 DEF read_index_func, Core
  <2>. QED  BY <1>1, <1>2, <2>1 DEF PulsesKept, PulsesStored, BytesInTime, RecordedIndices
<1>3. CASE found_index /\ pc \in Core
  <2>1. InLoop /\ idx_flag = 0
    BY <1>1, <1>3, PlainTypes DEF PulsesKept, Core, InLoop
  <2>2. pulses' = Append(pulses, now) /\ idx_flag' = now /\ now >= 1
    BY <1>3 DEF read_index_func, Progress, Core
  <2>3. PulsesHandled' = PulsesHandled
    BY <1>1 DEF PulsesHandled
  <2>4. Pending = 0 /\ Pending' = 1
    BY <1>1, <2>1, <2>2, PlainTypes DEF Pending, InLoop
  <2>5. Len(pulses) = PulsesHandled
    BY <1>3, <2>4, PulseFacts, PlainTypes
  <2>6. /\ Len(pulses') = Len(pulses) + 1 /\ pulses'[Len(pulses')] = now
        /\ DOMAIN pulses' = 1 .. Len(pulses) + 1
        /\ \A k \in 1 .. Len(pulses) : pulses'[k] = pulses[k]
    BY <2>2, PlainTypes
  <2>7. PulsesKept'
    <3>1. \A k \in 1 .. PulsesHandled : my_index[MaxIndex - k] = pulses'[k]
      <4>1. \A k \in 1 .. PulsesHandled : my_index[MaxIndex - k] = pulses[k]
        BY <1>3, <2>1 DEF PulsesKept, InLoop
      <4>. QED  BY <2>5, <2>6, <4>1
    <3>2. \A k \in DOMAIN pulses' : pulses'[k] <= now
      <4>1. \A k \in 1 .. Len(pulses) : pulses[k] <= now
        BY <1>3, PulseFacts
      <4>2. now <= now /\ Len(pulses) \in Nat
        BY PlainTypes
      <4>. QED  BY <2>6, <4>1, <4>2
    <3>3. Len(pulses') = PulsesHandled' + Pending'
      BY <2>3, <2>4, <2>5, <2>6
    <3>4. now >= now - 1
      BY PlainTypes
    <3>5. pc' # "store" /\ pc' # "ack" /\ gap' <= 1
      BY <1>1, <2>1 DEF InLoop
    <3>6. now' = now /\ my_index' = my_index /\ idx_flag' = now /\ gap' = 0
      BY <1>1, <2>2
    <3>. QED  BY <2>3, <2>6, <3>1, <3>2, <3>3, <3>4, <3>5, <3>6 DEF PulsesKept
  <2>8. PulsesStored' /\ RecordedIndices'
    BY <1>1, <2>1 DEF PulsesStored, RecordedIndices, InLoop
  <2>9. BytesInTime'
    <3> SUFFICES ASSUME data_overruns = 0  PROVE BytesInTime'
      BY <1>1 DEF BytesInTime
    <3>1. Bytes' = Bytes
      BY <1>1 DEF Bytes
    <3>2. \A i \in MarkSet(Bytes) :
            pulses'[OrdinalOf(Bytes, i)] = pulses[OrdinalOf(Bytes, i)]
      BY <1>3, <2>5, <2>6, MarkOfPulse
    <3>. QED  BY <1>1, <1>3, <3>1, <3>2 DEF BytesInTime
  <2>. QED  BY <2>7, <2>8, <2>9
<1>. QED  BY <1>2, <1>3

(* Before the loop, and after its last pass.                               *)
LEMMA OtherPlaced == TrackInv /\ (Setup \/ ClearFlag \/ Wait) => Placed'
<1> SUFFICES ASSUME TrackInv, Setup \/ ClearFlag \/ Wait  PROVE Placed'
  OBVIOUS
<1> USE DEF TrackInv, StreamInv, Placed
<1>1. CASE Setup \/ Wait \/ Step("arm", "wait")
  <2>1. pc' \notin Core \cup {"finish", "done"}
    BY <1>1 DEF Setup, Wait, Step, Core
  <2>. QED  BY <2>1 DEF PulsesKept, PulsesStored, BytesInTime, RecordedIndices
<1>2. CASE ClearFlag /\ Step("sync", "poll")
  <2>1. pc = "sync" /\ pc' = "poll" /\ idx_flag' = 0 /\ pulses' = pulses
        /\ UNCHANGED <<now, index_counter, my_index, found_index, ram, code, data_overruns>>
    BY <1>2 DEF ClearFlag, Step, indexing, stream
  <2>2. pulses = << >> /\ ram = << >> /\ code = << >>
        /\ (found_index => index_counter = MaxIndex)
    BY <2>1 DEF Progress, CodeHeld, Early
  <2>3. Bytes' = << >>
    BY <2>1, <2>2 DEF Bytes
  <2>4. Pending' = 0
    BY <2>1 DEF Pending
  <2>5. found_index' => PulsesHandled' = 0
    BY <2>1, <2>2, PlainTypes DEF PulsesHandled
  <2>6. PulsesKept'
    BY <2>1, <2>2, <2>4, <2>5 DEF PulsesKept
  <2>7. BytesInTime'
    BY <2>1, <2>3 DEF BytesInTime, MarkSet
  <2>8. PulsesStored' /\ RecordedIndices'
    BY <2>1 DEF PulsesStored, RecordedIndices
  <2>. QED  BY <2>6, <2>7, <2>8
<1>. QED  BY <1>1, <1>2 DEF ClearFlag

LEMMA TrackStep == LongTurns /\ TrackInv /\ [Next]_vars => TrackInv'
<1> SUFFICES ASSUME LongTurns, TrackInv, [Next]_vars  PROVE TrackInv'
  OBVIOUS
<1>1. StreamInv'
  BY StreamStep DEF TrackInv
<1>2. CASE UNCHANGED vars
  <2>1. Placed'
    BY <1>2 DEF TrackInv, Placed, PulsesKept, PulsesStored, BytesInTime, RecordedIndices,
                Bytes, PulsesHandled, Pending, InLoop, vars, indexing, stream, outcome, disk
  <2>. QED  BY <1>1, <2>1 DEF TrackInv
<1>3. CASE Main
  BY <1>1, <1>3, OtherPlaced, PollPlaced, TestIndexPlaced, StoreIndexPlaced, AckIndexPlaced,
     StopHardwarePlaced, FinishPlaced DEF Main, TrackInv
<1>4. CASE read_index_func
  BY <1>1, <1>4, PulsePlaced DEF TrackInv
<1>5. CASE Done
  BY <1>2, <1>5 DEF Done
<1>. QED  BY <1>2, <1>3, <1>4, <1>5 DEF Next

LEMMA TrackInit == Init => TrackInv
<1> SUFFICES ASSUME Init  PROVE TrackInv
  OBVIOUS
<1>1. pc = "start"
  BY DEF Init
<1>2. Placed
  BY <1>1 DEF Placed, PulsesKept, PulsesStored, BytesInTime, RecordedIndices, Core
<1>. QED  BY <1>2, StreamInit DEF TrackInv

(* With four steps of the loop between two pulses, each pulse of a track   *)
(* is recorded once, in order, and the markers of a stream without a loss  *)
(* lie where the recorded pulses fell (IndicesRight, trk_read.c:26-31,     *)
(* 387-416).                                                               *)
THEOREM IndicesAlwaysRight == ASSUME LongTurns PROVE Spec => []IndicesRight
<1>1. TrackInv => IndicesRight
  <2> SUFFICES ASSUME TrackInv  PROVE IndicesRight
    OBVIOUS
  <2>1. StreamInv /\ TypeOK /\ Whole /\ PulsesKept /\ BytesInTime /\ RecordedIndices
    BY DEF TrackInv, StreamInv, Placed
  <2>2. ASSUME InLoop, data_overruns = 0, found_index
        PROVE  /\ Cardinality(Marks) = PulsesHandled
               /\ \A i \in Marks :
                    LET pulse == my_index[MaxIndex - Ordinal(i)]
                    IN  /\ \A j \in 1 .. i - 1 : Bytes[j].at <= pulse
                        /\ \A j \in i + 1 .. Len(Bytes) : Bytes[j].at >= pulse
    <3>1. Marks = MarkSet(Bytes)
      BY DEF Marks, MarkSet
    <3>2. \A i : Ordinal(i) = OrdinalOf(Bytes, i)
      BY <3>1 DEF Ordinal, OrdinalOf
    <3>3. Cardinality(Marks) = PulsesHandled
      BY <2>1, <2>2, <3>1 DEF Whole
    <3>4. ASSUME NEW i \in Marks
          PROVE  LET pulse == my_index[MaxIndex - Ordinal(i)]
                 IN  /\ \A j \in 1 .. i - 1 : Bytes[j].at <= pulse
                     /\ \A j \in i + 1 .. Len(Bytes) : Bytes[j].at >= pulse
      <4> DEFINE o == OrdinalOf(Bytes, i)
      <4>1. o \in 1 .. PulsesHandled
        BY <2>1, <2>2, <3>1, MarkOfPulse
      <4>2. \A k \in 1 .. PulsesHandled : my_index[MaxIndex - k] = pulses[k]
        BY <2>1, <2>2 DEF PulsesKept, InLoop, Core
      <4>3. \A j \in 1 .. Len(Bytes) : /\ j < i => Bytes[j].at <= pulses[o]
                                       /\ j > i => Bytes[j].at >= pulses[o]
        BY <2>1, <2>2, <3>1, PlainTypes DEF BytesInTime, InLoop, Core
      <4>4. Ordinal(i) = o
        BY <3>2
      <4> HIDE DEF o
      <4>5. my_index[MaxIndex - Ordinal(i)] = pulses[o]
        BY <4>1, <4>2, <4>4
      <4>6. i \in 1 .. Len(Bytes) /\ Len(Bytes) \in Nat
        BY <2>1, <3>1, PlainTypes DEF MarkSet
      <4>7. /\ \A j \in 1 .. i - 1 : j \in 1 .. Len(Bytes) /\ j < i
            /\ \A j \in i + 1 .. Len(Bytes) : j \in 1 .. Len(Bytes) /\ j > i
        BY <4>6
      <4>8. /\ \A j \in 1 .. i - 1 : Bytes[j].at <= pulses[o]
            /\ \A j \in i + 1 .. Len(Bytes) : Bytes[j].at >= pulses[o]
        BY <4>3, <4>7
      <4>. QED  BY <4>5, <4>8
    <3>. QED  BY <3>3, <3>4
  <2>. QED  BY <2>1, <2>2 DEF IndicesRight, MarkersInPlace
<1>2. Spec => []TrackInv
  BY TrackInit, TrackStep, PTL DEF Spec
<1>. QED  BY <1>1, <1>2, PTL
=============================================================================
