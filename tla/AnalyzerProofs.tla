--------------------------- MODULE AnalyzerProofs ---------------------------
(***************************************************************************)
(* Proofs about the off-line decoding.                                     *)
(***************************************************************************)
EXTENDS Analyzer, FiniteSetTheorems, WellFoundedInduction, TLAPS

(***************************************************************************)
(* Induction and recursion up to a number, for sets in place of formulas.  *)
(***************************************************************************)
LEMMA LeastNatural ==
  ASSUME NEW S \in SUBSET Nat, S # {}
  PROVE  \E m \in S : \A n \in S : m <= n
<1> DEFINE Less == {pair \in Nat \X Nat : pair[1] < pair[2]}
<1>1. IsWellFoundedOn(Less, Nat)
  BY NatLessThanWellFounded DEF OpToRel
<1>2. \A m, n \in Nat : n < m => <<n, m>> \in Less
  OBVIOUS
<1> HIDE DEF Less
<1>3. \E m \in S : \A n \in S : ~ (<<n, m>> \in Less)
  BY <1>1, WFMin
<1>4. PICK m \in S : \A n \in S : ~ (<<n, m>> \in Less)
  BY <1>3
<1>5. \A n \in S : ~ (n < m)
  BY <1>2, <1>4
<1>. QED  BY <1>5

LEMMA MinIsLeast ==
  ASSUME NEW S \in SUBSET Nat, S # {}
  PROVE  Min(S) \in S /\ \A n \in S : Min(S) <= n
BY LeastNatural DEF Min

LEMMA UpTo ==
  ASSUME NEW N \in Nat, NEW S, 0 \in S, \A n \in 1 .. N : n - 1 \in S => n \in S
  PROVE  \A n \in 0 .. N : n \in S
<1>. DEFINE Bad == {n \in 0 .. N : n \notin S}
<1> SUFFICES ASSUME Bad # {} PROVE FALSE
  OBVIOUS
<1>1. PICK m \in Bad : \A n \in Bad : m <= n
  <2>. Bad \in SUBSET Nat
    OBVIOUS
  <2>. HIDE DEF Bad
  <2>. QED BY LeastNatural
<1>2. m \in 0 .. N /\ m \notin S /\ m # 0
  OBVIOUS
<1>3. m \in 1 .. N /\ m - 1 \in 0 .. N /\ ~(m <= m - 1)
  BY <1>2
<1>. QED BY <1>1, <1>2, <1>3

(* f is the sequence of values that the steps make of a. *)
IsRun(f, A, a, N, step) ==
  f \in [0 .. N -> A] /\ f[0] = a /\ \A n \in 1 .. N : f[n] = step[n][f[n - 1]]

LEMMA RunExists ==
  ASSUME NEW A, NEW a, a \in A, NEW N, N \in Nat, NEW step, step \in [1 .. N -> [A -> A]]
  PROVE  \E f : IsRun(f, A, a, N, step)
<1>. DEFINE Runs(n) ==
       \E f \in [0 .. n -> A] : f[0] = a /\ \A k \in 1 .. n : f[k] = step[k][f[k - 1]]
            S == {n \in 0 .. N : Runs(n)}
<1>1. 0 \in S
  <2>. DEFINE f == [k \in 0 .. 0 |-> a]
  <2>1. f \in [0 .. 0 -> A] /\ f[0] = a /\ \A k \in 1 .. 0 : f[k] = step[k][f[k - 1]]
    OBVIOUS
  <2>. HIDE DEF f
  <2>. QED BY <2>1
<1>2. ASSUME NEW n \in 1 .. N, n - 1 \in S PROVE n \in S
  <2>1. n \in Nat /\ n > 0 /\ n \in 0 .. N
    OBVIOUS
  <2>2. PICK f \in [0 .. n - 1 -> A] :
          f[0] = a /\ \A k \in 1 .. n - 1 : f[k] = step[k][f[k - 1]]
    BY <1>2
  <2>. DEFINE g == [k \in 0 .. n |-> IF k = n THEN step[n][f[n - 1]] ELSE f[k]]
  <2>3. step[n] \in [A -> A] /\ f[n - 1] \in A
    BY <2>1, <2>2
  <2>4. g \in [0 .. n -> A] /\ g[0] = a
    BY <2>1, <2>2, <2>3
  <2>5. ASSUME NEW k \in 1 .. n PROVE g[k] = step[k][g[k - 1]]
    <3>1. k - 1 \in 0 .. n /\ k \in 0 .. n /\ k - 1 # n /\ g[k - 1] = f[k - 1]
      BY <2>1
    <3>2. k # n => k \in 1 .. n - 1
      BY <2>1
    <3>. QED BY <2>2, <3>1, <3>2
  <2>. HIDE DEF g
  <2>. QED BY <2>1, <2>4, <2>5
<1>. HIDE DEF S
<1>3. N \in S
  <2>1. \A n \in 1 .. N : n - 1 \in S => n \in S
    BY <1>2
  <2>2. \A n \in 0 .. N : n \in S
    BY <1>1, <2>1, UpTo
  <2>. QED BY <2>2
<1>. QED BY <1>3 DEF S, IsRun

(***************************************************************************)
(* FlattenSeq: at[k] elements come from the first k sequences.             *)
(***************************************************************************)
Flat(t, seqs, at) ==
  /\ at \in [0 .. Len(seqs) -> Nat] /\ at[0] = 0 /\ at[Len(seqs)] = Len(t)
  /\ \A k \in 1 .. Len(seqs) :
       /\ at[k] = at[k - 1] + Len(seqs[k])
       /\ \A j \in 1 .. Len(seqs[k]) : t[at[k - 1] + j] = seqs[k][j]

Joins(w, u, v) ==
  /\ Len(w) = Len(u) + Len(v)
  /\ \A j \in 1 .. Len(u) : w[j] = u[j]
  /\ \A j \in 1 .. Len(v) : w[Len(u) + j] = v[j]

LEMMA Joined ==
  ASSUME NEW S, NEW u \in Seq(S), NEW v \in Seq(S)
  PROVE  u \o v \in Seq(S) /\ Joins(u \o v, u, v)
<1>1. \A j \in 1 .. Len(v) : Len(u) + j \in 1 .. Len(u) + Len(v) /\ ~(Len(u) + j <= Len(u))
                             /\ Len(u) + j - Len(u) = j
  OBVIOUS
<1>2. \A j \in 1 .. Len(u) : j \in 1 .. Len(u) + Len(v) /\ j <= Len(u)
  OBVIOUS
<1>. QED BY <1>1, <1>2 DEF Joins

LEMMA FlatRun ==
  ASSUME NEW S, NEW seqs \in Seq(Seq(S))
  PROVE  \E f \in [0 .. Len(seqs) -> Seq(S)] :
           /\ f[0] = <<>> /\ f[Len(seqs)] = FlattenSeq(seqs)
           /\ \A k \in 1 .. Len(seqs) : f[k] = f[k - 1] \o seqs[k]
<1>. DEFINE L == Len(seqs)
            step == [k \in 1 .. L |-> [s \in Seq(S) |-> s \o seqs[k]]]
<1>1. L \in Nat /\ \A k \in 1 .. L : seqs[k] \in Seq(S)
  OBVIOUS
<1>2. step \in [1 .. L -> [Seq(S) -> Seq(S)]] /\ <<>> \in Seq(S)
  BY <1>1
<1>3. \A k \in 1 .. L : \A s \in Seq(S) : step[k][s] = s \o seqs[k]
  OBVIOUS
<1>. HIDE DEF step
<1>4. PICK f \in [0 .. L -> Seq(S)] :
        f[0] = <<>> /\ \A k \in 1 .. L : f[k] = step[k][f[k - 1]]
  <2>1. L \in Nat
    BY <1>1
  <2>2. \E f : IsRun(f, Seq(S), <<>>, L, step)
    <3>. HIDE DEF L
    <3>. QED BY <1>2, <2>1, RunExists
  <2>. QED BY <2>2 DEF IsRun
<1>5. ASSUME NEW k \in 1 .. L PROVE f[k] = f[k - 1] \o seqs[k]
  <2>1. k - 1 \in 0 .. L
    BY <1>1
  <2>2. f[k - 1] \in Seq(S)
    BY <2>1
  <2>. QED BY <1>3, <1>4, <2>2
<1>6. FlattenSeq(seqs) = f[L]
  <2>1. CASE L = 0
    <3>1. seqs = <<>>
      BY <2>1
    <3>. QED BY <1>4, <2>1, <3>1 DEF FlattenSeq
  <2>2. CASE L # 0
    <3>2. f[1] = seqs[1]
      <4>. HIDE DEF L
      <4>1. 1 \in 1 .. L
        BY <1>1, <2>2
      <4>2. f[1] = f[0] \o seqs[1] /\ seqs[1] \in Seq(S)
        <5>1. \A k \in 1 .. L, l \in Int : l = k - 1 => f[k] = f[l] \o seqs[k]
          BY <1>5
        <5>2. 0 \in Int /\ 0 = 1 - 1
          OBVIOUS
        <5>3. f[1] = f[0] \o seqs[1]
          BY <4>1, <5>1, <5>2, Zenon
        <5>. QED BY <1>1, <4>1, <5>3
      <4>3. f[1] = <<>> \o seqs[1]
        BY <1>4, <4>2
      <4>. QED BY <4>2, <4>3
    <3>. DEFINE h == CHOOSE h : h = [i \in 1 .. L |-> IF i = 1 THEN seqs[i] ELSE h[i - 1] \o seqs[i]]
                g == [i \in 1 .. L |-> f[i]]
    <3>1. FlattenSeq(seqs) = h[L]
      BY <2>2 DEF FlattenSeq
    <3>. HIDE DEF L
    <3>3. ASSUME NEW i \in 1 .. L
          PROVE  g[i] = IF i = 1 THEN seqs[i] ELSE g[i - 1] \o seqs[i]
      <4>1. i # 1 => i - 1 \in 1 .. L
        BY <1>1
      <4>. QED BY <1>5, <3>2, <4>1
    <3>4. g = [i \in 1 .. L |-> IF i = 1 THEN seqs[i] ELSE g[i - 1] \o seqs[i]]
      BY <3>3
    <3>. HIDE DEF g
    <3>5. h = [i \in 1 .. L |-> IF i = 1 THEN seqs[i] ELSE h[i - 1] \o seqs[i]]
      BY <3>4
    <3>. HIDE DEF h
    <3>. DEFINE Same == {n \in 0 .. L : n = 0 \/ h[n] = f[n]}
    <3>6. ASSUME NEW n \in 1 .. L, n - 1 \in Same PROVE n \in Same
      <4>1. n \in 0 .. L /\ (n # 1 => n - 1 # 0)
        BY <1>1
      <4>2. h[n] = IF n = 1 THEN seqs[n] ELSE h[n - 1] \o seqs[n]
        BY <3>5
      <4>. QED BY <1>5, <3>2, <3>6, <4>1, <4>2
    <3>7. 0 \in Same
      BY <1>1
    <3>. HIDE DEF Same
    <3>8. \A n \in 0 .. L : n \in Same
      BY <1>1, <3>6, <3>7, UpTo
    <3>9. h[L] = f[L]
      BY <1>1, <2>2, <3>8 DEF Same
    <3>. QED BY <3>1, <3>9
  <2>. QED BY <2>1, <2>2
<1>. QED BY <1>4, <1>5, <1>6

LEMMA Flattened ==
  ASSUME NEW S, NEW seqs \in Seq(Seq(S))
  PROVE  FlattenSeq(seqs) \in Seq(S) /\ \E at : Flat(FlattenSeq(seqs), seqs, at)
<1>. DEFINE L == Len(seqs)
<1>1. L \in Nat /\ \A k \in 1 .. L : seqs[k] \in Seq(S) /\ Len(seqs[k]) \in Nat
  OBVIOUS
<1>2. PICK f \in [0 .. L -> Seq(S)] :
        /\ f[0] = <<>> /\ f[L] = FlattenSeq(seqs)
        /\ \A k \in 1 .. L : f[k] = f[k - 1] \o seqs[k]
  BY FlatRun
<1>. DEFINE at == [n \in 0 .. L |-> Len(f[n])]
<1>. HIDE DEF L
<1>3. at \in [0 .. L -> Nat] /\ at[0] = 0 /\ at[L] = Len(f[L])
  <2>1. \A n \in 0 .. L : Len(f[n]) \in Nat
    BY <1>2
  <2>2. 0 \in 0 .. L /\ L \in 0 .. L
    BY <1>1
  <2>. QED BY <1>2, <2>1, <2>2
<1>4. ASSUME NEW k \in 1 .. L
      PROVE  /\ k - 1 \in 0 .. L /\ k \in 0 .. L
             /\ at[k] = at[k - 1] + Len(seqs[k])
             /\ \A j \in 1 .. Len(seqs[k]) : f[k][at[k - 1] + j] = seqs[k][j]
             /\ \A j \in 1 .. at[k - 1] : f[k][j] = f[k - 1][j]
  <2>1. k - 1 \in 0 .. L /\ k \in 0 .. L
    BY <1>1
  <2>2. f[k - 1] \in Seq(S) /\ seqs[k] \in Seq(S) /\ f[k] = f[k - 1] \o seqs[k]
    BY <1>1, <1>2, <2>1
  <2>. DEFINE u == f[k - 1]  v == seqs[k]
  <2>3. /\ Len(u \o v) = Len(u) + Len(v) /\ Len(u) \in Nat /\ Len(v) \in Nat
        /\ \A j \in 1 .. Len(v) : (u \o v)[Len(u) + j] = v[j]
        /\ \A j \in 1 .. Len(u) : (u \o v)[j] = u[j]
    <3>. u \in Seq(S) /\ v \in Seq(S)
      BY <2>2
    <3>. HIDE DEF u, v
    <3>1. Joins(u \o v, u, v) /\ Len(u) \in Nat /\ Len(v) \in Nat
      BY Joined
    <3>. QED BY <3>1 DEF Joins
  <2>. QED BY <2>1, <2>2, <2>3
<1>. DEFINE Good ==
       {n \in 0 .. L : \A k \in 1 .. n : \A j \in 1 .. Len(seqs[k]) :
                          at[k - 1] + j <= at[n] /\ f[n][at[k - 1] + j] = seqs[k][j]}
<1>5. 0 \in Good
  BY <1>1
<1>6. ASSUME NEW n \in 1 .. L, n - 1 \in Good PROVE n \in Good
  <2>. HIDE DEF at
  <2>1. /\ n \in 0 .. L /\ at[n] = at[n - 1] + Len(seqs[n])
        /\ \A j \in 1 .. Len(seqs[n]) : f[n][at[n - 1] + j] = seqs[n][j]
        /\ \A j \in 1 .. at[n - 1] : f[n][j] = f[n - 1][j]
        /\ at[n - 1] \in Nat /\ at[n] \in Nat /\ n - 1 \in 0 .. L
    BY <1>3, <1>4
  <2>2. ASSUME NEW k \in 1 .. n, NEW j \in 1 .. Len(seqs[k])
        PROVE  at[k - 1] + j <= at[n] /\ f[n][at[k - 1] + j] = seqs[k][j]
    <3>1. CASE k = n
      <4>1. \A i \in 1 .. Len(seqs[n]) :
              at[n - 1] + i <= at[n] /\ f[n][at[n - 1] + i] = seqs[n][i]
        <5>. DEFINE x == at[n - 1]  y == at[n]  z == Len(seqs[n])
        <5>1. y = x + z /\ x \in Nat /\ z \in Nat
          BY <1>1, <2>1
        <5>. HIDE DEF x, y, z
        <5>2. \A i \in 1 .. z : x + i <= y
          BY <5>1
        <5>. QED BY <2>1, <5>2, Zenon DEF x, y, z
      <4>. QED BY <3>1, <4>1, Zenon
    <3>2. CASE k # n
      <4>1. k \in 1 .. n - 1 /\ k - 1 \in 0 .. L /\ k \in 1 .. L
        BY <1>1, <3>2
      <4>2. at[k - 1] + j <= at[n - 1] /\ f[n - 1][at[k - 1] + j] = seqs[k][j]
        BY <1>6, <4>1
      <4>3. at[k - 1] \in Nat /\ Len(seqs[n]) \in Nat /\ Len(seqs[k]) \in Nat
        BY <1>1, <1>3, <4>1
      <4>4. at[k - 1] + j \in 1 .. at[n - 1]
        <5>. DEFINE x == at[k - 1]  y == at[n - 1]  z == Len(seqs[k])
        <5>1. x \in Nat /\ y \in Nat /\ z \in Nat /\ j \in 1 .. z /\ x + j <= y
          BY <2>1, <4>2, <4>3
        <5>. HIDE DEF x, y, z
        <5>2. x + j \in 1 .. y
          BY <5>1
        <5>. QED BY <5>2 DEF x, y
      <4>5. at[n - 1] <= at[n]
        BY <2>1, <4>3
      <4>6. f[n][at[k - 1] + j] = seqs[k][j]
        BY <2>1, <4>2, <4>4
      <4>7. at[k - 1] + j <= at[n]
        <5>. DEFINE x == at[k - 1]  y == at[n - 1]  z == at[n]
        <5>1. x + j \in 1 .. y /\ y \in Nat /\ z \in Nat /\ y <= z
          BY <2>1, <4>4, <4>5, Zenon
        <5>. HIDE DEF x, y, z
        <5>2. x + j <= z
          BY <5>1
        <5>. QED BY <5>2 DEF x, z
      <4>. QED BY <4>6, <4>7
    <3>. QED BY <3>1, <3>2
  <2>. QED BY <2>1, <2>2
<1>7. L \in Good
  <2>. HIDE DEF Good
  <2>1. \A n \in 0 .. L : n \in Good
    BY <1>1, <1>5, <1>6, UpTo
  <2>. QED BY <1>1, <2>1
<1>8. Flat(FlattenSeq(seqs), seqs, at)
  <2>. HIDE DEF at
  <2>. QED BY <1>2, <1>3, <1>4, <1>7 DEF Flat, L
<1>9. FlattenSeq(seqs) \in Seq(S)
  BY <1>1, <1>2
<1>. QED BY <1>8, <1>9

(***************************************************************************)
(* Numbers that do not decrease.                                           *)
(***************************************************************************)
Rising(at, L) == at \in [0 .. L -> Nat] /\ \A k \in 1 .. L : at[k - 1] <= at[k]

LEMMA RisingOrder ==
  ASSUME NEW L \in Nat, NEW at, Rising(at, L), NEW k \in 0 .. L, NEW l \in 0 .. L, k <= l
  PROVE  at[k] <= at[l]
<1>. DEFINE S == {n \in 0 .. L : k <= n => at[k] <= at[n]}
<1>1. 0 \in S
  BY DEF Rising
<1>2. ASSUME NEW n \in 1 .. L, n - 1 \in S PROVE n \in S
  <2>1. n \in 0 .. L /\ n - 1 \in 0 .. L
    OBVIOUS
  <2>2. at[n - 1] \in Nat /\ at[n] \in Nat /\ at[k] \in Nat /\ at[n - 1] <= at[n]
    BY <2>1 DEF Rising
  <2>3. CASE k <= n - 1
    BY <1>2, <2>1, <2>2, <2>3
  <2>4. CASE ~(k <= n - 1)
    <3>1. k <= n => k = n
      BY <2>4
    <3>. QED BY <2>1, <2>2, <3>1
  <2>. QED BY <2>3, <2>4
<1>. HIDE DEF S
<1>3. \A n \in 0 .. L : n \in S
  BY <1>1, <1>2, UpTo
<1>. QED BY <1>3 DEF S

LEMMA RisingPlace ==
  ASSUME NEW L \in Nat, NEW at, Rising(at, L), at[0] = 0, NEW m \in 1 .. at[L]
  PROVE  \E k \in 1 .. L : at[k - 1] < m /\ m <= at[k]
<1>. DEFINE S == {n \in 0 .. L : m <= at[n]}
<1>1. L \in S /\ S \in SUBSET Nat /\ 0 \notin S /\ at[L] \in Nat
  BY DEF Rising
<1>2. PICK k \in S : \A n \in S : k <= n
  <2>. HIDE DEF S
  <2>. QED BY <1>1, LeastNatural
<1>3. k \in 0 .. L /\ m <= at[k] /\ k # 0
  BY <1>1
<1>4. k \in 1 .. L /\ k - 1 \in 0 .. L /\ ~(k <= k - 1)
  BY <1>3
<1>5. ~(m <= at[k - 1]) /\ at[k - 1] \in Nat
  BY <1>2, <1>4 DEF Rising
<1>. QED BY <1>1, <1>3, <1>4, <1>5

(* Where it rises by w at each step from p to q. *)
LEMMA Straight ==
  ASSUME NEW L \in Nat, NEW at \in [0 .. L -> Nat], NEW w \in Nat,
         NEW p \in 0 .. L, NEW q \in 0 .. L, \A k \in p + 1 .. q : at[k] = at[k - 1] + w
  PROVE  \A k \in p .. q : at[k] = at[p] + w * (k - p)
<1>. DEFINE S == {n \in 0 .. L : n \in p .. q => at[n] = at[p] + w * (n - p)}
<1>1. 0 \in S
  <2>. SUFFICES ASSUME 0 \in p .. q PROVE at[0] = at[p] + w * (0 - p)
    OBVIOUS
  <2>1. p = 0 /\ w * (0 - 0) = 0 /\ at[0] \in Nat
    OBVIOUS
  <2>. QED BY <2>1
<1>2. ASSUME NEW n \in 1 .. L, n - 1 \in S PROVE n \in S
  <2>1. n \in 0 .. L /\ n - 1 \in 0 .. L /\ at[p] \in Nat /\ at[n] \in Nat /\ at[n - 1] \in Nat
    OBVIOUS
  <2>. SUFFICES ASSUME n \in p .. q PROVE at[n] = at[p] + w * (n - p)
    BY <2>1
  <2>2. CASE n = p
    <3>1. w * (n - p) = 0
      BY <2>2
    <3>. QED BY <2>1, <2>2, <3>1
  <2>3. CASE n # p
    <3>1. n - 1 \in p .. q /\ n \in p + 1 .. q
      BY <2>3
    <3>2. at[n - 1] = at[p] + w * ((n - 1) - p) /\ at[n] = at[n - 1] + w
      BY <1>2, <3>1
    <3>3. w * ((n - 1) - p) + w = w * (n - p)
      OBVIOUS
    <3>. DEFINE x == w * ((n - 1) - p)  y == w * (n - p)
    <3>4. x \in Int /\ y \in Int
      OBVIOUS
    <3>. HIDE DEF x, y, S
    <3>5. at[n - 1] = at[p] + x /\ x + w = y
      BY <3>2, <3>3 DEF x, y
    <3>. DEFINE u == at[n]  v == at[p]  z == at[n - 1]
    <3>6. u = v + y
      <4>1. u \in Int /\ v \in Int /\ z \in Int /\ u = z + w /\ z = v + x
        BY <2>1, <3>2, <3>5
      <4>. HIDE DEF u, v, z
      <4>. QED BY <3>4, <3>5, <4>1
    <3>. QED BY <3>6 DEF y
  <2>. QED BY <2>2, <2>3
<1>. HIDE DEF S
<1>3. \A n \in 0 .. L : n \in S
  BY <1>1, <1>2, UpTo
<1>. QED BY <1>3 DEF S

LEMMA FlatRising ==
  ASSUME NEW S, NEW seqs \in Seq(Seq(S)), NEW t, NEW at, Flat(t, seqs, at)
  PROVE  Rising(at, Len(seqs)) /\ Len(seqs) \in Nat
<1>1. Len(seqs) \in Nat /\ \A k \in 1 .. Len(seqs) : Len(seqs[k]) \in Nat
  OBVIOUS
<1>2. ASSUME NEW k \in 1 .. Len(seqs) PROVE at[k - 1] <= at[k]
  <2>0. k - 1 \in 0 .. Len(seqs)
    BY <1>1
  <2>1. at[k - 1] \in Nat /\ at[k] = at[k - 1] + Len(seqs[k])
    BY <2>0 DEF Flat
  <2>. QED BY <1>1, <2>1
<1>. QED BY <1>1, <1>2 DEF Flat, Rising

(* Each element of t comes from one of the sequences.                      *)
FlatAt(t, seqs, at, m) ==
  \E k \in 1 .. Len(seqs) : \E j \in 1 .. Len(seqs[k]) :
    m = at[k - 1] + j /\ t[m] = seqs[k][j]

LEMMA FlatPlace ==
  ASSUME NEW S, NEW seqs \in Seq(Seq(S)), NEW t, NEW at, Flat(t, seqs, at), NEW m \in 1 .. Len(t)
  PROVE  FlatAt(t, seqs, at, m)
<1>1. Rising(at, Len(seqs)) /\ Len(seqs) \in Nat /\ at[0] = 0 /\ at[Len(seqs)] = Len(t)
  BY FlatRising DEF Flat
<1>2. PICK k \in 1 .. Len(seqs) : at[k - 1] < m /\ m <= at[k]
  BY <1>1, RisingPlace
<1>3. at[k - 1] \in Nat /\ Len(seqs[k]) \in Nat /\ m \in Nat /\ at[k] = at[k - 1] + Len(seqs[k])
  <2>1. k - 1 \in 0 .. Len(seqs) /\ at[Len(seqs)] \in Nat /\ Len(seqs) \in 0 .. Len(seqs)
    BY <1>1 DEF Rising
  <2>2. at[k] = at[k - 1] + Len(seqs[k])
    BY DEF Flat
  <2>3. at[k - 1] \in Nat /\ m \in Nat
    <3>1. at[k - 1] \in Nat
      BY <1>1, <2>1 DEF Rising
    <3>2. Len(t) \in Nat
      BY <1>1, <2>1
    <3>. QED BY <3>1, <3>2
  <2>4. Len(seqs[k]) \in Nat
    OBVIOUS
  <2>. QED BY <2>2, <2>3, <2>4
<1>. DEFINE j == m - at[k - 1]
<1>4. j \in 1 .. Len(seqs[k]) /\ m = at[k - 1] + j
  BY <1>2, <1>3
<1>5. t[at[k - 1] + j] = seqs[k][j]
  <2>. HIDE DEF j
  <2>. QED BY <1>4 DEF Flat
<1>. HIDE DEF j
<1>. QED BY <1>4, <1>5 DEF FlatAt

(***************************************************************************)
(* The cells of a track: pa[k] of them are in its first k parts.           *)
(***************************************************************************)
CellName    == {"sync", "head", "data", "gap", "nothing"}
CellId      == Nat \X CellName \X Nat
SectorCells == 3 + DataCells

LEMMA TrackForm ==
  ASSUME NEW tr \in Tracks
  PROVE  /\ Len(tr) \in Nat /\ DOMAIN tr = 1 .. Len(tr)
         /\ \A k \in Sectors(tr) : k \in 1 .. Len(tr) /\ tr[k].sector \in Nat /\ tr[k].to_gap \in Nat
         /\ \A k \in DOMAIN tr : k \notin Sectors(tr) => tr[k].cells \in Nat
<1>1. tr \in Seq([sector : Nat, to_gap : Nat] \cup [cells : Nat])
  BY AnalyzerAssumption
<1>2. Len(tr) \in Nat /\ DOMAIN tr = 1 .. Len(tr)
  BY <1>1
<1>3. \A k \in 1 .. Len(tr) : tr[k] \in [sector : Nat, to_gap : Nat] \/ tr[k] \in [cells : Nat]
  BY <1>1
<1>4. ASSUME NEW k \in 1 .. Len(tr), "sector" \in DOMAIN tr[k]
      PROVE  tr[k].sector \in Nat /\ tr[k].to_gap \in Nat
  <2>1. CASE tr[k] \in [sector : Nat, to_gap : Nat]
    BY <2>1
  <2>2. CASE tr[k] \in [cells : Nat]
    <3>1. DOMAIN tr[k] = {"cells"}
      BY <2>2
    <3>. QED BY <1>4, <3>1
  <2>. QED BY <1>3, <2>1, <2>2
<1>5. ASSUME NEW k \in 1 .. Len(tr), "sector" \notin DOMAIN tr[k]
      PROVE  tr[k].cells \in Nat
  <2>1. CASE tr[k] \in [sector : Nat, to_gap : Nat]
    <3>1. DOMAIN tr[k] = {"sector", "to_gap"}
      BY <2>1
    <3>. QED BY <1>5, <3>1
  <2>2. CASE tr[k] \in [cells : Nat]
    BY <2>2
  <2>. QED BY <1>3, <2>1, <2>2
<1>. QED BY <1>2, <1>4, <1>5 DEF Sectors

LEMMA PartForm ==
  ASSUME NEW k \in Nat, NEW name \in CellName, NEW n \in Nat
  PROVE  /\ Part(k, name, n) \in Seq(CellId) /\ Len(Part(k, name, n)) = n
         /\ \A j \in 1 .. n : Part(k, name, n)[j] = <<k, name, j>>
<1>1. \A j \in 1 .. n : <<k, name, j>> \in CellId
  BY DEF CellId
<1>. QED BY <1>1 DEF Part

LEMMA SectorForm ==
  ASSUME NEW tr \in Tracks, NEW k \in Sectors(tr)
  PROVE  LET s == CellsOf(tr, k)
         IN  /\ s \in Seq(CellId) /\ Len(s) = SectorCells
             /\ s[1] = <<k, "sync", 1>> /\ s[2] = <<k, "sync", 2>> /\ s[3] = <<k, "head", 1>>
             /\ \A i \in 1 .. DataCells : s[3 + i] = <<k, "data", i>>
<1>. DEFINE a == Part(k, "sync", 2)
            b == Part(k, "head", 1)
            c == Part(k, "data", DataCells)
<1>1. /\ k \in Nat /\ DataCells \in Nat
      /\ "sync" \in CellName /\ "head" \in CellName /\ "data" \in CellName
      /\ 1 \in Nat /\ 2 \in Nat /\ 1 \in 1 .. 1 /\ 1 \in 1 .. 2 /\ 2 \in 1 .. 2
  BY TrackForm, AnalyzerAssumption DEF CellName
<1>2. CellsOf(tr, k) = a \o b \o c
  BY DEF CellsOf, SyncCells, HeadCells
<1>3. /\ a \in Seq(CellId) /\ Len(a) = 2 /\ \A i \in 1 .. 2 : a[i] = <<k, "sync", i>>
  BY <1>1, PartForm, Zenon
<1>4. /\ b \in Seq(CellId) /\ Len(b) = 1 /\ \A i \in 1 .. 1 : b[i] = <<k, "head", i>>
  BY <1>1, PartForm, Zenon
<1>5. /\ c \in Seq(CellId) /\ Len(c) = DataCells
      /\ \A i \in 1 .. DataCells : c[i] = <<k, "data", i>>
  BY <1>1, PartForm, Zenon
<1>. HIDE DEF a, b, c
<1>. DEFINE d == a \o b  e == d \o c
<1>6. d \in Seq(CellId) /\ Joins(d, a, b)
  BY <1>3, <1>4, Joined, Zenon
<1>. HIDE DEF d
<1>7. e \in Seq(CellId) /\ Joins(e, d, c)
  BY <1>5, <1>6, Joined, Zenon
<1>8. CellsOf(tr, k) = e
  BY <1>2 DEF d
<1>. HIDE DEF e
<1>9. Len(d) = 3 /\ d[1] = a[1] /\ d[2] = a[2] /\ d[3] = b[1]
  BY <1>3, <1>4, <1>6 DEF Joins
<1>10. Len(e) = 3 + DataCells /\ \A i \in 1 .. DataCells : e[3 + i] = c[i]
  BY <1>5, <1>7, <1>9 DEF Joins
<1>11. e[1] = d[1] /\ e[2] = d[2] /\ e[3] = d[3]
  BY <1>7, <1>9 DEF Joins
<1>12. e[1] = <<k, "sync", 1>> /\ e[2] = <<k, "sync", 2>> /\ e[3] = <<k, "head", 1>>
  BY <1>1, <1>3, <1>4, <1>9, <1>11
<1>13. \A i \in 1 .. DataCells : e[3 + i] = <<k, "data", i>>
  BY <1>5, <1>10
<1>. QED BY <1>7, <1>8, <1>10, <1>12, <1>13 DEF SectorCells

LEMMA GapForm ==
  ASSUME NEW tr \in Tracks, NEW k \in DOMAIN tr, k \notin Sectors(tr)
  PROVE  /\ CellsOf(tr, k) \in Seq(CellId)
         /\ \A j \in 1 .. Len(CellsOf(tr, k)) : CellsOf(tr, k)[j] = <<k, "gap", j>>
<1>1. k \in Nat /\ tr[k].cells \in Nat /\ "gap" \in CellName
  BY TrackForm DEF CellName
<1>. DEFINE n == tr[k].cells
<1>2. CellsOf(tr, k) = Part(k, "gap", n)
  BY DEF CellsOf
<1>. HIDE DEF n
<1>3. /\ Part(k, "gap", n) \in Seq(CellId) /\ Len(Part(k, "gap", n)) = n
      /\ \A j \in 1 .. n : Part(k, "gap", n)[j] = <<k, "gap", j>>
  BY <1>1, PartForm, Zenon DEF n
<1>. QED BY <1>2, <1>3

(* Where each cell is. *)
InPart(tr, k, p, i) ==
  /\ Cells(tr)[p] = CellsOf(tr, k)[i]
  /\ k \in Sectors(tr) =>
       \/ i = 1 /\ Cells(tr)[p] = <<k, "sync", 1>>
       \/ i = 2 /\ Cells(tr)[p] = <<k, "sync", 2>>
       \/ i = 3 /\ Cells(tr)[p] = <<k, "head", 1>>
       \/ i > 3 /\ i - 3 \in 1 .. DataCells /\ Cells(tr)[p] = <<k, "data", i - 3>>
  /\ k \notin Sectors(tr) => Cells(tr)[p] = <<k, "gap", i>>

Placed(tr, pa) ==
  /\ Rising(pa, Len(tr)) /\ pa[0] = 0 /\ pa[Len(tr)] = Len(Cells(tr))
  /\ \A k \in Sectors(tr) : pa[k] = pa[k - 1] + SectorCells
  /\ \A k \in 1 .. Len(tr) : pa[k] = pa[k - 1] + Len(CellsOf(tr, k))
  /\ \A k \in 1 .. Len(tr) : \A i \in 1 .. pa[k] - pa[k - 1] : InPart(tr, k, pa[k - 1] + i, i)
  /\ \A p \in 1 .. Len(Cells(tr)) :
       \E k \in 1 .. Len(tr) : \E i \in 1 .. pa[k] - pa[k - 1] : p = pa[k - 1] + i

LEMMA CellsPlaced ==
  ASSUME NEW tr \in Tracks
  PROVE  Cells(tr) \in Seq(CellId) /\ \E pa : Placed(tr, pa)
<1>. DEFINE parts == [k \in DOMAIN tr |-> CellsOf(tr, k)]
<1>1. \A k \in DOMAIN tr : CellsOf(tr, k) \in Seq(CellId)
  BY SectorForm, GapForm
<1>2. /\ parts \in Seq(Seq(CellId)) /\ Len(parts) = Len(tr)
      /\ \A k \in 1 .. Len(tr) : parts[k] = CellsOf(tr, k)
  BY <1>1, TrackForm
<1>3. Cells(tr) = FlattenSeq(parts)
  BY DEF Cells
<1>. HIDE DEF parts
<1>4. Cells(tr) \in Seq(CellId) /\ \E pa : Flat(Cells(tr), parts, pa)
  BY <1>2, <1>3, Flattened
<1>5. PICK pa : Flat(Cells(tr), parts, pa)
  BY <1>4
<1>6. Rising(pa, Len(tr)) /\ pa[0] = 0 /\ pa[Len(tr)] = Len(Cells(tr)) /\ Len(tr) \in Nat
  BY <1>2, <1>5, FlatRising DEF Flat
<1>7. ASSUME NEW k \in 1 .. Len(tr)
      PROVE  /\ pa[k] - pa[k - 1] = Len(CellsOf(tr, k)) /\ pa[k - 1] \in Nat
             /\ pa[k] = pa[k - 1] + Len(CellsOf(tr, k))
             /\ CellsOf(tr, k) \in Seq(CellId) /\ k \in DOMAIN tr
             /\ \A j \in 1 .. Len(CellsOf(tr, k)) : Cells(tr)[pa[k - 1] + j] = CellsOf(tr, k)[j]
  <2>1. k - 1 \in 0 .. Len(tr) /\ k \in DOMAIN tr
    BY <1>6, TrackForm
  <2>2. pa[k - 1] \in Nat
    BY <1>6, <2>1 DEF Rising
  <2>3. Len(CellsOf(tr, k)) \in Nat /\ CellsOf(tr, k) \in Seq(CellId)
    BY <1>1, <2>1
  <2>4. pa[k] = pa[k - 1] + Len(CellsOf(tr, k))
    BY <1>2, <1>5 DEF Flat
  <2>5. \A j \in 1 .. Len(CellsOf(tr, k)) : Cells(tr)[pa[k - 1] + j] = CellsOf(tr, k)[j]
    <3>. DEFINE u == CellsOf(tr, k)
    <3>1. parts[k] = u /\ k \in 1 .. Len(parts)
      BY <1>2
    <3>. HIDE DEF u
    <3>2. \A j \in 1 .. Len(u) : Cells(tr)[pa[k - 1] + j] = u[j]
      BY <1>5, <3>1 DEF Flat
    <3>. QED BY <3>2 DEF u
  <2>6. pa[k] - pa[k - 1] = Len(CellsOf(tr, k))
    BY <2>2, <2>3, <2>4
  <2>. QED BY <2>1, <2>2, <2>3, <2>4, <2>5, <2>6
<1>8. ASSUME NEW k \in 1 .. Len(tr), NEW i \in 1 .. pa[k] - pa[k - 1]
      PROVE  InPart(tr, k, pa[k - 1] + i, i)
  <2>1. i \in 1 .. Len(CellsOf(tr, k)) /\ Cells(tr)[pa[k - 1] + i] = CellsOf(tr, k)[i]
    BY <1>7
  <2>2. CASE k \in Sectors(tr)
    <3>1. i \in 1 .. 3 + DataCells /\ DataCells \in Nat
      BY <2>1, <2>2, SectorForm, AnalyzerAssumption DEF SectorCells
    <3>2. i \in {1, 2, 3} \/ (i > 3 /\ i - 3 \in 1 .. DataCells /\ 3 + (i - 3) = i)
      BY <3>1
    <3>3. CASE i \in {1, 2, 3}
      BY <2>1, <2>2, <3>3, SectorForm DEF InPart
    <3>4. CASE i > 3 /\ i - 3 \in 1 .. DataCells /\ 3 + (i - 3) = i
      <4>. DEFINE j == i - 3
      <4>1. j \in 1 .. DataCells /\ 3 + j = i
        BY <3>4
      <4>. HIDE DEF j
      <4>2. CellsOf(tr, k)[i] = <<k, "data", j>>
        BY <2>2, <4>1, SectorForm
      <4>. QED BY <2>1, <2>2, <3>4, <4>2 DEF InPart, j
    <3>. QED BY <3>2, <3>3, <3>4
  <2>3. CASE k \notin Sectors(tr)
    BY <1>7, <2>1, <2>3, GapForm DEF InPart
  <2>. QED BY <2>2, <2>3
<1>9. ASSUME NEW k \in Sectors(tr) PROVE pa[k] = pa[k - 1] + SectorCells
  <2>1. k \in 1 .. Len(tr) /\ Len(CellsOf(tr, k)) = SectorCells
    BY TrackForm, SectorForm
  <2>. QED BY <1>7, <2>1
<1>10. ASSUME NEW p \in 1 .. Len(Cells(tr))
       PROVE  \E k \in 1 .. Len(tr) : \E i \in 1 .. pa[k] - pa[k - 1] : p = pa[k - 1] + i
  <2>1. PICK k \in 1 .. Len(parts) : \E j \in 1 .. Len(parts[k]) : p = pa[k - 1] + j
    <3>1. parts \in Seq(Seq(CellId)) /\ Flat(Cells(tr), parts, pa)
      BY <1>2, <1>5
    <3>2. FlatAt(Cells(tr), parts, pa, p)
      BY <3>1, FlatPlace, Zenon
    <3>. QED BY <3>2 DEF FlatAt
  <2>. QED BY <1>2, <1>7, <2>1
<1>11. Placed(tr, pa)
  BY <1>6, <1>7, <1>8, <1>9, <1>10 DEF Placed
<1>. QED BY <1>4, <1>11

LEMMA PlacedDistinct ==
  ASSUME NEW tr \in Tracks, NEW pa, Placed(tr, pa),
         NEW p \in 1 .. Len(Cells(tr)), NEW q \in 1 .. Len(Cells(tr)), Cells(tr)[p] = Cells(tr)[q]
  PROVE  p = q
<1>a. PICK k \in 1 .. Len(tr) : \E i \in 1 .. pa[k] - pa[k - 1] : p = pa[k - 1] + i
  BY DEF Placed
<1>b. PICK l \in 1 .. Len(tr) : \E j \in 1 .. pa[l] - pa[l - 1] : q = pa[l - 1] + j
  BY DEF Placed
<1>1. PICK i \in 1 .. pa[k] - pa[k - 1] : p = pa[k - 1] + i
  BY <1>a
<1>2. PICK j \in 1 .. pa[l] - pa[l - 1] : q = pa[l - 1] + j
  BY <1>b
<1>3. InPart(tr, k, p, i) /\ InPart(tr, l, q, j)
  BY <1>1, <1>2 DEF Placed
<1>4. i \in Nat /\ j \in Nat
  OBVIOUS
<1>. DEFINE c == Cells(tr)[p]
<1>5. c[1] = k /\ c[1] = l
  <2>1. c[1] = k
    BY <1>3 DEF InPart
  <2>2. Cells(tr)[q][1] = l
    BY <1>3 DEF InPart
  <2>. QED BY <2>1, <2>2
<1>6. i = j
  <2>1. k = l
    BY <1>5
  <2>2. CASE k \in Sectors(tr)
    <3>1. \/ i = 1 /\ c = <<k, "sync", 1>>
          \/ i = 2 /\ c = <<k, "sync", 2>>
          \/ i = 3 /\ c = <<k, "head", 1>>
          \/ i > 3 /\ c = <<k, "data", i - 3>>
      BY <1>3, <2>2 DEF InPart
    <3>2. \/ j = 1 /\ c = <<k, "sync", 1>>
          \/ j = 2 /\ c = <<k, "sync", 2>>
          \/ j = 3 /\ c = <<k, "head", 1>>
          \/ j > 3 /\ c = <<k, "data", j - 3>>
      BY <1>3, <2>1, <2>2 DEF InPart
    <3>. HIDE DEF c
    <3>3. i > 3 /\ j > 3 /\ <<k, "data", i - 3>> = <<k, "data", j - 3>> => i = j
      BY <1>4
    <3>. QED BY <3>1, <3>2, <3>3
  <2>3. CASE k \notin Sectors(tr)
    BY <1>3, <2>1, <2>3 DEF InPart
  <2>. QED BY <2>2, <2>3
<1>. QED BY <1>1, <1>2, <1>5, <1>6

(***************************************************************************)
(* One cell through the filter.                                            *)
(***************************************************************************)
Smp    == [t : Nat, cell : CellId]
Kinds  == Damage \cup {"none"}
Plain  == {"none", "split", "timer", "flip", "slow", "weak"}
FState == [out : Seq(Smp), short_time : Nat]
EState == [out : Seq(Smp), index_pos : Seq(Nat), value : Nat]

FilterRun(f, bytes) ==
  /\ f \in [0 .. Len(bytes) -> FState] /\ f[0] = [out |-> <<>>, short_time |-> 0]
  /\ \A n \in 1 .. Len(bytes) : f[n] = FilterByte(f[n - 1], bytes[n])

ExtractRun(g, bytes) ==
  /\ g \in [0 .. Len(bytes) -> EState] /\ g[0] = [out |-> <<>>, index_pos |-> <<>>, value |-> 0]
  /\ \A n \in 1 .. Len(bytes) : g[n] = ExtractByte(g[n - 1], bytes[n])

Added(w, u, x) == Len(w) = Len(u) + 1 /\ w[Len(w)] = x /\ \A i \in 1 .. Len(u) : w[i] = u[i]

LEMMA AppendAdds ==
  ASSUME NEW S, NEW u \in Seq(S), NEW x \in S
  PROVE  Added(Append(u, x), u, x) /\ Append(u, x) \in Seq(S)
BY DEF Added

LEMMA FilterByteStep ==
  ASSUME NEW st \in FState, NEW b \in Smp
  PROVE  LET r == FilterByte(st, b)
         IN  /\ r \in FState
             /\ b.t < 4 => Added(r.out, st.out, b) /\ r.short_time = st.short_time
             /\ b.t >= 4 /\ b.t <= 24 => r.out = st.out /\ r.short_time = st.short_time + b.t
             /\ b.t > 24 => /\ Added(r.out, st.out, [t |-> st.short_time + b.t, cell |-> b.cell])
                            /\ r.short_time = 0
<1>. DEFINE r == FilterByte(st, b)
            x == [t |-> st.short_time + b.t, cell |-> b.cell]
<1>1. /\ st.out \in Seq(Smp) /\ st.short_time \in Nat /\ b.t \in Nat
      /\ st = [out |-> st.out, short_time |-> st.short_time]
  BY DEF FState, Smp
<1>2. x \in Smp /\ [b EXCEPT !.t = @ + st.short_time] = x
  BY <1>1 DEF Smp
<1>3. CASE b.t < 4
  <2>1. r = [out |-> Append(st.out, b), short_time |-> st.short_time]
    BY <1>1, <1>3 DEF FilterByte, KeptMarker, marker_last
  <2>2. Append(st.out, b) \in Seq(Smp) /\ Added(Append(st.out, b), st.out, b)
    BY <1>1, AppendAdds
  <2>. QED BY <1>1, <1>3, <2>1, <2>2 DEF FState
<1>4. CASE b.t >= 4 /\ b.t <= 24
  <2>1. r = [out |-> st.out, short_time |-> st.short_time + b.t]
    BY <1>1, <1>4 DEF FilterByte, KeptMarker, marker_last, noise_level
  <2>. QED BY <1>1, <1>4, <2>1 DEF FState
<1>5. CASE b.t > 24
  <2>1. r = [out |-> Append(st.out, x), short_time |-> 0]
    <3>1. ~(b.t < 4) /\ ~(b.t <= 24)
      BY <1>1, <1>5
    <3>2. r = [out |-> Append(st.out, [b EXCEPT !.t = @ + st.short_time]), short_time |-> 0]
      BY <3>1, Zenon DEF FilterByte, KeptMarker, marker_last, noise_level
    <3>. HIDE DEF r, x
    <3>. QED BY <1>2, <3>2, Zenon
  <2>. HIDE DEF x
  <2>2. Append(st.out, x) \in Seq(Smp) /\ Added(Append(st.out, x), st.out, x)
    BY <1>1, <1>2, AppendAdds
  <2>3. r \in FState /\ Added(r.out, st.out, x) /\ r.short_time = 0
    BY <2>1, <2>2 DEF FState
  <2>. QED BY <1>1, <1>5, <2>3 DEF x
<1>. QED BY <1>1, <1>3, <1>4, <1>5

LEMMA ExtractByteStep ==
  ASSUME NEW st \in EState, NEW b \in Smp
  PROVE  LET r == ExtractByte(st, b)
         IN  /\ r \in EState
             /\ st.value > 0 => r.out = st.out /\ r.index_pos = st.index_pos /\ r.value = st.value - 1
             /\ st.value = 0 /\ b.t = 1 =>
                  r.out = st.out /\ Added(r.index_pos, st.index_pos, Len(st.out)) /\ r.value = 0
             /\ st.value = 0 /\ b.t = 2 =>
                  r.out = st.out /\ r.index_pos = st.index_pos /\ r.value = 2
             /\ st.value = 0 /\ b.t \in {3, 4} =>
                  r.out = st.out /\ r.index_pos = st.index_pos /\ r.value = 0
             /\ st.value = 0 /\ b.t \notin 1 .. 4 =>
                  Added(r.out, st.out, b) /\ r.index_pos = st.index_pos /\ r.value = 0
<1>. DEFINE r == ExtractByte(st, b)
            o == st.out  ix == st.index_pos  v == st.value
<1>1. /\ o \in Seq(Smp) /\ ix \in Seq(Nat) /\ v \in Nat /\ b.t \in Nat /\ Len(o) \in Nat
      /\ st = [out |-> o, index_pos |-> ix, value |-> v]
  BY DEF EState, Smp
<1>2. CASE v > 0
  <2>1. r = [out |-> o, index_pos |-> ix, value |-> v - 1]
    BY <1>1, <1>2 DEF ExtractByte
  <2>2. v - 1 \in Nat
    BY <1>1, <1>2
  <2>. QED BY <1>1, <1>2, <2>1, <2>2 DEF EState
<1>3. CASE v = 0 /\ b.t = 1
  <2>1. r = [out |-> o, index_pos |-> Append(ix, Len(o)), value |-> v]
    <3>. DEFINE y == Append(ix, Len(o))
    <3>1. ~(st.value > 0) /\ b.t = 1
      BY <1>1, <1>3
    <3>2. r = [st EXCEPT !.index_pos = y]
      BY <3>1 DEF ExtractByte, marker_index
    <3>. HIDE DEF y
    <3>3. [st EXCEPT !.index_pos = y] = [out |-> o, index_pos |-> y, value |-> v]
      <4>1. st = [out |-> o, index_pos |-> ix, value |-> v]
        BY <1>1
      <4>. HIDE DEF o, ix, v
      <4>. QED BY <4>1
    <3>. QED BY <3>2, <3>3 DEF y
  <2>2. Append(ix, Len(o)) \in Seq(Nat) /\ Added(Append(ix, Len(o)), ix, Len(o))
    BY <1>1, AppendAdds
  <2>. QED BY <1>1, <1>3, <2>1, <2>2 DEF EState
<1>4. CASE v = 0 /\ b.t = 2
  <2>1. r = [out |-> o, index_pos |-> ix, value |-> 2]
    BY <1>1, <1>4 DEF ExtractByte, marker_index, marker_overflow
  <2>. QED BY <1>1, <1>4, <2>1 DEF EState
<1>5. CASE v = 0 /\ b.t \in {3, 4}
  <2>1. r = st
    BY <1>1, <1>5 DEF ExtractByte, marker_index, marker_overflow, marker_overrun, marker_timer_overflow
  <2>. QED BY <1>1, <1>5, <2>1 DEF EState
<1>6. CASE v = 0 /\ b.t \notin 1 .. 4
  <2>1. r = [out |-> Append(o, b), index_pos |-> ix, value |-> v]
    <3>. DEFINE y == Append(o, b)
    <3>1. ~(st.value > 0) /\ b.t # 1 /\ b.t # 2 /\ b.t # 3 /\ b.t # 4
      BY <1>1, <1>6
    <3>2. r = [st EXCEPT !.out = y]
      BY <3>1 DEF ExtractByte, marker_index, marker_overflow, marker_overrun, marker_timer_overflow
    <3>. HIDE DEF y
    <3>3. [st EXCEPT !.out = y] = [out |-> y, index_pos |-> ix, value |-> v]
      <4>1. st = [out |-> o, index_pos |-> ix, value |-> v]
        BY <1>1
      <4>. HIDE DEF o, ix, v
      <4>. QED BY <4>1
    <3>. QED BY <3>2, <3>3 DEF y
  <2>2. Append(o, b) \in Seq(Smp) /\ Added(Append(o, b), o, b)
    BY <1>1, AppendAdds
  <2>. QED BY <1>1, <1>6, <2>1, <2>2 DEF EState
<1>7. v > 0 \/ (v = 0 /\ (b.t = 1 \/ b.t = 2 \/ b.t \in {3, 4} \/ b.t \notin 1 .. 4))
  BY <1>1
<1>. QED BY <1>2, <1>3, <1>4, <1>5, <1>6, <1>7

LEMMA FilterRuns ==
  ASSUME NEW bytes \in Seq(Smp)
  PROVE  \E f : FilterRun(f, bytes) /\ Filtered(bytes) = f[Len(bytes)]
<1>. DEFINE L == Len(bytes)
            a == [out |-> <<>>, short_time |-> 0]
            step == [n \in 1 .. L |-> [s \in FState |-> FilterByte(s, bytes[n])]]
<1>1. L \in Nat /\ \A n \in 1 .. L : bytes[n] \in Smp
  OBVIOUS
<1>2. a \in FState
  BY DEF FState
<1>3. \A n \in 1 .. L : \A s \in FState : FilterByte(s, bytes[n]) \in FState
  BY <1>1, FilterByteStep
<1>4. step \in [1 .. L -> [FState -> FState]]
  BY <1>3
<1>5. \A n \in 1 .. L : \A s \in FState : step[n][s] = FilterByte(s, bytes[n])
  OBVIOUS
<1>. HIDE DEF step, a, L
<1>6. PICK f : IsRun(f, FState, a, L, step)
  BY <1>1, <1>2, <1>4, RunExists
<1>7. f \in [0 .. L -> FState] /\ f[0] = a /\ \A n \in 1 .. L : f[n] = FilterByte(f[n - 1], bytes[n])
  <2>1. \A n \in 1 .. L : n - 1 \in 0 .. L
    BY <1>1
  <2>2. f \in [0 .. L -> FState] /\ f[0] = a /\ \A n \in 1 .. L : f[n] = step[n][f[n - 1]]
    BY <1>6 DEF IsRun
  <2>. QED BY <1>5, <2>1, <2>2
<1>8. FilterRun(f, bytes)
  BY <1>7 DEF FilterRun, L, a
<1>. DEFINE h == CHOOSE h : h = [n \in 0 .. L |-> IF n = 0 THEN a ELSE FilterByte(h[n - 1], bytes[n])]
<1>9. Filtered(bytes) = h[L]
  BY Zenon DEF Filtered, L, a
<1>10. f = [n \in 0 .. L |-> IF n = 0 THEN a ELSE FilterByte(f[n - 1], bytes[n])]
  <2>1. \A n \in 0 .. L : n = 0 \/ n \in 1 .. L
    BY <1>1
  <2>2. \A n \in 0 .. L : f[n] = IF n = 0 THEN a ELSE FilterByte(f[n - 1], bytes[n])
    BY <1>7, <2>1, Zenon
  <2>. QED BY <1>7, <2>2, Zenon
<1>11. h = [n \in 0 .. L |-> IF n = 0 THEN a ELSE FilterByte(h[n - 1], bytes[n])]
  BY <1>10, Zenon
<1>. HIDE DEF h
<1>. DEFINE Same == {n \in 0 .. L : h[n] = f[n]}
<1>12. 0 \in Same
  <2>1. 0 \in 0 .. L
    BY <1>1
  <2>2. h[0] = IF 0 = 0 THEN a ELSE FilterByte(h[0 - 1], bytes[0])
    BY <1>11, <2>1, Zenon
  <2>. QED BY <1>7, <2>1, <2>2, Zenon
<1>13. ASSUME NEW n \in 1 .. L, n - 1 \in Same PROVE n \in Same
  <2>1. n \in 0 .. L /\ n # 0
    BY <1>1
  <2>2. h[n] = IF n = 0 THEN a ELSE FilterByte(h[n - 1], bytes[n])
    BY <1>11, <2>1, Zenon
  <2>3. h[n - 1] = f[n - 1]
    BY <1>13
  <2>. QED BY <1>7, <2>1, <2>2, <2>3, Zenon
<1>. HIDE DEF Same
<1>14. \A n \in 0 .. L : n \in Same
  BY <1>1, <1>12, <1>13, UpTo
<1>15. h[L] = f[L]
  <2>1. L \in 0 .. L
    BY <1>1
  <2>. QED BY <1>14, <2>1 DEF Same
<1>. QED BY <1>8, <1>9, <1>15 DEF L

LEMMA ExtractRuns ==
  ASSUME NEW bytes \in Seq(Smp)
  PROVE  \E f : ExtractRun(f, bytes) /\ Extracted(bytes) = f[Len(bytes)]
<1>. DEFINE L == Len(bytes)
            a == [out |-> <<>>, index_pos |-> <<>>, value |-> 0]
            step == [n \in 1 .. L |-> [s \in EState |-> ExtractByte(s, bytes[n])]]
<1>1. L \in Nat /\ \A n \in 1 .. L : bytes[n] \in Smp
  OBVIOUS
<1>2. a \in EState
  BY DEF EState
<1>3. \A n \in 1 .. L : \A s \in EState : ExtractByte(s, bytes[n]) \in EState
  BY <1>1, ExtractByteStep
<1>4. step \in [1 .. L -> [EState -> EState]]
  BY <1>3
<1>5. \A n \in 1 .. L : \A s \in EState : step[n][s] = ExtractByte(s, bytes[n])
  OBVIOUS
<1>. HIDE DEF step, a, L
<1>6. PICK f : IsRun(f, EState, a, L, step)
  BY <1>1, <1>2, <1>4, RunExists
<1>7. f \in [0 .. L -> EState] /\ f[0] = a /\ \A n \in 1 .. L : f[n] = ExtractByte(f[n - 1], bytes[n])
  <2>1. \A n \in 1 .. L : n - 1 \in 0 .. L
    BY <1>1
  <2>2. f \in [0 .. L -> EState] /\ f[0] = a /\ \A n \in 1 .. L : f[n] = step[n][f[n - 1]]
    BY <1>6 DEF IsRun
  <2>. QED BY <1>5, <2>1, <2>2
<1>8. ExtractRun(f, bytes)
  BY <1>7 DEF ExtractRun, L, a
<1>. DEFINE h == CHOOSE h : h = [n \in 0 .. L |-> IF n = 0 THEN a ELSE ExtractByte(h[n - 1], bytes[n])]
<1>9. Extracted(bytes) = h[L]
  BY Zenon DEF Extracted, L, a
<1>10. f = [n \in 0 .. L |-> IF n = 0 THEN a ELSE ExtractByte(f[n - 1], bytes[n])]
  <2>1. \A n \in 0 .. L : n = 0 \/ n \in 1 .. L
    BY <1>1
  <2>2. \A n \in 0 .. L : f[n] = IF n = 0 THEN a ELSE ExtractByte(f[n - 1], bytes[n])
    BY <1>7, <2>1, Zenon
  <2>. QED BY <1>7, <2>2, Zenon
<1>11. h = [n \in 0 .. L |-> IF n = 0 THEN a ELSE ExtractByte(h[n - 1], bytes[n])]
  BY <1>10, Zenon
<1>. HIDE DEF h
<1>. DEFINE Same == {n \in 0 .. L : h[n] = f[n]}
<1>12. 0 \in Same
  <2>1. 0 \in 0 .. L
    BY <1>1
  <2>2. h[0] = IF 0 = 0 THEN a ELSE ExtractByte(h[0 - 1], bytes[0])
    BY <1>11, <2>1, Zenon
  <2>. QED BY <1>7, <2>1, <2>2, Zenon
<1>13. ASSUME NEW n \in 1 .. L, n - 1 \in Same PROVE n \in Same
  <2>1. n \in 0 .. L /\ n # 0
    BY <1>1
  <2>2. h[n] = IF n = 0 THEN a ELSE ExtractByte(h[n - 1], bytes[n])
    BY <1>11, <2>1, Zenon
  <2>3. h[n - 1] = f[n - 1]
    BY <1>13
  <2>. QED BY <1>7, <2>1, <2>2, <2>3, Zenon
<1>. HIDE DEF Same
<1>14. \A n \in 0 .. L : n \in Same
  BY <1>1, <1>12, <1>13, UpTo
<1>15. h[L] = f[L]
  <2>1. L \in 0 .. L
    BY <1>1
  <2>. QED BY <1>14, <2>1 DEF Same
<1>. QED BY <1>8, <1>9, <1>15 DEF L

(* Sequences each of which begins with the one before it.                  *)
Growing(o, L) ==
  /\ \A n \in 0 .. L : Len(o[n]) \in Nat
  /\ \A n \in 1 .. L : Len(o[n - 1]) <= Len(o[n]) /\ \A i \in 1 .. Len(o[n - 1]) : o[n][i] = o[n - 1][i]

LEMMA GrownFrom ==
  ASSUME NEW L \in Nat, NEW o, Growing(o, L), NEW n \in 0 .. L, NEW m \in 0 .. L, n <= m
  PROVE  Len(o[n]) <= Len(o[m]) /\ \A i \in 1 .. Len(o[n]) : o[m][i] = o[n][i]
<1>. DEFINE S == {k \in 0 .. L : n <= k => Len(o[n]) <= Len(o[k]) /\ \A i \in 1 .. Len(o[n]) : o[k][i] = o[n][i]}
<1>0. Len(o[n]) \in Nat
  BY DEF Growing
<1>1. 0 \in S
  <2>1. n <= 0 => n = 0
    OBVIOUS
  <2>2. 0 \in 0 .. L
    OBVIOUS
  <2>. QED BY <1>0, <2>1, <2>2
<1>2. ASSUME NEW k \in 1 .. L, k - 1 \in S PROVE k \in S
  <2>1. k \in 0 .. L /\ k - 1 \in 0 .. L
    OBVIOUS
  <2>2. /\ Len(o[k - 1]) \in Nat /\ Len(o[k]) \in Nat /\ Len(o[k - 1]) <= Len(o[k])
        /\ \A i \in 1 .. Len(o[k - 1]) : o[k][i] = o[k - 1][i]
    BY <2>1 DEF Growing
  <2>3. CASE n <= k - 1
    <3>1. Len(o[n]) <= Len(o[k - 1]) /\ \A i \in 1 .. Len(o[n]) : o[k - 1][i] = o[n][i]
      BY <1>2, <2>3
    <3>2. \A i \in 1 .. Len(o[n]) : i \in 1 .. Len(o[k - 1])
      BY <1>0, <2>2, <3>1
    <3>3. \A i \in 1 .. Len(o[n]) : o[k][i] = o[n][i]
      BY <2>2, <3>1, <3>2
    <3>4. Len(o[n]) <= Len(o[k])
      BY <1>0, <2>2, <3>1
    <3>. QED BY <2>1, <3>3, <3>4
  <2>4. CASE ~(n <= k - 1)
    <3>1. n <= k => n = k
      BY <2>4
    <3>. QED BY <1>0, <2>1, <3>1
  <2>. QED BY <2>3, <2>4
<1>. HIDE DEF S
<1>3. \A k \in 0 .. L : k \in S
  BY <1>1, <1>2, UpTo
<1>. QED BY <1>3 DEF S

LEMMA AddedOne ==
  ASSUME NEW u, Len(u) \in Nat, NEW x, NEW w, Added(w, u, x)
  PROVE  Joins(w, u, <<x>>) /\ Len(w) \in Nat
BY DEF Added, Joins

LEMMA AddedTwo ==
  ASSUME NEW u, Len(u) \in Nat, NEW x, NEW w, Added(w, u, x), NEW y, NEW v, Added(v, w, y)
  PROVE  Joins(v, u, <<x, y>>) /\ Len(v) \in Nat
<1>1. Len(w) = Len(u) + 1 /\ Len(v) = Len(u) + 2 /\ Len(w) \in 1 .. Len(w)
  BY DEF Added
<1>2. v[Len(u) + 1] = x /\ v[Len(u) + 2] = y
  BY <1>1 DEF Added
<1>3. \A i \in 1 .. Len(u) : i \in 1 .. Len(w) /\ v[i] = u[i]
  BY <1>1 DEF Added
<1>4. \A j \in 1 .. 2 : v[Len(u) + j] = <<x, y>>[j]
  BY <1>2
<1>. QED BY <1>1, <1>3, <1>4 DEF Joins

LEMMA AddedThree ==
  ASSUME NEW u, Len(u) \in Nat, NEW x, NEW w, Added(w, u, x), NEW y, NEW v, Added(v, w, y),
         NEW z, NEW t, Added(t, v, z)
  PROVE  Joins(t, u, <<x, y, z>>) /\ Len(t) \in Nat
<1>1. Len(w) = Len(u) + 1 /\ Len(v) = Len(u) + 2 /\ Len(t) = Len(u) + 3
  BY DEF Added
<1>2. Len(w) \in 1 .. Len(w) /\ Len(w) \in 1 .. Len(v) /\ Len(v) \in 1 .. Len(v)
  BY <1>1
<1>3. t[Len(u) + 1] = x /\ t[Len(u) + 2] = y /\ t[Len(u) + 3] = z
  BY <1>1, <1>2 DEF Added
<1>4. \A i \in 1 .. Len(u) : i \in 1 .. Len(w) /\ i \in 1 .. Len(v) /\ t[i] = u[i]
  BY <1>1 DEF Added
<1>5. \A j \in 1 .. 3 : t[Len(u) + j] = <<x, y, z>>[j]
  BY <1>3
<1>. QED BY <1>1, <1>4, <1>5 DEF Joins

(***************************************************************************)
(* What the filter makes of a cell when s ticks wait for the next sample.  *)
(***************************************************************************)
TheSample(c, s) ==
  [t |-> s + Ticks(Kind(c)), cell |-> IF Kind(c) \in {"flip", "long"} THEN Nothing ELSE c]

Kept(c, s) ==
  CASE Kind(c) = "index"   -> <<Byte(1), TheSample(c, s)>>
    [] Kind(c) = "overrun" -> <<Byte(3)>>
    [] Kind(c) = "long"    -> <<Byte(2), Byte(1), TheSample(c, s)>>
    [] Kind(c) = "longlow" -> <<Byte(2), Byte(1)>>
    [] OTHER -> <<TheSample(c, s)>>

ShortAfter(c, s) ==
  CASE Kind(c) = "overrun" -> s [] Kind(c) = "longlow" -> s + 20 [] OTHER -> 0

LEMMA SamplesTyped ==
  ASSUME NEW c \in CellId, Kind(c) \in Kinds, NEW s \in Nat
  PROVE  /\ TheSample(c, s) \in Smp /\ Kept(c, s) \in Seq(Smp) /\ ShortAfter(c, s) \in Nat
         /\ TheSample(c, s).t >= s + 96 /\ Nothing \in CellId
         /\ \A n \in Nat : Byte(n) \in Smp /\ Byte(n).t = n
<1>1. Nothing \in CellId
  BY DEF Nothing, CellId, CellName
<1>2. Ticks(Kind(c)) \in Nat /\ Ticks(Kind(c)) >= 96
  BY DEF Ticks
<1>3. TheSample(c, s) \in Smp /\ TheSample(c, s).t >= s + 96
  BY <1>1, <1>2 DEF TheSample, Smp
<1>4. \A n \in Nat : Byte(n) \in Smp /\ Byte(n).t = n
  BY <1>1 DEF Byte, Smp
<1>5. Byte(1) \in Smp /\ Byte(2) \in Smp /\ Byte(3) \in Smp
  BY <1>4
<1>6. Kept(c, s) \in Seq(Smp)
  BY <1>3, <1>5 DEF Kept
<1>7. ShortAfter(c, s) \in Nat
  BY DEF ShortAfter
<1>. QED BY <1>1, <1>3, <1>4, <1>6, <1>7

(* One step of the filter. *)
FStep(st, b, r) ==
  /\ st \in FState /\ r \in FState
  /\ b.t < 4 => Added(r.out, st.out, b) /\ r.short_time = st.short_time
  /\ b.t >= 4 /\ b.t <= 24 => r.out = st.out /\ r.short_time = st.short_time + b.t
  /\ b.t > 24 => Added(r.out, st.out, [t |-> st.short_time + b.t, cell |-> b.cell]) /\ r.short_time = 0

LEMMA FilterRunSteps ==
  ASSUME NEW bytes \in Seq(Smp), NEW f, FilterRun(f, bytes),
         NEW n \in Nat, NEW m \in Nat, m = n + 1, m <= Len(bytes)
  PROVE  FStep(f[n], bytes[m], f[m])
<1>1. n \in 0 .. Len(bytes) /\ m \in 1 .. Len(bytes) /\ n = m - 1 /\ bytes[m] \in Smp
  OBVIOUS
<1>2. f[n] \in FState /\ f[m] = FilterByte(f[m - 1], bytes[m])
  BY <1>1 DEF FilterRun
<1>3. f[m] = FilterByte(f[n], bytes[m])
  BY <1>1, <1>2
<1>. QED BY <1>1, <1>2, <1>3, FilterByteStep DEF FStep

LEMMA FilterCell ==
  ASSUME NEW bytes \in Seq(Smp), NEW f, FilterRun(f, bytes),
         NEW c \in CellId, Kind(c) \in Kinds, NEW p \in Nat, p + Len(Code(c)) <= Len(bytes),
         \A i \in 1 .. Len(Code(c)) : bytes[p + i] = Code(c)[i]
  PROVE  LET q == p + Len(Code(c))
             s == f[p].short_time
         IN  /\ s \in Nat /\ f[p] \in FState
             /\ Joins(f[q].out, f[p].out, Kept(c, s)) /\ f[q].short_time = ShortAfter(c, s)
<1>. DEFINE s == f[p].short_time  u == f[p].out  x == TheSample(c, s)
            f1 == f[p + 1]  f2 == f[p + 2]  f3 == f[p + 3]
<1>1. p <= Len(bytes) /\ Len(bytes) \in Nat /\ Len(Code(c)) \in 1 .. 3
  <2>1. Len(Code(c)) \in 1 .. 3
    BY DEF Code, Kind, Kinds, Damage
  <2>. QED BY <2>1
<1>2. f[p] \in FState /\ s \in Nat /\ u \in Seq(Smp) /\ Len(u) \in Nat
  <2>1. f[p] \in FState
    BY <1>1 DEF FilterRun
  <2>. QED BY <2>1 DEF FState
<1>3. FStep(f[p], Code(c)[1], f1)
  <2>. DEFINE l == Len(Code(c))
  <2>0. l \in 1 .. 3 /\ p + l <= Len(bytes)
    BY <1>1
  <2>. HIDE DEF l
  <2>a. p + 1 \in Nat /\ p + 1 <= Len(bytes) /\ 1 \in 1 .. l
    BY <1>1, <2>0
  <2>1. p + 1 \in Nat /\ p + 1 <= Len(bytes) /\ 1 \in 1 .. Len(Code(c))
    BY <2>a DEF l
  <2>2. FStep(f[p], bytes[p + 1], f[p + 1]) /\ bytes[p + 1] = Code(c)[1]
    BY <2>1, FilterRunSteps
  <2>. QED BY <2>2
<1>4. Len(Code(c)) >= 2 => FStep(f1, Code(c)[2], f2)
  <2>. SUFFICES ASSUME Len(Code(c)) >= 2 PROVE FStep(f1, Code(c)[2], f2)
    OBVIOUS
  <2>1. p + 1 \in Nat /\ p + 2 \in Nat /\ p + 2 = (p + 1) + 1 /\ p + 2 <= Len(bytes) /\ 2 \in 1 .. Len(Code(c))
    BY <1>1
  <2>2. FStep(f[p + 1], bytes[p + 2], f[p + 2]) /\ bytes[p + 2] = Code(c)[2]
    BY <2>1, FilterRunSteps
  <2>. QED BY <2>2
<1>5. Len(Code(c)) >= 3 => FStep(f2, Code(c)[3], f3)
  <2>. SUFFICES ASSUME Len(Code(c)) >= 3 PROVE FStep(f2, Code(c)[3], f3)
    OBVIOUS
  <2>1. p + 2 \in Nat /\ p + 3 \in Nat /\ p + 3 = (p + 2) + 1 /\ p + 3 <= Len(bytes) /\ 3 \in 1 .. Len(Code(c))
    BY <1>1
  <2>2. FStep(f[p + 2], bytes[p + 3], f[p + 3]) /\ bytes[p + 3] = Code(c)[3]
    BY <2>1, FilterRunSteps
  <2>. QED BY <2>2
<1>6. \A n \in Nat : Byte(n).t = n
  BY DEF Byte
<1>7. \A n \in Nat, d \in CellId : Sample(n, d).t = n /\ Sample(n, d).cell = d
  BY DEF Sample
<1>. DEFINE Done(r) == Joins(r.out, u, Kept(c, s)) /\ r.short_time = ShortAfter(c, s)
<1>. SUFFICES Done(f[p + Len(Code(c))])
  BY <1>2
<1>8. ASSUME NEW n \in Nat, n > 24, NEW d \in CellId, Code(c) = <<Sample(n, d)>>,
             x = [t |-> s + n, cell |-> d], Kept(c, s) = <<x>>, ShortAfter(c, s) = 0
      PROVE  Done(f[p + Len(Code(c))])
  <2>1. Len(Code(c)) = 1 /\ Code(c)[1] = Sample(n, d)
    BY <1>8
  <2>2. Added(f1.out, u, x) /\ f1.short_time = 0
    BY <1>3, <1>7, <1>8, <2>1 DEF FStep
  <2>. HIDE DEF x, u
  <2>3. Joins(f1.out, u, <<x>>)
    BY <1>2, <2>2, AddedOne DEF u
  <2>. QED BY <1>8, <2>1, <2>2, <2>3
<1>9. ASSUME NEW n \in Nat, n \in 4 .. 24, NEW l \in Nat, l > 24,
             Code(c) = <<Byte(n), Sample(l, c)>>,
             x = [t |-> s + (n + l), cell |-> c], Kept(c, s) = <<x>>, ShortAfter(c, s) = 0
      PROVE  Done(f[p + Len(Code(c))])
  <2>1. Len(Code(c)) = 2 /\ Code(c)[1] = Byte(n) /\ Code(c)[2] = Sample(l, c)
    BY <1>9
  <2>2. f1.out = u /\ f1.short_time = s + n
    BY <1>3, <1>6, <1>9, <2>1 DEF FStep
  <2>3. Added(f2.out, f1.out, [t |-> f1.short_time + l, cell |-> c]) /\ f2.short_time = 0
    BY <1>4, <1>7, <1>9, <2>1 DEF FStep
  <2>4. f1.short_time + l = s + (n + l)
    BY <1>2, <2>2
  <2>5. Added(f2.out, u, x)
    BY <1>9, <2>2, <2>3, <2>4
  <2>. HIDE DEF x, u
  <2>6. Joins(f2.out, u, <<x>>)
    BY <1>2, <2>5, AddedOne DEF u
  <2>. QED BY <1>9, <2>1, <2>3, <2>6
<1>10. CASE Kind(c) \in {"none", "flip", "slow", "weak"}
  <2>1. Kept(c, s) = <<x>> /\ ShortAfter(c, s) = 0
    BY <1>10 DEF Kept, ShortAfter
  <2>. DEFINE n == Ticks(Kind(c))  d == IF Kind(c) = "flip" THEN Nothing ELSE c
  <2>2. n \in Nat /\ n > 24 /\ d \in CellId
    BY <1>10, SamplesTyped, <1>2 DEF Ticks
  <2>3. Code(c) = <<Sample(n, d)>>
    BY <1>10 DEF Code, Kind, Ticks
  <2>4. x = [t |-> s + n, cell |-> d]
    BY <1>10 DEF TheSample
  <2>. HIDE DEF n, d, x, Done
  <2>. QED BY <1>8, <2>1, <2>2, <2>3, <2>4
<1>11. CASE Kind(c) \in {"split", "timer"}
  <2>1. Kept(c, s) = <<x>> /\ ShortAfter(c, s) = 0
    BY <1>11 DEF Kept, ShortAfter
  <2>. DEFINE n == IF Kind(c) = "split" THEN 10 ELSE 4
              l == IF Kind(c) = "split" THEN 86 ELSE 96
  <2>2. n \in 4 .. 24 /\ n \in Nat /\ l \in Nat /\ l > 24 /\ n + l = Ticks(Kind(c))
    BY <1>11 DEF Ticks
  <2>3. Code(c) = <<Byte(n), Sample(l, c)>>
    BY <1>11 DEF Code, Kind, marker_timer_overflow
  <2>4. x = [t |-> s + Ticks(Kind(c)), cell |-> c]
    BY <1>11 DEF TheSample
  <2>5. x = [t |-> s + (n + l), cell |-> c]
    BY <2>2, <2>4
  <2>. HIDE DEF n, l, x, Done
  <2>. QED BY <1>9, <2>1, <2>2, <2>3, <2>5
<1>12. CASE Kind(c) = "index"
  <2>1. Kept(c, s) = <<Byte(1), x>> /\ ShortAfter(c, s) = 0 /\ x = [t |-> s + 96, cell |-> c]
    BY <1>12 DEF Kept, ShortAfter, TheSample, Ticks
  <2>2. Code(c) = <<Byte(1), Sample(96, c)>>
    BY <1>12 DEF Code, Kind, marker_index
  <2>3. Len(Code(c)) = 2 /\ Code(c)[1] = Byte(1) /\ Code(c)[2] = Sample(96, c)
    BY <2>2
  <2>4. Added(f1.out, u, Byte(1)) /\ f1.short_time = s
    BY <1>3, <1>6, <2>3 DEF FStep
  <2>5. Added(f2.out, f1.out, [t |-> f1.short_time + 96, cell |-> c]) /\ f2.short_time = 0
    BY <1>4, <1>7, <2>3 DEF FStep
  <2>6. Added(f2.out, f1.out, x)
    BY <2>1, <2>4, <2>5
  <2>. HIDE DEF x, u
  <2>7. Joins(f2.out, u, <<Byte(1), x>>)
    BY <1>2, <2>4, <2>6, AddedTwo DEF u
  <2>. QED BY <2>1, <2>3, <2>5, <2>7
<1>13. CASE Kind(c) = "overrun"
  <2>1. Kept(c, s) = <<Byte(3)>> /\ ShortAfter(c, s) = s
    BY <1>13 DEF Kept, ShortAfter
  <2>2. Code(c) = <<Byte(3)>>
    BY <1>13 DEF Code, Kind, marker_overrun
  <2>3. Len(Code(c)) = 1 /\ Code(c)[1] = Byte(3)
    BY <2>2
  <2>4. Added(f1.out, u, Byte(3)) /\ f1.short_time = s
    BY <1>3, <1>6, <2>3 DEF FStep
  <2>. HIDE DEF u
  <2>5. Joins(f1.out, u, <<Byte(3)>>)
    BY <1>2, <2>4, AddedOne DEF u
  <2>. QED BY <2>1, <2>3, <2>4, <2>5
<1>14. CASE Kind(c) = "long"
  <2>1. Kept(c, s) = <<Byte(2), Byte(1), x>> /\ ShortAfter(c, s) = 0 /\ x = [t |-> s + 100, cell |-> Nothing]
    BY <1>14 DEF Kept, ShortAfter, TheSample, Ticks
  <2>2. Code(c) = <<Byte(2), Byte(1), Byte(100)>>
    BY <1>14 DEF Code, Kind, marker_overflow
  <2>3. Len(Code(c)) = 3 /\ Code(c)[1] = Byte(2) /\ Code(c)[2] = Byte(1) /\ Code(c)[3] = Byte(100)
    BY <2>2
  <2>4. Added(f1.out, u, Byte(2)) /\ f1.short_time = s
    BY <1>3, <1>6, <2>3 DEF FStep
  <2>5. Added(f2.out, f1.out, Byte(1)) /\ f2.short_time = s
    BY <1>4, <1>6, <2>3, <2>4 DEF FStep
  <2>6. Byte(100).cell = Nothing
    BY DEF Byte
  <2>7. Added(f3.out, f2.out, [t |-> f2.short_time + 100, cell |-> Nothing]) /\ f3.short_time = 0
    BY <1>5, <1>6, <2>3, <2>6 DEF FStep
  <2>8. Added(f3.out, f2.out, x)
    BY <2>1, <2>5, <2>7
  <2>. HIDE DEF x, u
  <2>9. Joins(f3.out, u, <<Byte(2), Byte(1), x>>)
    BY <1>2, <2>4, <2>5, <2>8, AddedThree DEF u
  <2>. QED BY <2>1, <2>3, <2>7, <2>9
<1>15. CASE Kind(c) = "longlow"
  <2>1. Kept(c, s) = <<Byte(2), Byte(1)>> /\ ShortAfter(c, s) = s + 20
    BY <1>15 DEF Kept, ShortAfter
  <2>2. Code(c) = <<Byte(2), Byte(1), Byte(20)>>
    BY <1>15 DEF Code, Kind, marker_overflow
  <2>3. Len(Code(c)) = 3 /\ Code(c)[1] = Byte(2) /\ Code(c)[2] = Byte(1) /\ Code(c)[3] = Byte(20)
    BY <2>2
  <2>4. Added(f1.out, u, Byte(2)) /\ f1.short_time = s
    BY <1>3, <1>6, <2>3 DEF FStep
  <2>5. Added(f2.out, f1.out, Byte(1)) /\ f2.short_time = s
    BY <1>4, <1>6, <2>3, <2>4 DEF FStep
  <2>6. f3.out = f2.out /\ f3.short_time = s + 20
    BY <1>5, <1>6, <2>3, <2>5 DEF FStep
  <2>. HIDE DEF u
  <2>7. Joins(f2.out, u, <<Byte(2), Byte(1)>>)
    BY <1>2, <2>4, <2>5, AddedTwo DEF u
  <2>. QED BY <2>1, <2>3, <2>6, <2>7
<1>. QED BY <1>10, <1>11, <1>12, <1>13, <1>14, <1>15 DEF Kinds, Damage

(***************************************************************************)
(* What is found of it in the stream, with v bytes of a value to come.     *)
(***************************************************************************)
EStep(st, b, r) ==
  /\ st \in EState /\ r \in EState
  /\ st.value > 0 => r.out = st.out /\ r.index_pos = st.index_pos /\ r.value = st.value - 1
  /\ st.value = 0 /\ b.t = 1 =>
       r.out = st.out /\ Added(r.index_pos, st.index_pos, Len(st.out)) /\ r.value = 0
  /\ st.value = 0 /\ b.t = 2 => r.out = st.out /\ r.index_pos = st.index_pos /\ r.value = 2
  /\ st.value = 0 /\ b.t \in {3, 4} => r.out = st.out /\ r.index_pos = st.index_pos /\ r.value = 0
  /\ st.value = 0 /\ b.t \notin 1 .. 4 =>
       Added(r.out, st.out, b) /\ r.index_pos = st.index_pos /\ r.value = 0

LEMMA ExtractRunSteps ==
  ASSUME NEW bytes \in Seq(Smp), NEW g, ExtractRun(g, bytes),
         NEW n \in Nat, NEW m \in Nat, m = n + 1, m <= Len(bytes)
  PROVE  EStep(g[n], bytes[m], g[m])
<1>1. n \in 0 .. Len(bytes) /\ m \in 1 .. Len(bytes) /\ n = m - 1 /\ bytes[m] \in Smp
  OBVIOUS
<1>2. g[n] \in EState /\ g[m] = ExtractByte(g[m - 1], bytes[m])
  BY <1>1 DEF ExtractRun
<1>3. g[m] = ExtractByte(g[n], bytes[m])
  BY <1>1, <1>2
<1>. QED BY <1>1, <1>2, <1>3, ExtractByteStep DEF EStep

Sampled(c, v) == Kind(c) # "overrun" /\ Kind(c) # "longlow" /\ (Kind(c) = "index" \/ (Kind(c) = "long" <=> v = 1))
Marked(c, v)  == (Kind(c) = "index" /\ v = 0) \/ (Kind(c) \in {"long", "longlow"} /\ v = 1)
ValueAfter(c, v) == IF Kind(c) = "longlow" /\ v = 0 THEN 1 ELSE 0

CellRead(st, c, s, r) ==
  /\ IF Sampled(c, st.value) THEN Added(r.out, st.out, TheSample(c, s)) ELSE r.out = st.out
  /\ IF Marked(c, st.value) THEN Added(r.index_pos, st.index_pos, Len(st.out))
                            ELSE r.index_pos = st.index_pos
  /\ r.value = ValueAfter(c, st.value)

LEMMA ExtractCell ==
  ASSUME NEW bytes \in Seq(Smp), NEW g, ExtractRun(g, bytes),
         NEW c \in CellId, Kind(c) \in Kinds, NEW s \in Nat, NEW p \in Nat,
         p + Len(Kept(c, s)) <= Len(bytes),
         \A i \in 1 .. Len(Kept(c, s)) : bytes[p + i] = Kept(c, s)[i], g[p].value \in {0, 1}
  PROVE  CellRead(g[p], c, s, g[p + Len(Kept(c, s))])
<1>. DEFINE kept == Kept(c, s)  v == g[p].value  x == TheSample(c, s)
            g0 == g[p + 0]  g1 == g[p + 1]  g2 == g[p + 2]  g3 == g[p + 3]
<1>1. p <= Len(bytes) /\ Len(bytes) \in Nat /\ Len(kept) \in 1 .. 3 /\ p + 0 = p
  <2>1. Len(kept) \in 1 .. 3
    BY DEF Kept
  <2>. HIDE DEF kept
  <2>. QED BY <2>1 DEF kept
<1>2. g0 = g[p] /\ x.t \notin 1 .. 4 /\ \A n \in Nat : Byte(n).t = n
  <2>1. x \in Smp /\ x.t >= s + 96
    BY SamplesTyped
  <2>. HIDE DEF x
  <2>2. x.t \notin 1 .. 4
    BY <2>1 DEF Smp
  <2>. QED BY <1>1, <2>2 DEF Byte
<1>0. p + Len(kept) <= Len(bytes) /\ \A i \in 1 .. Len(kept) : bytes[p + i] = kept[i]
  OBVIOUS
<1>. HIDE DEF kept
<1>3. Len(kept) >= 1 => EStep(g0, kept[1], g1)
  <2>. SUFFICES ASSUME Len(kept) >= 1 PROVE EStep(g0, kept[1], g1)
    OBVIOUS
  <2>. DEFINE l == Len(kept)
  <2>1. l \in 1 .. 3 /\ p + l <= Len(bytes) /\ l >= 1
    BY <1>0, <1>1
  <2>. HIDE DEF l
  <2>2. /\ p + 0 \in Nat /\ p + 1 \in Nat /\ p + 1 = (p + 0) + 1
        /\ p + 1 <= Len(bytes) /\ 1 \in 1 .. l
    BY <1>1, <2>1
  <2>3. 1 \in 1 .. Len(kept)
    BY <2>2 DEF l
  <2>4. EStep(g[p + 0], bytes[p + 1], g[p + 1]) /\ bytes[p + 1] = kept[1]
    BY <1>0, <2>2, <2>3, ExtractRunSteps
  <2>. QED BY <2>4
<1>4. Len(kept) >= 2 => EStep(g1, kept[2], g2)
  <2>. SUFFICES ASSUME Len(kept) >= 2 PROVE EStep(g1, kept[2], g2)
    OBVIOUS
  <2>. DEFINE l == Len(kept)
  <2>1. l \in 1 .. 3 /\ p + l <= Len(bytes) /\ l >= 2
    BY <1>0, <1>1
  <2>. HIDE DEF l
  <2>2. /\ p + 1 \in Nat /\ p + 2 \in Nat /\ p + 2 = (p + 1) + 1
        /\ p + 2 <= Len(bytes) /\ 2 \in 1 .. l
    BY <1>1, <2>1
  <2>3. 2 \in 1 .. Len(kept)
    BY <2>2 DEF l
  <2>4. EStep(g[p + 1], bytes[p + 2], g[p + 2]) /\ bytes[p + 2] = kept[2]
    BY <1>0, <2>2, <2>3, ExtractRunSteps
  <2>. QED BY <2>4
<1>5. Len(kept) >= 3 => EStep(g2, kept[3], g3)
  <2>. SUFFICES ASSUME Len(kept) >= 3 PROVE EStep(g2, kept[3], g3)
    OBVIOUS
  <2>. DEFINE l == Len(kept)
  <2>1. l \in 1 .. 3 /\ p + l <= Len(bytes) /\ l >= 3
    BY <1>0, <1>1
  <2>. HIDE DEF l
  <2>2. /\ p + 2 \in Nat /\ p + 3 \in Nat /\ p + 3 = (p + 2) + 1
        /\ p + 3 <= Len(bytes) /\ 3 \in 1 .. l
    BY <1>1, <2>1
  <2>3. 3 \in 1 .. Len(kept)
    BY <2>2 DEF l
  <2>4. EStep(g[p + 2], bytes[p + 3], g[p + 3]) /\ bytes[p + 3] = kept[3]
    BY <1>0, <2>2, <2>3, ExtractRunSteps
  <2>. QED BY <2>4
<1>. HIDE DEF x
<1>6. CASE Kind(c) \in Plain
  <2>1. kept = <<x>>
    BY <1>6 DEF Kept, kept, x, Plain
  <2>2. Len(kept) = 1 /\ kept[1] = x
    BY <2>1
  <2>3. EStep(g0, x, g1) /\ g[p + Len(kept)] = g1
    BY <1>3, <2>2
  <2>4. CASE v = 0
    <3>1. Sampled(c, v) /\ ~Marked(c, v) /\ ValueAfter(c, v) = 0
      BY <1>6, <2>4 DEF Sampled, Marked, ValueAfter, Plain
    <3>. QED BY <1>2, <2>3, <2>4, <3>1 DEF EStep, CellRead, kept, x
  <2>5. CASE v = 1
    <3>1. ~Sampled(c, v) /\ ~Marked(c, v) /\ ValueAfter(c, v) = 0
      BY <1>6, <2>5 DEF Sampled, Marked, ValueAfter, Plain
    <3>2. g1.out = g0.out /\ g1.index_pos = g0.index_pos /\ g1.value = 0
      BY <1>2, <2>3, <2>5 DEF EStep
    <3>. QED BY <1>2, <2>3, <2>5, <3>1, <3>2 DEF CellRead, kept, x
  <2>. QED BY <2>4, <2>5
<1>7. CASE Kind(c) = "index"
  <2>1. kept = <<Byte(1), x>>
    BY <1>7 DEF Kept, kept, x
  <2>2. Len(kept) = 2 /\ kept[1] = Byte(1) /\ kept[2] = x
    BY <2>1
  <2>3. EStep(g0, Byte(1), g1) /\ EStep(g1, x, g2) /\ g[p + Len(kept)] = g2
    BY <1>3, <1>4, <2>2
  <2>4. Sampled(c, v) /\ ValueAfter(c, v) = 0
    BY <1>7 DEF Sampled, ValueAfter
  <2>5. CASE v = 0
    <3>1. Marked(c, v)
      BY <1>7, <2>5 DEF Marked
    <3>2. g1.out = g0.out /\ Added(g1.index_pos, g0.index_pos, Len(g0.out)) /\ g1.value = 0
      BY <1>2, <2>3, <2>5 DEF EStep
    <3>3. Added(g2.out, g1.out, x) /\ g2.index_pos = g1.index_pos /\ g2.value = 0
      BY <1>2, <2>3, <3>2 DEF EStep
    <3>. QED BY <1>2, <2>3, <2>4, <2>5, <3>1, <3>2, <3>3 DEF CellRead, kept, x
  <2>6. CASE v = 1
    <3>1. ~Marked(c, v)
      BY <1>7, <2>6 DEF Marked
    <3>2. g1.out = g0.out /\ g1.index_pos = g0.index_pos /\ g1.value = 0
      BY <1>2, <2>3, <2>6 DEF EStep
    <3>3. Added(g2.out, g1.out, x) /\ g2.index_pos = g1.index_pos /\ g2.value = 0
      BY <1>2, <2>3, <3>2 DEF EStep
    <3>. QED BY <1>2, <2>3, <2>4, <2>6, <3>1, <3>2, <3>3 DEF CellRead, kept, x
  <2>. QED BY <2>5, <2>6
<1>8. CASE Kind(c) = "overrun"
  <2>1. kept = <<Byte(3)>>
    BY <1>8 DEF Kept, kept
  <2>2. Len(kept) = 1 /\ kept[1] = Byte(3)
    BY <2>1
  <2>3. EStep(g0, Byte(3), g1) /\ g[p + Len(kept)] = g1
    BY <1>3, <2>2
  <2>4. ~Sampled(c, v) /\ ~Marked(c, v) /\ ValueAfter(c, v) = 0
    BY <1>8 DEF Sampled, Marked, ValueAfter
  <2>5. g1.out = g0.out /\ g1.index_pos = g0.index_pos /\ g1.value = 0
    BY <1>2, <2>3 DEF EStep
  <2>. QED BY <1>2, <2>3, <2>4, <2>5 DEF CellRead, kept, x
<1>9. CASE Kind(c) = "long"
  <2>1. kept = <<Byte(2), Byte(1), x>>
    BY <1>9 DEF Kept, kept, x
  <2>2. Len(kept) = 3 /\ kept[1] = Byte(2) /\ kept[2] = Byte(1) /\ kept[3] = x
    BY <2>1
  <2>3. EStep(g0, Byte(2), g1) /\ EStep(g1, Byte(1), g2) /\ EStep(g2, x, g3) /\ g[p + Len(kept)] = g3
    BY <1>3, <1>4, <1>5, <2>2
  <2>4. ValueAfter(c, v) = 0
    BY <1>9 DEF ValueAfter
  <2>5. CASE v = 0
    <3>1. ~Marked(c, v) /\ ~Sampled(c, v)
      BY <1>9, <2>5 DEF Marked, Sampled
    <3>2. g1.out = g0.out /\ g1.index_pos = g0.index_pos /\ g1.value = 2
      BY <1>2, <2>3, <2>5 DEF EStep
    <3>3. g2.out = g1.out /\ g2.index_pos = g1.index_pos /\ g2.value = 1
      BY <2>3, <3>2 DEF EStep
    <3>4. g3.out = g2.out /\ g3.index_pos = g2.index_pos /\ g3.value = 0
      BY <2>3, <3>3 DEF EStep
    <3>. QED BY <1>2, <2>3, <2>4, <2>5, <3>1, <3>2, <3>3, <3>4 DEF CellRead, kept, x
  <2>6. CASE v = 1
    <3>1. Marked(c, v) /\ Sampled(c, v)
      BY <1>9, <2>6 DEF Marked, Sampled
    <3>2. g1.out = g0.out /\ g1.index_pos = g0.index_pos /\ g1.value = 0
      BY <1>2, <2>3, <2>6 DEF EStep
    <3>3. g2.out = g1.out /\ Added(g2.index_pos, g1.index_pos, Len(g1.out)) /\ g2.value = 0
      BY <1>2, <2>3, <3>2 DEF EStep
    <3>4. Added(g3.out, g2.out, x) /\ g3.index_pos = g2.index_pos /\ g3.value = 0
      BY <1>2, <2>3, <3>3 DEF EStep
    <3>. QED BY <1>2, <2>3, <2>4, <2>6, <3>1, <3>2, <3>3, <3>4 DEF CellRead, kept, x
  <2>. QED BY <2>5, <2>6
<1>10. CASE Kind(c) = "longlow"
  <2>1. kept = <<Byte(2), Byte(1)>>
    BY <1>10 DEF Kept, kept
  <2>2. Len(kept) = 2 /\ kept[1] = Byte(2) /\ kept[2] = Byte(1)
    BY <2>1
  <2>3. EStep(g0, Byte(2), g1) /\ EStep(g1, Byte(1), g2) /\ g[p + Len(kept)] = g2
    BY <1>3, <1>4, <2>2
  <2>4. ~Sampled(c, v)
    BY <1>10 DEF Sampled
  <2>5. CASE v = 0
    <3>1. ~Marked(c, v) /\ ValueAfter(c, v) = 1
      BY <1>10, <2>5 DEF Marked, ValueAfter
    <3>2. g1.out = g0.out /\ g1.index_pos = g0.index_pos /\ g1.value = 2
      BY <1>2, <2>3, <2>5 DEF EStep
    <3>3. g2.out = g1.out /\ g2.index_pos = g1.index_pos /\ g2.value = 1
      BY <2>3, <3>2 DEF EStep
    <3>. QED BY <1>2, <2>3, <2>4, <2>5, <3>1, <3>2, <3>3 DEF CellRead, kept, x
  <2>6. CASE v = 1
    <3>1. Marked(c, v) /\ ValueAfter(c, v) = 0
      BY <1>10, <2>6 DEF Marked, ValueAfter
    <3>2. g1.out = g0.out /\ g1.index_pos = g0.index_pos /\ g1.value = 0
      BY <1>2, <2>3, <2>6 DEF EStep
    <3>3. g2.out = g1.out /\ Added(g2.index_pos, g1.index_pos, Len(g1.out)) /\ g2.value = 0
      BY <1>2, <2>3, <3>2 DEF EStep
    <3>. QED BY <1>2, <2>3, <2>4, <2>6, <3>1, <3>2, <3>3 DEF CellRead, kept, x
  <2>. QED BY <2>5, <2>6
<1>. QED BY <1>6, <1>7, <1>8, <1>9, <1>10 DEF Kinds, Damage, Plain

(***************************************************************************)
(* The whole track through the filter: fo[j] samples are kept of the first *)
(* j cells, and sh[j] ticks wait behind them.                              *)
(***************************************************************************)
LEMMA FilterGrows ==
  ASSUME NEW bytes \in Seq(Smp), NEW f, FilterRun(f, bytes)
  PROVE  Growing([n \in 0 .. Len(bytes) |-> f[n].out], Len(bytes))
<1>. DEFINE L == Len(bytes)  o == [n \in 0 .. L |-> f[n].out]
<1>1. \A n \in 0 .. L : f[n] \in FState /\ o[n] = f[n].out /\ Len(o[n]) \in Nat
  BY DEF FilterRun, FState
<1>2. ASSUME NEW m \in 1 .. L
      PROVE  Len(o[m - 1]) <= Len(o[m]) /\ \A i \in 1 .. Len(o[m - 1]) : o[m][i] = o[m - 1][i]
  <2>. DEFINE n == m - 1
  <2>1. n \in Nat /\ m \in Nat /\ m = n + 1 /\ m <= Len(bytes) /\ n \in 0 .. L /\ m \in 0 .. L /\ bytes[m] \in Smp
    OBVIOUS
  <2>. HIDE DEF n, o
  <2>2. FStep(f[n], bytes[m], f[m])
    BY <2>1, FilterRunSteps
  <2>3. o[m] = o[n] \/ \E x : Added(o[m], o[n], x)
    <3>1. bytes[m].t \in Nat 
      BY <1>1, <2>1 DEF Smp, EState
    <3>2. f[m].out = f[n].out \/ \E x : Added(f[m].out, f[n].out, x)
      BY <2>2, <3>1 DEF FStep
    <3>. QED BY <1>1, <2>1, <3>2
  <2>4. Len(o[n]) \in Nat /\ Len(o[m]) \in Nat
    BY <1>1, <2>1
  <2>5. Len(o[n]) <= Len(o[m]) /\ \A i \in 1 .. Len(o[n]) : o[m][i] = o[n][i]
    BY <2>3, <2>4 DEF Added
  <2>. QED BY <2>5 DEF n
<1>. HIDE DEF o, L
<1>3. Growing(o, L)
  BY <1>1, <1>2 DEF Growing
<1>. QED BY <1>3 DEF o, L

LEMMA ExtractGrows ==
  ASSUME NEW bytes \in Seq(Smp), NEW f, ExtractRun(f, bytes)
  PROVE  Growing([n \in 0 .. Len(bytes) |-> f[n].out], Len(bytes))
<1>. DEFINE L == Len(bytes)  o == [n \in 0 .. L |-> f[n].out]
<1>1. \A n \in 0 .. L : f[n] \in EState /\ o[n] = f[n].out /\ Len(o[n]) \in Nat
  BY DEF ExtractRun, EState
<1>2. ASSUME NEW m \in 1 .. L
      PROVE  Len(o[m - 1]) <= Len(o[m]) /\ \A i \in 1 .. Len(o[m - 1]) : o[m][i] = o[m - 1][i]
  <2>. DEFINE n == m - 1
  <2>1. n \in Nat /\ m \in Nat /\ m = n + 1 /\ m <= Len(bytes) /\ n \in 0 .. L /\ m \in 0 .. L /\ bytes[m] \in Smp
    OBVIOUS
  <2>. HIDE DEF n, o
  <2>2. EStep(f[n], bytes[m], f[m])
    BY <2>1, ExtractRunSteps
  <2>3. o[m] = o[n] \/ \E x : Added(o[m], o[n], x)
    <3>1. bytes[m].t \in Nat /\ f[n].value \in Nat
      BY <1>1, <2>1 DEF Smp, EState
    <3>2. f[m].out = f[n].out \/ \E x : Added(f[m].out, f[n].out, x)
      BY <2>2, <3>1 DEF EStep
    <3>. QED BY <1>1, <2>1, <3>2
  <2>4. Len(o[n]) \in Nat /\ Len(o[m]) \in Nat
    BY <1>1, <2>1
  <2>5. Len(o[n]) <= Len(o[m]) /\ \A i \in 1 .. Len(o[n]) : o[m][i] = o[n][i]
    BY <2>3, <2>4 DEF Added
  <2>. QED BY <2>5 DEF n
<1>. HIDE DEF o, L
<1>3. Growing(o, L)
  BY <1>1, <1>2 DEF Growing
<1>. QED BY <1>3 DEF o, L

LEMMA MarksGrow ==
  ASSUME NEW bytes \in Seq(Smp), NEW f, ExtractRun(f, bytes)
  PROVE  Growing([n \in 0 .. Len(bytes) |-> f[n].index_pos], Len(bytes))
<1>. DEFINE L == Len(bytes)  o == [n \in 0 .. L |-> f[n].index_pos]
<1>1. \A n \in 0 .. L : f[n] \in EState /\ o[n] = f[n].index_pos /\ Len(o[n]) \in Nat
  BY DEF ExtractRun, EState
<1>2. ASSUME NEW m \in 1 .. L
      PROVE  Len(o[m - 1]) <= Len(o[m]) /\ \A i \in 1 .. Len(o[m - 1]) : o[m][i] = o[m - 1][i]
  <2>. DEFINE n == m - 1
  <2>1. n \in Nat /\ m \in Nat /\ m = n + 1 /\ m <= Len(bytes) /\ n \in 0 .. L /\ m \in 0 .. L /\ bytes[m] \in Smp
    OBVIOUS
  <2>. HIDE DEF n, o
  <2>2. EStep(f[n], bytes[m], f[m])
    BY <2>1, ExtractRunSteps
  <2>3. o[m] = o[n] \/ \E x : Added(o[m], o[n], x)
    <3>1. bytes[m].t \in Nat /\ f[n].value \in Nat
      BY <1>1, <2>1 DEF Smp, EState
    <3>2. f[m].index_pos = f[n].index_pos \/ \E x : Added(f[m].index_pos, f[n].index_pos, x)
      BY <2>2, <3>1 DEF EStep
    <3>. QED BY <1>1, <2>1, <3>2
  <2>4. Len(o[n]) \in Nat /\ Len(o[m]) \in Nat
    BY <1>1, <2>1
  <2>5. Len(o[n]) <= Len(o[m]) /\ \A i \in 1 .. Len(o[n]) : o[m][i] = o[n][i]
    BY <2>3, <2>4 DEF Added
  <2>. QED BY <2>5 DEF n
<1>. HIDE DEF o, L
<1>3. Growing(o, L)
  BY <1>1, <1>2 DEF Growing
<1>. QED BY <1>3 DEF o, L

Known == track \in Tracks /\ \A c \in CellId : Kind(c) \in Kinds
TheCells == Cells(track)
Count    == Len(TheCells)

IsFiltered(kept, sh, fo) ==
  /\ kept \in Seq(Smp) /\ sh \in [0 .. Count -> Nat] /\ fo \in [0 .. Count -> Nat]
  /\ sh[0] = 0 /\ fo[0] = 0 /\ fo[Count] = Len(kept)
  /\ \A j \in 1 .. Count :
       /\ sh[j] = ShortAfter(TheCells[j], sh[j - 1])
       /\ fo[j] = fo[j - 1] + Len(Kept(TheCells[j], sh[j - 1]))
       /\ \A i \in 1 .. Len(Kept(TheCells[j], sh[j - 1])) :
            kept[fo[j - 1] + i] = Kept(TheCells[j], sh[j - 1])[i]

LEMMA CountTyped ==
  ASSUME Known
  PROVE  TheCells \in Seq(CellId) /\ Count \in Nat /\ \A j \in 1 .. Count : TheCells[j] \in CellId
<1>1. TheCells \in Seq(CellId)
  BY CellsPlaced DEF Known, TheCells
<1>. QED BY <1>1 DEF Count

LEMMA CodeTyped ==
  ASSUME NEW c \in CellId, Kind(c) \in Kinds
  PROVE  Code(c) \in Seq(Smp)
<1>1. \A n \in Nat : Sample(n, c) \in Smp /\ Sample(n, Nothing) \in Smp /\ Byte(n) \in Smp
  BY DEF Sample, Byte, Smp, Nothing, CellId, CellName
<1>2. \A x, y, z \in Smp : <<x>> \in Seq(Smp) /\ <<x, y>> \in Seq(Smp) /\ <<x, y, z>> \in Seq(Smp)
  OBVIOUS
<1>. QED BY <1>1, <1>2 DEF Code, Kind, Kinds, Damage, marker_index, marker_overflow, marker_overrun,
          marker_timer_overflow

LEMMA TrackFiltered ==
  ASSUME Known
  PROVE  TrackFile \in Seq(Smp) /\ \E sh, fo : IsFiltered(Filtered(TrackFile).out, sh, fo)
<1>. DEFINE F == TrackFile
            codes == [j \in DOMAIN TheCells |-> Code(TheCells[j])]
<1>1. /\ codes \in Seq(Seq(Smp)) /\ Len(codes) = Count /\ Count \in Nat
      /\ \A j \in 1 .. Count : codes[j] = Code(TheCells[j]) /\ TheCells[j] \in CellId
                              /\ Kind(TheCells[j]) \in Kinds
  <2>1. DOMAIN TheCells = 1 .. Count /\ Count \in Nat
    BY CountTyped DEF Count
  <2>2. \A j \in 1 .. Count : TheCells[j] \in CellId /\ Kind(TheCells[j]) \in Kinds
                            /\ Code(TheCells[j]) \in Seq(Smp)
    BY CountTyped, CodeTyped DEF Known
  <2>. HIDE DEF Count
  <2>. QED BY <2>1, <2>2
<1>2. F = FlattenSeq(codes)
  BY DEF TrackFile, TheCells
<1>. HIDE DEF codes, F
<1>3. F \in Seq(Smp) /\ \E ca : Flat(F, codes, ca)
  BY <1>1, <1>2, Flattened
<1>4. PICK ca : Flat(F, codes, ca)
  BY <1>3
<1>5. PICK f : FilterRun(f, F) /\ Filtered(F) = f[Len(F)]
  BY <1>3, FilterRuns
<1>. DEFINE kept == Filtered(F).out
            o  == [n \in 0 .. Len(F) |-> f[n].out]
            sh == [j \in 0 .. Count |-> f[ca[j]].short_time]
            fo == [j \in 0 .. Count |-> Len(f[ca[j]].out)]
<1>6. Len(F) \in Nat /\ \A n \in 0 .. Len(F) : f[n] \in FState /\ o[n] = f[n].out
  <2>1. Len(F) \in Nat /\ f \in [0 .. Len(F) -> FState]
    BY <1>3, <1>5 DEF FilterRun
  <2>. QED BY <2>1
<1>7. Growing(o, Len(F))
  BY <1>3, <1>5, FilterGrows
<1>8. /\ Rising(ca, Count) /\ ca[0] = 0 /\ ca[Count] = Len(F)
      /\ \A j \in 0 .. Count : ca[j] \in 0 .. Len(F)
  <2>1. Rising(ca, Count) /\ ca[0] = 0 /\ ca[Count] = Len(F)
    BY <1>1, <1>4, FlatRising DEF Flat
  <2>2. ASSUME NEW j \in 0 .. Count PROVE ca[j] \in 0 .. Len(F)
    <3>1. ca[j] \in Nat /\ Count \in 0 .. Count /\ j <= Count
      BY <1>1, <2>1 DEF Rising
    <3>2. ca[j] <= ca[Count]
      BY <1>1, <2>1, <3>1, RisingOrder
    <3>. QED BY <1>6, <2>1, <3>1, <3>2
  <2>. QED BY <2>1, <2>2
<1>. HIDE DEF o
<1>9. /\ sh \in [0 .. Count -> Nat] /\ fo \in [0 .. Count -> Nat] /\ sh[0] = 0 /\ fo[0] = 0
      /\ fo[Count] = Len(kept) /\ kept \in Seq(Smp)
  <2>1. \A j \in 0 .. Count : f[ca[j]].short_time \in Nat /\ Len(f[ca[j]].out) \in Nat
    BY <1>6, <1>8 DEF FState
  <2>2. f[ca[0]] = [out |-> <<>>, short_time |-> 0] /\ 0 \in 0 .. Count /\ Count \in 0 .. Count
    BY <1>1, <1>5, <1>8 DEF FilterRun
  <2>3. kept = f[ca[Count]].out /\ kept \in Seq(Smp)
    BY <1>5, <1>6, <1>8, <2>2 DEF FState
  <2>. HIDE DEF kept
  <2>. QED BY <2>1, <2>2, <2>3
<1>10. ASSUME NEW j \in 1 .. Count
       PROVE  LET c == TheCells[j]
                  k == Kept(c, sh[j - 1])
              IN  /\ sh[j] = ShortAfter(c, sh[j - 1]) /\ fo[j] = fo[j - 1] + Len(k)
                  /\ \A i \in 1 .. Len(k) : kept[fo[j - 1] + i] = k[i]
  <2>. DEFINE c == TheCells[j]  s == sh[j - 1]  k == Kept(c, s)  p == ca[j - 1]  q == ca[j]
  <2>1. j - 1 \in 0 .. Count /\ j \in 0 .. Count
    BY <1>1
  <2>2. /\ c \in CellId /\ Kind(c) \in Kinds /\ p \in 0 .. Len(F) /\ q \in 0 .. Len(F)
        /\ s = f[p].short_time /\ sh[j] = f[q].short_time
        /\ fo[j - 1] = Len(f[p].out) /\ fo[j] = Len(f[q].out)
    BY <1>1, <1>8, <2>1
  <2>3. q = p + Len(Code(c)) /\ \A i \in 1 .. Len(Code(c)) : F[p + i] = Code(c)[i]
    <3>1. codes[j] = Code(c) /\ j \in 1 .. Len(codes)
      BY <1>1
    <3>. HIDE DEF c
    <3>. QED BY <1>4, <3>1 DEF Flat
  <2>4. p \in Nat /\ q <= Len(F) /\ q \in Nat
    BY <1>6, <2>2
  <2>. HIDE DEF c, p, q
  <2>5. /\ s \in Nat /\ f[p] \in FState
        /\ Joins(f[q].out, f[p].out, k) /\ f[q].short_time = ShortAfter(c, s)
    <3>1. p + Len(Code(c)) <= Len(F)
      BY <2>3, <2>4
    <3>. DEFINE z == f[p].short_time  w == p + Len(Code(c))
    <3>2. /\ z \in Nat /\ f[p] \in FState
          /\ Joins(f[w].out, f[p].out, Kept(c, z)) /\ f[w].short_time = ShortAfter(c, z)
      BY <1>3, <1>5, <2>2, <2>3, <2>4, <3>1, FilterCell, Zenon
    <3>3. s = z /\ q = w
      BY <2>2, <2>3
    <3>. HIDE DEF s, z, w
    <3>. QED BY <3>2, <3>3, Zenon DEF k
  <2>. HIDE DEF sh, fo, s, kept, k
  <2>6. fo[j] = fo[j - 1] + Len(k) /\ \A i \in 1 .. Len(k) : f[q].out[fo[j - 1] + i] = k[i]
    BY <2>2, <2>5 DEF Joins
  <2>7. fo[j] \in Nat /\ fo[j - 1] \in Nat /\ Len(k) \in Nat
    <3>1. k \in Seq(Smp)
      BY <2>2, <2>5, SamplesTyped DEF k
    <3>. QED BY <1>9, <2>1, <3>1
  <2>8. \A i \in 1 .. fo[j] : kept[i] = f[q].out[i]
    <3>1. Len(F) \in 0 .. Len(F) /\ q <= Len(F)
      BY <1>6, <2>2
    <3>2. \A i \in 1 .. Len(o[q]) : o[Len(F)][i] = o[q][i]
      BY <1>6, <1>7, <2>2, <3>1, GrownFrom
    <3>3. o[q] = f[q].out /\ o[Len(F)] = kept
      BY <1>5, <1>6, <2>2, <3>1 DEF kept
    <3>. QED BY <2>2, <3>2, <3>3
  <2>9. ASSUME NEW i \in 1 .. Len(k) PROVE kept[fo[j - 1] + i] = k[i]
    <3>1. fo[j - 1] + i \in 1 .. fo[j]
      BY <2>6, <2>7
    <3>. QED BY <2>6, <2>8, <3>1
  <2>. QED BY <2>2, <2>5, <2>6, <2>9 DEF c, k, s
<1>. HIDE DEF sh, fo, kept
<1>11. IsFiltered(kept, sh, fo)
  BY <1>9, <1>10 DEF IsFiltered
<1>. QED BY <1>3, <1>11 DEF kept, F

(***************************************************************************)
(* The whole track through both: of the first j cells, op[j] are sampled   *)
(* and ix[j] marks are found, and va[j] bytes of a value are to come.      *)
(***************************************************************************)
ReadAt(samples, marks, sh, va, op, ix, j) ==
  LET c == TheCells[j]
      v == va[j - 1]
  IN  /\ va[j] = ValueAfter(c, v) /\ sh[j] = ShortAfter(c, sh[j - 1])
      /\ Sampled(c, v) => op[j] = op[j - 1] + 1 /\ samples[op[j]] = TheSample(c, sh[j - 1])
      /\ ~Sampled(c, v) => op[j] = op[j - 1]
      /\ Marked(c, v) => ix[j] = ix[j - 1] + 1 /\ marks[ix[j]] = op[j - 1]
      /\ ~Marked(c, v) => ix[j] = ix[j - 1]

IsRead(samples, marks, sh, va, op, ix) ==
  /\ samples \in Seq(Smp) /\ marks \in Seq(Nat)
  /\ sh \in [0 .. Count -> Nat] /\ va \in [0 .. Count -> {0, 1}]
  /\ op \in [0 .. Count -> Nat] /\ ix \in [0 .. Count -> Nat]
  /\ sh[0] = 0 /\ va[0] = 0 /\ op[0] = 0 /\ ix[0] = 0
  /\ op[Count] = Len(samples) /\ ix[Count] = Len(marks)
  /\ \A j \in 1 .. Count : ReadAt(samples, marks, sh, va, op, ix, j)

LEMMA KeptRead ==
  ASSUME Known, NEW kept, NEW sh, NEW fo, IsFiltered(kept, sh, fo)
  PROVE  \E va, op, ix :
           /\ IsRead(Extracted(kept).out, Extracted(kept).index_pos, sh, va, op, ix)
           /\ va[Count] = Extracted(kept).value
<1>. DEFINE L == Len(kept)  K(j) == Kept(TheCells[j], sh[j - 1])
<1>1. /\ kept \in Seq(Smp) /\ L \in Nat /\ Count \in Nat
      /\ sh \in [0 .. Count -> Nat] /\ fo \in [0 .. Count -> Nat]
      /\ sh[0] = 0 /\ fo[0] = 0 /\ fo[Count] = L
  BY CountTyped DEF IsFiltered
<1>2. ASSUME NEW j \in 1 .. Count
      PROVE  /\ sh[j] = ShortAfter(TheCells[j], sh[j - 1]) /\ fo[j] = fo[j - 1] + Len(K(j))
             /\ \A i \in 1 .. Len(K(j)) : kept[fo[j - 1] + i] = K(j)[i]
             /\ TheCells[j] \in CellId /\ Kind(TheCells[j]) \in Kinds
             /\ j - 1 \in 0 .. Count /\ j \in 0 .. Count /\ sh[j - 1] \in Nat
             /\ fo[j - 1] \in Nat /\ fo[j] \in Nat /\ Len(K(j)) \in Nat
  <2>1. TheCells[j] \in CellId /\ Kind(TheCells[j]) \in Kinds
    BY CountTyped DEF Known
  <2>2. j - 1 \in 0 .. Count /\ j \in 0 .. Count
    BY <1>1
  <2>3. sh[j - 1] \in Nat /\ fo[j - 1] \in Nat /\ fo[j] \in Nat
    BY <1>1, <2>2
  <2>4. K(j) \in Seq(Smp)
    BY <2>1, <2>3, SamplesTyped
  <2>5. Len(K(j)) \in Nat
    <3>. HIDE DEF K
    <3>. QED BY <2>4
  <2>6. /\ sh[j] = ShortAfter(TheCells[j], sh[j - 1]) /\ fo[j] = fo[j - 1] + Len(K(j))
        /\ \A i \in 1 .. Len(K(j)) : kept[fo[j - 1] + i] = K(j)[i]
    BY DEF IsFiltered
  <2>. HIDE DEF K
  <2>. QED BY <2>1, <2>2, <2>3, <2>5, <2>6
<1>3. PICK g : ExtractRun(g, kept) /\ Extracted(kept) = g[L]
  BY <1>1, ExtractRuns
<1>. HIDE DEF L, K
<1>4. /\ g \in [0 .. L -> EState] /\ g[0] = [out |-> <<>>, index_pos |-> <<>>, value |-> 0]
  BY <1>3 DEF ExtractRun, L
<1>5. \A j \in 0 .. Count : fo[j] \in 0 .. L
  <2>1. Rising(fo, Count)
    <3>1. \A j \in 1 .. Count : fo[j - 1] <= fo[j]
      BY <1>2
    <3>. QED BY <1>1, <3>1 DEF Rising
  <2>2. ASSUME NEW j \in 0 .. Count PROVE fo[j] \in 0 .. L
    <3>1. fo[j] \in Nat /\ Count \in 0 .. Count /\ j <= Count
      BY <1>1
    <3>2. fo[j] <= fo[Count]
      BY <1>1, <2>1, <3>1, RisingOrder
    <3>. QED BY <1>1, <3>1, <3>2
  <2>. QED BY <2>2
<1>6. ASSUME NEW j \in 1 .. Count, g[fo[j - 1]].value \in {0, 1}
      PROVE  CellRead(g[fo[j - 1]], TheCells[j], sh[j - 1], g[fo[j]])
  <2>. DEFINE c == TheCells[j]  s == sh[j - 1]  p == fo[j - 1]  w == p + Len(Kept(c, s))
  <2>1. /\ c \in CellId /\ Kind(c) \in Kinds /\ s \in Nat /\ p \in Nat /\ fo[j] = w /\ fo[j] \in 0 .. L
        /\ \A i \in 1 .. Len(Kept(c, s)) : kept[p + i] = Kept(c, s)[i]
    BY <1>2, <1>5 DEF K
  <2>2. w <= Len(kept) /\ g[p].value \in {0, 1}
    BY <1>1, <1>6, <2>1 DEF L
  <2>. HIDE DEF c, s, p
  <2>3. CellRead(g[p], c, s, g[w])
    BY <1>1, <1>3, <2>1, <2>2, ExtractCell, Zenon
  <2>. HIDE DEF w
  <2>4. CellRead(g[p], c, s, g[fo[j]])
    BY <2>1, <2>3, Zenon
  <2>. QED BY <2>4 DEF c, s, p
<1>. DEFINE S == {j \in 0 .. Count : g[fo[j]].value \in {0, 1}}
<1>7. 0 \in S
  BY <1>1, <1>4
<1>8. ASSUME NEW j \in 1 .. Count, j - 1 \in S PROVE j \in S
  <2>1. CellRead(g[fo[j - 1]], TheCells[j], sh[j - 1], g[fo[j]])
    BY <1>6, <1>8
  <2>. QED BY <1>2, <2>1 DEF CellRead, ValueAfter
<1>. HIDE DEF S
<1>9. \A j \in 0 .. Count : g[fo[j]].value \in {0, 1}
  <2>1. \A j \in 0 .. Count : j \in S
    BY <1>1, <1>7, <1>8, UpTo
  <2>. QED BY <2>1 DEF S
<1>. DEFINE o  == [n \in 0 .. Len(kept) |-> g[n].out]
            ip == [n \in 0 .. Len(kept) |-> g[n].index_pos]
            va == [j \in 0 .. Count |-> g[fo[j]].value]
            op == [j \in 0 .. Count |-> Len(g[fo[j]].out)]
            ix == [j \in 0 .. Count |-> Len(g[fo[j]].index_pos)]
            samples == Extracted(kept).out
            marks   == Extracted(kept).index_pos
<1>10. /\ Growing(o, L) /\ Growing(ip, L)
       /\ \A n \in 0 .. L : o[n] = g[n].out /\ ip[n] = g[n].index_pos
  BY <1>1, <1>3, ExtractGrows, MarksGrow DEF L
<1>. HIDE DEF o, ip
<1>11. /\ \A j \in 0 .. Count : g[fo[j]] \in EState
       /\ L \in 0 .. L /\ samples = g[L].out /\ marks = g[L].index_pos
       /\ samples \in Seq(Smp) /\ marks \in Seq(Nat)
  <2>1. L \in 0 .. L /\ g[L] \in EState
    BY <1>1, <1>4
  <2>. QED BY <1>3, <1>4, <1>5, <2>1 DEF EState
<1>12. /\ va \in [0 .. Count -> {0, 1}] /\ op \in [0 .. Count -> Nat] /\ ix \in [0 .. Count -> Nat]
       /\ va[0] = 0 /\ op[0] = 0 /\ ix[0] = 0
       /\ op[Count] = Len(samples) /\ ix[Count] = Len(marks)
  <2>1. \A j \in 0 .. Count : Len(g[fo[j]].out) \in Nat /\ Len(g[fo[j]].index_pos) \in Nat
    <3>. SUFFICES ASSUME NEW j \in 0 .. Count
                  PROVE  Len(g[fo[j]].out) \in Nat /\ Len(g[fo[j]].index_pos) \in Nat
      OBVIOUS
    <3>1. g[fo[j]] \in EState
      BY <1>11
    <3>2. g[fo[j]].out \in Seq(Smp) /\ g[fo[j]].index_pos \in Seq(Nat)
      BY <3>1 DEF EState
    <3>. QED BY <3>2
  <2>2. 0 \in 0 .. Count /\ Count \in 0 .. Count /\ fo[0] = 0 /\ fo[Count] = L
    BY <1>1
  <2>3. /\ va \in [0 .. Count -> {0, 1}] /\ op \in [0 .. Count -> Nat] /\ ix \in [0 .. Count -> Nat]
    BY <1>9, <2>1
  <2>4. op[Count] = Len(samples) /\ ix[Count] = Len(marks)
    <3>. HIDE DEF samples, marks
    <3>. QED BY <1>11, <2>2
  <2>5. va[0] = 0 /\ op[0] = 0 /\ ix[0] = 0
    <3>1. va[0] = g[0].value /\ op[0] = Len(g[0].out) /\ ix[0] = Len(g[0].index_pos)
      BY <2>2
    <3>2. g[0].value = 0 /\ g[0].out = <<>> /\ g[0].index_pos = <<>>
      BY <1>4
    <3>. HIDE DEF va, op, ix
    <3>. QED BY <3>1, <3>2
  <2>. QED BY <2>3, <2>4, <2>5
<1>13. ASSUME NEW j \in 1 .. Count PROVE ReadAt(samples, marks, sh, va, op, ix, j)
  <2>. DEFINE c == TheCells[j]  v == va[j - 1]  x == TheSample(c, sh[j - 1])
              a == g[fo[j - 1]]  b == g[fo[j]]
  <2>1. j - 1 \in 0 .. Count /\ j \in 0 .. Count
    BY <1>2
  <2>2. /\ v = a.value /\ va[j] = b.value /\ op[j - 1] = Len(a.out) /\ op[j] = Len(b.out)
        /\ ix[j - 1] = Len(a.index_pos) /\ ix[j] = Len(b.index_pos)
        /\ op[j] \in Nat /\ ix[j] \in Nat /\ op[j - 1] \in Nat /\ ix[j - 1] \in Nat
    BY <1>12, <2>1
  <2>3. CellRead(a, c, sh[j - 1], b)
    BY <1>6, <1>9, <2>1
  <2>4. /\ \A i \in 1 .. op[j] : samples[i] = b.out[i]
        /\ \A i \in 1 .. ix[j] : marks[i] = b.index_pos[i]
    <3>1. fo[j] \in 0 .. L /\ fo[j] <= L
      BY <1>1, <1>5, <2>1
    <3>. DEFINE y == fo[j]
    <3>2. /\ \A i \in 1 .. Len(o[y]) : o[L][i] = o[y][i]
          /\ \A i \in 1 .. Len(ip[y]) : ip[L][i] = ip[y][i]
      <4>a. y \in 0 .. L /\ y <= L
        BY <3>1
      <4>. HIDE DEF y
      <4>1. Growing(o, L) /\ Growing(ip, L) /\ L \in Nat /\ L \in 0 .. L
        BY <1>1, <1>10, <1>11
      <4>2. \A i \in 1 .. Len(o[y]) : o[L][i] = o[y][i]
        BY ONLY <4>a, <4>1, GrownFrom
      <4>3. \A i \in 1 .. Len(ip[y]) : ip[L][i] = ip[y][i]
        BY ONLY <4>a, <4>1, GrownFrom
      <4>. QED BY <4>2, <4>3
    <3>. HIDE DEF samples, marks
    <3>. QED BY <1>10, <1>11, <2>2, <3>1, <3>2
  <2>5. va[j] = ValueAfter(c, v) /\ sh[j] = ShortAfter(c, sh[j - 1])
    BY <1>2, <2>2, <2>3 DEF CellRead
  <2>. HIDE DEF a, b, va, op, ix, samples, marks, c, x, v
  <2>6. Sampled(c, v) => op[j] = op[j - 1] + 1 /\ samples[op[j]] = x
    <3>. SUFFICES ASSUME Sampled(c, v) PROVE op[j] = op[j - 1] + 1 /\ samples[op[j]] = x
      OBVIOUS
    <3>1. Added(b.out, a.out, x)
      BY <2>2, <2>3 DEF CellRead, x
    <3>2. op[j] = op[j - 1] + 1 /\ b.out[op[j]] = x
      BY <2>2, <3>1 DEF Added
    <3>3. op[j] \in 1 .. op[j]
      BY <2>2, <3>2
    <3>. QED BY <2>4, <3>2, <3>3
  <2>7. ~Sampled(c, v) => op[j] = op[j - 1]
    BY <2>2, <2>3 DEF CellRead
  <2>8. Marked(c, v) => ix[j] = ix[j - 1] + 1 /\ marks[ix[j]] = op[j - 1]
    <3>. SUFFICES ASSUME Marked(c, v) PROVE ix[j] = ix[j - 1] + 1 /\ marks[ix[j]] = op[j - 1]
      OBVIOUS
    <3>1. Added(b.index_pos, a.index_pos, op[j - 1])
      BY <2>2, <2>3 DEF CellRead
    <3>2. ix[j] = ix[j - 1] + 1 /\ b.index_pos[ix[j]] = op[j - 1]
      BY <2>2, <3>1 DEF Added
    <3>3. ix[j] \in 1 .. ix[j]
      BY <2>2, <3>2
    <3>. QED BY <2>4, <3>2, <3>3
  <2>9. ~Marked(c, v) => ix[j] = ix[j - 1]
    BY <2>2, <2>3 DEF CellRead
  <2>. QED BY <2>5, <2>6, <2>7, <2>8, <2>9, Zenon DEF ReadAt, c, v, x
<1>15. va[Count] = Extracted(kept).value
  <2>1. Count \in 0 .. Count /\ fo[Count] = L
    BY <1>1
  <2>2. va[Count] = g[L].value
    BY <2>1
  <2>. QED BY <1>3, <2>2
<1>. HIDE DEF va, op, ix, samples, marks
<1>14. IsRead(samples, marks, sh, va, op, ix)
  BY <1>1, <1>11, <1>12, <1>13 DEF IsRead
<1>. QED BY <1>14, <1>15 DEF samples, marks

(***************************************************************************)
(* The cells in front of a cell, and what they do to it.                   *)
(***************************************************************************)
KindAt(j) == Kind(TheCells[j])
Spikes(n) == {p \in 1 .. n : KindAt(p) = "longlow" /\ \A q \in p .. n : KindAt(q) \in {"overrun", "longlow"}}

LEMMA CellsDistinct ==
  ASSUME Known, NEW p \in 1 .. Count, NEW q \in 1 .. Count, TheCells[p] = TheCells[q]
  PROVE  p = q
<1>1. PICK pa : Placed(track, pa)
  BY CellsPlaced DEF Known
<1>. QED BY <1>1, PlacedDistinct DEF Known, TheCells, Count

LEMMA BeforeForm ==
  ASSUME Known, NEW j \in 1 .. Count
  PROVE  LET b == Before(TheCells[j])
         IN  /\ b \in Seq(CellId) /\ Len(b) = j - 1 /\ DOMAIN b = 1 .. j - 1
             /\ \A i \in 1 .. j - 1 : b[i] = TheCells[i]
<1>. DEFINE all == TheCells
            at  == CHOOSE p \in DOMAIN all : all[p] = TheCells[j]
            b   == SubSeq(all, 1, at - 1)
<1>1. all \in Seq(CellId) /\ Count \in Nat /\ DOMAIN all = 1 .. Count /\ Len(all) = Count
  BY CountTyped DEF Count
<1>2. at = j
  <2>1. j \in DOMAIN all /\ all[j] = TheCells[j]
    BY <1>1
  <2>2. at \in DOMAIN all /\ all[at] = TheCells[j]
    BY <2>1
  <2>. HIDE DEF at
  <2>. QED BY <1>1, <2>2, CellsDistinct
<1>3. Before(TheCells[j]) = b
  BY DEF Before, TheCells
<1>4. b = SubSeq(all, 1, j - 1)
  <2>. HIDE DEF at, all
  <2>. QED BY <1>2
<1>. HIDE DEF all, b
<1>5. b \in Seq(CellId) /\ Len(b) = j - 1 /\ \A i \in 1 .. j - 1 : b[i] = all[i]
  <2>1. j - 1 \in Nat /\ j - 1 <= Len(all)
    BY <1>1
  <2>2. CASE j = 1
    <3>1. b = <<>>
      BY <1>1, <1>4, <2>2
    <3>. QED BY <2>2, <3>1
  <2>3. CASE j # 1
    <3>1. 1 \in 1 .. Len(all) /\ j - 1 \in 1 .. Len(all)
      BY <1>1, <2>3
    <3>2. /\ Len(SubSeq(all, 1, j - 1)) = j - 1
          /\ \A i \in 1 .. j - 1 : SubSeq(all, 1, j - 1)[i] = all[i]
          /\ SubSeq(all, 1, j - 1) \in Seq(CellId)
      BY <1>1, <3>1
    <3>. QED BY <1>4, <3>2
  <2>. QED BY <2>2, <2>3
<1>6. DOMAIN b = 1 .. j - 1
  BY <1>5
<1>. QED BY <1>3, <1>5, <1>6 DEF all

LEMMA SwallowedForm ==
  ASSUME Known, NEW j \in 1 .. Count
  PROVE  Swallowed(TheCells[j]) <=> j > 1 /\ KindAt(j - 1) = "longlow"
<1>. DEFINE b == Before(TheCells[j])
<1>1. b \in Seq(CellId) /\ Len(b) = j - 1 /\ \A i \in 1 .. j - 1 : b[i] = TheCells[i]
  BY BeforeForm
<1>2. Swallowed(TheCells[j]) <=> b # <<>> /\ Kind(b[Len(b)]) = "longlow"
  BY DEF Swallowed
<1>. HIDE DEF b
<1>3. CASE j = 1
  <2>1. b = <<>>
    BY <1>1, <1>3
  <2>. QED BY <1>2, <1>3, <2>1
<1>4. CASE j # 1
  <2>1. j > 1 /\ j - 1 \in 1 .. j - 1 /\ Len(b) # 0
    BY <1>1, <1>4
  <2>2. b # <<>>
    BY <2>1
  <2>. QED BY <1>1, <1>2, <2>1, <2>2 DEF KindAt
<1>. QED BY <1>3, <1>4

LEMMA SpikesForm ==
  ASSUME Known, NEW j \in 1 .. Count
  PROVE  SpikesBefore(TheCells[j]) = Spikes(j - 1)
<1>. DEFINE b == Before(TheCells[j])
<1>1. /\ Len(b) = j - 1 /\ DOMAIN b = 1 .. j - 1 /\ \A i \in 1 .. j - 1 : b[i] = TheCells[i]
  BY BeforeForm
<1>2. SpikesBefore(TheCells[j]) =
        {p \in DOMAIN b : Kind(b[p]) = "longlow" /\ \A q \in p .. Len(b) : Kind(b[q]) \in {"overrun", "longlow"}}
  BY DEF SpikesBefore
<1>. HIDE DEF b
<1>3. \A p \in 1 .. j - 1 : \A q \in p .. j - 1 : q \in 1 .. j - 1
  OBVIOUS
<1>4. \A p \in 1 .. j - 1 : Kind(b[p]) = KindAt(p)
  BY <1>1 DEF KindAt
<1>. QED BY <1>1, <1>2, <1>3, <1>4 DEF Spikes

(* What a cell makes of the spikes that wait in front of it. *)
LEMMA SpikesNext ==
  ASSUME NEW n \in Nat, n > 0
  PROVE  /\ KindAt(n) = "overrun" => Spikes(n) = Spikes(n - 1)
         /\ KindAt(n) = "longlow" => Spikes(n) = Spikes(n - 1) \cup {n}
         /\ KindAt(n) \notin {"overrun", "longlow"} => Spikes(n) = {}
         /\ n \notin Spikes(n - 1)
<1>1. \A p \in 1 .. n : \A q \in p .. n : q = n \/ q \in p .. n - 1
  OBVIOUS
<1>2. n \notin Spikes(n - 1)
  BY DEF Spikes
<1>3. ASSUME KindAt(n) \in {"overrun", "longlow"}, NEW p \in Spikes(n - 1) PROVE p \in Spikes(n)
  <2>1. /\ p \in 1 .. n - 1 /\ p \in 1 .. n /\ KindAt(p) = "longlow"
        /\ \A q \in p .. n - 1 : KindAt(q) \in {"overrun", "longlow"}
    BY DEF Spikes
  <2>. QED BY <1>1, <1>3, <2>1 DEF Spikes
<1>4. ASSUME NEW p \in Spikes(n), p # n PROVE p \in Spikes(n - 1)
  <2>1. p \in 1 .. n /\ KindAt(p) = "longlow" /\ \A q \in p .. n : KindAt(q) \in {"overrun", "longlow"}
    BY DEF Spikes
  <2>2. p \in 1 .. n - 1 /\ \A q \in p .. n - 1 : q \in p .. n
    BY <1>4, <2>1
  <2>. QED BY <2>1, <2>2 DEF Spikes
<1>5. n \in Spikes(n) <=> KindAt(n) = "longlow"
  <2>1. n \in 1 .. n /\ \A q \in n .. n : q = n
    OBVIOUS
  <2>. QED BY <2>1 DEF Spikes
<1>6. KindAt(n) \notin {"overrun", "longlow"} => Spikes(n) = {}
  <2>1. ASSUME NEW p \in Spikes(n) PROVE KindAt(n) \in {"overrun", "longlow"}
    <3>1. p \in 1 .. n /\ n \in p .. n
      BY DEF Spikes
    <3>. QED BY <3>1 DEF Spikes
  <2>. QED BY <2>1
<1>7. KindAt(n) = "overrun" => Spikes(n) = Spikes(n - 1)
  <2>. SUFFICES ASSUME KindAt(n) = "overrun" PROVE Spikes(n) = Spikes(n - 1)
    OBVIOUS
  <2>1. n \notin Spikes(n)
    BY <1>5
  <2>. QED BY <1>3, <1>4, <2>1
<1>8. KindAt(n) = "longlow" => Spikes(n) = Spikes(n - 1) \cup {n}
  BY <1>3, <1>4, <1>5
<1>. QED BY <1>2, <1>6, <1>7, <1>8

LEMMA ShortsBounded ==
  ASSUME Known, NEW samples, NEW marks, NEW sh, NEW va, NEW op, NEW ix,
         IsRead(samples, marks, sh, va, op, ix), NEW j \in 0 .. Count
  PROVE  (Spikes(j) = {} => sh[j] = 0) /\ ((\A p, q \in Spikes(j) : p = q) => sh[j] <= 20)
<1>. DEFINE S == {n \in 0 .. Count : /\ Spikes(n) = {} => sh[n] = 0
                                     /\ (\A p, q \in Spikes(n) : p = q) => sh[n] <= 20}
<1>0. Count \in Nat /\ sh[0] = 0 /\ sh \in [0 .. Count -> Nat]
  BY CountTyped DEF IsRead
<1>1. 0 \in S
  BY <1>0
<1>2. ASSUME NEW n \in 1 .. Count, n - 1 \in S PROVE n \in S
  <2>1. n \in 0 .. Count /\ n - 1 \in 0 .. Count /\ n \in Nat /\ n > 0
    BY <1>0
  <2>2. sh[n] = ShortAfter(TheCells[n], sh[n - 1]) /\ sh[n - 1] \in Nat
    BY <1>0, <2>1 DEF IsRead, ReadAt
  <2>3. (Spikes(n - 1) = {} => sh[n - 1] = 0) /\ ((\A p, q \in Spikes(n - 1) : p = q) => sh[n - 1] <= 20)
    BY <1>2
  <2>. HIDE DEF S
  <2>4. CASE KindAt(n) = "overrun"
    <3>1. Spikes(n) = Spikes(n - 1)
      BY <2>1, <2>4, SpikesNext
    <3>2. sh[n] = sh[n - 1]
      BY <2>2, <2>4 DEF ShortAfter, KindAt
    <3>. QED BY <2>1, <2>3, <3>1, <3>2 DEF S
  <2>5. CASE KindAt(n) = "longlow"
    <3>1. Spikes(n) = Spikes(n - 1) \cup {n} /\ n \notin Spikes(n - 1)
      BY <2>1, <2>5, SpikesNext
    <3>2. sh[n] = sh[n - 1] + 20
      BY <2>2, <2>5 DEF ShortAfter, KindAt
    <3>3. (\A p, q \in Spikes(n) : p = q) => Spikes(n - 1) = {}
      BY <3>1
    <3>4. (\A p, q \in Spikes(n) : p = q) => sh[n] <= 20
      BY <2>2, <2>3, <3>2, <3>3
    <3>. QED BY <2>1, <3>1, <3>4 DEF S
  <2>6. CASE KindAt(n) \notin {"overrun", "longlow"}
    <3>1. sh[n] = 0
      BY <2>2, <2>6 DEF ShortAfter, KindAt
    <3>. QED BY <2>1, <3>1 DEF S
  <2>. QED BY <2>4, <2>5, <2>6
<1>. HIDE DEF S
<1>3. \A n \in 0 .. Count : n \in S
  BY <1>0, <1>1, <1>2, UpTo
<1>. QED BY <1>3 DEF S

(* The same without the marks: each of them has 20 ticks. *)
LEMMA SpikesCounted ==
  ASSUME Known, NEW kept, NEW sh, NEW fo, IsFiltered(kept, sh, fo), NEW j \in 0 .. Count
  PROVE  sh[j] = 20 * Cardinality(Spikes(j))
<1>. DEFINE S == {n \in 0 .. Count : sh[n] = 20 * Cardinality(Spikes(n))}
<1>0. Count \in Nat /\ sh[0] = 0 /\ sh \in [0 .. Count -> Nat]
  BY CountTyped DEF IsFiltered
<1>1. 0 \in S
  <2>1. Spikes(0) = {}
    BY DEF Spikes
  <2>2. Cardinality(Spikes(0)) = 0
    BY <2>1, FS_EmptySet
  <2>. QED BY <1>0, <2>2
<1>2. ASSUME NEW n \in 1 .. Count, n - 1 \in S PROVE n \in S
  <2>1. n \in 0 .. Count /\ n - 1 \in 0 .. Count /\ n \in Nat /\ n > 0
    BY <1>0
  <2>2. sh[n] = ShortAfter(TheCells[n], sh[n - 1]) /\ sh[n - 1] \in Nat
    BY <1>0, <2>1 DEF IsFiltered
  <2>3. sh[n - 1] = 20 * Cardinality(Spikes(n - 1))
    BY <1>2
  <2>4. IsFiniteSet(Spikes(n - 1)) /\ Cardinality(Spikes(n - 1)) \in Nat
    <3>1. Spikes(n - 1) \subseteq 1 .. n - 1 /\ IsFiniteSet(1 .. n - 1)
      BY <2>1, FS_Interval DEF Spikes
    <3>. QED BY <3>1, FS_Subset, FS_CardinalityType
  <2>. HIDE DEF S
  <2>5. CASE KindAt(n) = "overrun"
    <3>1. Spikes(n) = Spikes(n - 1)
      BY <2>1, <2>5, SpikesNext
    <3>2. sh[n] = sh[n - 1]
      BY <2>2, <2>5 DEF ShortAfter, KindAt
    <3>. QED BY <2>1, <2>3, <3>1, <3>2 DEF S
  <2>6. CASE KindAt(n) = "longlow"
    <3>1. Spikes(n) = Spikes(n - 1) \cup {n} /\ n \notin Spikes(n - 1)
      BY <2>1, <2>6, SpikesNext
    <3>2. Cardinality(Spikes(n)) = Cardinality(Spikes(n - 1)) + 1
      BY <2>4, <3>1, FS_AddElement
    <3>3. sh[n] = sh[n - 1] + 20
      BY <2>2, <2>6 DEF ShortAfter, KindAt
    <3>. QED BY <2>1, <2>3, <2>4, <3>2, <3>3 DEF S
  <2>7. CASE KindAt(n) \notin {"overrun", "longlow"}
    <3>1. Spikes(n) = {}
      BY <2>1, <2>7, SpikesNext
    <3>2. Cardinality(Spikes(n)) = 0
      BY <3>1, FS_EmptySet
    <3>3. sh[n] = 0
      BY <2>2, <2>7 DEF ShortAfter, KindAt
    <3>. QED BY <2>1, <3>2, <3>3 DEF S
  <2>. QED BY <2>5, <2>6, <2>7
<1>. HIDE DEF S
<1>3. \A n \in 0 .. Count : n \in S
  BY <1>0, <1>1, <1>2, UpTo
<1>. QED BY <1>3 DEF S

LEMMA ValuesPlaced ==
  ASSUME Known, NEW samples, NEW marks, NEW sh, NEW va, NEW op, NEW ix,
         IsRead(samples, marks, sh, va, op, ix), NEW j \in 1 .. Count, ~Swallowed(TheCells[j])
  PROVE  va[j - 1] = 0
<1>1. Count \in Nat /\ va[0] = 0 /\ va \in [0 .. Count -> {0, 1}] /\ ~(j > 1 /\ KindAt(j - 1) = "longlow")
  BY CountTyped, SwallowedForm DEF IsRead
<1>2. CASE j = 1
  <2>1. j - 1 = 0
    BY <1>2
  <2>. QED BY <1>1, <2>1
<1>3. CASE j # 1
  <2>. DEFINE k == j - 1
  <2>1. k \in 1 .. Count /\ j > 1 /\ KindAt(k) # "longlow"
    BY <1>1, <1>3
  <2>. HIDE DEF k
  <2>2. va[k] = ValueAfter(TheCells[k], va[k - 1])
    BY <2>1 DEF IsRead, ReadAt
  <2>3. va[k] = 0
    BY <2>1, <2>2 DEF ValueAfter, KindAt
  <2>. QED BY <2>3 DEF k
<1>. QED BY <1>2, <1>3

(***************************************************************************)
(* The index marks of the stream.                                          *)
(***************************************************************************)
OnTrack == Known /\ \A c \in DOMAIN damage : \E j \in 1 .. Count : c = TheCells[j]

LEMMA CountsRise ==
  ASSUME Known, NEW samples, NEW marks, NEW sh, NEW va, NEW op, NEW ix,
         IsRead(samples, marks, sh, va, op, ix)
  PROVE  /\ Rising(op, Count) /\ Rising(ix, Count)
         /\ \A j \in 0 .. Count : op[j] <= Len(samples) /\ ix[j] <= Len(marks)
<1>1. /\ Count \in Nat /\ op \in [0 .. Count -> Nat] /\ ix \in [0 .. Count -> Nat]
      /\ op[Count] = Len(samples) /\ ix[Count] = Len(marks)
  BY CountTyped DEF IsRead
<1>2. ASSUME NEW j \in 1 .. Count PROVE op[j - 1] <= op[j] /\ ix[j - 1] <= ix[j]
  <2>1. j - 1 \in 0 .. Count /\ j \in 0 .. Count
    BY <1>1
  <2>2. op[j - 1] \in Nat /\ ix[j - 1] \in Nat
    BY <1>1, <2>1
  <2>3. op[j] \in {op[j - 1], op[j - 1] + 1} /\ ix[j] \in {ix[j - 1], ix[j - 1] + 1}
    BY DEF IsRead, ReadAt
  <2>. QED BY <2>2, <2>3
<1>3. Rising(op, Count) /\ Rising(ix, Count)
  BY <1>1, <1>2 DEF Rising
<1>4. ASSUME NEW j \in 0 .. Count PROVE op[j] <= op[Count] /\ ix[j] <= ix[Count]
  <2>1. Count \in 0 .. Count /\ j <= Count
    BY <1>1
  <2>. QED BY <1>1, <1>3, <2>1, RisingOrder
<1>. QED BY <1>1, <1>3, <1>4

LEMMA IndexFound ==
  ASSUME OnTrack, NEW samples, NEW marks, NEW sh, NEW va, NEW op, NEW ix,
         IsRead(samples, marks, sh, va, op, ix),
         NEW c \in DOMAIN damage, damage[c] = "index", ~Swallowed(c)
  PROVE  \E n \in DOMAIN marks : samples[marks[n] + 1].cell = c
<1>0. Known
  BY DEF OnTrack
<1>1. PICK j \in 1 .. Count : c = TheCells[j]
  BY DEF OnTrack
<1>2. Kind(c) = "index"
  BY DEF Kind
<1>3. va[j - 1] = 0
  BY <1>0, <1>1, ValuesPlaced
<1>4. Sampled(c, 0) /\ Marked(c, 0)
  BY <1>2 DEF Sampled, Marked
<1>5. /\ op[j] = op[j - 1] + 1 /\ samples[op[j]] = TheSample(c, sh[j - 1])
      /\ ix[j] = ix[j - 1] + 1 /\ marks[ix[j]] = op[j - 1]
  BY <1>1, <1>3, <1>4 DEF IsRead, ReadAt
<1>6. ix[j] \in DOMAIN marks
  <2>1. /\ Count \in Nat /\ j - 1 \in 0 .. Count /\ j \in 0 .. Count
    BY <1>0, CountTyped
  <2>2. ix[j - 1] \in Nat /\ ix[j] \in Nat /\ marks \in Seq(Nat)
    BY <2>1 DEF IsRead
  <2>3. ix[j] <= Len(marks)
    BY <1>0, <2>1, CountsRise
  <2>4. ix[j] \in 1 .. Len(marks)
    BY <1>5, <2>2, <2>3
  <2>. QED BY <2>2, <2>4
<1>7. TheSample(c, sh[j - 1]).cell = c
  BY <1>2 DEF TheSample
<1>8. samples[marks[ix[j]] + 1].cell = c
  BY <1>5, <1>7
<1>. QED BY <1>6, <1>8

LEMMA IndexCounted ==
  ASSUME OnTrack, NEW samples, NEW marks, NEW sh, NEW va, NEW op, NEW ix,
         IsRead(samples, marks, sh, va, op, ix),
         "longlow" \notin {damage[c] : c \in DOMAIN damage}
  PROVE  Len(marks) = Cardinality({c \in DOMAIN damage : damage[c] = "index"})
<1>. DEFINE Idx(n) == {TheCells[p] : p \in {i \in 1 .. n : KindAt(i) = "index"}}
            S == {n \in 0 .. Count : IsFiniteSet(Idx(n)) /\ ix[n] = Cardinality(Idx(n))}
<1>0. Known /\ Count \in Nat /\ ix[0] = 0 /\ ix \in [0 .. Count -> Nat] /\ ix[Count] = Len(marks)
  BY CountTyped DEF OnTrack, IsRead
<1>1. 0 \in S
  <2>1. Idx(0) = {}
    OBVIOUS
  <2>2. IsFiniteSet({}) /\ Cardinality({}) = 0
    BY FS_EmptySet
  <2>. HIDE DEF Idx
  <2>3. IsFiniteSet(Idx(0)) /\ Cardinality(Idx(0)) = 0 /\ 0 \in 0 .. Count
    BY <1>0, <2>1, <2>2
  <2>. QED BY <1>0, <2>3
<1>2. ASSUME NEW n \in 1 .. Count, n - 1 \in S PROVE n \in S
  <2>1. n \in 0 .. Count /\ n - 1 \in 0 .. Count /\ n \in Nat /\ n > 0
    BY <1>0
  <2>2. \A i \in 1 .. Count : KindAt(i) # "longlow"
    BY DEF KindAt, Kind
  <2>3. va[n - 1] = 0
    <3>1. ~Swallowed(TheCells[n])
      <4>1. n > 1 => n - 1 \in 1 .. Count
        BY <2>1
      <4>. QED BY <1>0, <2>2, <4>1, SwallowedForm
    <3>. QED BY <1>0, <3>1, ValuesPlaced
  <2>4. IsFiniteSet(Idx(n - 1)) /\ ix[n - 1] = Cardinality(Idx(n - 1)) /\ ix[n - 1] \in Nat
    BY <1>0, <1>2, <2>1
  <2>5. CASE KindAt(n) = "index"
    <3>1. ix[n] = ix[n - 1] + 1
      <4>1. Marked(TheCells[n], va[n - 1])
        BY <2>3, <2>5 DEF Marked, KindAt
      <4>. QED BY <4>1 DEF IsRead, ReadAt
    <3>2. Idx(n) = Idx(n - 1) \cup {TheCells[n]}
      <4>1. {i \in 1 .. n : KindAt(i) = "index"} = {i \in 1 .. n - 1 : KindAt(i) = "index"} \cup {n}
        BY <2>1, <2>5
      <4>. QED BY <4>1
    <3>3. TheCells[n] \notin Idx(n - 1)
      <4>. SUFFICES ASSUME NEW i \in 1 .. n - 1, TheCells[n] = TheCells[i] PROVE FALSE
        OBVIOUS
      <4>1. i \in 1 .. Count /\ i # n
        BY <1>0, <2>1
      <4>. QED BY <1>0, <4>1, CellsDistinct
    <3>. HIDE DEF Idx
    <3>4. IsFiniteSet(Idx(n)) /\ Cardinality(Idx(n)) = Cardinality(Idx(n - 1)) + 1
      BY <2>4, <3>2, <3>3, FS_AddElement
    <3>. QED BY <2>1, <2>4, <3>1, <3>4
  <2>6. CASE KindAt(n) # "index"
    <3>1. ix[n] = ix[n - 1]
      <4>1. ~Marked(TheCells[n], va[n - 1])
        BY <2>2, <2>3, <2>6 DEF Marked, KindAt
      <4>. QED BY <4>1 DEF IsRead, ReadAt
    <3>2. Idx(n) = Idx(n - 1)
      <4>1. {i \in 1 .. n : KindAt(i) = "index"} = {i \in 1 .. n - 1 : KindAt(i) = "index"}
        BY <2>1, <2>6
      <4>. QED BY <4>1
    <3>. QED BY <2>1, <2>4, <3>1, <3>2
  <2>. QED BY <2>5, <2>6
<1>3. Count \in S
  <2>. HIDE DEF S
  <2>1. \A n \in 0 .. Count : n \in S
    BY <1>0, <1>1, <1>2, UpTo
  <2>. QED BY <1>0, <2>1
<1>4. Idx(Count) = {c \in DOMAIN damage : damage[c] = "index"}
  <2>1. ASSUME NEW c \in Idx(Count) PROVE c \in DOMAIN damage /\ damage[c] = "index"
    <3>1. Kind(c) = "index"
      BY DEF KindAt
    <3>. QED BY <3>1 DEF Kind
  <2>2. ASSUME NEW c \in DOMAIN damage, damage[c] = "index" PROVE c \in Idx(Count)
    <3>1. PICK j \in 1 .. Count : c = TheCells[j]
      BY DEF OnTrack
    <3>2. KindAt(j) = "index"
      BY <2>2, <3>1 DEF KindAt, Kind
    <3>. QED BY <3>1, <3>2
  <2>. HIDE DEF Idx
  <2>. QED BY <2>1, <2>2
<1>. QED BY <1>0, <1>3, <1>4

(***************************************************************************)
(* The bits of the track: bo[j] of them come from its first j cells.       *)
(***************************************************************************)
BitId   == CellId \X Nat
Samples == Extracted(Filtered(TrackFile).out).out
Marks   == Extracted(Filtered(TrackFile).out).index_pos
AllBits == FlattenSeq([j \in DOMAIN Samples |-> SampleBits(Samples[j])])

Whole(t, bo, j) ==
  /\ bo[j] = bo[j - 1] + 2
  /\ t[bo[j - 1] + 1] = <<TheCells[j], 1>> /\ t[bo[j - 1] + 2] = <<TheCells[j], 2>>
Blank(t, bo, j) ==
  \A i \in 1 .. bo[j] - bo[j - 1] : t[bo[j - 1] + i][1] = Nothing

Strip(t, bo) ==
  /\ t \in Seq(BitId) /\ Rising(bo, Count) /\ bo[0] = 0 /\ bo[Count] = Len(t)
  /\ \A j \in 1 .. Count :
       /\ Whole(t, bo, j) \/ Blank(t, bo, j)
       /\ Becomes(TheCells[j], Harmless) => Whole(t, bo, j)
       /\ Becomes(TheCells[j], SameLength) => bo[j] = bo[j - 1] + 2
       /\ KindAt(j) = "flip" => Blank(t, bo, j)

LEMMA SampleBitsForm ==
  ASSUME NEW x \in Smp
  PROVE  LET n == CellBits(x.t)
         IN  /\ n \in 0 .. 4 /\ SampleBits(x) \in Seq(BitId) /\ Len(SampleBits(x)) = n
             /\ \A i \in 1 .. n : SampleBits(x)[i] = <<IF n = 2 THEN x.cell ELSE Nothing, i>>
             /\ x.t >= 72 /\ x.t <= 120 => n = 2
<1>. DEFINE n == CellBits(x.t)
<1>1. x.t \in Nat /\ x.cell \in CellId /\ Nothing \in CellId
  BY DEF Smp, Nothing, CellId, CellName
<1>2. n \in 0 .. 4 /\ (x.t >= 72 /\ x.t <= 120 => n = 2)
  BY <1>1 DEF CellBits, b0, b1, b2, b3, one_us
<1>3. SampleBits(x) = [i \in 1 .. n |-> <<IF n = 2 THEN x.cell ELSE Nothing, i>>]
  BY DEF SampleBits
<1>. HIDE DEF n
<1>4. \A i \in 1 .. n : <<IF n = 2 THEN x.cell ELSE Nothing, i>> \in BitId
  BY <1>1 DEF BitId
<1>5. SampleBits(x) \in Seq(BitId) /\ Len(SampleBits(x)) = n
  BY <1>2, <1>3, <1>4
<1>. QED BY <1>2, <1>3, <1>5 DEF n

LEMMA TrackStrip ==
  ASSUME Known, NEW samples, NEW marks, NEW sh, NEW va, NEW op, NEW ix,
         IsRead(samples, marks, sh, va, op, ix),
         NEW t, t = FlattenSeq([j \in DOMAIN samples |-> SampleBits(samples[j])])
  PROVE  \E bo : Strip(t, bo)
<1>. DEFINE sb == [j \in DOMAIN samples |-> SampleBits(samples[j])]
            M  == Len(samples)
<1>1. /\ samples \in Seq(Smp) /\ M \in Nat /\ Count \in Nat /\ op \in [0 .. Count -> Nat]
      /\ sh \in [0 .. Count -> Nat] /\ va \in [0 .. Count -> {0, 1}]
      /\ op[0] = 0 /\ op[Count] = M /\ DOMAIN samples = 1 .. M
      /\ \A j \in 1 .. M : samples[j] \in Smp
  BY CountTyped DEF IsRead
<1>2. sb \in Seq(Seq(BitId)) /\ Len(sb) = M /\ \A j \in 1 .. M : sb[j] = SampleBits(samples[j])
  <2>1. \A j \in 1 .. M : SampleBits(samples[j]) \in Seq(BitId)
    BY <1>1, SampleBitsForm
  <2>. HIDE DEF M
  <2>. QED BY <1>1, <2>1
<1>3. t = FlattenSeq(sb)
  OBVIOUS
<1>. HIDE DEF sb, M
<1>4. t \in Seq(BitId) /\ \E ba : Flat(t, sb, ba)
  BY <1>2, <1>3, Flattened
<1>5. PICK ba : Flat(t, sb, ba)
  BY <1>4
<1>6. Rising(ba, M) /\ ba[0] = 0 /\ ba[M] = Len(t)
  BY <1>2, <1>5, FlatRising DEF Flat
<1>7. Rising(op, Count) /\ \A j \in 0 .. Count : op[j] \in 0 .. M
  <2>1. Rising(op, Count) /\ \A j \in 0 .. Count : op[j] <= M
    BY CountsRise DEF M
  <2>. QED BY <1>1, <2>1
<1>. DEFINE bo == [j \in 0 .. Count |-> ba[op[j]]]
<1>8. bo \in [0 .. Count -> Nat] /\ bo[0] = 0 /\ bo[Count] = Len(t) /\ \A j \in 0 .. Count : bo[j] = ba[op[j]]
  <2>1. 0 \in 0 .. Count /\ Count \in 0 .. Count
    BY <1>1
  <2>. QED BY <1>1, <1>6, <1>7, <2>1 DEF Rising
<1>. HIDE DEF bo
<1>9. ASSUME NEW j \in 1 .. Count
      PROVE  /\ bo[j - 1] <= bo[j]
             /\ Whole(t, bo, j) \/ Blank(t, bo, j)
             /\ Becomes(TheCells[j], Harmless) => Whole(t, bo, j)
             /\ Becomes(TheCells[j], SameLength) => bo[j] = bo[j - 1] + 2
             /\ KindAt(j) = "flip" => Blank(t, bo, j)
  <2>. DEFINE c == TheCells[j]  v == va[j - 1]  s == sh[j - 1]  x == TheSample(c, s)  n == CellBits(x.t)
  <2>1. /\ j - 1 \in 0 .. Count /\ j \in 0 .. Count /\ c \in CellId /\ Kind(c) \in Kinds
        /\ s \in Nat /\ v \in {0, 1} /\ bo[j - 1] \in Nat /\ bo[j] \in Nat
        /\ op[j - 1] \in Nat /\ op[j] \in Nat
    <3>1. j - 1 \in 0 .. Count /\ j \in 0 .. Count /\ c \in CellId /\ Kind(c) \in Kinds
      BY <1>1, CountTyped DEF Known
    <3>. QED BY <1>1, <1>8, <3>1
  <2>2. ReadAt(samples, marks, sh, va, op, ix, j)
    BY DEF IsRead
  <2>3. x \in Smp /\ x.cell = IF Kind(c) \in {"flip", "long"} THEN Nothing ELSE c
    BY <2>1, SamplesTyped DEF TheSample
  <2>4. Sampled(c, v) =>
          bo[j] = bo[j - 1] + n /\ \A i \in 1 .. n : t[bo[j - 1] + i] = <<IF n = 2 THEN x.cell ELSE Nothing, i>>
    <3>. SUFFICES ASSUME Sampled(c, v)
                  PROVE  /\ bo[j] = bo[j - 1] + n
                         /\ \A i \in 1 .. n : t[bo[j - 1] + i] = <<IF n = 2 THEN x.cell ELSE Nothing, i>>
      OBVIOUS
    <3>. DEFINE m == op[j]  l == op[j - 1]
    <3>1. m = l + 1 /\ samples[m] = x
      BY <2>2 DEF ReadAt
    <3>2. m \in 1 .. M /\ l = m - 1
      BY <1>7, <2>1, <3>1
    <3>. HIDE DEF m, x, n
    <3>3. sb[m] = SampleBits(x) /\ m \in 1 .. Len(sb)
      BY <1>2, <3>1, <3>2
    <3>4. ba[m] = ba[m - 1] + Len(sb[m]) /\ \A i \in 1 .. Len(sb[m]) : t[ba[m - 1] + i] = sb[m][i]
      BY <1>5, <3>3 DEF Flat
    <3>5. bo[j] = ba[m] /\ bo[j - 1] = ba[m - 1]
      BY <1>8, <2>1, <3>2 DEF m
    <3>6. Len(sb[m]) = n /\ \A i \in 1 .. n : sb[m][i] = <<IF n = 2 THEN x.cell ELSE Nothing, i>>
      BY <2>3, <3>3, SampleBitsForm DEF n
    <3>. HIDE DEF l
    <3>. QED BY <3>4, <3>5, <3>6
  <2>5. ~Sampled(c, v) => bo[j] = bo[j - 1]
    BY <1>8, <2>1, <2>2 DEF ReadAt
  <2>6. n \in 0 .. 4 /\ (x.t >= 72 /\ x.t <= 120 => n = 2)
    BY <2>3, SampleBitsForm
  <2>7. Becomes(c, SameLength) => Sampled(c, v) /\ n = 2
    <3>. SUFFICES ASSUME Becomes(c, SameLength) PROVE Sampled(c, v) /\ n = 2
      OBVIOUS
    <3>1. /\ Kind(c) \in {"none", "split", "index", "timer", "flip"} /\ ~Swallowed(c)
          /\ \A p, q \in SpikesBefore(c) : p = q
      BY DEF Becomes, SameLength, Harmless
    <3>2. v = 0
      BY <3>1, ValuesPlaced
    <3>3. Sampled(c, v)
      BY <3>1, <3>2 DEF Sampled
    <3>4. s <= 20
      BY <2>1, <3>1, SpikesForm, ShortsBounded
    <3>5. x.t = s + Ticks(Kind(c)) /\ Ticks(Kind(c)) \in {96, 100}
      BY <3>1 DEF TheSample, Ticks
    <3>6. x.t >= 72 /\ x.t <= 120
      <4>. HIDE DEF x, s
      <4>. QED BY <2>1, <3>4, <3>5
    <3>. QED BY <2>6, <3>3, <3>6
  <2>8. Becomes(c, Harmless) => Becomes(c, SameLength) /\ Kind(c) \notin {"flip", "long"}
    BY DEF Becomes, SameLength, Harmless
  <2>. HIDE DEF c, v, s, x, n
  <2>9. bo[j - 1] <= bo[j]
    BY <2>1, <2>4, <2>5, <2>6
  <2>10. Sampled(c, v) /\ n = 2 /\ x.cell = c => Whole(t, bo, j)
    <3>. SUFFICES ASSUME Sampled(c, v), n = 2, x.cell = c PROVE Whole(t, bo, j)
      OBVIOUS
    <3>1. bo[j] = bo[j - 1] + 2 /\ \A i \in 1 .. 2 : t[bo[j - 1] + i] = <<c, i>>
      BY <2>4
    <3>. QED BY <3>1 DEF Whole, c
  <2>11. ~(Sampled(c, v) /\ n = 2 /\ x.cell = c) => Blank(t, bo, j)
    <3>. SUFFICES ASSUME ~(Sampled(c, v) /\ n = 2 /\ x.cell = c), NEW i \in 1 .. bo[j] - bo[j - 1]
                  PROVE  t[bo[j - 1] + i][1] = Nothing
      BY DEF Blank
    <3>1. Sampled(c, v)
      BY <2>1, <2>5
    <3>2. i \in 1 .. n
      <4>. DEFINE y == bo[j - 1]  z == bo[j]
      <4>1. z = y + n /\ i \in 1 .. z - y
        BY <2>4, <3>1
      <4>2. y \in Nat /\ n \in Nat
        BY <2>1, <2>6
      <4>. HIDE DEF y, z, n
      <4>. QED BY ONLY <4>1, <4>2
    <3>3. x.cell = c \/ x.cell = Nothing
      BY <2>3
    <3>4. (IF n = 2 THEN x.cell ELSE Nothing) = Nothing
      BY <3>1, <3>3
    <3>5. t[bo[j - 1] + i] = <<Nothing, i>>
      BY <2>4, <3>1, <3>2, <3>4
    <3>. QED BY <3>5
  <2>12. Kind(c) = "flip" => Blank(t, bo, j)
    <3>. SUFFICES ASSUME Kind(c) = "flip", NEW i \in 1 .. bo[j] - bo[j - 1]
                  PROVE  t[bo[j - 1] + i][1] = Nothing
      BY DEF Blank
    <3>1. Sampled(c, v)
      BY <2>1, <2>5
    <3>2. i \in 1 .. n
      <4>. DEFINE y == bo[j - 1]  z == bo[j]
      <4>1. z = y + n /\ i \in 1 .. z - y
        BY <2>4, <3>1
      <4>2. y \in Nat /\ n \in Nat
        BY <2>1, <2>6
      <4>. HIDE DEF y, z, n
      <4>. QED BY ONLY <4>1, <4>2
    <3>3. (IF n = 2 THEN x.cell ELSE Nothing) = Nothing
      BY <2>3
    <3>4. t[bo[j - 1] + i] = <<Nothing, i>>
      BY <2>4, <3>1, <3>2, <3>3
    <3>. QED BY <3>4
  <2>13. Becomes(c, Harmless) => Whole(t, bo, j)
    BY <2>3, <2>7, <2>8, <2>10
  <2>14. Becomes(c, SameLength) => bo[j] = bo[j - 1] + 2
    BY <2>4, <2>7
  <2>15. Whole(t, bo, j) \/ Blank(t, bo, j)
    BY <2>10, <2>11
  <2>. QED BY <2>9, <2>12, <2>13, <2>14, <2>15 DEF c, KindAt
<1>10. Rising(bo, Count)
  BY <1>8, <1>9 DEF Rising
<1>11. Strip(t, bo)
  BY <1>4, <1>8, <1>9, <1>10 DEF Strip
<1>. QED BY <1>11

(***************************************************************************)
(* The sectors in the bits.                                                *)
(***************************************************************************)
Laid(pa, bo) == Known /\ Placed(track, pa) /\ Strip(bits, bo)

LEMMA Lengths ==
  /\ DataCells \in Nat /\ DataCells >= 1 /\ SectorCells = 3 + DataCells
  /\ amiga_hdr_bit_len = 2 /\ amiga_data_bit_len = 2 * DataCells
  /\ amiga_block_bit_len = 2 + 2 * DataCells /\ amiga_sync_block_bit_len = 6 + 2 * DataCells
  /\ sync_len = 3 /\ amiga_sync_bit_len = 4
BY AnalyzerAssumption DEF SectorCells, amiga_hdr_bit_len, amiga_data_bit_len, amiga_block_bit_len,
   amiga_sync_block_bit_len, amiga_sync_bit_len, sync_len, HeadCells, SyncCells

LEMMA LaidTyped ==
  ASSUME NEW pa, NEW bo, Laid(pa, bo)
  PROVE  /\ Known /\ track \in Tracks /\ Len(track) \in Nat /\ Count \in Nat
         /\ pa \in [0 .. Len(track) -> Nat] /\ Rising(pa, Len(track))
         /\ \A k \in 0 .. Len(track) : pa[k] \in 0 .. Count
         /\ bo \in [0 .. Count -> Nat] /\ Rising(bo, Count) /\ bits \in Seq(BitId)
         /\ \A j \in 0 .. Count : bo[j] \in 0 .. Len(bits)
         /\ \A i, j \in 0 .. Count : i <= j => bo[i] <= bo[j]
         /\ \A k, l \in 0 .. Len(track) : k <= l => pa[k] <= pa[l]
<1>1. Known /\ track \in Tracks /\ Len(track) \in Nat /\ Count \in Nat
  BY CountTyped, TrackForm DEF Laid, Known
<1>2. Rising(pa, Len(track)) /\ pa[Len(track)] = Count /\ pa \in [0 .. Len(track) -> Nat]
  BY DEF Laid, Placed, Rising, Count, TheCells
<1>3. Rising(bo, Count) /\ bo[Count] = Len(bits) /\ bo \in [0 .. Count -> Nat] /\ bits \in Seq(BitId)
  BY DEF Laid, Strip, Rising
<1>4. \A i, j \in 0 .. Count : i <= j => bo[i] <= bo[j]
  BY <1>1, <1>3, RisingOrder
<1>5. \A k, l \in 0 .. Len(track) : k <= l => pa[k] <= pa[l]
  BY <1>1, <1>2, RisingOrder
<1>6. ASSUME NEW k \in 0 .. Len(track) PROVE pa[k] \in 0 .. Count
  <2>1. pa[k] \in Nat /\ Len(track) \in 0 .. Len(track) /\ k <= Len(track)
    BY <1>1, <1>2
  <2>. QED BY <1>1, <1>2, <1>5, <2>1
<1>7. ASSUME NEW j \in 0 .. Count PROVE bo[j] \in 0 .. Len(bits)
  <2>1. bo[j] \in Nat /\ Count \in 0 .. Count /\ j <= Count /\ Len(bits) \in Nat
    BY <1>1, <1>3
  <2>2. bo[j] <= bo[Count]
    BY <1>4, <2>1
  <2>. QED BY <1>3, <2>1, <2>2
<1>. QED BY <1>1, <1>2, <1>3, <1>4, <1>5, <1>6, <1>7

LEMMA SectorPlaces ==
  ASSUME NEW pa, NEW bo, Laid(pa, bo), NEW k \in Sectors(track)
  PROVE  LET p == pa[k - 1]
         IN  /\ k \in 1 .. Len(track) /\ p \in Nat /\ p + SectorCells <= Count
             /\ pa[k] = p + SectorCells
             /\ TheCells[p + 1] = <<k, "sync", 1>> /\ TheCells[p + 2] = <<k, "sync", 2>>
             /\ TheCells[p + 3] = <<k, "head", 1>>
             /\ \A i \in 1 .. DataCells : TheCells[p + (3 + i)] = <<k, "data", i>>
<1>. DEFINE p == pa[k - 1]
<1>1. k \in 1 .. Len(track) /\ k - 1 \in 0 .. Len(track) /\ k \in 0 .. Len(track)
  BY LaidTyped, TrackForm
<1>2. p \in Nat /\ pa[k] \in 0 .. Count /\ pa[k] = p + SectorCells /\ Count \in Nat
  BY <1>1, LaidTyped DEF Laid, Placed
<1>3. \A i \in 1 .. SectorCells : InPart(track, k, p + i, i)
  <2>1. \A i \in 1 .. pa[k] - pa[k - 1] : InPart(track, k, pa[k - 1] + i, i)
    BY <1>1 DEF Laid, Placed
  <2>2. pa[k] - pa[k - 1] = SectorCells
    BY <1>2, Lengths
  <2>. QED BY <2>1, <2>2
<1>. HIDE DEF p
<1>4. 1 \in 1 .. SectorCells /\ 2 \in 1 .. SectorCells /\ 3 \in 1 .. SectorCells
  BY Lengths
<1>5. TheCells[p + 1] = <<k, "sync", 1>>
  BY <1>3, <1>4 DEF InPart, TheCells
<1>6. TheCells[p + 2] = <<k, "sync", 2>>
  BY <1>3, <1>4 DEF InPart, TheCells
<1>7. TheCells[p + 3] = <<k, "head", 1>>
  BY <1>3, <1>4 DEF InPart, TheCells
<1>8. ASSUME NEW i \in 1 .. DataCells PROVE TheCells[p + (3 + i)] = <<k, "data", i>>
  <2>. DEFINE m == 3 + i
  <2>1. m \in 1 .. SectorCells /\ m > 3 /\ m - 3 = i
    BY Lengths
  <2>. HIDE DEF m
  <2>. QED BY <1>3, <2>1 DEF InPart, TheCells, m
<1>9. p + SectorCells <= Count
  BY <1>2
<1>. QED BY <1>1, <1>2, <1>5, <1>6, <1>7, <1>8, <1>9 DEF p

(* Cells of the parts of a sector, by their places. *)
LEMMA CellsInForm ==
  ASSUME NEW pa, NEW bo, Laid(pa, bo), NEW k \in Sectors(track)
  PROVE  LET p == pa[k - 1]
         IN  /\ CellsIn(k, {"sync"}) = {TheCells[p + 1], TheCells[p + 2]}
             /\ TheCells[p + 3] \in CellsIn(k, {"head"})
             /\ \A names : {"head", "data"} \subseteq names =>
                  \A i \in 3 .. SectorCells : TheCells[p + i] \in CellsIn(k, names)
             /\ \A i \in 1 .. SectorCells : TheCells[p + i] \in CellsIn(k, {"sync", "head", "data"})
<1>. DEFINE p == pa[k - 1]  s == CellsOf(track, k)
<1>1. /\ s \in Seq(CellId) /\ Len(s) = SectorCells
      /\ s[1] = <<k, "sync", 1>> /\ s[2] = <<k, "sync", 2>> /\ s[3] = <<k, "head", 1>>
      /\ \A i \in 1 .. DataCells : s[3 + i] = <<k, "data", i>>
  BY LaidTyped, SectorForm
<1>2. /\ TheCells[p + 1] = <<k, "sync", 1>> /\ TheCells[p + 2] = <<k, "sync", 2>>
      /\ TheCells[p + 3] = <<k, "head", 1>>
      /\ \A i \in 1 .. DataCells : TheCells[p + (3 + i)] = <<k, "data", i>>
  BY SectorPlaces
<1>. HIDE DEF p
<1>3. \A i \in 1 .. SectorCells : i \in {1, 2, 3} \/ \E j \in 1 .. DataCells : i = 3 + j
  <2>. SUFFICES ASSUME NEW i \in 1 .. SectorCells, i \notin {1, 2, 3}
                PROVE  \E j \in 1 .. DataCells : i = 3 + j
    OBVIOUS
  <2>1. i - 3 \in 1 .. DataCells /\ i = 3 + (i - 3)
    BY Lengths
  <2>. QED BY <2>1
<1>4. \A i \in 1 .. SectorCells : TheCells[p + i] = s[i] /\ s[i] \in ToSet(s)
  <2>1. DOMAIN s = 1 .. SectorCells
    BY <1>1
  <2>. HIDE DEF s
  <2>2. \A i \in 1 .. SectorCells : TheCells[p + i] = s[i]
    <3>. SUFFICES ASSUME NEW i \in 1 .. SectorCells PROVE TheCells[p + i] = s[i]
      OBVIOUS
    <3>1. CASE i \in {1, 2, 3}
      BY <1>1, <1>2, <3>1
    <3>2. CASE \E j \in 1 .. DataCells : i = 3 + j
      <4>1. PICK j \in 1 .. DataCells : i = 3 + j
        BY <3>2
      <4>. QED BY <1>1, <1>2, <4>1
    <3>. QED BY <1>3, <3>1, <3>2, Zenon
  <2>. QED BY <2>1, <2>2 DEF ToSet
<1>. HIDE DEF s
<1>5. \A c \in ToSet(s) : \E i \in 1 .. SectorCells : c = s[i]
  <2>1. DOMAIN s = 1 .. SectorCells
    BY <1>1
  <2>. QED BY <2>1 DEF ToSet
<1>6. /\ s[1][2] = "sync" /\ s[2][2] = "sync" /\ s[3][2] = "head"
      /\ \A j \in 1 .. DataCells : s[3 + j][2] = "data"
  BY <1>1
<1>7. 1 \in 1 .. SectorCells /\ 2 \in 1 .. SectorCells /\ 3 \in 1 .. SectorCells
  BY Lengths
<1>8. \A names : CellsIn(k, names) = {c \in ToSet(s) : c[2] \in names}
  BY DEF CellsIn, s
<1>9. CellsIn(k, {"sync"}) \subseteq {TheCells[p + 1], TheCells[p + 2]}
  <2>. SUFFICES ASSUME NEW c \in ToSet(s), c[2] = "sync" PROVE c \in {TheCells[p + 1], TheCells[p + 2]}
    BY <1>8
  <2>1. PICK i \in 1 .. SectorCells : c = s[i]
    BY <1>5
  <2>2. i = 1 \/ i = 2
    BY <1>3, <1>6, <2>1
  <2>. QED BY <1>4, <1>7, <2>1, <2>2
<1>10. {TheCells[p + 1], TheCells[p + 2]} \subseteq CellsIn(k, {"sync"}) /\ TheCells[p + 3] \in CellsIn(k, {"head"})
  BY <1>4, <1>6, <1>7, <1>8
<1>11. ASSUME NEW names, {"head", "data"} \subseteq names, NEW i \in 3 .. SectorCells
       PROVE  TheCells[p + i] \in CellsIn(k, names)
  <2>1. i \in 1 .. SectorCells /\ i # 1 /\ i # 2
    OBVIOUS
  <2>2. s[i][2] \in {"head", "data"}
    BY <1>3, <1>6, <2>1
  <2>. QED BY <1>4, <1>8, <1>11, <2>1, <2>2
<1>12. ASSUME NEW i \in 1 .. SectorCells PROVE TheCells[p + i] \in CellsIn(k, {"sync", "head", "data"})
  <2>1. s[i][2] \in {"sync", "head", "data"}
    BY <1>3, <1>6
  <2>. QED BY <1>4, <1>8, <2>1
<1>. QED BY <1>9, <1>10, <1>11, <1>12 DEF p

LEMMA SliceForm ==
  ASSUME bits \in Seq(BitId), NEW off \in Nat, NEW len \in Nat, off + len <= Len(bits)
  PROVE  Slice(off, len) = [m \in 1 .. len |-> bits[off + m]]
<1>1. (IF off + len < Len(bits) THEN off + len ELSE Len(bits)) = off + len
  OBVIOUS
<1>2. Slice(off, len) = SubSeq(bits, off + 1, off + len)
  BY <1>1 DEF Slice
<1>3. \A m \in 1 .. len : off + m \in 1 .. Len(bits)
  OBVIOUS
<1>4. SubSeq(bits, off + 1, off + len) = [m \in 1 .. len |-> bits[off + m]]
  <2>. DEFINE s == SubSeq(bits, off + 1, off + len)
  <2>1. CASE len = 0
    BY <2>1
  <2>2. CASE len # 0
    <3>1. off + 1 \in 1 .. Len(bits) /\ off + len \in 1 .. Len(bits)
      BY <2>2
    <3>2. s \in Seq(BitId) /\ Len(s) = len
      BY <3>1
    <3>3. \A m \in 1 .. len : s[m] = bits[off + m]
      BY <1>3, <3>1
    <3>. HIDE DEF s
    <3>4. s = [m \in 1 .. len |-> s[m]]
      BY <3>2
    <3>. QED BY <3>3, <3>4 DEF s
  <2>. QED BY <2>1, <2>2
<1>. QED BY <1>2, <1>4

LEMMA HalfForm ==
  ASSUME NEW D \in Nat, NEW m \in 1 .. 2 * D
  PROVE  LET i == (m + 1) \div 2
         IN  i \in 1 .. D /\ ((m = 2 * i - 1 /\ m % 2 = 1) \/ (m = 2 * i /\ m % 2 = 0))
<1>. DEFINE i == (m + 1) \div 2  r == m % 2
<1>1. m \in Nat /\ m >= 1 /\ m <= 2 * D
  OBVIOUS
<1>2. i \in Int /\ (2 * i = m + 1 \/ 2 * i = m) /\ r \in {0, 1}
  BY <1>1
<1>3. 2 * i = m + 1 => r = 1
  BY <1>1
<1>4. 2 * i = m => r = 0
  BY <1>1
<1>. HIDE DEF i, r
<1>5. i \in 1 .. D
  BY <1>1, <1>2
<1>6. (m = 2 * i - 1 /\ r = 1) \/ (m = 2 * i /\ r = 0)
  BY <1>1, <1>2, <1>3, <1>4
<1>. QED BY <1>5, <1>6 DEF i, r

LEMMA HeadRead ==
  ASSUME bits \in Seq(BitId), NEW k \in Sectors(track), NEW off \in Nat, off + 2 <= Len(bits),
         bits[off + 1] = <<<<k, "head", 1>>, 1>>, bits[off + 2] = <<<<k, "head", 1>>, 2>>
  PROVE  HeadersAt(off) = {k}
<1>1. Slice(off, 2) = [m \in 1 .. 2 |-> bits[off + m]]
  <2>1. 2 \in Nat
    OBVIOUS
  <2>. QED BY <2>1, SliceForm, Zenon
<1>2. \A h : Written(h, "head", HeadCells) = [m \in 1 .. 2 |-> <<<<h, "head", 1>>, m>>]
  <2>1. 2 * HeadCells = 2
    BY DEF HeadCells
  <2>2. \A m \in 1 .. 2 : (m + 1) \div 2 = 1 /\ 2 - (m % 2) = m
    <3>. SUFFICES ASSUME NEW m \in 1 .. 2 PROVE (m + 1) \div 2 = 1 /\ 2 - (m % 2) = m
      OBVIOUS
    <3>1. m = 1 \/ m = 2
      OBVIOUS
    <3>. QED BY ONLY <3>1
  <2>. QED BY <2>1, <2>2 DEF Written
<1>3. Slice(off, 2) = Written(k, "head", HeadCells)
  <2>1. \A m \in 1 .. 2 : bits[off + m] = <<<<k, "head", 1>>, m>>
    OBVIOUS
  <2>2. Written(k, "head", HeadCells) = [m \in 1 .. 2 |-> <<<<k, "head", 1>>, m>>]
    BY <1>2
  <2>3. [m \in 1 .. 2 |-> bits[off + m]] = [m \in 1 .. 2 |-> <<<<k, "head", 1>>, m>>]
    BY <2>1
  <2>. QED BY <1>1, <2>2, <2>3
<1>4. ASSUME NEW h, Slice(off, 2) = Written(h, "head", HeadCells) PROVE h = k
  <2>1. Slice(off, 2)[1] = <<<<h, "head", 1>>, 1>> /\ Slice(off, 2)[1] = <<<<k, "head", 1>>, 1>>
    BY <1>2, <1>3, <1>4
  <2>. QED BY <2>1
<1>. QED BY <1>3, <1>4, Lengths DEF HeadersAt

(* A sector all of whose header and data came through.                     *)
LEMMA SectorRead ==
  ASSUME NEW pa, NEW bo, Laid(pa, bo), NEW k \in Sectors(track),
         \A i \in 3 .. SectorCells : Whole(bits, bo, pa[k - 1] + i)
  PROVE  LET off == bo[pa[k - 1] + 2]
         IN  /\ off \in Nat /\ off + amiga_block_bit_len <= Len(bits)
             /\ bo[pa[k - 1] + SectorCells] = off + amiga_block_bit_len
             /\ HeadersAt(off) = {k}
             /\ Slice(off + amiga_hdr_bit_len, amiga_data_bit_len) = Written(k, "data", DataCells)
<1>. DEFINE p == pa[k - 1]  off == bo[p + 2]  D == DataCells
<1>1. /\ p \in Nat /\ Count \in Nat /\ p + SectorCells <= Count /\ D \in Nat /\ D >= 1
      /\ bits \in Seq(BitId) /\ Len(bits) \in Nat
      /\ TheCells[p + 3] = <<k, "head", 1>>
      /\ \A i \in 1 .. D : TheCells[p + (3 + i)] = <<k, "data", i>>
      /\ bo \in [0 .. Count -> Nat] /\ \A j \in 0 .. Count : bo[j] \in 0 .. Len(bits)
  <2>1. /\ Count \in Nat /\ bits \in Seq(BitId) /\ bo \in [0 .. Count -> Nat]
        /\ \A j \in 0 .. Count : bo[j] \in 0 .. Len(bits)
    BY LaidTyped
  <2>2. /\ p \in Nat /\ p + SectorCells <= Count /\ TheCells[p + 3] = <<k, "head", 1>>
        /\ \A i \in 1 .. DataCells : TheCells[p + (3 + i)] = <<k, "data", i>>
    BY SectorPlaces
  <2>3. D \in Nat /\ D >= 1
    BY Lengths
  <2>. HIDE DEF p
  <2>4. Len(bits) \in Nat
    BY <2>1
  <2>. QED BY <2>1, <2>2, <2>3, <2>4
<1>. HIDE DEF p, D
<1>2. SectorCells = 3 + D
  BY Lengths DEF D
<1>3. p + 2 \in 0 .. Count /\ p + 3 \in 0 .. Count /\ p + SectorCells \in 0 .. Count
  <2>1. p \in Nat /\ Count \in Nat /\ p + SectorCells <= Count /\ D \in Nat /\ D >= 1
    BY <1>1
  <2>. QED BY ONLY <1>2, <2>1
<1>a. bo[p + 2] = off
  OBVIOUS
<1>4. off \in Nat
  <2>. DEFINE j == p + 2
  <2>1. off = bo[j] /\ j \in 0 .. Count /\ bo \in [0 .. Count -> Nat]
    BY <1>1, <1>3
  <2>. HIDE DEF j, off
  <2>. QED BY ONLY <2>1
<1>. HIDE DEF off
<1>5. \A j \in (p + 2) + 1 .. p + SectorCells : bo[j] = bo[j - 1] + 2
  <2>. SUFFICES ASSUME NEW j \in (p + 2) + 1 .. p + SectorCells PROVE bo[j] = bo[j - 1] + 2
    OBVIOUS
  <2>. DEFINE i == j - p
  <2>1. i \in 3 .. SectorCells /\ p + i = j
    BY <1>1, <1>2
  <2>. HIDE DEF i
  <2>2. Whole(bits, bo, p + i)
    BY <2>1 DEF p
  <2>. QED BY <2>1, <2>2 DEF Whole
<1>6. \A j \in p + 2 .. p + SectorCells : bo[j] = off + 2 * (j - (p + 2))
  <2>. DEFINE q == p + 2  r == p + SectorCells
  <2>1. q \in 0 .. Count /\ r \in 0 .. Count /\ \A j \in q + 1 .. r : bo[j] = bo[j - 1] + 2
    BY <1>3, <1>5
  <2>. HIDE DEF q, r
  <2>2. \A j \in q .. r : bo[j] = bo[q] + 2 * (j - q)
    <3>1. 2 \in Nat
      OBVIOUS
    <3>. QED BY <1>1, <2>1, <3>1, Straight, Zenon
  <2>3. bo[q] = off
    BY <1>a DEF q
  <2>4. \A j \in q .. r : bo[j] = off + 2 * (j - q)
    BY <2>2, <2>3
  <2>. QED BY <2>4 DEF q, r
<1>7. bo[p + SectorCells] = off + (2 + 2 * D)
  <2>1. p + SectorCells \in p + 2 .. p + SectorCells /\ p + SectorCells - (p + 2) = 1 + D
    BY <1>1, <1>2
  <2>. DEFINE j == p + SectorCells
  <2>a. j \in p + 2 .. p + SectorCells /\ j - (p + 2) = 1 + D
    BY <1>1, <1>2
  <2>. HIDE DEF j
  <2>2. bo[j] = off + 2 * (j - (p + 2)) /\ j - (p + 2) = 1 + D
    BY <1>6, <2>a
  <2>3. bo[j] = off + 2 * (1 + D)
    BY <2>2
  <2>. QED BY <1>1, <1>4, <2>3 DEF j
<1>8. off + (2 + 2 * D) <= Len(bits)
  BY <1>1, <1>3, <1>7
<1>9. bits[off + 1] = <<<<k, "head", 1>>, 1>> /\ bits[off + 2] = <<<<k, "head", 1>>, 2>>
  <2>1. Whole(bits, bo, p + 3) /\ (p + 3) - 1 = p + 2
    BY <1>1, <1>2 DEF p
  <2>2. bo[(p + 3) - 1] = off
    BY <1>a, <2>1
  <2>3. bits[bo[(p + 3) - 1] + 1] = <<TheCells[p + 3], 1>> /\ bits[bo[(p + 3) - 1] + 2] = <<TheCells[p + 3], 2>>
    BY <2>1 DEF Whole
  <2>. QED BY <1>1, <2>2, <2>3
<1>10. ASSUME NEW i \in 1 .. D
       PROVE  /\ bits[(off + 2) + (2 * i - 1)] = <<<<k, "data", i>>, 1>>
              /\ bits[(off + 2) + 2 * i] = <<<<k, "data", i>>, 2>>
  <2>. DEFINE j == p + (3 + i)
  <2>1. 3 + i \in 3 .. SectorCells /\ j - 1 \in p + 2 .. p + SectorCells /\ (j - 1) - (p + 2) = i
    BY <1>1, <1>2
  <2>2. Whole(bits, bo, j) /\ bo[j - 1] = off + 2 * i
    BY <1>6, <2>1 DEF p
  <2>3. TheCells[j] = <<k, "data", i>>
    BY <1>1
  <2>. HIDE DEF j
  <2>4. bits[bo[j - 1] + 1] = <<<<k, "data", i>>, 1>> /\ bits[bo[j - 1] + 2] = <<<<k, "data", i>>, 2>>
    BY <2>2, <2>3 DEF Whole
  <2>5. bo[j - 1] + 1 = (off + 2) + (2 * i - 1) /\ bo[j - 1] + 2 = (off + 2) + 2 * i
    BY <1>4, <2>2
  <2>. QED BY <2>4, <2>5
<1>12. Slice(off + 2, 2 * D) = [m \in 1 .. 2 * D |-> bits[(off + 2) + m]]
  <2>. DEFINE x == off + 2  y == 2 * D
  <2>1. x \in Nat /\ y \in Nat /\ x + y <= Len(bits)
    <3>. DEFINE z == Len(bits)
    <3>1. z \in Nat /\ off + (2 + 2 * D) <= z /\ D \in Nat
      BY <1>1, <1>8
    <3>. HIDE DEF z
    <3>2. x \in Nat /\ y \in Nat /\ x + y <= z
      BY <1>4, <3>1
    <3>. QED BY <3>2 DEF z
  <2>. HIDE DEF x, y
  <2>2. Slice(x, y) = [m \in 1 .. y |-> bits[x + m]]
    BY <1>1, <2>1, SliceForm, Zenon
  <2>. QED BY <2>2 DEF x, y
<1>14. HeadersAt(off) = {k}
  <2>1. off + 2 <= Len(bits)
    <3>. DEFINE z == Len(bits)
    <3>1. z \in Nat /\ off + (2 + 2 * D) <= z /\ D \in Nat
      BY <1>1, <1>8
    <3>. HIDE DEF z
    <3>2. off + 2 <= z
      BY <1>4, <3>1
    <3>. QED BY <3>2 DEF z
  <2>. QED BY <1>1, <1>4, <1>9, <2>1, HeadRead
<1>15. Slice(off + 2, 2 * D) = Written(k, "data", D)
  <2>1. ASSUME NEW m \in 1 .. 2 * D
        PROVE  bits[(off + 2) + m] = <<<<k, "data", (m + 1) \div 2>>, 2 - (m % 2)>>
    <3>. DEFINE i == (m + 1) \div 2
    <3>1. i \in 1 .. D /\ ((m = 2 * i - 1 /\ m % 2 = 1) \/ (m = 2 * i /\ m % 2 = 0))
      BY <1>1, HalfForm
    <3>. HIDE DEF i
    <3>2. bits[(off + 2) + m] = <<<<k, "data", i>>, 2 - (m % 2)>>
      <4>1. CASE m = 2 * i - 1 /\ m % 2 = 1
        BY <1>10, <3>1, <4>1
      <4>2. CASE m = 2 * i /\ m % 2 = 0
        BY <1>10, <3>1, <4>2
      <4>. QED BY <3>1, <4>1, <4>2
    <3>. QED BY <3>2 DEF i
  <2>. QED BY <1>12, <2>1 DEF Written
<1>16. bo[p + SectorCells] = off + amiga_block_bit_len /\ off + amiga_block_bit_len <= Len(bits)
  BY <1>7, <1>8, Lengths DEF D
<1>17. Slice(off + amiga_hdr_bit_len, amiga_data_bit_len) = Written(k, "data", DataCells)
  BY <1>15, Lengths DEF D
<1>. QED BY <1>4, <1>14, <1>16, <1>17 DEF off, p

LEMMA SectorDecoded ==
  ASSUME NEW pa, NEW bo, Laid(pa, bo), NEW k \in Sectors(track),
         \A i \in 3 .. SectorCells : Whole(bits, bo, pa[k - 1] + i),
         NEW gap_bits, NEW to_gap, NEW lost
  PROVE  LET off == bo[pa[k - 1] + 2]
             b   == decode_amiga_block(off, gap_bits, to_gap, lost)
         IN  /\ b.hdr_ok /\ b.dat_ok /\ b.sector = track[k].sector /\ b.to_gap = track[k].to_gap
             /\ b.gap_bits = gap_bits /\ b.off = off /\ b.lost = lost
<1>. DEFINE off == bo[pa[k - 1] + 2]
            h == CHOOSE h \in HeadersAt(off) : TRUE
            part == Slice(off + amiga_hdr_bit_len, amiga_data_bit_len)
<1>1. HeadersAt(off) = {k} /\ part = Written(k, "data", DataCells)
  BY SectorRead
<1>2. h = k
  BY <1>1
<1>3. HeadersAt(off) # {}
  BY <1>1
<1>4. decode_amiga_block(off, gap_bits, to_gap, lost) =
        [hdr_ok |-> HeadersAt(off) # {},
         dat_ok |-> HeadersAt(off) # {} /\ part = Written(h, "data", DataCells),
         gap_bits |-> gap_bits, off |-> off, lost |-> lost,
         sector |-> IF HeadersAt(off) # {} THEN track[h].sector ELSE 0,
         to_gap |-> IF HeadersAt(off) # {} THEN track[h].to_gap ELSE to_gap]
  BY Zenon DEF decode_amiga_block
<1>. HIDE DEF off, h, part
<1>5. /\ HeadersAt(off) # {} /\ part = Written(h, "data", DataCells)
      /\ track[h].sector = track[k].sector /\ track[h].to_gap = track[k].to_gap
  BY <1>1, <1>2, <1>3
<1>. DEFINE b  == decode_amiga_block(off, gap_bits, to_gap, lost)
            x1 == HeadersAt(off) # {}
            x2 == HeadersAt(off) # {} /\ part = Written(h, "data", DataCells)
            x3 == IF HeadersAt(off) # {} THEN track[h].sector ELSE 0
            x4 == IF HeadersAt(off) # {} THEN track[h].to_gap ELSE to_gap
<1>6. b = [hdr_ok |-> x1, dat_ok |-> x2, gap_bits |-> gap_bits, off |-> off, lost |-> lost,
           sector |-> x3, to_gap |-> x4]
  BY <1>4, Zenon
<1>7. x1 /\ x2 /\ x3 = track[k].sector /\ x4 = track[k].to_gap
  BY <1>5
<1>. HIDE DEF b, x1, x2, x3, x4
<1>8. /\ b.hdr_ok = x1 /\ b.dat_ok = x2 /\ b.sector = x3 /\ b.to_gap = x4
      /\ b.gap_bits = gap_bits /\ b.off = off /\ b.lost = lost
  BY <1>6
<1>9. /\ b.hdr_ok /\ b.dat_ok /\ b.sector = track[k].sector /\ b.to_gap = track[k].to_gap
      /\ b.gap_bits = gap_bits /\ b.off = off /\ b.lost = lost
  BY <1>7, <1>8
<1>. QED BY <1>9, Zenon DEF off, b

(***************************************************************************)
(* Syncs.                                                                  *)
(***************************************************************************)
LEMMA SyncForm ==
  ASSUME NEW pos
  PROVE  SyncAt(pos) <=> /\ pos + 3 <= Len(bits)
                         /\ Look(bits[pos + 1]) = <<"sync", 1, 2>>
                         /\ Look(bits[pos + 2]) = <<"sync", 2, 1>>
                         /\ Look(bits[pos + 3]) = <<"sync", 2, 2>>
<1>1. sync_len = 3 /\ amiga_sync_bit_len = 4 /\ 2 * SyncCells = 4
  BY Lengths DEF SyncCells
<1>2. \A m \in 1 .. 4 : Written(0, "sync", SyncCells)[m] = <<<<0, "sync", (m + 1) \div 2>>, 2 - (m % 2)>>
  BY <1>1 DEF Written
<1>3. \A m \in 1 .. 4 : sync[m] = <<"sync", (m + 1) \div 2, 2 - (m % 2)>>
  BY <1>1, <1>2 DEF sync, Look
<1>4. sync[2] = <<"sync", 1, 2>> /\ sync[3] = <<"sync", 2, 1>> /\ sync[4] = <<"sync", 2, 2>>
  <2>1. (2 + 1) \div 2 = 1 /\ 2 - (2 % 2) = 2 /\ (3 + 1) \div 2 = 2 /\ 2 - (3 % 2) = 1
        /\ (4 + 1) \div 2 = 2 /\ 2 - (4 % 2) = 2
    OBVIOUS
  <2>2. 2 \in 1 .. 4 /\ 3 \in 1 .. 4 /\ 4 \in 1 .. 4
    OBVIOUS
  <2>. QED BY <1>3, <2>1, <2>2
<1>5. (\A m \in 1 .. 3 : Look(bits[pos + m]) = sync[m + 1]) <=>
        /\ Look(bits[pos + 1]) = sync[2] /\ Look(bits[pos + 2]) = sync[3] /\ Look(bits[pos + 3]) = sync[4]
  <2>1. \A m \in 1 .. 3 : m = 1 \/ m = 2 \/ m = 3
    OBVIOUS
  <2>2. 1 \in 1 .. 3 /\ 2 \in 1 .. 3 /\ 3 \in 1 .. 3 /\ 1 + 1 = 2 /\ 2 + 1 = 3 /\ 3 + 1 = 4
    OBVIOUS
  <2>. QED BY <2>1, <2>2
<1>. QED BY <1>1, <1>4, <1>5 DEF SyncAt

LEMMA SyncFound ==
  ASSUME NEW pa, NEW bo, Laid(pa, bo), NEW k \in Sectors(track),
         Whole(bits, bo, pa[k - 1] + 1), Whole(bits, bo, pa[k - 1] + 2), bo[pa[k - 1]] >= 2
  PROVE  LET pos == bo[pa[k - 1]] + 1
         IN  /\ pos \in sync_pos /\ pos \in Nat
             /\ BeginOf(pos) = bo[pa[k - 1] + 2] /\ bo[pa[k - 1] + 2] = pos + 3
<1>. DEFINE p == pa[k - 1]  z == bo[p]  pos == z + 1
<1>1. /\ p \in Nat /\ p + SectorCells <= Count /\ Count \in Nat
      /\ TheCells[p + 1] = <<k, "sync", 1>> /\ TheCells[p + 2] = <<k, "sync", 2>>
  <2>1. Count \in Nat
    BY LaidTyped
  <2>. QED BY <2>1, SectorPlaces
<1>2. Whole(bits, bo, p + 1) /\ Whole(bits, bo, p + 2) /\ z >= 2
  OBVIOUS
<1>. HIDE DEF p
<1>3. p \in 0 .. Count /\ p + 2 \in 0 .. Count /\ (p + 1) - 1 = p /\ (p + 2) - 1 = p + 1
  BY <1>1, Lengths
<1>4. z \in Nat /\ bo[p + 2] \in 0 .. Len(bits) /\ Len(bits) \in Nat
  BY <1>3, LaidTyped
<1>5. bo[p + 1] = z + 2 /\ bits[z + 1] = <<<<k, "sync", 1>>, 1>> /\ bits[z + 2] = <<<<k, "sync", 1>>, 2>>
  <2>. DEFINE q == p + 1
  <2>1. q - 1 = p /\ Whole(bits, bo, q) /\ TheCells[q] = <<k, "sync", 1>>
    BY <1>1, <1>2, <1>3
  <2>. HIDE DEF q
  <2>2. bo[q] = z + 2 /\ bits[z + 1] = <<<<k, "sync", 1>>, 1>> /\ bits[z + 2] = <<<<k, "sync", 1>>, 2>>
    BY <2>1 DEF Whole
  <2>. QED BY <2>2 DEF q
<1>6. bo[p + 2] = z + 4 /\ bits[z + 3] = <<<<k, "sync", 2>>, 1>> /\ bits[z + 4] = <<<<k, "sync", 2>>, 2>>
  <2>. DEFINE q == p + 2
  <2>1. bo[q - 1] = z + 2 /\ Whole(bits, bo, q) /\ TheCells[q] = <<k, "sync", 2>>
    BY <1>1, <1>2, <1>3, <1>5
  <2>. HIDE DEF q, z
  <2>2. bo[q] = z + 2 + 2 /\ bits[z + 2 + 1] = <<<<k, "sync", 2>>, 1>> /\ bits[z + 2 + 2] = <<<<k, "sync", 2>>, 2>>
    BY <2>1 DEF Whole
  <2>3. z + 2 + 2 = z + 4 /\ z + 2 + 1 = z + 3
    BY <1>4
  <2>4. bo[q] = z + 4 /\ bits[z + 3] = <<<<k, "sync", 2>>, 1>> /\ bits[z + 4] = <<<<k, "sync", 2>>, 2>>
    BY <2>2, <2>3
  <2>. QED BY <2>4 DEF q
<1>. HIDE DEF z
<1>7. pos + 3 = z + 4 /\ pos + 1 = z + 2 /\ pos + 2 = z + 3
  BY <1>4
<1>8. /\ Look(bits[pos + 1]) = <<"sync", 1, 2>> /\ Look(bits[pos + 2]) = <<"sync", 2, 1>>
      /\ Look(bits[pos + 3]) = <<"sync", 2, 2>>
  BY <1>5, <1>6, <1>7 DEF Look
<1>9. pos + 3 <= Len(bits) /\ pos \in 3 .. Len(bits) /\ pos \in Nat
  <2>. DEFINE y == Len(bits)  w == bo[p + 2]
  <2>1. y \in Nat /\ w \in 0 .. y /\ w = z + 4 /\ z \in Nat /\ z >= 2
    BY <1>2, <1>4, <1>6
  <2>. HIDE DEF y, w
  <2>2. pos + 3 <= y /\ pos \in 3 .. y /\ pos \in Nat
    BY <2>1
  <2>. QED BY <2>2 DEF y
<1>. HIDE DEF pos
<1>10. pos \in sync_pos
  BY <1>8, <1>9, SyncForm, Lengths DEF sync_pos
<1>11. BeginOf(pos) = pos + 3 /\ bo[p + 2] = pos + 3
  BY <1>6, <1>7, Lengths DEF BeginOf
<1>. QED BY <1>9, <1>10, <1>11 DEF pos, z, p

(* Each sync that is found is one of a sector: its first cell came through. *)
LEMMA SyncOrigin ==
  ASSUME NEW pa, NEW bo, Laid(pa, bo), NEW pos \in sync_pos
  PROVE  /\ pos \in Nat /\ pos + 3 <= Len(bits)
         /\ \E k \in Sectors(track) :
              /\ pos = bo[pa[k - 1]] + 1 /\ Whole(bits, bo, pa[k - 1] + 1)
              /\ bits[bo[pa[k - 1] + 1] + 1][1] # Nothing
<1>1. pos \in 3 .. Len(bits) /\ SyncAt(pos)
  BY Lengths DEF sync_pos
<1>2. /\ bits \in Seq(BitId) /\ Count \in Nat /\ Len(track) \in Nat /\ Rising(bo, Count)
      /\ bo \in [0 .. Count -> Nat]
      /\ pa \in [0 .. Len(track) -> Nat]
  BY LaidTyped
<1>3. Len(bits) \in Nat
  BY <1>2
<1>4. /\ pos \in Nat /\ pos + 3 <= Len(bits)
      /\ Look(bits[pos + 1]) = <<"sync", 1, 2>> /\ Look(bits[pos + 2]) = <<"sync", 2, 1>>
  BY <1>1, <1>3, SyncForm
<1>. DEFINE m == pos + 1
<1>5. m \in 1 .. Len(bits)
  BY <1>3, <1>4
<1>6. PICK j \in 1 .. Count : bo[j - 1] < m /\ m <= bo[j]
  <2>1. bo[0] = 0 /\ bo[Count] = Len(bits)
    BY DEF Laid, Strip
  <2>. HIDE DEF m
  <2>. QED BY <1>2, <1>5, <2>1, RisingPlace
<1>7. j - 1 \in 0 .. Count /\ j \in 0 .. Count /\ bo[j - 1] \in Nat /\ bo[j] \in Nat
  BY <1>2
<1>8. bits[m][1][2] = "sync" /\ bits[m][1][3] = 1 /\ bits[m][2] = 2
  BY <1>4 DEF Look
<1>. DEFINE y == bo[j - 1]  i == m - y
<1>9. i \in 1 .. bo[j] - bo[j - 1] /\ bo[j - 1] + i = m
  <2>. DEFINE w == bo[j]
  <2>1. y \in Nat /\ w \in Nat /\ y < m /\ m <= w /\ m \in Nat
    BY <1>4, <1>6, <1>7
  <2>. HIDE DEF y, w, m
  <2>2. i \in 1 .. w - y /\ y + i = m
    BY <2>1
  <2>. QED BY <2>2 DEF w, y
<1>10. ~Blank(bits, bo, j)
  <2>. SUFFICES ASSUME Blank(bits, bo, j) PROVE FALSE
    OBVIOUS
  <2>. HIDE DEF m, i
  <2>1. bits[m][1] = Nothing
    BY <1>9 DEF Blank
  <2>. QED BY <1>8, <2>1 DEF Nothing
<1>11. Whole(bits, bo, j)
  BY <1>10 DEF Laid, Strip
<1>12. bo[j] = y + 2 /\ bits[y + 1] = <<TheCells[j], 1>> /\ bits[y + 2] = <<TheCells[j], 2>>
  BY <1>11 DEF Whole
<1>13. m = y + 2 /\ TheCells[j][2] = "sync" /\ TheCells[j][3] = 1
  <2>1. i \in 1 .. 2 /\ y + i = m /\ y \in Nat
    <3>. DEFINE w == bo[j]
    <3>1. y \in Nat /\ w \in Nat /\ y < m /\ m <= w /\ m \in Nat /\ w = y + 2
      BY <1>4, <1>6, <1>7, <1>12
    <3>. HIDE DEF y, w, m
    <3>. QED BY <3>1
  <2>. HIDE DEF y, m, i
  <2>2. CASE i = 1
    <3>1. bits[m] = <<TheCells[j], 1>>
      BY <1>12, <2>1, <2>2
    <3>. QED BY <1>8, <3>1
  <2>3. CASE i = 2
    <3>1. bits[m] = <<TheCells[j], 2>> /\ m = y + 2
      BY <1>12, <2>1, <2>3
    <3>. QED BY <1>8, <3>1
  <2>. QED BY <2>1, <2>2, <2>3
<1>14. PICK k \in 1 .. Len(track) : \E n \in 1 .. pa[k] - pa[k - 1] : j = pa[k - 1] + n
  BY DEF Laid, Placed, Count, TheCells
<1>15. PICK n \in 1 .. pa[k] - pa[k - 1] : j = pa[k - 1] + n
  BY <1>14
<1>16. InPart(track, k, j, n)
  BY <1>15 DEF Laid, Placed
<1>17. k \in Sectors(track) /\ n = 1
  BY <1>13, <1>16 DEF InPart, TheCells
<1>18. k - 1 \in 0 .. Len(track) /\ pa[k - 1] \in Nat
  <2>1. k - 1 \in 0 .. Len(track)
    BY <1>2
  <2>. DEFINE g == k - 1
  <2>. HIDE DEF g
  <2>2. g \in 0 .. Len(track) => pa[g] \in Nat
    BY <1>2
  <2>. QED BY <2>1, <2>2 DEF g
<1>19. j = pa[k - 1] + 1 /\ j - 1 = pa[k - 1] /\ pos = bo[j - 1] + 1
  <2>1. j = pa[k - 1] + 1 /\ j - 1 = pa[k - 1]
    BY <1>15, <1>17, <1>18
  <2>2. pos = y + 1
    <3>1. pos \in Nat /\ y \in Nat /\ pos + 1 = y + 2
      BY <1>4, <1>7, <1>13
    <3>. HIDE DEF y
    <3>. QED BY ONLY <3>1
  <2>. QED BY <2>1, <2>2
<1>20. bits[bo[j] + 1][1] # Nothing
  <2>1. bo[j] + 1 = pos + 2
    <3>. HIDE DEF y
    <3>1. y \in Nat /\ bo[j] = y + 2 /\ pos + 1 = y + 2 /\ pos \in Nat
      BY <1>4, <1>7, <1>12, <1>13 DEF y
    <3>. QED BY <3>1
  <2>2. bits[pos + 2][1][2] = "sync"
    BY <1>4 DEF Look
  <2>. QED BY <2>1, <2>2 DEF Nothing
<1>21. Whole(bits, bo, pa[k - 1] + 1) /\ pos = bo[pa[k - 1]] + 1 /\ bits[bo[pa[k - 1] + 1] + 1][1] # Nothing
  BY <1>11, <1>19, <1>20
<1>. QED BY <1>4, <1>17, <1>21

(* Each cell of a part is in its place. *)
LEMMA PartPlace ==
  ASSUME NEW pa, NEW bo, Laid(pa, bo), NEW g \in 1 .. Len(track), NEW c \in ToSet(CellsOf(track, g))
  PROVE  \E j \in 1 .. Count : c = TheCells[j] /\ j <= pa[g] /\ pa[g - 1] < j
<1>. DEFINE s == CellsOf(track, g)
<1>1. track \in Tracks /\ g \in DOMAIN track /\ Placed(track, pa)
  BY LaidTyped, TrackForm DEF Laid
<1>2. s \in Seq(CellId)
  BY <1>1, SectorForm, GapForm
<1>3. PICK i \in 1 .. Len(s) : c = s[i]
  <2>. HIDE DEF s
  <2>1. c \in {s[i] : i \in DOMAIN s} /\ DOMAIN s = 1 .. Len(s)
    BY <1>2 DEF ToSet, s
  <2>. QED BY <2>1
<1>. DEFINE y == pa[g - 1]  z == pa[g]  j == y + i
<1>4. y \in 0 .. Count /\ z \in 0 .. Count /\ Count \in Nat /\ z = y + Len(s) /\ Len(s) \in Nat
  <2>1. g - 1 \in 0 .. Len(track) /\ g \in 0 .. Len(track)
    BY LaidTyped
  <2>2. z = y + Len(s)
    BY <1>1 DEF Placed
  <2>3. y \in 0 .. Count /\ z \in 0 .. Count
    <3>. DEFINE h == g - 1
    <3>. HIDE DEF h
    <3>1. h \in 0 .. Len(track) => pa[h] \in 0 .. Count
      BY LaidTyped
    <3>2. z \in 0 .. Count
      BY <2>1, LaidTyped
    <3>. QED BY <2>1, <3>1, <3>2 DEF h
  <2>. QED BY <1>2, <2>2, <2>3, LaidTyped
<1>5. i \in 1 .. z - y
  <2>. HIDE DEF s, y, z
  <2>. QED BY <1>3, <1>4
<1>6. InPart(track, g, j, i)
  BY <1>1, <1>5 DEF Placed
<1>7. c = TheCells[j]
  BY <1>3, <1>6 DEF InPart, TheCells
<1>8. j \in 1 .. Count /\ j <= z /\ y < j
  <2>. HIDE DEF s, y, z
  <2>. QED BY <1>4, <1>5
<1>. QED BY <1>7, <1>8

(* A sync that the properties call seen comes through and is found.        *)
LEMMA SeenWhole ==
  ASSUME NEW pa, NEW bo, Laid(pa, bo), NEW k, SyncSeen(k)
  PROVE  /\ k \in Sectors(track) /\ Whole(bits, bo, pa[k - 1] + 1) /\ Whole(bits, bo, pa[k - 1] + 2)
         /\ bo[pa[k - 1]] >= 2
<1>1. k \in Sectors(track) /\ \A c \in CellsIn(k, {"sync"}) : Becomes(c, Harmless)
  BY DEF SyncSeen
<1>2. k \in 1 .. Len(track) /\ Len(track) \in Nat /\ Count \in Nat
  BY <1>1, SectorPlaces, LaidTyped
<1>. DEFINE p == pa[k - 1]
<1>3. p \in Nat /\ p + SectorCells <= Count
  BY <1>1, SectorPlaces
<1>4. p + 1 \in 1 .. Count /\ p + 2 \in 1 .. Count
  <2>. HIDE DEF p
  <2>. QED BY <1>2, <1>3, Lengths
<1>5. Becomes(TheCells[p + 1], Harmless) /\ Becomes(TheCells[p + 2], Harmless)
  <2>1. CellsIn(k, {"sync"}) = {TheCells[p + 1], TheCells[p + 2]}
    BY <1>1, CellsInForm
  <2>. QED BY <1>1, <2>1
<1>6. \A j \in 1 .. Count : Becomes(TheCells[j], Harmless) => Whole(bits, bo, j)
  BY DEF Laid, Strip
<1>7. Whole(bits, bo, p + 1) /\ Whole(bits, bo, p + 2)
  <2>. HIDE DEF p
  <2>. QED BY <1>4, <1>5, <1>6
<1>8. PICK g \in 1 .. k - 1 : \E c \in ToSet(CellsOf(track, g)) : Becomes(c, Harmless)
  BY DEF SyncSeen
<1>9. PICK c \in ToSet(CellsOf(track, g)) : Becomes(c, Harmless)
  BY <1>8
<1>10. g \in 1 .. Len(track) /\ g \in 0 .. Len(track) /\ k - 1 \in 0 .. Len(track) /\ g <= k - 1
  BY <1>2
<1>11. PICK j \in 1 .. Count : c = TheCells[j] /\ j <= pa[g]
  BY <1>10, PartPlace
<1>12. Whole(bits, bo, j)
  BY <1>6, <1>9, <1>11
<1>13. pa[g] <= p /\ pa[g] \in Nat
  <2>1. \A m, l \in 0 .. Len(track) : m <= l => pa[m] <= pa[l]
    BY LaidTyped
  <2>. DEFINE h == k - 1
  <2>2. pa[g] <= pa[h]
    <3>. HIDE DEF h
    <3>. QED BY <1>10, <2>1 DEF h
  <2>. QED BY <1>10, <2>2, LaidTyped
<1>. DEFINE x == bo[j - 1]  y == bo[j]  z == bo[p]
<1>14. y = x + 2 /\ x \in Nat /\ y \in Nat /\ z \in Nat
  <2>1. j - 1 \in 0 .. Count /\ j \in 0 .. Count /\ p \in 0 .. Count
    BY <1>2, <1>3, Lengths
  <2>. DEFINE h == j - 1
  <2>2. bo[h] \in Nat /\ bo[j] \in Nat /\ bo[p] \in Nat
    <3>. HIDE DEF h, p
    <3>. QED BY <2>1, LaidTyped DEF h
  <2>. QED BY <1>12, <2>2 DEF Whole
<1>15. y <= z
  <2>. HIDE DEF p
  <2>1. j \in 0 .. Count /\ p \in 0 .. Count /\ j <= p
    BY <1>2, <1>3, <1>11, <1>13, Lengths
  <2>. QED BY <2>1, LaidTyped
<1>. HIDE DEF x, y, z
<1>16. z >= 2
  BY <1>14, <1>15
<1>. QED BY <1>1, <1>7, <1>16 DEF z

LEMMA SeenFound ==
  ASSUME NEW pa, NEW bo, Laid(pa, bo), NEW k, SyncSeen(k)
  PROVE  LET pos == bo[pa[k - 1]] + 1
         IN  /\ pos \in sync_pos /\ pos \in Nat
             /\ BeginOf(pos) = bo[pa[k - 1] + 2] /\ bo[pa[k - 1] + 2] = pos + 3
BY SeenWhole, SyncFound

LEMMA HeadDecoded ==
  ASSUME NEW k \in Sectors(track), NEW off, HeadersAt(off) = {k}, NEW gap_bits, NEW to_gap, NEW lost
  PROVE  LET b == decode_amiga_block(off, gap_bits, to_gap, lost)
         IN  b.hdr_ok /\ b.to_gap = track[k].to_gap /\ b.gap_bits = gap_bits /\ b.off = off
<1>. DEFINE h == CHOOSE h \in HeadersAt(off) : TRUE
            part == Slice(off + amiga_hdr_bit_len, amiga_data_bit_len)
            ok == HeadersAt(off) # {}
            dat == ok /\ part = Written(h, "data", DataCells)
            sec == IF ok THEN track[h].sector ELSE 0
            gap == IF ok THEN track[h].to_gap ELSE to_gap
<1>1. h = k /\ ok = TRUE
  OBVIOUS
<1>2. gap = track[k].to_gap
  BY <1>1
<1>3. decode_amiga_block(off, gap_bits, to_gap, lost) =
        [hdr_ok |-> ok, dat_ok |-> dat, gap_bits |-> gap_bits, off |-> off, lost |-> lost,
         sector |-> sec, to_gap |-> gap]
  BY DEF decode_amiga_block
<1>. HIDE DEF ok, dat, sec, gap
<1>. QED BY <1>1, <1>2, <1>3

(***************************************************************************)
(* The line of sectors from o to k.                                        *)
(***************************************************************************)
LEMMA PartsOrdered ==
  ASSUME NEW pa, NEW bo, Laid(pa, bo), NEW k \in 1 .. Len(track), NEW m \in 1 .. Len(track), k < m
  PROVE  pa[k] <= pa[m - 1] /\ bo[pa[k]] <= bo[pa[m - 1]]
<1>1. k \in 0 .. Len(track) /\ m - 1 \in 0 .. Len(track) /\ k <= m - 1
  BY LaidTyped
<1>. DEFINE h == m - 1
<1>2. h \in 0 .. Len(track) /\ k <= h
  BY <1>1
<1>. HIDE DEF h
<1>3. pa[k] <= pa[h] /\ pa[k] \in 0 .. Count /\ pa[h] \in 0 .. Count
  BY <1>1, <1>2, LaidTyped
<1>4. bo[pa[k]] <= bo[pa[h]]
  BY <1>3, LaidTyped
<1>. QED BY <1>3, <1>4 DEF h

(* The cells from sector o to the end of sector k are all of two bits.     *)
EvenLine(pa, bo, o, k) ==
  \A j \in pa[o - 1] + 1 .. pa[k] : bo[j] = bo[j - 1] + 2

LEMMA LineStraight ==
  ASSUME NEW pa, NEW bo, Laid(pa, bo), NEW o \in 1 .. Len(track), NEW k \in 1 .. Len(track), o <= k,
         o .. k \subseteq Sectors(track), EvenLine(pa, bo, o, k)
  PROVE  /\ pa[k - 1] = pa[o - 1] + SectorCells * (k - o) /\ pa[k] = pa[k - 1] + SectorCells
         /\ pa[o - 1] \in Nat
         /\ bo[pa[o - 1]] \in Nat /\ bo[pa[o - 1] + 2] = bo[pa[o - 1]] + 4
         /\ bo[pa[k - 1] + 2] = bo[pa[o - 1]] + 4 + (k - o) * amiga_sync_block_bit_len
         /\ bo[pa[k]] = bo[pa[k - 1] + 2] + amiga_block_bit_len
<1>. DEFINE p == o - 1  q == k - 1  L == Len(track)  S == SectorCells  D == DataCells
<1>1. /\ p \in 0 .. L /\ q \in 0 .. L /\ k \in 0 .. L /\ p <= q /\ L \in Nat /\ q - p = k - o /\ k \in Nat
      /\ o \in Nat /\ p + 1 = o /\ k - 1 = q
  BY LaidTyped
<1>2. S \in Nat /\ S = 3 + D /\ D \in Nat
  BY Lengths
<1>3. /\ pa \in [0 .. L -> Nat] /\ bo \in [0 .. Count -> Nat] /\ Count \in Nat
      /\ \A g \in 0 .. L : pa[g] \in 0 .. Count
  BY LaidTyped
<1>4. \A g \in Sectors(track) : pa[g] = pa[g - 1] + S
  BY DEF Laid, Placed
<1>5. \A g \in p + 1 .. q : pa[g] = pa[g - 1] + S
  BY <1>1, <1>4
<1>6. pa[k] = pa[q] + S
  BY <1>4
<1>. DEFINE x == pa[p]  y == pa[q]  z == pa[k]  n == k - o
<1>7. n \in Nat /\ q - p = n
  BY <1>1
<1>. HIDE DEF p, q, L, S, D
<1>8. x \in 0 .. Count /\ y \in 0 .. Count /\ z \in 0 .. Count
  BY <1>1, <1>3
<1>9. \A g \in p .. q : pa[g] = pa[p] + S * (g - p)
  <2>. HIDE DEF x, y, z, n
  <2>1. L \in Nat /\ pa \in [0 .. L -> Nat] /\ S \in Nat /\ p \in 0 .. L /\ q \in 0 .. L
    BY <1>1, <1>2, <1>3
  <2>. QED BY <1>5, <2>1, Straight, Zenon
<1>10. y = x + S * n
  <2>1. q \in p .. q
    BY <1>1
  <2>2. pa[q] = pa[p] + S * (q - p)
    BY <1>9, <2>1
  <2>. QED BY <1>7, <2>2
<1>11. \A j \in x + 1 .. z : bo[j] = bo[j - 1] + 2
  BY DEF EvenLine, p
<1>. HIDE DEF x, y, z, n
<1>12. \A j \in x .. z : bo[j] = bo[x] + 2 * (j - x)
  <2>1. 2 \in Nat
    OBVIOUS
  <2>. QED BY <1>3, <1>8, <1>11, <2>1, Straight, Zenon
<1>13. z = y + S
  BY <1>6 DEF y, z
<1>. DEFINE w == S * n
<1>14. w \in Nat
  BY <1>2, <1>7
<1>. HIDE DEF w
<1>15. y = x + w
  BY <1>10 DEF w
<1>16. x + 2 \in x .. z /\ y + 2 \in x .. z /\ z \in x .. z
  BY <1>2, <1>8, <1>13, <1>14, <1>15
<1>17. x \in Nat /\ bo[x] \in Nat
  BY <1>3, <1>8
<1>18. bo[x + 2] = bo[x] + 2 * 2
  <2>1. (x + 2) - x = 2
    BY <1>17
  <2>. QED BY <1>12, <1>16, <2>1
<1>19. bo[y + 2] = bo[x] + 2 * (w + 2)
  <2>1. (y + 2) - x = w + 2
    BY <1>14, <1>15, <1>17
  <2>. QED BY <1>12, <1>16, <2>1
<1>20. bo[z] = bo[x] + 2 * (w + S)
  <2>1. z - x = w + S
    BY <1>2, <1>13, <1>14, <1>15, <1>17
  <2>. QED BY <1>12, <1>16, <2>1
<1>. DEFINE v == n * (6 + 2 * D)
<1>21. v = 2 * w
  <2>1. n * (6 + 2 * D) = 2 * ((3 + D) * n)
    BY <1>2, <1>7
  <2>. QED BY <1>2, <2>1 DEF w
<1>. HIDE DEF v
<1>22. bo[y + 2] = bo[x] + 4 + v /\ bo[z] = bo[y + 2] + (2 + 2 * D) /\ bo[x + 2] = bo[x] + 4
  <2>. DEFINE atx == bo[x]  atx2 == bo[x + 2]  aty2 == bo[y + 2]  atz == bo[z]
  <2>1. atx2 = atx + 2 * 2 /\ aty2 = atx + 2 * (w + 2) /\ atz = atx + 2 * (w + S) /\ atx \in Nat
    BY <1>17, <1>18, <1>19, <1>20, Zenon
  <2>. HIDE DEF atx, atx2, aty2, atz
  <2>2. aty2 = atx + 4 + v /\ atz = aty2 + (2 + 2 * D) /\ atx2 = atx + 4
    BY <1>2, <1>14, <1>21, <2>1
  <2>. QED BY <2>2 DEF atx, atx2, aty2, atz
<1>23. n * amiga_sync_block_bit_len = v /\ amiga_block_bit_len = 2 + 2 * D
  BY Lengths DEF v, D
<1>24. y = x + S * n
  BY <1>10
<1>. QED BY <1>13, <1>17, <1>22, <1>23, <1>24 DEF x, y, z, p, q, S, n

(* What InLine says of o. *)
InLineFrom(o, k) ==
  /\ o .. k \subseteq Sectors(track) /\ SyncSeen(o) /\ track[o].to_gap # 1
  /\ \A c \in CellsIn(o, {"head"}) : Becomes(c, Harmless)
  /\ \A c \in (UNION {CellsIn(m, {"sync", "head", "data"}) : m \in o .. k - 1})
             \cup CellsIn(k, {"sync"}) : Becomes(c, SameLength)
  /\ \A m \in o + 1 .. k : ~SyncSeen(m)

(* Each cell of the track is in a part. *)
LEMMA CellPart ==
  ASSUME NEW pa, NEW bo, Laid(pa, bo), NEW j \in 1 .. Count
  PROVE  \E g \in 1 .. Len(track) : \E i \in 1 .. pa[g] - pa[g - 1] :
           j = pa[g - 1] + i /\ pa[g - 1] \in Nat /\ pa[g] \in Nat
<1>1. PICK g \in 1 .. Len(track) : \E i \in 1 .. pa[g] - pa[g - 1] : j = pa[g - 1] + i
  BY DEF Laid, Placed, Count, TheCells
<1>2. PICK i \in 1 .. pa[g] - pa[g - 1] : j = pa[g - 1] + i
  BY <1>1
<1>3. g - 1 \in 0 .. Len(track) /\ g \in 0 .. Len(track)
  BY LaidTyped
<1>4. pa[g - 1] \in Nat /\ pa[g] \in Nat
  <2>. DEFINE h == g - 1
  <2>. HIDE DEF h
  <2>1. h \in 0 .. Len(track) => pa[h] \in Nat
    BY LaidTyped
  <2>2. pa[g] \in Nat
    BY <1>3, LaidTyped
  <2>. QED BY <1>3, <2>1, <2>2 DEF h
<1>. QED BY <1>2, <1>4

LEMMA LineCell ==
  ASSUME NEW pa, NEW bo, Laid(pa, bo), NEW o \in 1 .. Len(track), NEW k \in 1 .. Len(track),
         InLineFrom(o, k), NEW g \in o .. k, NEW i \in 1 .. SectorCells, g < k \/ i \in 1 .. 2
  PROVE  Becomes(TheCells[pa[g - 1] + i], SameLength)
<1>1. g \in Sectors(track) /\ k \in Sectors(track)
  <2>1. k \in o .. k
    BY LaidTyped
  <2>. QED BY <2>1 DEF InLineFrom
<1>2. CASE g < k
  <2>1. TheCells[pa[g - 1] + i] \in CellsIn(g, {"sync", "head", "data"})
    BY <1>1, CellsInForm
  <2>2. g \in o .. k - 1
    BY <1>2, LaidTyped
  <2>3. CellsIn(g, {"sync", "head", "data"}) \in {CellsIn(m, {"sync", "head", "data"}) : m \in o .. k - 1}
    BY <2>2
  <2>. QED BY <2>1, <2>3 DEF InLineFrom
<1>3. CASE ~(g < k)
  <2>1. g = k /\ (i = 1 \/ i = 2)
    BY <1>3, LaidTyped
  <2>2. CellsIn(k, {"sync"}) = {TheCells[pa[k - 1] + 1], TheCells[pa[k - 1] + 2]}
    BY <1>1, CellsInForm
  <2>3. TheCells[pa[g - 1] + i] \in CellsIn(k, {"sync"})
    BY <2>1, <2>2
  <2>. QED BY <2>3 DEF InLineFrom
<1>. QED BY <1>2, <1>3

LEMMA LineEven ==
  ASSUME NEW pa, NEW bo, Laid(pa, bo), NEW o \in 1 .. Len(track), NEW k \in 1 .. Len(track), o <= k,
         InLineFrom(o, k), \A i \in 3 .. SectorCells : Whole(bits, bo, pa[k - 1] + i)
  PROVE  EvenLine(pa, bo, o, k)
<1>. SUFFICES ASSUME NEW j \in pa[o - 1] + 1 .. pa[k] PROVE bo[j] = bo[j - 1] + 2
  BY DEF EvenLine
<1>1. pa[o - 1] \in 0 .. Count /\ pa[k] \in 0 .. Count /\ Count \in Nat
  <2>1. o - 1 \in 0 .. Len(track) /\ k \in 0 .. Len(track)
    BY LaidTyped
  <2>. DEFINE h == o - 1
  <2>. HIDE DEF h
  <2>2. h \in 0 .. Len(track) => pa[h] \in 0 .. Count
    BY LaidTyped
  <2>. QED BY <2>1, <2>2, LaidTyped DEF h
<1>. DEFINE x == pa[o - 1]  z == pa[k]
<1>2. j \in 1 .. Count /\ x < j /\ j <= z
  <2>. HIDE DEF x, z
  <2>. QED BY <1>1 DEF x, z
<1>3. PICK g \in 1 .. Len(track) : \E i \in 1 .. pa[g] - pa[g - 1] :
        j = pa[g - 1] + i /\ pa[g - 1] \in Nat /\ pa[g] \in Nat
  <2>. HIDE DEF x, z
  <2>. QED BY <1>2, CellPart
<1>4. PICK i \in 1 .. pa[g] - pa[g - 1] : j = pa[g - 1] + i /\ pa[g - 1] \in Nat /\ pa[g] \in Nat
  BY <1>3
<1>. DEFINE u == pa[g - 1]  v == pa[g]
<1>5. u < j /\ j <= v /\ u \in Nat /\ v \in Nat /\ j \in Nat
  <2>1. i \in 1 .. v - u /\ j = u + i /\ u \in Nat /\ v \in Nat
    BY <1>4, Zenon
  <2>. HIDE DEF u, v
  <2>. QED BY ONLY <2>1
<1>a. x < j /\ j <= z /\ x \in Nat /\ z \in Nat
  <2>1. x \in 0 .. Count /\ z \in 0 .. Count
    BY <1>1, Zenon
  <2>. HIDE DEF x, z
  <2>. QED BY ONLY <1>1, <1>2, <2>1
<1>6. o <= g
  <2>. SUFFICES ASSUME g < o PROVE FALSE
    BY LaidTyped
  <2>1. v <= x
    BY PartsOrdered
  <2>. HIDE DEF u, v, x, z
  <2>. QED BY ONLY <1>5, <1>a, <2>1
<1>7. g <= k
  <2>. SUFFICES ASSUME k < g PROVE FALSE
    BY LaidTyped
  <2>1. z <= u
    BY PartsOrdered
  <2>. HIDE DEF u, v, x, z
  <2>. QED BY ONLY <1>5, <1>a, <2>1
<1>8. g \in o .. k
  BY <1>6, <1>7, LaidTyped
<1>9. g \in Sectors(track) /\ v = u + SectorCells
  <2>1. g \in Sectors(track)
    BY <1>8 DEF InLineFrom
  <2>. QED BY <2>1, SectorPlaces
<1>10. i \in 1 .. SectorCells
  <2>1. i \in 1 .. v - u /\ v = u + SectorCells /\ u \in Nat /\ SectorCells \in Nat
    BY <1>4, <1>9, Lengths
  <2>. HIDE DEF u, v
  <2>. QED BY ONLY <2>1
<1>11. CASE g < k \/ i \in 1 .. 2
  <2>1. Becomes(TheCells[u + i], SameLength)
    BY <1>8, <1>10, <1>11, LineCell
  <2>2. Becomes(TheCells[j], SameLength)
    BY <1>4, <2>1
  <2>. HIDE DEF x, z
  <2>. QED BY <1>2, <2>2 DEF Laid, Strip
<1>12. CASE ~(g < k \/ i \in 1 .. 2)
  <2>1. g = k /\ i \in 3 .. SectorCells
    BY <1>8, <1>10, <1>12, Lengths, LaidTyped
  <2>2. Whole(bits, bo, j)
    BY <1>4, <2>1
  <2>. QED BY <2>2 DEF Whole
<1>. QED BY <1>11, <1>12

(* A cell of the length of a cell, with a bit that is not wrong, is whole. *)
LEMMA FlippedBlank ==
  ASSUME NEW pa, NEW bo, Laid(pa, bo), NEW j \in 1 .. Count, Becomes(TheCells[j], SameLength),
         bits[bo[j - 1] + 1][1] # Nothing
  PROVE  Becomes(TheCells[j], Harmless)
<1>1. KindAt(j) # "flip"
  <2>. SUFFICES ASSUME KindAt(j) = "flip" PROVE FALSE
    OBVIOUS
  <2>1. Blank(bits, bo, j) /\ bo[j] = bo[j - 1] + 2
    BY DEF Laid, Strip
  <2>2. bo[j - 1] \in Nat
    <3>1. j - 1 \in 0 .. Count
      BY LaidTyped
    <3>. DEFINE h == j - 1
    <3>. HIDE DEF h
    <3>2. h \in 0 .. Count => bo[h] \in Nat
      BY LaidTyped
    <3>. QED BY <3>1, <3>2 DEF h
  <2>3. 1 \in 1 .. bo[j] - bo[j - 1]
    BY <2>1, <2>2
  <2>. QED BY <2>1, <2>3 DEF Blank
<1>. QED BY <1>1 DEF Becomes, Harmless, SameLength, KindAt

LEMMA LineQuiet ==
  ASSUME NEW pa, NEW bo, Laid(pa, bo), NEW o \in 1 .. Len(track), NEW k \in 1 .. Len(track), o < k,
         InLineFrom(o, k), EvenLine(pa, bo, o, k),
         NEW pos \in sync_pos, bo[pa[o - 1]] + 1 < pos
  PROVE  pos > bo[pa[k]]
<1>. SUFFICES ASSUME ~(pos > bo[pa[k]]) PROVE FALSE
  OBVIOUS
<1>1. PICK g \in Sectors(track) :
        /\ pos = bo[pa[g - 1]] + 1 /\ Whole(bits, bo, pa[g - 1] + 1)
        /\ bits[bo[pa[g - 1] + 1] + 1][1] # Nothing
  BY SyncOrigin
<1>2. /\ g \in 1 .. Len(track) /\ g - 1 \in 0 .. Len(track) /\ o - 1 \in 0 .. Len(track)
      /\ k \in 0 .. Len(track) /\ g \in Nat /\ o \in Nat /\ k \in Nat
  BY LaidTyped, SectorPlaces
<1>3. /\ \A m \in 0 .. Len(track) : pa[m] \in 0 .. Count /\ bo[pa[m]] \in Nat
      /\ \A m, l \in 0 .. Len(track) : m <= l => bo[pa[m]] <= bo[pa[l]]
  <2>1. \A m, l \in 0 .. Len(track) : m <= l => pa[m] <= pa[l]
    BY LaidTyped
  <2>2. \A m \in 0 .. Len(track) : pa[m] \in 0 .. Count
    BY LaidTyped
  <2>3. \A i, j \in 0 .. Count : i <= j => bo[i] <= bo[j]
    BY LaidTyped
  <2>4. \A j \in 0 .. Count : bo[j] \in Nat
    BY LaidTyped
  <2>. QED BY <2>1, <2>2, <2>3, <2>4
<1>. DEFINE gg == g - 1  oo == o - 1
<1>4. gg \in 0 .. Len(track) /\ oo \in 0 .. Len(track)
  BY <1>2
<1>5. pos = bo[pa[gg]] + 1 /\ bo[pa[oo]] + 1 < pos /\ ~(pos > bo[pa[k]])
  BY <1>1
<1>6. oo < gg
  <2>. HIDE DEF gg, oo
  <2>1. CASE gg <= oo
    <3>1. bo[pa[gg]] <= bo[pa[oo]] /\ bo[pa[gg]] \in Nat /\ bo[pa[oo]] \in Nat
      BY <1>3, <1>4, <2>1
    <3>. DEFINE a == bo[pa[gg]]  b == bo[pa[oo]]
    <3>2. a <= b /\ a \in Nat /\ b \in Nat /\ pos = a + 1 /\ b + 1 < pos
      BY <1>5, <3>1
    <3>. HIDE DEF a, b
    <3>. QED BY <3>2
  <2>. QED BY <1>4, <2>1
<1>7. gg < k
  <2>. HIDE DEF gg, oo
  <2>1. CASE k <= gg
    <3>1. bo[pa[k]] <= bo[pa[gg]] /\ bo[pa[gg]] \in Nat /\ bo[pa[k]] \in Nat
      BY <1>2, <1>3, <1>4, <2>1
    <3>. DEFINE a == bo[pa[gg]]  b == bo[pa[k]]
    <3>2. b <= a /\ a \in Nat /\ b \in Nat /\ pos = a + 1 /\ ~(pos > b)
      BY <1>5, <3>1
    <3>. HIDE DEF a, b
    <3>. QED BY <3>2
  <2>. QED BY <1>2, <1>4, <2>1
<1>8. g \in o + 1 .. k /\ g \in o .. k
  BY <1>2, <1>6, <1>7
<1>9. ~SyncSeen(g)
  BY <1>8 DEF InLineFrom
<1>. DEFINE p == pa[g - 1]
<1>10. p \in Nat /\ p + SectorCells <= Count /\ Count \in Nat
  BY SectorPlaces, LaidTyped
<1>11. Becomes(TheCells[p + 1], SameLength) /\ Becomes(TheCells[p + 2], SameLength)
  <2>1. 1 \in 1 .. SectorCells /\ 2 \in 1 .. SectorCells /\ 1 \in 1 .. 2 /\ 2 \in 1 .. 2
    BY Lengths
  <2>. QED BY <1>8, <2>1, LineCell
<1>12. CellsIn(g, {"sync"}) = {TheCells[p + 1], TheCells[p + 2]}
  BY CellsInForm
<1>13. Whole(bits, bo, p + 1) /\ bits[bo[p + 1] + 1][1] # Nothing
  BY <1>1
<1>14. TheCells[p + 1] = <<g, "sync", 1>>
  BY SectorPlaces
<1>. HIDE DEF p
<1>15. p + 1 \in 1 .. Count /\ p + 2 \in 1 .. Count /\ (p + 2) - 1 = p + 1
  BY <1>10, Lengths
<1>16. Becomes(TheCells[p + 1], Harmless)
  <2>. DEFINE j == p + 1
  <2>1. j \in 1 .. Count /\ Whole(bits, bo, j) /\ TheCells[j] = <<g, "sync", 1>> /\ Becomes(TheCells[j], SameLength)
    BY <1>11, <1>13, <1>14, <1>15
  <2>. HIDE DEF j
  <2>2. bits[bo[j - 1] + 1] = <<<<g, "sync", 1>>, 1>>
    BY <2>1 DEF Whole
  <2>3. bits[bo[j - 1] + 1][1] # Nothing
    BY <2>2 DEF Nothing
  <2>4. Becomes(TheCells[j], Harmless)
    BY <2>1, <2>3, FlippedBlank
  <2>. QED BY <2>4 DEF j
<1>17. Becomes(TheCells[p + 2], Harmless)
  <2>. DEFINE j == p + 2
  <2>1. j \in 1 .. Count /\ bits[bo[j - 1] + 1][1] # Nothing /\ Becomes(TheCells[j], SameLength)
    BY <1>11, <1>13, <1>15
  <2>. HIDE DEF j
  <2>2. Becomes(TheCells[j], Harmless)
    BY <2>1, FlippedBlank
  <2>. QED BY <2>2 DEF j
<1>18. \A c \in CellsIn(g, {"sync"}) : Becomes(c, Harmless)
  BY <1>12, <1>16, <1>17
<1>19. \E h \in 1 .. g - 1 : \E c \in ToSet(CellsOf(track, h)) : Becomes(c, Harmless)
  <2>1. o \in 1 .. g - 1
    BY <1>2, <1>8
  <2>2. SyncSeen(o)
    BY DEF InLineFrom
  <2>3. o \in Sectors(track) /\ \A c \in CellsIn(o, {"sync"}) : Becomes(c, Harmless)
    BY <2>2 DEF SyncSeen
  <2>4. TheCells[pa[o - 1] + 1] \in CellsIn(o, {"sync"})
    BY <2>3, CellsInForm
  <2>5. TheCells[pa[o - 1] + 1] \in ToSet(CellsOf(track, o))
    BY <2>4 DEF CellsIn
  <2>. QED BY <2>1, <2>3, <2>4, <2>5
<1>. QED BY <1>9, <1>18, <1>19 DEF SyncSeen

(***************************************************************************)
(* The blocks that are found.                                              *)
(***************************************************************************)
Promised(k) ==
  /\ \A c \in CellsIn(k, {"head", "data"}) : Becomes(c, Harmless)
  /\ SyncSeen(k) \/ InLine(k)
  /\ \E m \in k + 1 .. Len(track) : SyncSeen(m)

FromSector(k, b) == b.hdr_ok /\ b.dat_ok /\ b.sector = track[k].sector

GapOf(pos) == NextSync(pos) - BeginOf(pos) - 1 - amiga_block_bit_len

(* Each sync with another behind it has its block. *)
BySync ==
  \A pos \in sync_pos : Later(pos) # {} /\ BeginOf(pos) + amiga_block_bit_len <= Len(bits) =>
    \E g \in 1 .. 2 : decode_amiga_block(BeginOf(pos), GapOf(pos), g, FALSE) \in blks

LEMMA SyncsTyped ==
  ASSUME bits \in Seq(BitId), NEW pos \in sync_pos
  PROVE  /\ pos \in Nat /\ BeginOf(pos) = pos + 3 /\ BeginOf(pos) \in 0 .. Len(bits)
         /\ Later(pos) # {} => NextSync(pos) \in sync_pos /\ NextSync(pos) > pos /\ NextSync(pos) \in 0 .. Len(bits)
<1>1. Len(bits) \in Nat
  OBVIOUS
<1>2. sync_pos \subseteq 0 .. Len(bits)
  <2>. DEFINE L == Len(bits)
  <2>. HIDE DEF L
  <2>1. 3 .. L \subseteq 0 .. L
    OBVIOUS
  <2>2. sync_pos \subseteq 3 .. L
    BY Lengths DEF sync_pos, L
  <2>. QED BY <2>1, <2>2 DEF L
<1>3. pos \in Nat /\ BeginOf(pos) = pos + 3
  BY <1>1, <1>2, Lengths DEF BeginOf
<1>4. pos + 3 <= Len(bits)
  <2>1. SyncAt(pos)
    BY DEF sync_pos
  <2>. QED BY <2>1, SyncForm
<1>5. BeginOf(pos) \in 0 .. Len(bits)
  <2>. DEFINE L == Len(bits)
  <2>1. L \in Nat /\ pos + 3 <= L
    BY <1>1, <1>4
  <2>. HIDE DEF L
  <2>2. pos + 3 \in 0 .. L
    BY <1>3, <2>1
  <2>. QED BY <1>3, <2>2 DEF L
<1>6. ASSUME Later(pos) # {}
      PROVE  NextSync(pos) \in sync_pos /\ NextSync(pos) > pos /\ NextSync(pos) \in 0 .. Len(bits)
  <2>1. Later(pos) \in SUBSET Nat
    <3>1. Later(pos) \subseteq sync_pos
      BY DEF Later
    <3>2. 0 .. Len(bits) \subseteq Nat
      BY <1>1
    <3>. QED BY <1>2, <3>1, <3>2
  <2>2. NextSync(pos) \in Later(pos)
    BY <1>6, <2>1, MinIsLeast DEF NextSync
  <2>. QED BY <1>2, <2>2 DEF Later
<1>. QED BY <1>3, <1>5, <1>6

LEMMA SyncOrder ==
  ASSUME NEW pa, NEW bo, Laid(pa, bo), NEW k, SyncSeen(k), NEW m \in k + 1 .. Len(track), SyncSeen(m)
  PROVE  Later(bo[pa[k - 1]] + 1) # {}
<1>. DEFINE x == bo[pa[k - 1]] + 1  y == bo[pa[m - 1]] + 1
<1>1. k \in Sectors(track) /\ k \in 1 .. Len(track) /\ m \in 1 .. Len(track) /\ k < m
  <2>1. k \in Sectors(track)
    BY SeenWhole
  <2>2. k \in 1 .. Len(track)
    BY <2>1, SectorPlaces
  <2>. QED BY <2>1, <2>2, LaidTyped
<1>2. bo[pa[k]] <= bo[pa[m - 1]] /\ bo[pa[m - 1]] \in Nat /\ bo[pa[k]] \in Nat
  <2>1. bo[pa[k]] <= bo[pa[m - 1]]
    BY <1>1, PartsOrdered
  <2>2. m - 1 \in 0 .. Len(track) /\ k \in 0 .. Len(track)
    BY <1>1, LaidTyped
  <2>. DEFINE h == m - 1
  <2>. HIDE DEF h
  <2>3. bo \in [0 .. Count -> Nat] /\ \A g \in 0 .. Len(track) : pa[g] \in 0 .. Count
    BY LaidTyped
  <2>4. \A g \in 0 .. Len(track) : bo[pa[g]] \in Nat
    BY <2>3
  <2>5. h \in 0 .. Len(track) => bo[pa[h]] \in Nat
    BY <2>4
  <2>6. bo[pa[k]] \in Nat
    BY <2>2, <2>4
  <2>. QED BY <2>1, <2>2, <2>5, <2>6 DEF h
<1>3. x \in Nat /\ bo[pa[k - 1] + 2] = x + 3 /\ y \in sync_pos
  BY SeenFound
<1>4. bo[pa[k - 1] + 2] <= bo[pa[k]]
  <2>1. pa[k] = pa[k - 1] + SectorCells /\ pa[k - 1] \in Nat /\ pa[k - 1] + SectorCells <= Count
    BY <1>1, SectorPlaces
  <2>. DEFINE p == pa[k - 1]  q == pa[k]
  <2>2. p + 2 \in 0 .. Count /\ q \in 0 .. Count /\ p + 2 <= q
    <3>1. q = p + SectorCells /\ p \in Nat /\ q <= Count /\ Count \in Nat
      BY <2>1, LaidTyped
    <3>. HIDE DEF p, q
    <3>. QED BY <3>1, Lengths
  <2>. HIDE DEF p, q
  <2>3. bo[p + 2] <= bo[q]
    BY <2>2, LaidTyped
  <2>. QED BY <2>3 DEF p, q
<1>. DEFINE u == bo[pa[k]]  v == bo[pa[m - 1]]
<1>5. x + 3 <= u /\ u <= v /\ y = v + 1 /\ u \in Nat /\ v \in Nat
  BY <1>2, <1>3, <1>4
<1>. HIDE DEF x, y, u, v
<1>6. y > x
  BY <1>3, <1>5
<1>7. y \in Later(x)
  BY <1>3, <1>6 DEF Later
<1>. QED BY <1>7 DEF x

LEMMA PromisedWhole ==
  ASSUME NEW pa, NEW bo, Laid(pa, bo), NEW k \in Sectors(track),
         \A c \in CellsIn(k, {"head", "data"}) : Becomes(c, Harmless)
  PROVE  \A i \in 3 .. SectorCells : Whole(bits, bo, pa[k - 1] + i)
<1>. SUFFICES ASSUME NEW i \in 3 .. SectorCells PROVE Whole(bits, bo, pa[k - 1] + i)
  OBVIOUS
<1>1. TheCells[pa[k - 1] + i] \in CellsIn(k, {"head", "data"})
  BY CellsInForm
<1>2. Becomes(TheCells[pa[k - 1] + i], Harmless)
  BY <1>1
<1>3. pa[k - 1] + i \in 1 .. Count
  <2>. DEFINE p == pa[k - 1]
  <2>1. p \in Nat /\ p + SectorCells <= Count /\ Count \in Nat
    BY SectorPlaces, LaidTyped
  <2>. HIDE DEF p
  <2>2. p + i \in 1 .. Count
    BY <2>1, Lengths
  <2>. QED BY <2>2 DEF p
<1>. DEFINE j == pa[k - 1] + i
<1>. HIDE DEF j
<1>4. j \in 1 .. Count /\ Becomes(TheCells[j], Harmless)
  BY <1>2, <1>3 DEF j
<1>5. Whole(bits, bo, j)
  BY <1>4 DEF Laid, Strip
<1>. QED BY <1>5 DEF j

LEMMA SeenBlock ==
  ASSUME NEW pa, NEW bo, Laid(pa, bo), BySync, NEW k \in Sectors(track),
         \A c \in CellsIn(k, {"head", "data"}) : Becomes(c, Harmless), SyncSeen(k),
         \E m \in k + 1 .. Len(track) : SyncSeen(m)
  PROVE  \E b \in blks : FromSector(k, b)
<1>. DEFINE pos == bo[pa[k - 1]] + 1
<1>1. pos \in sync_pos /\ BeginOf(pos) = bo[pa[k - 1] + 2]
  BY SeenFound
<1>2. Later(pos) # {}
  BY SyncOrder
<1>3. \A i \in 3 .. SectorCells : Whole(bits, bo, pa[k - 1] + i)
  BY PromisedWhole
<1>. HIDE DEF pos
<1>4. BeginOf(pos) + amiga_block_bit_len <= Len(bits)
  BY <1>1, <1>3, SectorRead
<1>5. PICK g \in 1 .. 2 : decode_amiga_block(BeginOf(pos), GapOf(pos), g, FALSE) \in blks
  BY <1>1, <1>2, <1>4 DEF BySync
<1>. DEFINE gap == GapOf(pos)  lost == FALSE  b == decode_amiga_block(bo[pa[k - 1] + 2], gap, g, lost)
<1>6. b \in blks
  BY <1>1, <1>5
<1>7. FromSector(k, b)
  <2>. HIDE DEF gap, lost
  <2>1. b.hdr_ok /\ b.dat_ok /\ b.sector = track[k].sector
    BY <1>3, SectorDecoded
  <2>. HIDE DEF b
  <2>. QED BY <2>1 DEF FromSector
<1>. QED BY <1>6, <1>7

LEMMA DivAtLeast ==
  ASSUME NEW a \in Int, NEW d \in Nat, d >= 1, NEW n \in Nat, n * d <= a
  PROVE  n <= a \div d
<1>. DEFINE q == a \div d
<1>1. q \in Int /\ a < (q + 1) * d
  OBVIOUS
<1>. HIDE DEF q
<1>2. CASE q + 1 <= n
  <2>1. (q + 1) * d <= n * d
    BY <1>1, <1>2
  <2>. QED BY <1>1, <2>1
<1>. QED BY <1>1, <1>2 DEF q

LEMMA DivAtMost ==
  ASSUME NEW a \in Int, NEW d \in Nat, d >= 1, NEW n \in Nat, n <= a \div d
  PROVE  n * d <= a
<1>. DEFINE q == a \div d
<1>1. q \in Int /\ q * d <= a
  OBVIOUS
<1>. HIDE DEF q
<1>2. n * d <= q * d
  BY <1>1 DEF q
<1>. QED BY <1>1, <1>2

LEMMA LineBlock ==
  ASSUME NEW pa, NEW bo, Laid(pa, bo), BySync, NEW k \in Sectors(track),
         \A c \in CellsIn(k, {"head", "data"}) : Becomes(c, Harmless), InLine(k),
         \E m \in k + 1 .. Len(track) : SyncSeen(m)
  PROVE  \E b \in LongSectors : \E c \in LostBlocks(b) : FromSector(k, c)
<1>1. PICK o \in 1 .. k - 1 : InLineFrom(o, k)
  BY DEF InLine, InLineFrom
<1>2. PICK m \in k + 1 .. Len(track) : SyncSeen(m)
  OBVIOUS
<1>3. /\ k \in 1 .. Len(track) /\ o \in 1 .. Len(track) /\ o < k /\ o <= k
      /\ m \in o + 1 .. Len(track) /\ k - o \in Nat /\ k - o >= 1
  <2>1. k \in 1 .. Len(track) /\ Len(track) \in Nat
    BY SectorPlaces, LaidTyped
  <2>. QED BY <1>1, <1>2, <2>1
<1>4. /\ o .. k \subseteq Sectors(track) /\ SyncSeen(o) /\ track[o].to_gap # 1
      /\ \A c \in CellsIn(o, {"head"}) : Becomes(c, Harmless)
  BY <1>1 DEF InLineFrom
<1>5. o \in Sectors(track)
  BY <1>3, <1>4
<1>6. \A i \in 3 .. SectorCells : Whole(bits, bo, pa[k - 1] + i)
  BY PromisedWhole
<1>7. EvenLine(pa, bo, o, k)
  BY <1>1, <1>3, <1>6, LineEven
<1>. DEFINE x == bo[pa[o - 1]]  pos == x + 1  n == k - o  sb == amiga_sync_block_bit_len
            L == Len(bits)  blk == amiga_block_bit_len  e == bo[pa[k]]  at == bo[pa[k - 1] + 2]
<1>8. /\ pa[o - 1] \in Nat /\ x \in Nat /\ bo[pa[o - 1] + 2] = x + 4 /\ at = x + 4 + n * sb /\ e = at + blk
  BY <1>3, <1>4, <1>7, LineStraight
<1>9. pos \in sync_pos /\ pos \in Nat /\ BeginOf(pos) = x + 4
  <2>1. pos \in sync_pos /\ pos \in Nat /\ BeginOf(pos) = bo[pa[o - 1] + 2]
    BY <1>4, SeenFound
  <2>. QED BY <1>8, <2>1
<1>10. Later(pos) # {}
  BY <1>2, <1>3, <1>4, SyncOrder
<1>11. bits \in Seq(BitId) /\ L \in Nat /\ e <= L
  <2>1. pa[k] \in 0 .. Count /\ bits \in Seq(BitId) /\ Len(bits) \in Nat
    <3>1. bits \in Seq(BitId) /\ k \in 0 .. Len(track)
      BY <1>3, LaidTyped
    <3>. QED BY <3>1, LaidTyped
  <2>2. bo[pa[k]] \in 0 .. Len(bits)
    BY <2>1, LaidTyped
  <2>. QED BY <2>1, <2>2
<1>. DEFINE next == NextSync(pos)
<1>12. next \in sync_pos /\ next > pos /\ next \in Nat
  <2>1. next \in sync_pos /\ next > pos /\ next \in 0 .. Len(bits)
    BY <1>9, <1>10, <1>11, SyncsTyped
  <2>. HIDE DEF next
  <2>. QED BY <1>11, <2>1
<1>13. next > e
  <2>1. bo[pa[o - 1]] + 1 < next
    <3>. HIDE DEF next
    <3>. QED BY <1>8, <1>12
  <2>. HIDE DEF next
  <2>. QED BY <1>1, <1>3, <1>7, <1>12, <2>1, LineQuiet
<1>. DEFINE w == n * sb
<1>14. /\ w \in Nat /\ w >= 1 /\ blk \in Nat /\ sb \in Nat /\ sb >= 1 /\ n \in Nat /\ n >= 1
       /\ at = x + 4 + w
  <2>1. blk \in Nat /\ sb \in Nat /\ sb >= 1
    BY Lengths
  <2>2. n \in Nat /\ n >= 1
    BY <1>3
  <2>3. w \in Nat /\ w >= 1
    <3>. HIDE DEF n, sb
    <3>. QED BY <2>1, <2>2
  <2>. QED BY <1>8, <2>1, <2>2, <2>3
<1>. DEFINE gap == GapOf(pos)
<1>15. gap = next - (x + 4) - 1 - blk
  BY <1>9 DEF GapOf
<1>. HIDE DEF x, pos, n, sb, L, blk, e, at, next, w, gap
<1>16. gap \in Int /\ w <= gap /\ (x + 4) + blk <= L /\ x + 4 \in Nat
  BY <1>8, <1>11, <1>12, <1>13, <1>14, <1>15
<1>17. HeadersAt(x + 4) = {o}
  <2>. DEFINE p == pa[o - 1]  j == p + 3
  <2>1. TheCells[j] = <<o, "head", 1>> /\ p \in Nat /\ p + SectorCells <= Count /\ Count \in Nat
    BY <1>5, SectorPlaces, LaidTyped
  <2>2. Becomes(TheCells[j], Harmless)
    <3>1. TheCells[j] \in CellsIn(o, {"head"})
      BY <1>5, CellsInForm
    <3>. QED BY <1>4, <3>1
  <2>3. bo[p + 2] = x + 4
    BY <1>8
  <2>. HIDE DEF p
  <2>4. j \in 1 .. Count /\ j - 1 = p + 2
    BY <2>1, Lengths
  <2>5. bo[j - 1] = x + 4
    BY <2>3, <2>4
  <2>. HIDE DEF j
  <2>6. Whole(bits, bo, j)
    BY <2>2, <2>4 DEF Laid, Strip
  <2>7. bits[(x + 4) + 1] = <<<<o, "head", 1>>, 1>> /\ bits[(x + 4) + 2] = <<<<o, "head", 1>>, 2>>
    BY <2>1, <2>5, <2>6 DEF Whole
  <2>8. (x + 4) + 2 <= Len(bits)
    <3>1. blk >= 2
      BY Lengths DEF blk
    <3>2. (x + 4) + 2 <= L
      BY <1>8, <1>11, <1>14, <1>16, <3>1
    <3>. QED BY <3>2 DEF L
  <2>. QED BY <1>5, <1>11, <1>16, <2>7, <2>8, HeadRead
<1>18. PICK g \in 1 .. 2 : decode_amiga_block(x + 4, gap, g, FALSE) \in blks
  <2>1. BeginOf(pos) + amiga_block_bit_len <= Len(bits)
    BY <1>9, <1>16 DEF blk, L
  <2>. QED BY <1>9, <1>10, <2>1 DEF BySync, gap
<1>. DEFINE lost == FALSE  off == x + 4  b == decode_amiga_block(off, gap, g, lost)
<1>19. b \in blks /\ b.to_gap = track[o].to_gap /\ b.gap_bits = gap /\ b.off = x + 4
  <2>1. b \in blks /\ HeadersAt(off) = {o}
    BY <1>17, <1>18
  <2>. HIDE DEF lost, off
  <2>2. b.to_gap = track[o].to_gap /\ b.gap_bits = gap /\ b.off = off
    BY <1>5, <2>1, HeadDecoded
  <2>. HIDE DEF b
  <2>. QED BY <2>1, <2>2 DEF off
<1>. HIDE DEF b
<1>20. b \in LongSectors
  BY <1>4, <1>14, <1>16, <1>19 DEF LongSectors
<1>21. n \in 1 .. gap \div sb
  <2>1. n * sb <= gap
    BY <1>16 DEF w
  <2>2. n <= gap \div sb /\ gap \div sb \in Int
    <3>1. n <= gap \div sb
      BY <1>14, <1>16, <2>1, DivAtLeast
    <3>. QED BY <1>14, <1>16, <3>1
  <2>. QED BY <1>14, <2>2
<1>. DEFINE rest == gap - n * sb  found == TRUE  c == decode_amiga_block(at, rest, 2, found)
<1>22. c \in LostBlocks(b)
  <2>1. LostOffset(b, n) = at
    BY <1>14, <1>19 DEF LostOffset, w, sb
  <2>2. decode_amiga_block(LostOffset(b, n), b.gap_bits - n * sb, 2, TRUE) \in LostBlocks(b)
    BY <1>19, <1>21 DEF LostBlocks, sb
  <2>. QED BY <1>19, <2>1, <2>2
<1>23. c.hdr_ok /\ c.dat_ok /\ c.sector = track[k].sector
  <2>. HIDE DEF rest, found
  <2>. QED BY <1>6, SectorDecoded DEF at
<1>. HIDE DEF c
<1>24. FromSector(k, c)
  BY <1>23 DEF FromSector
<1>. QED BY <1>20, <1>22, <1>24

(* A block is on the track, with the gap behind it; if the checksum of its *)
(* header is right it has the number of a sector of the disk, and if both  *)
(* are it is that sector.                                                  *)
Genuine(b) ==
  /\ b.off \in Nat /\ b.gap_bits \in Int /\ b.lost \in BOOLEAN
  /\ b.off + amiga_block_bit_len <= Len(bits)
  /\ b.off + amiga_block_bit_len + b.gap_bits <= Len(bits)
  /\ b.hdr_ok => \E k \in Sectors(track) : b.sector = track[k].sector
  /\ b.hdr_ok /\ b.dat_ok =>
       \E k \in Sectors(track) :
         /\ b.sector = track[k].sector
         /\ Slice(b.off + amiga_hdr_bit_len, amiga_data_bit_len) = Written(k, "data", DataCells)

LEMMA GenuineBlock ==
  ASSUME NEW off \in Nat, NEW gap \in Int, NEW to_gap, NEW lost \in BOOLEAN,
         off + amiga_block_bit_len <= Len(bits), off + amiga_block_bit_len + gap <= Len(bits)
  PROVE  Genuine(decode_amiga_block(off, gap, to_gap, lost))
<1>. DEFINE h == CHOOSE h \in HeadersAt(off) : TRUE
            part == Slice(off + amiga_hdr_bit_len, amiga_data_bit_len)
            ok == HeadersAt(off) # {}
            dat == ok /\ part = Written(h, "data", DataCells)
            sec == IF ok THEN track[h].sector ELSE 0
            tg == IF ok THEN track[h].to_gap ELSE to_gap
            b == decode_amiga_block(off, gap, to_gap, lost)
<1>1. ok => h \in Sectors(track) /\ sec = track[h].sector
  <2>1. HeadersAt(off) \subseteq Sectors(track)
    BY DEF HeadersAt
  <2>2. ok => h \in HeadersAt(off)
    OBVIOUS
  <2>. QED BY <2>1, <2>2
<1>2. dat => ok /\ part = Written(h, "data", DataCells)
  OBVIOUS
<1>3. b = [hdr_ok |-> ok, dat_ok |-> dat, gap_bits |-> gap, off |-> off, lost |-> lost,
           sector |-> sec, to_gap |-> tg]
  BY DEF decode_amiga_block
<1>. HIDE DEF b
<1>4. /\ b.off = off /\ b.gap_bits = gap /\ b.lost = lost /\ b.sector = sec
      /\ b.hdr_ok = ok /\ b.dat_ok = dat
  <2>. HIDE DEF ok, dat, sec, tg
  <2>. QED BY <1>3
<1>5. b.hdr_ok /\ b.dat_ok => ok /\ dat
  <2>. HIDE DEF ok, dat
  <2>. QED BY <1>4, Zenon
<1>6. ASSUME b.hdr_ok /\ b.dat_ok
      PROVE  \E k \in Sectors(track) :
               /\ b.sector = track[k].sector
               /\ Slice(b.off + amiga_hdr_bit_len, amiga_data_bit_len) = Written(k, "data", DataCells)
  <2>1. ok /\ dat
    BY <1>5, <1>6
  <2>2. h \in Sectors(track) /\ sec = track[h].sector /\ part = Written(h, "data", DataCells)
    BY <1>1, <1>2, <2>1
  <2>3. Slice(b.off + amiga_hdr_bit_len, amiga_data_bit_len) = part
    BY <1>4
  <2>. HIDE DEF h, part, sec
  <2>. QED BY <1>4, <2>2, <2>3
<1>7. ASSUME b.hdr_ok PROVE \E k \in Sectors(track) : b.sector = track[k].sector
  <2>1. ok
    <3>. HIDE DEF ok
    <3>. QED BY <1>4, <1>7, Zenon
  <2>2. h \in Sectors(track) /\ sec = track[h].sector
    BY <1>1, <2>1
  <2>. HIDE DEF h, sec
  <2>. QED BY <1>4, <2>2
<1>. HIDE DEF ok, dat, sec
<1>. QED BY <1>4, <1>6, <1>7 DEF Genuine, b

RawBlocks ==
  {[off |-> BeginOf(pos), size |-> NextSync(pos) - BeginOf(pos) - 1] :
     pos \in {at \in sync_pos : Later(at) # {}}}

LEMMA DecodedSound ==
  ASSUME bits \in Seq(BitId), raw_blks = RawBlocks, NEW to_gap \in [raw_blks -> 1 .. 2],
         NEW B, B = {decode_amiga_block(raw.off, raw.size - amiga_block_bit_len, to_gap[raw], FALSE) :
                       raw \in {r \in raw_blks : r.off + amiga_block_bit_len <= Len(bits)}}
  PROVE  /\ \A b \in B : Genuine(b)
         /\ \A pos \in sync_pos : Later(pos) # {} /\ BeginOf(pos) + amiga_block_bit_len <= Len(bits) =>
              \E g \in 1 .. 2 : decode_amiga_block(BeginOf(pos), GapOf(pos), g, FALSE) \in B
<1>. DEFINE blk == amiga_block_bit_len  L == Len(bits)
<1>1. blk \in Nat /\ L \in Nat
  BY Lengths
<1>2. ASSUME NEW b \in B PROVE Genuine(b)
  <2>1. PICK raw \in raw_blks : /\ raw.off + blk <= L
                                /\ b = decode_amiga_block(raw.off, raw.size - blk, to_gap[raw], FALSE)
    OBVIOUS
  <2>2. PICK pos \in {at \in sync_pos : Later(at) # {}} :
          raw = [off |-> BeginOf(pos), size |-> NextSync(pos) - BeginOf(pos) - 1]
    BY DEF RawBlocks
  <2>. DEFINE x == BeginOf(pos)  y == NextSync(pos)
  <2>3. x \in 0 .. L /\ y \in 0 .. L
    BY <2>2, SyncsTyped
  <2>4. raw.off = x /\ raw.size = y - x - 1
    BY <2>2
  <2>. DEFINE gap == y - x - 1 - blk  tg == to_gap[raw]  lost == FALSE
  <2>5. b = decode_amiga_block(x, gap, tg, lost) /\ x + blk <= L
    BY <2>1, <2>4
  <2>. HIDE DEF x, y, tg, blk, L
  <2>6. x \in Nat /\ gap \in Int /\ x + blk + gap <= L /\ lost \in BOOLEAN
    BY <1>1, <2>3
  <2>. HIDE DEF gap, lost
  <2>7. Genuine(decode_amiga_block(x, gap, tg, lost))
    BY <2>5, <2>6, GenuineBlock DEF blk, L
  <2>. QED BY <2>5, <2>7
<1>3. ASSUME NEW pos \in sync_pos, Later(pos) # {}, BeginOf(pos) + blk <= L
      PROVE  \E g \in 1 .. 2 : decode_amiga_block(BeginOf(pos), GapOf(pos), g, FALSE) \in B
  <2>. DEFINE raw == [off |-> BeginOf(pos), size |-> NextSync(pos) - BeginOf(pos) - 1]
  <2>1. raw \in raw_blks
    BY <1>3 DEF RawBlocks
  <2>2. raw.off = BeginOf(pos) /\ raw.size - blk = GapOf(pos)
    BY DEF GapOf
  <2>. HIDE DEF raw
  <2>3. raw \in {r \in raw_blks : r.off + amiga_block_bit_len <= Len(bits)}
    BY <1>3, <2>1, <2>2
  <2>4. decode_amiga_block(raw.off, raw.size - blk, to_gap[raw], FALSE) \in B
    BY <2>3
  <2>5. to_gap[raw] \in 1 .. 2
    BY <2>1
  <2>. QED BY <2>2, <2>4, <2>5
<1>. QED BY <1>2, <1>3

LEMMA RecoveredSound ==
  ASSUME bits \in Seq(BitId), \A b \in blks : Genuine(b), NEW b \in LongSectors, NEW c \in LostBlocks(b)
  PROVE  Genuine(c)
<1>. DEFINE blk == amiga_block_bit_len  L == Len(bits)  sb == amiga_sync_block_bit_len
            x == b.off  gap == b.gap_bits
<1>1. blk \in Nat /\ L \in Nat /\ sb \in Nat /\ sb >= 1
  BY Lengths
<1>2. x \in Nat /\ gap \in Int /\ x + blk <= L /\ x + blk + gap <= L
  BY DEF LongSectors, Genuine
<1>3. PICK n \in 1 .. gap \div sb : c = decode_amiga_block(LostOffset(b, n), gap - n * sb, 2, TRUE)
  BY DEF LostBlocks
<1>. DEFINE w == n * sb  off == x + w  rest == gap - w  found == TRUE  tg == 2
<1>4. c = decode_amiga_block(off, rest, tg, found)
  BY <1>3 DEF LostOffset
<1>. HIDE DEF blk, L, sb, x, gap
<1>5. gap \div sb \in Int
  BY <1>1, <1>2
<1>6. n \in Nat /\ n <= gap \div sb
  BY <1>3, <1>5
<1>7. w <= gap /\ w \in Nat
  <2>1. w <= gap
    BY <1>1, <1>2, <1>6, DivAtMost
  <2>. QED BY <1>1, <1>6, <2>1
<1>. HIDE DEF w
<1>8. off \in Nat /\ rest \in Int /\ off + blk <= L /\ off + blk + rest <= L /\ found \in BOOLEAN
  BY <1>1, <1>2, <1>7
<1>. HIDE DEF off, rest, found, tg
<1>. QED BY <1>4, <1>8, GenuineBlock DEF blk, L

(* The first of a list of blocks. *)
LEMMA FirstExists ==
  ASSUME NEW S, S # {}, \A b \in S : b.off \in Nat /\ b.lost \in BOOLEAN
  PROVE  FirstOf(S) \in S
<1>1. ASSUME NEW T, T \subseteq S, T # {}
      PROVE  \E b \in T : \A a \in T : b.off <= a.off
  <2>. DEFINE N == {b.off : b \in T}
  <2>1. N \in SUBSET Nat /\ N # {}
    BY <1>1
  <2>. HIDE DEF N
  <2>2. PICK m \in N : \A n \in N : m <= n
    BY <2>1, LeastNatural
  <2>. USE DEF N
  <2>3. PICK b \in T : b.off = m
    BY <2>2
  <2>. QED BY <2>2, <2>3
<1>2. \E b \in S : \A a \in S : ~Earlier(a, b)
  <2>. DEFINE T == {b \in S : b.lost = FALSE}
  <2>1. CASE T # {}
    <3>1. PICK b \in T : \A a \in T : b.off <= a.off
      BY <1>1, <2>1
    <3>2. ASSUME NEW a \in S PROVE ~Earlier(a, b)
      <4>1. CASE a.lost = FALSE
        <5>1. a.off \in Nat /\ b.off \in Nat /\ b.off <= a.off
          BY <3>1, <4>1
        <5>2. ~(a.off < b.off)
          BY <5>1
        <5>. QED BY <3>1, <4>1, <5>2 DEF Earlier
      <4>2. CASE a.lost # FALSE
        <5>1. a.lost # b.lost /\ b.lost = FALSE
          BY <3>1, <4>2
        <5>. QED BY <5>1 DEF Earlier
      <4>. QED BY <4>1, <4>2
    <3>. QED BY <3>1, <3>2
  <2>2. CASE T = {}
    <3>1. PICK b \in S : \A a \in S : b.off <= a.off
      BY <1>1
    <3>2. ASSUME NEW a \in S PROVE ~Earlier(a, b)
      <4>1. a.lost = TRUE /\ b.lost = TRUE
        BY <2>2
      <4>2. a.off \in Nat /\ b.off \in Nat /\ b.off <= a.off
        BY <3>1
      <4>3. ~(a.off < b.off)
        BY <4>2
      <4>. QED BY <4>1, <4>3 DEF Earlier
    <3>. QED BY <3>1, <3>2
  <2>. QED BY <2>1, <2>2
<1>. QED BY <1>2 DEF FirstOf

AllGenuine  == \A b \in blks : Genuine(b)
AllPromised == \A k \in Sectors(track) : Promised(k) => \E b \in blks : FromSector(k, b)
AllNumbered == \A b \in blks : b.hdr_ok => b.sector < NumSectors

(* SectorsFound, of any file. *)
FileSound(f) ==
  /\ \A s \in DOMAIN f : f[s] # <<>> =>
       \E k \in Sectors(track) : track[k].sector = s /\ f[s] = Written(k, "data", DataCells)
  /\ \A k \in Sectors(track) : Promised(k) => f[track[k].sector] # <<>>

LEMMA WrittenSound ==
  ASSUME track \in Tracks, AllGenuine, AllPromised, AllNumbered,
         NEW f, f = [s \in 0 .. NumSectors - 1 |->
                       IF ValidBlocks(s) = {} THEN <<>>
                       ELSE Slice(FirstOf(ValidBlocks(s)).off + amiga_hdr_bit_len, amiga_data_bit_len)]
  PROVE  FileSound(f)
<1>1. ASSUME NEW s \in 0 .. NumSectors - 1, ValidBlocks(s) # {}
      PROVE  \E k \in Sectors(track) : track[k].sector = s /\ f[s] = Written(k, "data", DataCells)
  <2>1. \A b \in ValidBlocks(s) : b.off \in Nat /\ b.lost \in BOOLEAN
    BY DEF ValidBlocks, AllGenuine, Genuine
  <2>2. FirstOf(ValidBlocks(s)) \in ValidBlocks(s)
    BY <1>1, <2>1, FirstExists
  <2>. DEFINE b == FirstOf(ValidBlocks(s))
  <2>3. f[s] = Slice(b.off + amiga_hdr_bit_len, amiga_data_bit_len)
    BY <1>1
  <2>. HIDE DEF b
  <2>4. b \in blks /\ b.hdr_ok /\ b.dat_ok /\ b.sector = s
    BY <2>2 DEF ValidBlocks, b
  <2>5. PICK k \in Sectors(track) :
          /\ b.sector = track[k].sector
          /\ Slice(b.off + amiga_hdr_bit_len, amiga_data_bit_len) = Written(k, "data", DataCells)
    BY <2>4 DEF AllGenuine, Genuine
  <2>. QED BY <2>3, <2>4, <2>5
<1>2. \A s \in DOMAIN f : f[s] # <<>> => s \in 0 .. NumSectors - 1 /\ ValidBlocks(s) # {}
  OBVIOUS
<1>3. ASSUME NEW k \in Sectors(track), Promised(k) PROVE f[track[k].sector] # <<>>
  <2>1. PICK b \in blks : FromSector(k, b)
    BY <1>3 DEF AllPromised
  <2>. DEFINE s == track[k].sector
  <2>2. s \in Nat
    BY TrackForm
  <2>. HIDE DEF s
  <2>3. b.hdr_ok /\ b.dat_ok /\ b.sector = s
    BY <2>1 DEF FromSector, s
  <2>4. s < NumSectors
    BY <2>3 DEF AllNumbered
  <2>5. s \in 0 .. NumSectors - 1
    BY <2>2, <2>4, AnalyzerAssumption
  <2>6. ValidBlocks(s) # {}
    BY <2>3 DEF ValidBlocks
  <2>7. PICK h \in Sectors(track) : f[s] = Written(h, "data", DataCells)
    BY <1>1, <2>5, <2>6
  <2>8. DOMAIN Written(h, "data", DataCells) = 1 .. 2 * DataCells /\ 1 \in 1 .. 2 * DataCells
    <3>1. DOMAIN Written(h, "data", DataCells) = 1 .. 2 * DataCells
      BY DEF Written
    <3>. QED BY <3>1, Lengths
  <2>9. Written(h, "data", DataCells) # <<>>
    <3>1. DOMAIN <<>> = {}
      OBVIOUS
    <3>. QED BY <2>8, <3>1
  <2>. QED BY <2>7, <2>9 DEF s
<1>. QED BY <1>1, <1>2, <1>3 DEF FileSound

(***************************************************************************)
(* The steps of the analysis.                                              *)
(***************************************************************************)
OnDisk ==
  /\ track \in Tracks /\ damage \in [DOMAIN damage -> Damages]
  /\ DOMAIN damage \subseteq ToSet(TheCells)

LEMMA DiskKnown ==
  ASSUME OnDisk
  PROVE  OnTrack
<1>1. \A c : Kind(c) \in Kinds
  BY AnalyzerAssumption DEF OnDisk, Kind, Kinds
<1>2. Known
  BY <1>1 DEF Known, OnDisk
<1>3. TheCells \in Seq(CellId)
  BY <1>2, CountTyped
<1>4. ASSUME NEW c \in DOMAIN damage PROVE \E j \in 1 .. Count : c = TheCells[j]
  <2>1. c \in ToSet(TheCells)
    BY DEF OnDisk
  <2>2. ToSet(TheCells) = {TheCells[i] : i \in DOMAIN TheCells} /\ DOMAIN TheCells = 1 .. Count
    BY <1>3 DEF ToSet, Count
  <2>. QED BY <2>1, <2>2
<1>. QED BY <1>2, <1>4 DEF OnTrack

Stages == {"read", "filter", "extract", "bits", "cut", "decode", "recover", "assign", "write", "done",
           "raised"}

Inv ==
  /\ OnDisk /\ stage \in Stages /\ index_pos \in Seq(Nat) /\ bits \in Seq(BitId)
  /\ DOMAIN file = 0 .. NumSectors - 1 /\ AllGenuine
  /\ stage = "filter" => data = TrackFile
  /\ stage = "extract" => data = Filtered(TrackFile).out
  /\ stage = "bits" => data = Samples /\ index_pos = Marks
  /\ stage \in {"read", "filter", "extract", "bits"} => blks = {}
  /\ stage \in {"cut", "decode", "recover", "assign", "write"} => bits = AllBits
  /\ stage = "cut" => blks = {}
  /\ stage = "decode" => raw_blks = RawBlocks
  /\ stage = "recover" => BySync
  /\ stage \in {"assign", "write"} => AllPromised
  /\ stage = "write" => AllNumbered
  /\ stage = "done" => FileSound(file)
  /\ stage = "raised" => Lost

(* The track and the bits are read, and how the analysis goes on does not  *)
(* change what is promised of them.                                        *)
LEMMA ReadTrack ==
  ASSUME OnTrack
  PROVE  /\ Samples \in Seq(Smp) /\ Marks \in Seq(Nat) /\ AllBits \in Seq(BitId)
         /\ bits = AllBits => \E pa, bo : Laid(pa, bo)
<1>1. Known
  BY DEF OnTrack
<1>2. PICK sh, fo : IsFiltered(Filtered(TrackFile).out, sh, fo)
  BY <1>1, TrackFiltered
<1>3. PICK va, op, ix : IsRead(Samples, Marks, sh, va, op, ix)
  BY <1>1, <1>2, KeptRead DEF Samples, Marks
<1>4. PICK bo : Strip(AllBits, bo)
  BY <1>1, <1>3, TrackStrip DEF AllBits
<1>5. Samples \in Seq(Smp) /\ Marks \in Seq(Nat)
  BY <1>3 DEF IsRead
<1>6. AllBits \in Seq(BitId)
  BY <1>4 DEF Strip
<1>7. PICK pa : Placed(track, pa)
  BY <1>1, CellsPlaced DEF Known
<1>8. bits = AllBits => Laid(pa, bo)
  BY <1>1, <1>4, <1>7 DEF Laid
<1>. QED BY <1>5, <1>6, <1>8

LEMMA PromisedRecovered ==
  ASSUME NEW pa, NEW bo, Laid(pa, bo), BySync, NEW k \in Sectors(track), Promised(k)
  PROVE  \E b \in blks \cup UNION {LostBlocks(a) : a \in LongSectors} : FromSector(k, b)
<1>1. CASE SyncSeen(k)
  <2>1. \E b \in blks : FromSector(k, b)
    BY <1>1, SeenBlock DEF Promised
  <2>. QED BY <2>1
<1>2. CASE InLine(k)
  <2>1. \E b \in LongSectors : \E c \in LostBlocks(b) : FromSector(k, c)
    BY <1>2, LineBlock DEF Promised
  <2>. QED BY <2>1
<1>. QED BY <1>1, <1>2 DEF Promised

(* The three places the program raises at have a cause on the disk.        *)
LEMMA FilterRaises ==
  ASSUME Known, NEW m \in DOMAIN Filtered(TrackFile).out, ~(Filtered(TrackFile).out[m].t <= 255)
  PROVE  TooLong
<1>. DEFINE kept == Filtered(TrackFile).out
<1>1. PICK sh, fo : IsFiltered(kept, sh, fo)
  BY TrackFiltered
<1>2. /\ kept \in Seq(Smp) /\ Count \in Nat /\ sh \in [0 .. Count -> Nat] /\ fo \in [0 .. Count -> Nat]
      /\ fo[0] = 0 /\ fo[Count] = Len(kept)
  BY <1>1, CountTyped DEF IsFiltered
<1>3. m \in 1 .. Len(kept) /\ ~(kept[m].t <= 255)
  <2>. HIDE DEF kept
  <2>1. m \in DOMAIN kept /\ ~(kept[m].t <= 255)
    BY DEF kept
  <2>. QED BY <1>2, <2>1
<1>. HIDE DEF kept
<1>4. ASSUME NEW j \in 1 .. Count
      PROVE  /\ TheCells[j] \in CellId /\ Kind(TheCells[j]) \in Kinds /\ j - 1 \in 0 .. Count
             /\ sh[j - 1] \in Nat /\ fo[j - 1] \in Nat
             /\ fo[j] = fo[j - 1] + Len(Kept(TheCells[j], sh[j - 1]))
             /\ Kept(TheCells[j], sh[j - 1]) \in Seq(Smp)
             /\ \A i \in 1 .. Len(Kept(TheCells[j], sh[j - 1])) :
                  kept[fo[j - 1] + i] = Kept(TheCells[j], sh[j - 1])[i]
  <2>1. TheCells[j] \in CellId /\ Kind(TheCells[j]) \in Kinds /\ j - 1 \in 0 .. Count
    BY <1>2, CountTyped DEF Known
  <2>2. sh[j - 1] \in Nat /\ fo[j - 1] \in Nat
    BY <1>2, <2>1
  <2>3. Kept(TheCells[j], sh[j - 1]) \in Seq(Smp)
    BY <2>1, <2>2, SamplesTyped
  <2>. QED BY <1>1, <2>1, <2>2, <2>3 DEF IsFiltered
<1>5. Rising(fo, Count)
  <2>1. ASSUME NEW j \in 1 .. Count PROVE fo[j - 1] <= fo[j]
    <3>. DEFINE K == Kept(TheCells[j], sh[j - 1])
    <3>1. K \in Seq(Smp) /\ fo[j] = fo[j - 1] + Len(K) /\ fo[j - 1] \in Nat
      BY <1>4
    <3>. HIDE DEF K
    <3>. QED BY <3>1
  <2>. QED BY <1>2, <2>1 DEF Rising
<1>6. PICK j \in 1 .. Count : fo[j - 1] < m /\ m <= fo[j]
  BY <1>2, <1>3, <1>5, RisingPlace
<1>. DEFINE c == TheCells[j]  s == sh[j - 1]  K == Kept(c, s)  i == m - fo[j - 1]
<1>7. /\ c \in CellId /\ Kind(c) \in Kinds /\ s \in Nat /\ K \in Seq(Smp)
      /\ i \in 1 .. Len(K) /\ K[i] = kept[m]
  <2>1. /\ c \in CellId /\ Kind(c) \in Kinds /\ s \in Nat /\ fo[j - 1] \in Nat /\ K \in Seq(Smp)
        /\ fo[j] = fo[j - 1] + Len(K)
        /\ \A n \in 1 .. Len(K) : kept[fo[j - 1] + n] = K[n]
    BY <1>4
  <2>. HIDE DEF K, c, s
  <2>2. i \in 1 .. Len(K) /\ fo[j - 1] + i = m
    BY <1>3, <1>6, <2>1
  <2>. QED BY <2>1, <2>2
<1>. HIDE DEF i
<1>8. Kind(c) \notin {"overrun", "longlow"} /\ K[i] = TheSample(c, s)
  <2>1. \A n \in {1, 2, 3} : Byte(n).t = n
    BY DEF Byte
  <2>2. K[i] \notin {Byte(1), Byte(2), Byte(3)}
    BY <1>3, <1>7, <2>1
  <2>3. CASE Kind(c) = "index"
    <3>1. K = <<Byte(1), TheSample(c, s)>>
      BY <2>3 DEF Kept
    <3>. HIDE DEF K, c, s
    <3>. QED BY <1>7, <2>2, <2>3, <3>1
  <2>4. CASE Kind(c) = "overrun"
    <3>1. K = <<Byte(3)>>
      BY <2>4 DEF Kept
    <3>. HIDE DEF K, c, s
    <3>. QED BY <1>7, <2>2, <2>4, <3>1
  <2>5. CASE Kind(c) = "long"
    <3>1. K = <<Byte(2), Byte(1), TheSample(c, s)>>
      BY <2>5 DEF Kept
    <3>. HIDE DEF K, c, s
    <3>. QED BY <1>7, <2>2, <2>5, <3>1
  <2>6. CASE Kind(c) = "longlow"
    <3>1. K = <<Byte(2), Byte(1)>>
      BY <2>6 DEF Kept
    <3>. HIDE DEF K, c, s
    <3>. QED BY <1>7, <2>2, <2>6, <3>1
  <2>7. CASE Kind(c) \notin {"index", "overrun", "long", "longlow"}
    <3>1. K = <<TheSample(c, s)>>
      BY <2>7 DEF Kept
    <3>. HIDE DEF K, c, s
    <3>. QED BY <1>7, <2>2, <2>7, <3>1
  <2>. QED BY <2>3, <2>4, <2>5, <2>6, <2>7
<1>9. TheSample(c, s).t = s + Ticks(Kind(c))
  BY DEF TheSample
<1>10. s = 20 * Cardinality(SpikesBefore(c))
  <2>1. j - 1 \in 0 .. Count
    BY <1>4
  <2>2. sh[j - 1] = 20 * Cardinality(Spikes(j - 1))
    BY <1>1, <2>1, SpikesCounted
  <2>3. SpikesBefore(TheCells[j]) = Spikes(j - 1)
    BY SpikesForm
  <2>. QED BY <2>2, <2>3
<1>11. Ticks(Kind(c)) \in Nat
  BY DEF Ticks
<1>12. c \in ToSet(Cells(track))
  <2>1. TheCells \in Seq(CellId)
    BY CountTyped
  <2>2. j \in DOMAIN TheCells
    BY <2>1 DEF Count
  <2>. QED BY <2>2 DEF ToSet, TheCells
<1>. HIDE DEF c, s
<1>13. Ticks(Kind(c)) + 20 * Cardinality(SpikesBefore(c)) > 255
  <2>1. s + Ticks(Kind(c)) > 255
    BY <1>3, <1>7, <1>8, <1>9, <1>11
  <2>. QED BY <1>7, <1>10, <1>11, <2>1
<1>. QED BY <1>8, <1>12, <1>13 DEF TooLong

LEMMA ValueRaises ==
  ASSUME Known, Extracted(Filtered(TrackFile).out).value # 0
  PROVE  ValueCut
<1>. DEFINE kept == Filtered(TrackFile).out
<1>1. PICK sh, fo : IsFiltered(kept, sh, fo)
  BY TrackFiltered
<1>2. PICK va, op, ix :
        /\ IsRead(Extracted(kept).out, Extracted(kept).index_pos, sh, va, op, ix)
        /\ va[Count] = Extracted(kept).value
  BY <1>1, KeptRead
<1>3. va[Count] # 0 /\ va[0] = 0 /\ Count \in Nat
  BY <1>2, CountTyped DEF IsRead
<1>4. Count \in 1 .. Count
  BY <1>3
<1>5. va[Count] = ValueAfter(TheCells[Count], va[Count - 1])
  BY <1>2, <1>4 DEF IsRead, ReadAt
<1>6. Kind(TheCells[Count]) = "longlow"
  BY <1>3, <1>5 DEF ValueAfter
<1>7. TheCells # <<>>
  BY <1>4 DEF Count
<1>. QED BY <1>6, <1>7 DEF ValueCut, TheCells, Count

LEMMA NumberRaises ==
  ASSUME track \in Tracks, AllGenuine, ~AllNumbered
  PROVE  UnknownSector
<1>1. PICK b \in blks : b.hdr_ok /\ ~(b.sector < NumSectors)
  BY DEF AllNumbered
<1>2. PICK k \in Sectors(track) : b.sector = track[k].sector
  BY <1>1 DEF AllGenuine, Genuine
<1>. DEFINE s == track[k].sector
<1>3. s \in Nat
  BY TrackForm
<1>. HIDE DEF s
<1>4. s >= NumSectors
  BY <1>1, <1>2, <1>3, AnalyzerAssumption DEF s
<1>. QED BY <1>4 DEF UnknownSector, s

(* These depend on the track, the damage and the bits alone. *)
LEMMA SameTrack ==
  ASSUME UNCHANGED <<track, damage>>
  PROVE  /\ TheCells' = TheCells /\ TrackFile' = TrackFile
         /\ Samples' = Samples /\ Marks' = Marks /\ AllBits' = AllBits
         /\ OnDisk => OnDisk'
         /\ \A k : Promised(k)' <=> Promised(k)
         /\ Lost' <=> Lost
<1>1. track' = track /\ damage' = damage
  OBVIOUS
<1>2. TheCells' = TheCells
  BY <1>1 DEF TheCells
<1>3. \A c : Code(c)' = Code(c)
  BY <1>1 DEF Code
<1>4. TrackFile' = TrackFile
  BY <1>1, <1>3 DEF TrackFile
<1>5. Samples' = Samples /\ Marks' = Marks
  BY <1>4 DEF Samples, Marks
<1>6. AllBits' = AllBits
  BY <1>5 DEF AllBits
<1>7. OnDisk => OnDisk'
  BY <1>1, <1>2 DEF OnDisk
<1>8. \A c : Kind(c)' = Kind(c)
  BY <1>1 DEF Kind
<1>9. \A c : Before(c)' = Before(c)
  BY <1>1 DEF Before
<1>10. \A c : Swallowed(c)' <=> Swallowed(c)
  BY <1>8, <1>9 DEF Swallowed
<1>11. \A c : SpikesBefore(c)' = SpikesBefore(c)
  BY <1>8, <1>9 DEF SpikesBefore
<1>12. \A c, kinds : Becomes(c, kinds)' <=> Becomes(c, kinds)
  BY <1>8, <1>10, <1>11 DEF Becomes
<1>13. \A k, names : CellsIn(k, names)' = CellsIn(k, names)
  BY <1>1 DEF CellsIn
<1>14. \A k : SyncSeen(k)' <=> SyncSeen(k)
  BY <1>1, <1>12, <1>13 DEF SyncSeen
<1>15. \A k : InLine(k)' <=> InLine(k)
  BY <1>1, <1>12, <1>13, <1>14 DEF InLine
<1>16. \A k : Promised(k)' <=> Promised(k)
  BY <1>1, <1>12, <1>13, <1>14, <1>15 DEF Promised
<1>17. (TooLong' <=> TooLong) /\ (ValueCut' <=> ValueCut) /\ (UnknownSector' <=> UnknownSector)
  <2>1. TooLong' <=> TooLong
    BY <1>1, <1>8, <1>11 DEF TooLong
  <2>2. ValueCut' <=> ValueCut
    BY <1>1, <1>8 DEF ValueCut
  <2>3. UnknownSector' <=> UnknownSector
    BY <1>1 DEF UnknownSector
  <2>. QED BY <2>1, <2>2, <2>3
<1>18. Lost' <=> Lost
  BY <1>17 DEF Lost
<1>. QED BY <1>2, <1>4, <1>5, <1>6, <1>7, <1>16, <1>18

LEMMA SameBits ==
  ASSUME UNCHANGED <<track, bits>>
  PROVE  /\ sync_pos' = sync_pos /\ RawBlocks' = RawBlocks
         /\ \A b : Genuine(b)' <=> Genuine(b)
         /\ \A k, b : FromSector(k, b)' <=> FromSector(k, b)
         /\ \A pos : Later(pos)' = Later(pos) /\ GapOf(pos)' = GapOf(pos)
         /\ \A off, gap, g, lost :
              decode_amiga_block(off, gap, g, lost)' = decode_amiga_block(off, gap, g, lost)
<1>1. track' = track /\ bits' = bits
  OBVIOUS
<1>2. \A pos : SyncAt(pos)' <=> SyncAt(pos)
  BY <1>1 DEF SyncAt
<1>3. sync_pos' = sync_pos
  BY <1>1, <1>2 DEF sync_pos
<1>4. \A pos : Later(pos)' = Later(pos)
  BY <1>3 DEF Later
<1>5. \A pos : NextSync(pos)' = NextSync(pos)
  BY <1>4 DEF NextSync
<1>6. RawBlocks' = RawBlocks
  BY <1>3, <1>4, <1>5 DEF RawBlocks
<1>7. \A off, len : Slice(off, len)' = Slice(off, len)
  BY <1>1 DEF Slice
<1>8. \A off : HeadersAt(off)' = HeadersAt(off)
  BY <1>1, <1>7 DEF HeadersAt
<1>9. \A off, gap, g, lost :
        decode_amiga_block(off, gap, g, lost)' = decode_amiga_block(off, gap, g, lost)
  <2>. SUFFICES ASSUME NEW off, NEW gap, NEW g, NEW lost
                PROVE  decode_amiga_block(off, gap, g, lost)' = decode_amiga_block(off, gap, g, lost)
    OBVIOUS
  <2>1. HeadersAt(off)' = HeadersAt(off)
    BY <1>8, Zenon
  <2>2. (CHOOSE h \in HeadersAt(off) : TRUE)' = CHOOSE h \in HeadersAt(off) : TRUE
    BY <2>1, Zenon
  <2>3. Slice(off + amiga_hdr_bit_len, amiga_data_bit_len)'
          = Slice(off + amiga_hdr_bit_len, amiga_data_bit_len)
    BY <1>7, Zenon
  <2>. QED BY <1>1, <2>1, <2>2, <2>3, Zenon DEF decode_amiga_block
<1>10. \A b : Genuine(b)' <=> Genuine(b)
  BY <1>1, <1>7 DEF Genuine
<1>11. \A k, b : FromSector(k, b)' <=> FromSector(k, b)
  BY <1>1 DEF FromSector
<1>12. \A pos : GapOf(pos)' = GapOf(pos)
  BY <1>5 DEF GapOf
<1>. QED BY <1>3, <1>4, <1>6, <1>9, <1>10, <1>11, <1>12

LEMMA InitInv == Init => Inv
<1>. SUFFICES ASSUME Init PROVE Inv
  OBVIOUS
<1>1. OnDisk
  <2>1. PICK n \in 0 .. MaxDamages : \E cs \in kSubset(n, ToSet(Cells(track))) : damage \in [cs -> Damages]
    BY DEF Init
  <2>2. PICK cs \in kSubset(n, ToSet(Cells(track))) : damage \in [cs -> Damages]
    BY <2>1
  <2>3. cs \subseteq ToSet(Cells(track)) /\ DOMAIN damage = cs
    BY <2>2 DEF kSubset
  <2>. QED BY <2>2, <2>3 DEF OnDisk, Init, TheCells
<1>2. <<>> \in Seq(Nat) /\ <<>> \in Seq(BitId)
  OBVIOUS
<1>3. /\ stage = "read" /\ index_pos = <<>> /\ bits = <<>> /\ blks = {}
      /\ DOMAIN file = 0 .. NumSectors - 1
  BY DEF Init
<1>. QED BY <1>1, <1>2, <1>3 DEF Inv, Stages, AllGenuine

(* What every step but three leaves alone. *)
LEMMA FrameInv ==
  ASSUME Inv, UNCHANGED <<track, damage, bits, blks>>, DOMAIN file' = DOMAIN file, index_pos' \in Seq(Nat),
         stage' \in Stages
  PROVE  /\ OnDisk' /\ stage' \in Stages /\ index_pos' \in Seq(Nat) /\ bits' \in Seq(BitId)
         /\ DOMAIN file' = 0 .. NumSectors - 1 /\ AllGenuine'
<1>1. OnDisk'
  BY SameTrack DEF Inv
<1>2. AllGenuine'
  <2>1. \A b : Genuine(b)' <=> Genuine(b)
    BY SameBits
  <2>. QED BY <2>1 DEF Inv, AllGenuine
<1>. QED BY <1>1, <1>2 DEF Inv

LEMMA SamplesStep ==
  ASSUME Inv, read_track_data \/ filter_spikes \/ extract_markers
  PROVE  Inv'
<1>1. UNCHANGED <<track, damage, bits, blks>> /\ file' = file
  BY DEF read_track_data, filter_spikes, extract_markers
<1>2. TrackFile' = TrackFile /\ Samples' = Samples /\ Marks' = Marks
  BY <1>1, SameTrack
<1>3. blks = {}
  BY DEF Inv, read_track_data, filter_spikes, extract_markers
<1>4. CASE read_track_data
  <2>1. stage' = "filter" /\ data' = TrackFile /\ index_pos' = index_pos
    BY <1>4 DEF read_track_data
  <2>2. index_pos' \in Seq(Nat) /\ stage' \in Stages
    BY <2>1 DEF Inv, Stages
  <2>. QED BY <1>1, <1>2, <1>3, <2>1, <2>2, FrameInv DEF Inv
<1>5. CASE filter_spikes
  <2>1. stage' \in {"extract", "raised"} /\ data' = Filtered(data).out /\ index_pos' = index_pos /\ data = TrackFile
    BY <1>5 DEF filter_spikes, Inv
  <2>2. index_pos' \in Seq(Nat) /\ stage' \in Stages
    BY <2>1 DEF Inv, Stages
  <2>3. stage' = "raised" => Lost'
    <3>. SUFFICES ASSUME stage' = "raised" PROVE Lost'
      OBVIOUS
    <3>1. ~(\A m \in DOMAIN data' : data'[m].t <= 255)
      BY <1>5 DEF filter_spikes
    <3>2. PICK m \in DOMAIN Filtered(TrackFile).out : ~(Filtered(TrackFile).out[m].t <= 255)
      BY <2>1, <3>1
    <3>3. TooLong
      BY <3>2, FilterRaises, DiskKnown DEF Inv, OnTrack
    <3>. QED BY <1>1, <3>3, SameTrack DEF Lost
  <2>. QED BY <1>1, <1>2, <1>3, <2>1, <2>2, <2>3, FrameInv DEF Inv
<1>6. CASE extract_markers
  <2>1. /\ stage' \in {"bits", "raised"} /\ data' = Extracted(data).out
        /\ index_pos' = Extracted(data).index_pos /\ data = Filtered(TrackFile).out
    BY <1>6 DEF extract_markers, Inv
  <2>2. data' = Samples /\ index_pos' = Marks
    BY <2>1 DEF Samples, Marks
  <2>3. index_pos' \in Seq(Nat) /\ stage' \in Stages
    <3>1. Marks \in Seq(Nat)
      BY DiskKnown, ReadTrack DEF Inv
    <3>. QED BY <2>1, <2>2, <3>1 DEF Stages
  <2>4. stage' = "raised" => Lost'
    <3>. SUFFICES ASSUME stage' = "raised" PROVE Lost'
      OBVIOUS
    <3>1. Extracted(data).value # 0
      BY <1>6 DEF extract_markers
    <3>2. ValueCut
      BY <2>1, <3>1, ValueRaises, DiskKnown DEF Inv, OnTrack
    <3>. QED BY <1>1, <3>2, SameTrack DEF Lost
  <2>. QED BY <1>1, <1>2, <1>3, <2>1, <2>2, <2>3, <2>4, FrameInv DEF Inv
<1>. QED BY <1>4, <1>5, <1>6

LEMMA BitsStep ==
  ASSUME Inv, all_cellcodes_to_bits
  PROVE  Inv'
<1>1. /\ UNCHANGED <<track, damage, blks, index_pos>> /\ file' = file /\ stage' = "cut"
      /\ bits' = FlattenSeq([j \in DOMAIN data |-> SampleBits(data[j])]) /\ data = Samples /\ blks = {}
  BY DEF all_cellcodes_to_bits, Inv
<1>2. bits' = AllBits
  BY <1>1 DEF AllBits
<1>3. AllBits' = AllBits /\ OnDisk'
  BY <1>1, SameTrack DEF Inv
<1>4. bits' \in Seq(BitId)
  BY <1>2, DiskKnown, ReadTrack DEF Inv
<1>5. AllGenuine'
  BY <1>1 DEF AllGenuine
<1>. QED BY <1>1, <1>2, <1>3, <1>4, <1>5 DEF Inv, Stages

LEMMA BlocksStep ==
  ASSUME Inv, cut_by_sync \/ decode_all_amiga_blocks \/ recover_lost_sync_blocks
  PROVE  Inv'
<1>1. UNCHANGED <<track, damage, bits, index_pos>> /\ file' = file
  BY DEF cut_by_sync, decode_all_amiga_blocks, recover_lost_sync_blocks
<1>2. /\ OnDisk' /\ AllBits' = AllBits /\ bits' = bits /\ bits = AllBits /\ bits \in Seq(BitId)
      /\ index_pos' \in Seq(Nat) /\ DOMAIN file' = 0 .. NumSectors - 1 /\ bits' \in Seq(BitId)
  BY <1>1, SameTrack DEF Inv, cut_by_sync, decode_all_amiga_blocks, recover_lost_sync_blocks
<1>3. /\ sync_pos' = sync_pos /\ RawBlocks' = RawBlocks
      /\ \A b : Genuine(b)' <=> Genuine(b)
      /\ \A pos : Later(pos)' = Later(pos) /\ GapOf(pos)' = GapOf(pos)
      /\ \A off, gap, g, lost :
           decode_amiga_block(off, gap, g, lost)' = decode_amiga_block(off, gap, g, lost)
  BY <1>1, SameBits
<1>4. CASE cut_by_sync
  <2>1. stage' = "decode" /\ raw_blks' = RawBlocks /\ blks' = blks
    BY <1>4 DEF cut_by_sync, RawBlocks
  <2>2. AllGenuine'
    BY <1>3, <2>1 DEF Inv, AllGenuine
  <2>. QED BY <1>1, <1>2, <1>3, <2>1, <2>2 DEF Inv, Stages
<1>5. CASE decode_all_amiga_blocks
  <2>1. stage' = "recover" /\ raw_blks = RawBlocks
    BY <1>5 DEF decode_all_amiga_blocks, Inv
  <2>2. PICK to_gap \in [raw_blks -> 1 .. 2] :
          blks' = {decode_amiga_block(raw.off, raw.size - amiga_block_bit_len, to_gap[raw], FALSE) :
                     raw \in {r \in raw_blks : r.off + amiga_block_bit_len <= Len(bits)}}
    BY <1>5 DEF decode_all_amiga_blocks
  <2>3. /\ \A b \in blks' : Genuine(b)
        /\ \A pos \in sync_pos : Later(pos) # {} /\ BeginOf(pos) + amiga_block_bit_len <= Len(bits) =>
             \E g \in 1 .. 2 : decode_amiga_block(BeginOf(pos), GapOf(pos), g, FALSE) \in blks'
    BY <1>2, <2>1, <2>2, DecodedSound
  <2>4. AllGenuine'
    BY <1>3, <2>3 DEF AllGenuine
  <2>5. BySync'
    BY <1>1, <1>3, <2>3 DEF BySync
  <2>. QED BY <1>1, <1>2, <2>1, <2>4, <2>5 DEF Inv, Stages
<1>6. CASE recover_lost_sync_blocks
  <2>1. stage' = "assign" /\ blks' = blks \cup UNION {LostBlocks(b) : b \in LongSectors}
    BY <1>6 DEF recover_lost_sync_blocks
  <2>2. BySync /\ AllGenuine
    BY <1>6 DEF recover_lost_sync_blocks, Inv
  <2>3. \A b \in blks' : Genuine(b)
    BY <1>2, <2>1, <2>2, RecoveredSound DEF AllGenuine
  <2>4. AllGenuine'
    BY <1>3, <2>3 DEF AllGenuine
  <2>5. PICK pa, bo : Laid(pa, bo)
    BY <1>2, DiskKnown, ReadTrack DEF Inv
  <2>6. \A k \in Sectors(track) : Promised(k) => \E b \in blks' : FromSector(k, b)
    BY <2>1, <2>2, <2>5, PromisedRecovered
  <2>7. /\ \A k : Promised(k)' <=> Promised(k)
        /\ \A k, b : FromSector(k, b)' <=> FromSector(k, b)
    BY <1>1, SameTrack, SameBits
  <2>8. AllPromised'
    BY <1>1, <2>6, <2>7 DEF AllPromised
  <2>. QED BY <1>1, <1>2, <2>1, <2>4, <2>8 DEF Inv, Stages
<1>. QED BY <1>4, <1>5, <1>6

LEMMA AssignStep ==
  ASSUME Inv, assign_blocks
  PROVE  Inv'
<1>1. /\ UNCHANGED <<track, damage, bits, blks>> /\ file' = file /\ index_pos' = index_pos
      /\ stage' \in {"write", "raised"} /\ AllPromised /\ bits = AllBits
      /\ stage' = "write" => AllNumbered
      /\ stage' = "raised" => ~AllNumbered
  BY DEF assign_blocks, Inv, AllNumbered
<1>2. index_pos' \in Seq(Nat) /\ stage' \in Stages
  BY <1>1 DEF Inv, Stages
<1>3. AllPromised' /\ AllBits' = AllBits
  <2>1. \A k : Promised(k)' <=> Promised(k)
    BY <1>1, SameTrack
  <2>2. \A k, b : FromSector(k, b)' <=> FromSector(k, b)
    BY <1>1, SameBits
  <2>3. AllPromised'
    BY <1>1, <2>1, <2>2 DEF AllPromised
  <2>. QED BY <1>1, <2>3, SameTrack
<1>4. AllNumbered => AllNumbered'
  BY <1>1 DEF AllNumbered
<1>5. stage' = "raised" => Lost'
  <2>. SUFFICES ASSUME stage' = "raised" PROVE Lost'
    OBVIOUS
  <2>1. UnknownSector
    BY <1>1, NumberRaises DEF Inv, OnDisk
  <2>. QED BY <1>1, <2>1, SameTrack DEF Lost
<1>. QED BY <1>1, <1>2, <1>3, <1>4, <1>5, FrameInv DEF Inv

LEMMA WriteStep ==
  ASSUME Inv, write_blocks
  PROVE  Inv'
<1>1. /\ UNCHANGED <<track, damage, bits, blks>> /\ index_pos' = index_pos /\ stage' = "done"
      /\ AllPromised /\ AllNumbered /\ AllGenuine /\ track \in Tracks
      /\ DOMAIN file = 0 .. NumSectors - 1
  BY DEF write_blocks, Inv, OnDisk
<1>2. file' = [s \in 0 .. NumSectors - 1 |->
                 IF ValidBlocks(s) = {} THEN <<>>
                 ELSE Slice(FirstOf(ValidBlocks(s)).off + amiga_hdr_bit_len, amiga_data_bit_len)]
  BY <1>1 DEF write_blocks
<1>3. FileSound(file')
  BY <1>1, <1>2, WrittenSound
<1>4. FileSound(file)'
  <2>1. \A k : Promised(k)' <=> Promised(k)
    BY <1>1, SameTrack
  <2>. QED BY <1>1, <1>3, <2>1 DEF FileSound
<1>5. index_pos' \in Seq(Nat) /\ stage' \in Stages /\ DOMAIN file' = DOMAIN file
  BY <1>1, <1>2 DEF Inv, Stages
<1>. QED BY <1>1, <1>4, <1>5, FrameInv DEF Inv

LEMMA StopInv ==
  ASSUME Inv, UNCHANGED vars
  PROVE  Inv'
<1>1. /\ UNCHANGED <<track, damage, bits, blks>> /\ file' = file /\ index_pos' = index_pos /\ stage' = stage
      /\ data' = data /\ raw_blks' = raw_blks
  BY DEF vars
<1>2. /\ OnDisk' /\ stage' \in Stages /\ index_pos' \in Seq(Nat) /\ bits' \in Seq(BitId)
      /\ DOMAIN file' = 0 .. NumSectors - 1 /\ AllGenuine'
  <2>1. index_pos' \in Seq(Nat) /\ stage' \in Stages
    BY <1>1 DEF Inv
  <2>. QED BY <1>1, <2>1, FrameInv
<1>3. TrackFile' = TrackFile /\ Samples' = Samples /\ Marks' = Marks /\ AllBits' = AllBits
  BY <1>1, SameTrack
<1>4. RawBlocks' = RawBlocks
  BY <1>1, SameBits
<1>5. BySync => BySync'
  <2>1. /\ sync_pos' = sync_pos
        /\ \A pos : Later(pos)' = Later(pos) /\ GapOf(pos)' = GapOf(pos)
        /\ \A off, gap, g, lost :
             decode_amiga_block(off, gap, g, lost)' = decode_amiga_block(off, gap, g, lost)
    BY <1>1, SameBits
  <2>. QED BY <1>1, <2>1 DEF BySync
<1>6. (AllPromised => AllPromised') /\ (AllNumbered => AllNumbered') /\ (FileSound(file) => FileSound(file)')
  <2>1. \A k : Promised(k)' <=> Promised(k)
    BY <1>1, SameTrack
  <2>2. \A k, b : FromSector(k, b)' <=> FromSector(k, b)
    BY <1>1, SameBits
  <2>3. AllPromised => AllPromised'
    BY <1>1, <2>1, <2>2 DEF AllPromised
  <2>4. AllNumbered => AllNumbered'
    BY <1>1 DEF AllNumbered
  <2>5. FileSound(file) => FileSound(file)'
    BY <1>1, <2>1 DEF FileSound
  <2>. QED BY <2>3, <2>4, <2>5
<1>7. Lost' <=> Lost
  BY <1>1, SameTrack
<1>. QED BY <1>1, <1>2, <1>3, <1>4, <1>5, <1>6, <1>7 DEF Inv

LEMMA NextInv == Inv /\ [Next]_vars => Inv'
<1>. SUFFICES ASSUME Inv, [Next]_vars PROVE Inv'
  OBVIOUS
<1>1. CASE read_track_data \/ filter_spikes \/ extract_markers
  BY <1>1, SamplesStep
<1>2. CASE all_cellcodes_to_bits
  BY <1>2, BitsStep
<1>3. CASE cut_by_sync \/ decode_all_amiga_blocks \/ recover_lost_sync_blocks
  BY <1>3, BlocksStep
<1>4. CASE assign_blocks
  BY <1>4, AssignStep
<1>5. CASE write_blocks
  BY <1>5, WriteStep
<1>6. CASE Finished \/ UNCHANGED vars
  BY <1>6, StopInv DEF Finished
<1>. QED BY <1>1, <1>2, <1>3, <1>4, <1>5, <1>6 DEF Next

LEMMA SpecInv == Spec => []Inv
BY InitInv, NextInv, PTL DEF Spec

(* For any tracks, damage and sizes: between the filter and the bits, each *)
(* index mark stands in front of the cell that followed it on the disk,    *)
(* and, if no pulse is read as a mark, there is one for each index and no  *)
(* other (dfx-analyze.py:71-113, 195-215, 747-762).                        *)
THEOREM IndexAlwaysInPlace == Spec => []IndexInPlace
<1>1. Inv => IndexInPlace
  <2>. SUFFICES ASSUME Inv, stage = "bits"
                PROVE  /\ \A c \in DOMAIN damage : damage[c] = "index" /\ ~Swallowed(c) =>
                            \E n \in DOMAIN index_pos : data[index_pos[n] + 1].cell = c
                       /\ "longlow" \notin {damage[c] : c \in DOMAIN damage} =>
                            Len(index_pos) = Cardinality({c \in DOMAIN damage : damage[c] = "index"})
    BY DEF IndexInPlace
  <2>1. OnTrack /\ Known
    BY DiskKnown DEF Inv, OnTrack
  <2>2. PICK sh, fo : IsFiltered(Filtered(TrackFile).out, sh, fo)
    BY <2>1, TrackFiltered
  <2>3. data = Samples /\ index_pos = Marks
    BY DEF Inv
  <2>4. PICK va, op, ix : IsRead(data, index_pos, sh, va, op, ix)
    BY <2>1, <2>2, <2>3, KeptRead DEF Samples, Marks
  <2>5. ASSUME NEW c \in DOMAIN damage, damage[c] = "index", ~Swallowed(c)
        PROVE  \E n \in DOMAIN index_pos : data[index_pos[n] + 1].cell = c
    BY <2>1, <2>4, <2>5, IndexFound
  <2>6. ASSUME "longlow" \notin {damage[c] : c \in DOMAIN damage}
        PROVE  Len(index_pos) = Cardinality({c \in DOMAIN damage : damage[c] = "index"})
    BY <2>1, <2>4, <2>6, IndexCounted
  <2>. QED BY <2>5, <2>6
<1>. QED BY <1>1, SpecInv, PTL

(* For any tracks, damage and sizes: if the program comes to its end, a    *)
(* sector whose own bits came through, with its sync or with its place in  *)
(* the line of sectors, and with any sync behind it, is in the file, and   *)
(* what is in the file for a sector is the data of a sector of the disk    *)
(* with that number; if it raises, a pulse and the spikes in front of it   *)
(* were too long, the track ended in a cut value, or a sector had a number *)
(* the program does not know; the offsets of all blocks are on the track   *)
(* (dfx-analyze.py:89, 195-215, 355-375, 492-592, 833-849).                *)
THEOREM SectorsAlwaysFound == Spec => []AnalyzerSound
<1>1. Inv => TypeOK
  <2>. SUFFICES ASSUME Inv PROVE TypeOK
    OBVIOUS
  <2>1. track \in Tracks /\ \A c \in DOMAIN damage : damage[c] \in Damages
    BY DEF Inv, OnDisk
  <2>2. \A n \in DOMAIN index_pos : index_pos[n] \in Nat
    BY DEF Inv
  <2>3. ASSUME NEW b \in blks PROVE b.off \in 0 .. Len(bits) - amiga_block_bit_len
    <3>. DEFINE L == Len(bits)  blk == amiga_block_bit_len  x == b.off
    <3>1. x \in Nat /\ x + blk <= L
      BY DEF Inv, AllGenuine, Genuine
    <3>2. L \in Nat /\ blk \in Nat
      BY Lengths DEF Inv
    <3>. HIDE DEF L, blk, x
    <3>3. x \in 0 .. L - blk
      BY <3>1, <3>2
    <3>. QED BY <3>3 DEF L, blk, x
  <2>4. stage \in Stages
    BY DEF Inv
  <2>. QED BY <2>1, <2>2, <2>3, <2>4 DEF TypeOK, Stages
<1>2. Inv => SectorsFound
  BY DEF Inv, FileSound, SectorsFound, Promised
<1>3. Inv => TrackLost
  BY DEF Inv, TrackLost
<1>4. Inv => AnalyzerSound
  BY <1>1, <1>2, <1>3 DEF AnalyzerSound
<1>. QED BY <1>4, SpecInv, PTL
=============================================================================
