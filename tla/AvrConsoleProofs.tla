-------------------------- MODULE AvrConsoleProofs --------------------------
(***************************************************************************)
(* For a ring and a console of any size and any number of bytes: what the  *)
(* AVR console can read are the last bytes to arrive, whenever the         *)
(* interrupt comes, and what it shows are the last lines of what was       *)
(* printed.                                                                *)
(*                                                                         *)
(* RingKeepsLast is not inductive.  The ring may be lapped between the     *)
(* test for a byte and its read, which then goes past the end of the ring  *)
(* and finds a whole ring to read: so the invariant speaks of every slot,  *)
(* and of both indices as counters modulo the size.  For ConsoleSound it   *)
(* says where on endless paper the position of the console is.             *)
(***************************************************************************)
EXTENDS AvrConsole, TLAPS

N == UART_RX_BUF_SIZE

RingTypes ==
  /\ uart_rx_buf \in [Slots -> Bytes]
  /\ arrived \in Seq(Bytes) /\ taken \in Seq(Bytes)
  /\ pc \in {"boot", "read", "take", "put"}

Indices ==
  /\ uart_rx_start = Len(taken) % N /\ uart_rx_end = Len(arrived) % N
  /\ Len(taken) <= Len(arrived)
  /\ pc = "take" => Len(taken) < Len(arrived)

(* Each slot has the last byte that fell on it. *)
Newest ==
  \A k \in 1 .. Len(arrived) :
    k + N > Len(arrived) => uart_rx_buf[(k - 1) % N] = arrived[k]

(* A byte was lost only if more than a ring of them waits, or exactly one  *)
(* that the console takes for an empty one.                                *)
Behind == Len(arrived) - Len(taken)
NoneLost == Behind < N \/ (Behind = N /\ pc = "take")
InOrder == NoneLost => \A k \in 1 .. Len(taken) : taken[k] = arrived[k]

IInv == RingTypes /\ Indices /\ Newest /\ InOrder

(***************************************************************************)
(* Counters modulo the size of the ring.                                   *)
(***************************************************************************)
LEMMA SizePositive == N \in Nat \ {0}
BY ConsoleAssumption DEF N

LEMMA Divided ==
  ASSUME NEW a \in Nat
  PROVE  /\ a % N \in 0 .. N - 1 /\ a \div N \in Nat
         /\ a = N * (a \div N) + (a % N)
BY SizePositive

LEMMA ModUnique ==
  ASSUME NEW q \in Int, NEW r \in 0 .. N - 1
  PROVE  (N * q + r) % N = r
BY SizePositive

LEMMA Advance ==
  ASSUME NEW a \in Nat
  PROVE  Advanced(a % N) = (a + 1) % N
<1>. DEFINE q == a \div N
            r == a % N
<1>1. r \in 0 .. N - 1 /\ q \in Nat /\ a = N * q + r
  BY Divided
<1>. HIDE DEF q, r
<1>2. CASE r + 1 = N
  <2>1. a + 1 = N * (q + 1) + 0 /\ q + 1 \in Int /\ 0 \in 0 .. N - 1
    BY <1>1, <1>2, SizePositive
  <2>2. (a + 1) % N = 0
    BY <2>1, ModUnique
  <2>. QED BY <1>2, <2>2 DEF Advanced, N, r
<1>3. CASE r + 1 # N
  <2>1. a + 1 = N * q + (r + 1) /\ r + 1 \in 0 .. N - 1
    BY <1>1, <1>3, SizePositive
  <2>2. (a + 1) % N = r + 1
    BY <1>1, <2>1, ModUnique
  <2>. QED BY <1>3, <2>2 DEF Advanced, N, r
<1>. QED BY <1>2, <1>3

(* The distance of two counters is that of their residues, and whole laps  *)
(* do not change a slot.                                                   *)
LEMMA Distance ==
  ASSUME NEW a \in Nat, NEW b \in Nat, a <= b
  PROVE  ((b % N) - (a % N)) % N = (b - a) % N
<1>. DEFINE qa == a \div N
            ra == a % N
            qb == b \div N
            rb == b % N
<1>1. ra \in 0 .. N - 1 /\ qa \in Nat /\ a = N * qa + ra
  BY Divided
<1>2. rb \in 0 .. N - 1 /\ qb \in Nat /\ b = N * qb + rb
  BY Divided
<1>. HIDE DEF qa, ra, qb, rb
<1>3. CASE ra <= rb
  <2>1. b - a = N * (qb - qa) + (rb - ra) /\ rb - ra \in 0 .. N - 1 /\ qb - qa \in Int
    BY <1>1, <1>2, <1>3, SizePositive
  <2>2. rb - ra = N * 0 + (rb - ra)
    BY <1>1, <1>2, SizePositive
  <2>. QED BY <2>1, <2>2, ModUnique DEF ra, rb
<1>4. CASE ra > rb
  <2>1. /\ b - a = N * (qb - qa - 1) + (rb - ra + N) /\ rb - ra + N \in 0 .. N - 1
        /\ qb - qa - 1 \in Int
    BY <1>1, <1>2, <1>4, SizePositive
  <2>2. rb - ra = N * (0 - 1) + (rb - ra + N) /\ 0 - 1 \in Int
    BY <1>1, <1>2, SizePositive
  <2>. QED BY <2>1, <2>2, ModUnique DEF ra, rb
<1>. QED BY <1>1, <1>2, <1>3, <1>4

LEMMA SameSlot ==
  ASSUME NEW a \in Nat, NEW n \in Nat, NEW q \in Nat
  PROVE  ((a % N) + n) % N = (a + n + N * q) % N
<1>. DEFINE r == a % N
            p == a \div N
            m == (r + n) % N
            s == (r + n) \div N
<1>1. r \in 0 .. N - 1 /\ p \in Nat /\ a = N * p + r
  BY Divided
<1>2. m \in 0 .. N - 1 /\ s \in Nat /\ r + n = N * s + m
  BY <1>1, Divided
<1>. HIDE DEF r, p, m, s
<1>3. a + n + N * q = N * (p + s + q) + m /\ p + s + q \in Int
  BY <1>1, <1>2, SizePositive
<1>. QED BY <1>2, <1>3, ModUnique DEF m, r

(* Two slots of the last N bytes are the same only if the bytes are. *)
LEMMA OtherSlot ==
  ASSUME NEW a \in Nat, NEW b \in Nat, a < b, b < a + N
  PROVE  a % N # b % N
<1>1. /\ a % N \in 0 .. N - 1 /\ a \div N \in Nat /\ a = N * (a \div N) + (a % N)
      /\ b % N \in 0 .. N - 1 /\ b \div N \in Nat /\ b = N * (b \div N) + (b % N)
  BY Divided
<1>2. SUFFICES ASSUME a % N = b % N PROVE FALSE
  OBVIOUS
<1>3. b - a = N * (b \div N - a \div N)
  BY <1>1, <1>2, SizePositive
<1>. DEFINE d == b \div N - a \div N
<1>4. d \in Int /\ 0 < N * d /\ N * d < N
  BY <1>1, <1>3, SizePositive
<1>. HIDE DEF d
<1>5. d >= 1
  BY <1>4, SizePositive
<1>6. N * d >= N
  BY <1>4, <1>5, SizePositive
<1>. QED BY <1>4, <1>6, SizePositive

(***************************************************************************)
(* The steps.                                                              *)
(***************************************************************************)
LEMMA InitInv == Init => IInv
<1> SUFFICES ASSUME Init PROVE IInv
  OBVIOUS
<1>1. 0 % N = 0 /\ 0 \in Slots
  BY SizePositive DEF Slots, N
<1>2. Len(arrived) = 0 /\ Len(taken) = 0 /\ arrived \in Seq(Bytes) /\ taken \in Seq(Bytes)
  BY DEF Init
<1>3. uart_rx_buf \in [Slots -> Bytes]
  BY DEF Init, Bytes
<1>. QED
  BY <1>1, <1>2, <1>3 DEF Init, IInv, RingTypes, Indices, Newest, InOrder

LEMMA ReceiveInv == IInv /\ USART_RX_vect => IInv'
<1> SUFFICES ASSUME IInv, USART_RX_vect PROVE IInv'
  OBVIOUS
<1>. USE DEF IInv
<1>1. PICK data \in Bytes : /\ uart_rx_buf' = [uart_rx_buf EXCEPT ![uart_rx_end] = data]
                            /\ arrived' = Append(arrived, data)
  BY DEF USART_RX_vect
<1>2. uart_rx_end' = Advanced(uart_rx_end) /\ UNCHANGED <<uart_rx_start, pc, taken>>
  BY DEF USART_RX_vect
<1>3. /\ Len(arrived) \in Nat /\ Len(taken) \in Nat /\ arrived' \in Seq(Bytes)
      /\ Len(arrived') = Len(arrived) + 1 /\ arrived'[Len(arrived) + 1] = data
      /\ \A k \in 1 .. Len(arrived) : arrived'[k] = arrived[k]
  BY <1>1 DEF RingTypes
<1>4. uart_rx_end = Len(arrived) % N /\ uart_rx_end \in Slots
  BY <1>3, Divided DEF Indices, Slots, N
<1>5. RingTypes'
  BY <1>1, <1>2, <1>3, <1>4 DEF RingTypes
<1>6. Indices'
  <2>1. uart_rx_end' = (Len(arrived) + 1) % N
    BY <1>2, <1>3, <1>4, Advance
  <2>. QED BY <1>2, <1>3, <2>1 DEF Indices
<1>7. Newest'
  <2> SUFFICES ASSUME NEW k \in 1 .. Len(arrived'), k + N > Len(arrived')
               PROVE  uart_rx_buf'[(k - 1) % N] = arrived'[k]
    BY DEF Newest
  <2>1. (k - 1) % N \in Slots
    <3>1. k - 1 \in Nat
      BY <1>3
    <3>. QED BY <3>1, Divided DEF Slots, N
  <2>2. CASE k = Len(arrived) + 1
    BY <1>1, <1>3, <1>4, <2>1, <2>2 DEF RingTypes
  <2>3. CASE k # Len(arrived) + 1
    <3>1. k \in 1 .. Len(arrived) /\ k + N > Len(arrived)
      BY <1>3, <2>3, SizePositive
    <3>2. k - 1 \in Nat /\ k - 1 < Len(arrived) /\ Len(arrived) < (k - 1) + N
      BY <1>3, <3>1, SizePositive
    <3>3. (k - 1) % N # uart_rx_end
      BY <1>3, <1>4, <3>2, OtherSlot
    <3>. QED BY <1>1, <1>3, <1>4, <2>1, <3>1, <3>3 DEF Newest, RingTypes
  <2>. QED BY <2>2, <2>3
<1>8. ASSUME NoneLost' PROVE \A k \in 1 .. Len(taken') : taken'[k] = arrived'[k]
  <2>1. NoneLost
    BY <1>2, <1>3, <1>8, SizePositive DEF NoneLost, Behind
  <2>2. Len(taken) <= Len(arrived)
    BY DEF Indices
  <2>. QED BY <1>2, <1>3, <2>1, <2>2 DEF InOrder
<1>9. InOrder'
  BY <1>8 DEF InOrder
<1>. QED BY <1>5, <1>6, <1>7, <1>9

LEMMA SeeByteInv == IInv /\ SeeByte => IInv'
<1> SUFFICES ASSUME IInv, SeeByte PROVE IInv'
  OBVIOUS
<1>. USE DEF IInv
<1>1. /\ UNCHANGED <<uart_rx_buf, uart_rx_start, uart_rx_end, arrived, taken>>
      /\ uart_rx_start # uart_rx_end /\ pc' = "take"
  BY DEF SeeByte, ring
<1>2. Len(arrived) \in Nat /\ Len(taken) \in Nat
  BY DEF RingTypes
<1>3. Len(taken) # Len(arrived)
  BY <1>1 DEF Indices
<1>4. Behind # N
  <2>1. SUFFICES ASSUME Len(arrived) = Len(taken) + N PROVE FALSE
    BY <1>2, SizePositive DEF Behind
  <2>2. ((Len(taken) % N) + 0) % N = (Len(taken) + 0 + N * 1) % N
    BY <1>2, SameSlot
  <2>3. Len(taken) % N \in 0 .. N - 1
    BY <1>2, Divided, SizePositive
  <2>4. (Len(taken) % N) % N = Len(taken) % N
    <3>. DEFINE r == Len(taken) % N
    <3>1. r \in 0 .. N - 1
      BY <2>3
    <3>. HIDE DEF r
    <3>2. r = N * 0 + r
      BY <3>1, SizePositive
    <3>3. r % N = r
      BY <3>1, <3>2, ModUnique
    <3>. QED BY <3>3 DEF r
  <2>. QED BY <1>1, <1>2, <2>1, <2>2, <2>3, <2>4, SizePositive DEF Indices
<1>5. RingTypes' /\ Newest'
  BY <1>1 DEF RingTypes, Newest
<1>6. Indices'
  BY <1>1, <1>2, <1>3 DEF Indices
<1>7. InOrder'
  BY <1>1, <1>4 DEF InOrder, NoneLost, Behind
<1>. QED BY <1>5, <1>6, <1>7

LEMMA TakeInv == IInv /\ uart_read => IInv'
<1> SUFFICES ASSUME IInv, uart_read PROVE IInv'
  OBVIOUS
<1>. USE DEF IInv
<1>1. /\ UNCHANGED <<uart_rx_buf, uart_rx_end, arrived>>
      /\ taken' = Append(taken, uart_rx_buf[uart_rx_start])
      /\ uart_rx_start' = Advanced(uart_rx_start)
      /\ pc = "take" /\ pc' = "put"
  BY DEF uart_read, Oldest
<1>2. Len(arrived) \in Nat /\ Len(taken) \in Nat /\ Len(taken) < Len(arrived)
  BY <1>1 DEF RingTypes, Indices
<1>3. uart_rx_start \in Slots /\ uart_rx_buf[uart_rx_start] \in Bytes
  BY <1>2, Divided DEF Indices, Slots, N, RingTypes
<1>4. /\ taken' \in Seq(Bytes) /\ Len(taken') = Len(taken) + 1
      /\ taken'[Len(taken) + 1] = uart_rx_buf[uart_rx_start]
      /\ \A k \in 1 .. Len(taken) : taken'[k] = taken[k]
  BY <1>1, <1>3 DEF RingTypes
<1>5. RingTypes' /\ Newest'
  BY <1>1, <1>4 DEF RingTypes, Newest
<1>6. Indices'
  BY <1>1, <1>2, <1>4, Advance DEF Indices
<1>7. ASSUME NoneLost' PROVE \A k \in 1 .. Len(taken') : taken'[k] = arrived'[k]
  <2>1. Len(arrived) <= Len(taken) + N
    BY <1>1, <1>2, <1>4, <1>7, SizePositive DEF NoneLost, Behind
  <2>2. NoneLost
    BY <1>1, <1>2, <2>1, SizePositive DEF NoneLost, Behind
  <2>3. \A k \in 1 .. Len(taken) : taken[k] = arrived[k]
    BY <2>2 DEF InOrder
  <2>4. uart_rx_buf[uart_rx_start] = arrived[Len(taken) + 1]
    <3>. DEFINE k == Len(taken) + 1
    <3>1. k \in 1 .. Len(arrived) /\ k + N > Len(arrived) /\ k - 1 = Len(taken)
      BY <1>2, <2>1, SizePositive
    <3>2. uart_rx_buf[(k - 1) % N] = arrived[k]
      BY <3>1 DEF Newest
    <3>. QED BY <3>1, <3>2 DEF Indices
  <2>. QED BY <1>1, <1>2, <1>4, <2>3, <2>4
<1>8. InOrder'
  BY <1>7 DEF InOrder
<1>. QED BY <1>5, <1>6, <1>8

LEMMA OtherInv ==
  IInv /\ (PrintText \/ read_image \/ PutByte \/ UNCHANGED vars) => IInv'
<1> SUFFICES ASSUME IInv, PrintText \/ read_image \/ PutByte \/ UNCHANGED vars PROVE IInv'
  OBVIOUS
<1>1. UNCHANGED <<uart_rx_buf, uart_rx_start, uart_rx_end, arrived, taken>>
  BY DEF PrintText, read_image, PutByte, vars, ring
<1>2. pc' = pc \/ pc' = "read"
  BY DEF PrintText, read_image, PutByte, vars
<1>. QED
  BY <1>1, <1>2 DEF IInv, RingTypes, Indices, Newest, InOrder, NoneLost, Behind

LEMMA StepInv == IInv /\ [Next]_vars => IInv'
BY ReceiveInv, SeeByteInv, TakeInv, OtherInv DEF Next

(***************************************************************************)
(* What the invariant says of the bytes that can be read.                  *)
(***************************************************************************)
LEMMA LostWholeRings ==
  ASSUME IInv
  PROVE  /\ Unread = Behind % N /\ Lost = N * (Behind \div N)
         /\ Behind \in Nat /\ Unread \in 0 .. N - 1
<1>1. Len(arrived) \in Nat /\ Len(taken) \in Nat /\ Len(taken) <= Len(arrived)
  BY DEF IInv, RingTypes, Indices
<1>2. Behind \in Nat
  BY <1>1 DEF Behind
<1>3. Unread = Behind % N
  BY <1>1, Distance DEF IInv, Indices, Unread, Behind, N
<1>4. Behind = N * (Behind \div N) + (Behind % N) /\ Behind % N \in 0 .. N - 1
  BY <1>2, Divided
<1>. QED BY <1>1, <1>2, <1>3, <1>4, SizePositive DEF Lost, Behind

LEMMA InvImplies == IInv => RingKeepsLast
<1> SUFFICES ASSUME IInv PROVE RingKeepsLast
  OBVIOUS
<1>. DEFINE q == Behind \div N
<1>1. q \in Nat /\ Lost = N * q /\ Behind \in Nat /\ Unread \in 0 .. N - 1
      /\ Behind = N * q + Unread
  BY LostWholeRings, Divided
<1>. HIDE DEF q
<1>2. Len(arrived) \in Nat /\ Len(taken) \in Nat /\ Len(arrived) = Len(taken) + Behind
  BY DEF IInv, RingTypes, Behind
<1>3. Lost >= 0 /\ Lost % N = 0
  <2>1. N * q = N * q + 0 /\ 0 \in 0 .. N - 1 /\ N * q >= 0
    BY <1>1, SizePositive
  <2>. QED BY <1>1, <2>1, ModUnique
<1>4. ASSUME NEW n \in 0 .. Unread - 1
      PROVE  uart_rx_buf[(uart_rx_start + n) % N] = arrived[Len(arrived) - Unread + n + 1]
  <2>. DEFINE k == Len(arrived) - Unread + n + 1
  <2>1. k - 1 = Len(taken) + n + N * q /\ n \in Nat
    <3>. DEFINE nq == N * q
    <3>1. nq \in Int /\ Behind = nq + Unread /\ Unread \in Nat /\ n \in Nat
      BY <1>1, SizePositive
    <3>. HIDE DEF nq
    <3>2. Len(arrived) - Unread = Len(taken) + nq
      BY <1>2, <3>1
    <3>3. k - 1 = Len(taken) + n + nq
      BY <1>2, <3>1, <3>2
    <3>. QED BY <3>1, <3>3 DEF nq
  <2>2. (uart_rx_start + n) % N = (k - 1) % N
    BY <1>1, <1>2, <2>1, SameSlot DEF IInv, Indices
  <2>3. k \in 1 .. Len(arrived) /\ k + N > Len(arrived)
    <3>1. N * q \in Nat
      BY <1>1, SizePositive
    <3>. QED BY <1>1, <1>2, <2>1, <3>1, SizePositive
  <2>4. uart_rx_buf[(k - 1) % N] = arrived[k]
    BY <2>3 DEF IInv, Newest
  <2>. QED BY <2>2, <2>4
<1>5. ASSUME Lost = 0 PROVE IsPrefix(taken, arrived)
  <2>1. Behind < N
    BY <1>1, <1>5, SizePositive
  <2>2. \A k \in 1 .. Len(taken) : taken[k] = arrived[k]
    BY <2>1 DEF IInv, InOrder, NoneLost
  <2>3. Len(taken) <= Len(arrived)
    BY DEF IInv, Indices
  <2>4. /\ taken \in Seq(Bytes) /\ arrived \in Seq(Bytes)
    BY DEF IInv, RingTypes
  <2>5. SubSeq(taken, 1, Len(taken)) = SubSeq(arrived, 1, Len(taken))
    BY <1>2, <2>2, <2>3, <2>4
  <2>. QED BY <2>3, <2>5 DEF IsPrefix
<1>. QED BY <1>3, <1>4, <1>5 DEF RingKeepsLast, N

(* Whenever bytes arrive and whatever the size of the ring, the console    *)
(* reads the last bytes in their order, loses them by whole rings, and     *)
(* none while it keeps up (uart.c:61-65, 87-121).                          *)
THEOREM RingReadsLast == Spec => []RingKeepsLast
<1>. QED BY InitInv, StepInv, InvImplies, PTL DEF Spec

-----------------------------------------------------------------------------
(***************************************************************************)
(* The console.                                                            *)
(***************************************************************************)
W == CONSOLE_WIDTH
H == CONSOLE_HEIGHT

Row(p) == p \div W
Col(p) == p % W

Above(ls) == IF Len(ls) > H THEN Len(ls) - H ELSE 0

(* What a console of these lines shows at p. *)
At(ls, p) ==
  LET n == Above(ls) + Row(p) + 1
      m == Col(p) + 1
  IN  IF n <= Len(ls) /\ m <= Len(ls[n]) THEN ls[n][m] ELSE "blank"

Paper == Seq(Seq(Visible))

Shows(places, seen, ls) ==
  /\ places \in [Places -> Visible \cup {"blank"}]
  /\ seen \in [Places -> Visible \cup {"blank", "image"}]
  /\ \A p \in Places : places[p] = At(ls, p) /\ seen[p] \in {places[p], "image"}

(* The position is that behind the last line. *)
Positioned ==
  /\ lines \in Paper /\ Len(lines) >= 1
  /\ y \in 0 .. H - 1 /\ Above(lines) + y + 1 = Len(lines)
  /\ x \in 0 .. W - 1 /\ x = Len(lines[Len(lines)])
  /\ pos = y * W + x

Input ==
  /\ text \in Seq(Visible \cup {"newline"}) /\ ch \in Bytes
  /\ pc \in {"boot", "read", "take", "put"}

ConsoleInv == Input /\ Positioned /\ Shows(buffer, shown, lines)

LEMMA Sizes ==
  /\ W \in Nat \ {0} /\ H \in Nat \ {0}
  /\ "blank" \notin Visible /\ "newline" \notin Visible /\ "control" \notin Visible
  /\ "image" \notin Visible
  /\ Places = 0 .. W * H - 1 /\ W * H \in Nat
BY ConsoleAssumption DEF W, H, Places

(* Rows and columns. *)
LEMMA RowCol ==
  ASSUME NEW r \in Nat, NEW c \in 0 .. W - 1
  PROVE  /\ r * W + c \in Nat /\ Row(r * W + c) = r /\ Col(r * W + c) = c
         /\ r <= H - 1 <=> r * W + c \in Places
<1>1. W \in Nat \ {0} /\ H \in Nat \ {0} /\ r * W \in Nat
  BY Sizes
<1>2. r * W + c \in Nat
  BY <1>1
<1>3. Row(r * W + c) = r /\ Col(r * W + c) = c
  BY <1>1 DEF Row, Col
<1>4. ASSUME r <= H - 1 PROVE r * W + c < W * H
  <2>1. PICK d \in Nat : H = r + 1 + d
    BY <1>1, <1>4, H - 1 - r \in Nat
  <2>2. W * H = r * W + W + d * W /\ d * W \in Nat
    BY <1>1, <2>1
  <2>. QED  BY <1>1, <2>2
<1>5. ASSUME r > H - 1 PROVE r * W + c >= W * H
  <2>1. PICK d \in Nat : r = H + d
    BY <1>1, <1>5, r - H \in Nat
  <2>2. r * W = W * H + d * W /\ d * W \in Nat
    BY <1>1, <2>1
  <2>. QED  BY <1>1, <2>2
<1>6. W * H \in Nat /\ Places = 0 .. W * H - 1
  BY Sizes
<1>7. r <= H - 1 <=> r * W + c \in Places
  <2>. DEFINE q == r * W + c
              a == W * H
  <2>1. q \in Nat /\ a \in Nat /\ Places = 0 .. a - 1
    BY <1>2, <1>6
  <2>2. (r <= H - 1 => q < a) /\ (r > H - 1 => q >= a)
    BY <1>4, <1>5
  <2>. HIDE DEF q, a
  <2>3. q \in Places <=> q < a
    BY <2>1
  <2>4. r <= H - 1 \/ r > H - 1
    BY <1>1
  <2>5. ~ (q < a /\ q >= a)
    BY <2>1
  <2>6. r <= H - 1 <=> q \in Places
    BY <1>1, <2>2, <2>3, <2>4, <2>5
  <2>. QED  BY <2>6 DEF q
<1>. QED  BY <1>2, <1>3, <1>7

LEMMA OnPlace ==
  ASSUME NEW p \in Places
  PROVE  /\ p \in Nat /\ Row(p) \in 0 .. H - 1 /\ Col(p) \in 0 .. W - 1
         /\ p = Row(p) * W + Col(p)
         /\ Row(p + W) = Row(p) + 1 /\ Col(p + W) = Col(p)
         /\ p + W \in Places <=> Row(p) + 1 <= H - 1
<1>1. W \in Nat \ {0} /\ H \in Nat \ {0} /\ p \in Nat
  BY Sizes
<1>2. Row(p) \in Nat /\ Col(p) \in 0 .. W - 1 /\ p = Row(p) * W + Col(p)
  BY <1>1 DEF Row, Col
<1>. DEFINE r == Row(p)
            c == Col(p)
<1>3. r \in Nat /\ c \in 0 .. W - 1 /\ p = r * W + c
  BY <1>2
<1>. HIDE DEF r, c
<1>4. r <= H - 1
  BY <1>3, RowCol
<1>5. p + W = (r + 1) * W + c /\ r + 1 \in Nat
  BY <1>1, <1>3
<1>6. /\ Row(p + W) = r + 1 /\ Col(p + W) = c
      /\ r + 1 <= H - 1 <=> p + W \in Places
  <2>1. /\ Row((r + 1) * W + c) = r + 1 /\ Col((r + 1) * W + c) = c
        /\ r + 1 <= H - 1 <=> (r + 1) * W + c \in Places
    BY <1>3, <1>5, RowCol
  <2>. QED  BY <1>5, <2>1
<1>7. r \in 0 .. H - 1
  BY <1>1, <1>3, <1>4
<1>. QED  BY <1>1, <1>3, <1>6, <1>7 DEF r, c

LEMMA SamePlace ==
  ASSUME NEW p \in Places, NEW q \in Places, Row(p) = Row(q), Col(p) = Col(q)
  PROVE  p = q
<1>1. p = Row(p) * W + Col(p)
  BY OnPlace
<1>2. q = Row(q) * W + Col(q)
  BY OnPlace
<1>. QED  BY <1>1, <1>2

(* One line more moves what is shown only if all lines are used. *)
LEMMA PaperAdvances ==
  ASSUME NEW ls \in Paper, Len(ls) >= 1, NEW r \in 0 .. H - 1, Above(ls) + r + 1 = Len(ls)
  PROVE  LET new == Append(ls, <<>>)
         IN  /\ new \in Paper /\ Len(new) = Len(ls) + 1 /\ new[Len(new)] = <<>>
             /\ r = H - 1 => /\ Above(new) = Above(ls) + 1
                             /\ \A p \in Places :
                                  At(new, p) = IF p + W \in Places THEN At(ls, p + W) ELSE "blank"
             /\ r # H - 1 => /\ Above(new) = Above(ls)
                             /\ \A p \in Places : At(new, p) = At(ls, p)
<1>. DEFINE new == Append(ls, <<>>)
            L == Len(ls)
            a == Above(ls)
<1>1. /\ new \in Paper /\ Len(new) = L + 1 /\ new[L + 1] = <<>> /\ Len(<<>>) = 0
      /\ \A n \in 1 .. L : new[n] = ls[n]
      /\ L \in Nat /\ H \in Nat \ {0}
  BY Sizes DEF Paper
<1>2. a \in Nat /\ a = (IF L > H THEN L - H ELSE 0) /\ a + r + 1 = L
  BY <1>1 DEF Above
<1>3. Above(new) = IF L + 1 > H THEN (L + 1) - H ELSE 0
  BY <1>1 DEF Above
<1>. HIDE DEF new, L, a
<1>4. CASE r = H - 1
  <2>1. Above(new) = a + 1
    BY <1>1, <1>2, <1>3, <1>4
  <2>2. ASSUME NEW p \in Places
        PROVE  At(new, p) = IF p + W \in Places THEN At(ls, p + W) ELSE "blank"
    <3>1. /\ Row(p) \in 0 .. H - 1 /\ Col(p) \in 0 .. W - 1 /\ W \in Nat
          /\ Row(p + W) = Row(p) + 1 /\ Col(p + W) = Col(p)
          /\ p + W \in Places <=> Row(p) + 1 <= H - 1
      BY OnPlace, Sizes
    <3>. DEFINE n == a + 1 + Row(p) + 1
                m == Col(p) + 1
    <3>2. At(new, p) = IF n <= L + 1 /\ m <= Len(new[n]) THEN new[n][m] ELSE "blank"
      BY <1>1, <2>1 DEF At
    <3>3. n \in Nat /\ n >= 1 /\ m \in Nat /\ m >= 1
      <4>1. Row(p) \in Nat /\ Col(p) \in Nat /\ a \in Nat
        BY <1>1, <1>2, <3>1
      <4>. QED  BY <4>1
    <3>4. CASE Row(p) + 1 <= H - 1
      <4>1. n \in 1 .. L
        BY <1>1, <1>2, <1>4, <3>1, <3>3, <3>4
      <4>2. n = a + Row(p + W) + 1
        <5>1. Row(p) \in Nat /\ a \in Nat /\ Row(p + W) = Row(p) + 1
          BY <1>1, <1>2, <3>1
        <5>. QED  BY <5>1
      <4>3. At(ls, p + W) = IF n <= L /\ m <= Len(ls[n]) THEN ls[n][m] ELSE "blank"
        BY <3>1, <4>2 DEF At, a, L
      <4>4. new[n] = ls[n] /\ n <= L /\ n <= L + 1
        BY <1>1, <4>1
      <4>. HIDE DEF n, m
      <4>. QED  BY <3>1, <3>2, <3>4, <4>3, <4>4
    <3>5. CASE Row(p) + 1 > H - 1
      <4>1. n = L + 1
        BY <1>1, <1>2, <1>4, <3>1, <3>5
      <4>2. Len(new[n]) = 0 /\ p + W \notin Places
        BY <1>1, <3>1, <3>5, <4>1
      <4>. HIDE DEF n, m
      <4>. QED  BY <3>2, <3>3, <4>2
    <3>6. Row(p) + 1 <= H - 1 \/ Row(p) + 1 > H - 1
      BY <1>1, <3>1
    <3>. QED  BY <3>4, <3>5, <3>6
  <2>. QED  BY <1>1, <1>4, <2>1, <2>2 DEF new, L, a
<1>5. CASE r # H - 1
  <2>1. Above(new) = a /\ a = 0
    BY <1>1, <1>2, <1>3, <1>5
  <2>2. ASSUME NEW p \in Places
        PROVE  At(new, p) = At(ls, p)
    <3>1. Row(p) \in Nat /\ Col(p) \in Nat
      BY OnPlace, Sizes
    <3>. DEFINE n == a + Row(p) + 1
                m == Col(p) + 1
    <3>2. /\ At(new, p) = IF n <= L + 1 /\ m <= Len(new[n]) THEN new[n][m] ELSE "blank"
          /\ At(ls, p) = IF n <= L /\ m <= Len(ls[n]) THEN ls[n][m] ELSE "blank"
      BY <1>1, <2>1 DEF At, a, L
    <3>3. n \in Nat /\ n >= 1 /\ m \in Nat /\ m >= 1
      BY <1>2, <3>1
    <3>. HIDE DEF n, m
    <3>4. CASE n <= L
      BY <1>1, <3>2, <3>3, <3>4
    <3>5. CASE n = L + 1
      BY <1>1, <3>2, <3>3, <3>5
    <3>6. CASE n > L + 1
      BY <1>1, <3>2, <3>3, <3>6
    <3>. QED  BY <1>1, <3>3, <3>4, <3>5, <3>6
  <2>. QED  BY <1>1, <1>5, <2>1, <2>2 DEF new, L, a
<1>. QED  BY <1>4, <1>5

(* A line feed where the lines ls are shown. *)
LEMMA LineFed ==
  ASSUME NEW ls \in Paper, Len(ls) >= 1, y \in 0 .. H - 1, Above(ls) + y + 1 = Len(ls),
         NEW places, NEW seen, Shows(places, seen, ls),
         LineFeed(places, seen, y * W), lines' = Append(ls, <<>>)
  PROVE  Positioned' /\ Shows(buffer, shown, lines)'
<1>. DEFINE new == Append(ls, <<>>)
<1>1. /\ new \in Paper /\ Len(new) = Len(ls) + 1 /\ new[Len(new)] = <<>>
      /\ y = H - 1 => /\ Above(new) = Above(ls) + 1
                      /\ \A p \in Places :
                           At(new, p) = IF p + W \in Places THEN At(ls, p + W) ELSE "blank"
      /\ y # H - 1 => /\ Above(new) = Above(ls)
                      /\ \A p \in Places : At(new, p) = At(ls, p)
  BY PaperAdvances
<1>. HIDE DEF new
<1>2. /\ W \in Nat \ {0} /\ H \in Nat \ {0} /\ Len(ls) \in Nat /\ y * W \in Nat
      /\ Above(ls) \in Nat
  BY Sizes DEF Paper, Above
<1>3. lines' = new
  BY DEF new
<1>4. x' = 0 /\ x' \in 0 .. W - 1 /\ x' = Len(lines'[Len(lines')])
  BY <1>1, <1>2, <1>3 DEF LineFeed
<1>5. CASE y = H - 1
  <2>1. /\ buffer' = Scrolled(places) /\ shown' = Scrolled(places)
        /\ y' = y /\ pos' = y * W
    BY <1>5 DEF LineFeed, H
  <2>2. Positioned'
    <3>1. lines' \in Paper /\ Len(lines') >= 1 /\ Above(lines') + y' + 1 = Len(lines')
      <4>1. Above(lines') = Above(new) /\ Len(lines') = Len(ls) + 1 /\ lines' \in Paper
        BY <1>1, <1>3
      <4>2. Above(new) = Above(ls) + 1
        BY <1>1, <1>5
      <4>3. Above(ls) + y + 1 = Len(ls) /\ y \in Nat
        BY <1>2
      <4>. QED  BY <1>2, <2>1, <4>1, <4>2, <4>3
    <3>2. y' \in 0 .. H - 1 /\ pos' = y' * W + x'
      BY <1>2, <1>4, <2>1
    <3>. QED  BY <1>4, <3>1, <3>2 DEF Positioned, Above
  <2>3. ASSUME NEW p \in Places
        PROVE  /\ Scrolled(places)[p] = At(new, p)
               /\ Scrolled(places)[p] \in Visible \cup {"blank"}
    BY <1>1, <1>5 DEF Scrolled, Shows, W
  <2>4. Scrolled(places) \in [Places -> Visible \cup {"blank"}]
        /\ Scrolled(places) \in [Places -> Visible \cup {"blank", "image"}]
    <3>1. Scrolled(places) = [p \in Places |-> Scrolled(places)[p]]
      BY DEF Scrolled
    <3>. QED  BY <2>3, <3>1
  <2>5. Shows(buffer', shown', lines')
    BY <1>3, <2>1, <2>3, <2>4 DEF Shows
  <2>. QED  BY <2>2, <2>5 DEF Shows, At, Above
<1>6. CASE y # H - 1
  <2>1. buffer' = places /\ shown' = seen /\ y' = y + 1 /\ pos' = y * W + W
    BY <1>6 DEF LineFeed, H, W
  <2>2. Positioned'
    <3>1. lines' \in Paper /\ Len(lines') >= 1 /\ Above(lines') + y' + 1 = Len(lines')
      <4>1. Above(lines') = Above(new) /\ Len(lines') = Len(ls) + 1 /\ lines' \in Paper
        BY <1>1, <1>3
      <4>2. Above(new) = Above(ls)
        BY <1>1, <1>6
      <4>3. Above(ls) + y + 1 = Len(ls) /\ y \in Nat
        BY <1>2
      <4>. QED  BY <1>2, <2>1, <4>1, <4>2, <4>3
    <3>2. y' \in 0 .. H - 1 /\ pos' = y' * W + x'
      BY <1>2, <1>4, <1>6, <2>1
    <3>. QED  BY <1>4, <3>1, <3>2 DEF Positioned, Above
  <2>3. Shows(buffer', shown', lines')
    BY <1>1, <1>3, <1>6, <2>1 DEF Shows
  <2>. QED  BY <2>2, <2>3 DEF Shows, At, Above
<1>. QED  BY <1>5, <1>6

(* A character at the position of the console ends the last line. *)
LEMMA CharTyped ==
  ASSUME Positioned, Shows(buffer, shown, lines), NEW c \in Visible
  PROVE  LET longer == [lines EXCEPT ![Len(lines)] = Append(@, c)]
         IN  /\ longer \in Paper /\ Len(longer) = Len(lines) /\ Above(longer) = Above(lines)
             /\ Len(longer[Len(lines)]) = x + 1
             /\ Shows([buffer EXCEPT ![pos] = c], [shown EXCEPT ![y * W + x] = c], longer)
<1>. DEFINE L == Len(lines)
            last == lines[L]
            longer == [lines EXCEPT ![L] = Append(@, c)]
            a == Above(lines)
<1>1. /\ lines \in Paper /\ L \in Nat /\ L >= 1 /\ y \in 0 .. H - 1 /\ a + y + 1 = L
      /\ x \in 0 .. W - 1 /\ x = Len(last) /\ pos = y * W + x
  BY DEF Positioned, Paper
<1>2. /\ W \in Nat \ {0} /\ H \in Nat \ {0} /\ a \in Nat
  BY <1>1, Sizes DEF Above
<1>3. /\ pos \in Places /\ Row(pos) = y /\ Col(pos) = x
  <2>1. y \in Nat /\ x \in 0 .. W - 1 /\ y <= H - 1
    BY <1>1, <1>2
  <2>2. y * W + x \in Places /\ Row(y * W + x) = y /\ Col(y * W + x) = x
    BY <2>1, RowCol
  <2>. QED  BY <1>1, <2>2
<1>4. /\ last \in Seq(Visible) /\ Append(last, c) \in Seq(Visible)
      /\ Len(Append(last, c)) = x + 1 /\ Append(last, c)[x + 1] = c
      /\ \A m \in 1 .. x : Append(last, c)[m] = last[m]
  BY <1>1 DEF Paper
<1>5. /\ longer \in Paper /\ Len(longer) = L
      /\ longer[L] = Append(last, c) /\ \A n \in 1 .. L : n # L => longer[n] = lines[n]
  BY <1>1, <1>4 DEF Paper
<1>6. Above(longer) = a
  BY <1>5 DEF Above
<1>. HIDE DEF L, last, longer, a
<1>7. ASSUME NEW p \in Places
      PROVE  At(longer, p) = IF p = pos THEN c ELSE At(lines, p)
  <2>1. /\ Row(p) \in 0 .. H - 1 /\ Col(p) \in 0 .. W - 1
    BY OnPlace
  <2>. DEFINE n == a + Row(p) + 1
              m == Col(p) + 1
  <2>2. /\ At(longer, p) = IF n <= L /\ m <= Len(longer[n]) THEN longer[n][m] ELSE "blank"
        /\ At(lines, p) = IF n <= L /\ m <= Len(lines[n]) THEN lines[n][m] ELSE "blank"
    BY <1>5, <1>6 DEF At, a, L
  <2>3. n \in Nat /\ n >= 1 /\ m \in Nat /\ m >= 1
    BY <1>2, <2>1
  <2>4. n = L <=> Row(p) = y
    BY <1>1, <1>2, <2>1
  <2>5. m = x + 1 <=> Col(p) = x
    BY <1>1, <2>1
  <2>6. p = pos <=> n = L /\ m = x + 1
    BY <1>3, <2>4, <2>5, SamePlace
  <2>. HIDE DEF n, m
  <2>7. CASE n # L
    <3>1. n <= L => longer[n] = lines[n]
      BY <1>1, <1>5, <2>3, <2>7
    <3>. QED  BY <2>2, <2>6, <2>7, <3>1
  <2>8. CASE n = L
    <3>1. /\ At(longer, p) = IF m <= x + 1 THEN Append(last, c)[m] ELSE "blank"
          /\ At(lines, p) = IF m <= x THEN last[m] ELSE "blank"
      <4>1. n <= L
        BY <1>1, <2>8
      <4>2. longer[n] = Append(last, c) /\ lines[n] = last
        BY <1>5, <2>8 DEF last
      <4>. QED  BY <1>1, <1>4, <2>2, <4>1, <4>2
    <3>2. CASE m = x + 1
      BY <1>1, <1>4, <2>6, <2>8, <3>1, <3>2
    <3>3. CASE m # x + 1
      BY <1>1, <1>4, <2>3, <2>6, <3>1, <3>3
    <3>. QED  BY <3>2, <3>3
  <2>. QED  BY <2>7, <2>8
<1>8. Shows([buffer EXCEPT ![pos] = c], [shown EXCEPT ![y * W + x] = c], longer)
  <2>1. /\ [buffer EXCEPT ![pos] = c] \in [Places -> Visible \cup {"blank"}]
        /\ [shown EXCEPT ![pos] = c] \in [Places -> Visible \cup {"blank", "image"}]
    BY <1>3 DEF Shows
  <2>2. ASSUME NEW p \in Places
        PROVE  /\ [buffer EXCEPT ![pos] = c][p] = At(longer, p)
               /\ [shown EXCEPT ![pos] = c][p] \in {[buffer EXCEPT ![pos] = c][p], "image"}
    BY <1>3, <1>7 DEF Shows
  <2>. QED  BY <1>1, <2>1, <2>2 DEF Shows
<1>. QED  BY <1>1, <1>4, <1>5, <1>6, <1>8 DEF L, longer, a

(* A character that is printed. *)
LEMMA Printed ==
  ASSUME Positioned, Shows(buffer, shown, lines), NEW c \in Bytes, console_putch(c)
  PROVE  Positioned' /\ Shows(buffer, shown, lines)'
<1>1. /\ lines \in Paper /\ Len(lines) >= 1 /\ y \in 0 .. H - 1
      /\ Above(lines) + y + 1 = Len(lines)
      /\ x \in 0 .. W - 1 /\ pos = y * W + x /\ W \in Nat \ {0} /\ y * W \in Nat
  BY Sizes DEF Positioned
<1>2. CASE c = "newline"
  <2>1. c \notin Visible
    BY <1>2, Sizes
  <2>2. LineFeed(buffer, shown, pos - x) /\ lines' = Append(lines, <<>>)
    BY <1>2, <2>1 DEF console_putch, Typed
  <2>3. pos - x = y * W
    BY <1>1
  <2>. QED  BY <1>1, <2>2, <2>3, LineFed
<1>3. CASE c \in Visible
  <2>. DEFINE longer == [lines EXCEPT ![Len(lines)] = Append(@, c)]
              places == [buffer EXCEPT ![pos] = c]
              seen   == [shown EXCEPT ![y * W + x] = c]
  <2>1. c # "newline" /\ c # "control"
    BY <1>3, Sizes
  <2>2. PutVisible(c)
        /\ lines' = IF Len(longer[Len(lines)]) = W THEN Append(longer, <<>>) ELSE longer
    BY <2>1 DEF console_putch, Typed, W
  <2>3. /\ longer \in Paper /\ Len(longer) = Len(lines) /\ Above(longer) = Above(lines)
        /\ Len(longer[Len(lines)]) = x + 1 /\ Shows(places, seen, longer)
    BY <1>3, CharTyped
  <2>4. IF x + 1 = W THEN LineFeed(places, seen, LineStart(pos))
        ELSE buffer' = places /\ shown' = seen /\ x' = x + 1 /\ pos' = pos + 1 /\ y' = y
    BY <2>2 DEF PutVisible, W
  <2>. HIDE DEF longer, places, seen
  <2>5. CASE x + 1 = W
    <3>1. LineStart(pos) = y * W
      BY <1>1, <2>5 DEF LineStart, W
    <3>2. LineFeed(places, seen, y * W) /\ lines' = Append(longer, <<>>)
      BY <2>2, <2>3, <2>4, <2>5, <3>1
    <3>. QED  BY <1>1, <2>3, <3>2, LineFed
  <2>6. CASE x + 1 # W
    <3>1. /\ lines' = longer /\ buffer' = places /\ shown' = seen
          /\ x' = x + 1 /\ pos' = pos + 1 /\ y' = y
      BY <2>2, <2>3, <2>4, <2>6
    <3>2. Shows(buffer', shown', lines')
      BY <2>3, <3>1
    <3>3. Above(lines') = Above(lines) /\ Len(lines') = Len(lines) /\ lines' \in Paper
          /\ Len(lines'[Len(lines')]) = x'
      BY <2>3, <3>1
    <3>4. x' \in 0 .. W - 1 /\ pos' = y' * W + x'
      BY <1>1, <2>6, <3>1
    <3>5. Positioned'
      BY <1>1, <3>1, <3>3, <3>4 DEF Positioned, Above
    <3>. QED  BY <3>2, <3>5 DEF Shows, At, Above
  <2>. QED  BY <2>5, <2>6
<1>4. CASE c = "control"
  <2>1. c \notin Visible /\ c # "newline"
    BY <1>4, Sizes
  <2>2. UNCHANGED <<buffer, x, y, pos, shown, lines>>
    BY <1>4, <2>1 DEF console_putch, Typed
  <2>. QED  BY <2>2 DEF Positioned, Shows, At, Above
<1>. QED  BY <1>2, <1>3, <1>4 DEF Bytes

LEMMA InitConsole == Init => ConsoleInv
<1> SUFFICES ASSUME Init PROVE ConsoleInv
  OBVIOUS
<1>1. /\ lines = <<<<>>>> /\ Len(lines) = 1 /\ lines[1] = <<>> /\ lines \in Paper
      /\ Len(<<>>) = 0
  BY DEF Init, Paper
<1>2. W \in Nat \ {0} /\ H \in Nat \ {0}
  BY Sizes
<1>3. Above(lines) = 0
  BY <1>1, <1>2 DEF Above
<1>4. Positioned
  BY <1>1, <1>2, <1>3 DEF Init, Positioned
<1>5. ASSUME NEW p \in Places  PROVE At(lines, p) = "blank"
  <2>1. Row(p) \in Nat /\ Col(p) \in Nat
    BY <1>2, OnPlace
  <2>. DEFINE n == 0 + Row(p) + 1
              m == Col(p) + 1
  <2>2. At(lines, p) = IF n <= 1 /\ m <= Len(lines[n]) THEN lines[n][m] ELSE "blank"
    BY <1>1, <1>3 DEF At
  <2>3. n \in Nat /\ n >= 1 /\ m \in Nat /\ m >= 1
    BY <2>1
  <2>. HIDE DEF n, m
  <2>4. n <= 1 => n = 1 /\ Len(lines[n]) = 0
    BY <1>1, <2>3
  <2>. QED  BY <2>2, <2>3, <2>4
<1>6. Shows(buffer, shown, lines)
  BY <1>5 DEF Init, Shows
<1>7. Input
  BY ConsoleAssumption DEF ConsoleAssumption, Init, Input, Bytes
<1>. QED  BY <1>4, <1>6, <1>7 DEF ConsoleInv

LEMMA StepConsole == ConsoleInv /\ RingTypes /\ Indices /\ [Next]_vars => ConsoleInv'
<1> SUFFICES ASSUME ConsoleInv, RingTypes, Indices, [Next]_vars PROVE ConsoleInv'
  OBVIOUS
<1>. USE DEF ConsoleInv
<1>1. CASE PrintText
  <2>1. /\ text # <<>> /\ text' = Tail(text) /\ console_putch(Head(text))
        /\ UNCHANGED <<pc, ch>>
    BY <1>1 DEF PrintText
  <2>2. Head(text) \in Bytes /\ text' \in Seq(Visible \cup {"newline"})
    BY <2>1 DEF Input, Bytes
  <2>3. Positioned' /\ Shows(buffer, shown, lines)'
    BY <2>1, <2>2, Printed
  <2>. QED  BY <2>1, <2>2, <2>3 DEF Input
<1>2. CASE PutByte
  <2>1. console_putch(ch) /\ pc' = "read" /\ UNCHANGED <<text, ch>>
    BY <1>2 DEF PutByte
  <2>2. Positioned' /\ Shows(buffer, shown, lines)'
    BY <2>1, Printed DEF Input
  <2>. QED  BY <2>1, <2>2 DEF Input
<1>3. CASE read_image
  <2>1. PICK rows \in 0 .. CONSOLE_HEIGHT :
          shown' = [p \in Places |-> IF p < rows * CONSOLE_WIDTH THEN "image" ELSE shown[p]]
    BY <1>3 DEF read_image
  <2>2. pc' = "read" /\ UNCHANGED <<buffer, x, y, pos, lines, text, ch>>
    BY <1>3 DEF read_image
  <2>. DEFINE covered(p) == p < rows * CONSOLE_WIDTH
  <2>3. shown' = [p \in Places |-> IF covered(p) THEN "image" ELSE shown[p]]
    BY <2>1
  <2>. HIDE DEF covered
  <2>4. Shows(buffer, shown, lines)'
    BY <2>2, <2>3 DEF Shows, At, Above
  <2>. QED  BY <2>2, <2>4 DEF Input, Positioned, Above
<1>4. CASE uart_read
  <2>1. /\ ch' = uart_rx_buf[uart_rx_start] /\ pc' = "put"
        /\ UNCHANGED <<console, text>>
    BY <1>4 DEF uart_read, Oldest
  <2>2. uart_rx_start \in Slots
    <3>1. Len(taken) \in Nat
      BY DEF RingTypes
    <3>. QED  BY <3>1, Divided DEF Indices, Slots, N
  <2>3. ch' \in Bytes
    BY <2>1, <2>2 DEF RingTypes
  <2>. QED  BY <2>1, <2>3 DEF Input, Positioned, Shows, At, Above, console
<1>5. CASE USART_RX_vect \/ SeeByte \/ UNCHANGED vars
  <2>1. UNCHANGED <<console, text, ch>> /\ pc' \in {pc, "take"}
    BY <1>5 DEF USART_RX_vect, SeeByte, vars
  <2>. QED  BY <2>1 DEF Input, Positioned, Shows, At, Above, console
<1>. QED  BY <1>1, <1>2, <1>3, <1>4, <1>5 DEF Next

(* Whatever is printed, by main or by the bytes that come, and however     *)
(* wraps, newlines and scrolling follow each other: the buffer holds the   *)
(* last lines of it, the display shows the buffer or the image, and the    *)
(* three positions of the console are one (console.c:45-107).              *)
THEOREM ConsoleShowsLastLines == Spec => []ConsoleSound
<1>1. IInv /\ ConsoleInv => ConsoleSound
  <2>1. SUFFICES ASSUME IInv, ConsoleInv PROVE ConsoleSound
    OBVIOUS
  <2>. USE DEF ConsoleInv
  <2>2. pos = y * CONSOLE_WIDTH + x /\ pos \in Places
    <3>1. y \in Nat /\ y <= H - 1 /\ x \in 0 .. W - 1 /\ pos = y * W + x
      BY <2>1, Sizes DEF Positioned
    <3>2. y * W + x \in Places
      BY <3>1, RowCol
    <3>. QED  BY <3>1, <3>2 DEF W
  <2>3. ASSUME NEW p \in Places  PROVE CharAt(p) = At(lines, p)
    BY DEF CharAt, At, LinesAbove, Above, Row, Col, W, H
  <2>4. \A p \in Places : buffer[p] = CharAt(p) /\ shown[p] \in {buffer[p], "image"}
    BY <2>1, <2>3 DEF Shows
  <2>5. uart_rx_start \in Slots /\ uart_rx_end \in Slots /\ uart_rx_buf \in [Slots -> Bytes]
    <3>1. Len(taken) \in Nat /\ Len(arrived) \in Nat
      BY <2>1 DEF IInv, RingTypes
    <3>. QED  BY <2>1, <3>1, Divided DEF IInv, RingTypes, Indices, Slots, N
  <2>6. TypeOK
    BY <2>1, <2>2, <2>5 DEF TypeOK, Input, Positioned, Shows, W, H
  <2>. QED  BY <2>2, <2>4, <2>6 DEF ConsoleSound
<1>2. IInv => RingTypes /\ Indices
  BY DEF IInv
<1>. QED  BY <1>1, <1>2, InitInv, StepInv, InitConsole, StepConsole, PTL DEF Spec
=============================================================================
