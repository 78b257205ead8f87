----------------------------- MODULE AvrConsole -----------------------------
(***************************************************************************)
(* The text console of the AVR board (sampler/avr): main, the UART whose   *)
(* interrupt fills a ring, and the console that draws what is taken out.   *)
(*                                                                         *)
(* Bytes arrive at any moment but in the few instructions of uart_read     *)
(* that run with interrupts off; its test for a byte is not among them.    *)
(* The ring has no test for being full.                                    *)
(***************************************************************************)
EXTENDS Integers, Sequences, SequencesExt

CONSTANTS
  UART_RX_BUF_SIZE,  \* the code: 16
  CONSOLE_WIDTH,     \* the code: 40
  CONSOLE_HEIGHT,    \* the code: 2
  Visible,           \* visible characters but the blank
  BootTexts,         \* what main prints before it reads
  MaxBytes           \* bytes that arrive

ASSUME ConsoleAssumption ==
  /\ UART_RX_BUF_SIZE \in Nat \ {0} /\ CONSOLE_WIDTH \in Nat \ {0}
  /\ CONSOLE_HEIGHT \in Nat \ {0} /\ MaxBytes \in Nat
  /\ Visible \cap {"blank", "newline", "control", "image"} = {}
  /\ BootTexts \subseteq Seq(Visible \cup {"newline"})

VARIABLES
  uart_rx_buf, uart_rx_start, uart_rx_end,
  buffer, x, y, pos,  \* of console.c
  shown,              \* what the display has in each place
  pc,                 \* "boot", "read", "take" or "put"
  text,               \* text of main not yet printed
  ch,                 \* byte that was read
  arrived, taken,     \* history: bytes received, bytes read
  lines               \* history: what console_putch was given, on endless paper

ring     == <<uart_rx_buf, uart_rx_start, uart_rx_end>>
console  == <<buffer, x, y, pos, shown, lines>>
vars     == <<ring, console, pc, text, ch, arrived, taken>>

Bytes  == Visible \cup {"newline", "control"}
Places == 0 .. CONSOLE_WIDTH * CONSOLE_HEIGHT - 1
Slots  == 0 .. UART_RX_BUF_SIZE - 1

TypeOK ==
  /\ uart_rx_buf \in [Slots -> Bytes] /\ uart_rx_start \in Slots /\ uart_rx_end \in Slots
  /\ buffer \in [Places -> Visible \cup {"blank"}]
  /\ shown \in [Places -> Visible \cup {"blank", "image"}]
  /\ x \in 0 .. CONSOLE_WIDTH - 1 /\ y \in 0 .. CONSOLE_HEIGHT - 1 /\ pos \in Places
  /\ pc \in {"boot", "read", "take", "put"} /\ ch \in Bytes

(* uart_init and console_init are over. *)
Init ==
  /\ uart_rx_buf = [n \in Slots |-> "control"] /\ uart_rx_start = 0 /\ uart_rx_end = 0
  /\ buffer = [p \in Places |-> "blank"] /\ shown = buffer /\ x = 0 /\ y = 0 /\ pos = 0
  /\ pc = "boot" /\ text \in BootTexts /\ ch = "control"
  /\ arrived = <<>> /\ taken = <<>> /\ lines = <<<<>>>>

(***************************************************************************)
(* uart.c.                                                                 *)
(***************************************************************************)
Advanced(n)  == IF n + 1 = UART_RX_BUF_SIZE THEN 0 ELSE n + 1

USART_RX_vect ==
  /\ Len(arrived) < MaxBytes
  /\ \E data \in Bytes :
       /\ uart_rx_buf' = [uart_rx_buf EXCEPT ![uart_rx_end] = data]
       /\ arrived' = Append(arrived, data)
  /\ uart_rx_end' = Advanced(uart_rx_end)
  /\ UNCHANGED <<uart_rx_start, console, pc, text, ch, taken>>

BugAdvanceFirst == uart_rx_buf[Advanced(uart_rx_start)]
Oldest          == uart_rx_buf[uart_rx_start]

(* uart_read is done waiting. *)
SeeByte ==
  /\ pc = "read" /\ uart_rx_start # uart_rx_end
  /\ pc' = "take"
  /\ UNCHANGED <<ring, console, text, ch, arrived, taken>>

uart_read ==
  /\ pc = "take"
  /\ ch' = Oldest /\ taken' = Append(taken, ch')
  /\ uart_rx_start' = Advanced(uart_rx_start)
  /\ pc' = "put"
  /\ UNCHANGED <<uart_rx_buf, uart_rx_end, console, text, arrived>>

(***************************************************************************)
(* console.c.                                                              *)
(***************************************************************************)
Scrolled(places) ==
  [p \in Places |-> IF p + CONSOLE_WIDTH \in Places THEN places[p + CONSOLE_WIDTH] ELSE "blank"]

(* To the next line, or the same one when all go up; then all is drawn.    *)
LineFeed(places, seen, line) ==
  /\ x' = 0
  /\ IF y = CONSOLE_HEIGHT - 1
     THEN /\ buffer' = Scrolled(places) /\ shown' = Scrolled(places)
          /\ y' = y /\ pos' = line
     ELSE /\ buffer' = places /\ shown' = seen
          /\ y' = y + 1 /\ pos' = line + CONSOLE_WIDTH

BugLineStart(p) == p - CONSOLE_WIDTH
(* Where the line begins whose last place was p. *)
LineStart(p) == p + 1 - CONSOLE_WIDTH

PutVisible(c) ==
  LET places == [buffer EXCEPT ![pos] = c]
      seen   == [shown EXCEPT ![y * CONSOLE_WIDTH + x] = c]
  IN  IF x + 1 = CONSOLE_WIDTH THEN LineFeed(places, seen, LineStart(pos))
      ELSE buffer' = places /\ shown' = seen /\ x' = x + 1 /\ pos' = pos + 1 /\ y' = y

(* The lines of the text so far: the last one is not yet full. *)
Typed(c) ==
  LET n      == Len(lines)
      longer == [lines EXCEPT ![n] = Append(@, c)]
  IN  IF c = "newline" THEN Append(lines, <<>>)
      ELSE IF c = "control" THEN lines
      ELSE IF Len(longer[n]) = CONSOLE_WIDTH THEN Append(longer, <<>>) ELSE longer

(* Other control characters do nothing. *)
console_putch(c) ==
  /\ \/ c = "newline" /\ LineFeed(buffer, shown, pos - x)
     \/ c \in Visible /\ PutVisible(c)
     \/ c = "control" /\ UNCHANGED <<buffer, x, y, pos, shown>>
  /\ lines' = Typed(c)

(***************************************************************************)
(* main.c.                                                                 *)
(***************************************************************************)
PrintText ==
  /\ pc = "boot" /\ text # <<>>
  /\ console_putch(Head(text))
  /\ text' = Tail(text)
  /\ UNCHANGED <<ring, pc, ch, arrived, taken>>

(* With a card and a file on it, an image covers the display, from the top *)
(* to where it could be read.                                              *)
read_image ==
  /\ pc = "boot" /\ text = <<>>
  /\ \E rows \in 0 .. CONSOLE_HEIGHT :
       shown' = [p \in Places |-> IF p < rows * CONSOLE_WIDTH THEN "image" ELSE shown[p]]
  /\ pc' = "read"
  /\ UNCHANGED <<ring, buffer, x, y, pos, lines, text, ch, arrived, taken>>

PutByte ==
  /\ pc = "put"
  /\ console_putch(ch)
  /\ pc' = "read"
  /\ UNCHANGED <<ring, text, ch, arrived, taken>>

Next == USART_RX_vect \/ PrintText \/ read_image \/ SeeByte \/ uart_read \/ PutByte

Spec == Init /\ [][Next]_vars

(***************************************************************************)
(* Properties.                                                             *)
(***************************************************************************)
(* Before the first line on the console. *)
LinesAbove == IF Len(lines) > CONSOLE_HEIGHT THEN Len(lines) - CONSOLE_HEIGHT ELSE 0

CharAt(p) ==
  LET n == LinesAbove + p \div CONSOLE_WIDTH + 1
      m == (p % CONSOLE_WIDTH) + 1
  IN  IF n <= Len(lines) /\ m <= Len(lines[n]) THEN lines[n][m] ELSE "blank"

(* The console has three ideas of where it is (x and y, pos, the display), *)
(* moved apart by wraps, newlines and scrolling in any order; the buffer   *)
(* is always the last lines of all that was printed, and each place of the *)
(* display shows it, or the image until something is drawn there           *)
(* (console.c:45-107).                                                     *)
ConsoleSound ==
  /\ TypeOK
  /\ pos = y * CONSOLE_WIDTH + x
  /\ \A p \in Places : buffer[p] = CharAt(p) /\ shown[p] \in {buffer[p], "image"}

Unread == (uart_rx_end - uart_rx_start) % UART_RX_BUF_SIZE
Lost   == Len(arrived) - Len(taken) - Unread

(* The ring knows no overflow, and full it looks empty.  Whatever comes    *)
(* while the console draws: what can be read are the last bytes to arrive, *)
(* in their order; a lap of the interrupt loses a whole ring of them; and  *)
(* without one the console has read all that came, in order                *)
(* (uart.c:61-65, 87-121).                                                 *)
RingKeepsLast ==
  /\ Lost >= 0 /\ Lost % UART_RX_BUF_SIZE = 0
  /\ \A n \in 0 .. Unread - 1 :
       uart_rx_buf[(uart_rx_start + n) % UART_RX_BUF_SIZE] = arrived[Len(arrived) - Unread + n + 1]
  /\ Lost = 0 => IsPrefix(taken, arrived)
=============================================================================
