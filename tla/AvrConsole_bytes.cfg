\* Twice as many bytes as the ring has room for, at any time.
SPECIFICATION Spec
CONSTANTS
  UART_RX_BUF_SIZE = 3
  CONSOLE_WIDTH = 2
  CONSOLE_HEIGHT = 2
  Visible = {"a", "b"}
  BootTexts <- Texts
  MaxBytes = 6
INVARIANTS ConsoleSound RingKeepsLast
CHECK_DEADLOCK FALSE
