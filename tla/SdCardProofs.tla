---------------------------- MODULE SdCardProofs ----------------------------
(***************************************************************************)
(* For every length of the timeouts, any kinds of cards and any number of  *)
(* blocks and calls: driver and card keep their protocol.                  *)
(*                                                                         *)
(* That a good card is never left in the middle of a stream of blocks is a *)
(* matter of time: the stop token of disk_write is the last thing of a     *)
(* call, and only a card that misses the timeout stays behind it.          *)
(***************************************************************************)
EXTENDS SdCard, TLAPS

Good == card.health = "good"
InCall == pc # "idle"

(* Where the driver is, in which call and with which command. *)
Places ==
  /\ pc \in {"contacts", "settle", "loop", "loop_end"} => op = "init"
  /\ pc = "ready" => op \in {"init", "read", "write"}
  /\ pc = "token" => op = "read" /\ cmd \in {"CMD17", "CMD18"}
  /\ pc = "xmit" => op = "write" /\ cmd \in {"CMD24", "CMD25"}
  /\ pc = "stop" => op = "write" /\ cmd = "CMD25"
  /\ pc = "sync" => op = "sync"
  /\ pc = "off" => op \in {"init", "off"}

Sent ==
  pc = "ready" =>
    /\ op = "init" => cmd \in {"CMD0", "CMD8", "CMD55", "ACMD41", "CMD1", "CMD58", "CMD16"}
    /\ op = "read" => cmd \in {"CMD17", "CMD18", "CMD12"}
    /\ op = "write" => cmd \in {"CMD24", "CMD25", "CMD55", "ACMD23"}

(* Blocks to go and blocks that went. *)
Counts ==
  op \in {"read", "write"} /\ InCall =>
    /\ moved + left = asked
    /\ pc \in {"token", "xmit"} \/ (pc = "ready" /\ cmd # "CMD12") => left > 0

Branches ==
  /\ pc \in {"loop", "loop_end"} => branch \in {"sd2", "SD1", "MMC"}
  /\ pc = "ready" /\ op = "init" =>
       /\ cmd \in {"CMD55", "ACMD41", "CMD1"} => branch \in {"sd2", "probe", "SD1", "MMC"}
       /\ cmd = "CMD16" => branch \in {"SD1", "MMC"}

(* A card leaves the idle state only before the driver lets the clock run  *)
(* fast, and goes back to it only with the clock slow.                     *)
Clock ==
  /\ op = "init" /\ pc \in Polls \cup {"loop", "loop_end"} => ~bus.fast
  /\ op \in {"init", "off"} /\ InCall => calls = 0
  /\ calls > 0 \/ (op # "init" /\ pc \in Polls) => card.phase # "idle"
  /\ pc = "loop_end" => card.phase # "idle"
  /\ op = "init" /\ pc = "ready" /\ cmd \in {"CMD58", "CMD16"} => card.phase # "idle"

Lines ==
  /\ pc \in {"idle", "contacts", "settle"} => ~bus.selected
  /\ pc \in Polls => bus.selected
  /\ pc \in Polls \cup {"loop", "loop_end"} => bus.channel = "sd" /\ bus.enabled
  /\ calls > 0 => bus.enabled

(* A stream of blocks and where the driver is in it. *)
Streams ==
  /\ pc = "token" => card.phase = IF cmd = "CMD17" THEN "read" ELSE "reading"
  /\ pc \in {"xmit", "stop"} => card.phase = IF cmd = "CMD24" THEN "write" ELSE "writing"
  /\ pc = "ready" /\ cmd = "CMD12" => card.phase = "reading" /\ ~missed
  /\ Good /\ card.phase = "reading" =>
       (pc = "token" /\ cmd = "CMD18") \/ (pc = "ready" /\ cmd = "CMD12")
  /\ Good /\ card.phase = "writing" => pc \in {"xmit", "stop"} /\ cmd = "CMD25"

(* The timeout behind the stop token is longer than a good card takes:     *)
(* what the counter has lost, the card has had; and between the read of    *)
(* the card and that of the counter comes at most one tick.                *)
InTime ==
  Good =>
    /\ card.working /\ card.phase = "writing" => card.late = 0 \/ card.late <= ReadyTime - 2
    /\ pc = "stop" =>
         /\ card.working => Timer2 + card.late >= ReadyTime
         /\ missed => Timer2 >= 1 /\ (polled => Timer2 >= 2)

Cards == [kind : CardKinds, locked : BOOLEAN, health : {"good", "stuck", "gone"},
          phase : {"off", "idle", "tran", "read", "reading", "write", "writing"},
          working : BOOLEAN, late : Nat]

Buses == [channel : {"ram", "sd"}, enabled : BOOLEAN, fast : BOOLEAN, selected : BOOLEAN]

(* The parts of TypeOK. *)
Flags ==
  missed \in BOOLEAN /\ refused \in BOOLEAN /\ steady \in BOOLEAN /\ polled \in BOOLEAN

Records == bus \in Buses /\ card \in Cards

Values ==
  /\ pc \in {"idle", "contacts", "settle", "loop", "loop_end"} \cup Polls
  /\ op \in {"none", "init", "read", "write", "sync", "off"}
  /\ cmd \in Commands \cup {"none"}
  /\ left \in Nat /\ branch \in {"none", "sd2", "probe", "SD1", "MMC"}
  /\ contacts \in Contacts \cup {Unread}
  /\ Stat \subseteq {"NOINIT", "NODISK", "PROTECT"}
  /\ CardType \in CardKinds \cup {"none"}
  /\ Timer1 \in Nat /\ Timer2 \in 0 .. ReadyTime
  /\ bounce \in 0 .. Retries
  /\ result \in {"ok", "error", "notrdy", "wrprt"}
  /\ asked \in 0 .. MaxCount /\ moved \in 0 .. MaxCount
  /\ calls \in 0 .. MaxCalls

IInv == /\ Flags /\ Records /\ Values /\ Places /\ Sent /\ Counts /\ Branches /\ Clock
        /\ Lines /\ Streams /\ InTime

USE SdCardAssumption DEF Polls, Commands, CardKinds, Good, InCall,
        vars, driver, timers, status, history, Goto, Over, Released, Return,
        SelectCard, StartWait, Send, Wait, BeginCall, Refuse, InSession

(* What the driver makes of the bus is a bus. *)
LEMMA BusForms ==
  ASSUME bus \in Buses
  PROVE  /\ Released \in Buses /\ SelectCard \in Buses
         /\ [Released EXCEPT !.fast = TRUE] \in Buses
         /\ [Released EXCEPT !.enabled = FALSE] \in Buses
         /\ [bus EXCEPT !.selected = TRUE] \in Buses
         /\ [bus EXCEPT !.enabled = TRUE, !.fast = FALSE] \in Buses
         /\ [bus EXCEPT !.channel = "ram", !.enabled = TRUE] \in Buses
BY DEF Buses

(* What the reply r may be, and where it leaves the card. *)
Replied(r) ==
  /\ card' \in Cards /\ card'.health = card.health
  /\ card'.phase = "idle" => card.phase = "idle" \/ cmd = "CMD0"
  /\ card'.phase = "reading" =>
       \/ card.phase = "reading" /\ (cmd = "CMD12" => ~Good)
       \/ cmd = "CMD18" /\ r = 0
  /\ card'.phase = "writing" =>
       \/ card.phase = "writing" /\ card' = card
       \/ cmd = "CMD25" /\ r = 0 /\ ~card'.working
  /\ r = 0 =>
       /\ cmd \in {"ACMD41", "CMD1"} => card'.phase # "idle"
       /\ cmd = "CMD17" => card'.phase = "read"
       /\ cmd = "CMD18" => card'.phase = "reading"
       /\ cmd = "CMD24" => card'.phase = "write"
       /\ cmd = "CMD25" => card'.phase = "writing"

LEMMA AnswersKnown ==
  ASSUME IInv, NEW answer \in Answers, card' = answer[2]
  PROVE  answer[1] \in Nat /\ Replied(answer[1])
<1> USE DEF IInv, Records, Replied, Cards
<1>1. CASE Deaf
  <2>1. Answers = {<<255, card>>}  BY <1>1 DEF Answers
  <2> QED  BY <1>1, <2>1 DEF Deaf
<1>2. CASE ~Deaf /\ cmd = "CMD0"
  <2>1. answer = <<1, Doing("idle", TRUE)>>  BY <1>2 DEF Answers, Replies
  <2> QED  BY <1>2, <2>1 DEF Doing
<1>3. CASE ~Deaf /\ cmd \in {"ACMD41", "CMD1"}
  <2>1. Answers = IF card.working THEN {<<1, card>>} ELSE {<<0, Doing("tran", FALSE)>>}
    BY <1>3 DEF Answers, Replies
  <2>2. CASE card.working
    <3>1. answer = <<1, card>>  BY <2>1, <2>2
    <3> QED  BY <1>3, <3>1
  <2>3. CASE ~card.working
    <3>1. answer = <<0, Doing("tran", FALSE)>>  BY <2>1, <2>3
    <3> QED  BY <1>3, <3>1 DEF Doing
  <2> QED  BY <2>2, <2>3
<1>4. CASE ~Deaf /\ cmd \in {"CMD17", "CMD18"}
  <2> DEFINE phase == IF cmd = "CMD17" THEN "read" ELSE "reading"
  <2>1. Answers = {<<64, card>>, <<0, Doing(phase, TRUE)>>}  BY <1>4 DEF Answers, Replies
  <2>2. CASE answer = <<64, card>>  BY <1>4, <2>2
  <2>3. CASE answer = <<0, Doing(phase, TRUE)>>  BY <1>4, <2>3 DEF Doing
  <2> QED  BY <2>1, <2>2, <2>3
<1>5. CASE ~Deaf /\ cmd \in {"CMD24", "CMD25"}
  <2> DEFINE phase == IF cmd = "CMD24" THEN "write" ELSE "writing"
  <2>1. Answers = {<<64, card>>, <<0, Doing(phase, FALSE)>>}  BY <1>5 DEF Answers, Replies
  <2>2. CASE answer = <<64, card>>  BY <1>5, <2>2
  <2>3. CASE answer = <<0, Doing(phase, FALSE)>>  BY <1>5, <2>3 DEF Doing
  <2> QED  BY <2>1, <2>2, <2>3
<1>6. CASE ~Deaf /\ cmd = "CMD12"
  <2>1. PICK working \in BOOLEAN : answer = <<0, Doing("tran", working)>>
    BY <1>6 DEF Answers, Replies
  <2> QED  BY <1>6, <2>1 DEF Doing
<1>7. CASE ~Deaf /\ cmd \notin {"CMD0", "ACMD41", "CMD1", "CMD17", "CMD18", "CMD24",
                              "CMD25", "CMD12"}
  <2>1. answer \in {<<5, card>>, <<1, card>>, <<0, card>>}
    BY <1>7 DEF Answers, Replies, Idle, SD2Kinds
  <2> QED  BY <1>7, <2>1
<1> QED  BY <1>1, <1>2, <1>3, <1>4, <1>5, <1>6, <1>7

(* What no step of a wait changes. *)
Kept == /\ op' = op /\ contacts' = contacts /\ bounce' = bounce /\ asked' = asked
        /\ steady' = steady /\ refused' \in BOOLEAN

(* send_cmd is over, or one of the waits for a block. *)
LEMMA InitGoesOnKeeps ==
  ASSUME IInv, pc = "ready", op = "init", NEW r \in Nat, AfterInit(r), Kept, Replied(r),
         moved' = moved, ReadyTime >= 2
  PROVE  IInv'
<1>1. Flags'
  BY DEF IInv, Flags, AfterInit, LeaveIdle, Initialised, Kept
<1>2. bus' \in Buses /\ card' \in Cards
  BY BusForms DEF IInv, Records, AfterInit, LeaveIdle, Initialised, Replied
<1>3. Values'
  BY DEF IInv, Values, Branches, AfterInit, LeaveIdle, Initialised, Carry, Kept
<1>4. Places' /\ Sent' /\ Counts' /\ Branches'
  BY DEF IInv, Places, Sent, Counts, Branches, AfterInit, LeaveIdle, Initialised, Kept
<1>5. Clock'
  <2> USE DEF IInv, Records, Values, Places, Sent, Clock, Branches, Buses, Cards, Kept,
              Replied
  <2>1. CASE cmd = "CMD0" /\ r = 1
    <3>1. pc' = "ready" /\ cmd' = "CMD8" /\ bus' = SelectCard /\ calls' = calls
      BY <2>1 DEF AfterInit, Carry
    <3> QED  BY <2>1, <3>1
  <2>2. CASE cmd = "CMD0" /\ r # 1  BY <2>2 DEF AfterInit, Initialised, Carry
  <2>3. CASE cmd = "CMD8"  BY <2>3 DEF AfterInit, Initialised, Carry
  <2>4. CASE cmd = "CMD55" /\ r <= 1
    <3>1. pc' = "ready" /\ cmd' = "ACMD41" /\ bus' = SelectCard /\ calls' = calls
      BY <2>4 DEF AfterInit, Carry
    <3> QED  BY <2>4, <3>1
  <2>5. CASE cmd = "CMD55" /\ r > 1  BY <2>5 DEF AfterInit, Carry, LeaveIdle
  <2>6. CASE cmd \in {"ACMD41", "CMD1"}  BY <2>6 DEF AfterInit, Initialised, Carry, LeaveIdle
  <2>7. CASE cmd = "CMD58"  BY <2>7 DEF AfterInit, Initialised, Carry
  <2>8. CASE cmd = "CMD16"  BY <2>8 DEF AfterInit, Initialised, Carry
  <2> QED  BY <2>1, <2>2, <2>3, <2>4, <2>5, <2>6, <2>7, <2>8 DEF Sent
<1>6. Lines'
  <2> USE DEF IInv, Records, Values, Places, Sent, Lines, Branches, Buses, Cards, Kept,
              Replied
  <2>1. CASE cmd = "CMD0"  BY <2>1 DEF AfterInit, Initialised, Carry
  <2>2. CASE cmd = "CMD8"  BY <2>2 DEF AfterInit, Initialised, Carry
  <2>3. CASE cmd = "CMD55" /\ r <= 1
    <3>1. pc' = "ready" /\ bus' = SelectCard /\ calls' = calls
      BY <2>3 DEF AfterInit, Carry
    <3> QED  BY <2>3, <3>1
  <2>4. CASE cmd = "CMD55" /\ r > 1  BY <2>4 DEF AfterInit, Carry, LeaveIdle
  <2>5. CASE cmd \in {"ACMD41", "CMD1"}  BY <2>5 DEF AfterInit, Initialised, Carry, LeaveIdle
  <2>6. CASE cmd = "CMD58"  BY <2>6 DEF AfterInit, Initialised, Carry
  <2>7. CASE cmd = "CMD16"  BY <2>7 DEF AfterInit, Initialised, Carry
  <2> QED  BY <2>1, <2>2, <2>3, <2>4, <2>5, <2>6, <2>7
<1>7. Streams' /\ InTime'
  BY DEF IInv, Sent, Streams, InTime, Replied, AfterInit, LeaveIdle, Initialised
<1> QED  BY <1>1, <1>2, <1>3, <1>4, <1>5, <1>6, <1>7 DEF IInv, Records

LEMMA ReadGoesOnKeeps ==
  ASSUME IInv, pc = "ready", op = "read", NEW r \in Nat, AfterRead(r), Kept, Replied(r),
         moved' = moved, ReadyTime >= 2
  PROVE  IInv'
<1>1. Flags'
  BY DEF IInv, Flags, AfterRead, AwaitToken, Kept
<1>2. bus' \in Buses /\ card' \in Cards
  BY BusForms DEF IInv, Records, AfterRead, AwaitToken, Replied
<1>3. Values'
  BY DEF IInv, Values, AfterRead, AwaitToken, TokenTimer, Outcome, Stay, Kept
<1>4. Places' /\ Sent' /\ Counts' /\ Branches' /\ Clock' /\ Lines' /\ Streams' /\ InTime'
  BY DEF IInv, Records, Places, Sent, Counts, Branches, Clock, Lines, Streams, InTime,
         Buses, AfterRead, AwaitToken, Kept, Replied
<1> QED  BY <1>1, <1>2, <1>3, <1>4 DEF IInv, Records

LEMMA WriteGoesOnKeeps ==
  ASSUME IInv, pc = "ready", op = "write", NEW r \in Nat, AfterWrite(r), Kept,
         Replied(r), moved' = moved, ReadyTime >= 2
  PROVE  IInv'
<1>1. Flags'
  BY DEF IInv, Flags, AfterWrite, Kept
<1>2. bus' \in Buses /\ card' \in Cards
  BY BusForms DEF IInv, Records, AfterWrite, Replied
<1>3. Values'
  BY DEF IInv, Values, AfterWrite, Stay, Kept
<1>4. Places' /\ Sent' /\ Counts' /\ Branches' /\ Clock' /\ Lines' /\ Streams' /\ InTime'
  BY DEF IInv, Records, Places, Sent, Counts, Branches, Clock, Lines, Streams, InTime,
         Buses, AfterWrite, Kept, Replied
<1> QED  BY <1>1, <1>2, <1>3, <1>4 DEF IInv, Records

LEMMA BlockReceivedKeeps ==
  ASSUME IInv, pc = "token", NEW received \in BOOLEAN, AfterBlock(received), Kept,
         card' \in Cards, card'.health = card.health,
         card'.phase \in (IF cmd = "CMD17" THEN {"read", "tran"} ELSE {"reading"}),
         ReadyTime >= 2
  PROVE  IInv'
<1>1. Flags'
  BY DEF IInv, Flags, AfterBlock, AwaitToken, Kept
<1>2. bus' \in Buses /\ card' \in Cards
  BY BusForms DEF IInv, Records, AfterBlock, AwaitToken
<1>3. Values'
  BY DEF IInv, Values, Places, Counts, AfterBlock, AwaitToken, TokenTimer, Outcome, Stay,
         Kept
<1>4. Places' /\ Sent' /\ Counts' /\ Branches' /\ Clock'
  BY DEF IInv, Values, Places, Sent, Counts, Branches, Clock, AfterBlock, AwaitToken,
         Kept
<1>5. Lines'
  <2> USE DEF IInv, Records, Places, Lines, Buses, Kept, AfterBlock, Stay
  <2>1. CASE cmd = "CMD17"  BY <2>1
  <2>2. CASE cmd = "CMD18" /\ received /\ left > 1  BY <2>2 DEF AwaitToken
  <2>3. CASE cmd = "CMD18" /\ ~(received /\ left > 1)  BY <2>3
  <2> QED  BY <2>1, <2>2, <2>3
<1>6. Streams' /\ InTime'
  BY DEF IInv, Streams, InTime, AfterBlock, AwaitToken
<1> QED  BY <1>1, <1>2, <1>3, <1>4, <1>5, <1>6 DEF IInv, Records

LEMMA BlockSentKeeps ==
  ASSUME IInv, pc = "xmit", NEW accepted \in BOOLEAN, AfterXmit(accepted), Kept,
         card' \in Cards, card'.health = card.health,
         card'.phase \in (IF cmd = "CMD24" THEN {"write", "tran"} ELSE {"writing"}),
         card' = card \/ card'.late = 0, ReadyTime >= 2
  PROVE  IInv'
<1>1. Flags'
  BY DEF IInv, Flags, AfterXmit, StopTransfer, Kept
<1>2. bus' \in Buses /\ card' \in Cards
  BY BusForms DEF IInv, Records, AfterXmit, StopTransfer
<1>3. Values'
  BY DEF IInv, Values, Places, Counts, AfterXmit, StopTransfer, Outcome, Stay, Kept
<1>4. Places' /\ Sent' /\ Counts' /\ Branches' /\ Clock' /\ Lines' /\ Streams' /\ InTime'
  BY DEF IInv, Records, Values, Places, Sent, Counts, Branches, Clock, Lines, Streams,
         InTime, Buses, Cards, AfterXmit, StopTransfer, Kept, Stay
<1> QED  BY <1>1, <1>2, <1>3, <1>4 DEF IInv, Records

LEMMA CallOverKeeps ==
  ASSUME IInv, pc \in {"stop", "sync"}, NEW code \in {"ok", "error"}, Return(code),
         UNCHANGED <<left, moved, branch, status, calls>>, Kept, card' \in Cards,
         card'.health = card.health, card' = card \/ (pc = "stop" /\ card'.phase = "tran"),
         Good /\ pc = "stop" => card'.phase = "tran", ReadyTime >= 2
  PROVE  IInv'
<1>1. Flags'
  BY DEF IInv, Flags, Kept
<1>2. bus' \in Buses /\ card' \in Cards
  BY BusForms DEF IInv, Records
<1>3. Values'
  BY DEF IInv, Values, Kept
<1>4. Places' /\ Sent' /\ Counts' /\ Branches' /\ Clock' /\ Lines' /\ Streams' /\ InTime'
  BY DEF IInv, Places, Sent, Counts, Branches, Clock, Lines, Streams, InTime
<1> QED  BY <1>1, <1>2, <1>3, <1>4 DEF IInv, Records

LEMMA PowerOffKeeps ==
  ASSUME IInv, pc = "off", AfterOff, Kept, card' = card, ReadyTime >= 2
  PROVE  IInv'
<1>1. Flags'
  BY DEF IInv, Flags, AfterOff, Kept
<1>2. bus' \in Buses /\ card' \in Cards
  BY BusForms DEF IInv, Records, AfterOff
<1>3. Values'
  BY DEF IInv, Values, AfterOff, Kept
<1>4. Places' /\ Sent' /\ Counts' /\ Branches' /\ Clock' /\ Lines' /\ Streams' /\ InTime'
  BY DEF IInv, Records, Places, Sent, Counts, Branches, Clock, Lines, Streams, InTime,
         Buses, AfterOff, Kept
<1> QED  BY <1>1, <1>2, <1>3, <1>4 DEF IInv, Records

(* The other steps, one by one. *)
LEMMA disk_initializeKeeps ==
  ASSUME IInv, disk_initialize, ReadyTime >= 2
  PROVE  IInv'
<1>1. Flags'
  <2>1. steady' \in BOOLEAN  BY DEF disk_initialize
  <2> QED  BY <2>1 DEF IInv, Flags, disk_initialize
<1>2. bus' \in Buses /\ card' \in Cards
  BY DEF IInv, Records, disk_initialize
<1>3. Values'
  BY DEF IInv, Values, disk_initialize
<1>4. Places' /\ Sent' /\ Counts' /\ Branches' /\ Clock' /\ Lines' /\ Streams' /\ InTime'
  BY DEF IInv, Places, Sent, Counts, Branches, Clock, Lines, Streams, InTime,
         disk_initialize
<1> QED  BY <1>1, <1>2, <1>3, <1>4 DEF IInv, Records

LEMMA ReadContactsKeeps ==
  ASSUME IInv, ReadContacts, ReadyTime >= 2
  PROVE  IInv'
<1>1. Flags'
  BY DEF IInv, Flags, ReadContacts, PowerOn
<1>2. bus' \in Buses
  <2>1. CASE PowerOn  BY <2>1 DEF PowerOn, Buses
  <2>2. CASE UNCHANGED bus  BY <2>2 DEF IInv, Records
  <2> QED  BY <2>1, <2>2 DEF ReadContacts
<1>3. card' \in Cards
  BY DEF IInv, Records, ReadContacts
<1>4. Values'
  <2>1. Socket \in Contacts  BY DEF Socket, Contacts
  <2>2. contacts' \in Contacts \cup {Unread}  BY <2>1 DEF ReadContacts, PowerOn
  <2>3. Stat' \subseteq {"NOINIT", "NODISK", "PROTECT"}
    BY DEF IInv, Values, ReadContacts, PowerOn
  <2> QED  BY <2>2, <2>3 DEF IInv, Values, Places, ReadContacts, PowerOn
<1>5. Places' /\ Sent' /\ Counts' /\ Branches' /\ Clock' /\ Lines' /\ Streams' /\ InTime'
  BY DEF IInv, Places, Sent, Counts, Branches, Clock, Lines, Streams, InTime,
         ReadContacts, PowerOn
<1> QED  BY <1>1, <1>2, <1>3, <1>4, <1>5 DEF IInv, Records

LEMMA SettleKeeps ==
  ASSUME IInv, Settle, ReadyTime >= 2
  PROVE  IInv'
<1>1. Flags'
  BY DEF IInv, Flags, Settle
<1>2. bus' \in Buses /\ card' \in Cards
  BY DEF IInv, Records, Settle
<1>3. Values'
  BY DEF IInv, Values, Settle
<1>4. Places' /\ Sent' /\ Counts' /\ Branches' /\ Clock' /\ Lines' /\ Streams' /\ InTime'
  BY DEF IInv, Places, Sent, Counts, Branches, Clock, Lines, Streams, InTime, Settle
<1> QED  BY <1>1, <1>2, <1>3, <1>4 DEF IInv, Records

LEMMA InitLoopKeeps ==
  ASSUME IInv, InitLoop, ReadyTime >= 2
  PROVE  IInv'
<1>1. Flags'
  BY DEF IInv, Flags, InitLoop, Initialised
<1>2. bus' \in Buses /\ card' \in Cards
  BY BusForms DEF IInv, Records, InitLoop, Initialised
<1>3. Values'
  BY DEF IInv, Values, InitLoop, Initialised, Carry
<1>4. Places' /\ Sent' /\ Counts' /\ Branches' /\ Clock' /\ Lines' /\ Streams' /\ InTime'
  BY DEF IInv, Records, Places, Sent, Counts, Branches, Clock, Lines, Streams, InTime,
         Buses, InitLoop, Initialised, Carry
<1> QED  BY <1>1, <1>2, <1>3, <1>4 DEF IInv, Records

LEMMA disk_readKeeps ==
  ASSUME IInv, NEW count \in 1 .. MaxCount, disk_read(count), ReadyTime >= 2
  PROVE  IInv'
<1>1. Flags'
  BY DEF IInv, Flags, disk_read
<1>2. bus' \in Buses /\ card' \in Cards
  BY BusForms DEF IInv, Records, disk_read
<1>3. Values'
  BY DEF IInv, Values, disk_read
<1>4. Places' /\ Sent' /\ Counts' /\ Branches' /\ Clock'
  BY DEF IInv, Places, Sent, Counts, Branches, Clock, disk_read
<1>5. Lines' /\ Streams' /\ InTime'
  BY DEF IInv, Records, Lines, Streams, InTime, Buses, disk_read
<1> QED  BY <1>1, <1>2, <1>3, <1>4, <1>5 DEF IInv, Records

LEMMA disk_writeKeeps ==
  ASSUME IInv, NEW count \in 1 .. MaxCount, disk_write(count), ReadyTime >= 2
  PROVE  IInv'
<1>1. Flags'
  BY DEF IInv, Flags, disk_write
<1>2. bus' \in Buses /\ card' \in Cards
  BY BusForms DEF IInv, Records, disk_write
<1>3. Values'
  BY DEF IInv, Values, disk_write
<1>4. Places' /\ Sent' /\ Counts' /\ Branches' /\ Clock'
  BY DEF IInv, Places, Sent, Counts, Branches, Clock, disk_write
<1>5. Lines' /\ Streams' /\ InTime'
  BY DEF IInv, Records, Lines, Streams, InTime, Buses, disk_write
<1> QED  BY <1>1, <1>2, <1>3, <1>4, <1>5 DEF IInv, Records

LEMMA ctrl_syncKeeps ==
  ASSUME IInv, ctrl_sync, ReadyTime >= 2
  PROVE  IInv'
<1>1. Flags'
  BY DEF IInv, Flags, ctrl_sync
<1>2. bus' \in Buses /\ card' \in Cards
  BY BusForms DEF IInv, Records, ctrl_sync
<1>3. Values'
  BY DEF IInv, Values, ctrl_sync
<1>4. Places' /\ Sent' /\ Counts' /\ Branches' /\ Clock' /\ Lines' /\ Streams' /\ InTime'
  BY DEF IInv, Records, Places, Sent, Counts, Branches, Clock, Lines, Streams, InTime,
         Buses, ctrl_sync
<1> QED  BY <1>1, <1>2, <1>3, <1>4 DEF IInv, Records

LEMMA ctrl_powerKeeps ==
  ASSUME IInv, ctrl_power, ReadyTime >= 2
  PROVE  IInv'
<1>1. Flags'
  BY DEF IInv, Flags, ctrl_power
<1>2. bus' \in Buses /\ card' \in Cards
  BY BusForms DEF IInv, Records, ctrl_power
<1>3. Values'
  BY DEF IInv, Values, ctrl_power
<1>4. Places' /\ Sent' /\ Counts' /\ Branches' /\ Clock' /\ Lines' /\ Streams' /\ InTime'
  BY DEF IInv, Records, Places, Sent, Counts, Branches, Clock, Lines, Streams, InTime,
         Buses, ctrl_power
<1> QED  BY <1>1, <1>2, <1>3, <1>4 DEF IInv, Records

LEMMA ReadRamKeeps ==
  ASSUME IInv, ReadRam, ReadyTime >= 2
  PROVE  IInv'
<1>1. Flags'
  BY DEF IInv, Flags, ReadRam
<1>2. bus' \in Buses /\ card' \in Cards
  BY BusForms DEF IInv, Records, ReadRam
<1>3. Values'
  BY DEF IInv, Values, ReadRam
<1>4. Places' /\ Sent' /\ Counts' /\ Branches' /\ Clock' /\ Lines' /\ Streams' /\ InTime'
  BY DEF IInv, Places, Sent, Counts, Branches, Clock, Lines, Streams, InTime, ReadRam
<1> QED  BY <1>1, <1>2, <1>3, <1>4 DEF IInv, Records

LEMMA disk_timerprocKeeps ==
  ASSUME IInv, disk_timerproc, ReadyTime >= 2
  PROVE  IInv'
<1>1. Flags'
  BY DEF IInv, Flags, disk_timerproc, Down
<1>2. bus' \in Buses /\ card' \in Cards
  BY DEF IInv, Records, Cards, disk_timerproc, Down
<1>3. Values'
  BY DEF IInv, Values, disk_timerproc, Down
<1>4. Places' /\ Sent' /\ Counts' /\ Branches' /\ Clock' /\ Lines' /\ Streams' /\ InTime'
  BY DEF IInv, Records, Values, Places, Sent, Counts, Branches, Clock, Lines, Streams,
         InTime, Cards, disk_timerproc, Down, Patience
<1> QED  BY <1>1, <1>2, <1>3, <1>4 DEF IInv, Records

LEMMA CardWorkKeeps ==
  ASSUME IInv, CardWork, ReadyTime >= 2
  PROVE  IInv'
<1>1. Flags'
  BY DEF IInv, Flags, CardWork
<1>2. bus' \in Buses /\ card' \in Cards
  BY DEF IInv, Records, Cards, CardWork
<1>3. Values'
  BY DEF IInv, Values, CardWork
<1>4. Places' /\ Sent' /\ Counts' /\ Branches' /\ Clock' /\ Lines' /\ Streams' /\ InTime'
  BY DEF IInv, Places, Sent, Counts, Branches, Clock, Lines, Streams, InTime, CardWork
<1> QED  BY <1>1, <1>2, <1>3, <1>4 DEF IInv, Records

LEMMA CardFailsKeeps ==
  ASSUME IInv, CardFails, ReadyTime >= 2
  PROVE  IInv'
<1>1. Flags'
  BY DEF IInv, Flags, CardFails
<1>2. bus' \in Buses /\ card' \in Cards
  BY DEF IInv, Records, Cards, CardFails
<1>3. Values'
  BY DEF IInv, Values, CardFails
<1>4. Places' /\ Sent' /\ Counts' /\ Branches' /\ Clock' /\ Lines' /\ Streams' /\ InTime'
  BY DEF IInv, Places, Sent, Counts, Branches, Clock, Lines, Streams, InTime, CardFails
<1> QED  BY <1>1, <1>2, <1>3, <1>4 DEF IInv, Records

LEMMA InsertKeeps ==
  ASSUME IInv, Insert, ReadyTime >= 2
  PROVE  IInv'
<1>1. Flags'
  BY DEF IInv, Flags, Insert, NewCard
<1>2. bus' \in Buses /\ card' \in Cards
  BY DEF IInv, Records, Cards, Insert, NewCard
<1>3. Values'
  BY DEF IInv, Values, Insert, NewCard
<1>4. Places' /\ Sent' /\ Counts' /\ Branches' /\ Clock' /\ Lines' /\ Streams' /\ InTime'
  BY DEF IInv, Places, Sent, Counts, Branches, Clock, Lines, Streams, InTime, Insert,
         NewCard
<1> QED  BY <1>1, <1>2, <1>3, <1>4 DEF IInv, Records

LEMMA MissedKeeps ==
  ASSUME IInv, Poll, NoAnswer, ReadyTime >= 2
  PROVE  IInv'
<1>1. Flags'
  BY DEF IInv, Flags, Poll
<1>2. bus' \in Buses /\ card' \in Cards
  BY DEF IInv, Records, Poll
<1>3. Values'
  <2>1. UNCHANGED <<pc, op, cmd, left, branch, contacts, Stat, CardType, Timer1, Timer2,
                   bounce, result, asked, moved, calls>>  BY DEF Poll
  <2> QED  BY <2>1 DEF IInv, Values
<1>4. Places' /\ Sent' /\ Counts' /\ Branches' /\ Clock' /\ Lines' /\ Streams' /\ InTime'
  BY DEF IInv, Records, Values, Places, Sent, Counts, Branches, Clock, Lines, Streams,
         InTime, Cards, Poll, NoAnswer, Busy
<1> QED  BY <1>1, <1>2, <1>3, <1>4 DEF IInv, Records

LEMMA WaitsKeeps ==
  ASSUME IInv, TestTimer, ~WaitOver, ReadyTime >= 2
  PROVE  IInv'
<1>1. Flags'
  BY DEF IInv, Flags, TestTimer
<1>2. bus' \in Buses /\ card' \in Cards
  BY DEF IInv, Records, TestTimer
<1>3. Values'
  <2>1. UNCHANGED <<pc, op, cmd, left, branch, contacts, Stat, CardType, Timer1, Timer2,
                   bounce, result, asked, moved, calls>>  BY DEF TestTimer
  <2> QED  BY <2>1 DEF IInv, Values
<1>4. Places' /\ Sent' /\ Counts' /\ Branches' /\ Clock' /\ Lines' /\ Streams' /\ InTime'
  BY DEF IInv, Places, Sent, Counts, Branches, Clock, Lines, Streams, InTime, TestTimer
<1> QED  BY <1>1, <1>2, <1>3, <1>4 DEF IInv, Records

(* A wait that the card ends. *)
LEMMA PollKeeps ==
  ASSUME IInv, Poll, ReadyTime >= 2
  PROVE  IInv'
<1>1. CASE NoAnswer
  BY <1>1, MissedKeeps
<1>2. CASE ~NoAnswer
  <2>1. Answered /\ pc \in Polls  BY <1>2 DEF Poll
  <2>2. Kept  BY <2>1 DEF IInv, Flags, Kept, Poll, Answered
  <2>3. CASE pc = "ready"
    <3>1. PICK answer \in Answers : AfterCommand(answer[1]) /\ card' = answer[2]
      BY <2>1, <2>3 DEF Answered
    <3>2. answer[1] \in Nat /\ Replied(answer[1])  BY <3>1, AnswersKnown
    <3>3. moved' = moved  BY <2>1, <2>3 DEF Answered, NoBlock
    <3>4. CASE op = "init"
      BY <2>2, <2>3, <3>1, <3>2, <3>3, <3>4, InitGoesOnKeeps DEF AfterCommand
    <3>5. CASE op = "read"
      BY <2>2, <2>3, <3>1, <3>2, <3>3, <3>5, ReadGoesOnKeeps DEF AfterCommand
    <3>6. CASE op = "write"
      BY <2>2, <2>3, <3>1, <3>2, <3>3, <3>6, WriteGoesOnKeeps DEF AfterCommand
    <3> QED  BY <2>3, <3>4, <3>5, <3>6 DEF IInv, Places
  <2>4. CASE pc = "token"
    <3>1. PICK good \in BOOLEAN, more \in BOOLEAN :
            /\ AfterBlock(good)
            /\ card' = IF card.phase = "read" THEN Doing("tran", FALSE)
                                              ELSE Doing("reading", more)
      BY <2>1, <2>4 DEF Answered
    <3>2. /\ card' \in Cards /\ card'.health = card.health
          /\ card'.phase \in (IF cmd = "CMD17" THEN {"read", "tran"} ELSE {"reading"})
      BY <2>4, <3>1 DEF IInv, Records, Cards, Streams, Doing
    <3> QED  BY <2>2, <2>4, <3>1, <3>2, BlockReceivedKeeps
  <2>5. CASE pc = "xmit"
    <3>1. \E accepted \in BOOLEAN : AfterXmit(accepted)  BY <2>1, <2>5 DEF Answered
    <3>2. PICK busy \in BOOLEAN :
            card' \in {card, Doing(IF card.phase = "write" THEN "tran" ELSE "writing", busy)}
      BY <2>1, <2>5 DEF Answered
    <3>3. /\ card' \in Cards /\ card'.health = card.health
          /\ card'.phase \in (IF cmd = "CMD24" THEN {"write", "tran"} ELSE {"writing"})
          /\ card' = card \/ card'.late = 0
      <4>1. CASE card' = card
        BY <2>5, <4>1 DEF IInv, Records, Streams
      <4>2. CASE cmd = "CMD24" /\ card' # card
        <5>1. card' = Doing("tran", busy)  BY <2>5, <3>2, <4>2 DEF IInv, Streams
        <5> QED  BY <4>2, <5>1 DEF IInv, Records, Cards, Doing
      <4>3. CASE cmd # "CMD24" /\ card' # card
        <5>1. card' = Doing("writing", busy)  BY <2>5, <3>2, <4>3 DEF IInv, Streams
        <5> QED  BY <4>3, <5>1 DEF IInv, Records, Cards, Doing
      <4> QED  BY <4>1, <4>2, <4>3
    <3> QED  BY <2>2, <2>5, <3>1, <3>3, BlockSentKeeps
  <2>6. CASE pc = "stop"
    <3>1. Return(Outcome(left)) /\ UNCHANGED <<left, moved, branch, status, calls>>
      BY <2>1, <2>6 DEF Answered, Stay, NoBlock
    <3>2. PICK busy \in BOOLEAN :
            card' = IF card.health = "gone" THEN card ELSE Doing("tran", busy)
      BY <2>1, <2>6 DEF Answered
    <3>3. /\ card' \in Cards /\ card'.health = card.health
          /\ card' = card \/ card'.phase = "tran"
          /\ Good => card'.phase = "tran"
      BY <3>2 DEF IInv, Records, Cards, Doing
    <3>4. Outcome(left) \in {"ok", "error"}  BY DEF Outcome
    <3> QED  BY <2>2, <2>6, <3>1, <3>3, <3>4, CallOverKeeps
  <2>7. CASE pc = "sync"
    <3>1. /\ Return("ok") /\ card' = card
          /\ UNCHANGED <<left, moved, branch, status, calls>>
      BY <2>1, <2>7 DEF Answered, Stay, NoBlock
    <3>2. card \in Cards  BY DEF IInv, Records
    <3> QED  BY <2>2, <2>7, <3>1, <3>2, CallOverKeeps
  <2>8. CASE pc = "off"
    <3>1. AfterOff /\ card' = card  BY <2>1, <2>8 DEF Answered
    <3> QED  BY <2>2, <2>8, <3>1, PowerOffKeeps
  <2> QED  BY <2>1, <2>3, <2>4, <2>5, <2>6, <2>7, <2>8
<1> QED  BY <1>1, <1>2

(* A wait that its counter ends. *)
LEMMA TestTimerKeeps ==
  ASSUME IInv, TestTimer, ReadyTime >= 2
  PROVE  IInv'
<1>1. CASE ~WaitOver
  BY <1>1, WaitsKeeps
<1>2. CASE WaitOver
  <2>1. TimedOut /\ card' = card /\ pc \in Polls /\ missed
    BY <1>2 DEF TestTimer, TimedOut
  <2>2. Kept  BY <1>2 DEF IInv, Flags, Kept, TestTimer, TimedOut
  <2>3. CASE pc = "ready"
    <3>1. AfterCommand(255) /\ moved' = moved  BY <2>1, <2>3 DEF TimedOut, NoBlock
    <3>2. Replied(255)
      BY <2>1, <2>3 DEF IInv, Records, Cards, Replied, Streams
    <3>3. CASE op = "init"
      BY <2>2, <2>3, <3>1, <3>2, <3>3, InitGoesOnKeeps DEF AfterCommand
    <3>4. CASE op = "read"
      BY <2>2, <2>3, <3>1, <3>2, <3>4, ReadGoesOnKeeps DEF AfterCommand
    <3>5. CASE op = "write"
      BY <2>2, <2>3, <3>1, <3>2, <3>5, WriteGoesOnKeeps DEF AfterCommand
    <3> QED  BY <2>3, <3>3, <3>4, <3>5 DEF IInv, Places
  <2>4. CASE pc = "token"
    <3>1. AfterBlock(FALSE)  BY <2>1, <2>4 DEF TimedOut
    <3>2. /\ card \in Cards
          /\ card.phase \in (IF cmd = "CMD17" THEN {"read", "tran"} ELSE {"reading"})
      BY <2>4 DEF IInv, Records, Streams
    <3> QED  BY <2>1, <2>2, <2>4, <3>1, <3>2, BlockReceivedKeeps
  <2>5. CASE pc = "xmit"
    <3>1. AfterXmit(FALSE)  BY <2>1, <2>5 DEF TimedOut
    <3>2. /\ card \in Cards
          /\ card.phase \in (IF cmd = "CMD24" THEN {"write", "tran"} ELSE {"writing"})
      BY <2>5 DEF IInv, Records, Streams
    <3> QED  BY <2>1, <2>2, <2>5, <3>1, <3>2, BlockSentKeeps
  <2>6. CASE pc \in {"stop", "sync"}
    <3>1. Return("error") /\ UNCHANGED <<left, moved, branch, status, calls>>
      BY <2>1, <2>6 DEF TimedOut, Stay, NoBlock
    <3>2. ~(Good /\ pc = "stop")
      BY <1>2, <2>1 DEF IInv, InTime, Values, WaitOver
    <3>3. card \in Cards  BY DEF IInv, Records
    <3> QED  BY <2>1, <2>2, <2>6, <3>1, <3>2, <3>3, CallOverKeeps
  <2>7. CASE pc = "off"
    <3>1. AfterOff  BY <2>1, <2>7 DEF TimedOut
    <3> QED  BY <2>1, <2>2, <2>7, <3>1, PowerOffKeeps
  <2> QED  BY <2>1, <2>3, <2>4, <2>5, <2>6, <2>7
<1> QED  BY <1>1, <1>2

LEMMA InitInv == Init => IInv
<1> SUFFICES ASSUME Init PROVE IInv  OBVIOUS
<1>1. Flags  BY DEF Init, Flags
<1>2. bus \in Buses  BY DEF Init, Buses
<1>3. card \in Cards /\ card.phase = "off" /\ ~card.working /\ card.late = 0
  BY DEF Init, Cards, NewCard
<1>4. Values  BY DEF Init, Values, Unread
<1>5. Places /\ Sent /\ Counts /\ Branches  BY DEF Init, Places, Sent, Counts, Branches
<1>6. Clock /\ Lines /\ Streams /\ InTime
  BY <1>3 DEF Init, Clock, Lines, Streams, InTime
<1> QED  BY <1>1, <1>2, <1>3, <1>4, <1>5, <1>6 DEF IInv, Records

LEMMA StepInv ==
  ASSUME ReadyTime >= 2, IInv, [Next]_vars
  PROVE  IInv'
<1>1. CASE Call
  BY <1>1, disk_initializeKeeps, ctrl_syncKeeps, ctrl_powerKeeps, disk_readKeeps,
     disk_writeKeeps DEF Call
<1>2. CASE Main
  BY <1>2, ReadContactsKeeps, SettleKeeps, InitLoopKeeps, PollKeeps, TestTimerKeeps DEF Main
<1>3. CASE ReadRam
  BY <1>3, ReadRamKeeps
<1>4. CASE disk_timerproc
  BY <1>4, disk_timerprocKeeps
<1>5. CASE CardWork \/ CardFails \/ Insert
  BY <1>5, CardWorkKeeps, CardFailsKeeps, InsertKeeps
<1>6. CASE UNCHANGED vars
  BY <1>6 DEF IInv, Flags, Records, Values, Places, Sent, Counts, Branches, Clock, Lines,
              Streams, InTime
<1> QED  BY <1>1, <1>2, <1>3, <1>4, <1>5, <1>6 DEF Next

LEMMA InvImplies == IInv => CardProtocol
<1> SUFFICES ASSUME IInv PROVE CardProtocol  OBVIOUS
<1>1. TypeOK
  BY DEF IInv, Flags, Records, Values, Buses, Cards, TypeOK
<1>2. BusShared
  BY DEF IInv, Values, Places, Clock, Lines, BusShared
<1>3. CommandsUnderstood
  BY DEF IInv, Streams, CommandsUnderstood
<1> QED  BY <1>1, <1>2, <1>3 DEF CardProtocol

(* Whatever the card and the host of the driver do: the card is selected   *)
(* only in a call and on its channel, slowly until it has left the idle    *)
(* state, and a card that keeps its times is sent no command in the middle *)
(* of a stream of blocks nor left there at the end of a call               *)
(* (diskio_spi.c:109-117, 145-150, 258-263, 367, 412-419, 451-460, 514).   *)
(* The wait behind the stop token has to last two ticks at least, of which *)
(* it may lose the first.                                                  *)
THEOREM ProtocolKept ==
  ASSUME ReadyTime >= 2
  PROVE  Spec => []CardProtocol
<1>1. IInv /\ [Next]_vars => IInv'
  BY StepInv
<1> QED  BY InitInv, <1>1, InvImplies, PTL DEF Spec

-----------------------------------------------------------------------------
(***************************************************************************)
(* What a call of the driver comes to: OK means that the blocks went, the  *)
(* kind of the card is known, and the timeouts leave a good card the time  *)
(* it may take, whenever the interrupt comes.                              *)
(***************************************************************************)

(***************************************************************************)
(* The invariant of a good card.                                           *)
(***************************************************************************)
(* The shortest timeouts that do: a wait may lose the tick it starts in,   *)
(* and so may disk_initialize, besides the InitSteps of the driver.        *)
LongEnough == /\ ReadyTime >= 2 /\ TokenTime >= 2
              /\ InitTime >= InitSteps + 2
              /\ Retries >= 4

(* A good card is never later than it may be. *)
Patient == Good /\ card.working => card.late = 0 \/ card.late <= Patience

(* In every wait the counter has lost no more ticks than the card had, and *)
(* there is time left when the driver turns to the counter.                *)
Slow == card.working /\ (pc = "token" \/ card.phase \in {"tran", "writing"})

WaitsInTime ==
  Good /\ pc \in Polls =>
    /\ Slow /\ pc = "token" => Timer1 + card.late >= TokenTime
    /\ Slow /\ pc # "token" => Timer2 + card.late >= ReadyTime
    /\ missed => /\ pc = "token" => Timer1 >= 1 /\ (polled => Timer1 >= 2)
                 /\ pc # "token" => Timer2 >= 1 /\ (polled => Timer2 >= 2)

(* disk_initialize has reset the card. *)
AfterReset ==
  op = "init" /\ (pc \in {"loop", "loop_end"} \/ (pc = "ready" /\ cmd # "CMD0"))

Present ==
  Good /\ (calls > 0 \/ (op \notin {"init", "off"} /\ InCall) \/ AfterReset) =>
    card.phase # "off"

(* The kind of a card by the commands it took. *)
Recognised ==
  Good /\ AfterReset =>
    /\ card.phase = "idle" \/ (card.phase = "tran" /\ ~card.working)
    /\ ~missed
    /\ branch = "sd2" => card.kind \in SD2Kinds
    /\ branch = "probe" => card.kind \in {"SD1", "MMC"}
    /\ branch \in {"SD1", "MMC"} => card.kind = branch
    /\ branch = "none" => pc = "ready" /\ cmd = "CMD8"
    /\ pc = "ready" =>
         /\ cmd = "CMD8" => card.phase = "idle"
         /\ cmd = "ACMD41" => card.kind # "MMC"
         /\ cmd = "CMD55" => branch # "MMC"
         /\ cmd = "CMD58" => branch = "sd2"
         /\ cmd = "CMD1" => branch = "MMC"

(* Timer1 outlasts the card's work, and then the n steps of the driver to  *)
(* its last test; a tick comes between two of them at most.                *)
Enough(n) == Timer1 >= n /\ (polled => Timer1 >= n + 1)

InitInTime ==
  Good /\ AfterReset =>
    /\ card.working => Timer1 + card.late >= InitTime
    /\ pc = "ready" /\ cmd = "CMD8" => Enough(7)
    /\ pc = "ready" /\ cmd = "CMD55" /\ branch = "probe" => Enough(6)
    /\ ~card.working =>
         /\ pc = "ready" /\ cmd = "ACMD41" /\ branch = "probe" => Enough(5)
         /\ pc = "loop" => Enough(4)
         /\ pc = "ready" /\ cmd = "CMD55" /\ branch # "probe" => Enough(3)
         /\ pc = "ready" /\ cmd \in {"ACMD41", "CMD1"} /\ branch # "probe" => Enough(2)
         /\ pc = "loop_end" => Enough(1)

(* Nothing is given up that was not refused. *)
NotGivenUp ==
  Good /\ ~refused /\ InCall =>
    /\ pc = "stop" \/ (op = "read" /\ pc = "ready" /\ cmd = "CMD12") => left = 0
    /\ steady /\ op = "init" => pc # "off"

GoodInv == Patient /\ WaitsInTime /\ Present /\ Recognised /\ InitInTime /\ NotGivenUp

(* A transfer of one block has one block to go, and nothing is known of a  *)
(* card before it is reset.                                                *)
Locals ==
  InCall =>
    /\ op = "read" /\ cmd = "CMD17" => left = 1
    /\ op = "write" /\ cmd = "CMD24" => left = 1
    /\ op = "init" /\ pc = "ready" /\ cmd = "CMD0" => branch = "none"

(* Readings of the contacts: what still bounces at the first has settled   *)
(* at the second, and after that only a card that is pulled out makes one  *)
(* of them differ.                                                         *)
Readings ==
  op = "init" /\ steady /\ pc \in {"contacts", "settle"} =>
    /\ left \in Retries - 3 .. Retries
    /\ pc = "contacts" =>
         bounce <= 1 /\ IF left = Retries THEN contacts = Unread ELSE bounce = 0
    /\ pc = "settle" => bounce <= Timer1 /\ left < Retries
    /\ left = Retries - 2 => contacts = Socket \/ card.health = "gone"
    /\ left = Retries - 3 => contacts = Socket /\ card.health = "gone"

ServedInv == GoodInv /\ Locals /\ Readings

USE SdCardAssumption DEF Polls, Commands, CardKinds, Good, InCall,
        vars, driver, timers, status, history, Goto, Over, Released, Return,
        SelectCard, StartWait, Send, Wait, BeginCall, Refuse, InSession, LongEnough

(* A card that has failed is waited for in vain. *)
LEMMA FailedCard ==
  ASSUME ~Good'
  PROVE  GoodInv'
BY DEF GoodInv, Patient, WaitsInTime, Present, Recognised, InitInTime, NotGivenUp

(* What the driver does keeps the card in its times; what the card does    *)
(* resets them.                                                            *)
LEMMA PatientKept ==
  ASSUME IInv, Patient, card' = card \/ card'.late = 0
  PROVE  Patient'
BY DEF IInv, Records, Cards, Patient, Patience

(* A wait that starts has its whole time. *)
LEMMA WaitStarted ==
  ASSUME card'.late \in Nat, pc' # "token", Timer2' = ReadyTime, ~missed'
  PROVE  WaitsInTime'
BY DEF WaitsInTime

LEMMA NoWait ==
  ASSUME pc' \notin Polls
  PROVE  WaitsInTime'
BY DEF WaitsInTime

(* Outside disk_initialize there is nothing to recognise. *)
LEMMA NotInitialising ==
  ASSUME op' # "init" \/ pc' \notin {"loop", "loop_end", "ready"}
                      \/ (pc' = "ready" /\ cmd' = "CMD0")
  PROVE  Recognised' /\ InitInTime'
BY DEF Recognised, InitInTime, AfterReset

(***************************************************************************)
(* The steps of the card and of the interrupt.                             *)
(***************************************************************************)
LEMMA CardWorkServed ==
  ASSUME LongEnough, IInv, ServedInv, CardWork
  PROVE  ServedInv'
<1> USE DEF ServedInv, GoodInv, CardWork
<1>1. card \in Cards /\ Timer1 \in Nat /\ pc' = pc
  BY DEF IInv, Records, Values
<1>2. card' \in Cards /\ ~card'.working /\ card'.late = 0 /\ card'.phase = card.phase
      /\ card'.kind = card.kind /\ card'.health = card.health /\ card'.locked = card.locked
  BY <1>1 DEF Cards
<1>3. Patient'
  BY <1>1, <1>2, PatientKept
<1>4. WaitsInTime'
  BY <1>2 DEF WaitsInTime, Slow
<1>5. Present' /\ Recognised' /\ NotGivenUp' /\ Locals'
  BY <1>2 DEF Present, Recognised, AfterReset, NotGivenUp, Locals
<1>6. InitInTime'
  <2>1. SUFFICES ASSUME AfterReset  PROVE InitInTime'
    BY <1>2 DEF InitInTime, AfterReset
  <2>2. card.phase = "idle" /\ card.working
    BY <2>1 DEF Recognised
  <2>3. Timer1 >= 6 /\ Timer1' = Timer1
    BY <1>1, <2>1, <2>2 DEF InitInTime, Patient, Patience, InitSteps, Cards
  <2>4. \A n \in 1 .. 5 : Enough(n)
    BY <2>3, <1>1 DEF Enough
  <2>5. \A n \in 1 .. 7 : Enough(n) => Enough(n)'
    BY DEF Enough
  <2>. QED  BY <1>2, <2>1, <2>4, <2>5 DEF InitInTime, AfterReset
<1>7. Readings'
  BY <1>2 DEF Readings, Socket
<1>. QED  BY <1>3, <1>4, <1>5, <1>6, <1>7

LEMMA CardFailsServed ==
  ASSUME LongEnough, IInv, ServedInv, CardFails
  PROVE  ServedInv'
<1> USE DEF ServedInv, CardFails
<1>1. card \in Cards  BY DEF IInv, Records
<1>2. card'.health # "good" /\ card'.locked = card.locked  BY <1>1 DEF Cards
<1>3. GoodInv'  BY <1>2, FailedCard
<1>4. Locals'  BY DEF Locals
<1>5. Readings'  BY <1>2 DEF Readings, Socket
<1>. QED  BY <1>3, <1>4, <1>5

LEMMA InsertServed ==
  ASSUME LongEnough, IInv, ServedInv, Insert
  PROVE  ServedInv'
<1> USE DEF Insert
<1>1. card'.late = 0 /\ ~card'.working  BY DEF NewCard
<1>2. Patient' /\ WaitsInTime' /\ Recognised' /\ InitInTime'
  BY <1>1, NoWait, NotInitialising DEF Patient
<1>3. Present' /\ NotGivenUp' /\ Locals' /\ Readings'
  BY DEF Present, AfterReset, NotGivenUp, Locals, Readings
<1>. QED  BY <1>2, <1>3 DEF ServedInv, GoodInv

LEMMA ReadRamServed ==
  ASSUME LongEnough, IInv, ServedInv, ReadRam
  PROVE  ServedInv'
<1> USE DEF ReadRam, ServedInv, GoodInv
<1>1. Patient'  BY PatientKept
<1>2. WaitsInTime' /\ Recognised' /\ InitInTime'  BY NoWait, NotInitialising
<1>3. Present' /\ NotGivenUp' /\ Locals' /\ Readings'
  BY DEF Present, AfterReset, NotGivenUp, Locals, Readings
<1>. QED  BY <1>1, <1>2, <1>3

LEMMA TimerServed ==
  ASSUME LongEnough, IInv, ServedInv, disk_timerproc
  PROVE  ServedInv'
<1> USE DEF disk_timerproc, ServedInv, GoodInv
<1>1. /\ card \in Cards /\ Timer1 \in Nat /\ Timer2 \in Nat /\ bounce \in Nat
      /\ polled /\ ~polled'
  BY DEF IInv, Records, Values, Flags
<1>2. /\ card'.phase = card.phase /\ card'.kind = card.kind /\ card'.health = card.health
      /\ card'.locked = card.locked /\ card'.working = card.working
      /\ card'.late = IF card.working /\ Good THEN card.late + 1 ELSE card.late
  BY <1>1 DEF Cards
<1>3. Patient'
  <2>1. Patience \in Int
    <3>1. CASE card.phase = "idle"  BY <3>1 DEF Patience, InitSteps
    <3>2. CASE card.phase \in {"read", "reading"}  BY <3>2 DEF Patience
    <3>3. CASE card.phase \notin {"idle", "read", "reading"}  BY <3>3 DEF Patience
    <3>. QED  BY <3>1, <3>2, <3>3
  <2>2. Patience' = Patience
    BY <1>2 DEF Patience
  <2>. QED  BY <1>1, <1>2, <2>1, <2>2 DEF Patient, Cards
<1>4. WaitsInTime'
  <2>1. SUFFICES ASSUME Good, pc \in Polls  PROVE WaitsInTime'
    BY <1>2 DEF WaitsInTime
  <2>2. Slow => card.late < Patience /\ card'.late = card.late + 1 /\ card.late \in Nat
    BY <1>1, <1>2, <2>1 DEF Slow, Cards
  <2>3. pc = "token" => card.phase \in {"read", "reading"}
    BY DEF IInv, Streams
  <2>4. CASE pc = "token"
    <3>1. Slow => card.late < TokenTime - 2
      BY <2>2, <2>3, <2>4 DEF Patience
    <3>2. Slow => Timer1' + card'.late >= TokenTime
      BY <1>1, <2>1, <2>2, <2>4, <3>1 DEF WaitsInTime, Down
    <3>3. missed => Timer1' >= 1
      BY <1>1, <2>1, <2>4 DEF WaitsInTime, Down
    <3>. QED  BY <1>1, <1>2, <2>4, <3>2, <3>3 DEF WaitsInTime, Slow
  <2>5. CASE pc # "token"
    <3>1. Slow => card.late < ReadyTime - 2
      BY <2>2, <2>5 DEF Patience, Slow
    <3>2. Slow => Timer2' + card'.late >= ReadyTime
      BY <1>1, <2>1, <2>2, <2>5, <3>1 DEF WaitsInTime, Down
    <3>3. missed => Timer2' >= 1
      BY <1>1, <2>1, <2>5 DEF WaitsInTime, Down
    <3>. QED  BY <1>1, <1>2, <2>5, <3>2, <3>3 DEF WaitsInTime, Slow
  <2>. QED  BY <2>4, <2>5
<1>5. Present' /\ Recognised' /\ NotGivenUp' /\ Locals'
  BY <1>2 DEF Present, Recognised, AfterReset, NotGivenUp, Locals
<1>6. InitInTime'
  <2>1. SUFFICES ASSUME Good, AfterReset  PROVE InitInTime'
    BY <1>2 DEF InitInTime, AfterReset
  <2>2. \A n \in 1 .. 7 : Enough(n) => Enough(n)'
    BY <1>1 DEF Enough, Down
  <2>3. card.working => Timer1' + card'.late >= InitTime
    <3>1. SUFFICES ASSUME card.working  PROVE Timer1' + card'.late >= InitTime
      OBVIOUS
    <3>2. card.late < InitTime - 6
      BY <1>1, <2>1, <3>1 DEF Recognised, Patience, InitSteps
    <3>. QED  BY <1>1, <1>2, <2>1, <3>1, <3>2 DEF InitInTime, Down, Cards
  <2>. QED  BY <1>2, <2>1, <2>2, <2>3 DEF InitInTime, AfterReset
<1>7. Readings'
  BY <1>1, <1>2 DEF Readings, Socket, Down
<1>. QED  BY <1>3, <1>4, <1>5, <1>6, <1>7

(***************************************************************************)
(* The calls, the contacts and the tests of Timer1.                        *)
(***************************************************************************)
LEMMA CallServed ==
  ASSUME LongEnough, IInv, ServedInv, Call
  PROVE  ServedInv'
<1> USE DEF ServedInv, GoodInv
<1>1. card' = card /\ card \in Cards /\ pc = "idle"
  BY DEF IInv, Records, Call, disk_initialize, ctrl_sync, ctrl_power, disk_read, disk_write
<1>2. Patient'
  BY <1>1, PatientKept
<1>3. CASE disk_initialize
  <2> USE <1>3 DEF disk_initialize
  <2>1. WaitsInTime' /\ Recognised' /\ InitInTime'
    BY NoWait, NotInitialising
  <2>2. Present' /\ NotGivenUp' /\ Locals'
    BY DEF Present, AfterReset, NotGivenUp, Locals
  <2>3. Readings'
    <3>1. steady' => bounce <= 1
      OBVIOUS
    <3>2. /\ pc' = "contacts" /\ left' = Retries /\ contacts' = Unread
          /\ bounce' = bounce
      OBVIOUS
    <3> HIDE <1>3 DEF disk_initialize
    <3>. QED  BY <3>1, <3>2 DEF Readings
  <2>. QED  BY <1>2, <2>1, <2>2, <2>3
<1>4. CASE ctrl_sync
  <2> USE <1>4 DEF ctrl_sync
  <2>1. WaitsInTime' /\ Recognised' /\ InitInTime'
    BY <1>1, NoWait, WaitStarted, NotInitialising DEF Cards
  <2>2. Present' /\ NotGivenUp' /\ Locals' /\ Readings'
    BY <1>1 DEF Present, AfterReset, NotGivenUp, Locals, Readings
  <2>. QED  BY <1>2, <2>1, <2>2
<1>5. CASE ctrl_power
  <2> USE <1>5 DEF ctrl_power
  <2>1. WaitsInTime' /\ Recognised' /\ InitInTime'
    BY <1>1, NoWait, WaitStarted, NotInitialising DEF Cards
  <2>2. Present' /\ NotGivenUp' /\ Locals' /\ Readings'
    BY <1>1 DEF Present, AfterReset, NotGivenUp, Locals, Readings
  <2>. QED  BY <1>2, <2>1, <2>2
<1>6. ASSUME NEW count \in 1 .. MaxCount, disk_read(count) \/ disk_write(count)
      PROVE  ServedInv'
  <2> USE <1>6 DEF disk_read, disk_write
  <2>1. WaitsInTime' /\ Recognised' /\ InitInTime'
    BY <1>1, NoWait, WaitStarted, NotInitialising DEF Cards
  <2>2. Present' /\ NotGivenUp' /\ Locals' /\ Readings'
    BY <1>1 DEF Present, AfterReset, NotGivenUp, Locals, Readings
  <2>. QED  BY <1>2, <2>1, <2>2
<1>. QED  BY <1>3, <1>4, <1>5, <1>6 DEF Call

(* The contacts, once they have settled, are those of the card that is in  *)
(* the socket, and there is a reading left when two agree.                 *)
LEMMA ContactsRead ==
  ASSUME LongEnough, IInv, Readings, ReadContacts, steady
  PROVE  /\ left # 0
         /\ pc' # "settle" =>
              Stat' = {"NOINIT"} \cup (IF card.locked THEN {"PROTECT"} ELSE {})
                                 \cup (IF card.health = "gone" THEN {"NODISK"} ELSE {})
<1>1. op = "init" /\ left \in Retries - 3 .. Retries /\ left \in Nat /\ Retries \in Nat
      /\ bounce \in Nat
  BY DEF ReadContacts, IInv, Places, Values, Readings
<1>2. left # 0
  BY <1>1
<1>3. ASSUME pc' # "settle"
      PROVE  Stat' = {"NOINIT"} \cup (IF card.locked THEN {"PROTECT"} ELSE {})
                                \cup (IF card.health = "gone" THEN {"NODISK"} ELSE {})
  <2>1. PICK now \in IF bounce > 0 THEN Contacts ELSE {Socket} :
          /\ Stabled(contacts, now)
          /\ Stat' = {"NOINIT"} \cup (IF "WP" \in now THEN {"PROTECT"} ELSE {})
                                \cup (IF "INS" \in now THEN {"NODISK"} ELSE {})
    BY <1>2, <1>3 DEF ReadContacts
  <2>2. Socket \in Contacts
    BY DEF Socket, Contacts
  <2>3. now \in Contacts
    BY <2>1, <2>2
  <2>4. contacts # Unread
    BY <2>1, <2>3 DEF Stabled, Contacts, Unread
  <2>5. bounce = 0
    BY <1>1, <2>4 DEF ReadContacts, Readings
  <2>6. now = Socket
    BY <1>1, <2>1, <2>5
  <2>. QED  BY <2>1, <2>6 DEF Socket
<1>. QED  BY <1>2, <1>3

LEMMA ReadContactsServed ==
  ASSUME LongEnough, IInv, ServedInv, ReadContacts
  PROVE  ServedInv'
<1> USE DEF ServedInv, GoodInv
<1>1. card' = card /\ card \in Cards /\ op' = op /\ op = "init" /\ calls' = calls /\ calls = 0
      /\ bounce' = bounce /\ bounce \in Nat /\ left \in Nat /\ Retries \in Nat
      /\ steady' = steady /\ pc = "contacts"
  BY DEF IInv, Records, ReadContacts, Places, Clock, Values
<1>2. pc' \in {"settle", "idle"} \/ (pc' = "ready" /\ cmd' = "CMD0")
  BY DEF ReadContacts, PowerOn
<1>3. Patient'
  BY <1>1, PatientKept
<1>4. WaitsInTime' /\ Recognised' /\ InitInTime'
  <2>1. CASE pc' = "ready"
    <3>1. Timer2' = ReadyTime /\ ~missed'
      BY <2>1 DEF ReadContacts, PowerOn
    <3>. QED  BY <1>1, <1>2, <2>1, <3>1, WaitStarted, NotInitialising DEF Cards
  <2>2. CASE pc' # "ready"
    BY <1>2, <2>2, NoWait, NotInitialising
  <2>. QED  BY <2>1, <2>2
<1>5. Present' /\ NotGivenUp' /\ Locals'
  <2>1. pc' = "ready" => branch' = "none"
    BY DEF ReadContacts, PowerOn
  <2>. QED  BY <1>1, <1>2, <2>1 DEF Present, AfterReset, NotGivenUp, Locals
<1>6. Readings'
  <2>1. SUFFICES ASSUME steady, pc' = "settle"  PROVE Readings'
    BY <1>1, <1>2 DEF Readings
  <2>2. PICK now \in IF bounce > 0 THEN Contacts ELSE {Socket} :
          /\ ~Stabled(contacts, now)
          /\ Timer1' = 1 /\ contacts' = now /\ left' = left - 1
    BY <2>1 DEF ReadContacts, PowerOn
  <2>3. /\ left \in Retries - 3 .. Retries /\ bounce <= 1
        /\ left # Retries => now = Socket
        /\ left = Retries - 2 => card.health = "gone"
        /\ left # Retries - 3
    BY <1>1, <2>1, <2>2 DEF Readings, Stabled
  <2>4. Socket' = Socket
    BY <1>1 DEF Socket
  <2>. QED  BY <1>1, <2>1, <2>2, <2>3, <2>4 DEF Readings
<1>. QED  BY <1>3, <1>4, <1>5, <1>6

LEMMA SettleServed ==
  ASSUME LongEnough, IInv, ServedInv, Settle
  PROVE  ServedInv'
<1> USE DEF ServedInv, GoodInv, Settle
<1>1. Timer1 \in Nat /\ bounce \in Nat /\ op = "init" /\ calls = 0
  BY DEF IInv, Values, Places, Clock
<1>2. Patient'
  BY PatientKept
<1>3. WaitsInTime' /\ Recognised' /\ InitInTime'
  BY NoWait, NotInitialising
<1>4. Present' /\ NotGivenUp' /\ Locals'
  BY <1>1 DEF Present, AfterReset, NotGivenUp, Locals
<1>5. Readings'
  BY <1>1 DEF Readings, Socket
<1>. QED  BY <1>2, <1>3, <1>4, <1>5

LEMMA InitLoopServed ==
  ASSUME LongEnough, IInv, ServedInv, InitLoop
  PROVE  ServedInv'
<1> USE DEF ServedInv, GoodInv
<1>1. /\ card' = card /\ card \in Cards /\ Timer1 \in Nat
      /\ op' = op /\ op = "init" /\ pc \in {"loop", "loop_end"}
      /\ branch \in {"sd2", "SD1", "MMC"}
  BY DEF InitLoop, IInv, Records, Values, Places, Branches
<1>2. CASE Good
  <2>1. Timer1 # 0
    <3>1. card.working => Timer1 >= 6
      BY <1>1, <1>2 DEF InitInTime, AfterReset, Recognised, Patient, Patience, InitSteps, Cards
    <3>2. ~card.working => Timer1 >= 1
      BY <1>1, <1>2 DEF InitInTime, AfterReset, Enough
    <3>. QED  BY <1>1, <3>1, <3>2
  <2>2. /\ pc' = "ready" /\ ~missed' /\ Timer2' = ReadyTime /\ Timer1' = Timer1 /\ polled'
        /\ cmd' = (CASE pc = "loop" /\ branch = "MMC" -> "CMD1"
                    [] pc = "loop" /\ branch # "MMC" -> "CMD55"
                    [] pc = "loop_end" /\ branch = "sd2" -> "CMD58"
                    [] OTHER -> "CMD16")
        /\ branch' = branch /\ refused' = refused /\ calls' = calls /\ steady' = steady
    BY <2>1 DEF InitLoop, Carry
  <2>3. cmd' = IF pc = "loop" THEN IF branch = "MMC" THEN "CMD1" ELSE "CMD55"
               ELSE IF branch = "sd2" THEN "CMD58" ELSE "CMD16"
    <3>1. CASE pc = "loop" /\ branch = "MMC"  BY <2>2, <3>1
    <3>2. CASE pc = "loop" /\ branch # "MMC"  BY <2>2, <3>2
    <3>3. CASE pc = "loop_end" /\ branch = "sd2"  BY <2>2, <3>3
    <3>4. CASE pc = "loop_end" /\ branch # "sd2"  BY <2>2, <3>4
    <3>. QED  BY <1>1, <3>1, <3>2, <3>3, <3>4
  <2> HIDE <2>2
  <2>4. Patient' /\ WaitsInTime'
    BY <1>1, <2>2, PatientKept, WaitStarted DEF Cards
  <2>5. Present' /\ NotGivenUp' /\ Locals' /\ Readings'
    BY <1>1, <2>2, <2>3 DEF Present, AfterReset, NotGivenUp, Locals, Readings
  <2>6. Recognised'
    BY <1>1, <1>2, <2>2, <2>3 DEF Recognised, AfterReset
  <2>7. InitInTime'
    <3>1. Enough(4) => Enough(3)' /\ Enough(2)'
      BY <1>1, <2>2 DEF Enough
    <3>. QED  BY <1>1, <1>2, <2>2, <2>3, <3>1 DEF InitInTime, AfterReset
  <2>. QED  BY <2>4, <2>5, <2>6, <2>7
<1>3. CASE ~Good
  <2>1. GoodInv'
    BY <1>1, <1>3, FailedCard
  <2>2. Locals' /\ Readings'
    BY <1>1 DEF InitLoop, Initialised, Locals, Readings
  <2>. QED  BY <2>1, <2>2
<1>. QED  BY <1>2, <1>3

(***************************************************************************)
(* The answers.                                                            *)
(***************************************************************************)
(* A good card hears every command that is sent to it. *)
LEMMA GoodCardHears ==
  ASSUME IInv, Present, Good, pc = "ready"
  PROVE  ~Deaf /\ Answers = Replies
<1>1. card.phase # "writing"
  BY DEF IInv, Streams
<1>2. card.phase = "reading" => cmd = "CMD12"
  BY DEF IInv, Streams
<1>3. card.phase = "off" => cmd = "CMD0"
  BY DEF Present, AfterReset, IInv, Places
<1>. QED  BY <1>1, <1>2, <1>3 DEF Deaf, Answers

(* Its counter is never found at 0. *)
LEMMA GoodCardInTime ==
  ASSUME WaitsInTime, Good, pc \in Polls, missed
  PROVE  ~WaitOver
BY DEF WaitsInTime, WaitOver

LEMMA MissedServed ==
  ASSUME LongEnough, IInv, ServedInv, Poll, NoAnswer
  PROVE  ServedInv'
<1> USE DEF ServedInv, GoodInv
<1>1. /\ card \in Cards /\ Timer1 \in Nat /\ Timer2 \in Nat /\ pc \in Polls
      /\ UNCHANGED <<pc, op, cmd, left, branch, contacts, card, bounce, steady, refused,
                    timers, calls>>
      /\ polled'
  BY DEF IInv, Records, Values, Poll
<1>2. Patient' /\ Present' /\ NotGivenUp' /\ Locals' /\ Readings'
  BY <1>1, PatientKept DEF Present, AfterReset, NotGivenUp, Locals, Readings, Socket
<1>3. Good => ~AfterReset
  BY <1>1 DEF Recognised, AfterReset, NoAnswer, Busy
<1>4. Recognised' /\ InitInTime'
  BY <1>1, <1>3 DEF Recognised, InitInTime, AfterReset
<1>5. WaitsInTime'
  <2>1. SUFFICES ASSUME Good  PROVE WaitsInTime'
    BY <1>1 DEF WaitsInTime
  <2>2. Slow
    BY <1>1, <2>1 DEF NoAnswer, Busy, Slow
  <2>3. pc = "token" => card.late = 0 \/ card.late <= TokenTime - 2
    BY <2>1, <2>2 DEF Slow, Patient, Patience, IInv, Streams
  <2>4. pc # "token" => card.late = 0 \/ card.late <= ReadyTime - 2
    BY <2>1, <2>2 DEF Slow, Patient, Patience
  <2>5. card.late \in Nat
    BY <1>1 DEF Cards
  <2>6. CASE pc = "token"
    BY <1>1, <2>1, <2>2, <2>3, <2>5, <2>6 DEF WaitsInTime, Slow
  <2>7. CASE pc # "token"
    BY <1>1, <2>1, <2>2, <2>4, <2>5, <2>7 DEF WaitsInTime, Slow
  <2>. QED  BY <2>6, <2>7
<1>. QED  BY <1>2, <1>4, <1>5

LEMMA WaitsServed ==
  ASSUME LongEnough, IInv, ServedInv, TestTimer, ~WaitOver
  PROVE  ServedInv'
<1> USE DEF ServedInv, GoodInv
<1>1. /\ UNCHANGED <<pc, op, cmd, left, branch, contacts, card, bounce, steady, refused,
                    timers, calls>>
      /\ polled' /\ ~missed' /\ pc \in Polls /\ missed
  BY DEF TestTimer
<1>2. Patient' /\ Present' /\ NotGivenUp' /\ Locals' /\ Readings'
  BY <1>1, PatientKept DEF Present, AfterReset, NotGivenUp, Locals, Readings, Socket
<1>3. Good => ~AfterReset
  BY <1>1 DEF Recognised, AfterReset
<1>4. WaitsInTime' /\ Recognised' /\ InitInTime'
  BY <1>1, <1>3 DEF WaitsInTime, Slow, Recognised, InitInTime, AfterReset
<1>. QED  BY <1>2, <1>4

(* A failed card only: the counter is 0. *)
LEMMA TimedOutServed ==
  ASSUME LongEnough, IInv, ServedInv, TestTimer, WaitOver
  PROVE  ServedInv'
<1>1. ~Good /\ card' = card
  BY GoodCardInTime DEF TestTimer, TimedOut, ServedInv, GoodInv
<1>2. GoodInv'
  BY <1>1, FailedCard
<1>3. Readings' /\ Locals'
  <2>1. TimedOut /\ op' = op /\ pc \in Polls
    BY DEF TestTimer
  <2>2. pc' \notin {"contacts", "settle"}
    BY <2>1 DEF TimedOut, AfterCommand, AfterInit, AfterRead, AfterWrite, AfterBlock,
                AfterXmit, AfterOff, LeaveIdle, Initialised, AwaitToken, StopTransfer,
                IInv, Places
  <2>3. ASSUME InCall', op = "read", cmd' = "CMD17"  PROVE left' = 1
    BY <2>1, <2>3 DEF TimedOut, AfterCommand, AfterRead, AfterBlock, AwaitToken, ServedInv,
                      Locals, IInv, Places
  <2>4. ASSUME InCall', op = "write", cmd' = "CMD24"  PROVE left' = 1
    BY <2>1, <2>4 DEF TimedOut, AfterCommand, AfterWrite, AfterXmit, StopTransfer, ServedInv,
                      Locals, IInv, Places
  <2>5. ASSUME op = "init", pc' = "ready"  PROVE cmd' # "CMD0"
    BY <2>1, <2>5 DEF TimedOut, AfterCommand, AfterInit, LeaveIdle, Initialised, AfterOff,
                      IInv, Places
  <2>. QED  BY <2>1, <2>2, <2>3, <2>4, <2>5 DEF Readings, Locals
<1>. QED  BY <1>2, <1>3 DEF ServedInv

LEMMA InitAnsweredServed ==
  ASSUME LongEnough, IInv, ServedInv, Poll, ~NoAnswer, pc = "ready", op = "init"
  PROVE  ServedInv'
<1> USE DEF ServedInv, GoodInv
<1>1. PICK answer \in Answers :
        AfterInit(answer[1]) /\ card' = answer[2]
  BY DEF Poll, Answered, AfterCommand
<1>2. /\ card \in Cards /\ Timer1 \in Nat /\ op' = op /\ steady' = steady
      /\ cmd \in {"CMD0", "CMD8", "CMD55", "ACMD41", "CMD1", "CMD58", "CMD16"}
  BY DEF IInv, Records, Values, Sent, Poll
<1>3. Locals' /\ Readings'
  BY <1>1, <1>2 DEF AfterInit, LeaveIdle, Initialised, Locals, Readings
<1>4. CASE ~Good
  <2>1. card'.health = card.health
    BY <1>1, AnswersKnown DEF Replied
  <2>2. GoodInv'
    BY <1>4, <2>1, FailedCard
  <2>. QED  BY <1>3, <2>2
<1>5. CASE Good
  <2>1. answer \in Replies
    BY <1>1, <1>5, GoodCardHears
  <2>2. CASE cmd = "CMD0"
    <3>1. answer = <<1, Doing("idle", TRUE)>>
      BY <2>1, <2>2 DEF Replies
    <3>2. /\ pc' = "ready" /\ cmd' = "CMD8" /\ ~missed' /\ Timer1' = InitTime
          /\ Timer2' = ReadyTime /\ branch' = branch
          /\ branch = "none"
      BY <1>1, <1>2, <2>2, <3>1 DEF AfterInit, Locals
    <3>3. card'.late = 0 /\ card'.phase = "idle"
      BY <1>1, <1>2, <3>1 DEF Cards, Doing
    <3>4. Patient' /\ WaitsInTime'
      BY <3>2, <3>3, PatientKept, WaitStarted
    <3>5. Present' /\ Recognised' /\ NotGivenUp'
      BY <1>2, <3>2, <3>3 DEF Present, Recognised, NotGivenUp
    <3>6. InitInTime'
      BY <1>2, <3>2, <3>3 DEF InitInTime, Enough, InitSteps
    <3>. QED  BY <1>3, <3>4, <3>5, <3>6
  <2>3. CASE cmd \in {"CMD58", "CMD16"}
    <3>1. answer = <<0, card>>
      BY <2>1, <2>3 DEF Replies
    <3>2. card' = card /\ pc' = "idle"
      <4>1. branch \in {"SD1", "MMC"} \/ cmd = "CMD58"
        BY <1>2, <2>3 DEF IInv, Branches
      <4>. QED  BY <1>1, <2>3, <3>1, <4>1 DEF AfterInit, Initialised
    <3>3. Patient' /\ WaitsInTime' /\ Recognised' /\ InitInTime'
      BY <3>2, PatientKept, NoWait, NotInitialising
    <3>4. Present' /\ NotGivenUp'
      BY <1>2, <1>5, <2>3, <3>2 DEF Present, NotGivenUp, AfterReset
    <3>. QED  BY <1>3, <3>3, <3>4
  <2>4. AfterReset /\ ~(cmd = "CMD0")
        => /\ card.phase = "idle" \/ (card.phase = "tran" /\ ~card.working)
           /\ card.phase # "off"
    BY <1>5 DEF Recognised
  <2>5. CASE cmd = "CMD8"
    <3>1. answer = <<IF card.kind \in SD2Kinds THEN 1 ELSE 5, card>> /\ card' = card
      BY <1>1, <2>1, <2>5 DEF Replies
    <3>2. Enough(7) /\ AfterReset /\ Timer1' = Timer1
      BY <1>1, <1>2, <1>5, <2>5, <3>1 DEF InitInTime, AfterReset, AfterInit, Echoes
    <3>3. Enough(6)' /\ Enough(4)'
      BY <1>2, <3>2 DEF Enough
    <3>4. CASE card.kind \in SD2Kinds
      <4>1. pc' = "loop" /\ branch' = "sd2" /\ ~missed'
        BY <1>1, <1>5, <2>5, <3>1, <3>4 DEF AfterInit, Echoes
      <4>2. Patient' /\ WaitsInTime'
        BY <3>1, <4>1, PatientKept, NoWait
      <4>3. Present' /\ Recognised' /\ InitInTime' /\ NotGivenUp'
        BY <1>2, <1>5, <2>4, <2>5, <3>1, <3>2, <3>3, <3>4, <4>1
           DEF Present, Recognised, InitInTime, NotGivenUp, AfterReset
      <4>. QED  BY <1>3, <4>2, <4>3
    <3>5. CASE card.kind \notin SD2Kinds
      <4>1. /\ pc' = "ready" /\ cmd' = "CMD55" /\ branch' = "probe" /\ ~missed'
            /\ Timer2' = ReadyTime
        BY <1>1, <2>5, <3>1, <3>5 DEF AfterInit
      <4>2. Patient' /\ WaitsInTime'
        BY <1>2, <3>1, <4>1, PatientKept, WaitStarted DEF Cards
      <4>3. card.kind \in {"SD1", "MMC"}
        BY <1>2, <3>5 DEF Cards, SD2Kinds
      <4>4. Present' /\ Recognised' /\ InitInTime' /\ NotGivenUp'
        BY <1>2, <1>5, <2>4, <2>5, <3>1, <3>2, <3>3, <4>1, <4>3
           DEF Present, Recognised, InitInTime, NotGivenUp, AfterReset
      <4>. QED  BY <1>3, <4>2, <4>4
    <3>. QED  BY <3>4, <3>5
  <2>6. CASE cmd = "CMD55"
    <3>1. answer = <<IF card.kind = "MMC" THEN 5 ELSE Idle, card>> /\ card' = card
      BY <1>1, <2>1, <2>6 DEF Replies
    <3>2. AfterReset /\ Timer1' = Timer1
      BY <1>1, <1>2, <2>6, <3>1 DEF AfterReset, AfterInit, LeaveIdle, Idle
    <3>3. CASE card.kind = "MMC"
      <4>1. branch = "probe"
        BY <1>2, <1>5, <2>6, <3>2, <3>3 DEF Recognised, SD2Kinds, IInv, Branches
      <4>2. pc' = "loop" /\ branch' = "MMC" /\ ~missed'
        BY <1>1, <2>6, <3>1, <3>3, <4>1 DEF AfterInit, LeaveIdle
      <4>3. Patient' /\ WaitsInTime'
        BY <3>1, <4>2, PatientKept, NoWait
      <4>4. Enough(4)'
        BY <1>2, <1>5, <2>6, <3>2, <4>1 DEF InitInTime, Enough
      <4>5. Present' /\ Recognised' /\ InitInTime' /\ NotGivenUp'
        BY <1>2, <1>5, <2>4, <2>6, <3>1, <3>2, <3>3, <4>2, <4>4
           DEF Present, Recognised, InitInTime, NotGivenUp, AfterReset
      <4>. QED  BY <1>3, <4>3, <4>5
    <3>4. CASE card.kind # "MMC"
      <4>1. /\ pc' = "ready" /\ cmd' = "ACMD41" /\ branch' = branch /\ ~missed'
            /\ Timer2' = ReadyTime
        BY <1>1, <2>6, <3>1, <3>4 DEF AfterInit, Idle
      <4>2. Patient' /\ WaitsInTime'
        BY <1>2, <3>1, <4>1, PatientKept, WaitStarted DEF Cards
      <4>3. /\ branch = "probe" => Enough(5)'
            /\ ~card.working /\ branch # "probe" => Enough(2)'
        BY <1>2, <1>5, <2>6, <3>2 DEF InitInTime, Enough
      <4>4. Present' /\ Recognised' /\ InitInTime' /\ NotGivenUp'
        BY <1>2, <1>5, <2>4, <2>6, <3>1, <3>2, <3>4, <4>1, <4>3
           DEF Present, Recognised, InitInTime, NotGivenUp, AfterReset
      <4>. QED  BY <1>3, <4>2, <4>4
    <3>. QED  BY <3>3, <3>4
  <2>7. CASE cmd \in {"ACMD41", "CMD1"}
    <3>1. Replies = IF card.working THEN {<<1, card>>} ELSE {<<0, Doing("tran", FALSE)>>}
      BY <2>7 DEF Replies
    <3>2. answer = IF card.working THEN <<1, card>> ELSE <<0, Doing("tran", FALSE)>>
      BY <2>1, <3>1
    <3>3. LeaveIdle(answer[1])
      BY <1>1, <2>7 DEF AfterInit
    <3>4. /\ card'.working = card.working /\ card'.kind = card.kind
          /\ card'.phase = IF card.working THEN card.phase ELSE "tran"
          /\ card' = card \/ card'.late = 0
          /\ card.working => card' = card
      BY <1>1, <1>2, <3>2 DEF Cards, Doing
    <3>5. AfterReset /\ Timer1' = Timer1 /\ ~missed'
      BY <1>1, <1>2, <2>7, <3>2, <3>3 DEF AfterReset, LeaveIdle
    <3>6. CASE branch = "probe"
      <4>1. pc' = "loop" /\ branch' = "SD1"
        BY <3>2, <3>3, <3>6 DEF LeaveIdle
      <4>2. Patient' /\ WaitsInTime'
        BY <3>4, <4>1, PatientKept, NoWait
      <4>3. card.kind = "SD1"
        BY <1>2, <1>5, <2>7, <3>5, <3>6 DEF Recognised
      <4>4. ~card.working => Enough(4)'
        BY <1>2, <1>5, <2>7, <3>5, <3>6, <4>3 DEF InitInTime, Enough, Recognised
      <4>5. Present' /\ Recognised' /\ InitInTime' /\ NotGivenUp'
        BY <1>2, <1>5, <2>4, <2>7, <3>4, <3>5, <4>1, <4>3, <4>4
           DEF Present, Recognised, InitInTime, NotGivenUp, AfterReset, SD2Kinds
      <4>. QED  BY <1>3, <4>2, <4>5
    <3>7. CASE branch # "probe"
      <4>1. pc' = (IF card.working THEN "loop" ELSE "loop_end") /\ branch' = branch
        BY <3>2, <3>3, <3>7 DEF LeaveIdle
      <4>2. Patient' /\ WaitsInTime'
        BY <3>4, <4>1, PatientKept, NoWait
      <4>3. ~card.working => Enough(1)'
        BY <1>2, <1>5, <2>7, <3>5, <3>7 DEF InitInTime, Enough
      <4>4. branch # "none"
        BY <2>7, <1>2 DEF IInv, Branches
      <4>5. Present' /\ NotGivenUp'
        BY <1>2, <1>5, <2>4, <2>7, <3>4, <3>5, <4>1
           DEF Present, NotGivenUp, AfterReset
      <4>6. Recognised'
        BY <1>2, <1>5, <2>4, <2>7, <3>4, <3>5, <3>7, <4>1, <4>4
           DEF Recognised, AfterReset
      <4>7. InitInTime'
        BY <1>2, <1>5, <2>4, <2>7, <3>4, <3>5, <4>1, <4>3
           DEF InitInTime, AfterReset
      <4>. QED  BY <1>3, <4>2, <4>5, <4>6, <4>7
    <3>. QED  BY <3>6, <3>7
  <2>. QED  BY <1>2, <2>2, <2>3, <2>5, <2>6, <2>7
<1>. QED  BY <1>4, <1>5

(* The replies to the commands of a transfer. *)
LEMMA TransferReplies ==
  ASSUME NEW answer \in Replies, op \in {"read", "write"}
  PROVE  /\ cmd \in {"CMD17", "CMD18"} =>
              \/ answer = <<64, card>>
              \/ answer = <<0, Doing(IF cmd = "CMD17" THEN "read" ELSE "reading", TRUE)>>
         /\ cmd \in {"CMD24", "CMD25"} =>
              \/ answer = <<64, card>>
              \/ answer = <<0, Doing(IF cmd = "CMD24" THEN "write" ELSE "writing", FALSE)>>
         /\ cmd = "CMD12" => \E working \in BOOLEAN : answer = <<0, Doing("tran", working)>>
         /\ cmd = "CMD55" => answer \in {<<5, card>>, <<1, card>>, <<0, card>>}
         /\ cmd = "ACMD23" => answer = <<0, card>>
<1>1. CASE cmd \in {"CMD17", "CMD18"}
  <2>1. Replies = {<<64, card>>,
                   <<0, Doing(IF cmd = "CMD17" THEN "read" ELSE "reading", TRUE)>>}
    BY <1>1 DEF Replies
  <2>. QED  BY <1>1, <2>1
<1>2. CASE cmd \in {"CMD24", "CMD25"}
  <2>1. Replies = {<<64, card>>,
                   <<0, Doing(IF cmd = "CMD24" THEN "write" ELSE "writing", FALSE)>>}
    BY <1>2 DEF Replies
  <2>. QED  BY <1>2, <2>1
<1>3. CASE cmd = "CMD12"
  <2>1. Replies = {<<0, Doing("tran", working)>> : working \in BOOLEAN}
    BY <1>3 DEF Replies
  <2>. QED  BY <1>3, <2>1
<1>4. CASE cmd = "CMD55"
  <2>1. Replies = {<<IF card.kind = "MMC" THEN 5 ELSE Idle, card>>}
    BY <1>4 DEF Replies
  <2>. QED  BY <1>4, <2>1 DEF Idle
<1>5. CASE cmd = "ACMD23"
  <2>1. Replies = {<<0, card>>}
    BY <1>5 DEF Replies
  <2>. QED  BY <1>5, <2>1
<1>. QED  BY <1>1, <1>2, <1>3, <1>4, <1>5

(* The card is as it was, or new to what it does. *)
LEMMA TransferAnswers ==
  ASSUME IInv, NEW answer \in Answers, card' = answer[2], op \in {"read", "write"},
         pc = "ready"
  PROVE  /\ card' = card \/ card'.late = 0
         /\ card'.health = card.health
         /\ card.phase # "off" => card'.phase # "off"
<1> USE DEF IInv, Records, Cards, Doing
<1>1. CASE Deaf
  <2>1. answer = <<255, card>>  BY <1>1 DEF Answers
  <2>. QED  BY <2>1
<1>2. CASE ~Deaf
  <2>1. answer \in Replies  BY <1>2 DEF Answers
  <2>2. CASE cmd \in {"CMD17", "CMD18"}
    <3>1. CASE answer = <<64, card>>
      BY <3>1
    <3>2. CASE answer = <<0, Doing(IF cmd = "CMD17" THEN "read" ELSE "reading", TRUE)>>
      BY <3>2
    <3>. QED  BY <2>1, <2>2, <3>1, <3>2, TransferReplies
  <2>3. CASE cmd \in {"CMD24", "CMD25"}
    <3>1. CASE answer = <<64, card>>
      BY <3>1
    <3>2. CASE answer = <<0, Doing(IF cmd = "CMD24" THEN "write" ELSE "writing", FALSE)>>
      BY <3>2
    <3>. QED  BY <2>1, <2>3, <3>1, <3>2, TransferReplies
  <2>4. CASE cmd = "CMD12"
    <3>1. PICK working \in BOOLEAN : answer = <<0, Doing("tran", working)>>
      BY <2>1, <2>4, TransferReplies
    <3>. QED  BY <3>1
  <2>5. CASE cmd \in {"CMD55", "ACMD23"}
    <3>1. answer \in {<<5, card>>, <<1, card>>, <<0, card>>}
      BY <2>1, <2>5, TransferReplies
    <3>. QED  BY <3>1
  <2>. QED  BY <2>2, <2>3, <2>4, <2>5 DEF Sent
<1>. QED  BY <1>1, <1>2

LEMMA TransferAnsweredServed ==
  ASSUME LongEnough, IInv, ServedInv, Poll, ~NoAnswer, pc = "ready", op \in {"read", "write"}
  PROVE  ServedInv'
<1> USE DEF ServedInv, GoodInv
<1>1. PICK answer \in Answers :
        /\ op = "read" => AfterRead(answer[1])
        /\ op = "write" => AfterWrite(answer[1])
        /\ card' = answer[2]
  BY DEF Poll, Answered, AfterCommand
<1>2. /\ card \in Cards /\ op' = op /\ steady' = steady /\ card' \in Cards
      /\ cmd \in {"CMD17", "CMD18", "CMD12", "CMD24", "CMD25", "CMD55", "ACMD23"}
      /\ answer[1] \in Nat
  BY <1>1, AnswersKnown DEF IInv, Records, Sent, Poll, Replied
<1>3. /\ card' = card \/ card'.late = 0
      /\ card'.health = card.health
      /\ card.phase # "off" => card'.phase # "off"
  BY <1>1, TransferAnswers
<1>4. Locals'
  BY <1>1, <1>2 DEF AfterRead, AfterWrite, AwaitToken, Locals, IInv, Sent
<1>5. Readings'
  BY <1>2 DEF Readings
<1>6. Patient'
  BY <1>3, PatientKept
<1>7. pc' \in {"ready", "xmit", "idle", "token"}
  BY <1>1, <1>2 DEF AfterRead, AfterWrite, AwaitToken
<1>8. WaitsInTime'
  <2>1. CASE pc' = "token"
    <3>1. Timer1' = TokenTime /\ ~missed'
      BY <1>1, <2>1 DEF AfterRead, AfterWrite, AwaitToken, TokenTimer
    <3>. QED  BY <1>2, <2>1, <3>1 DEF WaitsInTime, Cards
  <2>2. CASE pc' \in {"ready", "xmit"}
    <3>1. Timer2' = ReadyTime /\ ~missed'
      BY <1>1, <2>2 DEF AfterRead, AfterWrite, AwaitToken
    <3>. QED  BY <1>2, <2>2, <3>1, WaitStarted DEF Cards
  <2>3. CASE pc' = "idle"
    BY <2>3, NoWait
  <2>. QED  BY <1>7, <2>1, <2>2, <2>3
<1>9. Recognised' /\ InitInTime'
  BY <1>2, NotInitialising
<1>10. Present'
  BY <1>2, <1>3 DEF Present, AfterReset
<1>11. NotGivenUp'
  <2>1. pc' = "ready" => op = "write"
    BY <1>1 DEF AfterRead, AwaitToken
  <2>. QED  BY <1>2, <1>7, <2>1 DEF NotGivenUp
<1>. QED  BY <1>4, <1>5, <1>6, <1>8, <1>9, <1>10, <1>11

LEMMA TokenServed ==
  ASSUME LongEnough, IInv, ServedInv, Poll, ~NoAnswer, pc = "token"
  PROVE  ServedInv'
<1> USE DEF ServedInv, GoodInv
<1>1. PICK good \in BOOLEAN, more \in BOOLEAN :
        /\ AfterBlock(good) /\ refused' = (refused \/ ~good)
        /\ card' = IF card.phase = "read" THEN Doing("tran", FALSE)
                                          ELSE Doing("reading", more)
  BY DEF Poll, Answered
<1>2. /\ card \in Cards /\ op' = op /\ op = "read" /\ cmd \in {"CMD17", "CMD18"}
      /\ left \in Nat
  BY DEF IInv, Records, Places, Values, Poll
<1>3. /\ card'.late = 0 /\ card'.health = card.health
      /\ card'.phase \in {"tran", "reading"}
  BY <1>1, <1>2 DEF Cards, Doing
<1>4. Patient'
  BY <1>3, PatientKept
<1>5. Recognised' /\ InitInTime' /\ Present' /\ Readings'
  BY <1>2, <1>3, NotInitialising DEF Present, AfterReset, Readings
<1>6. CASE cmd = "CMD17"
  <2>1. pc' = "idle"
    BY <1>1, <1>6 DEF AfterBlock
  <2>. QED  BY <1>4, <1>5, <2>1, NoWait DEF NotGivenUp, Locals
<1>7. CASE cmd = "CMD18" /\ good /\ left > 1
  <2>1. pc' = "token" /\ cmd' = cmd /\ Timer1' = TokenTime /\ ~missed'
    BY <1>1, <1>7 DEF AfterBlock, AwaitToken, TokenTimer
  <2>2. WaitsInTime'
    BY <1>3, <2>1 DEF WaitsInTime
  <2>. QED  BY <1>2, <1>4, <1>5, <1>7, <2>1, <2>2 DEF NotGivenUp, Locals
<1>8. CASE cmd = "CMD18" /\ ~(good /\ left > 1)
  <2>1. pc' = "ready" /\ cmd' = "CMD12" /\ Timer2' = ReadyTime /\ ~missed'
    BY <1>1, <1>8 DEF AfterBlock
  <2>2. WaitsInTime'
    BY <1>3, <2>1, WaitStarted
  <2>3. ~refused' => left' = 0
    <3>1. SUFFICES ASSUME good  PROVE left' = 0
      BY <1>1
    <3>2. left' = left - 1 /\ left = 1
      BY <1>1, <1>2, <1>8, <3>1 DEF AfterBlock, IInv, Counts
    <3>. QED  BY <3>2
  <2>. QED  BY <1>2, <1>4, <1>5, <2>1, <2>2, <2>3 DEF NotGivenUp, Locals
<1>. QED  BY <1>2, <1>6, <1>7, <1>8

LEMMA XmitServed ==
  ASSUME LongEnough, IInv, ServedInv, Poll, ~NoAnswer, pc = "xmit"
  PROVE  ServedInv'
<1> USE DEF ServedInv, GoodInv
<1>1. /\ card \in Cards /\ op' = op /\ op = "write" /\ cmd \in {"CMD24", "CMD25"}
      /\ left \in Nat
  BY DEF IInv, Records, Places, Values, Poll
<1>2. PICK good \in BOOLEAN, busy \in BOOLEAN :
        /\ AfterXmit(good)
        /\ card.health # "gone" =>
             /\ refused' = (refused \/ ~good)
             /\ card' = Doing(IF card.phase = "write" THEN "tran" ELSE "writing", busy)
        /\ card.health = "gone" => card' = card
  <2>1. CASE card.health = "gone"
    BY <2>1 DEF Poll, Answered
  <2>2. CASE card.health # "gone"
    BY <2>2 DEF Poll, Answered
  <2>. QED  BY <2>1, <2>2
<1>3. Locals' /\ Readings'
  BY <1>1, <1>2 DEF AfterXmit, StopTransfer, Locals, Readings
<1>4. CASE ~Good
  <2>1. card'.health = card.health
    BY <1>1, <1>2 DEF Cards, Doing
  <2>. QED  BY <1>3, <1>4, <2>1, FailedCard
<1>5. CASE Good
  <2>1. card'.late = 0 /\ card'.phase \in {"tran", "writing"}
    BY <1>1, <1>2, <1>5 DEF Cards, Doing
  <2>2. Patient' /\ Recognised' /\ InitInTime' /\ Present'
    BY <1>1, <2>1, PatientKept, NotInitialising DEF Present
  <2>3. CASE cmd = "CMD24"
    <3>1. pc' = "idle"
      BY <1>2, <2>3 DEF AfterXmit
    <3>. QED  BY <1>3, <2>2, <3>1, NoWait DEF NotGivenUp
  <2>4. CASE cmd = "CMD25" /\ good /\ left > 1
    <3>1. pc' = "xmit" /\ Timer2' = ReadyTime /\ ~missed'
      BY <1>2, <2>4 DEF AfterXmit
    <3>. QED  BY <1>1, <1>3, <2>1, <2>2, <3>1, WaitStarted DEF NotGivenUp
  <2>5. CASE cmd = "CMD25" /\ ~(good /\ left > 1)
    <3>1. pc' = "stop" /\ Timer2' = ReadyTime /\ ~missed'
      BY <1>2, <2>5 DEF AfterXmit, StopTransfer
    <3>2. ~refused' => left' = 0
      <4>1. SUFFICES ASSUME good  PROVE left' = 0
        BY <1>2, <1>5
      <4>2. left' = left - 1 /\ left = 1
        BY <1>1, <1>2, <2>5, <4>1 DEF AfterXmit, IInv, Counts
      <4>. QED  BY <4>2
    <3>. QED  BY <1>1, <1>3, <2>1, <2>2, <3>1, <3>2, WaitStarted DEF NotGivenUp
  <2>. QED  BY <1>1, <2>3, <2>4, <2>5
<1>. QED  BY <1>4, <1>5

LEMMA LastAnswerServed ==
  ASSUME LongEnough, IInv, ServedInv, Poll, ~NoAnswer, pc \in {"stop", "sync", "off"}
  PROVE  ServedInv'
<1> USE DEF ServedInv, GoodInv
<1>1. card \in Cards /\ op' = op /\ pc' = "idle" /\ calls' = calls
  BY DEF IInv, Records, Poll, Answered, AfterOff, Stay
<1>2. card' = card \/ \E busy \in BOOLEAN : card' = Doing("tran", busy)
  BY DEF Poll, Answered
<1>3. /\ card' = card \/ (card'.late = 0 /\ card'.phase = "tran")
      /\ card'.health = card.health
  BY <1>1, <1>2 DEF Cards, Doing
<1>4. Patient' /\ WaitsInTime' /\ Recognised' /\ InitInTime'
  BY <1>1, <1>3, PatientKept, NoWait, NotInitialising
<1>5. Present' /\ NotGivenUp' /\ Locals' /\ Readings'
  BY <1>1, <1>3 DEF Present, AfterReset, NotGivenUp, Locals, Readings
<1>. QED  BY <1>4, <1>5

(***************************************************************************)
(* The invariant.                                                          *)
(***************************************************************************)
LEMMA InitServed ==
  ASSUME Init
  PROVE  ServedInv
<1>1. card.late = 0 /\ ~card.working
  BY DEF Init, NewCard
<1>2. Patient /\ WaitsInTime /\ Present
  BY <1>1 DEF Init, Patient, WaitsInTime, Present, AfterReset
<1>3. Recognised /\ InitInTime /\ NotGivenUp /\ Locals /\ Readings
  BY DEF Init, Recognised, InitInTime, AfterReset, NotGivenUp, Locals, Readings
<1>. QED  BY <1>2, <1>3 DEF ServedInv, GoodInv

LEMMA StepServed ==
  ASSUME LongEnough, IInv, ServedInv, [Next]_vars
  PROVE  ServedInv'
<1>1. CASE Call
  BY <1>1, CallServed
<1>2. CASE ReadContacts \/ Settle \/ InitLoop
  BY <1>2, ReadContactsServed, SettleServed, InitLoopServed
<1>3. CASE Poll
  <2>1. CASE NoAnswer
    BY <1>3, <2>1, MissedServed
  <2>2. CASE ~NoAnswer
    BY <1>3, <2>2, InitAnsweredServed, TransferAnsweredServed, TokenServed, XmitServed,
       LastAnswerServed DEF Poll, IInv, Places
  <2>. QED  BY <2>1, <2>2
<1>4. CASE TestTimer
  BY <1>4, WaitsServed, TimedOutServed
<1>5. CASE ReadRam \/ disk_timerproc
  BY <1>5, ReadRamServed, TimerServed
<1>6. CASE CardWork \/ CardFails \/ Insert
  BY <1>6, CardWorkServed, CardFailsServed, InsertServed
<1>7. CASE UNCHANGED vars
  BY <1>7 DEF ServedInv, GoodInv, Patient, Patience, WaitsInTime, Slow, Present, Recognised,
              InitInTime, AfterReset, Enough, NotGivenUp, Locals, Readings, Socket
<1>. QED  BY <1>1, <1>2, <1>3, <1>4, <1>5, <1>6, <1>7 DEF Next, Main

(***************************************************************************)
(* What a call comes to.                                                   *)
(***************************************************************************)
(* The step that ends a call is one of the driver. *)
LEMMA CallEnds ==
  ASSUME [Next]_vars, pc # "idle", pc' = "idle"
  PROVE  /\ op' = op /\ asked' = asked /\ steady' = steady
         /\ \/ ReadContacts \/ InitLoop
            \/ Poll /\ ~NoAnswer
            \/ TestTimer /\ WaitOver
<1>1. ~Call /\ ~ReadRam /\ ~disk_timerproc /\ ~CardWork /\ ~CardFails /\ ~Insert
      /\ ~Settle /\ ~(Poll /\ NoAnswer) /\ ~(TestTimer /\ ~WaitOver)
  BY DEF Call, disk_initialize, ctrl_sync, ctrl_power, disk_read, disk_write, ReadRam,
         disk_timerproc, CardWork, CardFails, Insert, Settle, Poll, TestTimer
<1>2. ReadContacts \/ InitLoop \/ (Poll /\ ~NoAnswer) \/ (TestTimer /\ WaitOver)
  BY <1>1 DEF Next, Main
<1>3. op' = op /\ asked' = asked /\ steady' = steady
  BY <1>2 DEF ReadContacts, InitLoop, Poll, TestTimer
<1>. QED  BY <1>2, <1>3

LEMMA OkCounts ==
  ASSUME IInv, [Next]_vars, pc # "idle", pc' = "idle", op \in {"read", "write"},
         result' = "ok"
  PROVE  moved' = asked'
<1>1. /\ moved + left = asked /\ asked' = asked
      /\ left \in Nat /\ moved \in Nat /\ asked \in Nat
      /\ pc \in {"ready", "token", "xmit", "stop"}
  <2>1. asked' = asked
    BY CallEnds
  <2>. QED  BY <2>1, CallEnds DEF IInv, Places, Counts, Values, ReadContacts, InitLoop, Poll,
                                  TestTimer
<1>2. CASE pc = "ready"
  <2>1. PICK r : AfterCommand(r) /\ moved' = moved
    BY <1>2, CallEnds DEF Poll, TestTimer, Answered, TimedOut, NoBlock, ReadContacts,
                          InitLoop
  <2>2. cmd = "CMD12" /\ Outcome(left) = "ok"
    BY <1>2, <2>1 DEF AfterCommand, AfterRead, AfterWrite, AwaitToken, IInv, Sent
  <2>. QED  BY <1>1, <2>1, <2>2 DEF Outcome
<1>3. CASE pc \in {"token", "xmit"}
  <2>1. PICK done \in BOOLEAN : IF pc = "token" THEN AfterBlock(done) ELSE AfterXmit(done)
    BY <1>3, CallEnds DEF Poll, TestTimer, Answered, TimedOut, ReadContacts, InitLoop
  <2>2. left' = 0 => moved' = asked
    BY <1>1, <2>1 DEF AfterBlock, AfterXmit
  <2>3. result' = Outcome(left')
    <3>1. CASE pc = "token"
      BY <2>1, <3>1 DEF AfterBlock, AwaitToken
    <3>2. CASE pc = "xmit"
      BY <2>1, <3>2 DEF AfterXmit, StopTransfer
    <3>. QED  BY <1>3, <3>1, <3>2
  <2>4. left' = 0
    BY <2>3 DEF Outcome
  <2>. QED  BY <1>1, <2>2, <2>4, Zenon
<1>4. CASE pc = "stop"
  <2>1. moved' = moved /\ Outcome(left) = "ok"
    BY <1>4, CallEnds DEF Poll, TestTimer, Answered, TimedOut, NoBlock, ReadContacts,
                          InitLoop
  <2>. QED  BY <1>1, <2>1 DEF Outcome
<1>. QED  BY <1>1, <1>2, <1>3, <1>4

LEMMA OkSynced ==
  ASSUME IInv, [Next]_vars, pc # "idle", pc' = "idle", op = "sync", result' = "ok",
         card.health # "gone"
  PROVE  ~(card'.working /\ card'.phase = "tran")
<1>1. pc = "sync"
  BY DEF IInv, Places, Values
<1>2. Poll /\ ~NoAnswer /\ card' = card
  BY <1>1, CallEnds DEF ReadContacts, InitLoop, Poll, Answered, TestTimer, TimedOut
<1>. QED  BY <1>1, <1>2 DEF NoAnswer, Busy

(* RES_OK of disk_read and disk_write means that every block of the call   *)
(* crossed the bus; RES_OK of CTRL_SYNC that the card, if it is there, has *)
(* programmed them: whatever the card refuses or fails at, and whenever    *)
(* the interrupt comes (diskio_spi.c:395-465, 513-517).                    *)
THEOREM OkAlwaysDone ==
  ASSUME ReadyTime >= 2
  PROVE  Spec => OkMeansDone
<1>1. ASSUME IInv, [Next]_vars
      PROVE  /\ (Ends("read") \/ Ends("write")) /\ result' = "ok" => moved' = asked'
             /\ Ends("sync") /\ result' = "ok" /\ card.health # "gone" =>
                  ~(card'.working /\ card'.phase = "tran")
  BY <1>1, OkCounts, OkSynced DEF Ends
<1>2. IInv /\ [Next]_vars => IInv'
  BY StepInv
<1>. QED  BY InitInv, <1>1, <1>2, PTL DEF Spec, OkMeansDone

(***************************************************************************)
(* The card is known, and a good one served.                               *)
(***************************************************************************)
(* disk_initialize ends well only with a card it has recognised. *)
LEMMA TypeFound ==
  ASSUME LongEnough, IInv, ServedInv, [Next]_vars, Good, Ends("init"), result' = "ok"
  PROVE  CardType' = card.kind
<1> USE DEF Ends
<1>1. /\ op' = "init" /\ pc \in {"contacts", "loop", "loop_end", "ready", "off"}
  BY CallEnds DEF IInv, Places, ReadContacts, InitLoop, Poll, TestTimer
<1>2. PICK kind : Initialised(kind) /\ kind # "none"
                  /\ \/ cmd = "CMD58" /\ kind = IF card.kind = "SDHC" THEN "SDHC" ELSE "SD2"
                     \/ cmd = "CMD16" /\ kind = branch
                  /\ pc = "ready"
  <2>1. CASE ReadContacts
    BY <2>1 DEF ReadContacts, PowerOn
  <2>2. CASE InitLoop
    BY <2>2 DEF InitLoop, Initialised
  <2>3. CASE pc = "off"
    BY <2>3, CallEnds DEF ReadContacts, InitLoop, Poll, TestTimer, Answered, TimedOut, AfterOff
  <2>4. CASE pc = "ready"
    <3>1. PICK r : AfterInit(r)
      BY <2>4, CallEnds DEF ReadContacts, InitLoop, Poll, TestTimer, Answered, TimedOut,
                            AfterCommand
    <3>2. cmd \in {"CMD0", "CMD8", "CMD55", "ACMD41", "CMD1", "CMD58", "CMD16"}
      BY <2>4 DEF IInv, Sent
    <3>. QED  BY <2>4, <3>1, <3>2 DEF AfterInit, LeaveIdle, Initialised
  <2>. QED  BY <1>1, <2>1, <2>2, <2>3, <2>4, CallEnds DEF Poll, TestTimer
<1>3. /\ card.kind \in CardKinds
      /\ branch = "sd2" => card.kind \in SD2Kinds
      /\ branch \in {"SD1", "MMC"} => card.kind = branch
      /\ cmd = "CMD58" => branch = "sd2"
      /\ cmd = "CMD16" => branch \in {"SD1", "MMC"}
  BY <1>1, <1>2 DEF IInv, Records, Cards, ServedInv, GoodInv, Recognised, AfterReset, Branches
<1>. QED  BY <1>2, <1>3 DEF Initialised, SD2Kinds

(* A call of a good card that is not refused ends well. *)
LEMMA Served ==
  ASSUME LongEnough, IInv, ServedInv, [Next]_vars, Good, pc # "idle", pc' = "idle", steady,
         ~refused'
  PROVE  result' = "ok"
<1> USE DEF ServedInv, GoodInv
<1>1. CASE ReadContacts
  <2>1. pc' # "settle" /\ left # 0
    BY <1>1, ContactsRead
  <2>2. "NODISK" \notin Stat'
    BY <1>1, <2>1, ContactsRead
  <2>. QED  BY <1>1, <2>1, <2>2 DEF ReadContacts, PowerOn
<1>2. CASE InitLoop
  BY <1>2 DEF InitLoop, Initialised
<1>3. CASE TestTimer /\ WaitOver
  BY <1>3, GoodCardInTime DEF TestTimer
<1>4. CASE Poll /\ ~NoAnswer /\ pc = "ready"
  <2>1. PICK answer \in Answers :
          /\ AfterCommand(answer[1]) /\ card' = answer[2]
          /\ refused' = (refused \/ answer[1] = 64)
    BY <1>4 DEF Poll, Answered
  <2>2. CASE op = "init"
    BY <1>4, <2>1, <2>2 DEF AfterCommand, AfterInit, LeaveIdle, Initialised
  <2>3. CASE op = "read" /\ cmd = "CMD12"
    <3>1. ~refused
      BY <2>1
    <3>2. left = 0
      BY <1>4, <2>3, <3>1 DEF NotGivenUp
    <3>. QED  BY <1>4, <2>1, <2>3, <3>2 DEF AfterCommand, AfterRead, Outcome
  <2>4. CASE op = "write" \/ (op = "read" /\ cmd # "CMD12")
    <3>1. answer \in Replies
      BY <1>4, <2>1, GoodCardHears
    <3>2. answer[1] # 64
      BY <2>1
    <3>3. cmd \in {"CMD17", "CMD18", "CMD24", "CMD25"} => answer[1] = 0
      <4>1. cmd \in {"CMD17", "CMD18"} =>
              \E next : answer \in {<<64, card>>, <<0, next>>}
        BY <2>4, <3>1, TransferReplies
      <4>2. cmd \in {"CMD24", "CMD25"} =>
              \E next : answer \in {<<64, card>>, <<0, next>>}
        BY <2>4, <3>1, TransferReplies
      <4>. QED  BY <3>2, <4>1, <4>2
    <3>4. op = "read" => cmd \in {"CMD17", "CMD18"} /\ AfterRead(answer[1])
      BY <1>4, <2>1, <2>4 DEF AfterCommand, IInv, Sent
    <3>5. op = "write" => cmd \in {"CMD24", "CMD25", "CMD55", "ACMD23"}
                          /\ AfterWrite(answer[1])
      BY <1>4, <2>1, <2>4 DEF AfterCommand, IInv, Sent
    <3>6. op # "read"
      BY <3>3, <3>4 DEF AfterRead, AwaitToken
    <3>7. op # "write"
      BY <3>3, <3>5 DEF AfterWrite
    <3>. QED  BY <2>4, <3>6, <3>7
  <2>. QED  BY <1>4, <2>2, <2>3, <2>4 DEF IInv, Places
<1>5. CASE Poll /\ ~NoAnswer /\ pc = "token"
  <2>1. PICK good \in BOOLEAN : AfterBlock(good) /\ refused' = (refused \/ ~good)
    BY <1>5 DEF Poll, Answered
  <2>2. good /\ cmd = "CMD17" /\ left = 1
    BY <1>5, <2>1 DEF AfterBlock, AwaitToken, IInv, Places, Locals
  <2>. QED  BY <2>1, <2>2 DEF AfterBlock, Outcome
<1>6. CASE Poll /\ ~NoAnswer /\ pc = "xmit"
  <2>1. PICK good \in BOOLEAN : AfterXmit(good) /\ refused' = (refused \/ ~good)
    BY <1>6 DEF Poll, Answered
  <2>2. good /\ cmd = "CMD24" /\ left = 1
    BY <1>6, <2>1 DEF AfterXmit, StopTransfer, IInv, Places, Locals
  <2>. QED  BY <2>1, <2>2 DEF AfterXmit, Outcome
<1>7. CASE Poll /\ ~NoAnswer /\ pc = "stop"
  <2>1. result' = Outcome(left) /\ refused' = refused
    BY <1>7 DEF Poll, Answered
  <2>. QED  BY <1>7, <2>1 DEF NotGivenUp, Outcome
<1>8. CASE Poll /\ ~NoAnswer /\ pc \in {"sync", "off"}
  <2>1. /\ pc = "sync" => result' = "ok"
        /\ pc = "off" => result' = (IF op = "init" THEN "error" ELSE "ok")
        /\ refused' = refused
    BY <1>8 DEF Poll, Answered, AfterOff
  <2>. QED  BY <1>8, <2>1 DEF NotGivenUp
<1>. QED  BY <1>1, <1>2, <1>3, <1>4, <1>5, <1>6, <1>7, <1>8, CallEnds DEF Poll

(* Whenever the interrupt comes, a card that takes no longer than the      *)
(* timeouts allow, less the tick they start in, fails no call but one it   *)
(* refuses, if the contacts settle between two readings                    *)
(* (diskio_spi.c:133-137, 192-195, 341-357).                               *)
THEOREM GoodCardAlwaysServed ==
  ASSUME LongEnough
  PROVE  Spec => GoodCardServed
<1>1. ASSUME IInv, ServedInv, [Next]_vars
      PROVE  pc # "idle" /\ pc' = "idle" /\ card.health = "good" /\ steady /\ ~refused'
             => result' = "ok"
  BY <1>1, Served
<1>2. IInv /\ [Next]_vars => IInv'
  BY StepInv
<1>3. IInv /\ ServedInv /\ [Next]_vars => ServedInv'
  BY StepServed
<1>. QED  BY InitInv, InitServed, <1>1, <1>2, <1>3, PTL DEF Spec, GoodCardServed

(* What the driver knows of the socket is what is in it, if the contacts   *)
(* settle between two readings; and the type it has of a card that it      *)
(* initialised is the card's (diskio_spi.c:307-332, 345-362).              *)
THEOREM CardAlwaysIdentified ==
  ASSUME LongEnough
  PROVE  Spec => CardIdentified
<1>1. ASSUME IInv, ServedInv, [Next]_vars
      PROVE  /\ pc = "contacts" /\ pc' \notin {"contacts", "settle"} /\ steady =>
                  /\ ("PROTECT" \in Stat' <=> card.locked)
                  /\ ("NODISK" \in Stat' <=> card.health = "gone")
             /\ Ends("init") /\ result' = "ok" /\ card.health = "good" =>
                  CardType' = card.kind
  <2>1. ASSUME pc = "contacts", pc' \notin {"contacts", "settle"}, steady
        PROVE  /\ ("PROTECT" \in Stat' <=> card.locked)
               /\ ("NODISK" \in Stat' <=> card.health = "gone")
    <3>1. ReadContacts
      BY <1>1, <2>1 DEF Next, Call, Main, disk_initialize, ctrl_sync, ctrl_power, disk_read,
                        disk_write, ReadRam, disk_timerproc, CardWork, CardFails, Insert,
                        Settle, InitLoop, Poll, TestTimer
    <3>. QED  BY <1>1, <2>1, <3>1, ContactsRead DEF ServedInv
  <2>2. ASSUME Ends("init"), result' = "ok", card.health = "good"
        PROVE  CardType' = card.kind
    BY <1>1, <2>2, TypeFound
  <2>. QED  BY <2>1, <2>2
<1>2. IInv /\ [Next]_vars => IInv'
  BY StepInv
<1>3. IInv /\ ServedInv /\ [Next]_vars => ServedInv'
  BY StepServed
<1>. QED  BY InitInv, InitServed, <1>1, <1>2, <1>3, PTL DEF Spec, CardIdentified
=============================================================================
