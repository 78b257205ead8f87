------------------------------- MODULE SdCard -------------------------------
(***************************************************************************)
(* The SD card driver (diskio_spi.c), the card it talks to, and the timer  *)
(* interrupt that ends its waits.                                          *)
(*                                                                         *)
(* Every wait polls the card until it answers or a counter, which          *)
(* disk_timerproc counts down from the interrupt, is 0.  The answer is     *)
(* read first and the counter after it, so the interrupt can come between. *)
(* The bus is shared with the RAM of the sampler, which a file command     *)
(* reads between two calls of the driver.                                  *)
(*                                                                         *)
(* The card is modelled by what the driver asks of it: it takes its time   *)
(* over some work (initialising, fetching a block, programming one), it    *)
(* may refuse, stop working for good or be pulled out.                     *)
(***************************************************************************)
EXTENDS Integers

CONSTANTS
  ReadyTime,      \* Timer2 of wait_ready (the code: 50)
  TokenTime,      \* Timer1 of rcvr_datablock (10)
  InitTime,       \* Timer1 of disk_initialize (100)
  Retries,        \* readings of the contacts (100)
  Kinds,          \* cards that are inserted, subset of CardKinds
  MaxCount,       \* bound: blocks in one call
  MaxCalls        \* bound: calls in one session

CardKinds == {"SDHC", "SD2", "SD1", "MMC"}

ASSUME SdCardAssumption ==
  /\ ReadyTime \in Nat /\ TokenTime \in Nat /\ InitTime \in Nat /\ Retries \in Nat \ {0}
  /\ Kinds \subseteq CardKinds
  /\ MaxCount \in Nat \ {0} /\ MaxCalls \in Nat \ {0}

VARIABLES
  pc, op, cmd,      \* where the driver is, the call it serves, the command it sends
  missed,           \* the card was read and had no answer: the counter comes next
  left,             \* count of disk_read and disk_write; retries of disk_initialize
  contacts,         \* disk_initialize: the reading of the contacts
  branch,           \*   and the kind of card it takes this one for
  Stat, CardType, Timer1, Timer2,
  bus,              \* SPI: channel, enabled, fast clock, and the card's select
  card,             \* the card in the socket
  bounce,           \* ticks the contacts still bounce after an insertion
  result,           \* of the last call
  asked, moved,     \* history: blocks the call asked for, blocks that crossed the bus
  refused,          \* history: the card reported an error in this call
  steady,           \* history: the contacts had settled when they were read
  polled,           \* the driver has moved since the last tick
  calls             \* calls of this session

driver  == <<pc, op, cmd, missed, left, contacts, branch>>
timers  == <<Timer1, Timer2>>
status  == <<Stat, CardType>>
history == <<asked, moved, refused, steady>>
vars == <<driver, status, timers, bus, card, bounce, result, history, polled, calls>>

SD2Kinds == {"SDHC", "SD2"}
Commands == {"CMD0", "CMD1", "CMD8", "CMD12", "CMD16", "CMD17", "CMD18", "CMD24",
             "CMD25", "CMD55", "ACMD41", "ACMD23", "CMD58"}
Polls == {"ready", "token", "xmit", "stop", "sync", "off"}
Contacts == SUBSET {"WP", "INS"}
Unread   == {"0xff"}

TypeOK ==
  /\ pc \in {"idle", "contacts", "settle", "loop", "loop_end"} \cup Polls
  /\ op \in {"none", "init", "read", "write", "sync", "off"}
  /\ missed \in BOOLEAN
  /\ cmd \in Commands \cup {"none"}
  /\ left \in Nat /\ branch \in {"none", "sd2", "probe", "SD1", "MMC"}
  /\ contacts \in Contacts \cup {Unread}
  /\ Stat \subseteq {"NOINIT", "NODISK", "PROTECT"}
  /\ CardType \in CardKinds \cup {"none"}
  /\ Timer1 \in Nat /\ Timer2 \in 0 .. ReadyTime
  /\ bus \in [channel : {"ram", "sd"}, enabled : BOOLEAN, fast : BOOLEAN,
              selected : BOOLEAN]
  /\ card \in [kind : CardKinds, locked : BOOLEAN, health : {"good", "stuck", "gone"},
               phase : {"off", "idle", "tran", "read", "reading", "write", "writing"},
               working : BOOLEAN, late : Nat]
  /\ bounce \in 0 .. Retries
  /\ result \in {"ok", "error", "notrdy", "wrprt"}
  /\ asked \in 0 .. MaxCount /\ moved \in 0 .. MaxCount
  /\ refused \in BOOLEAN /\ steady \in BOOLEAN /\ polled \in BOOLEAN
  /\ calls \in 0 .. MaxCalls

NewCard(kind, locked) ==
  [kind |-> kind, locked |-> locked, health |-> "good", phase |-> "off",
   working |-> FALSE, late |-> 0]

Init ==
  /\ pc = "idle" /\ op = "none" /\ cmd = "none" /\ missed = FALSE
  /\ left = 0 /\ contacts = Unread /\ branch = "none"
  /\ Stat = {"NOINIT"} /\ CardType = "none" /\ Timer1 = 0 /\ Timer2 = 0
  /\ bus = [channel |-> "ram", enabled |-> FALSE, fast |-> FALSE, selected |-> FALSE]
  /\ \E kind \in Kinds, locked \in BOOLEAN : card = NewCard(kind, locked)
  /\ bounce = 0 /\ result = "ok" /\ asked = 0 /\ moved = 0
  /\ refused = FALSE /\ steady = TRUE /\ polled = TRUE /\ calls = 0

(***************************************************************************)
(* The card.                                                               *)
(***************************************************************************)
(* It holds the data line low while it programs a block.                   *)
Busy == card.health # "gone" /\ card.working /\ card.phase \in {"tran", "writing"}

(* Ticks a good card needs at most: it is done while the counter of the    *)
(* driver, which may lose a tick as it starts, is not 0.  Between CMD0 and *)
(* the last test of Timer1 there are InitSteps steps of the driver, each   *)
(* of them much shorter than a tick.                                       *)
InitSteps == 6

Patience == CASE card.phase = "idle" -> InitTime - InitSteps
              [] card.phase \in {"read", "reading"} -> TokenTime - 2
              [] OTHER -> ReadyTime - 2

Doing(phase, working) ==
  [card EXCEPT !.phase = phase, !.working = working, !.late = 0]

CardWork ==
  /\ card.working /\ card.health = "good"
  /\ card' = [card EXCEPT !.working = FALSE, !.late = 0]
  /\ UNCHANGED <<driver, status, timers, bus, bounce, result, history, polled, calls>>

(* It stops working for good, or is pulled out; neither ends by itself.    *)
CardFails ==
  /\ card.health = "good" /\ pc # "idle"
  /\ \E health \in {"stuck", "gone"} : card' = [card EXCEPT !.health = health]
  /\ UNCHANGED <<driver, status, timers, bus, bounce, result, history, polled, calls>>

(* Between two sessions a card is put in.                                  *)
Insert ==
  /\ pc = "idle" /\ calls = 0 /\ card.health # "good"
  /\ \E kind \in Kinds, locked \in BOOLEAN : card' = NewCard(kind, locked)
  /\ bounce' \in {0, 1, Retries}
  /\ UNCHANGED <<driver, status, timers, bus, result, history, polled, calls>>

(* Answers to a command: the R1 response, and the card after it.  255 is   *)
(* no response.  A card that takes or sends a stream of blocks listens to  *)
(* nothing but its end.                                                    *)
Idle == IF card.phase = "idle" THEN 1 ELSE 0

Deaf == \/ card.health = "gone" \/ card.phase = "writing"
        \/ card.phase = "reading" /\ cmd # "CMD12"
        \/ card.phase = "off" /\ cmd # "CMD0"

Replies ==
  CASE cmd = "CMD0"  -> {<<1, Doing("idle", TRUE)>>}
    [] cmd = "CMD8"  -> {<<IF card.kind \in SD2Kinds THEN 1 ELSE 5, card>>}
    [] cmd = "CMD55" -> {<<IF card.kind = "MMC" THEN 5 ELSE Idle, card>>}
    [] cmd \in {"ACMD41", "CMD1"} ->
         IF card.working THEN {<<1, card>>} ELSE {<<0, Doing("tran", FALSE)>>}
    [] cmd \in {"CMD17", "CMD18"} ->
         {<<64, card>>, <<0, Doing(IF cmd = "CMD17" THEN "read" ELSE "reading", TRUE)>>}
    [] cmd \in {"CMD24", "CMD25"} ->
         {<<64, card>>, <<0, Doing(IF cmd = "CMD24" THEN "write" ELSE "writing", FALSE)>>}
    [] cmd = "CMD12" -> {<<0, Doing("tran", working)>> : working \in BOOLEAN}
    [] OTHER -> {<<0, card>>}

Answers == IF Deaf THEN {<<255, card>>} ELSE Replies

(***************************************************************************)
(* The timer interrupt: disk_timerproc every 11 interrupts of 1 ms.  The   *)
(* polls of the driver are much faster than that.                          *)
(***************************************************************************)
Down(counter) == IF counter > 0 THEN counter - 1 ELSE 0

disk_timerproc ==
  /\ pc # "idle" /\ polled
  /\ card.health = "good" /\ card.working => card.late < Patience
  /\ Timer1' = Down(Timer1) /\ Timer2' = Down(Timer2) /\ bounce' = Down(bounce)
  /\ card' = IF card.working /\ card.health = "good"
             THEN [card EXCEPT !.late = @ + 1] ELSE card
  /\ polled' = FALSE
  /\ UNCHANGED <<driver, status, bus, result, history, calls>>

(***************************************************************************)
(* The driver.                                                             *)
(***************************************************************************)
Goto(label) == pc' = label /\ missed' = FALSE /\ polled' = TRUE

Released == [bus EXCEPT !.selected = FALSE]

(* The locals of a call are gone at its end, and its counters run down:    *)
(* nothing reads one before it has set it.                                 *)
Over ==
  /\ Goto("idle") /\ cmd' = "none" /\ branch' = "none"
  /\ Timer1' = 0 /\ Timer2' = 0

(* release_spi and return.                                                 *)
Return(code) == Over /\ result' = code /\ bus' = Released

SelectCard == [bus EXCEPT !.channel = "sd", !.selected = TRUE]

StartWait == Timer2' = ReadyTime /\ UNCHANGED Timer1

(* send_cmd up to its wait_ready.                                          *)
Send(command) ==
  /\ Goto("ready") /\ cmd' = command
  /\ bus' = SelectCard /\ StartWait

(* A wait_ready in front of something else than a command.                 *)
Wait(label) == Goto(label) /\ StartWait /\ UNCHANGED <<cmd, bus>>

BugTokenTime == TokenTime - 2
TokenTimer == TokenTime

AwaitToken ==
  /\ Goto("token") /\ Timer1' = TokenTimer
  /\ UNCHANGED <<Timer2, cmd, bus>>

(***************************************************************************)
(* disk_initialize.                                                        *)
(***************************************************************************)
BeginCall(name) ==
  /\ pc = "idle"
  /\ op' = name /\ refused' = FALSE /\ moved' = 0

(* A file command begins; Stat is what the last one left.                  *)
disk_initialize ==
  /\ BeginCall("init") /\ calls = 0
  /\ Goto("contacts") /\ left' = Retries /\ contacts' = Unread /\ cmd' = "none"
  /\ Stat' = {"NOINIT"} /\ steady' = (bounce <= 1) /\ asked' = 0
  /\ UNCHANGED <<branch, CardType, timers, bus, card, bounce, result, calls>>

Socket == (IF card.health = "gone" THEN {"INS"} ELSE {})
          \cup (IF card.locked THEN {"WP"} ELSE {})

BugTakeFirst(before, now) == TRUE
(* Have contacts stabled?                                                  *)
Stabled(before, now) == before = now

(* power_on, 80 clocks, CMD0: the slow clock again.                        *)
PowerOn ==
  /\ Goto("ready") /\ cmd' = "CMD0" /\ branch' = "none" /\ contacts' = Unread
  /\ left' = 0
  /\ bus' = [channel |-> "sd", enabled |-> TRUE, fast |-> FALSE, selected |-> TRUE]
  /\ StartWait

ReadContacts ==
  /\ pc = "contacts"
  /\ IF left = 0
     THEN PowerOn /\ UNCHANGED <<Stat, result>>
     ELSE \E now \in IF bounce > 0 THEN Contacts ELSE {Socket} :
       IF Stabled(contacts, now)
       THEN /\ Stat' = {"NOINIT"} \cup (IF "WP" \in now THEN {"PROTECT"} ELSE {})
                                  \cup (IF "INS" \in now THEN {"NODISK"} ELSE {})
            /\ IF "INS" \in now
               THEN /\ Over /\ result' = "error" /\ contacts' = Unread
                    /\ left' = 0 /\ UNCHANGED bus
               ELSE PowerOn /\ UNCHANGED result
       ELSE /\ Goto("settle") /\ Timer1' = 1 /\ contacts' = now /\ left' = left - 1
            /\ UNCHANGED <<Stat, Timer2, cmd, branch, bus, result>>
  /\ UNCHANGED <<op, CardType, card, bounce, history, calls>>

Settle ==
  /\ pc = "settle"
  /\ Goto(IF Timer1 = 0 THEN "contacts" ELSE "settle")
  /\ UNCHANGED <<op, cmd, left, contacts, branch, status, timers, bus, card, bounce, result,
                 history, calls>>

(* Its end: CardType and Stat are set; without a type power_off follows.   *)
Initialised(kind) ==
  /\ CardType' = kind
  /\ IF kind = "none"
     THEN /\ Goto("off") /\ StartWait /\ bus' = [bus EXCEPT !.selected = TRUE]
          /\ UNCHANGED <<cmd, branch, Stat, result, calls>>
     ELSE /\ Over /\ result' = "ok" /\ calls' = 1
          /\ Stat' = Stat \ {"NOINIT"}
          /\ bus' = [Released EXCEPT !.fast = TRUE]
  /\ UNCHANGED left

Carry == UNCHANGED <<left, status, result, calls>>

(* The answer r to ACMD41 or CMD1, or to the CMD55 before it.              *)
LeaveIdle(r) ==
  /\ IF branch = "probe"
     THEN branch' = (IF r <= 1 THEN "SD1" ELSE "MMC") /\ Goto("loop")
     ELSE Goto(IF r = 0 THEN "loop_end" ELSE "loop") /\ UNCHANGED branch
  /\ UNCHANGED <<cmd, timers, bus>> /\ Carry

(* CMD8 is echoed behind its answer, by a card that can work at 2.7-3.6 V  *)
(* and has not failed.                                                     *)
Echoes == IF card.health = "good" THEN {TRUE} ELSE BOOLEAN

AfterInit(r) ==
  CASE cmd = "CMD0" /\ r = 1 ->
         /\ Goto("ready") /\ cmd' = "CMD8" /\ bus' = SelectCard
         /\ Timer1' = InitTime /\ Timer2' = ReadyTime
         /\ UNCHANGED branch /\ Carry
    [] cmd = "CMD8" /\ r = 1 ->
         \E echoed \in Echoes :
           IF echoed
           THEN Goto("loop") /\ branch' = "sd2" /\ UNCHANGED <<cmd, timers, bus>> /\ Carry
           ELSE Initialised("none")
    [] cmd = "CMD8" /\ r # 1 -> Send("CMD55") /\ branch' = "probe" /\ Carry
    [] cmd = "CMD55" /\ r <= 1 -> Send("ACMD41") /\ UNCHANGED branch /\ Carry
    [] cmd = "CMD55" /\ r > 1 -> LeaveIdle(r)
    [] cmd \in {"ACMD41", "CMD1"} -> LeaveIdle(r)
    [] cmd = "CMD58" /\ r = 0 ->
         Initialised(IF card.kind = "SDHC" THEN "SDHC" ELSE "SD2")
    [] cmd = "CMD16" /\ r = 0 -> Initialised(branch)
    [] OTHER -> Initialised("none")

(* Both tests of Timer1 around the loop that waits for the card.           *)
InitLoop ==
  /\ pc \in {"loop", "loop_end"}
  /\ IF Timer1 = 0 THEN Initialised("none")
     ELSE /\ Send(CASE pc = "loop" /\ branch = "MMC" -> "CMD1"
                    [] pc = "loop" /\ branch # "MMC" -> "CMD55"
                    [] pc = "loop_end" /\ branch = "sd2" -> "CMD58"
                    [] OTHER -> "CMD16")
          /\ UNCHANGED branch /\ Carry
  /\ UNCHANGED <<op, contacts, card, bounce, history>>

(***************************************************************************)
(* disk_read, disk_write, disk_ioctl.                                      *)
(***************************************************************************)
InSession == calls > 0 /\ calls < MaxCalls

Refuse(code) ==
  /\ Over /\ result' = code /\ UNCHANGED bus

disk_read(count) ==
  /\ InSession /\ BeginCall("read") /\ left' = count /\ asked' = count
  /\ IF "NOINIT" \in Stat THEN Refuse("notrdy")
     ELSE Send(IF count = 1 THEN "CMD17" ELSE "CMD18") /\ UNCHANGED result
  /\ calls' = calls + 1 /\ UNCHANGED <<contacts, branch, status, card, bounce, steady>>

disk_write(count) ==
  /\ InSession /\ BeginCall("write") /\ left' = count /\ asked' = count
  /\ IF "NOINIT" \in Stat THEN Refuse("notrdy")
     ELSE IF "PROTECT" \in Stat THEN Refuse("wrprt")
     ELSE /\ Send(CASE count = 1 -> "CMD24"
                    [] count > 1 /\ CardType # "MMC" -> "CMD55"
                    [] OTHER -> "CMD25")
          /\ UNCHANGED result
  /\ calls' = calls + 1 /\ UNCHANGED <<contacts, branch, status, card, bounce, steady>>

(* disk_ioctl(CTRL_SYNC), which does not set the channel: FatFs calls it   *)
(* after it wrote its window (sync), so the channel is that of the card.   *)
ctrl_sync ==
  /\ InSession /\ op = "write" /\ bus.channel = "sd"
  /\ BeginCall("sync")
  /\ IF "NOINIT" \in Stat THEN Refuse("notrdy")
     ELSE /\ Goto("sync") /\ StartWait /\ bus' = [bus EXCEPT !.selected = TRUE]
          /\ UNCHANGED <<cmd, result>>
  /\ calls' = calls + 1
  /\ UNCHANGED <<left, contacts, branch, status, card, bounce, asked, steady>>

(* disk_ioctl(CTRL_POWER) ends a session.  The file commands pass it a     *)
(* null pointer and it reads its sub command through it: off, on, or none. *)
ctrl_power ==
  /\ pc = "idle" /\ calls > 0 /\ bus.channel = "sd"
  /\ op' = "off" /\ calls' = 0
  /\ \/ /\ Goto("off") /\ StartWait /\ bus' = [bus EXCEPT !.selected = TRUE]
        /\ UNCHANGED result
     \/ /\ Over /\ result' = "ok"
        /\ bus' = [bus EXCEPT !.enabled = TRUE, !.fast = FALSE]
     \/ Refuse("error")
  /\ UNCHANGED <<cmd, left, contacts, branch, status, card, bounce, history>>

(* buffer_write reads the RAM between two calls: f_open has been there,    *)
(* which fails on a protected card, and f_close will be.                   *)
ReadRam ==
  /\ pc = "idle" /\ InSession /\ bus.channel = "sd" /\ "PROTECT" \notin Stat
  /\ bus' = [bus EXCEPT !.channel = "ram", !.enabled = TRUE]
  /\ UNCHANGED <<driver, status, timers, card, bounce, result, history, polled, calls>>

(***************************************************************************)
(* The answers.                                                            *)
(***************************************************************************)
(* What no call but disk_initialize changes.                               *)
Stay == UNCHANGED <<branch, status, calls>>

BugOutcome(count) == "ok"
Outcome(count) == IF count = 0 THEN "ok" ELSE "error"

AfterRead(r) ==
  /\ CASE cmd = "CMD12" -> Return(Outcome(left))
       [] cmd # "CMD12" /\ r = 0 -> AwaitToken /\ UNCHANGED result
       [] OTHER -> Return("error")
  /\ UNCHANGED left /\ Stay

(* The result of ACMD23 is not looked at.                                  *)
AfterWrite(r) ==
  /\ CASE cmd = "CMD55" -> Send(IF r <= 1 THEN "ACMD23" ELSE "CMD25") /\ UNCHANGED result
       [] cmd = "ACMD23" -> Send("CMD25") /\ UNCHANGED result
       [] cmd \in {"CMD24", "CMD25"} /\ r = 0 -> Wait("xmit") /\ UNCHANGED result
       [] OTHER -> Return("error")
  /\ UNCHANGED left /\ Stay

(* send_cmd is over: r is its result.                                      *)
AfterCommand(r) ==
  CASE op = "init" -> AfterInit(r)
    [] op = "read" -> AfterRead(r)
    [] op = "write" -> AfterWrite(r)

(* rcvr_datablock is over, and the loop of disk_read goes on or ends.      *)
AfterBlock(received) ==
  /\ left' = IF received THEN left - 1 ELSE left
  /\ moved' = IF received THEN moved + 1 ELSE moved
  /\ CASE cmd = "CMD17" -> Return(Outcome(left'))
       [] cmd = "CMD18" /\ received /\ left > 1 -> AwaitToken /\ UNCHANGED result
       [] OTHER -> Send("CMD12") /\ UNCHANGED result
  /\ Stay

BugNoStop == Return("error")
StopTransfer == Wait("stop") /\ UNCHANGED result

(* xmit_datablock is over, and the loop of disk_write goes on or ends.     *)
AfterXmit(accepted) ==
  /\ left' = IF accepted THEN left - 1 ELSE left
  /\ moved' = IF accepted THEN moved + 1 ELSE moved
  /\ CASE cmd = "CMD24" -> Return(Outcome(left'))
       [] cmd = "CMD25" /\ accepted /\ left > 1 -> Wait("xmit") /\ UNCHANGED result
       [] OTHER -> StopTransfer
  /\ Stay

(* power_off.                                                              *)
AfterOff ==
  /\ Over /\ result' = (IF op = "init" THEN "error" ELSE "ok")
  /\ Stat' = Stat \cup {"NOINIT"}
  /\ bus' = [Released EXCEPT !.enabled = FALSE]
  /\ UNCHANGED <<left, CardType, moved, calls>>

NoBlock == UNCHANGED moved

(* The card has answered, or was ready.                                    *)
Answered ==
  \/ /\ pc = "ready"
     /\ \E answer \in Answers :
          /\ AfterCommand(answer[1]) /\ card' = answer[2]
          /\ refused' = (refused \/ answer[1] = 64)
     /\ NoBlock
  \/ /\ pc = "token"
     /\ \E good \in BOOLEAN, more \in BOOLEAN :
          /\ AfterBlock(good) /\ refused' = (refused \/ ~good)
          /\ card' = IF card.phase = "read" THEN Doing("tran", FALSE)
                                            ELSE Doing("reading", more)
  \/ /\ pc = "xmit"
     /\ \E good \in BOOLEAN, busy \in BOOLEAN :
          IF card.health = "gone"
          THEN AfterXmit(FALSE) /\ UNCHANGED <<card, refused>>
          ELSE /\ AfterXmit(good) /\ refused' = (refused \/ ~good)
               /\ card' = Doing(IF card.phase = "write" THEN "tran" ELSE "writing", busy)
  \/ /\ pc = "stop"
     /\ \E busy \in BOOLEAN :
          card' = IF card.health = "gone" THEN card ELSE Doing("tran", busy)
     /\ Return(Outcome(left)) /\ UNCHANGED <<left, refused>> /\ Stay /\ NoBlock
  \/ /\ pc = "sync" /\ Return("ok")
     /\ UNCHANGED <<left, card, refused>> /\ Stay /\ NoBlock
  \/ pc = "off" /\ AfterOff /\ UNCHANGED <<card, refused>>

(* The counter is 0.                                                       *)
TimedOut ==
  /\ CASE pc = "ready" -> AfterCommand(255) /\ NoBlock
       [] pc = "token" -> AfterBlock(FALSE)
       [] pc = "xmit"  -> AfterXmit(FALSE)
       [] pc \in {"stop", "sync"} ->
            Return("error") /\ UNCHANGED left /\ Stay /\ NoBlock
       [] pc = "off"   -> AfterOff
  /\ UNCHANGED <<card, refused>>

(* 0xff is what a wait for the card's readiness ends with, and what a wait *)
(* for its data token goes on with.                                        *)
NoAnswer == IF pc = "token" THEN card.working \/ card.health = "gone" ELSE Busy

Poll ==
  /\ pc \in Polls /\ ~missed
  /\ IF NoAnswer
     THEN /\ missed' = TRUE /\ polled' = TRUE
          /\ UNCHANGED <<pc, cmd, left, branch, status, timers, bus, card, result,
                         moved, refused, calls>>
     ELSE Answered
  /\ UNCHANGED <<op, contacts, bounce, asked, steady>>

BugForever == FALSE
WaitOver == IF pc = "token" THEN Timer1 = 0 ELSE Timer2 = 0

TestTimer ==
  /\ pc \in Polls /\ missed
  /\ IF WaitOver
     THEN TimedOut
     ELSE /\ Goto(pc)
          /\ UNCHANGED <<cmd, left, branch, status, timers, bus, card, result, moved,
                         refused, calls>>
  /\ UNCHANGED <<op, contacts, bounce, asked, steady>>

Call == disk_initialize \/ ctrl_sync \/ ctrl_power
        \/ \E count \in 1 .. MaxCount : disk_read(count) \/ disk_write(count)

Main == ReadContacts \/ Settle \/ InitLoop \/ Poll \/ TestTimer

Next == Call \/ Main \/ ReadRam \/ disk_timerproc \/ CardWork \/ CardFails \/ Insert

(* The driver runs, the timer interrupts it, and a good card gets done.    *)
Fairness == WF_vars(Main) /\ WF_vars(disk_timerproc) /\ WF_vars(CardWork)

Spec     == Init /\ [][Next]_vars
FairSpec == Spec /\ Fairness

(***************************************************************************)
(* Properties.                                                             *)
(***************************************************************************)
(* The card is selected only in a call, so the RAM never shares the data   *)
(* line with it; while the card is polled the bus has its channel, is      *)
(* enabled, and is slow until the card has left the idle state.            *)
BusShared ==
  /\ pc = "idle" => ~bus.selected
  /\ pc \in Polls => bus.selected /\ bus.channel = "sd" /\ bus.enabled
  /\ pc \in Polls /\ card.phase = "idle" /\ card.health = "good" => ~bus.fast

(* A card that keeps its times is never sent a command while it takes or   *)
(* sends a stream of blocks, except the end of the stream: every way out   *)
(* of the loops of disk_read and disk_write ends it.                       *)
CommandsUnderstood ==
  /\ card.health = "good" /\ pc = "ready" => card.phase # "writing"
  /\ card.health = "good" /\ pc = "ready" /\ card.phase = "reading" => cmd = "CMD12"
  /\ card.health = "good" /\ pc = "idle" => card.phase \notin {"reading", "writing"}

(* The protocol of card and bus, kept across calls, timeouts, refusals and *)
(* what a session leaves to the next (diskio_spi.c:109-117, 145-150,       *)
(* 258-263, 367, 412-419, 451-460, 514).                                   *)
CardProtocol == TypeOK /\ BusShared /\ CommandsUnderstood

Ends(call) == op = call /\ pc # "idle" /\ pc' = "idle"

(* RES_OK of disk_read or disk_write means that all blocks crossed the     *)
(* bus; RES_OK of the CTRL_SYNC after it that the card, if it is still     *)
(* there, has programmed them (diskio_spi.c:395-465, 513-517).             *)
OkMeansDone ==
  [][/\ (Ends("read") \/ Ends("write")) /\ result' = "ok" => moved' = asked'
     /\ Ends("sync") /\ result' = "ok" /\ card.health # "gone" =>
          ~(card'.working /\ card'.phase = "tran")]_vars

(* The timeouts are long enough, whenever the interrupt comes: a card that *)
(* takes no longer than they allow, less the tick they start in, fails no  *)
(* call unless it refuses it.  No wait disturbs the counter of another     *)
(* (diskio_spi.c:133-137, 192-195, 341-357).                               *)
GoodCardServed ==
  [][/\ pc # "idle" /\ pc' = "idle" /\ card.health = "good" /\ steady /\ ~refused'
     => result' = "ok"]_vars

(* The driver knows what is in the socket, if the contacts settle in the   *)
(* time between two readings, and how its sectors are addressed            *)
(* (diskio_spi.c:307-332, 345-362).                                        *)
CardIdentified ==
  [][/\ pc = "contacts" /\ pc' \notin {"contacts", "settle"} /\ steady =>
          /\ ("PROTECT" \in Stat' <=> card.locked)
          /\ ("NODISK" \in Stat' <=> card.health = "gone")
     /\ Ends("init") /\ result' = "ok" /\ card.health = "good" =>
          CardType' = card.kind]_vars

(* Whatever the card does, every call ends: each wait by the card or by    *)
(* the interrupt, and there is no way round from one to the next           *)
(* (diskio_spi.c:128-139, 192-195, 310-357).                               *)
CallsEnd == pc # "idle" ~> pc = "idle"
=============================================================================
