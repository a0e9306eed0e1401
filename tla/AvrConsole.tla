------------------------------ MODULE AvrConsole ------------------------------
(***************************************************************************)
(* The serial console of mega_avr (console_serial.c) with its UART HAL     *)
(* (uart.c) and the wait_* calls of interrupt.c.  A write sends one        *)
(* character and sleeps until the transmit interrupt; a read sleeps until  *)
(* the receive interrupt.  Level 1 is the thread, level 2 a handler that   *)
(* prints (platform_wdt_handler does), which runs above it.                *)
(***************************************************************************)
EXTENDS Naturals, Sequences

CONSTANTS
  MaxChars,   \* bound: characters that arrive at the receiver
  MaxPrints   \* bound: handlers that print

ASSUME AvrConsoleConstants == MaxChars \in Nat /\ MaxPrints \in Nat

VARIABLES
  avrPc,      \* what each level is doing; "none" on level 2: no handler runs
  avrInts,    \* SREG.I
  asleep,     \* the core is in arch_wfi
  txWait,     \* con_write_wait.lock
  rxWait,     \* con_read_wait.lock
  udr,        \* the characters in the transmitter: shift register and UDR
  txc,        \* the TXC flag
  rxFifo,     \* the receiver's buffer
  arrived,    \* characters that have arrived so far: they are numbered
  conChar,    \* con_char
  prints,     \* handlers that have printed so far
  gotChar         \* the character the last read returned, 0 before there is one

avrVars == <<avrPc, avrInts, asleep, txWait, rxWait, udr, txc, rxFifo, arrived, conChar, prints, gotChar>>

Level == IF avrPc[2] = "none" THEN 1 ELSE 2
Goto(step) == avrPc' = [avrPc EXCEPT ![Level] = step]
At(step) == ~asleep /\ avrPc[Level] = step

-----------------------------------------------------------------------------
(* console_serial_write. *)

\* wait_lock.
WriteLock ==
  /\ At("idle") \/ (Level = 2 /\ At("entry"))
  /\ txWait' = 1 /\ Goto("send")
  /\ UNCHANGED <<avrInts, asleep, rxWait, udr, txc, rxFifo, arrived, conChar, prints, gotChar>>
\* uart_tx: spins until UDR is empty, then writes it.
UartTx ==
  /\ At("send") /\ udr < 2
  /\ udr' = udr + 1 /\ Goto("txsleep")
  /\ UNCHANGED <<avrInts, asleep, txWait, rxWait, txc, rxFifo, arrived, conChar, prints, gotChar>>

(* console_serial_read: wait_lock, then wait_till_irq, then con_char. *)

\* Mutant of ReadLock: the wait is not armed.
ReadNoLock ==
  /\ At("idle") /\ Level = 1
  /\ Goto("rxsleep")
  /\ UNCHANGED <<avrInts, asleep, txWait, rxWait, udr, txc, rxFifo, arrived, conChar, prints, gotChar>>
ReadLock ==
  /\ At("idle") /\ Level = 1
  /\ rxWait' = 1 /\ Goto("rxsleep")
  /\ UNCHANGED <<avrInts, asleep, txWait, udr, txc, rxFifo, arrived, conChar, prints, gotChar>>

\* Mutant of ArchWfi: wait_till_irq arms the wait, not wait_lock.
ArchWfiArms ==
  /\ At("txsleep") \/ At("rxsleep")
  /\ asleep' = TRUE /\ avrInts' = TRUE /\ txWait' = 1
  /\ Goto(IF avrPc[Level] = "txsleep" THEN "txtest" ELSE "rxtest")
  /\ UNCHANGED <<rxWait, udr, txc, rxFifo, arrived, conChar, prints, gotChar>>
\* wait_till_irq: arch_wfi turns interrupts on and sleeps in one go ...
ArchWfi ==
  /\ At("txsleep") \/ At("rxsleep")
  /\ asleep' = TRUE /\ avrInts' = TRUE
  /\ Goto(IF avrPc[Level] = "txsleep" THEN "txtest" ELSE "rxtest")
  /\ UNCHANGED <<txWait, rxWait, udr, txc, rxFifo, arrived, conChar, prints, gotChar>>
\* ... and the flag is tested after any interrupt.
WaitTillIrq ==
  \/ /\ At("txtest")
     /\ Goto(IF txWait = 1 THEN "txsleep" ELSE IF Level = 2 THEN "leave" ELSE "idle")
     /\ UNCHANGED <<avrInts, asleep, txWait, rxWait, udr, txc, rxFifo, arrived, conChar, prints, gotChar>>
  \/ /\ At("rxtest")
     /\ IF rxWait = 1 THEN Goto("rxsleep") /\ UNCHANGED gotChar ELSE Goto("idle") /\ gotChar' = conChar
     /\ UNCHANGED <<avrInts, asleep, txWait, rxWait, udr, txc, rxFifo, arrived, conChar, prints>>

-----------------------------------------------------------------------------
(* Interrupts: each wakes the core. *)

\* console_serial_write_irq_handler: wait_release_on_irq.
WriteIrqHandler ==
  /\ avrInts /\ txc
  /\ txc' = FALSE /\ txWait' = 0 /\ asleep' = FALSE
  /\ UNCHANGED <<avrPc, avrInts, rxWait, udr, rxFifo, arrived, conChar, prints, gotChar>>

\* Mutant of ReadIrqHandler: the character is left in the receiver.
ReadIrqNoRx ==
  /\ avrInts /\ rxFifo # <<>>
  /\ rxWait' = 0 /\ rxFifo' = Tail(rxFifo) /\ asleep' = FALSE
  /\ UNCHANGED <<avrPc, avrInts, txWait, udr, txc, arrived, conChar, prints, gotChar>>
\* uart_rx: the character in UDR.
UartRx == conChar' = Head(rxFifo) /\ rxFifo' = Tail(rxFifo)
\* console_serial_read_irq_handler: wait_release_on_irq, uart_rx.
ReadIrqHandler ==
  /\ avrInts /\ rxFifo # <<>>
  /\ rxWait' = 0 /\ UartRx /\ asleep' = FALSE
  /\ UNCHANGED <<avrPc, avrInts, txWait, udr, txc, arrived, prints, gotChar>>

\* The tick of schedclk: it changes nothing here, but wakes the core.
SchedclkIrq ==
  /\ avrInts /\ asleep /\ asleep' = FALSE
  /\ UNCHANGED <<avrPc, avrInts, txWait, rxWait, udr, txc, rxFifo, arrived, conChar, prints, gotChar>>

\* A handler that prints starts, with interrupts off until its own arch_wfi; it
\* prints one character and returns.
PrintingIrq ==
  /\ avrInts /\ avrPc[2] = "none" /\ prints < MaxPrints
  /\ prints' = prints + 1
  /\ avrPc' = [avrPc EXCEPT ![2] = "entry"] /\ avrInts' = FALSE /\ asleep' = FALSE
  /\ UNCHANGED <<txWait, rxWait, udr, txc, rxFifo, arrived, conChar, gotChar>>
PrintingIrqEnds ==
  /\ At("leave") /\ Level = 2
  /\ avrPc' = [avrPc EXCEPT ![2] = "none"] /\ avrInts' = TRUE
  /\ UNCHANGED <<asleep, txWait, rxWait, udr, txc, rxFifo, arrived, conChar, prints, gotChar>>

-----------------------------------------------------------------------------
(* The UART (external): TXC is set when both registers are empty; a          *)
(* character that finds the receiver full is lost.                           *)
Shift ==
  /\ udr > 0 /\ udr' = udr - 1
  /\ txc' = (txc \/ udr = 1)
  /\ UNCHANGED <<avrPc, avrInts, asleep, txWait, rxWait, rxFifo, arrived, conChar, prints, gotChar>>
ArriveChar ==
  /\ arrived < MaxChars
  /\ arrived' = arrived + 1
  /\ rxFifo' = IF Len(rxFifo) < 2 THEN Append(rxFifo, arrived') ELSE rxFifo
  /\ UNCHANGED <<avrPc, avrInts, asleep, txWait, rxWait, udr, txc, conChar, prints, gotChar>>

-----------------------------------------------------------------------------
AvrInit ==
  /\ avrPc = <<"idle", "none">> /\ avrInts = TRUE /\ asleep = FALSE
  /\ txWait = 0 /\ rxWait = 0 /\ udr = 0 /\ txc = FALSE /\ rxFifo = <<>>
  /\ arrived = 0 /\ conChar = 0 /\ prints = 0 /\ gotChar = 0

AvrRuns == UartTx \/ ArchWfi \/ WaitTillIrq \/ PrintingIrqEnds
AvrNext ==
  \/ AvrRuns \/ WriteLock \/ ReadLock
  \/ WriteIrqHandler \/ ReadIrqHandler \/ SchedclkIrq \/ PrintingIrq
  \/ Shift \/ ArriveChar

\* The core runs, the transmitter sends, interrupts that are asked for are
\* taken and the tick keeps coming; nobody has to type or to print.
AvrFairness ==
  /\ WF_avrVars(AvrRuns \/ (Level = 2 /\ WriteLock)) /\ WF_avrVars(Shift)
  /\ WF_avrVars(WriteIrqHandler) /\ WF_avrVars(ReadIrqHandler) /\ SF_avrVars(SchedclkIrq)

AvrSpec == AvrInit /\ [][AvrNext]_avrVars /\ AvrFairness

-----------------------------------------------------------------------------
\* console_serial_read: what a read returns is a character whose interrupt was
\* taken after the read began, never the one an earlier read returned.
ReadsFresh == [][gotChar' # gotChar \/ (avrPc[1] = "rxtest" /\ avrPc'[1] = "idle")
                  => gotChar' > gotChar /\ conChar = gotChar' /\ rxWait = 0]_avrVars

\* console_serial_write: a write returns, in the thread and in a handler, even
\* when its interrupt comes before the core has gone to sleep.
WriteReturns == \A l \in {1, 2} : avrPc[l] = "send" ~> avrPc[l] \in {"idle", "none"}
=============================================================================
