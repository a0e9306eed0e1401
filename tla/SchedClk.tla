------------------------------ MODULE SchedClk ------------------------------
(***************************************************************************)
(* The scheduler clock of one core: driver/schedclk/schedclk.c over one of *)
(* its drivers, with the delays of libc/time.c as its readers and the      *)
(* timer interrupt as its writer.  platform picks the driver:              *)
(*   "sifive"    counts in the mtime register of the CLINT, whose two      *)
(*               words the thread reads one after the other;               *)
(*   "ibex"      the same driver on a core without the A extension, where  *)
(*               lock_acquire is the weak spinlock_acquire: it clears mie  *)
(*               and never sets it again; arch_wfi is empty there;         *)
(*   "mega_avr"  counts in cntr, an uint64_t of eight bytes that is        *)
(*               neither volatile nor protected from the handler.          *)
(* count is that counter, seen as a high and a low half: two halves read   *)
(* or written one by one, in any order the compiler picks, show all that   *)
(* eight bytes can do.  Handlers run with interrupts off and so are one    *)
(* step, but for a callback that asks for the time: it needs tlock.        *)
(***************************************************************************)
EXTENDS Integers

CONSTANTS Platforms,   \* the builds to check
          W,           \* values of the low half
          U64,         \* values of the uint64_t a time is computed in
          UsPerSec,    \* microseconds of a second
          ClkHz,       \* tm->clk, the frequency of mtime
          MaxCount,    \* bound on the counter
          StartCount,  \* bound on the counter while no delay is running
          Delays,      \* arguments of udelay and mdelay, in microseconds
          Periods      \* periods handed to schedclk_link_callback

ASSUME SchedClkAssumption ==
  /\ Platforms \subseteq {"sifive", "ibex", "mega_avr"} /\ Platforms # {}
  /\ W \in Nat \ {0} /\ U64 \in Nat \ {0} /\ UsPerSec \in Nat /\ ClkHz \in Nat \ {0}
  /\ StartCount \in Nat /\ MaxCount \in Nat /\ StartCount <= MaxCount
  /\ Delays \subseteq Nat /\ Periods \subseteq Nat \ {0}

VARIABLES
  platform,   \* the build
  count,      \* mtime, or cntr
  tcmp,       \* mtimecmp: the interrupt is pending from there on
  irqEn,      \* the timer interrupt is enabled (mie.MTIE, or the timer's own bit)
  handler,    \* what the interrupt is linked to: "isr" or "panic"
  ticks,      \* counts per interrupt
  value,      \* tport->value, mega_avr only
  tmr_cb,     \* the callback: "NULL", "quiet", "asks" for the time, or half written
  exec,       \* the driver core's flag for schedclk
  dev,        \* tm or tport: "none", "raw" (allocated, never filled) or "ready"
  attached,   \* schedclk_attached, set and cleared together with port
  tlock,      \* TRUE while the thread holds tlock
  isr,        \* "none", or "ask" while a callback waits for the time
  th,         \* the thread: where it is, in which call, with which arguments
  rd,         \* the reading under way: its halves, the counter at its start and end
  last,       \* the last stamp: in microseconds, torn or not, and the period then
  fault       \* "none", or how the core stopped

vars == <<platform, count, tcmp, irqEn, handler, ticks, value, tmr_cb, exec, dev,
          attached, tlock, isr, th, rd, last, fault>>
timer == <<tcmp, irqEn, handler, ticks, value, tmr_cb>>
driver == <<exec, dev, attached>>

RiscV == platform # "mega_avr"
Hi(c) == c \div W
Lo(c) == c % W
Callbacks == {"quiet", "asks"}

(* plat_get_timer_ticks_msec: counts per millisecond, scaled down. *)
TicksPerMs == IF RiscV THEN 1 ELSE 3

(* plat_timer_set_period: the counts of an interrupt every p milliseconds. *)
Ticks(p) == IF RiscV THEN TicksPerMs * p ELSE TicksPerMs * p - 1

(* Mutant of ReadTimeRiscV: only the low word of mtime is used. *)
ReadTimeRiscVLow(c) == ((Lo(c) * UsPerSec) % U64) \div ClkHz

(* plat_read_time: the counter in microseconds.  The product stamp is an     *)
(* uint64_t and is cut before it is divided (on mega_avr it is a shift by 10 *)
(* and twice the period, scaled down).                                       *)
ReadTimeRiscV(c) == ((c * UsPerSec) % U64) \div ClkHz
ReadTimeAvr(c) == ((c * 4) % U64) \div (2 * (value + 1))
ReadTime(c) == IF RiscV THEN ReadTimeRiscV(c) ELSE ReadTimeAvr(c)

(* stamp of plat_read_time as it would be without a width, and the counts up *)
(* to which it fits: 107 days at the 2 MHz of ibex.                          *)
Product(c) == c * (IF RiscV THEN UsPerSec ELSE 4)
Uncut(c) == Product(c) < U64

Idle == [pc |-> "idle", op |-> "none", d |-> 0, p |-> 1, cb |-> "NULL",
         lim |-> 0, since |-> 0, torn |-> FALSE]

Unread == [hi |-> 0, lo |-> 0, from |-> 0, to |-> 0]

Init ==
  /\ platform \in Platforms
  /\ count = 0 /\ tcmp = 0 /\ irqEn = FALSE /\ handler = "panic"
  /\ ticks = 0 /\ value = 0 /\ tmr_cb = "NULL"
  /\ exec = FALSE /\ dev = "none" /\ attached = FALSE /\ tlock = FALSE
  /\ isr = "none" /\ th = Idle /\ rd = Unread
  /\ last = [val |-> 0, torn |-> FALSE, value |-> 0]
  /\ fault = "none"

(* The thread runs when no handler does. *)
Thread(pc) == th.pc = pc /\ isr = "none" /\ fault = "none"
Goto(pc) == th' = [th EXCEPT !.pc = pc]

-----------------------------------------------------------------------------
(* The hardware                                                            *)

(* How far the counter may run: a delay that has its start gets room to end. *)
(* Beyond it the counter stands still, and interrupts go on coming.          *)
Horizon == IF th.op = "loop" THEN MaxCount ELSE StartCount

(* mtime counts by itself. *)
Tick ==
  /\ RiscV /\ fault = "none" /\ count < Horizon
  /\ count' = count + 1
  /\ UNCHANGED <<platform, timer, driver, tlock, isr, th, rd, last, fault>>

(* The counter one interrupt later, as far as it runs. *)
After(c) == IF c + ticks <= Horizon THEN c + ticks ELSE c

(* The timer interrupt ends the arch_wfi of the thread. *)
Wake == IF th.pc = "wfi" THEN [th EXCEPT !.pc = "test"] ELSE th

(* The interrupt is taken; plat_timer_exit links it to the panic handler. *)
Interrupt ==
  /\ irqEn /\ isr = "none" /\ fault = "none"
  /\ th' = Wake
  /\ isr' = IF handler = "isr" /\ tmr_cb = "asks" THEN "ask" ELSE "none"
  /\ fault' = CASE handler = "panic" -> "panic"
                [] tmr_cb = "torn"   -> "wild"
                [] OTHER             -> "none"
  /\ UNCHANGED <<platform, handler, ticks, value, tmr_cb, driver, tlock, rd, last>>

(* Mutant of IsrRiscV: the handler leaves its interrupt off. *)
IsrRiscVOnce ==
  /\ RiscV /\ count >= tcmp
  /\ Interrupt
  /\ tcmp' = After(count)
  /\ irqEn' = FALSE
  /\ UNCHANGED count

(* exception_handler and plat_tmr_isr of the CLINT drivers: the next event  *)
(* is set from the time of the handler.                                     *)
IsrRiscV ==
  /\ RiscV /\ count >= tcmp
  /\ Interrupt
  /\ tcmp' = After(count)
  /\ UNCHANGED <<count, irqEn>>

(* interrupt_handler and plat_tmr_isr of mega_avr: the handler is what      *)
(* makes the counter count.                                                 *)
IsrAvr ==
  /\ ~RiscV
  /\ Interrupt
  /\ count' = After(count)
  /\ UNCHANGED <<tcmp, irqEn>>

(* get_timestamp in the callback, by syslog for instance: it spins while    *)
(* the thread it interrupted holds tlock.                                   *)
IsrAsk ==
  /\ isr = "ask" /\ ~tlock
  /\ isr' = "none"
  /\ irqEn' = (irqEn /\ platform # "ibex")
  /\ UNCHANGED <<platform, count, tcmp, handler, ticks, value, tmr_cb, driver, tlock,
                 th, rd, last, fault>>

-----------------------------------------------------------------------------
(* schedclk.c and time.c on the thread                                     *)

(* get_timestamp, or syslog around it. *)
Stamp ==
  /\ Thread("idle")
  /\ th' = [Idle EXCEPT !.pc = "test", !.op = "stamp"]
  /\ UNCHANGED <<platform, count, timer, driver, tlock, isr, rd, last, fault>>

(* udelay and mdelay; 0 counts as the smallest delay. *)
Delay ==
  /\ Thread("idle") /\ count <= StartCount
  /\ \E d \in Delays :
       th' = [Idle EXCEPT !.pc = "test", !.op = "first",
                          !.d = IF d = 0 THEN 1 ELSE d, !.since = count]
  /\ UNCHANGED <<platform, count, timer, driver, tlock, isr, rd, last, fault>>

(* schedclk_link_callback; without a device it only reports an error. *)
LinkCallback ==
  /\ Thread("idle") /\ attached
  /\ \E p \in Periods, cb \in Callbacks :
       th' = [Idle EXCEPT !.pc = "lock", !.op = "link", !.p = p, !.cb = cb]
  /\ UNCHANGED <<platform, count, timer, driver, tlock, isr, rd, last, fault>>

(* Mutant of Answered: the limit is not counted from the start. *)
AnsweredFromZero(t, val) ==
  CASE t.op = "first" -> [t EXCEPT !.pc = "wfi", !.op = "loop", !.lim = t.d]
    [] t.op = "loop" /\ t.lim >= val -> [t EXCEPT !.pc = "wfi"]
    [] OTHER -> Idle

(* The thread once get_timestamp has answered val: the loops of udelay and  *)
(* mdelay go on, by way of arch_wfi, until the limit has passed.            *)
Answered(t, val) ==
  CASE t.op = "first" -> [t EXCEPT !.pc = "wfi", !.op = "loop", !.lim = t.d + val]
    [] t.op = "loop" /\ t.lim >= val -> [t EXCEPT !.pc = "wfi"]
    [] OTHER -> Idle

(* The test of schedclk_attached; without a device the time is 0. *)
Test ==
  /\ Thread("test")
  /\ th' = IF attached THEN [th EXCEPT !.pc = "lock"] ELSE Answered(th, 0)
  /\ UNCHANGED <<platform, count, timer, driver, tlock, isr, rd, last, fault>>

(* lock_acquire(lock): only the callback could contend, and it is not       *)
(* running.  The weak lock of ibex leaves mie cleared.                      *)
Lock ==
  /\ Thread("lock")
  /\ tlock' = TRUE
  /\ irqEn' = (irqEn /\ platform # "ibex")
  /\ Goto(IF th.op = "link" THEN "period" ELSE "read")
  /\ UNCHANGED <<platform, count, tcmp, handler, ticks, value, tmr_cb, driver, isr,
                 rd, last, fault>>

(* The first access of a reading: temp of clint_read_time, or either half   *)
(* of cntr.                                                                 *)
ReadFirst ==
  /\ Thread("read")
  /\ \/ /\ rd' = [Unread EXCEPT !.hi = Hi(count), !.from = count]
        /\ Goto(IF RiscV THEN "low" ELSE "lower")
     \/ /\ ~RiscV
        /\ rd' = [Unread EXCEPT !.lo = Lo(count), !.from = count]
        /\ Goto("upper")
  /\ UNCHANGED <<platform, count, timer, driver, tlock, isr, last, fault>>

(* tl of clint_read_time. *)
ReadLow ==
  /\ Thread("low")
  /\ rd' = [rd EXCEPT !.lo = Lo(count)]
  /\ Goto("high")
  /\ UNCHANGED <<platform, count, timer, driver, tlock, isr, last, fault>>

(* The two halves of a reading lie on both sides of a carry. *)
Torn(r) == ~RiscV /\ Hi(r.from) # Hi(r.to)

(* A reading ends with the halves r. *)
Done(r) ==
  /\ rd' = [r EXCEPT !.to = count]
  /\ th' = [th EXCEPT !.pc = "unlock", !.torn = @ \/ Torn(rd')]
  /\ last' = [val |-> ReadTime(r.hi * W + r.lo), torn |-> Torn(rd'), value |-> value]

(* Mutant of ReadHigh: the high word is read once. *)
ReadHighOnce ==
  /\ Thread("high")
  /\ Done(rd)
  /\ UNCHANGED <<platform, count, timer, driver, tlock, isr, fault>>

(* th of clint_read_time, and its while: once more if the high word moved. *)
ReadHigh ==
  /\ Thread("high")
  /\ IF Hi(count) = rd.hi
     THEN Done(rd)
     ELSE Goto("again") /\ UNCHANGED <<rd, last>>
  /\ UNCHANGED <<platform, count, timer, driver, tlock, isr, fault>>

(* The loop reads temp again. *)
ReadAgain ==
  /\ Thread("again")
  /\ rd' = [rd EXCEPT !.hi = Hi(count)]
  /\ Goto("low")
  /\ UNCHANGED <<platform, count, timer, driver, tlock, isr, last, fault>>

(* The other half of cntr. *)
ReadRest ==
  /\ \/ Thread("lower") /\ Done([rd EXCEPT !.lo = Lo(count)])
     \/ Thread("upper") /\ Done([rd EXCEPT !.hi = Hi(count)])
  /\ UNCHANGED <<platform, count, timer, driver, tlock, isr, fault>>

(* lock_release(lock), and the return to the caller. *)
Unlock ==
  /\ Thread("unlock")
  /\ tlock' = FALSE
  /\ th' = Answered(th, last.val)
  /\ rd' = Unread
  /\ UNCHANGED <<platform, count, timer, driver, isr, last, fault>>

(* arch_wfi does nothing on ibex; elsewhere Isr ends it. *)
NoWfi ==
  /\ Thread("wfi") /\ platform = "ibex"
  /\ Goto("test")
  /\ UNCHANGED <<platform, count, timer, driver, tlock, isr, rd, last, fault>>

-----------------------------------------------------------------------------
(* The drivers                                                             *)

(* schedclk_attach_device, which never gets a NULL port here. *)
Attach == attached' = TRUE

(* plat_timer_set_period of the CLINT drivers, with the timer interrupt off *)
(* meanwhile.                                                               *)
SetPeriodRiscV ==
  /\ Thread("period") /\ RiscV
  /\ ticks' = Ticks(th.p) /\ tcmp' = count + Ticks(th.p) /\ irqEn' = TRUE
  /\ Goto("callback")
  /\ UNCHANGED <<platform, count, handler, value, tmr_cb, driver, tlock, isr, rd, last, fault>>

(* plat_timer_set_period of mega_avr: the handler may run when half of      *)
(* ticks is new and half is old.                                            *)
SetPeriodAvr ==
  /\ Thread("period") /\ ~RiscV
  /\ ticks' \in {Hi(ticks) * W + Lo(Ticks(th.p)), Hi(Ticks(th.p)) * W + Lo(ticks)}
  /\ Goto("period2")
  /\ UNCHANGED <<platform, count, tcmp, irqEn, handler, value, tmr_cb, driver, tlock, isr,
                 rd, last, fault>>

(* The rest of it with its timer_setup and, at the end of plat_timer_setup, *)
(* schedclk_attach_device.                                                  *)
SetPeriodAvrRest ==
  /\ Thread("period2")
  /\ ticks' = Ticks(th.p) /\ value' = Ticks(th.p)
  /\ irqEn' = TRUE /\ handler' = "isr"
  /\ IF th.op = "link" THEN Goto("callback") /\ UNCHANGED attached ELSE th' = Idle /\ Attach
  /\ UNCHANGED <<platform, count, tcmp, tmr_cb, exec, dev, tlock, isr, rd, last, fault>>

(* Mutant of RegCbRiscV: arch_ei_mtime is forgotten. *)
RegCbRiscVOff ==
  /\ Thread("callback") /\ RiscV
  /\ tmr_cb' = th.cb /\ irqEn' = FALSE
  /\ Goto("unlock")
  /\ UNCHANGED <<platform, count, tcmp, handler, ticks, value, driver, tlock, isr, rd,
                 last, fault>>

(* plat_timer_reg_cb of the CLINT drivers. *)
RegCbRiscV ==
  /\ Thread("callback") /\ RiscV
  /\ tmr_cb' = th.cb /\ irqEn' = TRUE
  /\ Goto("unlock")
  /\ UNCHANGED <<platform, count, tcmp, handler, ticks, value, driver, tlock, isr, rd,
                 last, fault>>

(* plat_timer_reg_cb of mega_avr stores the pointer in two bytes; between   *)
(* them it is half old and half new.                                        *)
RegCbAvr ==
  /\ ~RiscV
  /\ \/ /\ Thread("callback")
        /\ tmr_cb' = IF tmr_cb = th.cb THEN th.cb ELSE "torn"
        /\ Goto("callback2")
     \/ /\ Thread("callback2")
        /\ tmr_cb' = th.cb
        /\ Goto("unlock")
  /\ UNCHANGED <<platform, count, tcmp, irqEn, handler, ticks, value, driver, tlock, isr,
                 rd, last, fault>>

(* driver_setup and driver_exit run a driver's functions once, and keep     *)
(* exec set when the setup failed.                                          *)
DriverSetup == Thread("idle") /\ ~exec /\ exec' = TRUE
DriverExit == Thread("idle") /\ exec /\ exec' = FALSE

(* plat_timer_setup of the CLINT drivers: without memory it returns with    *)
(* the timer interrupt off; else that is on from plat_timer_set_period(1).  *)
SetupRiscV ==
  /\ RiscV /\ DriverSetup
  /\ \/ irqEn' = FALSE /\ UNCHANGED <<dev, handler, attached, ticks, tcmp>>
     \/ /\ dev' = "ready" /\ handler' = "isr" /\ Attach
        /\ ticks' = Ticks(1) /\ tcmp' = count + Ticks(1) /\ irqEn' = TRUE
  /\ UNCHANGED <<platform, count, value, tmr_cb, tlock, isr, th, rd, last, fault>>

(* plat_timer_setup of mega_avr: without memory for tport, or for the port  *)
(* behind it, it returns.  timer_setup turns the interrupt on with the old  *)
(* ticks; plat_timer_set_period(1) and the attachment follow.               *)
SetupAvr ==
  /\ ~RiscV /\ DriverSetup
  /\ \/ dev' \in {"none", "raw"} /\ UNCHANGED <<handler, irqEn, th>>
     \/ /\ dev' = "ready" /\ handler' = "isr" /\ irqEn' = TRUE
        /\ th' = [Idle EXCEPT !.pc = "period", !.op = "setup"]
  /\ UNCHANGED <<platform, count, tcmp, ticks, value, tmr_cb, attached, tlock, isr, rd,
                 last, fault>>

(* What both plat_timer_exit leave behind; they go through tm, or tport,    *)
(* whether or not the setup got that far.                                   *)
Stopped ==
  /\ handler' = "panic" /\ ticks' = 0 /\ tmr_cb' = "NULL" /\ attached' = FALSE
  /\ fault' = IF dev = "ready" THEN "none" ELSE "null"
  /\ UNCHANGED <<platform, count, tcmp, value, tlock, isr, th, rd, last>>

(* Mutant of ExitRiscV: the timer interrupt stays on. *)
ExitRiscVTicking ==
  /\ RiscV /\ DriverExit
  /\ Stopped
  /\ UNCHANGED <<irqEn, dev>>

(* plat_timer_exit of the CLINT drivers, arch_di_mtime first. *)
ExitRiscV ==
  /\ RiscV /\ DriverExit
  /\ irqEn' = FALSE
  /\ Stopped
  /\ UNCHANGED dev

(* plat_timer_exit of mega_avr, timer_shutdown first. *)
ExitAvr ==
  /\ ~RiscV /\ DriverExit
  /\ irqEn' = FALSE
  /\ Stopped
  /\ dev' = "none"

Calls == Stamp \/ Delay \/ LinkCallback \/ SetupRiscV \/ SetupAvr \/ ExitRiscV \/ ExitAvr
Steps ==
  \/ Test \/ Lock \/ ReadFirst \/ ReadLow \/ ReadHigh \/ ReadAgain \/ ReadRest \/ Unlock
  \/ NoWfi \/ SetPeriodRiscV \/ SetPeriodAvr \/ SetPeriodAvrRest \/ RegCbRiscV \/ RegCbAvr
Handlers == IsrRiscV \/ IsrAvr

Next == Tick \/ Handlers \/ IsrAsk \/ Calls \/ Steps

Spec == Init /\ [][Next]_vars

(* Time passes, a pending interrupt is taken, and a call that was made      *)
(* keeps running; nobody has to make a call.                                *)
FairSpec == Spec /\ WF_vars(Tick) /\ WF_vars(Handlers) /\ WF_vars(IsrAsk) /\ WF_vars(Steps)
-----------------------------------------------------------------------------
(* Correctness                                                             *)

(* clint_read_time and plat_read_ticks: what a reading puts together is a   *)
(* value the counter had while it was read.  The CLINT's loop guarantees    *)
(* it although the two words are read apart; the AVR's reading fails it     *)
(* only when the handler carried into the high half in between.             *)
ReadInWindow ==
  (th.pc = "unlock" /\ th.op # "link" /\ ~Torn(rd)) => rd.hi * W + rd.lo \in rd.from..rd.to

(* get_timestamp never goes back until the product of plat_read_time is cut: *)
(* a stamp is no smaller than the one before it, on the AVR as long as       *)
(* neither was torn and the period is the same (plat_read_time scales the    *)
(* whole count by the period of the moment).  Past the cut it starts again   *)
(* from 0, although '@return time in microseconds' (schedclk_ibex.c:145).    *)
TimeMonotone ==
  [][(~last.torn /\ ~last'.torn /\ last.value = last'.value /\ Uncut(count))
       => last'.val >= last.val]_vars

(* udelay and mdelay never return early: when the loop ends, the clock has  *)
(* passed the delay asked for, counted from the call, unless a reading was  *)
(* torn or the product was cut meanwhile.                                   *)
DelayNotEarly ==
  [][(th.op = "loop" /\ th'.pc = "idle" /\ Uncut(count)) =>
       th.torn \/ ReadTime(count) >= ReadTime(th.since) + th.d]_vars

(* Where it can go wrong for good: the timer never reaches the panic        *)
(* handler that plat_timer_exit links; a half written callback is called    *)
(* only on the AVR; and only a driver_exit after a failed setup goes        *)
(* through a device that is not there.                                      *)
FaultsKnown ==
  /\ fault # "panic"
  /\ fault = "wild" => platform = "mega_avr" /\ th.pc = "callback2"
  /\ fault = "null" => ~attached

(* An attached clock keeps its interrupt: once plat_timer_set_period and    *)
(* plat_timer_reg_cb are through, no reader, callback or later call turns   *)
(* it off, or it would never call the scheduler again.  Not so on ibex,     *)
(* where the next lock_acquire does.                                        *)
KeepsTicking == (attached /\ platform # "ibex") => irqEn /\ handler = "isr"

(* The reading of the clock, its faults and its interrupt.                  *)
ClockSound == ReadInWindow /\ FaultsKnown /\ KeepsTicking

(* What get_timestamp, udelay and mdelay promise of time.                   *)
TimeKept == TimeMonotone /\ DelayNotEarly

(* The product of the reading just made was cut. *)
ReadPastCut == th.pc = "unlock" /\ Product(rd.hi * W + rd.lo) >= U64

(* A delay on an attached clock returns: arch_wfi does not sleep through    *)
(* the end of it and tlock is not in the way, unless the callback itself    *)
(* asks for the time, or one of the delay's readings was past the cut of    *)
(* the product, where the time is small again and the limit may be larger   *)
(* than any time to come.                                                   *)
DelayReturns ==
  (th.op \in {"first", "loop"} /\ attached /\ tmr_cb # "asks")
    ~> (th.pc = "idle" \/ ReadPastCut)
=============================================================================
