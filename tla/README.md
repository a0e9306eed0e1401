# Cyancore: TLA+ specifications, model checks and proofs

Cyancore is an embedded framework in C for RISC-V (SiFive FE310, Ibex), AVR
(mega_avr) and ARM Cortex-M (RP2040). It consists of architecture ports, a
driver core with drivers, platform code, libraries (libc, liblocks, libposix,
libnmath, libsyslog, libresource), and the Helios kernel service. This directory
holds TLA+ modules for the parts that carry its logic, the TLC configurations
that check them on small instances, and proofs that TLAPS checks for instances
of any size. `PROJECT.json` is the machine-readable index: components, runs,
the source lines behind each definition, hazards, findings and theorems.

File paths below are relative to the repository's `src/` directory.

## 1. Inventory of the system

| Part | State | Operations | Used by / uses | What is hard |
|---|---|---|---|---|
| liblocks, spin locks of the ports | a ticket and a flag per core, or a key | `lock_acquire`, `lock_release` | every driver and the heap | interleaving of cores, ticket wrap, fairness; interrupts inside the AVR and the RV32I lock |
| heap, `lib/libc/malloc_lite.c` | one list of chunks, `mlock` | `malloc`, `calloc`, `realloc`, `free` | all drivers, Helios | fragmentation, exhaustion, loops with interrupts off |
| driver core, `driver/driver.c` | `exec` per device, a lock per device | `driver_setup(_all)`, `driver_exit(_all)` | boot, projects, the console drivers (nested calls) | test and set of `exec` in two critical sections, failing setups, start and exit order |
| console, `driver/console` | the attached device, the receive ring, the log buffer | attach, release, `putc`, `getc`, the UART's handlers | printf, syslog | handler against reader, lost wake-ups, overflow, calls through a released device |
| interrupts: `driver/interrupt`, the ports' trap code | handler tables, context frame, enables | link, unlink, claim, complete, nested traps, critical sections, visor calls | all drivers | nesting, restore of the interrupt state, level interrupts |
| boot: engine, bootstrap, platforms; watchdog | order of setups, reset cause, `WDTCSR` | `engine`, `bootstrap`, guard, hush, bark, bite | everything | what a step needs and has not got yet, a dog that survives its own reset |
| sysclk, `driver/sysclk`; PRCI, PLL | list of callbacks, clock source, registers | register, deregister, `sysclk_set_clk` | the consoles' baud rate | nodes from a heap that is not cleared, handles that outlive their node, a core without a clock |
| schedclk, `driver/schedclk`, `lib/libc/time.c` | counter, period, callback, `tlock` | `get_timestamp`, `get_timeticks`, `schedclk_link_callback`, `udelay`, `mdelay`, the timer's handler | syslog, projects, Helios | 64-bit counters read in pieces, a lock shared with handlers, sleeping through the end |
| GPIO, onboard LED, SPI, UART, ADC, timers, PMU | pins and registers | alloc, free, mode, set, setup, shutdown, read | drivers, projects | partial setups, order of register writes, bits left by the call before |
| Helios, `visor/services/kernel/helios` | ready and wait rings of TCBs | the task API, `helios_run`, semaphores, mutexes | demos | pointer rings under any sequence of calls, waits with timeouts |
| libposix | queue and semaphore descriptors, two mutexes | timed send, receive, wait, threads, time arithmetic | an external kernel | retry loops, timeouts against late answers, borrow and width in times |
| libc, libnmath | none | strings, conversion, printf, scanf, arithmetic | everything | boundaries |

What makes each part correct, in one line each: a lock excludes and starves
nobody it promised not to; the heap's list tiles the heap and blocks have one
owner; a device's `exec` says what was done to the device, and the console is
never lost or doubled in a hand-over; bytes leave the ring in order; a trap is
invisible to the code it interrupts, and a critical section ends with the
interrupts it began with; a device that asks is served; the boot uses nothing
that is not there, and a hung core is bitten; a clock change reaches exactly the
running drivers and never stops the core; a time stamp is a time that was, a
delay is long enough and ends; a pin has one owner; the kernel's rings hold
exactly their tasks, in order, and `helios_run` starts the right one; a timed
call ends, and says what it did.

`PROJECT.json` lists the hazards found while reading, each at its line, with the
properties that watch it.

## 2. Modules

| Module | Models | State and actions |
|---|---|---|
| `LockSpec` | what `lock.h` promises | `state[p]`: out, want or in; `Request`, `Acquire`, `Release` |
| `SpinLock` | `arch/riscv/32/a/spinlock.c` | `key`, `hartPc`; one action per access (`Test`, `Swap`, `SpinRelease`) |
| `AvrSpinLock` | `arch/avr/8/.../spinlock.S` | key bytes, the Z register of each context |
| `BakeryLock` | `lib/liblocks/bakerylock.c` | the two arrays, locals `idx`, `n_max`; one action per access to a shared cell |
| `Heap` | `lib/libc/malloc_lite.c` | chunks as records, one step per loop turn under `mlock` |
| `DriverCore` | `driver/driver.c` with the console drivers' callbacks | `exec`, a stack of nested calls per core, the scan of the `_all` calls, the attached console |
| `ConsoleRing` | `con_serial_sifive/console_serial.c`, wait functions of `interrupt.c` | ring, `occ` as load and store, the handler, `con_read_wait` |
| `AvrConsole` | `con_serial_mega_avr/console_serial.c`, wait functions, the AVR's sleep | `con_char`, the two waits, the UART's registers; the thread and a printing handler at their own places |
| `Stdcon` | `stdcon.c`, `stdlog_membuf.c`, setup and exit of the three serial drivers | `con`, `console_attached`, which memory is live and which methods are set, one driver and one user at any step; the log's pointers |
| `Traps` | trap code and critical sections of riscv, avr and arm-m, visor calls | a stack of activations with their saved interrupt states, `local_frame`, `mepc`, the enables; one action per entry, section, answer and half of `EPILOGUE` |
| `Plic` | `plic.c`, `interrupt_controller.c`, the UART's link and shutdown | lines, latches, enables, priorities, the claim; the handler in its three steps, setup and exit with refused memory |
| `Boot` | engine, bootstrap, `platform_early_setup` and `platform_setup` of sifive, ibex and mega_avr | the boot as a sequence of steps, what each needs and provides, the reset syndrome |
| `Watchdog` | `watchdog.c`, `platform_wdt.c`, `wdt.c`, on top of `Boot` | `WDTCSR`, the lock, the callback as two bytes; guard and hush write by write, bark, bite, reset |
| `SysClk` | `sysclk.c`, `config_clk`, `sysclk_reset` and `sysclk_disable` of `sysclk_prci.c` as changes of the clock, both sifive console drivers | callback nodes in heap blocks that keep their contents; the clock, what `fetch_clk` answers and the UART's divisor |
| `Prci` | `sysclk_prci.c`, `pll.c`, `hfosc.c` | the PRCI registers and the PLL's lock bit, `clk_type`, the driver's port (NULL, valid, freed, or somebody else's); one register write per step, the search for the PLL's factors, the wait for the lock, set-ups that fail |
| `SchedClk` | `schedclk.c`, the sifive, ibex and mega_avr drivers, `clint.c`, `timer.c`, `time.c` | counter in two halves, timer interrupt, callback, `tlock`, the thread's calls |
| `Pins` | both `gpio.c`, `onboardled.c`, `spi.c`, `uart.c` of sifive | `port_status`, owners, modes and levels of the pins, the handles of each user, the `exec` flag of the LED driver |
| `Hal` | `uart.c`, `adc.c`, `timer.c`, `pwm.c` of mega_avr, `pmu.c` of the FE310 | the registers a call writes one by one, interrupts between any two writes, gated clocks |
| `Helios` | `helios_sched.c`, `helios_tasks.c` | ready and wait rings as pointers, task states; the API before `helios_run`, and `helios_run`; `want`, what the last call for each task asked for |
| `HeliosSync` | `helios_sem.c`, `helios_mutex.c` (dynamic build), `helios_task_wait`, yield, pause of any task, pause and resume of all | the wait list, the current task, the semaphore and the mutex from creation to deletion, the mutex's owner (whatever the memory held after a create) and what each task was told; `halt` says why no call returns any more |
| `Posix` | `posix_semaphore.c`, `posix_mqueue.c`, `posix_pthread.c` over an external kernel | the calls of two threads with their ticks, the queue's and the threads' mutex with refusals, `mq_close` in its three steps (lock, release, destroy), what the kernel holds |
| `Timespec` | `posix_utils.c` | a deadline built and moved by the utilities, and the ticks asked for it |
| `Strings` | `string.c` | a memory, the pointers and the count of the loop; a call, then one loop turn per step; the bytes a turn touches |
| `Libc` | `strton.c`, `printf.c`, `scanf.c`, `ctype.c`, `clog2` and `gcd` | operators; a job per input, compared with reference definitions |
| `*Proofs` | | the theorems about the modules they extend, one proof module per group of components (section 4) |
| `FoldFacts` | | lemmas about numbers, sequences and folds that several proof modules use |
| `MC*` | | instances for TLC |

How the modules fit together: `SpinLock` is shown to implement `LockSpec`
(instance with a refinement mapping, checked and proved). `Heap`, `DriverCore`
and `SchedClk` take a critical section under `lock_acquire` as one step of its
holder, which is what `LockSpec` grants. `Watchdog` extends `Boot`: a bite starts
a boot, and the boot decides what becomes of the dog. `DriverCore` embeds attach
and release of the console because the console drivers call the driver core from
their own setup and exit; `Stdcon` takes the order of setups and exits that
`DriverCore` allows and lets a user call at every step of them. `SysClk` and
`Stdcon` take from `Heap` that a freed block keeps its contents and comes back.
`ConsoleRing`, `AvrConsole` and `SchedClk` take from `Traps` that an enabled
interrupt is taken between two steps of the thread.

## 3. Runs

Components that share no state are checked in one run: the MC module extends
them all, a variable `which` is chosen in the initial state and never changes,
and a behaviour only takes steps of the component it names. The fairness of each
component is that of its own specification, restricted to its `which`. The state
spaces add up, they do not multiply.

| Run | Instance and why it is enough | Shows |
|---|---|---|
| `locks` | bakery: 3 cores (overtaking needs three), tickets modulo 4 (they wrap); spin lock: 4 harts | `MutualExclusion`, `FirstComeFirstServed`, `NoStarvation` while fewer than `TicketMod` tickets are issued without the lock being idle (255 acquisitions with `uint8_t`; beyond, exclusion fails); `NoOrphanKey`, `SomeoneEnters`, the refinement `ImplementsLock` |
| `libs` | heap of 11 units, header 1, requests 1, 2 and 4, two callers: splits, exact fits, remainders smaller than a header, merging on both sides and exhaustion; times of 6 ns a second and 3 a tick, before and after 1970; memory of 4 bytes with three values, every block and string in it, all overlaps, addresses modulo 8; numbers of both signs and all digit counts | `HeapSafe`, `FaultsOnlyWhenFull`, `LockGivenBack`; `TimeExact`; `StringsSound` (`StringsExact`, `StringsInside`); `LibcExact` |
| `driver_lifecycle` | one core, four devices, both consoles may fail or be replaced | `ConsoleSound`, `LifecycleKept`, `CallsReturn` |
| `driver_cores` | two cores, two devices, one may fail | `ExecExact` up to the race of the two critical sections |
| `interrupts` | traps three deep with sections two deep; two devices at the PLIC; the three platforms, three watchdog gears; a ring of 3 with `occ` modulo 5 and 9 bytes (overflow and wrap); three typed characters and two prints on AVR; a log of 3 cells | `CriticalKept`, `TrapsTransparent`, `InterruptsComeBack`; `PlicSafe`, `PlicServes`; `StartupSafe`, `HungCoreBitten`; `ReadsSound`, `OccExact`, `ReadReturns`; `ReadsFresh`, `WriteReturns`; `StdconSafe` |
| `kernel` | Helios: three tasks, three priorities; three tasks on semaphore and mutex, values up to 2, lock depth 2, waits of 0 and 1 ticks; two POSIX threads, waits of 0 and 2 ticks, four calls | `ListsSound`, `SyncExact`, `PosixSafe`, `TimedReturns` |
| `devices` | both chips with a pin beyond the width of `port_status`; every order of the HAL's calls; two heap blocks for two clock users, so that each freed block comes back, and three frequencies (asked for, left by a reset, left by a disable); PLL clocks with and without divider | `PinsSafe`, `HalSafe`, `CallbacksSound`, `ClockSafe` |
| `clock` | halves of 2 values, counter up to 15, product cut at 56 (count 14), so that the cut is passed: several carries within a reading and within a delay; all three builds | `ClockSound`, `TimeKept`, `DelayReturns` |

The other runs are violations. Each checks one property that states what a
header, a comment or a message of the repository says, and TLC shows a behaviour
of the code that breaks it; `PROJECT.json` quotes the line.

| Run | Property | What the code does instead |
|---|---|---|
| `avr_spinlock` | `HeldByOne` | the spin loop advances Z past the key (2 contexts) |
| `driver_exit_order` | `ExitOrderKept` | `eorder` is never read (two devices whose exit orders differ from their start orders) |
| `helios_lookup` | `InstanceFound` | the lookup stops one TCB short |
| `posix_timeout` | `SuccessLocked` | the last tick of a timed wait returns success without the semaphore |

The properties of the passing runs demand no defect: where the code does the
opposite of what a header or a comment says, they leave the case out, and a
violation run or the list in section 5 states it. Limits to keep in mind when
reading them:

* `NoStarvation` excuses cores that are overtaken for ever by cores that keep
  the lock from ever being idle, once the tickets wrap.
* `ExecExact` counts calls: that a failed setup leaves `exec` set is what the
  code does and not a violation; the race of test and claim is excused (`raced`).
* `PlicServes` is excused by any other device of at least the same priority that
  asks again and again, not only by one the claim register would prefer.
* `TrapsTransparent` says nothing of the answer of a visor call on arm-m, where
  there is none.
* `ReadReturns` excuses the lost wake-up itself (`missed`).
* `BaudFollows` excuses the time from a `sysclk_reset` or `sysclk_disable`,
  which run no callbacks, to the next computation of the divisor, and `Contained`
  the walk of an empty callback list through NULL while no console driver runs.
* `ClockSafe` speaks of the frequency once the PLL has locked, and not after a
  second divided PLL clock or after a disable and a new set-up under a
  `clk_type` of external or pll.
* `PinsSafe` tracks owners of pins below 8 only, the width of `port_status`;
  every LED and UART pin of the FE310 boards is beyond, so for
  those it says only that the alternate functions are the UART's.
* `KeepsTicking` leaves out ibex, whose lock turns the interrupt off; readings
  of mega_avr that were torn by its handler are left out of `ReadInWindow` and
  `TimeKept`, and readings past the cut of the product of `TimeKept` and
  `DelayReturns`.
* `SyncExact` holds until a task unlocks a mutex it never locked (`stray`) and,
  for the wait list, as long as calls return (`halt`).
* `PosixSafe` says nothing of what a timed call answers when its time is over;
  exclusion in `g_mq_mutex` holds until it is initialised or destroyed while held
  (`redone`), and the owner of `g_pthread_mutex` until a thread exits.

Several properties are conjunctions of named parts: `HeapSafe` of `TypeOK`,
`Tiled`, `ExclusiveBlocks`, `Coalesced`; `ConsoleSound` of `OneConsole` and
`ConsoleAttached`; `LifecycleKept` of `NeverSilent` and `ExitAllStopsAll`;
`ListsSound` of `ReadySorted`, `WaitListExact`, `StartsOne`, `StartsHighest`;
`CallbacksSound` of `ListExact`, `BaudFollows`, `Contained`; `ClockSound` of
`ReadInWindow`, `FaultsKnown`, `KeepsTicking`; `TimeKept` of `TimeMonotone` and
`DelayNotEarly`; `StartupSafe` of `BootOrdered` and `DogSafe`. Each part has a
mutant of the code's model that breaks it.

Bounds are named constants in the guards: `MaxLive` (blocks held), `MaxBytes`
and `MaxChars` (bytes received), `MaxPrints`, `MaxDepth`, `MaxNest` and `MaxOps`
(traps, sections and calls of a handler), `MaxCalls` and `MaxUnits` (POSIX),
`MaxSetups` (HAL), `MaxNow` (time), `MaxCount` and `StartCount` (range of the
scheduler clock's counter: outside a delay it stops at `StartCount`, so that a
delay that has begun has room to end; at the bound the counter stands still and
interrupts go on). Deadlock is not checked where the program really may stop: in
`clock` a fault ends the behaviour, in `kernel` `helios_run` ends in the panic
handler and a POSIX thread may wait for a mutex whose holder has exited. In
`interrupts` a boot may end in a panic and a console call in a fault; those ends
are an action of their own (`Ended`), everything else is checked for deadlock.

### Fairness

* `BakeryLock`, `SpinLock`: weak fairness of each core's steps inside acquire
  and, for the holder, of its release. The cores run in parallel; nobody is
  obliged to ask for the lock.
* `Heap`, `DriverCore`: weak fairness of the steps of a call under way. Which
  caller gets `mlock` next is left open, as the spin lock leaves it.
* `ConsoleRing`, `AvrConsole`: the reader and the writer run on when they can,
  the hart takes a pending interrupt, the transmitter sends, the tick comes.
  Nobody has to type.
* `Traps`, `Plic`: handlers end, sections end, and an interrupt that may be
  taken again and again is taken (strong fairness: the core alternates between
  enabled and disabled, and the hardware keeps the request). For `PlicServes` a
  device of at least the same priority that asks for ever may win for ever.
* `Watchdog`: the hardware's clock never stops and the boot goes on. Nothing is
  asked of the thread: it may hang anywhere, which is what the dog is for.
* `Posix`: a thread in a call goes on; a call into the kernel returns.
* `SchedClk`: time passes, an enabled and pending timer interrupt is taken, a
  call that was made keeps running.

## 4. Proofs

All proofs are for every value of the constants that meets the named
assumptions of the module. Each safety property that a passing run checks has a
theorem, but for `LibcExact` (see "Only model-checked"). The properties are not
inductive; for each module there is an invariant that is, made of named parts,
and the proof that a step keeps it has one lemma per action or per part.

* `LockProofs`, bakery lock. `BakeryTypeCorrect` holds for any number of cores and any
  ticket width. `BakeryMutualExclusion` and `BakeryFirstComeFirstServed` follow
  from an inductive invariant `IInv`. Exclusion alone is not inductive: it needs
  to know what a core that scans the others has already established about those
  behind its index. `IInv` says, per pair of cores, that a core past another's
  ticket test comes before it in the order of (ticket, index), or that the other
  one will see its ticket when it finds the maximum, and that tickets are
  bounded by `burst` while that is below `TicketMod` (lemma `NoWrap`), which is
  where the condition of the theorem comes from.
* `LockProofs`, spin lock. `SpinInv` (the key is 1 exactly while one core is inside)
  gives `SpinExclusive` and `SpinNoOrphanKey`, and with it every step of the
  lock is a step or a stutter of `LockSpec`: `SpinImplementsLock`.
* `InterruptsProofs`, consoles. For the ring, `IInv` relates the indices to the numbers of
  bytes put and taken, bounds `occ` by the bytes held in every state of the
  reader, and says where each unread byte lies: `RingTypeCorrect`,
  `RingReadsSound` and `RingOccExact` for every ring length, width of `occ` and FIFO depth. For the console device, `StdInv` says
  which memory is live and which methods are set at each step of a driver
  (`DrvAt`) and what a call half way through `stdcon.c` has established
  (`UsrAt`): `ConsoleDeviceSafe`, for every size of the log. For mega_avr,
  `AvrInv` orders the characters in the FIFO against the one the reader waits
  for: `AvrReadsFresh`.
* `InterruptsProofs`, interrupts and boot. `PlicCorrect` for every set of devices (`PlicInv`: an
  enabled line has a handler, and the handler under way still has its port).
  `TransparentTraps` and `SectionsKept` for stacks of any depth: `TrapsInv`
  says, per architecture, how the saved interrupt states of all open sections on
  the stack relate to the hart's (`RvSections`, `AvrSections`), whose frame
  `local_frame` is (`Frames`) and where `mepc` leads (`Returns`).
  `StartupCorrect` for every set of gears: what the boot has provided at each
  step of each platform, and what `WDTCSR`, lock and the two bytes of the
  callback are at each write of guard and hush, across resets.
* `KernelProofs`, libposix and synchronisation. `PosixCorrect` for every number of threads, units and ticks:
  `PosixInv` has the ticks a call has slept and has left add up to what was
  asked, and ties each mutex to the place its holder is at, `g_mq_mutex` until it
  is redone while held. `SyncCorrect` for every set of tasks: `SyncInv` says, until
  a task unlocks what it never locked, who was told it has the mutex and what
  `mutex_val` is then, and while calls return that the wait list lists exactly
  the paused tasks, nobody twice and nobody that waits: every wait ends the
  kernel, which is why the list never holds a waiting task when a call returns.
* `KernelProofs`, task lists. `TaskListsCorrect` for every finite set of tasks and
  every set of priorities. The code's links are related to sequences: `Ring` says
  that `next` and `prev` of a list lead round a sequence of distinct TCBs, and the
  lemmas about `InsertBefore`, `Alone` and `Detach` (`InsertRing`, `AloneRing`,
  `DetachRing`) that the operations of the code are insertion into that sequence
  and removal from it; `ReadyIs` and `MetIs` that the loops of the code walk it.
  While `plug()` makes its calls (`Booted`) the ready links are a `Ring` of the
  TCBs added, sorted by priority and age, and the wait links a `Ring` of the
  paused ones unless one of those was deleted. `helios_pause_all_task` and
  `helios_resume_all_task` are folds over the ready list, which `PauseAllFold`
  and `ResumeAllFold` take one TCB at a time. `AtRun` and `AfterRun` say what
  `helios_run` hands to the despatch and what that leaves. `ListsInv`, the
  inductive invariant, is `Booted` before `helios_run` and `ListsSound` after it.
* `DriverCoreProofs`. `ExecCorrect` for any number of cores: `ExecInv` gives, per
  device, what `exec` is while calls of any nesting are at any place, unless two
  of them raced. `ConsoleCorrect` and `LifecycleCorrect` have a hypothesis,
  `OneCore`: one core, one console that replaces the early console, which is
  started before it, does not fail and is not started by name while the console
  is in use. That is the table and the use of every project of the repository;
  with two cores the hand-over between the consoles is not atomic, and the code
  does not promise it.
* `LibsProofs`. `HeapCorrect` and `HeapFaultsOnlyWhenFull` for any heap, header
  size, requests and number of callers. `HeapInv` states the list by neighbours
  (each chunk ends where the next begins) and not by walking it, and says per
  loop of `malloc`, `realloc` and `free` where its pointers are and which pair of
  chunks may be unmerged (`Pairs`). `TimeCorrect` for every tick rate and width:
  `TimeInv` carries the instant meant, and the lemmas `Euclid`, `EuclidUnique`
  and `SecondsWrap` give quotient and remainder of C's division under borrow and
  wrap. `StringsCorrect` for any memory, bytes and width
  of an address: `StringInv` holds the invariant of each loop of `string.c`, which
  says which bytes it has gone over, what it knows of them (none is the one
  searched for, none is a terminator, both are the same) and what the memory is
  meanwhile; for the two directions of `memmove` that the bytes still to be read
  are not yet written (`CopyLoop`, `BackLoop`, with `Direction` for the unsigned
  difference of the addresses).
* `DeviceProofs`. `ClockCorrect` and `ClockKeepsTime` for every width of the
  counter's halves: `SchedInv` says between two accesses which counts the halves
  read so far can be of (`Readings`), from which count the last stamp was made
  (`Stamps`) and from where a delay is counted (`Limits`). `CallbacksCorrect` for
  any heap: while no node came with garbage the list is a chain of at most two
  nodes; what a walk of a chain finds is shown with the least number for which it
  would be wrong (`LeastNumber`). `HalCorrect` for any pins, modes and PMU
  programs of any length: `HalInv` speaks of the writes a call has still to make.
* `BoardProofs`. `ClockTreeCorrect` for every crystal the PLL takes, internal
  oscillator and frequencies asked for. `PrciInv` says, for each write of each
  sequence (`InInternal`, `InExternal`, `InPll`, `InOff`), which oscillators run
  and which the core is on (`Alive`), that the registers hold the factors
  `pll.c` remembers while no divider was or-ed to another (`PllMatches`), and what
  `clk_type` and the port are across set-ups that fail, disables and resets; that the
  search finds factors whenever it is asked needs the range of the crystal.
  `PinsCorrect` for every set of pins and assignment of pins, with the width 8 of
  `port_status`: `PinsInv` has, until an empty handle is used, one owner for each marked
  pin below 8 (`OneOwner`), the owner's handle naming it (`Owned`), and the LED's pins
  outputs at its level (`Lit`). A set-up that allocates its pins one after the
  other is a fold; `Allocating` and `Freeing` say what holds between two of them.
* `FoldFacts`. What a `FoldLeft` computes is given by its steps: `FoldDefined`,
  and `FoldKeeps`, that the fold keeps what each step keeps. Both rest on
  `UpTo`, an induction up to a number that follows from `LeastNumber` (every
  set of natural numbers that is not empty has a least one), which needs no
  operator as a parameter. The proofs of rings and folds in `BoardProofs` and
  `KernelProofs` use them.

Assumptions on constants are weak: `N_CORES` positive, `TicketMod` at least 2,
`SIZE` positive and `OccMod > SIZE + 1` (256 against 32 in the code); devices of
the PLIC and watchdog gears are numbers, platforms and architectures the ones of
the repository; the start and exit orders of `DriverCore` are bounded and the
early console replaces nothing; blocks of the clock's heap are finitely many; a
header of the heap is not empty; in `Timespec` a tick divides a second
(`TickHz`), and the nanoseconds of an `int64_t` are less than half of what
`time_t` holds in seconds (`StepsFit`; 2^63 ns are 292 years); in `Hal` a program
has `PmuSize` slots and a pin's MUX bits are neither the reference nor the
alignment bits of ADMUX; in `Strings` there is a byte 0 and the memory is smaller
than what a `size_t` counts; in `Helios` the TCBs are finitely many and no
priority is below that of the idle task (which `helios_add_task` asserts); in `Pins` the pins
of a chip are finitely many numbers and those of the LED, the UART and the SPI are
among them; in `Prci` the crystal has 6 to 96 MHz (16 on the boards), so that one
eighth of it or more is a reference the PLL takes, and the PLL is asked for what
`pll_config_for_nearest_freq` asserts. TLC evaluates all of them in the runs.

Only model-checked: everything about liveness (fairness and ENABLED are outside
what the prover handles), and `LibcExact`, because the functions of `Libc` are
RECURSIVE operators, which the prover cannot work with (for `string.c` the loops
are steps instead, in `Strings`). The violation runs need no theorem.

## 5. Findings

Checked as violations: the four of the second table in section 3, each with the
line it contradicts in `PROJECT.json`.

More disagreements between the code and what its headers, comments and messages
say. The modules behave as the code does; the properties ask nothing of these
cases, neither that the code is right in them nor that it stays wrong:

| Code | Says | Does |
|---|---|---|
| `lib/libc/string.c:52` | `memcpy`: 'ret = destination' (`string.h:40`) | returns the byte after the copied block |
| `lib/libc/string.c:150` | `strlcpy`: 'ret = size copied' (`string.h:91`) | a cut copy reports one character less than it wrote, `SIZE_MAX` for a size of 1 |
| `lib/libc/string.c:200` | `strchr_rev`: 'ret = pointer to first occurance' (`string.h:123`) | returns the last one (its other name is `strrchr`) |
| `posix_utils.c:101` | 'Check for overflow' (`:100`) | sees the sign only: ticks that wrap the `int64_t` past zero are a success and a wait that is too short |
| `schedclk_ibex.c:150`, `schedclk_sifive.c:150` | '@return time in microseconds' (`:145`) | the product is cut to 64 bits before the division: at the 2 MHz of ibex time starts again from 0 after 107 days, and a delay that was under way may never end |
| `adc.c:144` | 'vref: ADC voltage reference source' (`:290`) | an 8 bit configuration overwrites the reference |
| `adc.c:304` | 'pin: ADC pin to configure' (`:287`) | a 10 bit conversion is of the pin's bits or-ed to those of the pin before |
| `pll.c:123` | `prci_pll_wait_to_lock` before the switch to the PLL (`:160`) | waits while PLLLOCK is set: the core goes to an unlocked PLL or, when it locked in time, spins for ever with interrupts off |
| `gpio.c:31`, `:34` of the FE310 | 'GPIO Pin %d on Port %d is already taken' (`:39`) | `port_status` has 8 bits for 32 pins: a pin beyond is given to everyone, every LED and UART pin included |
| `arm-m/.../arch.c:80` | 'This function handles svc calls.' (`:27`) | the handler is linked at 10, svc traps at 11: a visor call panics |
| `helios_tasks.c:205` | 'pause the task until call resume explicitly' (`helios_tasks.h:73`) | `helios_run` adds the idle task, which makes every paused task ready |
| `helios_tasks.c:230` | 'delete a task from the scheduler' (`helios_tasks.h:64`) | only sets the status; a later call makes the task ready or running |
| `helios_tasks.c:308` | 'resume paused task using its instance' (`helios_tasks.h:83`) | refuses the paused task and resumes any other |
| `helios_tasks.c:263` | 'pause all the tasks except the current and the IDLE Task' (`helios_tasks.h:93`) | called by a task, stays at that task for ever |
| `helios_sched.c:347` | 'wait for wait_ticks until free' (`helios_mutex.h:76`) | the waiting task is marked ready, and the pass over the wait list (`:433-458`) never gets past it: the first wait of any task hangs the kernel |
| `helios_mutex.c:53` | 'Initialize the mutex struct with current task' (`helios_mutex.h:46`) | the dynamic build leaves `lock_task` as the memory was: a task may unlock what it never locked, and two tasks then have the mutex |
| `posix_mqueue.c:323`, `:267` | ETIMEDOUT when 'the timeout expired' (`mqueue.h:212`, `:181`) | as in `sem_timedwait`, the last tick returns success and no message has moved |
| `posix_mqueue.c:318`, `:262` | EAGAIN with O_NONBLOCK (`mqueue.h:215`, `:184`) | answers ETIMEDOUT |
| `posix_mqueue.c:114`, `:195` | 'Grab resource access else return EBUSY' (`:117`) | `mq_open` initialises and `mq_close` destroys the mutex that another thread may be inside |
| `posix_pthread.c:169` | 'Release resource access else return EBUSY' (`:171`) | the call that ends the thread does not come back, and the mutex stays taken |

Recorded as conditions of the properties, because the code promises nothing
about them:

* `bakerylock.c`: exclusion is lost when 8-bit tickets wrap.
* `malloc_lite.c`: an exhausted heap makes `malloc` follow NULL or hand out the
  last chunk although it is in use; `realloc` to a smaller size copies the old
  size.
* `driver.c`: test and claim of `exec` are two critical sections; a failed setup
  leaves `exec` set.
* `console_serial.c`: `occ--` can lose bytes for good, a byte between the test of
  `occ` and `wait_lock` is not noticed, and overflow overwrites unread bytes.
* `sysclk.c` and the consoles: the `next` of a callback node is never set; a
  failed console setup leaves a handle to a freed node; `config_clk` with no
  console registered dereferences the NULL root (`sysclk.c:110` and `:133`);
  `sysclk_reset` and `sysclk_disable` run no callbacks, so that the UART keeps the
  divisor of another clock.
* `schedclk`: on mega_avr the 64-bit counter and the callback pointer are written
  and read in pieces; a callback that asks for the time spins on `tlock`; a new
  period rescales the whole time on mega_avr; delays without a clock never
  return. On a core without the A extension `lock_acquire` clears `mie` and
  leaves it cleared, so the timer interrupt is off after the next lock.
* Helios: deleting a paused task leaves it on the wait list and `helios_run` may
  then loop for ever; adding a task resumes all others; unequal garbage in a fresh
  TCB breaks the ready ring; a deleted semaphore or mutex is still pointed to, so
  that it can neither be created again nor used safely.
* `stdcon.c`: `console_putc` and its kin go through NULL or freed memory when
  they meet an exit (`met` in `Stdcon`); a `console_t` from a reused block has
  methods nobody set (`serialGone`).
* Traps: on riscv a handler that ends a critical section has interrupts on, and
  one between the two halves of `EPILOGUE` loses the return address
  (`reopened`); on arm-m `arch_di_save_state` is empty.
* `plic.c`: after refused memory `port` points to a freed block (`refused`).
* Watchdog: guarding anew while the dog is awake can make the bark call an
  address made of two callbacks (`reguarded`).
* PRCI: the output divider of a second PLL clock is or-ed to that of the first
  (`ored`, `pll.c:137`); a set-up that finds no clock or no PRCI frees the port,
  leaves `sysclk` pointing to it and restores an interrupt state it never saved
  (`sysclk_prci.c:74-77`); after a disable and a new set-up `clk_type` is still the
  one from before (`kept`).
* Pins: a setup that did not get a pin goes on with an empty handle (`spoilt`;
  `spi.c:66`, `uart.c:70`); an LED set-up without memory leaves `obled_sp` set, and
  the exit and the LED calls then go through a NULL array (`onboardled.c:126`, `:161`).
* HAL: shutting one channel of a timer down after its clock went off with the
  other leaves its interrupt enabled and unlinked (`crossed`, `timer.c:99`).
* libposix: `mq_open` returns NULL for success; the read and write flags of queues are
  tested the wrong way round (`posix_mqueue.c:43`, `:58`).
* libc and libnmath: `lcm`'s loop never runs, `isPrime` is inverted,
  `multiplicative_inverse` returns 0, `conv` reads at a negative index, `atof`
  ignores the fraction, and a width before `d` makes `printf` return -1.

## 6. Plan

Done, in this order: locks, heap, driver core, console ring, clocks and Helios
lists; then traps, PLIC, boot with watchdog, console device and AVR console,
Helios synchronisation, libposix, pins, HALs, PRCI, and the library functions.

Proved, in this order: locks, console ring; PLIC, traps, boot with watchdog;
console device and AVR console; Helios synchronisation and libposix; driver core;
heap and time arithmetic; scheduler clock, clock callbacks and HALs; clock tree,
pins and the task lists of Helios; the functions of `string.c`.

To compose next: `Stdcon` with `DriverCore` on two cores, and `SchedClk` with
`Traps` in place of its own interrupt.

## 7. Not modelled

* The Helios idle task, preemption and the static TCB table: a context switch
  only sets a status in this commit (no port defines one), so no task code runs.
  `HeliosSync` models the calls tasks would make and what the scheduler does
  with them.
* The boot of rp2: `bootstrap` calls `platform_get_reset_syndrome` and
  `platform_reset_handler`, which nothing under `platform/rpi` defines, and
  `con_serial_rpi` holds a build file and no driver.
* Floating point (`atof`, `%f`, floating scans, `conv`) and `rand`.
* `libsyslog` (a formatted line; its call of `get_timestamp` is in `SchedClk`),
  `libccfs` (a stub), attribute getters and setters of libposix.
* Register layout, single register reads and writes of the HALs, linker scripts,
  the build system, demo projects.
* Sleep flags of the ports (`arch_signal_suspend` and its kin) and the search in
  the constant device tables of libresource.
