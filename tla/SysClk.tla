------------------------------- MODULE SysClk -------------------------------
(***************************************************************************)
(* The list of clock callbacks, driver/sysclk/sysclk.c, with the two       *)
(* drivers that use it: the early console and the console of               *)
(* driver/console/con_serial_sifive, which share one UART and recompute    *)
(* its divisor after every change of the system clock.  The FE310 has one  *)
(* core and no handler touches this state, so a driver call is one step.   *)
(* The driver sysclk_prci runs at first: platform_setup starts it or       *)
(* halts.  Prci has its registers and its failures; here it is a clock, an *)
(* answer of fetch_clk and three calls that change the clock, of which     *)
(* only config_clk runs the callbacks.                                     *)
(*                                                                         *)
(* A list node is a block from malloc, which does not clear it, and        *)
(* neither driver sets its next; a pointer to a freed block is kept.  The  *)
(* model keeps the contents of blocks across free and malloc, and clkFault *)
(* says where the code goes wrong by them:                                 *)
(*   "null"   a callback walk starts at an empty list;                     *)
(*   "wild"   a walk follows a word that never was a link;                 *)
(*   "stale"  a callback walk goes through a freed block;                  *)
(*   "hang"   a walk meets a block twice.                                  *)
(***************************************************************************)
EXTENDS Integers, FiniteSets

CONSTANTS Blocks,     \* the heap blocks that callback nodes are made of
          Null, Wild, \* the NULL pointer, and a word that is no pointer
          Clocks,     \* the frequencies asked for
          Crystal,    \* the frequency sysclk_reset leaves
          Parked      \* the frequency sysclk_disable leaves

ASSUME SysClkAssumption ==
  /\ IsFiniteSet(Blocks) /\ Null \notin Blocks /\ Wild \notin Blocks /\ Null # Wild
  /\ Clocks \subseteq Nat \ {0} /\ Clocks # {}
  /\ Crystal \in Nat \ {0} /\ Parked \in Nat \ {0}

Drivers == {"earlycon", "console"}
Failures == {"none", "port", "handle", "uart"}   \* how far a driver's setup gets

VARIABLES
  m,        \* the memory the drivers share, see ClkInit
  clk,      \* the frequency of the system clock
  src,      \* the driver sysclk_prci, see ClkInit
  brr,      \* the frequency the UART's divisor was computed for
  clkFault  \* auxiliary, see above

clkVars == <<m, clk, src, brr, clkFault>>

ClkInit ==
  \E ram \in [Blocks -> {Null, Wild}], c \in Clocks :
    /\ m = [next   |-> ram,                          \* the next word of each block
            used   |-> {},                           \* blocks that malloc gave out
            root   |-> Null,
            handle |-> [d \in Drivers |-> Null],     \* earlycon_handle, console_handle
            exec   |-> [d \in Drivers |-> FALSE],    \* the driver core's flag
            up     |-> {},        \* auxiliary: drivers whose setup succeeded
            dirty  |-> FALSE,     \* auxiliary: a node came with a next that is not NULL
            failed |-> FALSE,     \* auxiliary: a setup has failed
            twice  |-> FALSE,     \* auxiliary: a block that was free was freed
            bad    |-> "none"]    \* the fault of the call under way
    /\ clk = c
    /\ src = [on     |-> TRUE,    \* its port is there
              type   |-> "other", \* clk_type is internal or not
              gets   |-> c,       \* the frequency fetch_clk answers
              kept   |-> FALSE,   \* auxiliary: clk_type is from before a sysclk_disable
              silent |-> FALSE]   \* auxiliary: the divisor was not computed since a
                                  \* change without callbacks, or from a wrong answer
    /\ brr = 0
    /\ clkFault = "none"

-----------------------------------------------------------------------------
(* sysclk.c                                                                *)

(* The words a walk of the list reads, from root on. *)
Walk(s) ==
  LET at[i \in 0 .. Cardinality(Blocks) + 1] ==
        IF i = 0 THEN s.root
        ELSE IF at[i - 1] \in Blocks THEN s.next[at[i - 1]] ELSE at[i - 1]
  IN  at

Nodes(s) == {Walk(s)[i] : i \in DOMAIN Walk(s)} \cap Blocks
End(s) == Walk(s)[Cardinality(Blocks) + 1]    \* a block if the list is a loop
LastNode(s) == CHOOSE b \in Nodes(s) : s.next[b] = End(s)

(* How a walk to the end of the list goes wrong. *)
WalkFault(s) ==
  IF End(s) = Null THEN "none" ELSE IF End(s) = Wild THEN "wild" ELSE "hang"

(* The first fault of a call is kept. *)
Spoil(s) == IF s.bad = "none" THEN [s EXCEPT !.bad = WalkFault(s)] ELSE s

(* sysclk_register_config_clk_callback.  The search for a duplicate starts *)
(* behind the root.                                                        *)
ClkRegister(s, b) ==
  IF s.root = Null THEN [s EXCEPT !.root = b]
  ELSE IF \E n \in Nodes(s) : s.next[n] = b THEN s
  ELSE IF WalkFault(s) # "none" THEN Spoil(s)
  ELSE [s EXCEPT !.next[LastNode(s)] = b]

(* The result error_list_node_exists of the same call. *)
Duplicate(s, b) == s.root # Null /\ \E n \in Nodes(s) : s.next[n] = b

(* Mutant of Deregister: only the root is looked at. *)
DeregisterRoot(s, b) == IF s.root = b THEN [s EXCEPT !.root = s.next[b]] ELSE s

(* sysclk_deregister_config_clk_callback leaves the node's own next alone. *)
Deregister(s, b) ==
  IF s.root = Null THEN s
  ELSE IF s.root = b THEN [s EXCEPT !.root = s.next[b]]
  ELSE IF b \notin Nodes(s) THEN Spoil(s)
  ELSE LET prev == CHOOSE n \in Nodes(s) : s.next[n] = b
       IN  [s EXCEPT !.next[prev] = s.next[b]]

-----------------------------------------------------------------------------
(* The console drivers.                                                    *)

ClkFree(s, b) ==
  IF b = Null THEN s
  ELSE [s EXCEPT !.used = @ \ {b}, !.twice = @ \/ b \notin s.used]

(* Mutant of Stop: the node is freed without being deregistered. *)
StopRegistered(s, d) ==
  ClkFree([s EXCEPT !.up = @ \ {d}], s.handle[d])

(* The exit of either driver up to its last line: the handle keeps the     *)
(* address of the freed node.                                              *)
Stop(s, d) ==
  LET b == s.handle[d]
      off == IF b = Null THEN s ELSE Deregister(s, b)
  IN  ClkFree([off EXCEPT !.up = @ \ {d}], b)

(* The setup of either driver up to its cleanup: the node b is whatever    *)
(* malloc returns, and how says which step fails.                          *)
Start(s, d, how, b) ==
  LET node == [s EXCEPT !.handle[d] = b, !.used = @ \cup {b},
                        !.dirty = @ \/ s.next[b] # Null]
      reg == ClkRegister(node, b)
  IN  CASE how = "port"   -> [s EXCEPT !.failed = TRUE]
        [] how = "handle" -> [s EXCEPT !.failed = TRUE, !.handle[d] = Null]
        [] how = "uart"   -> [node EXCEPT !.failed = TRUE]
        [] OTHER -> IF Duplicate(node, b) THEN [reg EXCEPT !.failed = TRUE]
                    ELSE [reg EXCEPT !.up = @ \cup {d}]

(* earlycon_serial_driver_setup and earlycon_serial_driver_exit behind the *)
(* driver core's test of exec.                                             *)
EarlyconSetup(s, how, b) ==
  LET t == Start([s EXCEPT !.exec["earlycon"] = TRUE], "earlycon", how, b)
  IN  IF s.exec["earlycon"] THEN s
      ELSE IF "earlycon" \in t.up THEN t ELSE Stop(t, "earlycon")

EarlyconExit(s) ==
  IF s.exec["earlycon"] THEN Stop([s EXCEPT !.exec["earlycon"] = FALSE], "earlycon") ELSE s

(* console_serial_driver_exit, whose last line starts the early console. *)
ConsoleExit(s, how, b) == EarlyconSetup(Stop(s, "console"), how, b)

(* console_serial_driver_setup: it ends the early console first. *)
ConsoleSetup(s, how, b, how2, b2) ==
  LET t == Start(EarlyconExit([s EXCEPT !.exec["console"] = TRUE]), "console", how, b)
  IN  IF "console" \in t.up THEN t ELSE ConsoleExit(t, how2, b2)

-----------------------------------------------------------------------------
(* The calls: driver_setup, driver_exit and sysclk_set_clk.                *)

ClkRunning == clkFault = "none"

(* uart_update_baud: sysclk_get_clk answers 0 when the driver is off. *)
Compute ==
  /\ brr' = IF src.on THEN src.gets ELSE 0
  /\ src' = [src EXCEPT !.silent = ~src.on \/ src.kept]

(* uart_setup computes the divisor, if the call got as far. *)
Effect(s, computed) ==
  /\ m' = s
  /\ clkFault' = s.bad
  /\ IF computed THEN Compute ELSE UNCHANGED <<brr, src>>
  /\ UNCHANGED clk

MayAlloc(s, how, b) == how \in {"none", "uart"} => b \notin s.used

SetupEarlycon(how, b) ==
  /\ ClkRunning /\ ~m.exec["earlycon"] /\ MayAlloc(m, how, b)
  /\ Effect(EarlyconSetup(m, how, b), how \in {"none", "uart"})

ExitEarlycon ==
  /\ ClkRunning /\ m.exec["earlycon"]
  /\ Effect(EarlyconExit(m), FALSE)

(* A failed setup falls back on the early console. *)
SetupConsole(how, b, how2, b2) ==
  LET s == ConsoleSetup(m, how, b, how2, b2)
  IN  /\ ClkRunning /\ ~m.exec["console"]
      /\ MayAlloc(EarlyconExit(m), how, b)
      /\ how2 \in {"none", "uart"} => b2 \notin EarlyconExit(m).used
      /\ Effect(s, how \in {"none", "uart"} \/ how2 \in {"none", "uart"})

ExitConsole(how, b) ==
  LET s == Stop([m EXCEPT !.exec["console"] = FALSE], "console")
  IN  /\ ClkRunning /\ m.exec["console"] /\ MayAlloc(s, how, b)
      /\ Effect(EarlyconSetup(s, how, b),
                ~m.exec["earlycon"] /\ how \in {"none", "uart"})

(* How the walk of the callbacks before a change goes wrong. *)
CallbackFault ==
  IF m.root = Null THEN "null"
  ELSE IF Nodes(m) \ m.used # {} THEN "stale" ELSE WalkFault(m)

(* What the driver answers after a change to c. *)
Answers(t, c, changed) ==
  [src EXCEPT !.type = t, !.gets = c, !.kept = FALSE, !.silent = changed]

(* Mutant of ConfigureClk: the walk after the change is left out. *)
ConfigureClkSilent(t, c) ==
  /\ ClkRunning /\ src.on
  /\ clkFault' = CallbackFault
  /\ clk' = c /\ src' = Answers(t, c, FALSE)
  /\ UNCHANGED <<m, brr>>

(* The call config_clk: the callbacks of every node before the change,     *)
(* which do nothing, and after it, each of which sets the divisor.  The    *)
(* first walk dereferences the root before it tests it.                    *)
ConfigureClk(t, c) ==
  /\ ClkRunning /\ src.on
  /\ clkFault' = CallbackFault
  /\ IF CallbackFault = "none"
     THEN clk' = c /\ brr' = c /\ src' = Answers(t, c, FALSE)
     ELSE UNCHANGED <<clk, brr, src>>
  /\ UNCHANGED m

(* sysclk_reset runs no callbacks. *)
ClkReset ==
  /\ ClkRunning /\ src.on
  /\ clk' = Crystal /\ src' = Answers("other", Crystal, TRUE)
  /\ UNCHANGED <<m, brr, clkFault>>

(* sysclk_disable, the exit of sysclk_prci: no callbacks, and clk_type stays. *)
ClkDisable ==
  /\ ClkRunning /\ src.on
  /\ clk' = Parked
  /\ src' = [src EXCEPT !.on = FALSE, !.silent = TRUE,
                        !.gets = IF src.type = "internal" THEN Parked ELSE @,
                        !.kept = @ \/ src.type # "internal"]
  /\ UNCHANGED <<m, brr, clkFault>>

(* sysclk_setup again: fetch_clk answers by the clk_type it finds. *)
ClkSetup ==
  /\ ClkRunning /\ ~src.on
  /\ src' = [src EXCEPT !.on = TRUE]
  /\ UNCHANGED <<m, clk, brr, clkFault>>

(* Another user of the heap writes into a block that is free. *)
Scribble(b) ==
  /\ ClkRunning /\ b \notin m.used
  /\ m' = [m EXCEPT !.next[b] = Wild]
  /\ UNCHANGED <<clk, src, brr, clkFault>>

ClkNext ==
  \/ \E how \in Failures, b \in Blocks : SetupEarlycon(how, b) \/ ExitConsole(how, b)
  \/ ExitEarlycon
  \/ \E how, how2 \in Failures, b, b2 \in Blocks : SetupConsole(how, b, how2, b2)
  \/ \E t \in {"internal", "other"}, c \in Clocks : ConfigureClk(t, c)
  \/ ClkReset \/ ClkDisable \/ ClkSetup
  \/ \E b \in Blocks : Scribble(b)

ClkSpec == ClkInit /\ [][ClkNext]_clkVars

-----------------------------------------------------------------------------
(* Whatever order the two drivers are started and stopped in, also both at *)
(* once, the callback list ends, and holds exactly the nodes of the        *)
(* drivers that run: as long as no setup failed and malloc gave nodes with *)
(* a NULL next.                                                            *)
ListExact ==
  ~m.dirty /\ ~m.failed =>
    /\ End(m) = Null
    /\ Nodes(m) = {m.handle[d] : d \in m.up}
    /\ Nodes(m) = m.used

(* The divisor of the UART that a running console driver uses is the one   *)
(* of the clock, whatever came before, except from a sysclk_reset or a     *)
(* sysclk_disable to the next time it is computed: neither runs the        *)
(* callbacks.  A divisor computed while sysclk_prci is off, or after a     *)
(* disable and a new setup under a clk_type of external or pll, is         *)
(* excepted too.                                                           *)
BaudFollows == clkFault = "none" /\ m.up # {} /\ ~src.silent => brr = clk

(* No walk leaves the list, and no block is freed twice, unless a node     *)
(* came with garbage in its next or a setup failed and left a handle to a  *)
(* freed node.  But for those two the walk through NULL of an empty list   *)
(* befalls config_clk only while no console driver runs.                   *)
Contained ==
  /\ (clkFault \in {"wild", "stale", "hang"} \/ m.twice) => m.dirty \/ m.failed
  /\ clkFault = "null" => m.up = {} \/ m.dirty \/ m.failed

(* The callback list of sysclk.c under its two users and the clock.        *)
CallbacksSound == ListExact /\ BaudFollows /\ Contained
=============================================================================
