------------------------------ MODULE DriverCore ------------------------------
(***************************************************************************)
(* The driver core, driver/driver.c: the table of devices, the calls that  *)
(* start and stop them by name or all in order, and the exec flag that     *)
(* says whether a device was started.  Several cores may call it at once.  *)
(*                                                                         *)
(* A device's driver_setup and driver_exit are callbacks.  Two things they *)
(* do matter here and are modelled: they attach to and release the console *)
(* (stdcon.c), and the console driver calls the core again to make the     *)
(* early console step aside and to bring it back.                          *)
(*                                                                         *)
(* The lock in a device is held for one access to exec at a time, so each  *)
(* critical section is one step (LockSpec).                                *)
(***************************************************************************)
EXTENDS Integers, Sequences

CONSTANTS
  Cores,
  N,           \* number of entries of the driver table; a device is its index
  MaxOrder,    \* the largest order: 255 in the code
  sorder, eorder, percpu,   \* fields of the table's entries
  Consoles,    \* the devices that attach to stdcon
  stepsIn,     \* for a device, the device it replaces: "earlycon", or 0
  MayFail,     \* the devices whose driver_setup may return an error
  Disciplined  \* no caller starts a device that another one has replaced

Dev == 1 .. N

ASSUME DriverAssumption ==
  /\ N \in Nat \ {0} /\ MaxOrder \in Nat
  /\ sorder \in [Dev -> 0 .. MaxOrder] /\ eorder \in [Dev -> 0 .. MaxOrder]
  /\ percpu \in [Dev -> BOOLEAN]
  /\ Consoles \subseteq Dev /\ MayFail \subseteq Dev
  /\ stepsIn \in [Dev -> 0 .. N]
  /\ \A d \in Dev : stepsIn[d] # 0 => stepsIn[stepsIn[d]] = 0   \* earlycon replaces nothing
  /\ Disciplined \in BOOLEAN

VARIABLES
  exec,     \* exec bit of each device
  con,      \* the device whose driver is attached to stdcon, or 0
  stack,    \* per core, the driver_register / driver_deregister calls it is in
  scan,     \* per core, the loop of driver_setup_all / driver_exit_all
  up,       \* auxiliary: driver_setup succeeded and driver_exit was not called
  called,   \* auxiliary: calls of driver_setup minus calls of driver_exit
  raced,    \* auxiliary: two calls overlapped between their test and their claim
  failed    \* auxiliary: some driver_setup has returned an error

vars == <<exec, con, stack, scan, up, called, raced, failed>>

NoScan == [op |-> "none", order |-> 0, ptr |-> 0]

Init ==
  /\ exec = [d \in Dev |-> 0]
  /\ con = 0
  /\ stack = [c \in Cores |-> <<>>]
  /\ scan = [c \in Cores |-> NoScan]
  /\ up = [d \in Dev |-> FALSE]
  /\ called = [d \in Dev |-> 0]
  /\ raced = [d \in Dev |-> FALSE]
  /\ failed = FALSE

(* A call of driver_register or driver_deregister; had is auxiliary. *)
Frame(op, d) == [op |-> op, dev |-> d, at |-> "test", had |-> con]
InCall(c) == stack[c] # <<>>
Top(c) == Head(stack[c])
TopAt(c, at) == InCall(c) /\ Top(c).at = at
Goto(c, at) == <<[Top(c) EXCEPT !.at = at]>> \o Tail(stack[c])
SetStack(c, s) == stack' = [stack EXCEPT ![c] = s]
Idle(c) == ~InCall(c) /\ scan[c] = NoScan

(* Device d is between the test of exec and the callback on some core      *)
(* other than c.                                                           *)
Claiming(c, d) ==
  \E e \in Cores \ {c} : \E i \in 1 .. Len(stack[e]) :
    stack[e][i].dev = d /\ stack[e][i].at \in {"claim", "call"}

(* How the projects use the core: a device is not asked for while the one  *)
(* that replaces it is in use, so driver_setup_all is called at boot or    *)
(* after driver_exit_all.                                                  *)
Allowed(op, devs) ==
  Disciplined /\ op = "setup" => \A d \in Dev : stepsIn[d] \in devs => called[d] = 0

(* driver_setup(name), driver_exit(name): the walk finds the entry.  A     *)
(* name that is not in the table changes nothing.                          *)
ByName(c, op, d) ==
  /\ Idle(c) /\ Allowed(op, {d})
  /\ SetStack(c, <<Frame(op, d)>>)
  /\ UNCHANGED <<exec, con, scan, up, called, raced, failed>>

(* driver_setup_all and driver_exit_all start at order 0 and 255. *)
All(c, op) ==
  /\ Idle(c) /\ Allowed(op, Dev)
  /\ scan' = [scan EXCEPT ![c] = [op |-> op, ptr |-> 1,
                                  order |-> IF op = "setup" THEN 0 ELSE MaxOrder]]
  /\ UNCHANGED <<exec, con, stack, up, called, raced, failed>>

(* Mutant of Scan: driver_exit_all walks the orders upwards as well. *)
ScanUp(c) ==
  LET s == scan[c]
      next == s.order + 1
  IN  /\ s # NoScan /\ ~InCall(c)
      /\ \/ /\ s.ptr <= N
            /\ scan' = [scan EXCEPT ![c].ptr = @ + 1]
            /\ IF sorder[s.ptr] = s.order
                 THEN SetStack(c, <<Frame(s.op, s.ptr)>>) ELSE UNCHANGED stack
         \/ /\ s.ptr > N
            /\ scan' = [scan EXCEPT ![c] = IF next \in 0 .. MaxOrder
                                             THEN [s EXCEPT !.order = next, !.ptr = 1]
                                             ELSE NoScan]
            /\ UNCHANGED stack
      /\ UNCHANGED <<exec, con, up, called, raced, failed>>

(* Mutant of Scan: the order of driver_exit_all is unsigned and wraps. *)
ScanWrap(c) ==
  LET s == scan[c]
      next == IF s.op = "setup" THEN s.order + 1 ELSE (s.order - 1) % (MaxOrder + 1)
  IN  /\ s # NoScan /\ ~InCall(c)
      /\ \/ /\ s.ptr <= N
            /\ scan' = [scan EXCEPT ![c].ptr = @ + 1]
            /\ IF sorder[s.ptr] = s.order
                 THEN SetStack(c, <<Frame(s.op, s.ptr)>>) ELSE UNCHANGED stack
         \/ /\ s.ptr > N
            /\ scan' = [scan EXCEPT ![c] = IF next \in 0 .. MaxOrder
                                             THEN [s EXCEPT !.order = next, !.ptr = 1]
                                             ELSE NoScan]
            /\ UNCHANGED stack
      /\ UNCHANGED <<exec, con, up, called, raced, failed>>

(* One turn of the loops of driver_register_with_order and of              *)
(* driver_deregister_with_order (both compare sorder), or of the loop over *)
(* the orders around them.                                                 *)
Scan(c) ==
  LET s == scan[c]
      next == IF s.op = "setup" THEN s.order + 1 ELSE s.order - 1
  IN  /\ s # NoScan /\ ~InCall(c)
      /\ \/ /\ s.ptr <= N
            /\ scan' = [scan EXCEPT ![c].ptr = @ + 1]
            /\ IF sorder[s.ptr] = s.order
                 THEN SetStack(c, <<Frame(s.op, s.ptr)>>) ELSE UNCHANGED stack
         \/ /\ s.ptr > N
            /\ scan' = [scan EXCEPT ![c] = IF next \in 0 .. MaxOrder
                                             THEN [s EXCEPT !.order = next, !.ptr = 1]
                                             ELSE NoScan]
            /\ UNCHANGED stack
      /\ UNCHANGED <<exec, con, up, called, raced, failed>>

(* exec is read under the lock; driver_register returns                    *)
(* error_driver_init_done if it is set, driver_deregister error_driver if  *)
(* it is not.  A per-cpu device is not tested.                             *)
Test(c) ==
  LET f == Top(c)
      refused == exec[f.dev] = (IF f.op = "setup" THEN 1 ELSE 0)
  IN  /\ TopAt(c, "test")
      /\ SetStack(c, IF percpu[f.dev] THEN Goto(c, "call")
                     ELSE IF refused THEN Tail(stack[c]) ELSE Goto(c, "claim"))
      /\ raced' = [raced EXCEPT ![f.dev] = @ \/ Claiming(c, f.dev)]
      /\ UNCHANGED <<exec, con, scan, up, called, failed>>

(* Mutant of Claim: driver_deregister does not clear exec. *)
ClaimNoClear(c) ==
  LET f == Top(c)
  IN  /\ TopAt(c, "claim")
      /\ exec' = [exec EXCEPT ![f.dev] = 1]
      /\ SetStack(c, Goto(c, "call"))
      /\ UNCHANGED <<con, scan, up, called, raced, failed>>

(* exec is written in a second critical section. *)
Claim(c) ==
  LET f == Top(c)
  IN  /\ TopAt(c, "claim")
      /\ exec' = [exec EXCEPT ![f.dev] = IF f.op = "setup" THEN 1 ELSE 0]
      /\ SetStack(c, Goto(c, "call"))
      /\ UNCHANGED <<con, scan, up, called, raced, failed>>

(* The auxiliary count, given up once two calls have raced. *)
Counted(f) ==
  IF raced[f.dev] \/ percpu[f.dev] THEN 0
  ELSE called[f.dev] + (IF f.op = "setup" THEN 1 ELSE -1)

(* Mutant of Call: the console driver leaves the early console running. *)
CallNoHandover(c) ==
  LET f == Top(c)
      setup == f.op = "setup"
  IN  /\ TopAt(c, "call")
      /\ called' = [called EXCEPT ![f.dev] = Counted(f)]
      /\ SetStack(c, Goto(c, "body"))
      /\ up' = IF setup THEN up ELSE [up EXCEPT ![f.dev] = FALSE]
      /\ con' = IF ~setup /\ f.dev \in Consoles THEN 0 ELSE con
      /\ UNCHANGED <<exec, scan, raced, failed>>

(* Mutant of Call: driver_exit does not release the console. *)
CallNoRelease(c) ==
  LET f == Top(c)
      setup == f.op = "setup"
  IN  /\ TopAt(c, "call")
      /\ called' = [called EXCEPT ![f.dev] = Counted(f)]
      /\ SetStack(c, IF setup /\ stepsIn[f.dev] # 0
                       THEN <<Frame("exit", stepsIn[f.dev])>> \o Goto(c, "body")
                       ELSE Goto(c, "body"))
      /\ up' = IF setup THEN up ELSE [up EXCEPT ![f.dev] = FALSE]
      /\ UNCHANGED <<exec, con, scan, raced, failed>>

(* driver_setup or driver_exit of the device is called.  The setup of a    *)
(* replacing device first calls driver_exit("earlycon"); the exit of a     *)
(* console releases stdcon whoever is attached.                            *)
Call(c) ==
  LET f == Top(c)
      setup == f.op = "setup"
  IN  /\ TopAt(c, "call")
      /\ called' = [called EXCEPT ![f.dev] = Counted(f)]
      /\ SetStack(c, IF setup /\ stepsIn[f.dev] # 0
                       THEN <<Frame("exit", stepsIn[f.dev])>> \o Goto(c, "body")
                       ELSE Goto(c, "body"))
      /\ up' = IF setup THEN up ELSE [up EXCEPT ![f.dev] = FALSE]
      /\ con' = IF ~setup /\ f.dev \in Consoles THEN 0 ELSE con
      /\ UNCHANGED <<exec, scan, raced, failed>>

(* Mutant of Ending: the device itself is started again. *)
EndingSelf(c) ==
  LET d == Top(c).dev
  IN  IF stepsIn[d] # 0 THEN <<Frame("setup", d)>> \o Goto(c, "end")
      ELSE Tail(stack[c])

(* The call's frame becomes what is left of it: the replaced device is     *)
(* started again, or nothing.                                              *)
Ending(c) ==
  LET d == Top(c).dev
  IN  IF stepsIn[d] # 0 THEN <<Frame("setup", stepsIn[d])>> \o Goto(c, "end")
      ELSE Tail(stack[c])

(* driver_setup succeeds: console_attach_device, and driver_register ends. *)
Started(c) ==
  LET d == Top(c).dev
  IN  /\ TopAt(c, "body") /\ Top(c).op = "setup"
      /\ up' = [up EXCEPT ![d] = TRUE]
      /\ con' = IF d \in Consoles THEN d ELSE con
      /\ SetStack(c, Tail(stack[c]))
      /\ UNCHANGED <<exec, scan, called, raced, failed>>

(* Mutant of NotStarted: the console driver's failed setup does not bring  *)
(* the early console back.                                                 *)
NotStartedSilent(c) ==
  LET d == Top(c).dev
  IN  /\ TopAt(c, "body") /\ Top(c).op = "setup" /\ d \in MayFail
      /\ con' = IF d \in Consoles THEN 0 ELSE con
      /\ failed' = TRUE
      /\ up' = [up EXCEPT ![d] = FALSE]
      /\ SetStack(c, Tail(stack[c]))
      /\ UNCHANGED <<exec, scan, called, raced>>

(* driver_setup fails and cleans up by calling the driver's own exit.      *)
(* exec stays set.                                                         *)
NotStarted(c) ==
  LET d == Top(c).dev
  IN  /\ TopAt(c, "body") /\ Top(c).op = "setup" /\ d \in MayFail
      /\ con' = IF d \in Consoles THEN 0 ELSE con
      /\ failed' = TRUE
      /\ up' = [up EXCEPT ![d] = FALSE]
      /\ SetStack(c, Ending(c))
      /\ UNCHANGED <<exec, scan, called, raced>>

(* The end of driver_exit. *)
Stopped(c) ==
  /\ TopAt(c, "body") /\ Top(c).op = "exit"
  /\ SetStack(c, Ending(c))
  /\ UNCHANGED <<exec, con, scan, up, called, raced, failed>>

Return(c) ==
  /\ TopAt(c, "end")
  /\ SetStack(c, Tail(stack[c]))
  /\ UNCHANGED <<exec, con, scan, up, called, raced, failed>>

Working(c) ==
  \/ Scan(c) \/ Test(c) \/ Claim(c) \/ Call(c)
  \/ Started(c) \/ NotStarted(c) \/ Stopped(c) \/ Return(c)

Ops == {"setup", "exit"}

Next ==
  \E c \in Cores :
    \/ \E op \in Ops : All(c, op) \/ \E d \in Dev : ByName(c, op, d)
    \/ Working(c)

Spec == Init /\ [][Next]_vars

(* A core inside the driver core keeps executing. *)
FairSpec == Spec /\ \A c \in Cores : WF_vars(Working(c))

-----------------------------------------------------------------------------
Frames == [op : Ops, dev : Dev, at : {"test", "claim", "call", "body", "end"},
           had : 0 .. N]

(* Every cell keeps its type; a call that waits for a nested one is in a   *)
(* callback, and the nesting is at most two deep.                          *)
TypeOK ==
  /\ exec \in [Dev -> {0, 1}] /\ con \in Consoles \cup {0}
  /\ up \in [Dev -> BOOLEAN] /\ called \in [Dev -> Int]
  /\ raced \in [Dev -> BOOLEAN] /\ failed \in BOOLEAN
  /\ \A c \in Cores :
       /\ Len(stack[c]) <= 2
       /\ \A i \in 1 .. Len(stack[c]) : stack[c][i] \in Frames
       /\ Len(stack[c]) = 2 => stack[c][2].at \in {"body", "end"}
       /\ scan[c] = NoScan \/ scan[c] \in [op : Ops, order : 0 .. MaxOrder, ptr : 1 .. N + 1]

(* exec says what was done to the device: driver_setup and driver_exit are *)
(* called in alternation, whichever cores call and whatever fails, as long *)
(* as no two calls meet between the test of exec and the callback.  (The   *)
(* two critical sections of driver_register do let them meet.)             *)
ExecMirrors ==
  \A d \in Dev :
    ~percpu[d] /\ ~raced[d] =>
      \/ \E c \in Cores : \E i \in 1 .. Len(stack[c]) :
            /\ stack[c][i].dev = d /\ stack[c][i].at = "call"
            /\ called[d] = 1 - exec[d]
      \/ called[d] = exec[d]

(* The cells of the driver core with two cores in it. *)
ExecExact == TypeOK /\ ExecMirrors

(* On one core: the early console and the console that replaces it are     *)
(* never both up, through every hand-over and every failure.               *)
OneConsole == \A d, e \in Consoles : up[d] /\ up[e] => d = e

(* On one core, between calls: stdcon writes through a driver that is up,  *)
(* and unless some driver_setup has failed the one that is up is attached. *)
ConsoleAttached ==
  (\A c \in Cores : Idle(c)) =>
    /\ con # 0 => up[con]
    /\ ~failed => \A d \in Consoles : up[d] => con = d

(* The two consoles between and during the calls of one core. *)
ConsoleSound == OneConsole /\ ConsoleAttached

(* On one core: no driver_setup loses the console, not even when the new   *)
(* console fails to start, and stopping the console in use brings the      *)
(* early one back.                                                         *)
NeverSilent ==
  [][\A c \in Cores :
       Len(stack[c]) = 1 /\ stack'[c] = <<>> =>
         LET f == Top(c)
         IN  /\ f.op = "setup" /\ f.had # 0 => con' # 0
             /\ f.op = "exit" /\ f.had = f.dev /\ stepsIn[f.dev] # 0 => con' # 0]_vars

(* On one core: when driver_exit_all returns no device is left started,    *)
(* those that other devices started again on their way out included.       *)
ExitAllStopsAll ==
  [][\A c \in Cores :
       scan[c].op = "exit" /\ scan'[c] = NoScan =>
         \A d \in Dev : ~percpu[d] => exec'[d] = 0]_vars

(* What driver_setup, driver_exit and driver_exit_all leave behind when    *)
(* they return.                                                            *)
LifecycleKept == NeverSilent /\ ExitAllStopsAll

(* Every call of driver.c returns. *)
CallsReturn == \A c \in Cores : ~Idle(c) ~> Idle(c)

(* driver_exit_all: "The driver_exit is called based on the exit order or  *)
(* rank. 255 to be exited first and 0 at last."  A device is stopped when  *)
(* no device of a larger exit order is still started.                      *)
ExitOrderKept ==
  [][\A c \in Cores :
       scan[c].op = "exit" /\ Len(stack[c]) = 1 /\ TopAt(c, "call") /\ called' # called =>
         \A d \in Dev : eorder[d] > eorder[Top(c).dev] => exec[d] = 0]_vars
=============================================================================
