------------------------------- MODULE MCLibs -------------------------------
(* Small instances of the libraries that keep no state in common: the heap  *)
(* with two callers, the strings, the other functions of libc and libnmath, *)
(* and the time arithmetic of libposix.  A behaviour uses the one that      *)
(* which names.                                                             *)
EXTENDS Heap, Strings, Libc, Timespec, TLC

MCNumbers == {-105, -1, 0, 9, 10, 4095}
MCSteps == {-7, -3, 1, 5, 8}

VARIABLE which
libVars == <<which, vars, stringVars, libcVars, timeVars>>

NoStrings == StringInit /\ mem = [x \in Addrs |-> 0]
NoCall == job = [f |-> "none"] /\ good = "unknown"

LibsInit ==
  \/ which = "heap" /\ Init /\ TimeInit /\ NoStrings /\ NoCall
  \/ which = "string" /\ StringInit /\ Init /\ TimeInit /\ NoCall
  \/ which = "libc" /\ LibcInit /\ Init /\ TimeInit /\ NoStrings
  \/ which = "time" /\ TimeInit /\ Init /\ NoStrings /\ NoCall

HeapStep == which = "heap" /\ Next /\ UNCHANGED <<which, stringVars, libcVars, timeVars>>
StringStep == which = "string" /\ StringNext /\ UNCHANGED <<which, vars, libcVars, timeVars>>
LibcStep == which = "libc" /\ LibcNext /\ UNCHANGED <<which, vars, stringVars, timeVars>>
TimeStep == which = "time" /\ TimeNext /\ UNCHANGED <<which, vars, stringVars, libcVars>>

(* A call of libc may be the last; the heap may have stopped in a fault. *)
LibsRest ==
  /\ (which = "libc" /\ good # "unknown") \/ (which = "heap" /\ fault # "none")
  /\ UNCHANGED libVars

LibsSpec ==
  /\ LibsInit /\ [][HeapStep \/ StringStep \/ LibcStep \/ TimeStep \/ LibsRest]_libVars
  /\ \A c \in Callers : WF_vars(which = "heap" /\ Working(c))
=============================================================================
