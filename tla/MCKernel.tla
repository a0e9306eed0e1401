------------------------------ MODULE MCKernel ------------------------------
(* Small instances of the kernel and of what libposix makes of a kernel: the *)
(* lists of Helios before helios_run, its semaphore and mutex, and the calls  *)
(* of libposix over a kernel of which it knows the interface only.  They      *)
(* share no variable, and a behaviour is of the one that which names.         *)
EXTENDS Helios, HeliosSync, Posix

MCFlags == {{"r", "w"}, {"w", "nonblock"}}

VARIABLE which
kernelVars == <<which, vars, syncVars, pvars>>

KernelInit ==
  /\ which \in {"lists", "sync", "posix"}
  /\ Init /\ SyncInit
  /\ PInit /\ (which # "posix" => flags = {"r", "w"})

ListStep == which = "lists" /\ Next /\ UNCHANGED <<which, syncVars, pvars>>
SyncStep == which = "sync" /\ SyncNext /\ UNCHANGED <<which, vars, pvars>>
PosixStep == which = "posix" /\ PosixNext /\ UNCHANGED <<which, vars, syncVars>>

KernelSpec ==
  /\ KernelInit /\ [][ListStep \/ SyncStep \/ PosixStep]_kernelVars
  /\ \A p \in Threads : WF_pvars(which = "posix" /\ InCall(p))
=============================================================================
