----------------------------- MODULE MCDriverCore -----------------------------
(* Model checking of DriverCore: a table with a plain device, a per-cpu     *)
(* device, the early console and the console, in the orders of the         *)
(* repository's drivers (0, 1, 2 and 255, here 3).                          *)
EXTENDS DriverCore, TLC

CoreSymmetry == Permutations(Cores)

MCSorder == <<3, 0, 1, 2>>      \* console, mslog, riscv_plic_pcpu, earlycon
MCPercpu == <<FALSE, FALSE, TRUE, FALSE>>
MCStepsIn == <<4, 0, 0, 0>>

(* The console and the early console alone, for two cores. *)
MCPairSorder == <<1, 0>>
MCPairPercpu == <<FALSE, FALSE>>
MCPairStepsIn == <<2, 0>>

(* A table whose two devices leave in the order they came in. *)
MCTwoSorder == <<0, 1>>
MCTwoEorder == <<1, 0>>
MCTwoPercpu == <<FALSE, FALSE>>
MCTwoStepsIn == <<0, 0>>
=============================================================================
