------------------------------ MODULE MCSched ------------------------------
(* Small instances of Sched for TLC. *)
EXTENDS Sched

CONSTANTS m, u, w

(* w, if it exists, lives on CPU 1; everyone else on CPU 0. *)
MCTargetCpu == [t \in Threads |-> IF t = w THEN 1 ELSE 0]

(* Everyone starts with the lowest priority. *)
MCPrio == [t \in Threads |-> PrioCount - 1]
=============================================================================
