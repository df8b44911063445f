------------------------------- MODULE MCRcu -------------------------------
(* Small instances of Rcu for TLC. *)
EXTENDS Rcu

CONSTANTS t0, t1, t2

(* t0 is alone on CPU 0; t1 and t2 preempt each other. *)
MCTargetCpu == [t \in Threads |-> IF t = t0 THEN 0 ELSE 1]

(* All of them; or those of CPU 1 only, and CPU 0 idles for ever. *)
MCUsers == {{t0, t1, t2}, {t1, t2}}
=============================================================================
