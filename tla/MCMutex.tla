------------------------------ MODULE MCMutex ------------------------------
(* Small instances of Mutex for TLC. *)
EXTENDS Mutex

CONSTANTS high, mid, low

(* high above mid above low. *)
Ranked == [t \in Threads |->
    IF t = high THEN 0 ELSE IF t = mid THEN 1 ELSE PrioCount - 1]

(* Both builds with ranked threads that change their own priority; the     *)
(* handoff build with threads of the one priority.                         *)
MCInstances ==
    {[handoff |-> h, reprio |-> {"self"}, base |-> Ranked] : h \in BOOLEAN}
    \cup {[handoff |-> TRUE, reprio |-> {}, base |-> [t \in Threads |-> 0]]}
=============================================================================
