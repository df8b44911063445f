---------------------------- MODULE GracePeriod ----------------------------
(***************************************************************************)
(* What RCU promises its callers, with no scheduler, no CPU and no counter *)
(* in sight: a thread that waits for a grace period waits for every read   *)
(* section that was open when it started to wait, and for those it may     *)
(* not return early.  Rcu.tla is shown to implement this specification.    *)
(***************************************************************************)
CONSTANT Threads        \* the threads that read and that synchronize

VARIABLES
    reading,    \* the threads inside a read section
    waiting,    \* the threads inside synchronize_rcu()
    pre         \* pre[u]: the open read sections u still has to wait for

gpVars == <<reading, waiting, pre>>

GPInit ==
    /\ reading = {}
    /\ waiting = {}
    /\ pre = [u \in Threads |-> {}]

(* A read section opens; nobody that already waits has to wait for it. *)
Enter(t) ==
    /\ t \notin reading \cup waiting
    /\ reading' = reading \cup {t}
    /\ UNCHANGED <<waiting, pre>>

(* The outermost read section of t closes. *)
Exit(t) ==
    /\ t \in reading
    /\ reading' = reading \ {t}
    /\ pre' = [u \in Threads |-> pre[u] \ {t}]
    /\ UNCHANGED waiting

(* u calls synchronize_rcu() and owes a wait to every open section. *)
Begin(u) ==
    /\ u \notin reading \cup waiting
    /\ waiting' = waiting \cup {u}
    /\ pre' = [pre EXCEPT ![u] = reading]
    /\ UNCHANGED reading

(* synchronize_rcu() returns: all the sections it owed a wait to are over. *)
End(u) ==
    /\ u \in waiting
    /\ pre[u] = {}
    /\ waiting' = waiting \ {u}
    /\ UNCHANGED <<reading, pre>>

GPNext == \E t \in Threads : Enter(t) \/ Exit(t) \/ Begin(t) \/ End(t)

GPSpec == GPInit /\ [][GPNext]_gpVars
=============================================================================
