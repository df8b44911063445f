------------------------------- MODULE Mutex -------------------------------
(***************************************************************************)
(* The LaOS mutex (kernel/mutex.c), in both build variants, with the       *)
(* priority donation it drives (kernel/thread.c).                          *)
(*                                                                         *)
(* Everything done under a mutex's waiters.lock is one step; the fast path *)
(* takes `locked` with a compare-and-swap outside that lock, and records   *)
(* the owner in a second step.  Any thread that is not BLOCKED may run     *)
(* next: the moves between run queues that a priority change causes are in *)
(* Sched.tla.  Threads take mutexes in increasing order and do not lock a  *)
(* mutex twice, as the callers must.                                       *)
(***************************************************************************)
EXTENDS Integers, Sequences, FiniteSets

CONSTANTS
    Threads,
    None,               \* NULL
    NMutexes,           \* number of mutexes
    PrioCount,          \* SCHED_PRIO_COUNT
    Instances           \* the builds and thread sets: see below

Mutexes == 1 .. NMutexes
Prio == 0 .. PrioCount - 1
PRIO_NONE == PrioCount              \* SCHED_PRIO_NONE

ASSUME NoneAssumption == None \notin Threads
ASSUME NMutexesAssumption == NMutexes \in Nat
ASSUME PrioAssumption == PrioCount \in Nat

(* An instance: is CONFIG_MUTEX_HANDOFF set, on whom threads call          *)
(* thread_set_priority, and every thread's base priority (0 the highest).  *)
ASSUME InstancesAssumption ==
    Instances \subseteq [handoff : BOOLEAN, reprio : SUBSET {"self", "other"},
                         base : [Threads -> Prio]]

VARIABLES
    inst,               \* the instance, which never changes
    locked,             \* per mutex
    owner,              \* per mutex
    donated_priority,   \* per mutex: what it donates to its owner
    waiters,            \* per mutex: its wait queue
    status,             \* per thread: "READY" (or running), "BLOCKED"
    base_priority,      \* per thread
    pi_donations,       \* per thread: how many mutexes donate each priority
    pc,                 \* per thread: where it is in mutex_lock
    want,               \* per thread: the mutex it is locking
    holding,            \* per thread: the mutexes whose lock call returned
    setting             \* per thread: a thread_set_priority past its check

vars == <<locked, owner, donated_priority, waiters, status, base_priority,
          pi_donations, pc, want, holding, setting>>

Handoff == inst.handoff
Reprio == inst.reprio

Elements(s) == {s[i] : i \in DOMAIN s}

----------------------------------------------------------------------------
(* thread_effective_priority(), for the given donations. *)
Effective(don, t) ==
    CHOOSE p \in Prio :
        /\ p = base_priority[t] \/ don[t][p] > 0
        /\ p <= base_priority[t]
        /\ \A q \in Prio : don[t][q] > 0 => p <= q

Priority(t) == Effective(pi_donations, t)

(* thread_priority_update_donation(): a missing donation is a panic, here  *)
(* a negative count.                                                       *)
UpdateDonation(don, t, old, new) ==
    [don EXCEPT ![t] = [p \in Prio |->
        @[p] - (IF p = old THEN 1 ELSE 0) + (IF p = new THEN 1 ELSE 0)]]

(* mutex_waiter_priority_locked(). *)
WaiterPriority(don, ws) == IF ws = <<>> THEN PRIO_NONE
                           ELSE Effective(don, Head(ws))

(* Mutants: arrival order only; the newest first. *)
Mutant_add_waiter_fifo(ws, t) == Append(ws, t)

Mutant_add_waiter_lifo(ws, t) == <<t>> \o ws

(* mutex_add_waiter_locked(): before the first of lower priority. *)
mutex_add_waiter(ws, t) ==
    LET lower == {i \in DOMAIN ws : Priority(t) < Priority(ws[i])}
        k == CHOOSE i \in lower : \A j \in lower : i <= j
    IN  IF lower = {} THEN Append(ws, t)
        ELSE SubSeq(ws, 1, k - 1) \o <<t>> \o SubSeq(ws, k, Len(ws))

(* mutex_refresh_donation_locked() for queue ws and owner o. *)
mutex_refresh_donation(m, don, o, old, ws) ==
    LET new == IF o = None THEN PRIO_NONE ELSE WaiterPriority(don, ws)
    IN  /\ donated_priority' = [donated_priority EXCEPT ![m] = new]
        /\ pi_donations' = IF o = None THEN don
                           ELSE UpdateDonation(don, o, old, new)

(* Mutant: the donation is recorded in the mutex, not in the owner. *)
Mutant_attach_owner(m, don, o, ws) ==
    /\ owner' = [owner EXCEPT ![m] = o]
    /\ donated_priority' = [donated_priority EXCEPT ![m] = WaiterPriority(don, ws)]
    /\ pi_donations' = don

(* mutex_attach_owner_locked(): the new owner gets the waiters' donation.  *)
mutex_attach_owner(m, don, o, ws) ==
    /\ owner' = [owner EXCEPT ![m] = o]
    /\ mutex_refresh_donation(m, don, o, PRIO_NONE, ws)

(* Mutant: the donation stays with the old owner. *)
Mutant_detach_owner(m) == pi_donations

(* mutex_detach_owner_locked(): the donations without m's to its owner.    *)
mutex_detach_owner(m) ==
    IF owner[m] = None THEN pi_donations
    ELSE UpdateDonation(pi_donations, owner[m], donated_priority[m], PRIO_NONE)

----------------------------------------------------------------------------
Init ==
    /\ inst \in Instances
    /\ locked = [m \in Mutexes |-> 0]
    /\ owner = [m \in Mutexes |-> None]
    /\ donated_priority = [m \in Mutexes |-> PRIO_NONE]
    /\ waiters = [m \in Mutexes |-> <<>>]
    /\ status = [t \in Threads |-> "READY"]
    /\ base_priority = inst.base
    /\ pi_donations = [t \in Threads |-> [p \in Prio |-> 0]]
    /\ pc = [t \in Threads |-> "run"]
    /\ want = [t \in Threads |-> 0]
    /\ holding = [t \in Threads |-> {}]
    /\ setting = [t \in Threads |-> {}]

At(t, label) == status[t] = "READY" /\ pc[t] = label

Goto(t, label) == pc' = [pc EXCEPT ![t] = label]

(* mutex_lock returns: t holds the mutex it wanted. *)
Granted(t) ==
    /\ Goto(t, "run")
    /\ holding' = [holding EXCEPT ![t] = @ \cup {want[t]}]
    /\ want' = [want EXCEPT ![t] = 0]

(* Mutant: the mutex is seen free and not taken. *)
Mutant_Take(m) == UNCHANGED locked

Take(m) == locked' = [locked EXCEPT ![m] = 1]

(* A thread calls mutex_lock(m). *)
Call(t, m) ==
    /\ At(t, "run")
    /\ setting[t] = {}
    /\ \A h \in holding[t] : h < m
    /\ want' = [want EXCEPT ![t] = m]
    /\ Goto(t, "try")
    /\ UNCHANGED <<locked, owner, donated_priority, waiters, status,
                   base_priority, pi_donations, holding, setting>>

(* Under handoff a thread that finds itself the owner has been handed the  *)
(* mutex.                                                                  *)
Confirm(t) ==
    /\ Handoff
    /\ status[t] = "READY" /\ pc[t] \in {"try", "slow"}
    /\ owner[want[t]] = t
    /\ Granted(t)
    /\ UNCHANGED <<locked, owner, donated_priority, waiters, status,
                   base_priority, pi_donations, setting>>

(* The fast path.  Under handoff a mutex that has an owner is not tried.   *)
MayTry(t) == Handoff => owner[want[t]] = None

TryLock(t) ==
    /\ At(t, "try")
    /\ MayTry(t) /\ locked[want[t]] = 0
    /\ Take(want[t])
    /\ Goto(t, "attach")
    /\ UNCHANGED <<owner, donated_priority, waiters, status, base_priority,
                   pi_donations, want, holding, setting>>

TryFails(t) ==
    /\ At(t, "try")
    /\ Handoff => owner[want[t]] # t
    /\ ~(MayTry(t) /\ locked[want[t]] = 0)
    /\ Goto(t, "slow")
    /\ UNCHANGED <<locked, owner, donated_priority, waiters, status,
                   base_priority, pi_donations, want, holding, setting>>

Attach(t) ==
    /\ At(t, "attach")
    /\ mutex_attach_owner(want[t], pi_donations, t, waiters[want[t]])
    /\ Granted(t)
    /\ UNCHANGED <<locked, waiters, status, base_priority, setting>>

(* Mutant: the slow path does not try again. *)
Mutant_SlowFree(t) == FALSE

SlowFree(t) == MayTry(t) /\ locked[want[t]] = 0

(* The slow path, under waiters.lock: the mutex is tried once more, ...    *)
SlowTake(t) ==
    /\ At(t, "slow")
    /\ SlowFree(t)
    /\ Take(want[t])
    /\ mutex_attach_owner(want[t], pi_donations, t, waiters[want[t]])
    /\ Granted(t)
    /\ UNCHANGED <<waiters, status, base_priority, setting>>

(* ... or the thread queues itself, BLOCKED, and schedules.  When it runs  *)
(* again it starts over: at the fast path if raw, in the loop if handoff.  *)
SlowBlock(t) ==
    LET m == want[t]
        ws == mutex_add_waiter(waiters[m], t)
    IN  /\ At(t, "slow")
        /\ Handoff => owner[m] # t
        /\ ~SlowFree(t)
        /\ IF t \in Elements(waiters[m])
             THEN UNCHANGED <<waiters, status, donated_priority, pi_donations>>
             ELSE /\ waiters' = [waiters EXCEPT ![m] = ws]
                  /\ status' = [status EXCEPT ![t] = "BLOCKED"]
                  /\ mutex_refresh_donation(m, pi_donations, owner[m],
                                            donated_priority[m], ws)
        /\ Goto(t, IF Handoff THEN "slow" ELSE "try")
        /\ UNCHANGED <<locked, owner, base_priority, want, holding, setting>>

----------------------------------------------------------------------------
(* __wake_up_one(): the head of the queue leaves it and is READY.          *)
__wake_up_one(m) ==
    IF waiters[m] = <<>>
      THEN UNCHANGED <<waiters, status>>
      ELSE /\ waiters' = [waiters EXCEPT ![m] = Tail(@)]
           /\ status' = [status EXCEPT ![Head(waiters[m])] = "READY"]

mutex_unlock_raw(t, m) ==
    /\ ~Handoff
    /\ At(t, "run") /\ setting[t] = {}
    /\ m \in holding[t]
    /\ pi_donations' = mutex_detach_owner(m)
    /\ donated_priority' = [donated_priority EXCEPT ![m] = PRIO_NONE]
    /\ owner' = [owner EXCEPT ![m] = None]
    /\ locked' = [locked EXCEPT ![m] = 0]
    /\ __wake_up_one(m)
    /\ holding' = [holding EXCEPT ![t] = @ \ {m}]
    /\ UNCHANGED <<base_priority, pc, want, setting>>

(* With waiters, locked stays 1 and the head of the queue is the owner.    *)
mutex_unlock_handoff(t, m) ==
    /\ Handoff
    /\ At(t, "run") /\ setting[t] = {}
    /\ m \in holding[t]
    /\ __wake_up_one(m)
    /\ IF waiters[m] # <<>>
         THEN /\ mutex_attach_owner(m, mutex_detach_owner(m),
                                    Head(waiters[m]), Tail(waiters[m]))
              /\ UNCHANGED locked
         ELSE /\ pi_donations' = mutex_detach_owner(m)
              /\ donated_priority' = [donated_priority EXCEPT ![m] = PRIO_NONE]
              /\ owner' = [owner EXCEPT ![m] = None]
              /\ locked' = [locked EXCEPT ![m] = 0]
    /\ holding' = [holding EXCEPT ![t] = @ \ {m}]
    /\ UNCHANGED <<base_priority, pc, want, setting>>

----------------------------------------------------------------------------
(* thread_set_priority(u, p), called by t: the check that u is not BLOCKED *)
(* is made before pi_lock is taken, the change under it.                   *)
SetPriorityCheck(t, u, p) ==
    /\ At(t, "run") /\ setting[t] = {}
    /\ (IF t = u THEN "self" ELSE "other") \in Reprio
    /\ status[u] # "BLOCKED"
    /\ p # base_priority[u]
    /\ setting' = [setting EXCEPT ![t] = {<<u, p>>}]
    /\ UNCHANGED <<locked, owner, donated_priority, waiters, status,
                   base_priority, pi_donations, pc, want, holding>>

SetPriorityApply(t) ==
    /\ At(t, "run")
    /\ \E s \in setting[t] : base_priority' = [base_priority EXCEPT ![s[1]] = s[2]]
    /\ setting' = [setting EXCEPT ![t] = {}]
    /\ UNCHANGED <<locked, owner, donated_priority, waiters, status,
                   pi_donations, pc, want, holding>>

Locking(t) ==
    \/ Confirm(t) \/ TryLock(t) \/ TryFails(t) \/ Attach(t)
    \/ SlowTake(t) \/ SlowBlock(t)

mutex_unlock(t, m) == mutex_unlock_raw(t, m) \/ mutex_unlock_handoff(t, m)

Next ==
    \E t \in Threads :
        \/ \E m \in Mutexes : Call(t, m) \/ mutex_unlock(t, m)
        \/ Locking(t)
        \/ \E u \in Threads, p \in Prio : SetPriorityCheck(t, u, p)
        \/ SetPriorityApply(t)

Spec == Init /\ [][Next /\ UNCHANGED inst]_<<vars, inst>>

(* The instances where no thread is preferred: nothing is assumed of the   *)
(* scheduling of the others.                                               *)
Equals == Handoff /\ Reprio = {} /\ \A t, u \in Threads : inst.base[t] = inst.base[u]

(* A thread that is not BLOCKED goes on with the lock call it is in (it is *)
(* scheduled), and the holder of a mutex unlocks it.                       *)
Fairness ==
    \A t \in Threads :
        /\ WF_vars(Equals /\ Locking(t))
        /\ \A m \in Mutexes : SF_vars(Equals /\ mutex_unlock(t, m))

FairSpec == Spec /\ Fairness
----------------------------------------------------------------------------
(* Every variable keeps its type; no donation is ever missing when it is   *)
(* taken back (a panic in thread_priority_update_donation).                *)
TypeOK ==
    /\ locked \in [Mutexes -> {0, 1}]
    /\ owner \in [Mutexes -> Threads \cup {None}]
    /\ donated_priority \in [Mutexes -> Prio \cup {PRIO_NONE}]
    /\ waiters \in [Mutexes -> Seq(Threads)]
    /\ status \in [Threads -> {"READY", "BLOCKED"}]
    /\ base_priority \in [Threads -> Prio]
    /\ pi_donations \in [Threads -> [Prio -> Nat]]
    /\ pc \in [Threads -> {"run", "try", "attach", "slow"}]
    /\ want \in [Threads -> Mutexes \cup {0}]
    /\ holding \in [Threads -> SUBSET Mutexes]
    /\ setting \in [Threads -> SUBSET (Threads \X Prio)]

(* A mutex has one holder, which is its recorded owner; a fast path that   *)
(* has won the compare-and-swap never overwrites another owner ("MUTEX     *)
(* CORRUPTION" in mutex_attach_owner_locked).                              *)
MutualExclusion ==
    \A m \in Mutexes :
        /\ \A t \in Threads : m \in holding[t] => owner[m] = t /\ locked[m] = 1
        /\ \A t, u \in Threads :
              pc[t] = "attach" /\ want[t] = m
                 => /\ owner[m] = None /\ locked[m] = 1
                    /\ pc[u] = "attach" /\ want[u] = m => t = u

(* The aggregation invariant of the mutex design: a thread's donation      *)
(* count at a priority is the number of mutexes it owns that donate it, so *)
(* that unlocking one never takes away another's donation.                 *)
DonationAccounting ==
    \A t \in Threads, p \in Prio :
        pi_donations[t][p] =
            Cardinality({m \in Mutexes : owner[m] = t /\ donated_priority[m] = p})

(* The owner of a mutex runs at no lower priority than each thread that    *)
(* waits for it, through nested locks and changes of priority              *)
(* (thread_set_priority: the owner must not keep a stale priority).        *)
NoPriorityInversion ==
    \A m \in Mutexes : owner[m] # None =>
        \A w \in Elements(waiters[m]) : Priority(owner[m]) <= base_priority[w]

(* No wakeup is lost: a thread is BLOCKED exactly while it is queued,      *)
(* once, on what it wants; a free mutex with waiters always has a runnable *)
(* thread on its way to it, whose unlock will wake the next; under handoff *)
(* a mutex with waiters is never free.                                     *)
NoLostWakeup ==
    /\ \A t \in Threads : status[t] = "BLOCKED" <=>
          \E m \in Mutexes : want[t] = m /\ t \in Elements(waiters[m])
    /\ \A m \in Mutexes :
          /\ Len(waiters[m]) = Cardinality(Elements(waiters[m]))
          /\ locked[m] = 0 /\ waiters[m] # <<>> =>
                /\ ~Handoff
                /\ \E t \in Threads : want[t] = m /\ status[t] = "READY"

(* Handoff prevents the starvation of waiters (config.h) where priorities  *)
(* are equal and stay so: every mutex_lock returns if every holder unlocks. *)
LockGranted ==
    Equals => \A t \in Threads : pc[t] = "try" ~> pc[t] = "run"
=============================================================================
