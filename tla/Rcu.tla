-------------------------------- MODULE Rcu --------------------------------
(***************************************************************************)
(* LaOS preemptible RCU: kernel/rcu.c and the inline read side of          *)
(* kernel/rcu.h, with the two hooks that drive it, the timer tick          *)
(* (kernel/timer.c) and the context switch (kernel/sched.c).               *)
(*                                                                         *)
(* A thread never migrates, so target_cpu is a constant.  The idle thread  *)
(* of CPU c is written c.  Which thread a CPU switches to, and when, is    *)
(* left open here: the policy is the business of Sched.tla, and the grace  *)
(* period must be right under every policy.  A section that runs with      *)
(* blocked_lock held and local interrupts off is one step; the read-side   *)
(* code that runs with interrupts on is split wherever a preemption or     *)
(* another CPU can come between.                                           *)
(***************************************************************************)
EXTENDS Integers

CONSTANTS
    NCpus,          \* g_cpu_count
    Threads,        \* the threads beside the idle ones
    Users,          \* the sets of them that may exist
    target_cpu,     \* the CPU each thread is bound to
    MaxNesting,     \* bound on the depth of nested read sections
    MaxGp           \* bound on the number of grace periods

Cpus == 0 .. NCpus - 1

ASSUME NCpusAssumption == NCpus \in Nat \ {0}
ASSUME ThreadsAssumption == Threads \cap Cpus = {}
ASSUME TargetAssumption == target_cpu \in [Threads -> Cpus]
ASSUME UsersAssumption == Users \subseteq SUBSET Threads
ASSUME BoundsAssumption == MaxNesting \in Nat /\ MaxGp \in Nat

Tasks == Threads \cup Cpus      \* the idle thread of CPU c is c

CpuOf(t) == IF t \in Threads THEN target_cpu[t] ELSE t

VARIABLES
    users,              \* the threads there are; it never changes
    current,            \* per CPU: cpu_context.current
    rcu_nesting,        \* per task: depth of its read section
    rcu_blocked,        \* per task: registered in blocked_tasks
    blocked_tasks,      \* rcu_state.blocked_tasks (its order is never read)
    gp_seq,             \* rcu_state.gp_seq
    rcu_gp_seq_seen,    \* per CPU: last grace period it confirmed
    pc,                 \* per thread: where it is in rcu_read_unlock/synchronize_rcu
    loaded,             \* per thread: gp_seq as loaded at the end of rcu_read_unlock
    target,             \* per thread: the grace period synchronize_rcu waits for
    cursor,             \* per thread: the CPU phase one is waiting for
    pre                 \* history: open sections that a synchronize_rcu found

vars == <<current, rcu_nesting, rcu_blocked, blocked_tasks, gp_seq,
          rcu_gp_seq_seen, pc, loaded, target, cursor, pre>>

Readers == {t \in Threads : rcu_nesting[t] > 0}

(* A thread executes only while it is the current thread of its CPU. *)
Runs(t) == current[CpuOf(t)] = t

At(t, label) == Runs(t) /\ pc[t] = label

Goto(t, label) == pc' = [pc EXCEPT ![t] = label]

----------------------------------------------------------------------------
(* rcu_state and the per-CPU and per-thread fields after boot: every CPU   *)
(* runs its idle thread.                                                   *)
Init ==
    /\ users \in Users
    /\ current = [c \in Cpus |-> c]
    /\ rcu_nesting = [t \in Tasks |-> 0]
    /\ rcu_blocked = [t \in Tasks |-> FALSE]
    /\ blocked_tasks = {}
    /\ gp_seq = 0
    /\ rcu_gp_seq_seen = [c \in Cpus |-> 0]
    /\ pc = [t \in Threads |-> "run"]
    /\ loaded = [t \in Threads |-> 0]
    /\ target = [t \in Threads |-> 0]
    /\ cursor = [t \in Threads |-> 0]
    /\ pre = [t \in Threads |-> {}]

rcu_read_lock(t) ==
    /\ At(t, "run")
    /\ rcu_nesting[t] < MaxNesting
    /\ rcu_nesting' = [rcu_nesting EXCEPT ![t] = @ + 1]
    /\ UNCHANGED <<current, rcu_blocked, blocked_tasks, gp_seq,
                   rcu_gp_seq_seen, pc, loaded, target, cursor, pre>>

(* rcu_read_unlock, first step: the section ends when nesting drops to 0. *)
rcu_read_unlock(t) ==
    /\ At(t, "run")
    /\ rcu_nesting[t] > 0
    /\ rcu_nesting' = [rcu_nesting EXCEPT ![t] = @ - 1]
    /\ IF rcu_nesting[t] = 1
         THEN /\ Goto(t, "unregister")
              /\ pre' = [u \in Threads |-> pre[u] \ {t}]
         ELSE UNCHANGED <<pc, pre>>
    /\ UNCHANGED <<current, rcu_blocked, blocked_tasks, gp_seq,
                   rcu_gp_seq_seen, loaded, target, cursor>>

(* A reader that was switched out leaves blocked_tasks under blocked_lock. *)
Unregister(t) ==
    /\ At(t, "unregister")
    /\ IF rcu_blocked[t]
         THEN /\ blocked_tasks' = blocked_tasks \ {t}
              /\ Goto(t, "clear")
         ELSE /\ Goto(t, "load")
              /\ UNCHANGED blocked_tasks
    /\ UNCHANGED <<current, rcu_nesting, rcu_blocked, gp_seq,
                   rcu_gp_seq_seen, loaded, target, cursor, pre>>

(* The flag is cleared after the lock is dropped and interrupts are back. *)
ClearBlocked(t) ==
    /\ At(t, "clear")
    /\ rcu_blocked' = [rcu_blocked EXCEPT ![t] = FALSE]
    /\ Goto(t, "load")
    /\ UNCHANGED <<current, rcu_nesting, blocked_tasks, gp_seq,
                   rcu_gp_seq_seen, loaded, target, cursor, pre>>

(* seen := gp_seq at the end of rcu_read_unlock is a load and a store with *)
(* interrupts on: the thread may be preempted between the two.             *)
LoadGpSeq(t) ==
    /\ At(t, "load")
    /\ loaded' = [loaded EXCEPT ![t] = gp_seq]
    /\ Goto(t, "store")
    /\ UNCHANGED <<current, rcu_nesting, rcu_blocked, blocked_tasks, gp_seq,
                   rcu_gp_seq_seen, target, cursor, pre>>

StoreSeen(t) ==
    /\ At(t, "store")
    /\ rcu_gp_seq_seen' = [rcu_gp_seq_seen EXCEPT ![CpuOf(t)] = loaded[t]]
    /\ loaded' = [loaded EXCEPT ![t] = 0]          \* the register is dead
    /\ Goto(t, "run")
    /\ UNCHANGED <<current, rcu_nesting, rcu_blocked, blocked_tasks, gp_seq,
                   target, cursor, pre>>

----------------------------------------------------------------------------
Mutant_note_context_switch(c, prev) ==      \* outermost readers forgotten
    IF rcu_nesting[prev] > 1
      THEN /\ rcu_blocked' = [rcu_blocked EXCEPT ![prev] = TRUE]
           /\ blocked_tasks' = blocked_tasks \cup {prev}
           /\ UNCHANGED rcu_gp_seq_seen
      ELSE /\ rcu_gp_seq_seen' = [rcu_gp_seq_seen EXCEPT ![c] = gp_seq]
           /\ UNCHANGED <<rcu_blocked, blocked_tasks>>

(* rcu_note_context_switch(prev): a reader is registered once, any other   *)
(* switch is a quiescent point of the CPU.                                 *)
rcu_note_context_switch(c, prev) ==
    IF rcu_nesting[prev] > 0
      THEN /\ rcu_blocked' = [rcu_blocked EXCEPT ![prev] = TRUE]
           /\ blocked_tasks' = IF rcu_blocked[prev] THEN blocked_tasks
                               ELSE blocked_tasks \cup {prev}
           /\ UNCHANGED rcu_gp_seq_seen
      ELSE /\ rcu_gp_seq_seen' = [rcu_gp_seq_seen EXCEPT ![c] = gp_seq]
           /\ UNCHANGED <<rcu_blocked, blocked_tasks>>

(* __schedule() on CPU c: the hook, then current := next. *)
Switch(c, next) ==
    /\ next \in users \cup Cpus /\ CpuOf(next) = c
    /\ next # current[c]
    /\ rcu_note_context_switch(c, current[c])
    /\ current' = [current EXCEPT ![c] = next]
    /\ UNCHANGED <<rcu_nesting, gp_seq, pc, loaded, target, cursor, pre>>

(* Three wrong ticks: blind to the read section, ahead of gp_seq, deaf     *)
(* on an idle CPU.                                                         *)
Mutant_tick_blind(c) ==
    /\ rcu_gp_seq_seen' = [rcu_gp_seq_seen EXCEPT ![c] = gp_seq]
    /\ UNCHANGED <<current, rcu_nesting, rcu_blocked, blocked_tasks, gp_seq,
                   pc, loaded, target, cursor, pre>>

Mutant_tick_ahead(c) ==
    /\ rcu_nesting[current[c]] = 0
    /\ rcu_gp_seq_seen' = [rcu_gp_seq_seen EXCEPT ![c] = gp_seq + 1]
    /\ UNCHANGED <<current, rcu_nesting, rcu_blocked, blocked_tasks, gp_seq,
                   pc, loaded, target, cursor, pre>>

Mutant_tick_deaf(c) ==
    /\ current[c] # c
    /\ rcu_nesting[current[c]] = 0
    /\ rcu_gp_seq_seen' = [rcu_gp_seq_seen EXCEPT ![c] = gp_seq]
    /\ UNCHANGED <<current, rcu_nesting, rcu_blocked, blocked_tasks, gp_seq,
                   pc, loaded, target, cursor, pre>>

(* The timer tick's share: rcu_check_quiescent_state(). *)
rcu_check_quiescent_state(c) ==
    /\ rcu_nesting[current[c]] = 0
    /\ rcu_gp_seq_seen' = [rcu_gp_seq_seen EXCEPT ![c] = gp_seq]
    /\ UNCHANGED <<current, rcu_nesting, rcu_blocked, blocked_tasks, gp_seq,
                   pc, loaded, target, cursor, pre>>

----------------------------------------------------------------------------
(* synchronize_rcu(): a new grace period. The caller is not a reader.      *)
synchronize_rcu(t) ==
    /\ At(t, "run")
    /\ rcu_nesting[t] = 0
    /\ gp_seq < MaxGp
    /\ gp_seq' = gp_seq + 1
    /\ target' = [target EXCEPT ![t] = gp_seq + 1]
    /\ cursor' = [cursor EXCEPT ![t] = 0]
    /\ pre' = [pre EXCEPT ![t] = Readers]
    /\ Goto(t, "phase1")
    /\ UNCHANGED <<current, rcu_nesting, rcu_blocked, blocked_tasks,
                   rcu_gp_seq_seen, loaded>>

(* Phase one: the CPUs one after the other, each until it confirmed target.*)
Phase1(t) ==
    /\ At(t, "phase1")
    /\ IF cursor[t] < NCpus
         THEN /\ rcu_gp_seq_seen[cursor[t]] >= target[t]
              /\ cursor' = [cursor EXCEPT ![t] = @ + 1]
              /\ UNCHANGED pc
         ELSE /\ Goto(t, "phase2")
              /\ UNCHANGED cursor
    /\ UNCHANGED <<current, rcu_nesting, rcu_blocked, blocked_tasks, gp_seq,
                   rcu_gp_seq_seen, loaded, target, pre>>

Mutant_Phase2(t) ==                         \* phase two forgotten
    /\ At(t, "phase2")
    /\ Goto(t, "free")
    /\ target' = [target EXCEPT ![t] = 0]
    /\ cursor' = [cursor EXCEPT ![t] = 0]
    /\ UNCHANGED <<current, rcu_nesting, rcu_blocked, blocked_tasks, gp_seq,
                   rcu_gp_seq_seen, loaded, pre>>

(* Phase two: until blocked_tasks is seen empty under blocked_lock. *)
Phase2(t) ==
    /\ At(t, "phase2")
    /\ blocked_tasks = {}
    /\ Goto(t, "free")
    /\ target' = [target EXCEPT ![t] = 0]          \* the locals are dead
    /\ cursor' = [cursor EXCEPT ![t] = 0]
    /\ UNCHANGED <<current, rcu_nesting, rcu_blocked, blocked_tasks, gp_seq,
                   rcu_gp_seq_seen, loaded, pre>>

(* The caller reclaims what it had unpublished, and goes on. *)
Reclaim(t) ==
    /\ At(t, "free")
    /\ Goto(t, "run")
    /\ UNCHANGED <<current, rcu_nesting, rcu_blocked, blocked_tasks, gp_seq,
                   rcu_gp_seq_seen, loaded, target, cursor, pre>>

Unlock(t) == \/ Unregister(t) \/ ClearBlocked(t)
             \/ LoadGpSeq(t) \/ StoreSeen(t)

Sync(t) == Phase1(t) \/ Phase2(t) \/ Reclaim(t)

Next ==
    \/ \E t \in Threads :
          \/ rcu_read_lock(t) \/ rcu_read_unlock(t) \/ Unlock(t)
          \/ synchronize_rcu(t) \/ Sync(t)
    \/ \E c \in Cpus :
          \/ rcu_check_quiescent_state(c)
          \/ \E next \in Tasks : Switch(c, next)

Spec == Init /\ [][Next /\ UNCHANGED users]_<<vars, users>>

(* A CPU that only idles: it never switches, and nothing but its ticks can *)
(* confirm a grace period.                                                 *)
QuietCpu == \E c \in Cpus : \A t \in users : CpuOf(t) # c

(***************************************************************************)
(* Fairness, asked only where a CPU is quiet.  The timer interrupts every  *)
(* CPU for ever; pick_next rotates threads of equal priority, so a thread  *)
(* that is runnable becomes current again; a thread that runs again and    *)
(* again makes progress, and a reader leaves its outermost section.  A     *)
(* thread need not enter a section or ask for a grace period.              *)
(***************************************************************************)
Fairness ==
    /\ \A c \in Cpus : WF_vars(QuietCpu /\ rcu_check_quiescent_state(c))
    /\ \A t \in Threads :
          /\ WF_vars(QuietCpu /\ Switch(CpuOf(t), t))
          /\ SF_vars(/\ QuietCpu
                     /\ \/ Unlock(t) \/ Sync(t)
                        \/ rcu_nesting[t] > 1 /\ rcu_read_unlock(t))
          /\ SF_vars(QuietCpu /\ rcu_nesting[t] = 1 /\ rcu_read_unlock(t))

FairSpec == Spec /\ Fairness
----------------------------------------------------------------------------
Labels == {"run", "unregister", "clear", "load", "store",
           "phase1", "phase2", "free"}

(* Every variable keeps its type; the counters never pass gp_seq. *)
TypeOK ==
    /\ current \in [Cpus -> Tasks]
    /\ \A c \in Cpus : CpuOf(current[c]) = c
    /\ rcu_nesting \in [Tasks -> Nat]
    /\ rcu_blocked \in [Tasks -> BOOLEAN]
    /\ blocked_tasks \subseteq Tasks
    /\ gp_seq \in Nat
    /\ rcu_gp_seq_seen \in [Cpus -> 0 .. gp_seq]
    /\ pc \in [Threads -> Labels]
    /\ loaded \in [Threads -> 0 .. gp_seq]
    /\ target \in [Threads -> 0 .. gp_seq]
    /\ cursor \in [Threads -> 0 .. NCpus]
    /\ pre \in [Threads -> SUBSET Threads]

(* The grace period: when synchronize_rcu() has returned and its caller    *)
(* reclaims, every read section that was open when it was called is over,  *)
(* on whichever CPU, preempted or not (rcu.c, synchronize_rcu).            *)
GracePeriodSafe == \A t \in Threads : pc[t] = "free" => pre[t] = {}

(* A thread that is switched out inside a read section is in blocked_tasks,*)
(* so that phase two can see it although its CPU reports quiescent points  *)
(* (rcu_note_context_switch).                                              *)
PreemptedReadersRegistered ==
    \A t \in Readers : ~Runs(t) => t \in blocked_tasks

(* blocked_tasks is never given a node twice nor asked to drop one that is *)
(* not in it: the flag and the membership agree except between list_del    *)
(* and the clearing of the flag (rcu_read_unlock).                         *)
FlagMatchesList ==
    /\ \A t \in blocked_tasks : rcu_blocked[t] /\ t \in Threads
    /\ \A t \in Threads :
          rcu_blocked[t] => (t \in blocked_tasks <=> pc[t] # "clear")

(* The list protocol that phase two relies on: both of the above. *)
ReadersListed == PreemptedReadersRegistered /\ FlagMatchesList

(* Phase one ends: every CPU, the quiet one and those that run readers     *)
(* without ever blocking, confirms every grace period (rcu.c: "each CPU    *)
(* updates its local sequence by the next tick at the latest").            *)
PhaseOneEnds ==
    QuietCpu => \A t \in Threads : pc[t] = "phase1" ~> pc[t] = "phase2"

(* The abstract grace-period specification this module implements. *)
GP == INSTANCE GracePeriod WITH
          reading <- Readers,
          waiting <- {t \in Threads : pc[t] \in {"phase1", "phase2"}}

(* Implementation of GracePeriod: synchronize_rcu() never returns early. *)
ImplementsGracePeriod == GP!GPSpec
=============================================================================
