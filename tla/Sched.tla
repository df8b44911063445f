------------------------------- MODULE Sched -------------------------------
(***************************************************************************)
(* The LaOS scheduler: kernel/sched.c with the run queues of arch cpu.c,   *)
(* the timer tick, the reschedule IPI, thread_exit and the idle loop that  *)
(* reaps dead threads.                                                     *)
(*                                                                         *)
(* A thread is bound to its CPU for life and stays on that CPU's run queue *)
(* while it runs, blocks or sleeps: pick_next selects by status.  The idle *)
(* thread of CPU c is written c and is on no queue.  What runs under a     *)
(* queue lock with local interrupts off is one step; between such steps    *)
(* the other CPUs act, and, where interrupts are on, so does the timer.    *)
(***************************************************************************)
EXTENDS Integers, Sequences, FiniteSets

CONSTANTS
    Cpus,           \* CPU numbers
    Bsp,            \* the CPU whose tick advances g_ticks
    Threads,        \* every thread but the idle ones
    Main,           \* the thread the BSP boots into
    UserThreads,    \* threads with a page table of their own
    target_cpu,     \* the CPU each thread is bound to
    PrioCount,      \* SCHED_PRIO_COUNT
    InitPrio,       \* the priority each thread is created with
    OpSets,         \* what the threads may do: one of these sets, for good
    MaxTicks        \* bound on g_ticks

ASSUME BspAssumption == Bsp \in Cpus
ASSUME ThreadsAssumption == Threads \cap Cpus = {}
ASSUME MainAssumption == Main \in Threads /\ target_cpu[Main] = Bsp
ASSUME TargetAssumption == target_cpu \in [Threads -> Cpus]
ASSUME UserAssumption == UserThreads \subseteq Threads
ASSUME PrioAssumption == PrioCount \in Nat \ {0}
                         /\ InitPrio \in [Threads -> 0 .. PrioCount - 1]
ASSUME MaxTicksAssumption == MaxTicks \in Nat

Tasks == Threads \cup Cpus
Prio == 0 .. PrioCount - 1           \* 0 is the highest priority
CpuOf(t) == IF t \in Threads THEN target_cpu[t] ELSE t
ZOMBIE_MAX == 0
KernelRoot == "kernel"

ASSUME RootAssumption == KernelRoot \notin Threads

VARIABLES
    status,         \* per task: its state; NEW and FREED are before and after
    priority,       \* per thread: effective priority
    wakeup_ticks,   \* per thread: when a SLEEPING thread is due
    rcu_nesting,    \* per thread: inside an RCU read section
    pc,             \* per thread: where it is in a call that blocks or kicks
    kick_cpu,       \* per thread: whom ipi_reschedule_cpu is about to kick
    outer,          \* per task: `next` of each suspended outer __schedule()
    runqueue,       \* per CPU: heads, bitmap, count
    zombiequeue,    \* per CPU: likewise
    current,        \* per CPU
    need_resched,   \* per CPU
    preempt_count,  \* per CPU
    active_pml4,    \* per CPU: the page-table root in CR3
    phase,          \* per CPU: "body", or the step of __schedule() it is at
    next,           \* per CPU: __schedule()'s next, c itself when dead
    g_ticks,
    ops             \* the member of OpSets the threads of this behaviour do

queues == <<runqueue, zombiequeue>>
cpuVars == <<current, need_resched, preempt_count, active_pml4, phase, next>>
threadVars == <<status, priority, wakeup_ticks, rcu_nesting, pc, kick_cpu,
                outer>>
vars == <<status, priority, wakeup_ticks, rcu_nesting, pc, kick_cpu, outer,
          runqueue, zombiequeue, current, need_resched, preempt_count,
          active_pml4, phase, next, g_ticks>>

----------------------------------------------------------------------------
(* Run queues (list_del, list_add, list_add_tail and the bitmap upkeep     *)
(* around them).                                                           *)
EmptyQueue == [heads |-> [p \in Prio |-> <<>>], bitmap |-> {}, count |-> 0]

(* list_del(): the node of t, if it is on list s, leaves it. *)
Without(s, t) ==
    LET k == CHOOSE i \in DOMAIN s : s[i] = t
    IN  IF \A i \in DOMAIN s : s[i] # t THEN s
        ELSE [i \in 1 .. Len(s) - 1 |-> IF i < k THEN s[i] ELSE s[i + 1]]

(* Mutant: the bitmap upkeep is forgotten. *)
Mutant_Unlink(q, t, p) ==
    [q EXCEPT !.heads = [x \in Prio |-> Without(q.heads[x], t)]]

Unlink(q, t, p) ==
    LET heads == [x \in Prio |-> Without(q.heads[x], t)]
    IN  [heads |-> heads,
         bitmap |-> IF heads[p] = <<>> THEN q.bitmap \ {p} ELSE q.bitmap,
         count |-> q.count]

LinkHead(q, t, p) == [heads |-> [q.heads EXCEPT ![p] = <<t>> \o @],
                      bitmap |-> q.bitmap \cup {p},
                      count |-> q.count]

LinkTail(q, t, p) == [heads |-> [q.heads EXCEPT ![p] = Append(@, t)],
                      bitmap |-> q.bitmap \cup {p},
                      count |-> q.count]

Elements(s) == {s[i] : i \in DOMAIN s}

OnQueue(q) == UNION {Elements(q.heads[p]) : p \in Prio}

(* Mutant: the count is forgotten. *)
Mutant_enqueue_raw(q, t) == LinkHead(q, t, priority[t])

runqueue_enqueue_raw(q, t) ==
    [LinkHead(q, t, priority[t]) EXCEPT !.count = @ + 1]

runqueue_enqueue_tail_raw(q, t) ==
    [LinkTail(q, t, priority[t]) EXCEPT !.count = @ + 1]

----------------------------------------------------------------------------
(* kmain has started Main on the BSP; every other CPU is in its idle loop. *)
Init ==
    /\ ops \in OpSets
    /\ status = [t \in Tasks |-> IF t = Main THEN "RUNNING"
                                 ELSE IF t \in Cpus THEN "READY" ELSE "NEW"]
    /\ priority = InitPrio
    /\ wakeup_ticks = [t \in Threads |-> 0]
    /\ rcu_nesting = [t \in Threads |-> 0]
    /\ pc = [t \in Threads |-> "body"]
    /\ kick_cpu = [t \in Threads |-> Bsp]
    /\ outer = [t \in Tasks |-> <<>>]
    /\ runqueue = [c \in Cpus |->
                     IF c = Bsp THEN runqueue_enqueue_raw(EmptyQueue, Main)
                     ELSE EmptyQueue]
    /\ zombiequeue = [c \in Cpus |-> EmptyQueue]
    /\ current = [c \in Cpus |-> IF c = Bsp THEN Main ELSE c]
    /\ need_resched = [c \in Cpus |-> FALSE]
    /\ preempt_count = [c \in Cpus |-> 0]
    /\ active_pml4 = [c \in Cpus |-> KernelRoot]
    /\ phase = [c \in Cpus |-> "body"]
    /\ next = [c \in Cpus |-> c]
    /\ g_ticks = 0

(* Thread t executes its own code, at the given point. *)
At(t, label) ==
    /\ current[CpuOf(t)] = t
    /\ phase[CpuOf(t)] = "body"
    /\ pc[t] = label

Goto(t, label) == pc' = [pc EXCEPT ![t] = label]
SetStatus(t, s) == status' = [status EXCEPT ![t] = s]

(* CPU c can take an interrupt: it is not inside __schedule(), and not     *)
(* between the requeueing and the kick of a priority change (pi_lock).     *)
IrqsOn(c) ==
    /\ phase[c] = "body"
    /\ current[c] \in Threads => pc[current[c]] # "pi_kick"

(* __schedule() is entered with preempt_count = 0 and drops the request.   *)
Enter(c) ==
    /\ need_resched' = [need_resched EXCEPT ![c] = FALSE]
    /\ phase' = [phase EXCEPT ![c] = "pick"]

(* __schedule() returns in task t on CPU c: to t's code, or, when t was    *)
(* suspended in the RCU hook of an outer __schedule(), to that call.       *)
Return(c, t) ==
    /\ phase' = [phase EXCEPT ![c] = IF outer[t] = <<>> THEN "body"
                                     ELSE "switch"]
    /\ next' = [next EXCEPT ![c] = IF outer[t] = <<>> THEN c
                                   ELSE Head(outer[t])]
    /\ outer' = [outer EXCEPT ![t] = IF @ = <<>> THEN @ ELSE Tail(@)]

----------------------------------------------------------------------------
(* __schedule(), second step: sched_idle_zombie() and pick_next().         *)

(* Mutant: sleepers are left to others. *)
Mutant_Eligible(t) == status[t] = "READY"

(* pick_next's candidates at one priority: READY, or SLEEPING and due.     *)
Eligible(t) == \/ status[t] = "READY"
               \/ status[t] = "SLEEPING" /\ wakeup_ticks[t] <= g_ticks

(* The first candidate of the highest priority that has one.               *)
Candidates(q) ==
    {p \in q.bitmap : \E t \in Elements(q.heads[p]) : Eligible(t)}
FoundPrio(q) == CHOOSE p \in Candidates(q) : \A r \in Candidates(q) : p <= r
Found(q) ==
    LET s == q.heads[FoundPrio(q)]
        k == CHOOSE i \in DOMAIN s :
                Eligible(s[i]) /\ \A j \in DOMAIN s : Eligible(s[j]) => i <= j
    IN  s[k]

(* Mutant: the running thread does not make way for its equals. *)
Mutant_KeepPrev(c, q) ==
    LET prev == current[c]
    IN  /\ prev # c
        /\ status[prev] = "RUNNING"
        /\ Candidates(q) = {} \/ priority[prev] <= FoundPrio(q)

(* The running thread goes on if nothing of its priority or above is ready.*)
KeepPrev(c, q) ==
    LET prev == current[c]
    IN  /\ prev # c
        /\ status[prev] = "RUNNING"
        /\ Candidates(q) = {} \/ priority[prev] < FoundPrio(q)

(* What __schedule() does once `to` is chosen: nothing if it is prev.      *)
Chosen(c, to) ==
    IF to = current[c]
      THEN Return(c, to)
      ELSE /\ next' = [next EXCEPT ![c] = to]
           /\ phase' = [phase EXCEPT ![c] = "hook"]
           /\ UNCHANGED outer

(* The chosen thread goes to the tail of its list: round robin.            *)
Rotate(q, t, p) == LinkTail(Unlink(q, t, p), t, p)

(* Mutant: prev is left RUNNING. *)
Mutant_StatusAfter(prev, to) == [status EXCEPT ![to] = "RUNNING"]

(* The chosen one becomes RUNNING; prev, if it still was, becomes READY.   *)
StatusAfter(prev, to) ==
    [t \in Tasks |-> IF t = to THEN "RUNNING"
                     ELSE IF t = prev /\ status[t] = "RUNNING" THEN "READY"
                     ELSE status[t]]

pick_next(c, q) ==
    LET prev == current[c]
        to == IF KeepPrev(c, q) THEN prev
              ELSE IF Candidates(q) = {} THEN c ELSE Found(q)
    IN  IF q.count = 0
          THEN /\ Chosen(c, c)
               /\ runqueue' = [runqueue EXCEPT ![c] = q]
               /\ UNCHANGED status
          ELSE /\ Chosen(c, to)
               /\ runqueue' = [runqueue EXCEPT ![c] =
                     IF to \in {prev, c} THEN q ELSE Rotate(q, to, FoundPrio(q))]
               /\ status' = StatusAfter(prev, to)

(* A dead prev moves to the zombie queue; idle runs while that has any.    *)
Pick(c) ==
    LET prev == current[c]
        dead == status[prev] = "ZOMBIE"
        rq == IF dead THEN [Unlink(runqueue[c], prev, priority[prev])
                            EXCEPT !.count = @ - 1]
              ELSE runqueue[c]
        zq == IF dead THEN runqueue_enqueue_raw(zombiequeue[c], prev)
              ELSE zombiequeue[c]
    IN  /\ phase[c] = "pick"
        /\ zombiequeue' = [zombiequeue EXCEPT ![c] = zq]
        /\ IF zq.count > ZOMBIE_MAX
             THEN /\ Chosen(c, c)
                  /\ runqueue' = [runqueue EXCEPT ![c] = rq]
                  /\ UNCHANGED status
             ELSE pick_next(c, rq)
        /\ UNCHANGED <<priority, wakeup_ticks, rcu_nesting, pc, kick_cpu,
                       current, need_resched, preempt_count, active_pml4,
                       g_ticks>>

InReadSection(t) == t \in Threads /\ rcu_nesting[t] > 0

(* rcu_note_context_switch(): for a reader it takes and drops blocked_lock,*)
(* and spin_unlock() ends in preempt_enable(), which schedules once more   *)
(* when need_resched has been set since __schedule() cleared it.           *)
Hook(c) ==
    /\ phase[c] = "hook"
    /\ ~(InReadSection(current[c]) /\ need_resched[c])
    /\ phase' = [phase EXCEPT ![c] = "switch"]
    /\ UNCHANGED <<threadVars, queues, current, need_resched, preempt_count,
                   active_pml4, next, g_ticks>>

HookPreempted(c) ==
    /\ phase[c] = "hook"
    /\ InReadSection(current[c]) /\ need_resched[c]
    /\ Enter(c)
    /\ outer' = [outer EXCEPT ![current[c]] = <<next[c]>> \o @]
    /\ next' = [next EXCEPT ![c] = c]
    /\ UNCHANGED <<status, priority, wakeup_ticks, rcu_nesting, pc, kick_cpu,
                   queues, current, preempt_count, active_pml4, g_ticks>>

(* Mutant: a dead root is kept. *)
Mutant_switch_mm(c, prev, to) ==
    active_pml4' = [active_pml4 EXCEPT ![c] = IF to \in UserThreads THEN to ELSE @]

(* A user thread loads its root; a kernel thread keeps the one it finds,   *)
(* unless the thread before it has exited.                                 *)
switch_mm(c, prev, to) ==
    active_pml4' = [active_pml4 EXCEPT ![c] =
        IF to \in UserThreads THEN to
        ELSE IF status[prev] = "ZOMBIE" THEN KernelRoot ELSE @]

SwitchTo(c) ==
    /\ phase[c] = "switch"
    /\ switch_mm(c, current[c], next[c])
    /\ current' = [current EXCEPT ![c] = next[c]]
    /\ Return(c, next[c])
    /\ UNCHANGED <<status, priority, wakeup_ticks, rcu_nesting, pc, kick_cpu,
                   queues, need_resched, preempt_count, g_ticks>>

----------------------------------------------------------------------------
(* Interrupts.                                                             *)

(* The timer: the BSP counts; every tenth tick asks for a reschedule.      *)
Tick(c, slice) ==
    /\ IrqsOn(c)
    /\ g_ticks' = IF c = Bsp /\ g_ticks < MaxTicks THEN g_ticks + 1 ELSE g_ticks
    /\ need_resched' = [need_resched EXCEPT ![c] = @ \/ slice]
    /\ UNCHANGED <<threadVars, queues, current, preempt_count, active_pml4,
                   phase, next>>

(* ret_from_intr: the end of any interrupt, the reschedule IPI included.   *)
IrqReturn(c) ==
    /\ IrqsOn(c)
    /\ preempt_count[c] = 0
    /\ need_resched[c]
    /\ Enter(c)
    /\ UNCHANGED <<threadVars, queues, current, preempt_count, active_pml4,
                   next, g_ticks>>

(* A device interrupt on CPU c wakes a blocked worker (e1000_irq_handler). *)
IrqWake(c, t) ==
    /\ "block" \in ops
    /\ IrqsOn(c)
    /\ status[t] = "BLOCKED"
    /\ SetStatus(t, "READY")
    /\ need_resched' = [need_resched EXCEPT ![CpuOf(t)] = TRUE]
    /\ UNCHANGED <<priority, wakeup_ticks, rcu_nesting, pc, kick_cpu, outer,
                   queues, current, preempt_count, active_pml4, phase, next,
                   g_ticks>>

----------------------------------------------------------------------------
(* What a thread does.                                                     *)

MaySchedule(t) == preempt_count[CpuOf(t)] = 0 /\ rcu_nesting[t] = 0

schedule(t) ==
    /\ "yield" \in ops
    /\ At(t, "body")
    /\ MaySchedule(t)
    /\ Enter(CpuOf(t))
    /\ UNCHANGED <<threadVars, queues, current, preempt_count, active_pml4,
                   next, g_ticks>>

(* schedule_timeout(): SLEEPING is stored first, the deadline after it.    *)
schedule_timeout(t) ==
    /\ "sleep" \in ops
    /\ At(t, "body")
    /\ MaySchedule(t)
    /\ status[t] = "RUNNING"
    /\ SetStatus(t, "SLEEPING")
    /\ Goto(t, "arm")
    /\ UNCHANGED <<priority, wakeup_ticks, rcu_nesting, kick_cpu, outer,
                   queues, cpuVars, g_ticks>>

ArmTimeout(t, n) ==
    /\ At(t, "arm")
    /\ g_ticks + n <= MaxTicks
    /\ wakeup_ticks' = [wakeup_ticks EXCEPT ![t] = g_ticks + n]
    /\ Goto(t, "asleep")
    /\ Enter(CpuOf(t))
    /\ UNCHANGED <<status, priority, rcu_nesting, kick_cpu, outer, queues,
                   current, preempt_count, active_pml4, next, g_ticks>>

TimeoutReturn(t) ==
    /\ At(t, "asleep")
    /\ Goto(t, "body")
    /\ UNCHANGED <<status, priority, wakeup_ticks, rcu_nesting, kick_cpu,
                   outer, queues, cpuVars, g_ticks>>

(* A mutex waiter or a device worker: BLOCKED first, then schedule().      *)
Block(t) ==
    /\ "block" \in ops
    /\ At(t, "body")
    /\ MaySchedule(t)
    /\ SetStatus(t, "BLOCKED")
    /\ Goto(t, "park")
    /\ UNCHANGED <<priority, wakeup_ticks, rcu_nesting, kick_cpu, outer,
                   queues, cpuVars, g_ticks>>

thread_exit(t) ==
    /\ "exit" \in ops
    /\ At(t, "body")
    /\ MaySchedule(t)
    /\ SetStatus(t, "ZOMBIE")
    /\ Goto(t, "park")
    /\ UNCHANGED <<priority, wakeup_ticks, rcu_nesting, kick_cpu, outer,
                   queues, cpuVars, g_ticks>>

Park(t) ==
    /\ At(t, "park")
    /\ Goto(t, "body")
    /\ Enter(CpuOf(t))
    /\ UNCHANGED <<status, priority, wakeup_ticks, rcu_nesting, kick_cpu,
                   outer, queues, current, preempt_count, active_pml4, next,
                   g_ticks>>

(* mutex_unlock: the waiter is made READY, nobody asks for a reschedule.   *)
__wake_up_one(t, waiter) ==
    /\ "block" \in ops
    /\ At(t, "body")
    /\ status[waiter] = "BLOCKED"
    /\ SetStatus(waiter, "READY")
    /\ UNCHANGED <<priority, wakeup_ticks, rcu_nesting, pc, kick_cpu, outer,
                   queues, cpuVars, g_ticks>>

(* spin_lock(): preemption off; spin_unlock(): a deferred request is met.  *)
preempt_disable(t) ==
    LET c == CpuOf(t)
    IN  /\ "preempt" \in ops
        /\ At(t, "body")
        /\ preempt_count[c] = 0
        /\ preempt_count' = [preempt_count EXCEPT ![c] = @ + 1]
        /\ UNCHANGED <<threadVars, queues, current, need_resched, active_pml4,
                       phase, next, g_ticks>>

preempt_enable(t) ==
    LET c == CpuOf(t)
    IN  /\ At(t, "body")
        /\ preempt_count[c] > 0
        /\ preempt_count' = [preempt_count EXCEPT ![c] = @ - 1]
        /\ IF preempt_count[c] = 1 /\ need_resched[c]
             THEN Enter(c)
             ELSE UNCHANGED <<need_resched, phase>>
        /\ UNCHANGED <<threadVars, queues, current, active_pml4, next, g_ticks>>

rcu_read_lock(t) ==
    /\ "read" \in ops
    /\ At(t, "body")
    /\ rcu_nesting[t] = 0
    /\ rcu_nesting' = [rcu_nesting EXCEPT ![t] = 1]
    /\ UNCHANGED <<status, priority, wakeup_ticks, pc, kick_cpu, outer, queues,
                   cpuVars, g_ticks>>

rcu_read_unlock(t) ==
    /\ At(t, "body")
    /\ rcu_nesting[t] = 1
    /\ rcu_nesting' = [rcu_nesting EXCEPT ![t] = 0]
    /\ UNCHANGED <<status, priority, wakeup_ticks, pc, kick_cpu, outer, queues,
                   cpuVars, g_ticks>>

(* cpu_enqueue / cpu_enqueue_tail: a new thread becomes READY and is       *)
(* linked under the queue lock; the kick follows, interrupts on.           *)
Spawn(t, new, tail) ==
    LET c == CpuOf(new)
    IN  /\ At(t, "body")
        /\ status[new] = "NEW"
        /\ SetStatus(new, "READY")
        /\ runqueue' = [runqueue EXCEPT ![c] =
                          IF tail THEN runqueue_enqueue_tail_raw(@, new)
                          ELSE runqueue_enqueue_raw(@, new)]
        /\ kick_cpu' = [kick_cpu EXCEPT ![t] = c]
        /\ Goto(t, "kick")
        /\ UNCHANGED <<priority, wakeup_ticks, rcu_nesting, outer, zombiequeue,
                       cpuVars, g_ticks>>

(* Mutant: the node stays where it was. *)
Mutant_Requeue(q, u, p) == q

(* The node follows the priority to the tail of its new list.              *)
Requeue(q, u, p) == LinkTail(Unlink(q, u, priority[u]), u, p)

(* thread_apply_effective_priority(): a live thread u, in whatever state,  *)
(* moves to the tail of its new list; the kick follows, interrupts off.    *)
thread_apply_effective_priority(t, u, p) ==
    LET c == CpuOf(u)
    IN  /\ "prio" \in ops
        /\ At(t, "body")
        /\ status[u] \in {"READY", "RUNNING", "BLOCKED", "SLEEPING"}
        /\ p # priority[u]
        /\ runqueue' = [runqueue EXCEPT ![c] = Requeue(@, u, p)]
        /\ priority' = [priority EXCEPT ![u] = p]
        /\ kick_cpu' = [kick_cpu EXCEPT ![t] = c]
        /\ Goto(t, "pi_kick")
        /\ UNCHANGED <<status, wakeup_ticks, rcu_nesting, outer, zombiequeue,
                       cpuVars, g_ticks>>

ipi_reschedule_cpu(t) ==
    /\ At(t, "kick") \/ At(t, "pi_kick")
    /\ need_resched' = [need_resched EXCEPT ![kick_cpu[t]] = TRUE]
    /\ kick_cpu' = [kick_cpu EXCEPT ![t] = Bsp]     \* the argument is dead
    /\ Goto(t, "body")
    /\ UNCHANGED <<status, priority, wakeup_ticks, rcu_nesting, outer, queues,
                   current, preempt_count, active_pml4, phase, next, g_ticks>>

(* The idle loop.  cpu_dequeue_zombie_tail() takes the last zombie of the  *)
(* highest priority and thread_destroy() frees it, once for each that the  *)
(* count gives; nothing joins the zombie queue while idle runs.  The loop  *)
(* has interrupts off, which the model does not need: one only leads back. *)
runqueue_dequeue_tail_raw(q, t) ==
    LET prio == CHOOSE p \in q.bitmap : \A r \in q.bitmap : p <= r
    IN  /\ t = q.heads[prio][Len(q.heads[prio])]
        /\ zombiequeue' = [zombiequeue EXCEPT ![CpuOf(t)] =
                              [Unlink(q, t, prio) EXCEPT !.count = @ - 1]]

ReapZombie(c, t) ==
    /\ phase[c] = "body"
    /\ current[c] = c
    /\ zombiequeue[c].count > 0
    /\ runqueue_dequeue_tail_raw(zombiequeue[c], t)
    /\ SetStatus(t, "FREED")
    /\ UNCHANGED <<priority, wakeup_ticks, rcu_nesting, pc, kick_cpu, outer,
                   runqueue, cpuVars, g_ticks>>

(* With the zombies gone idle calls schedule() if the run queue is not     *)
(* empty or a request is pending.                                          *)
IdleLoop(c) ==
    /\ phase[c] = "body"
    /\ current[c] = c
    /\ zombiequeue[c].count = 0
    /\ runqueue[c].count > 0 \/ need_resched[c]
    /\ Enter(c)
    /\ UNCHANGED <<threadVars, queues, current, preempt_count, active_pml4,
                   next, g_ticks>>

----------------------------------------------------------------------------
Cpu(c) ==
    \/ Pick(c) \/ Hook(c) \/ HookPreempted(c) \/ SwitchTo(c)
    \/ IrqReturn(c) \/ IdleLoop(c) \/ \E t \in Threads : ReapZombie(c, t)

Thread(t) ==
    \/ schedule(t) \/ schedule_timeout(t) \/ TimeoutReturn(t)
    \/ \E n \in 1 .. MaxTicks : ArmTimeout(t, n)
    \/ Block(t) \/ thread_exit(t) \/ Park(t)
    \/ preempt_disable(t) \/ preempt_enable(t)
    \/ rcu_read_lock(t) \/ rcu_read_unlock(t)
    \/ \E u \in Threads : \/ __wake_up_one(t, u)
                          \/ \E tail \in BOOLEAN : Spawn(t, u, tail)
                          \/ \E p \in Prio : thread_apply_effective_priority(t, u, p)
    \/ ipi_reschedule_cpu(t)

Next ==
    \/ \E c \in Cpus : \/ Cpu(c)
                       \/ \E slice \in BOOLEAN : Tick(c, slice)
                       \/ \E t \in Threads : IrqWake(c, t)
    \/ \E t \in Threads : Thread(t)

Spec == Init /\ [][Next /\ UNCHANGED ops]_<<vars, ops>>

(***************************************************************************)
(* Fairness.  A CPU inside __schedule() finishes it; the timer interrupts  *)
(* every CPU for ever and every tenth tick asks for a reschedule; the idle *)
(* loop goes round; a thread that disabled preemption enables it again,    *)
(* with the kick it may be about to make before that.  Nothing else a      *)
(* thread may do is assumed to happen.                                     *)
(***************************************************************************)
Fairness ==
    /\ \A c \in Cpus :
          /\ WF_vars(Pick(c) \/ Hook(c) \/ HookPreempted(c) \/ SwitchTo(c))
          /\ SF_vars(IrqReturn(c))
          /\ SF_vars(IdleLoop(c) \/ \E t \in Threads : ReapZombie(c, t))
          /\ SF_vars(Tick(c, TRUE))
    /\ \A t \in Threads : WF_vars(preempt_enable(t) \/ ipi_reschedule_cpu(t))

FairSpec == Spec /\ Fairness
----------------------------------------------------------------------------
Live == {"READY", "RUNNING", "BLOCKED", "SLEEPING"}

IsQueue(q) ==
    /\ DOMAIN q = {"heads", "bitmap", "count"}
    /\ DOMAIN q.heads = Prio
    /\ \A p \in Prio : Elements(q.heads[p]) \subseteq Threads
    /\ q.bitmap \subseteq Prio
    /\ q.count \in Nat

(* Every variable keeps its type. *)
TypeOK ==
    /\ status \in [Tasks -> Live \cup {"NEW", "ZOMBIE", "FREED"}]
    /\ priority \in [Threads -> Prio]
    /\ wakeup_ticks \in [Threads -> 0 .. MaxTicks]
    /\ rcu_nesting \in [Threads -> {0, 1}]
    /\ pc \in [Threads -> {"body", "arm", "asleep", "park", "kick", "pi_kick"}]
    /\ kick_cpu \in [Threads -> Cpus]
    /\ DOMAIN outer = Tasks
    /\ \A t \in Tasks : Elements(outer[t]) \subseteq Tasks
    /\ \A c \in Cpus : IsQueue(runqueue[c]) /\ IsQueue(zombiequeue[c])
    /\ \A c \in Cpus : CpuOf(current[c]) = c /\ CpuOf(next[c]) = c
    /\ need_resched \in [Cpus -> BOOLEAN]
    /\ preempt_count \in [Cpus -> {0, 1}]
    /\ active_pml4 \in [Cpus -> UserThreads \cup {KernelRoot}]
    /\ phase \in [Cpus -> {"body", "pick", "hook", "switch"}]
    /\ g_ticks \in 0 .. MaxTicks

Occurrences(q, t, p) == Cardinality({i \in DOMAIN q.heads[p] : q.heads[p][i] = t})

(* Queue q holds the threads of S, each once and on the list of its        *)
(* priority; its bitmap and its count say so.                              *)
HoldsExactly(q, S) ==
    /\ OnQueue(q) = S
    /\ \A t \in S : \A p \in Prio :
          Occurrences(q, t, p) = IF p = priority[t] THEN 1 ELSE 0
    /\ q.bitmap = {p \in Prio : q.heads[p] # <<>>}
    /\ q.count = Cardinality(S)

(* A thread that is not dead is on its CPU's run queue exactly once, under *)
(* its effective priority, whatever its state; a dead one is there until   *)
(* its last __schedule() and then on the zombie queue; bitmap and count    *)
(* never disagree with the lists (thread.c: "count always equals the real  *)
(* queue length").                                                         *)
QueuesConsistent ==
    \A c \in Cpus :
        LET mine == {t \in Threads : CpuOf(t) = c}
            leaving == {t \in mine : /\ status[t] = "ZOMBIE"
                                     /\ current[c] = t
                                     /\ phase[c] \in {"body", "pick"}}
        IN  /\ HoldsExactly(runqueue[c],
                            {t \in mine : status[t] \in Live} \cup leaving)
            /\ HoldsExactly(zombiequeue[c],
                            {t \in mine : status[t] = "ZOMBIE"} \ leaving)

(* The idle thread frees a thread's TCB, stack and page tables only when   *)
(* no CPU can touch them again: nobody runs it, is about to switch to it   *)
(* or is suspended on the way to it, its root is in no CR3, and no queue   *)
(* links it (thread_idle.c, __switch_mm, sched_idle_zombie).               *)
FreedIsUnused ==
    \A t \in Threads : status[t] = "FREED" =>
        /\ \A c \in Cpus : /\ t \notin {current[c], next[c], active_pml4[c]}
                           /\ t \notin OnQueue(runqueue[c])
                           /\ t \notin OnQueue(zombiequeue[c])
        /\ \A u \in Tasks : t \notin Elements(outer[u])

(* RUNNING means occupying a CPU (thread.h): only the current thread is    *)
(* RUNNING, or one that a __schedule(), perhaps a suspended one, has chosen*)
(* and will switch to.  A thread left RUNNING elsewhere is invisible to    *)
(* pick_next for ever.                                                     *)
RunningIsCurrent ==
    \A t \in Tasks : status[t] = "RUNNING" =>
        \/ t \in {current[CpuOf(t)], next[CpuOf(t)]}
        \/ \E u \in Tasks : t \in Elements(outer[u])

(* Without readers, whose switch may be interrupted by another one, no     *)
(* thread is left RUNNING off its CPU, whatever blocks, exits, is woken or *)
(* changes priority (__schedule, thread_apply_effective_priority).         *)
RunningWithoutReaders == "read" \notin ops => RunningIsCurrent

(* pick_next() never passes over a ready thread for one of lower priority, *)
(* and never idles while one is ready and no zombie waits for the reaper.  *)
PicksHighestPriority ==
    [][\A c \in Cpus : phase[c] = "pick" /\ phase'[c] # "pick" =>
          LET chosen == IF phase'[c] = "hook" THEN next'[c] ELSE current[c]
              ready == {t \in Threads : CpuOf(t) = c /\ status[t] = "READY"}
          IN  IF chosen = c
                THEN ready = {} \/ zombiequeue'[c].count > 0
                ELSE \A t \in ready : priority[chosen] <= priority[t]]_vars

(* Among threads of one priority every ready thread gets the CPU: no       *)
(* wakeup, spawn or reap is lost, though a thread may be woken from this   *)
(* CPU or by another CPU's interrupt at any point of its __schedule().     *)
RunnableRuns ==
    \A t \in Threads : status[t] = "READY" ~> current[CpuOf(t)] = t

(* A thread in schedule_timeout() wakes: pick_next finds the due sleeper   *)
(* although no interrupt handler ever makes it READY.                      *)
SleepersWake ==
    \A t \in Threads : status[t] = "SLEEPING" /\ pc[t] = "asleep"
                         ~> status[t] = "RUNNING"
=============================================================================
