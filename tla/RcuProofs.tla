----------------------------- MODULE RcuProofs -----------------------------
(***************************************************************************)
(* The grace period of LaOS RCU, for any number of CPUs, threads, grace    *)
(* periods and nested sections.  The argument: a reader that a             *)
(* synchronize_rcu() found open is either registered in blocked_tasks, so  *)
(* that phase two waits for it, or it has been running on its CPU ever     *)
(* since, so that its CPU cannot have confirmed the new grace period.      *)
(***************************************************************************)
EXTENDS Rcu, TLAPS

(* Where a thread stands in the RCU code says what it is entitled to: only *)
(* a thread in its own code ("run") can be a reader, and the flag is down  *)
(* outside a section.                                                      *)
ControlInv ==
    /\ \A t \in Threads : pc[t] # "run" => rcu_nesting[t] = 0
    /\ \A c \in Cpus : rcu_nesting[c] = 0

(* A recorded old section is still open. *)
PreAreReaders == \A u \in Threads : pre[u] \subseteq Readers

(* The core: an old reader that is not registered keeps its CPU short of   *)
(* the grace period, and the scan of phase one has not passed that CPU.    *)
OldReadersHoldCpu ==
    \A u \in Threads : pc[u] \in {"phase1", "phase2"} =>
       \A r \in pre[u] \ blocked_tasks :
          /\ rcu_gp_seq_seen[CpuOf(r)] < target[u]
          /\ cursor[u] <= CpuOf(r)

PhaseTwoScannedAll ==
    \A u \in Threads : pc[u] = "phase2" => cursor[u] = NCpus

IInv ==
    /\ TypeOK
    /\ ControlInv
    /\ FlagMatchesList
    /\ PreemptedReadersRegistered
    /\ PreAreReaders
    /\ OldReadersHoldCpu
    /\ PhaseTwoScannedAll
    /\ GracePeriodSafe

USE NCpusAssumption, ThreadsAssumption, TargetAssumption, BoundsAssumption

----------------------------------------------------------------------------
(* CpuOf maps every task to a CPU. *)
LEMMA CpuOfType == \A t \in Tasks : CpuOf(t) \in Cpus
  BY DEF CpuOf, Tasks, Cpus

(* Rcu: the initial state satisfies the inductive invariant. *)
LEMMA InitIInv == Init => IInv
  <1> SUFFICES ASSUME Init PROVE IInv
    OBVIOUS
  <1>1. TypeOK
    <2>1. current \in [Cpus -> Tasks] /\ \A c \in Cpus : CpuOf(current[c]) = c
      BY DEF Init, Tasks, CpuOf
    <2>2. /\ rcu_nesting \in [Tasks -> Nat]
          /\ rcu_blocked \in [Tasks -> BOOLEAN]
          /\ blocked_tasks \subseteq Tasks
          /\ gp_seq \in Nat
      BY DEF Init
    <2>3. /\ rcu_gp_seq_seen \in [Cpus -> 0 .. gp_seq]
          /\ pc \in [Threads -> Labels]
          /\ loaded \in [Threads -> 0 .. gp_seq]
          /\ target \in [Threads -> 0 .. gp_seq]
      BY DEF Init, Labels
    <2>4. cursor \in [Threads -> 0 .. NCpus] /\ pre \in [Threads -> SUBSET Threads]
      BY DEF Init
    <2> QED BY <2>1, <2>2, <2>3, <2>4 DEF TypeOK
  <1>2. ControlInv /\ FlagMatchesList /\ PreAreReaders /\ PhaseTwoScannedAll
    BY DEF Init, ControlInv, FlagMatchesList, PreAreReaders,
           PhaseTwoScannedAll, Tasks
  <1>3. PreemptedReadersRegistered /\ OldReadersHoldCpu /\ GracePeriodSafe
    BY DEF Init, PreemptedReadersRegistered, Readers, OldReadersHoldCpu,
           GracePeriodSafe, Tasks
  <1> QED BY <1>1, <1>2, <1>3 DEF IInv

(* Every action of Rcu preserves the types. *)
LEMMA TypeStep == TypeOK /\ [Next]_vars => TypeOK'
  <1> SUFFICES ASSUME TypeOK, [Next]_vars PROVE TypeOK'
    OBVIOUS
  <1> USE CpuOfType DEF TypeOK, Labels, Goto, At, Tasks
  <1>1. ASSUME NEW t \in Threads, rcu_read_lock(t) PROVE TypeOK'
    BY <1>1 DEF rcu_read_lock
  <1>2. ASSUME NEW t \in Threads, rcu_read_unlock(t) PROVE TypeOK'
    <2>1. rcu_nesting' \in [Tasks -> Nat]
      BY <1>2 DEF rcu_read_unlock
    <2>2. pc' \in [Threads -> Labels] /\ pre' \in [Threads -> SUBSET Threads]
      <3>1. CASE rcu_nesting[t] = 1
        <4>1. pc' = [pc EXCEPT ![t] = "unregister"]
          BY <1>2, <3>1 DEF rcu_read_unlock
        <4>2. pre' = [u \in Threads |-> pre[u] \ {t}]
          BY <1>2, <3>1 DEF rcu_read_unlock
        <4> QED BY <4>1, <4>2
      <3>2. CASE rcu_nesting[t] # 1
        BY <1>2, <3>2 DEF rcu_read_unlock
      <3> QED BY <3>1, <3>2
    <2> QED BY <1>2, <2>1, <2>2 DEF rcu_read_unlock
  <1>3. ASSUME NEW t \in Threads, Unlock(t) PROVE TypeOK'
    <2>1. CASE Unregister(t) BY <2>1 DEF Unregister
    <2>2. CASE ClearBlocked(t) BY <2>2 DEF ClearBlocked
    <2>3. CASE LoadGpSeq(t) BY <2>3 DEF LoadGpSeq
    <2>4. CASE StoreSeen(t) BY <2>4 DEF StoreSeen
    <2> QED BY <1>3, <2>1, <2>2, <2>3, <2>4 DEF Unlock
  <1>4. ASSUME NEW t \in Threads, synchronize_rcu(t) PROVE TypeOK'
    <2>1. 0 .. gp_seq \subseteq 0 .. gp_seq' /\ gp_seq' \in 0 .. gp_seq'
      BY <1>4 DEF synchronize_rcu
    <2>2. Readers \subseteq Threads
      BY DEF Readers
    <2> QED BY <1>4, <2>1, <2>2 DEF synchronize_rcu
  <1>5. ASSUME NEW t \in Threads, Sync(t) PROVE TypeOK'
    <2>1. CASE Phase1(t)
      <3>1. cursor[t] \in 0 .. NCpus
        OBVIOUS
      <3>2. cursor[t] < NCpus => cursor[t] + 1 \in 0 .. NCpus
        BY <3>1
      <3>3. cursor' \in [Threads -> 0 .. NCpus]
        <4>1. CASE cursor[t] < NCpus
          BY <2>1, <3>2, <4>1 DEF Phase1
        <4>2. CASE ~(cursor[t] < NCpus)
          BY <2>1, <4>2 DEF Phase1
        <4> QED BY <4>1, <4>2
      <3>4. pc' \in [Threads -> Labels]
        <4>1. pc' = pc \/ pc' = [pc EXCEPT ![t] = "phase2"]
          BY <2>1 DEF Phase1
        <4> QED BY <4>1
      <3> QED BY <2>1, <3>3, <3>4 DEF Phase1
    <2>2. CASE Phase2(t) BY <2>2 DEF Phase2
    <2>3. CASE Reclaim(t) BY <2>3 DEF Reclaim
    <2> QED BY <1>5, <2>1, <2>2, <2>3 DEF Sync
  <1>6. ASSUME NEW c \in Cpus, rcu_check_quiescent_state(c) PROVE TypeOK'
    BY <1>6 DEF rcu_check_quiescent_state
  <1>7. ASSUME NEW c \in Cpus, NEW next \in Tasks, Switch(c, next)
        PROVE TypeOK'
    <2>1. /\ current' \in [Cpus -> Tasks]
          /\ \A d \in Cpus : CpuOf(current'[d]) = d
      BY <1>7 DEF Switch
    <2>2. current[c] \in Tasks
      OBVIOUS
    <2>3. /\ rcu_blocked' \in [Tasks -> BOOLEAN]
          /\ blocked_tasks' \subseteq Tasks
          /\ rcu_gp_seq_seen' \in [Cpus -> 0 .. gp_seq]
      <3>1. CASE rcu_nesting[current[c]] > 0
        <4>1. /\ rcu_blocked' = [rcu_blocked EXCEPT ![current[c]] = TRUE]
              /\ blocked_tasks' \subseteq blocked_tasks \cup {current[c]}
              /\ rcu_gp_seq_seen' = rcu_gp_seq_seen
          BY <1>7, <3>1 DEF Switch, rcu_note_context_switch
        <4>2. rcu_blocked' \in [Tasks -> BOOLEAN]
          BY <4>1, Zenon
        <4> QED BY <2>2, <4>1, <4>2
      <3>2. CASE ~(rcu_nesting[current[c]] > 0)
        BY <1>7, <3>2 DEF Switch, rcu_note_context_switch
      <3> QED BY <3>1, <3>2
    <2> QED BY <1>7, <2>1, <2>3 DEF Switch
  <1>8. CASE UNCHANGED vars
    BY <1>8 DEF vars
  <1> QED BY <1>1, <1>2, <1>3, <1>4, <1>5, <1>6, <1>7, <1>8 DEF Next

----------------------------------------------------------------------------
(* The reader that occupies a CPU is the only unregistered reader of it:   *)
(* when the current task of c is not reading, every reader of c is in      *)
(* blocked_tasks.                                                          *)
LEMMA QuiescentCpu ==
    ASSUME IInv, NEW c \in Cpus, rcu_nesting[current[c]] = 0,
           NEW r \in Readers, CpuOf(r) = c
    PROVE  r \in blocked_tasks
  <1>1. ~Runs(r)
    BY DEF Runs, Readers
  <1> QED BY <1>1 DEF IInv, PreemptedReadersRegistered

(* Opening a section: no thread that waits has to wait for it. *)
LEMMA ReadLockStep ==
    ASSUME IInv, TypeOK', NEW t \in Threads, rcu_read_lock(t)
    PROVE  IInv'
  <1> USE DEF rcu_read_lock, At
  <1>1. ControlInv'
    BY DEF IInv, TypeOK, ControlInv, Tasks
  <1>2. FlagMatchesList' /\ PhaseTwoScannedAll' /\ GracePeriodSafe'
    BY DEF IInv, FlagMatchesList, PhaseTwoScannedAll, GracePeriodSafe
  <1>3. Readers' = Readers \cup {t}
    BY DEF IInv, TypeOK, Readers, Tasks
  <1>4. PreemptedReadersRegistered'
    BY <1>3 DEF IInv, PreemptedReadersRegistered, Runs
  <1>5. PreAreReaders'
    BY <1>3 DEF IInv, PreAreReaders
  <1>6. OldReadersHoldCpu'
    BY DEF IInv, OldReadersHoldCpu
  <1> QED BY <1>1, <1>2, <1>4, <1>5, <1>6 DEF IInv

(* Leaving a section: at the outermost level t is nobody's old reader any  *)
(* more; further in, it stays one.                                         *)
LEMMA ReadUnlockStep ==
    ASSUME IInv, TypeOK', NEW t \in Threads, rcu_read_unlock(t)
    PROVE  IInv'
  <1> USE DEF rcu_read_unlock, At
  <1>1. CASE rcu_nesting[t] = 1
    <2>1. /\ pc' = [pc EXCEPT ![t] = "unregister"]
          /\ pre' = [u \in Threads |-> pre[u] \ {t}]
      BY <1>1 DEF Goto
    <2>2. rcu_nesting' = [rcu_nesting EXCEPT ![t] = 0]
      BY <1>1 DEF IInv, TypeOK
    <2>3. ControlInv'
      BY <2>1, <2>2 DEF IInv, TypeOK, ControlInv, Tasks
    <2>4. FlagMatchesList' /\ PhaseTwoScannedAll' /\ GracePeriodSafe'
      BY <2>1 DEF IInv, TypeOK, FlagMatchesList, PhaseTwoScannedAll,
                  GracePeriodSafe
    <2>5. Readers' = Readers \ {t}
      BY <2>2 DEF IInv, TypeOK, Readers, Tasks
    <2>6. PreemptedReadersRegistered'
      BY <2>5 DEF IInv, PreemptedReadersRegistered, Runs
    <2>7. PreAreReaders'
      BY <2>1, <2>5 DEF IInv, PreAreReaders
    <2>8. OldReadersHoldCpu'
      BY <2>1 DEF IInv, TypeOK, OldReadersHoldCpu
    <2> QED BY <2>3, <2>4, <2>6, <2>7, <2>8 DEF IInv
  <1>2. CASE rcu_nesting[t] # 1
    <2>1. pc' = pc /\ pre' = pre
      BY <1>2
    <2>2. ControlInv'
      BY <2>1 DEF IInv, TypeOK, ControlInv, Tasks
    <2>3. FlagMatchesList' /\ PhaseTwoScannedAll' /\ GracePeriodSafe'
      BY <2>1 DEF IInv, FlagMatchesList, PhaseTwoScannedAll, GracePeriodSafe
    <2>4. Readers' = Readers
      BY <1>2 DEF IInv, TypeOK, Readers, Tasks
    <2>5. PreemptedReadersRegistered' /\ PreAreReaders' /\ OldReadersHoldCpu'
      BY <2>1, <2>4 DEF IInv, PreemptedReadersRegistered, Runs, PreAreReaders,
                        OldReadersHoldCpu
    <2> QED BY <2>2, <2>3, <2>5 DEF IInv
  <1> QED BY <1>1, <1>2

(* The tail of rcu_read_unlock.  t is current and not a reader: taking it  *)
(* off the list, or letting its CPU confirm a grace period, forgets no old *)
(* reader.                                                                 *)
LEMMA UnlockStep ==
    ASSUME IInv, TypeOK', NEW t \in Threads, Unlock(t)
    PROVE  IInv'
  <1> USE DEF At, Goto
  <1>1. rcu_nesting' = rcu_nesting /\ pre' = pre /\ target' = target
        /\ cursor' = cursor /\ current' = current /\ Runs(t)
        /\ pc[t] \in {"unregister", "clear", "load", "store"}
        /\ pc' = [pc EXCEPT ![t] = pc'[t]]
        /\ pc'[t] \in {"clear", "load", "store", "run"}
    BY DEF Unlock, Unregister, ClearBlocked, LoadGpSeq, StoreSeen, IInv, TypeOK
  <1>2. rcu_nesting[t] = 0
    BY <1>1 DEF IInv, ControlInv
  <1>3. Readers' = Readers /\ t \notin Readers
    BY <1>1, <1>2 DEF Readers
  <1>4. ControlInv' /\ PhaseTwoScannedAll' /\ GracePeriodSafe' /\ PreAreReaders'
    BY <1>1, <1>2, <1>3 DEF IInv, TypeOK, ControlInv, PhaseTwoScannedAll,
                            GracePeriodSafe, PreAreReaders
  <1>5. blocked_tasks \ {t} \subseteq blocked_tasks'
    BY DEF Unlock, Unregister, ClearBlocked, LoadGpSeq, StoreSeen
  <1>6. PreemptedReadersRegistered'
    BY <1>1, <1>3, <1>5 DEF IInv, PreemptedReadersRegistered, Runs
  <1>7. FlagMatchesList'
    <2>1. CASE Unregister(t)
      <3>1. CASE rcu_blocked[t]
        BY <2>1, <3>1 DEF Unregister, IInv, TypeOK, FlagMatchesList
      <3>2. CASE ~rcu_blocked[t]
        BY <2>1, <3>2 DEF Unregister, IInv, TypeOK, FlagMatchesList
      <3> QED BY <3>1, <3>2
    <2>2. CASE ClearBlocked(t)
      BY <2>2 DEF ClearBlocked, IInv, TypeOK, FlagMatchesList, Tasks
    <2>3. CASE LoadGpSeq(t)
      BY <2>3 DEF LoadGpSeq, IInv, TypeOK, FlagMatchesList
    <2>4. CASE StoreSeen(t)
      BY <2>4 DEF StoreSeen, IInv, TypeOK, FlagMatchesList
    <2> QED BY <2>1, <2>2, <2>3, <2>4 DEF Unlock
  <1>8. ASSUME NEW u \in Threads, pc'[u] \in {"phase1", "phase2"},
               NEW r \in pre'[u] \ blocked_tasks'
        PROVE  rcu_gp_seq_seen'[CpuOf(r)] < target'[u] /\ cursor'[u] <= CpuOf(r)
    <2>1. r \in Readers /\ r # t /\ r \in pre[u] \ blocked_tasks
      BY <1>1, <1>3, <1>5, <1>8 DEF IInv, PreAreReaders
    <2>2. pc[u] \in {"phase1", "phase2"}
      BY <1>1, <1>8 DEF IInv, TypeOK
    <2>3. CpuOf(r) # CpuOf(t)
      <3>1. CpuOf(t) \in Cpus /\ current[CpuOf(t)] = t
        BY <1>1, CpuOfType DEF Runs, Tasks
      <3> QED BY <1>2, <2>1, <3>1, QuiescentCpu
    <2>4. rcu_gp_seq_seen'[CpuOf(r)] = rcu_gp_seq_seen[CpuOf(r)]
      <3>1. CASE StoreSeen(t)
        <4>1. CpuOf(r) \in Cpus
          BY <2>1, CpuOfType DEF Readers, Tasks
        <4> QED BY <2>3, <3>1, <4>1 DEF StoreSeen, IInv, TypeOK
      <3>2. CASE ~StoreSeen(t)
        BY <3>2 DEF Unlock, Unregister, ClearBlocked, LoadGpSeq
      <3> QED BY <3>1, <3>2
    <2> QED BY <1>1, <2>1, <2>2, <2>4 DEF IInv, OldReadersHoldCpu
  <1>9. OldReadersHoldCpu'
    BY <1>8 DEF OldReadersHoldCpu
  <1> QED BY <1>4, <1>6, <1>7, <1>9 DEF IInv

(* A new grace period: its number is above everything any CPU confirmed. *)
LEMMA SynchronizeStep ==
    ASSUME IInv, TypeOK', NEW t \in Threads, synchronize_rcu(t)
    PROVE  IInv'
  <1> USE DEF synchronize_rcu, At, Goto
  <1>1. ControlInv' /\ FlagMatchesList' /\ GracePeriodSafe' /\ PhaseTwoScannedAll'
    BY DEF IInv, TypeOK, ControlInv, FlagMatchesList, GracePeriodSafe,
           PhaseTwoScannedAll
  <1>2. Readers' = Readers
    BY DEF Readers
  <1>3. PreemptedReadersRegistered' /\ PreAreReaders'
    BY <1>2 DEF IInv, TypeOK, PreemptedReadersRegistered, Runs, PreAreReaders
  <1>4. ASSUME NEW u \in Threads, pc'[u] \in {"phase1", "phase2"},
               NEW r \in pre'[u] \ blocked_tasks'
        PROVE  rcu_gp_seq_seen'[CpuOf(r)] < target'[u] /\ cursor'[u] <= CpuOf(r)
    <2>1. CASE u = t
      <3>1. r \in Threads
        BY <1>4, <2>1 DEF IInv, TypeOK, Readers
      <3>2. CpuOf(r) \in Cpus /\ CpuOf(r) \in 0 .. NCpus - 1
        BY <3>1, CpuOfType DEF Tasks, Cpus
      <3>3. rcu_gp_seq_seen[CpuOf(r)] \in 0 .. gp_seq
        BY <3>2 DEF IInv, TypeOK
      <3>4. target'[t] = gp_seq + 1 /\ cursor'[t] = 0 /\ gp_seq \in Nat
        BY DEF IInv, TypeOK
      <3> QED BY <2>1, <3>2, <3>3, <3>4
    <2>2. CASE u # t
      <3>1. pc'[u] = pc[u] /\ pre'[u] = pre[u] /\ target'[u] = target[u]
            /\ cursor'[u] = cursor[u]
        BY <2>2 DEF IInv, TypeOK
      <3> QED BY <1>4, <3>1 DEF IInv, OldReadersHoldCpu
    <2> QED BY <2>1, <2>2
  <1>5. OldReadersHoldCpu'
    BY <1>4 DEF OldReadersHoldCpu
  <1> QED BY <1>1, <1>3, <1>5 DEF IInv

(* Phase one passes a CPU only when it confirmed the grace period; hence   *)
(* every old reader on it is registered.                                   *)
LEMMA Phase1Step ==
    ASSUME IInv, TypeOK', NEW t \in Threads, Phase1(t)
    PROVE  IInv'
  <1> USE DEF Phase1, At, Goto
  <1>1. pc' = [pc EXCEPT ![t] = pc'[t]] /\ pc'[t] \in {"phase1", "phase2"}
        /\ pc[t] = "phase1"
    BY DEF IInv, TypeOK
  <1>2. ControlInv' /\ FlagMatchesList' /\ GracePeriodSafe'
    BY <1>1 DEF IInv, TypeOK, ControlInv, FlagMatchesList, GracePeriodSafe
  <1>3. Readers' = Readers
    BY DEF Readers
  <1>4. PreemptedReadersRegistered' /\ PreAreReaders'
    BY <1>3 DEF IInv, PreemptedReadersRegistered, Runs, PreAreReaders
  <1>5. cursor[t] \in 0 .. NCpus
    BY DEF IInv, TypeOK
  <1>6. CASE cursor[t] < NCpus
    <2>1. pc' = pc /\ cursor' = [cursor EXCEPT ![t] = cursor[t] + 1]
          /\ rcu_gp_seq_seen[cursor[t]] >= target[t]
      BY <1>6
    <2>2. PhaseTwoScannedAll'
      BY <1>1, <2>1 DEF IInv, TypeOK, PhaseTwoScannedAll
    <2>3. ASSUME NEW u \in Threads, pc'[u] \in {"phase1", "phase2"},
                 NEW r \in pre'[u] \ blocked_tasks'
          PROVE  rcu_gp_seq_seen'[CpuOf(r)] < target'[u] /\ cursor'[u] <= CpuOf(r)
      <3>1. rcu_gp_seq_seen[CpuOf(r)] < target[u] /\ cursor[u] <= CpuOf(r)
        BY <2>1, <2>3 DEF IInv, OldReadersHoldCpu
      <3>2. CASE u = t
        <4>1. r \in Threads
          BY <2>3 DEF IInv, TypeOK
        <4>2. CpuOf(r) \in 0 .. NCpus - 1
          BY <4>1, CpuOfType DEF Tasks, Cpus
        <4>3. rcu_gp_seq_seen[CpuOf(r)] \in Nat /\ target[t] \in Nat
          BY SMTT(60), <4>2 DEF IInv, TypeOK, Cpus
        <4>4. cursor[t] # CpuOf(r)
          BY <2>1, <3>1, <3>2, <4>3
        <4>5. cursor'[t] = cursor[t] + 1
          BY <2>1 DEF IInv, TypeOK
        <4> QED BY <1>5, <3>1, <3>2, <4>2, <4>4, <4>5
      <3>3. CASE u # t
        BY <2>1, <3>1, <3>3 DEF IInv, TypeOK
      <3> QED BY <3>2, <3>3
    <2>4. OldReadersHoldCpu'
      BY <2>3 DEF OldReadersHoldCpu
    <2> QED BY <1>2, <1>4, <2>2, <2>4 DEF IInv
  <1>7. CASE ~(cursor[t] < NCpus)
    <2>1. cursor' = cursor /\ cursor[t] = NCpus
      BY <1>5, <1>7
    <2>2. PhaseTwoScannedAll'
      BY <1>1, <2>1 DEF IInv, TypeOK, PhaseTwoScannedAll
    <2>3. OldReadersHoldCpu'
      BY <1>1, <2>1 DEF IInv, TypeOK, OldReadersHoldCpu
    <2> QED BY <1>2, <1>4, <2>2, <2>3 DEF IInv
  <1> QED BY <1>6, <1>7

(* Phase two returns only when no old reader is left. *)
LEMMA Phase2Exit ==
    ASSUME IInv, NEW t \in Threads, Phase2(t)
    PROVE  pre[t] = {}
  <1>1. cursor[t] = NCpus /\ pc[t] = "phase2" /\ blocked_tasks = {}
    BY DEF Phase2, At, IInv, PhaseTwoScannedAll
  <1>2. ASSUME NEW r \in pre[t] PROVE FALSE
    <2>1. cursor[t] <= CpuOf(r)
      BY <1>1, <1>2 DEF IInv, OldReadersHoldCpu
    <2>2. r \in Threads
      BY <1>2 DEF IInv, TypeOK
    <2>3. CpuOf(r) \in 0 .. NCpus - 1
      BY <2>2, CpuOfType DEF Tasks, Cpus
    <2> QED BY <1>1, <2>1, <2>3
  <1> QED BY <1>2

LEMMA Phase2Step ==
    ASSUME IInv, TypeOK', NEW t \in Threads, Phase2(t)
    PROVE  IInv'
  <1> USE DEF Phase2, At, Goto
  <1>1. pre[t] = {}
    BY Phase2Exit
  <1>2. ControlInv' /\ FlagMatchesList' /\ GracePeriodSafe' /\ PhaseTwoScannedAll'
    BY <1>1 DEF IInv, TypeOK, ControlInv, FlagMatchesList, GracePeriodSafe,
                PhaseTwoScannedAll
  <1>3. Readers' = Readers
    BY DEF Readers
  <1>4. PreemptedReadersRegistered' /\ PreAreReaders' /\ OldReadersHoldCpu'
    BY <1>3 DEF IInv, TypeOK, PreemptedReadersRegistered, Runs, PreAreReaders,
                OldReadersHoldCpu
  <1> QED BY <1>2, <1>4 DEF IInv

LEMMA ReclaimStep ==
    ASSUME IInv, TypeOK', NEW t \in Threads, Reclaim(t)
    PROVE  IInv'
  <1> USE DEF Reclaim, At, Goto
  <1>1. ControlInv' /\ FlagMatchesList' /\ GracePeriodSafe' /\ PhaseTwoScannedAll'
    BY DEF IInv, TypeOK, ControlInv, FlagMatchesList, GracePeriodSafe,
           PhaseTwoScannedAll
  <1>2. Readers' = Readers
    BY DEF Readers
  <1>3. PreemptedReadersRegistered' /\ PreAreReaders' /\ OldReadersHoldCpu'
    BY <1>2 DEF IInv, TypeOK, PreemptedReadersRegistered, Runs, PreAreReaders,
                OldReadersHoldCpu
  <1> QED BY <1>1, <1>3 DEF IInv

(* A tick outside a section: the CPU confirms, and every reader it still   *)
(* has is registered.                                                      *)
LEMMA TickStep ==
    ASSUME IInv, TypeOK', NEW c \in Cpus, rcu_check_quiescent_state(c)
    PROVE  IInv'
  <1> USE DEF rcu_check_quiescent_state
  <1>1. ControlInv' /\ FlagMatchesList' /\ GracePeriodSafe' /\ PhaseTwoScannedAll'
    BY DEF IInv, ControlInv, FlagMatchesList, GracePeriodSafe,
           PhaseTwoScannedAll
  <1>2. Readers' = Readers
    BY DEF Readers
  <1>3. PreemptedReadersRegistered' /\ PreAreReaders'
    BY <1>2 DEF IInv, PreemptedReadersRegistered, Runs, PreAreReaders
  <1>4. ASSUME NEW u \in Threads, pc[u] \in {"phase1", "phase2"},
               NEW r \in pre[u] \ blocked_tasks
        PROVE  rcu_gp_seq_seen'[CpuOf(r)] < target[u] /\ cursor[u] <= CpuOf(r)
    <2>1. r \in Readers
      BY <1>4 DEF IInv, PreAreReaders
    <2>2. CpuOf(r) # c /\ CpuOf(r) \in Cpus
      BY <1>4, <2>1, QuiescentCpu, CpuOfType DEF Readers, Tasks
    <2>3. rcu_gp_seq_seen'[CpuOf(r)] = rcu_gp_seq_seen[CpuOf(r)]
      BY <2>2 DEF IInv, TypeOK
    <2> QED BY <1>4, <2>3 DEF IInv, OldReadersHoldCpu
  <1>5. OldReadersHoldCpu'
    BY <1>4 DEF OldReadersHoldCpu
  <1> QED BY <1>1, <1>3, <1>5 DEF IInv

(* A context switch registers the reader it takes off the CPU, or is a     *)
(* quiescent point like a tick.                                            *)
LEMMA SwitchStep ==
    ASSUME IInv, TypeOK', NEW c \in Cpus, NEW next \in Tasks, Switch(c, next)
    PROVE  IInv'
  <1> USE DEF Switch
  <1>1. ControlInv' /\ GracePeriodSafe' /\ PhaseTwoScannedAll'
    BY DEF IInv, ControlInv, GracePeriodSafe, PhaseTwoScannedAll
  <1>2. Readers' = Readers
    BY DEF Readers
  <1>3. PreAreReaders'
    BY <1>2 DEF IInv, PreAreReaders
  <1>4. current[c] \in Tasks /\ CpuOf(current[c]) = c
    BY DEF IInv, TypeOK
  <1>5. CASE rcu_nesting[current[c]] > 0
    <2> DEFINE prev == current[c]
    <2>1. prev \in Threads /\ pc[prev] = "run" /\ prev \in Readers
      BY <1>4, <1>5 DEF IInv, ControlInv, Tasks, Readers
    <2>2. /\ rcu_blocked' = [rcu_blocked EXCEPT ![prev] = TRUE]
          /\ blocked_tasks' = IF rcu_blocked[prev] THEN blocked_tasks
                              ELSE blocked_tasks \cup {prev}
          /\ rcu_gp_seq_seen' = rcu_gp_seq_seen
      BY <1>5 DEF rcu_note_context_switch
    <2>3. blocked_tasks' = blocked_tasks \cup {prev}
      BY <2>1, <2>2 DEF IInv, FlagMatchesList
    <2>4. FlagMatchesList'
      <3>1. \A u \in Threads : rcu_blocked'[u] <=> (rcu_blocked[u] \/ u = prev)
        BY <2>1, <2>2 DEF IInv, TypeOK, Tasks
      <3> QED BY <2>1, <2>3, <3>1 DEF IInv, FlagMatchesList
    <2>5. PreemptedReadersRegistered'
      BY <1>2, <2>3 DEF IInv, TypeOK, PreemptedReadersRegistered, Runs
    <2>6. OldReadersHoldCpu'
      BY <2>2, <2>3 DEF IInv, OldReadersHoldCpu
    <2> QED BY <1>1, <1>3, <2>4, <2>5, <2>6 DEF IInv
  <1>6. CASE ~(rcu_nesting[current[c]] > 0)
    <2>1. /\ rcu_gp_seq_seen' = [rcu_gp_seq_seen EXCEPT ![c] = gp_seq]
          /\ rcu_blocked' = rcu_blocked /\ blocked_tasks' = blocked_tasks
      BY <1>6 DEF rcu_note_context_switch
    <2>2. rcu_nesting[current[c]] = 0
      BY <1>4, <1>6 DEF IInv, TypeOK
    <2>3. FlagMatchesList'
      BY <2>1 DEF IInv, FlagMatchesList
    <2>4. PreemptedReadersRegistered'
      BY <1>2, <1>6, <2>1 DEF IInv, TypeOK, PreemptedReadersRegistered, Runs,
                              Readers
    <2>5. ASSUME NEW u \in Threads, pc[u] \in {"phase1", "phase2"},
                 NEW r \in pre[u] \ blocked_tasks
          PROVE  rcu_gp_seq_seen'[CpuOf(r)] < target[u] /\ cursor[u] <= CpuOf(r)
      <3>1. r \in Readers
        BY <2>5 DEF IInv, PreAreReaders
      <3>2. CpuOf(r) # c /\ CpuOf(r) \in Cpus
        BY <2>2, <2>5, <3>1, QuiescentCpu, CpuOfType DEF Readers, Tasks
      <3>3. rcu_gp_seq_seen'[CpuOf(r)] = rcu_gp_seq_seen[CpuOf(r)]
        BY <2>1, <3>2 DEF IInv, TypeOK
      <3> QED BY <2>5, <3>3 DEF IInv, OldReadersHoldCpu
    <2>6. OldReadersHoldCpu'
      BY <2>1, <2>5 DEF OldReadersHoldCpu
    <2> QED BY <1>1, <1>3, <2>3, <2>4, <2>6 DEF IInv
  <1> QED BY <1>5, <1>6

(* Every step of Rcu preserves the inductive invariant. *)
LEMMA StepIInv == IInv /\ [Next]_vars => IInv'
  <1> SUFFICES ASSUME IInv, [Next]_vars PROVE IInv'
    OBVIOUS
  <1>0. TypeOK'
    BY TypeStep DEF IInv
  <1>1. CASE \E t \in Threads : rcu_read_lock(t)
    BY <1>0, <1>1, ReadLockStep
  <1>2. CASE \E t \in Threads : rcu_read_unlock(t)
    BY <1>0, <1>2, ReadUnlockStep
  <1>3. CASE \E t \in Threads : Unlock(t)
    BY <1>0, <1>3, UnlockStep
  <1>4. CASE \E t \in Threads : synchronize_rcu(t)
    BY <1>0, <1>4, SynchronizeStep
  <1>5. CASE \E t \in Threads : Sync(t)
    BY <1>0, <1>5, Phase1Step, Phase2Step, ReclaimStep DEF Sync
  <1>6. CASE \E c \in Cpus : rcu_check_quiescent_state(c)
    BY <1>0, <1>6, TickStep
  <1>7. CASE \E c \in Cpus, next \in Tasks : Switch(c, next)
    BY <1>0, <1>7, SwitchStep
  <1>8. CASE UNCHANGED vars
    BY <1>8 DEF vars, IInv, TypeOK, ControlInv, FlagMatchesList, Readers,
                PreemptedReadersRegistered, Runs, PreAreReaders,
                OldReadersHoldCpu, PhaseTwoScannedAll, GracePeriodSafe
  <1> QED
    BY <1>1, <1>2, <1>3, <1>4, <1>5, <1>6, <1>7, <1>8 DEF Next

----------------------------------------------------------------------------
(* The inductive invariant holds in every reachable state. *)
THEOREM InvariantHolds == Spec => []IInv
  <1>1. Init => IInv
    BY InitIInv
  <1>2. IInv /\ [Next]_vars => IInv'
    BY StepIInv
  <1>3. [Next /\ UNCHANGED users]_<<vars, users>> => [Next]_vars
    OBVIOUS
  <1> QED BY <1>1, <1>2, <1>3, PTL DEF Spec

(* Rcu is type correct, and no confirmed, loaded or awaited grace period   *)
(* is ever ahead of gp_seq.                                                *)
THEOREM TypeCorrect == Spec => []TypeOK
  <1>1. IInv => TypeOK
    BY DEF IInv
  <1> QED BY <1>1, InvariantHolds, PTL

(* The grace period: when synchronize_rcu() returns, every read section    *)
(* that was open when it was called has ended.                             *)
THEOREM GracePeriodTheorem == Spec => []GracePeriodSafe
  <1>1. IInv => GracePeriodSafe
    BY DEF IInv
  <1> QED BY <1>1, InvariantHolds, PTL

(* The list protocol: a reader that is switched out is on blocked_tasks,   *)
(* and the list never holds a node twice nor loses one it is asked to drop.*)
THEOREM ReaderListTheorem == Spec => []ReadersListed
  <1>1. IInv => ReadersListed
    BY DEF IInv, ReadersListed
  <1> QED BY <1>1, InvariantHolds, PTL

(* One step of Rcu is a step of GracePeriod, or leaves its state alone. *)
LEMMA StepRefines == IInv /\ [Next]_vars => [GP!GPNext]_(GP!gpVars)
  <1> SUFFICES ASSUME IInv, [Next]_vars PROVE [GP!GPNext]_(GP!gpVars)
    OBVIOUS
  <1> DEFINE Waiting == {t \in Threads : pc[t] \in {"phase1", "phase2"}}
  <1> USE DEF At, Goto, GP!gpVars
  <1>1. ASSUME NEW t \in Threads, rcu_read_lock(t) PROVE [GP!GPNext]_(GP!gpVars)
    <2>1. Readers' = Readers \cup {t} /\ Waiting' = Waiting /\ pre' = pre
          /\ t \notin Waiting
      BY <1>1 DEF rcu_read_lock, IInv, TypeOK, Readers, Tasks
    <2>2. CASE t \in Readers
      BY <2>1, <2>2
    <2>3. CASE t \notin Readers
      BY <2>1, <2>3 DEF GP!GPNext, GP!Enter
    <2> QED BY <2>2, <2>3
  <1>2. ASSUME NEW t \in Threads, rcu_read_unlock(t) PROVE [GP!GPNext]_(GP!gpVars)
    <2>1. CASE rcu_nesting[t] = 1
      <3>1. rcu_nesting' = [rcu_nesting EXCEPT ![t] = 0]
        BY <1>2, <2>1 DEF rcu_read_unlock, IInv, TypeOK
      <3>2. Readers' = Readers \ {t} /\ t \in Readers
        BY <2>1, <3>1 DEF IInv, TypeOK, Readers, Tasks
      <3>3. Waiting' = Waiting /\ pre' = [u \in Threads |-> pre[u] \ {t}]
        BY <1>2, <2>1 DEF rcu_read_unlock, IInv, TypeOK
      <3> QED BY <3>2, <3>3 DEF GP!GPNext, GP!Exit
    <2>2. CASE rcu_nesting[t] # 1
      <3>1. Readers' = Readers /\ Waiting' = Waiting /\ pre' = pre
        BY <1>2, <2>2 DEF rcu_read_unlock, IInv, TypeOK, Readers, Tasks
      <3> QED BY <3>1
    <2> QED BY <2>1, <2>2
  <1>3. ASSUME NEW t \in Threads, Unlock(t) PROVE [GP!GPNext]_(GP!gpVars)
    <2>1. Readers' = Readers /\ pre' = pre
      BY <1>3 DEF Unlock, Unregister, ClearBlocked, LoadGpSeq, StoreSeen, Readers
    <2>2. Waiting' = Waiting
      BY <1>3 DEF Unlock, Unregister, ClearBlocked, LoadGpSeq, StoreSeen,
                  IInv, TypeOK
    <2> QED BY <2>1, <2>2
  <1>4. ASSUME NEW t \in Threads, synchronize_rcu(t) PROVE [GP!GPNext]_(GP!gpVars)
    <2>1. Readers' = Readers /\ t \notin Readers
      BY <1>4 DEF synchronize_rcu, Readers
    <2>2. Waiting' = Waiting \cup {t} /\ t \notin Waiting
      BY <1>4 DEF synchronize_rcu, IInv, TypeOK
    <2>3. pre' = [pre EXCEPT ![t] = Readers]
      BY <1>4 DEF synchronize_rcu
    <2> QED BY <2>1, <2>2, <2>3 DEF GP!GPNext, GP!Begin
  <1>5. ASSUME NEW t \in Threads, Phase1(t) \/ Reclaim(t)
        PROVE  [GP!GPNext]_(GP!gpVars)
    <2>1. Readers' = Readers /\ pre' = pre
      BY <1>5 DEF Phase1, Reclaim, Readers
    <2>2. Waiting' = Waiting
      BY <1>5 DEF Phase1, Reclaim, IInv, TypeOK
    <2> QED BY <2>1, <2>2
  <1>6. ASSUME NEW t \in Threads, Phase2(t) PROVE [GP!GPNext]_(GP!gpVars)
    <2>1. Readers' = Readers /\ pre' = pre
      BY <1>6 DEF Phase2, Readers
    <2>2. Waiting' = Waiting \ {t} /\ t \in Waiting
      BY <1>6 DEF Phase2, IInv, TypeOK
    <2>3. pre[t] = {}
      BY <1>6, Phase2Exit
    <2> QED BY <2>1, <2>2, <2>3 DEF GP!GPNext, GP!End
  <1>7. ASSUME NEW c \in Cpus,
               rcu_check_quiescent_state(c) \/ \E next \in Tasks : Switch(c, next)
        PROVE  [GP!GPNext]_(GP!gpVars)
    BY <1>7 DEF rcu_check_quiescent_state, Switch, Readers
  <1>8. CASE UNCHANGED vars
    BY <1>8 DEF vars, Readers
  <1> QED
    BY <1>1, <1>2, <1>3, <1>4, <1>5, <1>6, <1>7, <1>8 DEF Next, Sync

(* Rcu implements the abstract specification of a grace period. *)
THEOREM RefinementTheorem == Spec => ImplementsGracePeriod
  <1>1. Init => GP!GPInit
    BY DEF Init, GP!GPInit, Readers, Tasks
  <1>2. IInv /\ [Next]_vars => [GP!GPNext]_(GP!gpVars)
    BY StepRefines
  <1>3. [Next /\ UNCHANGED users]_<<vars, users>> => [Next]_vars
    OBVIOUS
  <1> QED BY <1>1, <1>2, <1>3, InvariantHolds, PTL
          DEF Spec, ImplementsGracePeriod, GP!GPSpec
=============================================================================
