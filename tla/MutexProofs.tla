---------------------------- MODULE MutexProofs ----------------------------
(***************************************************************************)
(* Proofs about the mutex, for every number of threads, mutexes and        *)
(* priorities and for both build variants: types, mutual exclusion and the *)
(* accounting of priority donations; then the wait queues: no wakeup is    *)
(* lost, and priority inheritance leaves no inversion.                     *)
(***************************************************************************)
EXTENDS Mutex, Functions, FiniteSetTheorems, SequenceTheorems, WellFoundedInduction, TLAPS

----------------------------------------------------------------------------
(* A set of naturals that is not empty has a least member. *)
LEMMA LeastNatural ==
  ASSUME NEW S \in SUBSET Nat, S # {}
  PROVE  \E x \in S : \A y \in S : x <= y
<1>. DEFINE R == {ss \in Nat \X Nat : ss[1] < ss[2]}
<1>1. IsWellFoundedOn(R, Nat)
  BY NatLessThanWellFounded DEF OpToRel
<1>. HIDE DEF R
<1>2. PICK x \in S : \A y \in S : ~ (<<y, x>> \in R)
  BY <1>1, WFMin
<1>3. \A y \in S : ~ (y < x)
  BY <1>2 DEF R
<1>. QED BY <1>3

Donations == [Threads -> [Prio -> Int]]

(* thread_effective_priority returns a priority, no lower than the base    *)
(* one and than each donated one.                                          *)
LEMMA EffectiveIsLeast ==
  ASSUME NEW don \in Donations, NEW t \in Threads, base_priority \in [Threads -> Prio]
  PROVE  /\ Effective(don, t) \in Prio
         /\ Effective(don, t) <= base_priority[t]
         /\ \A q \in Prio : don[t][q] > 0 => Effective(don, t) <= q
<1>. DEFINE S == {p \in Prio : p = base_priority[t] \/ don[t][p] > 0}
<1>1. S \in SUBSET Nat /\ base_priority[t] \in S
  BY PrioAssumption DEF Prio
<1>2. PICK x \in S : \A y \in S : x <= y
  BY <1>1, LeastNatural
<1>3. /\ x \in Prio
      /\ x = base_priority[t] \/ don[t][x] > 0
      /\ x <= base_priority[t]
      /\ \A q \in Prio : don[t][q] > 0 => x <= q
  BY <1>1, <1>2
<1>. QED BY <1>3 DEF Effective

(* The priority of the first waiter, if any. *)
LEMMA WaiterPriorityType ==
  ASSUME NEW don \in Donations, NEW ws \in Seq(Threads),
         base_priority \in [Threads -> Prio]
  PROVE  WaiterPriority(don, ws) \in Prio \cup {PRIO_NONE}
<1>1. CASE ws = <<>>
  BY <1>1 DEF WaiterPriority
<1>2. CASE ws # <<>>
  BY <1>2, EffectiveIsLeast DEF WaiterPriority
<1>. QED BY <1>1, <1>2

(* What thread_priority_update_donation does to the counts. *)
LEMMA UpdateDonationValue ==
  ASSUME NEW don \in Donations, NEW t \in Threads, NEW old, NEW new
  PROVE  /\ UpdateDonation(don, t, old, new) \in Donations
         /\ \A u \in Threads, p \in Prio :
               UpdateDonation(don, t, old, new)[u][p] =
                 don[u][p] - (IF u = t /\ p = old THEN 1 ELSE 0)
                           + (IF u = t /\ p = new THEN 1 ELSE 0)
<1>. DEFINE row == [p \in Prio |-> don[t][p] - (IF p = old THEN 1 ELSE 0)
                                             + (IF p = new THEN 1 ELSE 0)]
<1>1. row \in [Prio -> Int]
  BY DEF Donations
<1>2. UpdateDonation(don, t, old, new) = [don EXCEPT ![t] = row]
  BY DEF UpdateDonation
<1>3. \A u \in Threads : UpdateDonation(don, t, old, new)[u]
                           = IF u = t THEN row ELSE don[u]
  BY <1>2 DEF Donations
<1>4. UpdateDonation(don, t, old, new) \in Donations
  BY <1>1, <1>2 DEF Donations
<1>5. ASSUME NEW u \in Threads, NEW p \in Prio
      PROVE  UpdateDonation(don, t, old, new)[u][p] =
                 don[u][p] - (IF u = t /\ p = old THEN 1 ELSE 0)
                           + (IF u = t /\ p = new THEN 1 ELSE 0)
  <2>0. don[u][p] \in Int
    BY DEF Donations
  <2>1. CASE u = t
    BY <1>3, <2>1
  <2>2. CASE u # t
    <3>1. UpdateDonation(don, t, old, new)[u][p] = don[u][p]
      BY <1>3, <2>2
    <3>. HIDE DEF row
    <3>. QED BY <2>0, <2>2, <3>1
  <2>. QED BY <2>1, <2>2
<1>. QED BY <1>4, <1>5

(* A wait queue stays a sequence of threads when one joins. *)
LEMMA AddWaiterType ==
  ASSUME NEW ws \in Seq(Threads), NEW t \in Threads
  PROVE  mutex_add_waiter(ws, t) \in Seq(Threads)
<1>. DEFINE lower == {i \in DOMAIN ws : Priority(t) < Priority(ws[i])}
            k == CHOOSE i \in lower : \A j \in lower : i <= j
<1>1. CASE lower = {}
  BY <1>1 DEF mutex_add_waiter
<1>2. CASE lower # {}
  <2>1. lower \in SUBSET Nat
    OBVIOUS
  <2>2. k \in 1 .. Len(ws)
    <3>1. \E i \in lower : \A j \in lower : i <= j
      BY <1>2, <2>1, LeastNatural
    <3>. QED BY <3>1
  <2>. HIDE DEF k
  <2>3. SubSeq(ws, 1, k - 1) \in Seq(Threads) /\ SubSeq(ws, k, Len(ws)) \in Seq(Threads)
    BY <2>2, SubSeqProperties
  <2>4. <<t>> \in Seq(Threads)
    OBVIOUS
  <2>5. SubSeq(ws, 1, k - 1) \o <<t>> \o SubSeq(ws, k, Len(ws)) \in Seq(Threads)
    BY <2>3, <2>4, ConcatProperties
  <2>. QED BY <1>2, <2>5 DEF mutex_add_waiter, k
<1>. QED BY <1>1, <1>2

----------------------------------------------------------------------------
(* Two sets of mutexes that differ in m at most.                           *)
LEMMA DifferInOne ==
  ASSUME NEW A \in SUBSET Mutexes, NEW B \in SUBSET Mutexes, NEW m,
         A \ {m} = B \ {m}
  PROVE  Cardinality(B) = Cardinality(A) - (IF m \in A THEN 1 ELSE 0)
                                         + (IF m \in B THEN 1 ELSE 0)
<1>1. IsFiniteSet(Mutexes)
  BY NMutexesAssumption, FS_Interval DEF Mutexes
<1>2. IsFiniteSet(A) /\ IsFiniteSet(B)
  BY <1>1, FS_Subset
<1>3. Cardinality(A) \in Nat /\ Cardinality(B) \in Nat
  BY <1>2, FS_CardinalityType
<1>4. Cardinality(A \ {m}) = IF m \in A THEN Cardinality(A) - 1 ELSE Cardinality(A)
  BY <1>2, FS_RemoveElement
<1>5. Cardinality(B \ {m}) = IF m \in B THEN Cardinality(B) - 1 ELSE Cardinality(B)
  BY <1>2, FS_RemoveElement
<1>. QED BY <1>3, <1>4, <1>5

----------------------------------------------------------------------------
(* TypeOK with the donation counts in Int: that they stay natural is what  *)
(* the accounting shows.                                                   *)
TypeCore ==
    /\ locked \in [Mutexes -> {0, 1}]
    /\ owner \in [Mutexes -> Threads \cup {None}]
    /\ donated_priority \in [Mutexes -> Prio \cup {PRIO_NONE}]
    /\ waiters \in [Mutexes -> Seq(Threads)]
    /\ status \in [Threads -> {"READY", "BLOCKED"}]
    /\ base_priority \in [Threads -> Prio]
    /\ pi_donations \in Donations
    /\ pc \in [Threads -> {"run", "try", "attach", "slow"}]
    /\ want \in [Threads -> Mutexes \cup {0}]
    /\ holding \in [Threads -> SUBSET Mutexes]
    /\ setting \in [Threads -> SUBSET (Threads \X Prio)]

(* A thread inside mutex_lock is locking some mutex. *)
WantSet == \A t \in Threads : pc[t] # "run" => want[t] \in Mutexes

(* A mutex with an owner is locked. *)
OwnedIsLocked == \A m \in Mutexes : owner[m] # None => locked[m] = 1

(* The inductive invariant. *)
IInv == TypeCore /\ WantSet /\ OwnedIsLocked /\ MutualExclusion /\ DonationAccounting

(* A step that changes the owner or the donation of mutex m only, and the  *)
(* counts accordingly, keeps the accounting.                               *)
LEMMA AccountingStep ==
  ASSUME DonationAccounting, NEW m \in Mutexes,
         \A n \in Mutexes \ {m} : /\ owner'[n] = owner[n]
                                 /\ donated_priority'[n] = donated_priority[n],
         \A t \in Threads, p \in Prio :
            pi_donations'[t][p] = pi_donations[t][p]
              - (IF owner[m] = t /\ donated_priority[m] = p THEN 1 ELSE 0)
              + (IF owner'[m] = t /\ donated_priority'[m] = p THEN 1 ELSE 0)
  PROVE  DonationAccounting'
<1>. SUFFICES ASSUME NEW t \in Threads, NEW p \in Prio
     PROVE  pi_donations'[t][p] =
              Cardinality({n \in Mutexes : owner'[n] = t /\ donated_priority'[n] = p})
  BY DEF DonationAccounting
<1>. DEFINE A == {n \in Mutexes : owner[n] = t /\ donated_priority[n] = p}
            B == {n \in Mutexes : owner'[n] = t /\ donated_priority'[n] = p}
<1>1. pi_donations[t][p] = Cardinality(A)
  BY DEF DonationAccounting
<1>2. A \in SUBSET Mutexes /\ B \in SUBSET Mutexes /\ A \ {m} = B \ {m}
  OBVIOUS
<1>3. pi_donations'[t][p] = pi_donations[t][p] - (IF m \in A THEN 1 ELSE 0)
                                               + (IF m \in B THEN 1 ELSE 0)
  OBVIOUS
<1>. HIDE DEF A, B
<1>4. Cardinality(B) = Cardinality(A) - (IF m \in A THEN 1 ELSE 0)
                                      + (IF m \in B THEN 1 ELSE 0)
  BY <1>2, DifferInOne
<1>5. pi_donations'[t][p] = Cardinality(B)
  BY <1>1, <1>3, <1>4
<1>. QED BY <1>5 DEF B

(* A step that touches no owner, donation or count keeps the accounting.   *)
LEMMA AccountingStutter ==
  ASSUME DonationAccounting, UNCHANGED <<owner, donated_priority, pi_donations>>
  PROVE  DonationAccounting'
BY DEF DonationAccounting

(* mutex_refresh_donation, as the mutex's donation and the counts see it.  *)
LEMMA RefreshEffect ==
  ASSUME TypeCore, NEW m \in Mutexes, NEW don \in Donations,
         NEW o \in Threads \cup {None}, NEW old, NEW ws \in Seq(Threads),
         mutex_refresh_donation(m, don, o, old, ws)
  PROVE  /\ pi_donations' \in Donations
         /\ donated_priority' \in [Mutexes -> Prio \cup {PRIO_NONE}]
         /\ \A n \in Mutexes \ {m} : donated_priority'[n] = donated_priority[n]
         /\ \A t \in Threads, p \in Prio :
               pi_donations'[t][p] = don[t][p]
                 - (IF o = t /\ old = p THEN 1 ELSE 0)
                 + (IF o = t /\ donated_priority'[m] = p THEN 1 ELSE 0)
<1>. DEFINE new == IF o = None THEN PRIO_NONE ELSE WaiterPriority(don, ws)
<1>1. new \in Prio \cup {PRIO_NONE}
  BY WaiterPriorityType DEF TypeCore
<1>2. /\ donated_priority' = [donated_priority EXCEPT ![m] = new]
      /\ pi_donations' = IF o = None THEN don ELSE UpdateDonation(don, o, old, new)
  BY DEF mutex_refresh_donation
<1>. HIDE DEF new
<1>3. /\ donated_priority' \in [Mutexes -> Prio \cup {PRIO_NONE}]
      /\ donated_priority'[m] = new
      /\ \A n \in Mutexes \ {m} : donated_priority'[n] = donated_priority[n]
  BY <1>1, <1>2 DEF TypeCore
<1>4. CASE o = None
  <2>1. pi_donations' = don
    BY <1>2, <1>4
  <2>2. \A t \in Threads, p \in Prio : o # t /\ don[t][p] \in Int
    BY <1>4, NoneAssumption DEF Donations
  <2>. QED BY <1>3, <2>1, <2>2
<1>5. CASE o # None
  <2>1. o \in Threads /\ pi_donations' = UpdateDonation(don, o, old, new)
    BY <1>2, <1>5
  <2>2. /\ pi_donations' \in Donations
        /\ \A t \in Threads, p \in Prio :
              pi_donations'[t][p] = don[t][p]
                 - (IF t = o /\ p = old THEN 1 ELSE 0)
                 + (IF t = o /\ p = new THEN 1 ELSE 0)
    BY <2>1, UpdateDonationValue
  <2>. QED BY <1>3, <2>2
<1>. QED BY <1>4, <1>5

(* mutex_detach_owner, likewise. *)
LEMMA DetachEffect ==
  ASSUME TypeCore, NEW m \in Mutexes
  PROVE  /\ mutex_detach_owner(m) \in Donations
         /\ \A t \in Threads, p \in Prio :
               mutex_detach_owner(m)[t][p] = pi_donations[t][p]
                 - (IF owner[m] = t /\ donated_priority[m] = p THEN 1 ELSE 0)
<1>1. CASE owner[m] = None
  <2>1. mutex_detach_owner(m) = pi_donations
    BY <1>1 DEF mutex_detach_owner
  <2>2. \A t \in Threads, p \in Prio : owner[m] # t /\ pi_donations[t][p] \in Int
    BY <1>1, NoneAssumption DEF TypeCore, Donations
  <2>. QED BY <2>1, <2>2 DEF TypeCore
<1>2. CASE owner[m] # None
  <2>1. /\ owner[m] \in Threads
        /\ mutex_detach_owner(m) =
             UpdateDonation(pi_donations, owner[m], donated_priority[m], PRIO_NONE)
    BY <1>2 DEF mutex_detach_owner, TypeCore
  <2>2. /\ mutex_detach_owner(m) \in Donations
        /\ \A t \in Threads, p \in Prio :
              mutex_detach_owner(m)[t][p] = pi_donations[t][p]
                 - (IF t = owner[m] /\ p = donated_priority[m] THEN 1 ELSE 0)
                 + (IF t = owner[m] /\ p = PRIO_NONE THEN 1 ELSE 0)
    BY <2>1, UpdateDonationValue DEF TypeCore
  <2>3. \A t \in Threads, p \in Prio : p # PRIO_NONE /\ pi_donations[t][p] \in Int
    BY PrioAssumption DEF PRIO_NONE, Prio, TypeCore, Donations
  <2>. QED BY <2>2, <2>3
<1>. QED BY <1>1, <1>2
----------------------------------------------------------------------------
(* mutex_init gives the invariant. *)
LEMMA InitInvariant == Init => IInv
<1>. SUFFICES ASSUME Init PROVE IInv
  OBVIOUS
<1>1. TypeCore
  <2>1. inst.base \in [Threads -> Prio]
    BY InstancesAssumption DEF Init
  <2>. QED BY <2>1, PrioAssumption DEF Init, TypeCore, Donations
<1>2. WantSet /\ OwnedIsLocked /\ MutualExclusion
  BY DEF Init, WantSet, OwnedIsLocked, MutualExclusion
<1>3. DonationAccounting
  <2>. SUFFICES ASSUME NEW t \in Threads, NEW p \in Prio
       PROVE  pi_donations[t][p] =
                Cardinality({m \in Mutexes : owner[m] = t /\ donated_priority[m] = p})
    BY DEF DonationAccounting
  <2>1. {m \in Mutexes : owner[m] = t /\ donated_priority[m] = p} = {}
    BY NoneAssumption DEF Init
  <2>2. pi_donations[t][p] = 0
    BY DEF Init
  <2>. QED BY <2>1, <2>2, FS_EmptySet
<1>. QED BY <1>1, <1>2, <1>3 DEF IInv

(* A thread calls mutex_lock: only its own control state changes. *)
LEMMA CallStep ==
  ASSUME IInv, NEW t \in Threads, NEW m \in Mutexes, Call(t, m)
  PROVE  IInv'
<1>1. TypeCore' /\ WantSet' /\ OwnedIsLocked'
  BY DEF IInv, TypeCore, WantSet, OwnedIsLocked, Call, Goto, At
<1>2. MutualExclusion'
  BY DEF IInv, TypeCore, MutualExclusion, Call, Goto, At
<1>3. DonationAccounting'
  BY AccountingStutter DEF IInv, Call
<1>. QED BY <1>1, <1>2, <1>3 DEF IInv

(* The attempt fails and the thread goes to the slow path. *)
LEMMA TryFailsStep ==
  ASSUME IInv, NEW t \in Threads, TryFails(t)
  PROVE  IInv'
<1>1. TypeCore' /\ WantSet' /\ OwnedIsLocked'
  BY DEF IInv, TypeCore, WantSet, OwnedIsLocked, TryFails, Goto, At
<1>2. MutualExclusion'
  BY DEF IInv, TypeCore, MutualExclusion, TryFails, Goto, At
<1>3. DonationAccounting'
  BY AccountingStutter DEF IInv, TryFails
<1>. QED BY <1>1, <1>2, <1>3 DEF IInv

(* A handed-over mutex is locked and has no other holder. *)
LEMMA ConfirmStep ==
  ASSUME IInv, NEW t \in Threads, Confirm(t)
  PROVE  IInv'
<1>1. want[t] \in Mutexes /\ owner[want[t]] = t /\ locked[want[t]] = 1
  BY NoneAssumption DEF IInv, WantSet, OwnedIsLocked, Confirm
<1>2. TypeCore' /\ WantSet' /\ OwnedIsLocked'
  BY <1>1 DEF IInv, TypeCore, WantSet, OwnedIsLocked, Confirm, Granted, Goto
<1>3. MutualExclusion'
  BY <1>1, <1>2 DEF IInv, TypeCore, MutualExclusion, Confirm, Granted, Goto
<1>4. DonationAccounting'
  BY AccountingStutter DEF IInv, Confirm
<1>. QED BY <1>2, <1>3, <1>4 DEF IInv

(* A free mutex has no owner, no holder and nobody about to attach: the    *)
(* winner of the compare-and-swap is alone.                                *)
LEMMA FreeMutex ==
  ASSUME IInv, NEW m \in Mutexes, locked[m] = 0
  PROVE  /\ owner[m] = None
         /\ \A u \in Threads : m \notin holding[u]
         /\ \A u \in Threads : ~(pc[u] = "attach" /\ want[u] = m)
BY DEF IInv, OwnedIsLocked, MutualExclusion

(* The fast path wins the compare-and-swap. *)
LEMMA TryLockStep ==
  ASSUME IInv, NEW t \in Threads, TryLock(t)
  PROVE  IInv'
<1>1. want[t] \in Mutexes /\ locked[want[t]] = 0
  BY DEF IInv, WantSet, TryLock, At
<1>2. TypeCore' /\ WantSet' /\ OwnedIsLocked'
  BY <1>1 DEF IInv, TypeCore, WantSet, OwnedIsLocked, TryLock, Take, Goto, At
<1>3. MutualExclusion'
  <2>1. /\ owner[want[t]] = None
        /\ \A u \in Threads : want[t] \notin holding[u]
        /\ \A u \in Threads : ~(pc[u] = "attach" /\ want[u] = want[t])
    BY <1>1, FreeMutex
  <2>2. /\ locked' = [locked EXCEPT ![want[t]] = 1]
        /\ pc' = [pc EXCEPT ![t] = "attach"]
        /\ UNCHANGED <<owner, want, holding>>
    BY DEF TryLock, Take, Goto
  <2>. QED BY <1>1, <2>1, <2>2 DEF IInv, TypeCore, MutualExclusion
<1>4. DonationAccounting'
  BY AccountingStutter DEF IInv, TryLock
<1>. QED BY <1>2, <1>3, <1>4 DEF IInv

(* Taking ownership of a mutex that has no owner, on either path. *)
LEMMA TakeOwnership ==
  ASSUME IInv, NEW t \in Threads, want[t] \in Mutexes,
         owner[want[t]] = None,
         mutex_attach_owner(want[t], pi_donations, t, waiters[want[t]])
  PROVE  /\ owner' = [owner EXCEPT ![want[t]] = t]
         /\ pi_donations' \in Donations
         /\ donated_priority' \in [Mutexes -> Prio \cup {PRIO_NONE}]
         /\ DonationAccounting'
<1>1. /\ owner' = [owner EXCEPT ![want[t]] = t]
      /\ mutex_refresh_donation(want[t], pi_donations, t, PRIO_NONE, waiters[want[t]])
  BY DEF mutex_attach_owner
<1>2. /\ pi_donations' \in Donations
      /\ donated_priority' \in [Mutexes -> Prio \cup {PRIO_NONE}]
      /\ \A n \in Mutexes \ {want[t]} : donated_priority'[n] = donated_priority[n]
      /\ \A u \in Threads, p \in Prio :
            pi_donations'[u][p] = pi_donations[u][p]
              - (IF t = u /\ PRIO_NONE = p THEN 1 ELSE 0)
              + (IF t = u /\ donated_priority'[want[t]] = p THEN 1 ELSE 0)
  BY <1>1, RefreshEffect DEF IInv, TypeCore
<1>3. \A u \in Threads, p \in Prio : owner[want[t]] # u /\ PRIO_NONE # p
  BY NoneAssumption, PrioAssumption DEF PRIO_NONE, Prio
<1>4. owner'[want[t]] = t /\ \A n \in Mutexes \ {want[t]} : owner'[n] = owner[n]
  BY <1>1 DEF IInv, TypeCore
<1>5. DonationAccounting'
  BY <1>2, <1>3, <1>4, AccountingStep DEF IInv
<1>. QED BY <1>1, <1>2, <1>5

(* The winner of the fast path records itself as the owner. *)
LEMMA AttachStep ==
  ASSUME IInv, NEW t \in Threads, Attach(t)
  PROVE  IInv'
<1>1. want[t] \in Mutexes /\ owner[want[t]] = None /\ locked[want[t]] = 1
  BY DEF IInv, WantSet, MutualExclusion, Attach, At
<1>2. /\ owner' = [owner EXCEPT ![want[t]] = t]
      /\ pi_donations' \in Donations
      /\ donated_priority' \in [Mutexes -> Prio \cup {PRIO_NONE}]
      /\ DonationAccounting'
  BY <1>1, TakeOwnership DEF Attach
<1>3. TypeCore' /\ WantSet' /\ OwnedIsLocked'
  BY <1>1, <1>2 DEF IInv, TypeCore, WantSet, OwnedIsLocked, Attach, Granted, Goto, At
<1>4. MutualExclusion'
  BY <1>1, <1>2, NoneAssumption
     DEF IInv, TypeCore, MutualExclusion, Attach, Granted, Goto, At
<1>. QED BY <1>2, <1>3, <1>4 DEF IInv

(* The slow path takes the mutex under waiters.lock. *)
LEMMA SlowTakeStep ==
  ASSUME IInv, NEW t \in Threads, SlowTake(t)
  PROVE  IInv'
<1>1. want[t] \in Mutexes /\ locked[want[t]] = 0
  BY DEF IInv, WantSet, SlowTake, SlowFree, At
<1>2. /\ owner[want[t]] = None
      /\ \A u \in Threads : want[t] \notin holding[u]
      /\ \A u \in Threads : ~(pc[u] = "attach" /\ want[u] = want[t])
  BY <1>1, FreeMutex
<1>3. /\ owner' = [owner EXCEPT ![want[t]] = t]
      /\ pi_donations' \in Donations
      /\ donated_priority' \in [Mutexes -> Prio \cup {PRIO_NONE}]
      /\ DonationAccounting'
  BY <1>1, <1>2, TakeOwnership DEF SlowTake
<1>4. TypeCore' /\ WantSet' /\ OwnedIsLocked'
  BY <1>1, <1>3
     DEF IInv, TypeCore, WantSet, OwnedIsLocked, SlowTake, Take, Granted, Goto, At
<1>5. MutualExclusion'
  BY <1>1, <1>2, <1>3, NoneAssumption
     DEF IInv, TypeCore, MutualExclusion, SlowTake, Take, Granted, Goto, At
<1>. QED BY <1>3, <1>4, <1>5 DEF IInv

(* A change of the wait queue, refreshed into the owner's donations. *)
LEMMA QueueRefreshed ==
  ASSUME IInv, NEW m \in Mutexes, NEW ws \in Seq(Threads), UNCHANGED owner,
         mutex_refresh_donation(m, pi_donations, owner[m], donated_priority[m], ws)
  PROVE  /\ pi_donations' \in Donations
         /\ donated_priority' \in [Mutexes -> Prio \cup {PRIO_NONE}]
         /\ DonationAccounting'
<1>. DEFINE o == owner[m]
            old == donated_priority[m]
<1>1. /\ TypeCore /\ pi_donations \in Donations
      /\ o \in Threads \cup {None}
      /\ mutex_refresh_donation(m, pi_donations, o, old, ws)
  BY DEF IInv, TypeCore
<1>. HIDE DEF o, old
<1>2. /\ pi_donations' \in Donations
      /\ donated_priority' \in [Mutexes -> Prio \cup {PRIO_NONE}]
      /\ \A n \in Mutexes \ {m} : donated_priority'[n] = donated_priority[n]
      /\ \A u \in Threads, p \in Prio :
            pi_donations'[u][p] = pi_donations[u][p]
              - (IF o = u /\ old = p THEN 1 ELSE 0)
              + (IF o = u /\ donated_priority'[m] = p THEN 1 ELSE 0)
  BY SMTT(60), <1>1, RefreshEffect
<1>3. DonationAccounting'
  BY <1>2, AccountingStep DEF IInv, o, old
<1>. QED BY <1>2, <1>3

(* The thread queues itself and the owner's donation is refreshed. *)
LEMMA SlowBlockStep ==
  ASSUME IInv, NEW t \in Threads, SlowBlock(t)
  PROVE  IInv'
<1>. DEFINE m == want[t]
            ws == mutex_add_waiter(waiters[m], t)
<1>1. m \in Mutexes /\ waiters[m] \in Seq(Threads) /\ owner[m] \in Threads \cup {None}
  BY DEF IInv, TypeCore, WantSet, SlowBlock, At
<1>2. /\ pc' = [pc EXCEPT ![t] = IF Handoff THEN "slow" ELSE "try"]
      /\ UNCHANGED <<locked, owner, base_priority, want, holding, setting>>
  BY DEF SlowBlock, Goto
<1>3. WantSet' /\ OwnedIsLocked'
  BY <1>1, <1>2 DEF IInv, TypeCore, WantSet, OwnedIsLocked
<1>4. MutualExclusion'
  BY <1>2 DEF IInv, TypeCore, MutualExclusion
<1>5. CASE t \in Elements(waiters[m])
  <2>1. UNCHANGED <<waiters, status, donated_priority, pi_donations>>
    BY <1>5 DEF SlowBlock
  <2>2. TypeCore'
    BY <1>2, <2>1 DEF IInv, TypeCore
  <2>3. DonationAccounting'
    BY <1>2, <2>1, AccountingStutter DEF IInv
  <2>. QED BY <1>3, <1>4, <2>2, <2>3 DEF IInv
<1>6. CASE t \notin Elements(waiters[m])
  <2>1. /\ waiters' = [waiters EXCEPT ![m] = ws]
        /\ status' = [status EXCEPT ![t] = "BLOCKED"]
        /\ mutex_refresh_donation(m, pi_donations, owner[m], donated_priority[m], ws)
    BY <1>6 DEF SlowBlock
  <2>2. ws \in Seq(Threads)
    BY <1>1, AddWaiterType
  <2>. HIDE DEF m, ws
  <2>3. /\ pi_donations' \in Donations
        /\ donated_priority' \in [Mutexes -> Prio \cup {PRIO_NONE}]
        /\ DonationAccounting'
    BY <1>1, <1>2, <2>1, <2>2, QueueRefreshed
  <2>4. TypeCore'
    BY <1>1, <1>2, <2>1, <2>2, <2>3 DEF IInv, TypeCore
  <2>. QED BY <1>3, <1>4, <2>3, <2>4 DEF IInv
<1>. QED BY <1>5, <1>6

----------------------------------------------------------------------------
(* What a wakeup does to the queue and to the status. *)
LEMMA WakeType ==
  ASSUME TypeCore, NEW m \in Mutexes, __wake_up_one(m)
  PROVE  /\ waiters' \in [Mutexes -> Seq(Threads)]
         /\ status' \in [Threads -> {"READY", "BLOCKED"}]
<1>1. CASE waiters[m] = <<>>
  BY <1>1 DEF __wake_up_one, TypeCore
<1>2. CASE waiters[m] # <<>>
  <2>1. waiters[m] \in Seq(Threads)
    BY DEF TypeCore
  <2>2. Tail(waiters[m]) \in Seq(Threads)
    BY <1>2, <2>1, HeadTailProperties
  <2>3. /\ waiters' = [waiters EXCEPT ![m] = Tail(waiters[m])]
        /\ status' = [status EXCEPT ![Head(waiters[m])] = "READY"]
    BY <1>2 DEF __wake_up_one
  <2>. QED BY <2>2, <2>3 DEF TypeCore
<1>. QED BY <1>1, <1>2

(* The mutex is freed: its owner's donation is taken back. *)
LEMMA Freed ==
  ASSUME IInv, NEW m \in Mutexes,
         pi_donations' = mutex_detach_owner(m),
         donated_priority' = [donated_priority EXCEPT ![m] = PRIO_NONE],
         owner' = [owner EXCEPT ![m] = None]
  PROVE  pi_donations' \in Donations /\ DonationAccounting'
<1>1. /\ pi_donations' \in Donations
      /\ \A u \in Threads, p \in Prio :
            pi_donations'[u][p] = pi_donations[u][p]
              - (IF owner[m] = u /\ donated_priority[m] = p THEN 1 ELSE 0)
  BY DetachEffect DEF IInv
<1>2. owner'[m] = None /\ \A n \in Mutexes \ {m} : /\ owner'[n] = owner[n]
                                                   /\ donated_priority'[n] = donated_priority[n]
  BY DEF IInv, TypeCore
<1>3. \A u \in Threads : owner'[m] # u
  BY <1>2, NoneAssumption
<1>4. \A u \in Threads, p \in Prio : pi_donations[u][p] \in Int
  BY DEF IInv, TypeCore, Donations
<1>5. \A u \in Threads, p \in Prio :
         pi_donations'[u][p] = pi_donations[u][p]
           - (IF owner[m] = u /\ donated_priority[m] = p THEN 1 ELSE 0)
           + (IF owner'[m] = u /\ donated_priority'[m] = p THEN 1 ELSE 0)
  BY <1>1, <1>3, <1>4
<1>6. DonationAccounting'
  BY <1>2, <1>5, AccountingStep DEF IInv
<1>. QED BY <1>1, <1>6

(* A held mutex has no other holder and nobody about to attach. *)
LEMMA HeldMutex ==
  ASSUME IInv, NEW t \in Threads, NEW m \in Mutexes, m \in holding[t]
  PROVE  /\ owner[m] = t /\ locked[m] = 1
         /\ \A u \in Threads : m \in holding[u] => u = t
         /\ \A u \in Threads : ~(pc[u] = "attach" /\ want[u] = m)
BY NoneAssumption DEF IInv, MutualExclusion

(* The raw unlock frees the mutex and wakes a waiter. *)
LEMMA UnlockRawStep ==
  ASSUME IInv, NEW t \in Threads, NEW m \in Mutexes, mutex_unlock_raw(t, m)
  PROVE  IInv'
<1>1. /\ owner[m] = t /\ locked[m] = 1
      /\ \A u \in Threads : m \in holding[u] => u = t
      /\ \A u \in Threads : ~(pc[u] = "attach" /\ want[u] = m)
  BY HeldMutex DEF mutex_unlock_raw
<1>2. /\ pi_donations' = mutex_detach_owner(m)
      /\ donated_priority' = [donated_priority EXCEPT ![m] = PRIO_NONE]
      /\ owner' = [owner EXCEPT ![m] = None]
      /\ locked' = [locked EXCEPT ![m] = 0]
      /\ holding' = [holding EXCEPT ![t] = @ \ {m}]
      /\ UNCHANGED <<base_priority, pc, want, setting>>
  BY DEF mutex_unlock_raw
<1>3. pi_donations' \in Donations /\ DonationAccounting'
  BY <1>2, Freed
<1>4. /\ waiters' \in [Mutexes -> Seq(Threads)]
      /\ status' \in [Threads -> {"READY", "BLOCKED"}]
  BY WakeType DEF IInv, mutex_unlock_raw
<1>5. TypeCore' /\ WantSet' /\ OwnedIsLocked'
  BY <1>2, <1>3, <1>4 DEF IInv, TypeCore, WantSet, OwnedIsLocked
<1>6. MutualExclusion'
  BY <1>1, <1>2 DEF IInv, TypeCore, MutualExclusion
<1>. QED BY <1>3, <1>5, <1>6 DEF IInv

(* The handoff unlock gives the mutex to the first waiter, if any, without *)
(* its ever being free.                                                    *)
LEMMA UnlockHandoffStep ==
  ASSUME IInv, NEW t \in Threads, NEW m \in Mutexes, mutex_unlock_handoff(t, m)
  PROVE  IInv'
<1>1. /\ owner[m] = t /\ locked[m] = 1
      /\ \A u \in Threads : m \in holding[u] => u = t
      /\ \A u \in Threads : ~(pc[u] = "attach" /\ want[u] = m)
  BY HeldMutex DEF mutex_unlock_handoff
<1>2. /\ holding' = [holding EXCEPT ![t] = @ \ {m}]
      /\ UNCHANGED <<base_priority, pc, want, setting>>
  BY DEF mutex_unlock_handoff
<1>3. /\ waiters' \in [Mutexes -> Seq(Threads)]
      /\ status' \in [Threads -> {"READY", "BLOCKED"}]
  BY WakeType DEF IInv, mutex_unlock_handoff
<1>4. CASE waiters[m] = <<>>
  <2>1. /\ pi_donations' = mutex_detach_owner(m)
        /\ donated_priority' = [donated_priority EXCEPT ![m] = PRIO_NONE]
        /\ owner' = [owner EXCEPT ![m] = None]
        /\ locked' = [locked EXCEPT ![m] = 0]
    BY <1>4 DEF mutex_unlock_handoff
  <2>2. pi_donations' \in Donations /\ DonationAccounting'
    BY <2>1, Freed
  <2>3. TypeCore' /\ WantSet' /\ OwnedIsLocked'
    BY <1>2, <1>3, <2>1, <2>2 DEF IInv, TypeCore, WantSet, OwnedIsLocked
  <2>4. MutualExclusion'
    BY <1>1, <1>2, <2>1 DEF IInv, TypeCore, MutualExclusion
  <2>. QED BY <2>2, <2>3, <2>4 DEF IInv
<1>5. CASE waiters[m] # <<>>
  <2>. DEFINE h == Head(waiters[m])
              rest == Tail(waiters[m])
  <2>1. /\ owner' = [owner EXCEPT ![m] = h]
        /\ mutex_refresh_donation(m, mutex_detach_owner(m), h, PRIO_NONE, rest)
        /\ UNCHANGED locked
    BY <1>5 DEF mutex_unlock_handoff, mutex_attach_owner
  <2>2. waiters[m] \in Seq(Threads)
    BY DEF IInv, TypeCore
  <2>3. h \in Threads /\ rest \in Seq(Threads)
    BY <1>5, <2>2, HeadTailProperties
  <2>. HIDE DEF h, rest
  <2>4. /\ mutex_detach_owner(m) \in Donations
        /\ \A u \in Threads, p \in Prio :
              mutex_detach_owner(m)[u][p] = pi_donations[u][p]
                - (IF owner[m] = u /\ donated_priority[m] = p THEN 1 ELSE 0)
    BY DetachEffect DEF IInv
  <2>5. /\ pi_donations' \in Donations
        /\ donated_priority' \in [Mutexes -> Prio \cup {PRIO_NONE}]
        /\ \A n \in Mutexes \ {m} : donated_priority'[n] = donated_priority[n]
        /\ \A u \in Threads, p \in Prio :
              pi_donations'[u][p] = mutex_detach_owner(m)[u][p]
                - (IF h = u /\ PRIO_NONE = p THEN 1 ELSE 0)
                + (IF h = u /\ donated_priority'[m] = p THEN 1 ELSE 0)
    BY <2>1, <2>3, <2>4, RefreshEffect DEF IInv
  <2>6. owner'[m] = h /\ \A n \in Mutexes \ {m} : owner'[n] = owner[n]
    BY <2>1 DEF IInv, TypeCore
  <2>7. \A u \in Threads, p \in Prio :
           pi_donations'[u][p] = pi_donations[u][p]
             - (IF owner[m] = u /\ donated_priority[m] = p THEN 1 ELSE 0)
             + (IF owner'[m] = u /\ donated_priority'[m] = p THEN 1 ELSE 0)
    <3>1. \A u \in Threads, p \in Prio :
             p # PRIO_NONE /\ mutex_detach_owner(m)[u][p] \in Int
      BY <2>4, PrioAssumption DEF PRIO_NONE, Prio, Donations
    <3>. QED BY <2>4, <2>5, <2>6, <3>1
  <2>8. DonationAccounting'
    BY <2>5, <2>6, <2>7, AccountingStep DEF IInv
  <2>9. TypeCore' /\ WantSet' /\ OwnedIsLocked'
    BY <1>1, <1>2, <1>3, <2>1, <2>3, <2>5 DEF IInv, TypeCore, WantSet, OwnedIsLocked
  <2>10. MutualExclusion'
    BY <1>1, <1>2, <2>1 DEF IInv, TypeCore, MutualExclusion
  <2>. QED BY <2>8, <2>9, <2>10 DEF IInv
<1>. QED BY <1>4, <1>5

----------------------------------------------------------------------------
(* thread_set_priority, before and under pi_lock. *)
LEMMA SetPriorityStep ==
  ASSUME IInv, NEW t \in Threads,
         \/ \E u \in Threads, p \in Prio : SetPriorityCheck(t, u, p)
         \/ SetPriorityApply(t)
  PROVE  IInv'
<1>1. CASE \E u \in Threads, p \in Prio : SetPriorityCheck(t, u, p)
  <2>1. TypeCore'
    BY <1>1 DEF IInv, TypeCore, SetPriorityCheck
  <2>2. UNCHANGED <<locked, owner, donated_priority, pi_donations, pc, want, holding>>
    BY <1>1 DEF SetPriorityCheck
  <2>3. WantSet' /\ OwnedIsLocked' /\ MutualExclusion'
    BY <2>2 DEF IInv, WantSet, OwnedIsLocked, MutualExclusion
  <2>4. DonationAccounting'
    BY <2>2, AccountingStutter DEF IInv
  <2>. QED BY <2>1, <2>3, <2>4 DEF IInv
<1>2. CASE SetPriorityApply(t)
  <2>1. PICK s \in setting[t] : base_priority' = [base_priority EXCEPT ![s[1]] = s[2]]
    BY <1>2 DEF SetPriorityApply
  <2>2. s \in Threads \X Prio
    BY DEF IInv, TypeCore
  <2>3. base_priority' \in [Threads -> Prio]
    BY <2>1, <2>2 DEF IInv, TypeCore
  <2>4. TypeCore'
    BY <1>2, <2>3 DEF IInv, TypeCore, SetPriorityApply
  <2>5. UNCHANGED <<locked, owner, donated_priority, pi_donations, pc, want, holding>>
    BY <1>2 DEF SetPriorityApply
  <2>6. WantSet' /\ OwnedIsLocked' /\ MutualExclusion'
    BY <2>5 DEF IInv, WantSet, OwnedIsLocked, MutualExclusion
  <2>7. DonationAccounting'
    BY <2>5, AccountingStutter DEF IInv
  <2>. QED BY <2>4, <2>6, <2>7 DEF IInv
<1>. QED BY <1>1, <1>2

(* A step of the environment that touches no variable. *)
LEMMA StutterStep == IInv /\ UNCHANGED vars => IInv'
BY DEF IInv, TypeCore, WantSet, OwnedIsLocked, MutualExclusion,
       DonationAccounting, Donations, vars

(* Every step keeps the invariant. *)
LEMMA NextInvariant == IInv /\ [Next]_vars => IInv'
<1>. SUFFICES ASSUME IInv, [Next]_vars PROVE IInv'
  OBVIOUS
<1>1. CASE UNCHANGED vars
  BY <1>1, StutterStep
<1>2. CASE Next
  <2>1. PICK t \in Threads :
           \/ \E m \in Mutexes : Call(t, m) \/ mutex_unlock(t, m)
           \/ Locking(t)
           \/ \E u \in Threads, p \in Prio : SetPriorityCheck(t, u, p)
           \/ SetPriorityApply(t)
    BY <1>2 DEF Next
  <2>2. ASSUME NEW m \in Mutexes, Call(t, m) \/ mutex_unlock(t, m)
        PROVE  IInv'
    BY <2>2, CallStep, UnlockRawStep, UnlockHandoffStep DEF mutex_unlock
  <2>3. CASE Locking(t)
    BY <2>3, ConfirmStep, TryLockStep, TryFailsStep, AttachStep, SlowTakeStep,
       SlowBlockStep DEF Locking
  <2>4. CASE \/ \E u \in Threads, p \in Prio : SetPriorityCheck(t, u, p)
             \/ SetPriorityApply(t)
    BY <2>4, SetPriorityStep
  <2>. QED BY <2>1, <2>2, <2>3, <2>4
<1>. QED BY <1>1, <1>2

----------------------------------------------------------------------------
(* The inductive invariant holds in every reachable state of the mutex. *)
THEOREM InvariantHolds == Spec => []IInv
<1>1. [Next /\ UNCHANGED inst]_<<vars, inst>> => [Next]_vars
  OBVIOUS
<1>. QED BY <1>1, InitInvariant, NextInvariant, PTL DEF Spec

(* No panic "missing donation": every count stays a natural, and every     *)
(* other variable keeps its type.                                          *)
THEOREM MutexTypeCorrect == Spec => []TypeOK
<1>1. ASSUME IInv PROVE TypeOK
  <2>1. ASSUME NEW t \in Threads, NEW p \in Prio
        PROVE  pi_donations[t][p] \in Nat
    <3>. DEFINE A == {m \in Mutexes : owner[m] = t /\ donated_priority[m] = p}
    <3>1. IsFiniteSet(Mutexes)
      BY NMutexesAssumption, FS_Interval DEF Mutexes
    <3>2. A \in SUBSET Mutexes
      OBVIOUS
    <3>3. Cardinality(A) \in Nat
      BY <3>1, <3>2, FS_Subset, FS_CardinalityType
    <3>. QED BY <1>1, <3>3 DEF IInv, DonationAccounting
  <2>2. pi_donations \in [Threads -> [Prio -> Nat]]
    BY <1>1, <2>1 DEF IInv, TypeCore, Donations
  <2>. QED BY <1>1, <2>2 DEF IInv, TypeCore, TypeOK
<1>. QED BY <1>1, InvariantHolds, PTL

(* A mutex never has two holders, in either build: the recorded owner is   *)
(* the holder, and no fast path overwrites another owner.                  *)
THEOREM MutexExcludes == Spec => []MutualExclusion
<1>1. IInv => MutualExclusion
  BY DEF IInv
<1>. QED BY <1>1, InvariantHolds, PTL

(* The aggregation invariant of the design document: each thread's counts  *)
(* are exactly the donations of the mutexes it owns.                       *)
THEOREM DonationsAccounted == Spec => []DonationAccounting
<1>1. IInv => DonationAccounting
  BY DEF IInv
<1>. QED BY <1>1, InvariantHolds, PTL

----------------------------------------------------------------------------
(* The wait queue with t inserted at position k. *)
Inserted(ws, k, t) ==
    [i \in 1 .. Len(ws) + 1 |-> IF i < k THEN ws[i] ELSE IF i = k THEN t ELSE ws[i - 1]]

(* A thread's priority is a number, no lower than its base priority. *)
LEMMA PriorityType ==
  ASSUME TypeCore, NEW t \in Threads
  PROVE  Priority(t) \in Prio /\ Priority(t) \in Int /\ Priority(t) <= base_priority[t]
<1>1. pi_donations \in Donations /\ base_priority \in [Threads -> Prio]
  BY DEF TypeCore
<1>2. Priority(t) \in Prio /\ Priority(t) <= base_priority[t]
  BY <1>1, EffectiveIsLeast DEF Priority
<1>. QED BY <1>2, PrioAssumption DEF Prio

(* What an insertion does to the queue's elements. *)
LEMMA InsertedElements ==
  ASSUME NEW ws \in Seq(Threads), NEW t \in Threads, NEW k \in 1 .. Len(ws) + 1
  PROVE  /\ Inserted(ws, k, t) \in Seq(Threads)
         /\ Inserted(ws, k, t) # <<>>
         /\ DOMAIN Inserted(ws, k, t) = 1 .. Len(ws) + 1
         /\ Elements(Inserted(ws, k, t)) = Elements(ws) \cup {t}
         /\ Len(Inserted(ws, k, t)) = Len(ws) + 1
<1>. DEFINE q == Inserted(ws, k, t)
<1>1. /\ DOMAIN q = 1 .. Len(ws) + 1
      /\ \A i \in 1 .. Len(ws) + 1 : q[i] = IF i < k THEN ws[i] ELSE IF i = k THEN t ELSE ws[i - 1]
  BY DEF Inserted
<1>2. q \in [1 .. Len(ws) + 1 -> Threads]
  BY DEF Inserted
<1>3. q \in Seq(Threads) /\ Len(q) = Len(ws) + 1
  BY <1>2, IsASeq, LenProperties
<1>4. ASSUME NEW i \in 1 .. Len(ws) PROVE \E j \in 1 .. Len(ws) + 1 : q[j] = ws[i]
  <2>1. CASE i < k
    BY <1>1, <2>1
  <2>2. CASE i >= k
    <3>1. i + 1 \in 1 .. Len(ws) + 1 /\ ~ (i + 1 < k) /\ i + 1 # k /\ (i + 1) - 1 = i
      BY <2>2
    <3>2. q[i + 1] = ws[i]
      BY <1>1, <3>1
    <3>. QED BY <3>1, <3>2
  <2>. QED BY <2>1, <2>2
<1>5. Elements(q) = Elements(ws) \cup {t}
  <2>1. Elements(q) \subseteq Elements(ws) \cup {t}
    BY <1>1 DEF Elements
  <2>2. t \in Elements(q)
    BY <1>1 DEF Elements
  <2>3. Elements(ws) \subseteq Elements(q)
    BY SMTT(60), <1>1, <1>4 DEF Elements
  <2>. QED BY <2>1, <2>2, <2>3
<1>. QED BY <1>1, <1>3, <1>5

(* mutex_add_waiter_locked inserts t behind the waiters of its priority or *)
(* above and before the first one below.                                   *)
LEMMA AddWaiterShape ==
  ASSUME TypeCore, NEW ws \in Seq(Threads), NEW t \in Threads
  PROVE  \E k \in 1 .. Len(ws) + 1 :
            /\ mutex_add_waiter(ws, t) = Inserted(ws, k, t)
            /\ \A i \in 1 .. k - 1 : Priority(ws[i]) <= Priority(t)
            /\ k <= Len(ws) => Priority(t) < Priority(ws[k])
<1>. DEFINE lower == {i \in DOMAIN ws : Priority(t) < Priority(ws[i])}
            k == CHOOSE i \in lower : \A j \in lower : i <= j
<1>1. /\ Priority(t) \in Int
      /\ \A i \in DOMAIN ws : Priority(ws[i]) \in Int
  BY PriorityType
<1>2. DOMAIN ws = 1 .. Len(ws) /\ Len(ws) \in Nat
  OBVIOUS
<1>3. CASE lower = {}
  <2>1. mutex_add_waiter(ws, t) = Append(ws, t)
    BY <1>3 DEF mutex_add_waiter
  <2>2. Append(ws, t) = Inserted(ws, Len(ws) + 1, t)
    <3>1. /\ Inserted(ws, Len(ws) + 1, t) \in Seq(Threads)
          /\ Len(Inserted(ws, Len(ws) + 1, t)) = Len(ws) + 1
      BY InsertedElements
    <3>2. \A i \in 1 .. Len(ws) + 1 : Append(ws, t)[i] = Inserted(ws, Len(ws) + 1, t)[i]
      BY AppendProperties DEF Inserted
    <3>3. Append(ws, t) \in Seq(Threads) /\ Len(Append(ws, t)) = Len(ws) + 1
      BY AppendProperties
    <3>. QED BY <3>1, <3>2, <3>3, SeqEqual
  <2>3. \A i \in 1 .. Len(ws) : Priority(ws[i]) <= Priority(t)
    BY <1>1, <1>2, <1>3
  <2>. QED BY <1>2, <2>1, <2>2, <2>3
<1>4. CASE lower # {}
  <2>1. lower \in SUBSET Nat
    OBVIOUS
  <2>2. k \in lower /\ \A j \in lower : k <= j
    <3>1. \E i \in lower : \A j \in lower : i <= j
      BY <1>4, <2>1, LeastNatural
    <3>. QED BY <3>1
  <2>3. mutex_add_waiter(ws, t) = SubSeq(ws, 1, k - 1) \o <<t>> \o SubSeq(ws, k, Len(ws))
    BY <1>4 DEF mutex_add_waiter
  <2>4. k \in 1 .. Len(ws) /\ Priority(t) < Priority(ws[k])
    BY <1>2, <2>2
  <2>5. \A i \in 1 .. k - 1 : Priority(ws[i]) <= Priority(t)
    BY SMTT(60), <1>1, <1>2, <2>2
  <2>. HIDE DEF k
  <2>6. SubSeq(ws, 1, k - 1) \o <<t>> \o SubSeq(ws, k, Len(ws)) = Inserted(ws, k, t)
    BY <2>4 DEF Inserted
  <2>7. k \in 1 .. Len(ws) + 1
    BY <1>2, <2>4
  <2>. QED BY <2>3, <2>4, <2>5, <2>6, <2>7
<1>. QED BY <1>3, <1>4

----------------------------------------------------------------------------
(* A thread outside mutex_lock wants no mutex; neither it nor the winner   *)
(* of a compare-and-swap is BLOCKED.                                       *)
RunIdle ==
    \A t \in Threads : /\ pc[t] = "run" => want[t] = 0
                       /\ pc[t] \in {"run", "attach"} => status[t] = "READY"

(* Who is queued on a mutex is BLOCKED, wants it and does not own it.      *)
WaitersBlocked ==
    \A m \in Mutexes : \A t \in Elements(waiters[m]) :
        want[t] = m /\ status[t] = "BLOCKED" /\ owner[m] # t

(* Who is BLOCKED is queued on what it wants. *)
BlockedQueued ==
    \A t \in Threads : status[t] = "BLOCKED" =>
        want[t] \in Mutexes /\ t \in Elements(waiters[want[t]])

(* Nobody is queued twice. *)
NoDuplicates ==
    \A m \in Mutexes : \A i, j \in DOMAIN waiters[m] :
        waiters[m][i] = waiters[m][j] => i = j

(* A free mutex with waiters has a runnable thread on its way to it. *)
FreeHasTaker ==
    \A m \in Mutexes : locked[m] = 0 /\ waiters[m] # <<>> =>
        ~Handoff /\ \E t \in Threads : want[t] = m /\ status[t] = "READY"

(* Without handoff the owner is a holder; and a thread that locks a mutex  *)
(* holds only lower ones.                                                  *)
HeldBelow ==
    /\ \A t \in Threads, m \in Mutexes : ~Handoff /\ owner[m] = t => m \in holding[t]
    /\ \A t \in Threads : \A h \in holding[t] : pc[t] # "run" => h < want[t]

(* The inductive invariant of the wait queues. *)
QueueInv == /\ RunIdle /\ WaitersBlocked /\ BlockedQueued /\ NoDuplicates
            /\ FreeHasTaker /\ HeldBelow

(* It holds before the first call. *)
LEMMA InitQueueInv == Init => QueueInv
BY NoneAssumption DEF Init, QueueInv, RunIdle, WaitersBlocked, BlockedQueued, NoDuplicates,
       FreeHasTaker, HeldBelow, Elements

(* The mutexes are numbered from 1: no thread wants mutex 0. *)
LEMMA MutexNumbers == 0 \notin Mutexes /\ \A m \in Mutexes : m \in Int
BY DEF Mutexes

(* The steps that change neither a queue nor a status. *)
LEMMA QueueCall ==
  ASSUME IInv, QueueInv, UNCHANGED inst, NEW t \in Threads, NEW m \in Mutexes, Call(t, m)
  PROVE  QueueInv'
<1>1. /\ want' = [want EXCEPT ![t] = m] /\ pc' = [pc EXCEPT ![t] = "try"]
      /\ UNCHANGED <<inst, locked, owner, waiters, status, holding>>
      /\ status[t] = "READY" /\ want[t] = 0 /\ \A h \in holding[t] : h < m
  BY DEF Call, Goto, At, QueueInv, RunIdle
<1>2. RunIdle' /\ WaitersBlocked' /\ NoDuplicates' /\ BlockedQueued'
  BY <1>1 DEF IInv, TypeCore, QueueInv, RunIdle, WaitersBlocked, BlockedQueued, NoDuplicates, Elements
<1>3. FreeHasTaker'
  BY <1>1, MutexNumbers DEF IInv, TypeCore, QueueInv, FreeHasTaker, Handoff
<1>4. HeldBelow'
  BY <1>1 DEF IInv, TypeCore, QueueInv, HeldBelow, Handoff
<1>. QED BY <1>2, <1>3, <1>4 DEF QueueInv

(* The thread that was handed the mutex finds itself the owner. *)
LEMMA QueueConfirm ==
  ASSUME IInv, QueueInv, UNCHANGED inst, NEW t \in Threads, Confirm(t)
  PROVE  QueueInv'
<1>1. /\ want' = [want EXCEPT ![t] = 0] /\ pc' = [pc EXCEPT ![t] = "run"]
      /\ holding' = [holding EXCEPT ![t] = @ \cup {want[t]}]
      /\ UNCHANGED <<inst, locked, owner, waiters, status>>
      /\ status[t] = "READY" /\ Handoff
  BY DEF Confirm, Granted, Goto
<1>2. RunIdle' /\ WaitersBlocked' /\ NoDuplicates' /\ BlockedQueued'
  BY <1>1 DEF IInv, TypeCore, QueueInv, RunIdle, WaitersBlocked, BlockedQueued, NoDuplicates, Elements
<1>3. FreeHasTaker'
  BY <1>1 DEF IInv, TypeCore, QueueInv, FreeHasTaker, Handoff
<1>4. HeldBelow'
  BY <1>1 DEF IInv, TypeCore, QueueInv, HeldBelow, Handoff
<1>. QED BY <1>2, <1>3, <1>4 DEF QueueInv

(* The fast path, won or lost. *)
LEMMA QueueTry ==
  ASSUME IInv, QueueInv, UNCHANGED inst, NEW t \in Threads, TryLock(t) \/ TryFails(t)
  PROVE  QueueInv'
<1>1. /\ \/ locked' = [locked EXCEPT ![want[t]] = 1] /\ pc' = [pc EXCEPT ![t] = "attach"]
         \/ locked' = locked /\ pc' = [pc EXCEPT ![t] = "slow"]
      /\ UNCHANGED <<inst, owner, waiters, status, want, holding>>
      /\ status[t] = "READY" /\ pc[t] = "try" /\ want[t] \in Mutexes
  BY DEF TryLock, TryFails, Take, Goto, At, IInv, WantSet
<1>2. RunIdle' /\ WaitersBlocked' /\ NoDuplicates' /\ BlockedQueued'
  BY <1>1 DEF IInv, TypeCore, QueueInv, RunIdle, WaitersBlocked, BlockedQueued, NoDuplicates, Elements
<1>3. FreeHasTaker'
  BY <1>1 DEF IInv, TypeCore, QueueInv, FreeHasTaker, Handoff
<1>4. HeldBelow'
  BY <1>1 DEF IInv, TypeCore, QueueInv, HeldBelow, Handoff
<1>. QED BY <1>2, <1>3, <1>4 DEF QueueInv

(* A thread becomes the owner: it is not BLOCKED, so it is in no queue.    *)
LEMMA QueueTakes ==
  ASSUME IInv, QueueInv, UNCHANGED inst, NEW t \in Threads, Attach(t) \/ SlowTake(t)
  PROVE  QueueInv'
<1>1. /\ want' = [want EXCEPT ![t] = 0] /\ pc' = [pc EXCEPT ![t] = "run"]
      /\ holding' = [holding EXCEPT ![t] = @ \cup {want[t]}]
      /\ owner' = [owner EXCEPT ![want[t]] = t]
      /\ UNCHANGED <<inst, waiters, status>>
      /\ status[t] = "READY" /\ want[t] \in Mutexes
  BY DEF Attach, SlowTake, Granted, mutex_attach_owner, Goto, At, IInv, WantSet
<1>2. locked' = [locked EXCEPT ![want[t]] = 1]
  <2>1. CASE Attach(t)
    BY <1>1, <2>1 DEF Attach, At, IInv, MutualExclusion, TypeCore
  <2>2. CASE SlowTake(t)
    BY <2>2 DEF SlowTake, Take
  <2>. QED BY <2>1, <2>2
<1>3. RunIdle' /\ WaitersBlocked' /\ NoDuplicates' /\ BlockedQueued'
  BY <1>1 DEF IInv, TypeCore, QueueInv, RunIdle, WaitersBlocked, BlockedQueued, NoDuplicates, Elements
<1>4. FreeHasTaker'
  BY <1>1, <1>2 DEF IInv, TypeCore, QueueInv, FreeHasTaker, Handoff
<1>5. HeldBelow'
  BY <1>1 DEF IInv, TypeCore, QueueInv, HeldBelow, Handoff
<1>. QED BY <1>3, <1>4, <1>5 DEF QueueInv

(* thread_set_priority touches no queue. *)
LEMMA QueueSetPriority ==
  ASSUME IInv, QueueInv, UNCHANGED inst, NEW t \in Threads,
         \/ \E u \in Threads, p \in Prio : SetPriorityCheck(t, u, p)
         \/ SetPriorityApply(t)
  PROVE  QueueInv'
<1>1. UNCHANGED <<inst, locked, owner, waiters, status, pc, want, holding>>
  BY DEF SetPriorityCheck, SetPriorityApply
<1>. QED BY <1>1 DEF QueueInv, RunIdle, WaitersBlocked, BlockedQueued, NoDuplicates,
       FreeHasTaker, HeldBelow, Elements, Handoff

(* A thread queues itself: only on a mutex that is locked, and that it     *)
(* does not own.                                                           *)
LEMMA QueueBlocks ==
  ASSUME IInv, QueueInv, UNCHANGED inst, NEW t \in Threads, SlowBlock(t)
  PROVE  QueueInv'
<1>. DEFINE m == want[t]
            ws == waiters[m]
<1>1. /\ m \in Mutexes /\ ws \in Seq(Threads) /\ status[t] = "READY" /\ pc[t] = "slow"
      /\ UNCHANGED <<inst, locked, owner, want, holding>>
      /\ pc' = [pc EXCEPT ![t] = IF Handoff THEN "slow" ELSE "try"]
      /\ Handoff => owner[m] # t
      /\ ~SlowFree(t)
  BY DEF SlowBlock, Goto, At, IInv, WantSet, TypeCore
<1>2. t \notin Elements(ws)
  BY <1>1 DEF QueueInv, WaitersBlocked
<1>3. locked[m] = 1 /\ owner[m] # t
  <2>1. locked[m] \in {0, 1}
    BY <1>1 DEF IInv, TypeCore
  <2>2. CASE Handoff
    BY <1>1, <2>1, <2>2 DEF SlowFree, MayTry, IInv, OwnedIsLocked
  <2>3. CASE ~Handoff
    <3>1. ~(m < m)
      <4>1. m \in Int
        BY <1>1, MutexNumbers
      <4>. HIDE DEF m
      <4>. QED BY <4>1
    <3>2. m \notin holding[t]
      BY <1>1, <3>1 DEF QueueInv, HeldBelow
    <3>. QED BY <1>1, <2>1, <2>3, <3>2 DEF SlowFree, MayTry, QueueInv, HeldBelow
  <2>. QED BY <2>2, <2>3
<1>4. PICK k \in 1 .. Len(ws) + 1 : mutex_add_waiter(ws, t) = Inserted(ws, k, t)
  BY <1>1, AddWaiterShape DEF IInv
<1>5. /\ waiters' = [waiters EXCEPT ![m] = Inserted(ws, k, t)]
      /\ status' = [status EXCEPT ![t] = "BLOCKED"]
  BY <1>2, <1>4 DEF SlowBlock
<1>6. /\ Inserted(ws, k, t) # <<>>
      /\ DOMAIN Inserted(ws, k, t) = 1 .. Len(ws) + 1
      /\ Elements(Inserted(ws, k, t)) = Elements(ws) \cup {t}
  BY <1>1, <1>4, InsertedElements
<1>7. \A i, j \in 1 .. Len(ws) + 1 : Inserted(ws, k, t)[i] = Inserted(ws, k, t)[j] => i = j
  <2>1. \A i \in 1 .. Len(ws) : ws[i] # t
    BY <1>1, <1>2 DEF Elements
  <2>2. \A i, j \in 1 .. Len(ws) : ws[i] = ws[j] => i = j
    BY <1>1 DEF QueueInv, NoDuplicates
  <2>. HIDE DEF ws
  <2>. QED BY <1>1, <1>4, <2>1, <2>2 DEF Inserted
<1>. HIDE DEF ws, m
<1>8. /\ waiters'[m] = Inserted(ws, k, t)
      /\ \A n \in Mutexes \ {m} : waiters'[n] = waiters[n]
      /\ status'[t] = "BLOCKED"
      /\ \A u \in Threads \ {t} : status'[u] = status[u]
  BY <1>1, <1>5 DEF IInv, TypeCore
<1>9. /\ Elements(waiters'[m]) = Elements(waiters[m]) \cup {t}
      /\ \A n \in Mutexes \ {m} : Elements(waiters'[n]) = Elements(waiters[n])
  BY <1>6, <1>8 DEF ws
<1>10. RunIdle'
  BY <1>1, <1>8 DEF QueueInv, RunIdle, IInv, TypeCore
<1>11. WaitersBlocked'
  <2>1. ASSUME NEW n \in Mutexes, NEW u \in Elements(waiters'[n])
        PROVE  want[u] = n /\ status'[u] = "BLOCKED" /\ owner[n] # u
    <3>1. CASE u = t
      <4>1. n = m
        BY <1>1, <1>2, <1>9, <2>1, <3>1 DEF QueueInv, WaitersBlocked, m
      <4>. QED BY <1>3, <1>8, <3>1, <4>1 DEF m
    <3>2. CASE u # t
      <4>1. u \in Elements(waiters[n])
        BY <1>9, <2>1, <3>2
      <4>2. u \in Threads
        BY <4>1 DEF Elements, IInv, TypeCore
      <4>. QED BY <1>8, <3>2, <4>1, <4>2 DEF QueueInv, WaitersBlocked
    <3>. QED BY <3>1, <3>2
  <2>. QED BY <1>1, <2>1 DEF WaitersBlocked
<1>12. BlockedQueued'
  <2>1. \A u \in Threads : status'[u] = "BLOCKED" =>
           want[u] \in Mutexes /\ u \in Elements(waiters'[want[u]])
    BY <1>1, <1>8, <1>9 DEF QueueInv, BlockedQueued, m
  <2>. QED BY <1>1, <2>1 DEF BlockedQueued
<1>13. NoDuplicates'
  BY <1>6, <1>7, <1>8 DEF QueueInv, NoDuplicates
<1>14. FreeHasTaker'
  <2>1. ASSUME NEW n \in Mutexes, locked[n] = 0, waiters'[n] # <<>>
        PROVE  ~Handoff /\ \E u \in Threads : want[u] = n /\ status'[u] = "READY"
    <3>1. n # m
      BY <1>3, <2>1
    <3>2. PICK u \in Threads : ~Handoff /\ want[u] = n /\ status[u] = "READY"
      BY <1>8, <2>1, <3>1 DEF QueueInv, FreeHasTaker
    <3>3. u # t
      BY <3>1, <3>2 DEF m
    <3>. QED BY <1>8, <3>2, <3>3
  <2>. QED BY <1>1, <2>1 DEF FreeHasTaker, Handoff
<1>15. HeldBelow'
  BY <1>1 DEF IInv, TypeCore, QueueInv, HeldBelow, Handoff
<1>. QED BY <1>10, <1>11, <1>12, <1>13, <1>14, <1>15 DEF QueueInv

(* The head of a queue leaves it. *)
LEMMA TailElements ==
  ASSUME NEW ws \in Seq(Threads), ws # <<>>,
         \A i, j \in DOMAIN ws : ws[i] = ws[j] => i = j
  PROVE  /\ Head(ws) \in Threads /\ Tail(ws) \in Seq(Threads)
         /\ DOMAIN Tail(ws) = 1 .. Len(ws) - 1
         /\ \A i \in 1 .. Len(ws) - 1 : Tail(ws)[i] = ws[i + 1]
         /\ Head(ws) = ws[1] /\ Len(ws) > 0
         /\ Elements(Tail(ws)) = Elements(ws) \ {Head(ws)}
         /\ \A i, j \in DOMAIN Tail(ws) : Tail(ws)[i] = Tail(ws)[j] => i = j
<1>1. /\ Head(ws) \in Threads /\ Tail(ws) \in Seq(Threads)
      /\ Len(ws) \in Nat /\ Len(ws) > 0
      /\ DOMAIN ws = 1 .. Len(ws)
      /\ DOMAIN Tail(ws) = 1 .. Len(ws) - 1
      /\ \A i \in 1 .. Len(ws) - 1 : Tail(ws)[i] = ws[i + 1]
      /\ Head(ws) = ws[1]
  BY HeadTailProperties
<1>2. \A i, j \in DOMAIN Tail(ws) : Tail(ws)[i] = Tail(ws)[j] => i = j
  BY <1>1
<1>3. Elements(Tail(ws)) \subseteq Elements(ws) \ {Head(ws)}
  BY <1>1 DEF Elements
<1>4. ASSUME NEW i \in 1 .. Len(ws), ws[i] # Head(ws)
      PROVE  ws[i] \in Elements(Tail(ws))
  <2>1. i - 1 \in 1 .. Len(ws) - 1 /\ (i - 1) + 1 = i
    BY <1>1, <1>4
  <2>2. Tail(ws)[i - 1] = ws[i]
    BY <1>1, <2>1
  <2>. QED BY <1>1, <2>1, <2>2 DEF Elements
<1>5. Elements(Tail(ws)) = Elements(ws) \ {Head(ws)}
  BY <1>1, <1>3, <1>4 DEF Elements
<1>. QED BY <1>1, <1>2, <1>5

(* An unlock wakes the head of the queue, if any. *)
LEMMA WakeEffect ==
  ASSUME IInv, QueueInv, NEW m \in Mutexes, __wake_up_one(m)
  PROVE  /\ \A n \in Mutexes \ {m} : waiters'[n] = waiters[n]
         /\ waiters[m] = <<>> => UNCHANGED <<waiters, status>>
         /\ waiters[m] # <<>> =>
              /\ Head(waiters[m]) \in Threads /\ Head(waiters[m]) \in Elements(waiters[m])
              /\ waiters'[m] = Tail(waiters[m])
              /\ Elements(waiters'[m]) = Elements(waiters[m]) \ {Head(waiters[m])}
              /\ \A i, j \in DOMAIN waiters'[m] : waiters'[m][i] = waiters'[m][j] => i = j
              /\ status'[Head(waiters[m])] = "READY"
              /\ \A u \in Threads \ {Head(waiters[m])} : status'[u] = status[u]
<1>1. waiters[m] \in Seq(Threads) /\ \A i, j \in DOMAIN waiters[m] : waiters[m][i] = waiters[m][j] => i = j
  BY DEF IInv, TypeCore, QueueInv, NoDuplicates
<1>2. CASE waiters[m] = <<>>
  BY <1>2 DEF __wake_up_one
<1>3. CASE waiters[m] # <<>>
  <2>1. /\ Head(waiters[m]) \in Threads
        /\ Head(waiters[m]) = waiters[m][1] /\ Len(waiters[m]) > 0
        /\ Elements(Tail(waiters[m])) = Elements(waiters[m]) \ {Head(waiters[m])}
        /\ \A i, j \in DOMAIN Tail(waiters[m]) : Tail(waiters[m])[i] = Tail(waiters[m])[j] => i = j
    BY <1>1, <1>3, TailElements
  <2>2. Head(waiters[m]) \in Elements(waiters[m])
    BY <1>1, <2>1 DEF Elements
  <2>3. /\ waiters' = [waiters EXCEPT ![m] = Tail(waiters[m])]
        /\ status' = [status EXCEPT ![Head(waiters[m])] = "READY"]
    BY <1>3 DEF __wake_up_one
  <2>. QED BY <1>3, <2>1, <2>2, <2>3 DEF IInv, TypeCore
<1>. QED BY <1>2, <1>3

(* The raw unlock frees the mutex: the waiter it wakes is the taker. *)
LEMMA QueueUnlockRaw ==
  ASSUME IInv, QueueInv, UNCHANGED inst, NEW t \in Threads, NEW m \in Mutexes,
         mutex_unlock_raw(t, m)
  PROVE  QueueInv'
<1>. DEFINE h == Head(waiters[m])
<1>1. /\ ~Handoff /\ status[t] = "READY" /\ m \in holding[t]
      /\ owner' = [owner EXCEPT ![m] = None]
      /\ locked' = [locked EXCEPT ![m] = 0]
      /\ holding' = [holding EXCEPT ![t] = @ \ {m}]
      /\ UNCHANGED <<inst, pc, want>>
      /\ __wake_up_one(m)
  BY DEF mutex_unlock_raw, At
<1>2. owner[m] = t
  BY <1>1, HeldMutex
<1>3. /\ \A n \in Mutexes \ {m} : waiters'[n] = waiters[n]
      /\ waiters[m] = <<>> => UNCHANGED <<waiters, status>>
      /\ waiters[m] # <<>> =>
           /\ h \in Threads /\ h \in Elements(waiters[m])
           /\ Elements(waiters'[m]) = Elements(waiters[m]) \ {h}
           /\ \A i, j \in DOMAIN waiters'[m] : waiters'[m][i] = waiters'[m][j] => i = j
           /\ status'[h] = "READY"
           /\ \A u \in Threads \ {h} : status'[u] = status[u]
  BY <1>1, WakeEffect
<1>. HIDE DEF h
<1>4. \A n \in Mutexes : \A u \in Elements(waiters[n]) : u \in Threads
  BY DEF IInv, TypeCore, Elements
<1>5. RunIdle'
  BY <1>1, <1>3 DEF QueueInv, RunIdle
<1>6. WaitersBlocked'
  <2>1. ASSUME NEW n \in Mutexes, NEW u \in Elements(waiters'[n])
        PROVE  want[u] = n /\ status'[u] = "BLOCKED" /\ owner'[n] # u
    <3>1. u \in Elements(waiters[n]) /\ (waiters[m] # <<>> => u # h)
      BY <1>3, <2>1 DEF QueueInv, WaitersBlocked
    <3>2. u \in Threads /\ status'[u] = status[u]
      BY <1>3, <1>4, <3>1
    <3>. QED BY <1>1, <3>1, <3>2, NoneAssumption DEF QueueInv, WaitersBlocked, IInv, TypeCore
  <2>. QED BY <1>1, <2>1 DEF WaitersBlocked
<1>7. BlockedQueued'
  <2>1. ASSUME NEW u \in Threads, status'[u] = "BLOCKED"
        PROVE  want[u] \in Mutexes /\ u \in Elements(waiters'[want[u]])
    <3>1. status[u] = "BLOCKED" /\ (waiters[m] # <<>> => u # h)
      BY <1>3, <2>1
    <3>2. want[u] \in Mutexes /\ u \in Elements(waiters[want[u]])
      BY <3>1 DEF QueueInv, BlockedQueued
    <3>. QED BY <1>3, <3>1, <3>2
  <2>. QED BY <1>1, <2>1 DEF BlockedQueued
<1>8. NoDuplicates'
  BY <1>3 DEF QueueInv, NoDuplicates
<1>9. FreeHasTaker'
  <2>1. ASSUME NEW n \in Mutexes, locked'[n] = 0, waiters'[n] # <<>>
        PROVE  \E u \in Threads : want[u] = n /\ status'[u] = "READY"
    <3>1. CASE n = m
      <4>1. waiters[m] # <<>>
        BY <1>3, <2>1, <3>1
      <4>. QED BY <1>3, <3>1, <4>1 DEF QueueInv, WaitersBlocked
    <3>2. CASE n # m
      <4>1. PICK u \in Threads : want[u] = n /\ status[u] = "READY"
        BY <1>1, <1>3, <2>1, <3>2 DEF QueueInv, FreeHasTaker, IInv, TypeCore
      <4>. QED BY <1>3, <4>1
    <3>. QED BY <3>1, <3>2
  <2>. QED BY <1>1, <2>1 DEF FreeHasTaker, Handoff
<1>10. HeldBelow'
  BY <1>1, <1>2, NoneAssumption DEF IInv, TypeCore, QueueInv, HeldBelow, Handoff
<1>. QED BY <1>5, <1>6, <1>7, <1>8, <1>9, <1>10 DEF QueueInv

(* The handoff unlock: the mutex stays locked while it has waiters, and    *)
(* its new owner is no longer one of them.                                 *)
LEMMA QueueUnlockHandoff ==
  ASSUME IInv, QueueInv, UNCHANGED inst, NEW t \in Threads, NEW m \in Mutexes,
         mutex_unlock_handoff(t, m)
  PROVE  QueueInv'
<1>. DEFINE h == Head(waiters[m])
<1>1. /\ Handoff /\ status[t] = "READY" /\ m \in holding[t]
      /\ waiters[m] # <<>> => owner' = [owner EXCEPT ![m] = h] /\ UNCHANGED locked
      /\ waiters[m] = <<>> => owner' = [owner EXCEPT ![m] = None]
                              /\ locked' = [locked EXCEPT ![m] = 0]
      /\ holding' = [holding EXCEPT ![t] = @ \ {m}]
      /\ UNCHANGED <<inst, pc, want>>
      /\ __wake_up_one(m)
  BY DEF mutex_unlock_handoff, mutex_attach_owner, At
<1>2. locked[m] = 1
  BY <1>1, HeldMutex
<1>3. /\ \A n \in Mutexes \ {m} : waiters'[n] = waiters[n]
      /\ waiters[m] = <<>> => UNCHANGED <<waiters, status>>
      /\ waiters[m] # <<>> =>
           /\ h \in Threads /\ h \in Elements(waiters[m])
           /\ Elements(waiters'[m]) = Elements(waiters[m]) \ {h}
           /\ \A i, j \in DOMAIN waiters'[m] : waiters'[m][i] = waiters'[m][j] => i = j
           /\ status'[h] = "READY"
           /\ \A u \in Threads \ {h} : status'[u] = status[u]
  BY <1>1, WakeEffect
<1>. HIDE DEF h
<1>4. \A n \in Mutexes : \A u \in Elements(waiters[n]) : u \in Threads
  BY DEF IInv, TypeCore, Elements
<1>5. RunIdle'
  BY <1>1, <1>3 DEF QueueInv, RunIdle
<1>6. WaitersBlocked'
  <2>1. ASSUME NEW n \in Mutexes, NEW u \in Elements(waiters'[n])
        PROVE  want[u] = n /\ status'[u] = "BLOCKED" /\ owner'[n] # u
    <3>1. u \in Elements(waiters[n]) /\ (waiters[m] # <<>> => u # h)
      BY <1>3, <2>1 DEF QueueInv, WaitersBlocked
    <3>2. u \in Threads /\ status'[u] = status[u]
      BY <1>3, <1>4, <3>1
    <3>3. owner'[n] # u
      BY <1>1, <3>1, <3>2, NoneAssumption DEF QueueInv, WaitersBlocked, IInv, TypeCore
    <3>. QED BY <1>1, <3>1, <3>2, <3>3 DEF QueueInv, WaitersBlocked
  <2>. QED BY <1>1, <2>1 DEF WaitersBlocked
<1>7. BlockedQueued'
  <2>1. ASSUME NEW u \in Threads, status'[u] = "BLOCKED"
        PROVE  want[u] \in Mutexes /\ u \in Elements(waiters'[want[u]])
    <3>1. status[u] = "BLOCKED" /\ (waiters[m] # <<>> => u # h)
      BY <1>3, <2>1
    <3>2. want[u] \in Mutexes /\ u \in Elements(waiters[want[u]])
      BY <3>1 DEF QueueInv, BlockedQueued
    <3>. QED BY <1>3, <3>1, <3>2
  <2>. QED BY <1>1, <2>1 DEF BlockedQueued
<1>8. NoDuplicates'
  BY <1>3 DEF QueueInv, NoDuplicates
<1>9. FreeHasTaker'
  <2>1. ASSUME NEW n \in Mutexes, locked'[n] = 0, waiters'[n] # <<>>
        PROVE  FALSE
    <3>1. CASE n = m
      BY <1>1, <1>2, <1>3, <2>1, <3>1
    <3>2. CASE n # m
      BY <1>1, <1>3, <2>1, <3>2 DEF QueueInv, FreeHasTaker, IInv, TypeCore
    <3>. QED BY <3>1, <3>2
  <2>. QED BY <2>1 DEF FreeHasTaker
<1>10. HeldBelow'
  BY <1>1 DEF IInv, TypeCore, QueueInv, HeldBelow, Handoff
<1>. QED BY <1>5, <1>6, <1>7, <1>8, <1>9, <1>10 DEF QueueInv

(* Every step keeps the queues' invariant. *)
LEMMA QueueNext ==
  ASSUME IInv, QueueInv, [Next /\ UNCHANGED inst]_<<vars, inst>>
  PROVE  QueueInv'
<1>1. CASE UNCHANGED <<vars, inst>>
  BY <1>1 DEF QueueInv, RunIdle, WaitersBlocked, BlockedQueued, NoDuplicates,
       FreeHasTaker, HeldBelow, Elements, Handoff, vars
<1>2. CASE Next /\ UNCHANGED inst
  <2>1. PICK t \in Threads :
           \/ \E m \in Mutexes : Call(t, m) \/ mutex_unlock(t, m)
           \/ Locking(t)
           \/ \E u \in Threads, p \in Prio : SetPriorityCheck(t, u, p)
           \/ SetPriorityApply(t)
    BY <1>2 DEF Next
  <2>2. ASSUME NEW m \in Mutexes, Call(t, m) \/ mutex_unlock(t, m)
        PROVE  QueueInv'
    BY <1>2, <2>2, QueueCall, QueueUnlockRaw, QueueUnlockHandoff DEF mutex_unlock
  <2>3. CASE Locking(t)
    BY <1>2, <2>3, QueueConfirm, QueueTry, QueueTakes, QueueBlocks DEF Locking
  <2>4. CASE \/ \E u \in Threads, p \in Prio : SetPriorityCheck(t, u, p)
             \/ SetPriorityApply(t)
    BY <1>2, <2>4, QueueSetPriority
  <2>. QED BY <2>1, <2>2, <2>3, <2>4
<1>. QED BY <1>1, <1>2

(* The invariant of the wait queues holds in every reachable state. *)
THEOREM QueueInvHolds == Spec => []QueueInv
<1>1. IInv /\ QueueInv /\ [Next /\ UNCHANGED inst]_<<vars, inst>> => QueueInv'
  BY QueueNext
<1>. QED BY <1>1, InitQueueInv, InvariantHolds, PTL DEF Spec

(* A queue without duplicates is as long as its set of elements. *)
LEMMA LengthIsCardinality ==
  ASSUME NEW ws \in Seq(Threads), \A i, j \in DOMAIN ws : ws[i] = ws[j] => i = j
  PROVE  Len(ws) = Cardinality(Elements(ws))
<1>1. Len(ws) \in Nat /\ DOMAIN ws = 1 .. Len(ws)
  OBVIOUS
<1>2. ws \in Bijection(1 .. Len(ws), Elements(ws))
  BY <1>1 DEF Bijection, Injection, Surjection, IsInjective, Elements
<1>3. ExistsBijection(1 .. Len(ws), Elements(ws))
  BY <1>2 DEF ExistsBijection
<1>4. IsFiniteSet(1 .. Len(ws)) /\ Cardinality(1 .. Len(ws)) = Len(ws)
  BY SMTT(60), <1>1, FS_Interval
<1>. QED BY <1>3, <1>4, FS_Bijection

(* No wakeup is lost, in either build and whatever the interleaving of the *)
(* fast paths with the unlocks: a thread is BLOCKED exactly while queued   *)
(* on what it wants, and a free mutex with waiters has a runnable taker.   *)
THEOREM MutexWakeups == Spec => []NoLostWakeup
<1>1. ASSUME IInv, QueueInv PROVE NoLostWakeup
  <2>1. \A t \in Threads : status[t] = "BLOCKED" <=>
          \E m \in Mutexes : want[t] = m /\ t \in Elements(waiters[m])
    BY <1>1 DEF QueueInv, BlockedQueued, WaitersBlocked
  <2>2. \A m \in Mutexes : Len(waiters[m]) = Cardinality(Elements(waiters[m]))
    BY <1>1, LengthIsCardinality DEF QueueInv, NoDuplicates, IInv, TypeCore
  <2>. QED BY <1>1, <2>1, <2>2 DEF NoLostWakeup, QueueInv, FreeHasTaker
<1>. QED BY <1>1, InvariantHolds, QueueInvHolds, PTL

----------------------------------------------------------------------------
(* thread_effective_priority for base priority b and donations d. *)
LeastPrio(b, d) ==
    CHOOSE p \in Prio :
        /\ p = b \/ d[p] > 0
        /\ p <= b
        /\ \A q \in Prio : d[q] > 0 => p <= q

(* It is the least of them. *)
LEMMA LeastPrioValue ==
  ASSUME NEW b \in Prio, NEW d \in [Prio -> Int]
  PROVE  /\ LeastPrio(b, d) \in Prio /\ LeastPrio(b, d) \in Int
         /\ LeastPrio(b, d) = b \/ d[LeastPrio(b, d)] > 0
         /\ LeastPrio(b, d) <= b
         /\ \A q \in Prio : d[q] > 0 => LeastPrio(b, d) <= q
<1>. DEFINE S == {p \in Prio : p = b \/ d[p] > 0}
<1>1. S \in SUBSET Nat /\ b \in S
  BY PrioAssumption DEF Prio
<1>2. PICK x \in S : \A y \in S : x <= y
  BY <1>1, LeastNatural
<1>3. /\ x \in Prio
      /\ x = b \/ d[x] > 0
      /\ x <= b
      /\ \A q \in Prio : d[q] > 0 => x <= q
  BY <1>1, <1>2
<1>. QED BY SMTT(60), <1>3, PrioAssumption DEF LeastPrio, Prio

(* Donations that go up raise the priority. *)
LEMMA LeastPrioMonotone ==
  ASSUME NEW b \in Prio, NEW d \in [Prio -> Int], NEW e \in [Prio -> Int],
         \A p \in Prio : d[p] > 0 => \E q \in Prio : q <= p /\ e[q] > 0
  PROVE  LeastPrio(b, e) <= LeastPrio(b, d)
<1>. DEFINE x == LeastPrio(b, d)
            y == LeastPrio(b, e)
<1>1. /\ x \in Prio /\ x \in Int /\ y \in Int
      /\ x = b \/ d[x] > 0
      /\ y <= b /\ \A q \in Prio : e[q] > 0 => y <= q
  BY LeastPrioValue
<1>. HIDE DEF x, y
<1>2. CASE x = b
  BY <1>1, <1>2 DEF x, y
<1>3. CASE d[x] > 0
  <2>1. PICK q \in Prio : q <= x /\ e[q] > 0
    BY <1>1, <1>3
  <2>2. y <= q /\ q \in Int
    BY <1>1, <2>1, PrioAssumption DEF Prio
  <2>3. y <= x
    BY <1>1, <2>1, <2>2
  <2>. QED BY <2>3 DEF x, y
<1>. QED BY <1>1, <1>2, <1>3

(* thread_effective_priority, in terms of the above. *)
LEMMA PriorityIs ==
  ASSUME NEW t \in Threads
  PROVE  /\ Priority(t) = LeastPrio(base_priority[t], pi_donations[t])
         /\ Priority(t)' = LeastPrio(base_priority'[t], pi_donations'[t])
         /\ \A don : Effective(don, t) = LeastPrio(base_priority[t], don[t])
BY DEF Priority, Effective, LeastPrio

----------------------------------------------------------------------------
(* A thread changes no other thread's priority (where no instance says     *)
(* otherwise).                                                             *)
SetsItself == \A t \in Threads : \A s \in setting[t] : s[1] = t

(* The priorities of all threads, for base priorities b and donations d.   *)
Prios(b, d) == [t \in Threads |-> LeastPrio(b[t], d[t])]

(* A waiter runs at no higher a priority number than those behind it have  *)
(* as their base; its own donations may have come since it was queued.     *)
OrderedFor(ws, pr, b) ==
    \A i, j \in DOMAIN ws : i < j => pr[ws[i]] <= b[ws[j]]

(* Donation d covers the base priority of every waiter; the first of them  *)
(* may have risen since, never fallen.                                     *)
CoversFor(ws, o, d, pr, b) ==
    /\ ws = <<>> => d = PRIO_NONE
    /\ ws # <<>> /\ o # None =>
          /\ d \in Prio
          /\ pr[ws[1]] <= d
          /\ \A i \in DOMAIN ws : d <= b[ws[i]]

QueueOrdered ==
    \A m \in Mutexes :
        OrderedFor(waiters[m], Prios(base_priority, pi_donations), base_priority)

DonationCovers ==
    \A m \in Mutexes :
        CoversFor(waiters[m], owner[m], donated_priority[m],
                  Prios(base_priority, pi_donations), base_priority)

PrioInv == SetsItself /\ QueueOrdered /\ DonationCovers

(* It holds before the first call. *)
LEMMA InitPrioInv == Init => PrioInv
BY DEF Init, PrioInv, SetsItself, QueueOrdered, DonationCovers, OrderedFor, CoversFor

(* The priorities are numbers no greater than the base priorities. *)
LEMMA PriosType ==
  ASSUME NEW b \in [Threads -> Prio], NEW d \in [Threads -> [Prio -> Int]]
  PROVE  /\ Prios(b, d) \in [Threads -> Int]
         /\ Prios(b, d) \in [Threads -> Prio]
         /\ b \in [Threads -> Int]
         /\ \A t \in Threads : Prios(b, d)[t] <= b[t]
         /\ \A t \in Threads : Prios(b, d)[t] = LeastPrio(b[t], d[t])
<1>1. \A t \in Threads : b[t] \in Prio /\ d[t] \in [Prio -> Int]
  OBVIOUS
<1>2. \A t \in Threads : LeastPrio(b[t], d[t]) \in Prio /\ LeastPrio(b[t], d[t]) \in Int
                          /\ LeastPrio(b[t], d[t]) <= b[t]
  BY <1>1, LeastPrioValue
<1>. QED BY <1>2, PrioAssumption DEF Prios, Prio

(* A queue whose waiters rise, with the same base, stays ordered and       *)
(* covered.                                                                *)
LEMMA QueueRises ==
  ASSUME NEW ws \in Seq(Threads), NEW o, NEW d,
         NEW b \in [Threads -> Int], NEW c \in [Threads -> Int],
         NEW pr \in [Threads -> Int], NEW qr \in [Threads -> Int],
         \A i \in DOMAIN ws : c[ws[i]] = b[ws[i]] /\ qr[ws[i]] <= pr[ws[i]]
  PROVE  /\ OrderedFor(ws, pr, b) => OrderedFor(ws, qr, c)
         /\ CoversFor(ws, o, d, pr, b) => CoversFor(ws, o, d, qr, c)
<1>1. \A i \in DOMAIN ws : ws[i] \in Threads
  OBVIOUS
<1>2. OrderedFor(ws, pr, b) => OrderedFor(ws, qr, c)
  BY <1>1 DEF OrderedFor
<1>3. ws # <<>> => 1 \in DOMAIN ws
  OBVIOUS
<1>4. d \in Prio => d \in Int
  BY PrioAssumption DEF Prio
<1>5. CoversFor(ws, o, d, pr, b) => CoversFor(ws, o, d, qr, c)
  BY <1>1, <1>3, <1>4 DEF CoversFor
<1>. QED BY <1>2, <1>5

(* In an ordered queue the first waiter's priority covers all. *)
LEMMA FreshCovers ==
  ASSUME NEW ws \in Seq(Threads), NEW o, NEW d,
         NEW b \in [Threads -> Int], NEW pr \in [Threads -> Prio],
         \A t \in Threads : pr[t] <= b[t],
         OrderedFor(ws, pr, b),
         ws = <<>> => d = PRIO_NONE,
         ws # <<>> /\ o # None => d = pr[ws[1]]
  PROVE  CoversFor(ws, o, d, pr, b)
<1>1. \A i \in DOMAIN ws : ws[i] \in Threads /\ (i = 1 \/ 1 < i)
  OBVIOUS
<1>2. ws # <<>> => 1 \in DOMAIN ws
  OBVIOUS
<1>3. \A t \in Threads : pr[t] \in Int
  BY PrioAssumption DEF Prio
<1>4. ASSUME ws # <<>>, o # None, NEW i \in DOMAIN ws
      PROVE  d <= b[ws[i]]
  <2>1. d = pr[ws[1]] /\ ws[1] \in Threads /\ ws[i] \in Threads /\ 1 \in DOMAIN ws
    BY <1>1, <1>2, <1>4
  <2>2. CASE i = 1
    BY <2>1, <2>2
  <2>3. CASE 1 < i
    BY <1>4, <2>1, <2>3 DEF OrderedFor
  <2>. QED BY <1>1, <1>4, <2>2, <2>3
<1>5. ASSUME ws # <<>>, o # None
      PROVE  d \in Prio /\ pr[ws[1]] <= d
  <2>1. d = pr[ws[1]] /\ ws[1] \in Threads
    BY <1>1, <1>2, <1>5
  <2>. HIDE DEF OrderedFor
  <2>2. d \in Prio /\ d \in Int
    BY <1>3, <2>1
  <2>. QED BY <2>1, <2>2
<1>. QED BY <1>4, <1>5 DEF CoversFor

(* A step after which each waiter's priority is as before or higher, with  *)
(* queues and donations that suit the priorities before it.                *)
LEMMA PrioStep ==
  ASSUME TypeCore, TypeCore', SetsItself',
         \A n \in Mutexes : \A i \in DOMAIN waiters'[n] :
            /\ base_priority'[waiters'[n][i]] = base_priority[waiters'[n][i]]
            /\ Prios(base_priority', pi_donations')[waiters'[n][i]]
                 <= Prios(base_priority, pi_donations)[waiters'[n][i]],
         \A n \in Mutexes :
            /\ OrderedFor(waiters'[n], Prios(base_priority, pi_donations), base_priority)
            /\ CoversFor(waiters'[n], owner'[n], donated_priority'[n],
                         Prios(base_priority, pi_donations), base_priority)
  PROVE  PrioInv'
<1>. DEFINE pr == Prios(base_priority, pi_donations)
            qr == Prios(base_priority', pi_donations')
<1>1. /\ pr \in [Threads -> Int] /\ qr \in [Threads -> Int]
      /\ base_priority \in [Threads -> Int] /\ base_priority' \in [Threads -> Int]
  BY PriosType DEF TypeCore, Donations
<1>2. \A n \in Mutexes : waiters'[n] \in Seq(Threads)
  BY DEF TypeCore
<1>3. \A n \in Mutexes : \A i \in DOMAIN waiters'[n] :
        base_priority'[waiters'[n][i]] = base_priority[waiters'[n][i]]
        /\ qr[waiters'[n][i]] <= pr[waiters'[n][i]]
  OBVIOUS
<1>. HIDE DEF pr, qr
<1>4. ASSUME NEW n \in Mutexes
      PROVE  /\ OrderedFor(waiters'[n], qr, base_priority')
             /\ CoversFor(waiters'[n], owner'[n], donated_priority'[n], qr, base_priority')
  <2>1. /\ OrderedFor(waiters'[n], pr, base_priority)
        /\ CoversFor(waiters'[n], owner'[n], donated_priority'[n], pr, base_priority)
    BY DEF pr
  <2>. QED BY <1>1, <1>2, <1>3, <2>1, QueueRises
<1>. QED BY <1>4 DEF PrioInv, QueueOrdered, DonationCovers, qr

(* The same for a step that changes the rows of runnable threads only: no  *)
(* waiter is one of them.                                                  *)
LEMMA PrioReady ==
  ASSUME IInv, IInv', QueueInv', SetsItself',
         \A u \in Threads : status'[u] # "READY" =>
            /\ base_priority'[u] = base_priority[u]
            /\ \A p \in Prio : pi_donations'[u][p] = pi_donations[u][p],
         \A n \in Mutexes :
            /\ OrderedFor(waiters'[n], Prios(base_priority, pi_donations), base_priority)
            /\ CoversFor(waiters'[n], owner'[n], donated_priority'[n],
                         Prios(base_priority, pi_donations), base_priority)
  PROVE  PrioInv'
<1>1. TypeCore /\ TypeCore'
  BY DEF IInv
<1>2. ASSUME NEW n \in Mutexes, NEW i \in DOMAIN waiters'[n]
      PROVE  /\ base_priority'[waiters'[n][i]] = base_priority[waiters'[n][i]]
             /\ Prios(base_priority', pi_donations')[waiters'[n][i]]
                  <= Prios(base_priority, pi_donations)[waiters'[n][i]]
  <2>. DEFINE u == waiters'[n][i]
  <2>1. u \in Threads /\ u \in Elements(waiters'[n])
    BY <1>1 DEF TypeCore, Elements
  <2>2. status'[u] # "READY"
    BY <2>1 DEF QueueInv, WaitersBlocked
  <2>. HIDE DEF u
  <2>3. /\ pi_donations[u] \in [Prio -> Int] /\ pi_donations'[u] \in [Prio -> Int]
        /\ base_priority[u] \in Prio
    BY <1>1, <2>1 DEF TypeCore, Donations
  <2>4. base_priority'[u] = base_priority[u] /\ pi_donations'[u] = pi_donations[u]
    BY <2>1, <2>2, <2>3
  <2>5. Prios(base_priority', pi_donations')[u] = Prios(base_priority, pi_donations)[u]
    BY <2>1, <2>4 DEF Prios
  <2>6. Prios(base_priority, pi_donations)[u] \in Int
    BY <2>1, <2>3, LeastPrioValue DEF Prios
  <2>. QED BY <2>4, <2>5, <2>6 DEF u
<1>. QED BY <1>1, <1>2, PrioStep

----------------------------------------------------------------------------
(* Where threads only change their own priority. *)
OnlySelf == "other" \notin Reprio

(* The steps that leave queues, owners and priorities alone. *)
LEMMA PrioFrame ==
  ASSUME PrioInv, SetsItself',
         UNCHANGED <<waiters, owner, donated_priority, pi_donations, base_priority>>
  PROVE  PrioInv'
BY DEF PrioInv, QueueOrdered, DonationCovers

(* What the invariant says of the queues before a step. *)
LEMMA PrioBefore ==
  ASSUME PrioInv, NEW n \in Mutexes
  PROVE  /\ OrderedFor(waiters[n], Prios(base_priority, pi_donations), base_priority)
         /\ CoversFor(waiters[n], owner[n], donated_priority[n],
                      Prios(base_priority, pi_donations), base_priority)
BY DEF PrioInv, QueueOrdered, DonationCovers

(* thread_set_priority on oneself: the thread is running, so it is in no   *)
(* queue.                                                                  *)
LEMMA PrioSetPriority ==
  ASSUME IInv, IInv', QueueInv, QueueInv', PrioInv, OnlySelf, NEW t \in Threads,
         \/ \E u \in Threads, p \in Prio : SetPriorityCheck(t, u, p)
         \/ SetPriorityApply(t)
  PROVE  PrioInv'
<1>1. CASE \E u \in Threads, p \in Prio : SetPriorityCheck(t, u, p)
  <2>1. PICK u \in Threads, p \in Prio : SetPriorityCheck(t, u, p)
    BY <1>1
  <2>2. u = t /\ setting' = [setting EXCEPT ![t] = {<<t, p>>}]
    BY <2>1 DEF SetPriorityCheck, OnlySelf
  <2>3. SetsItself'
    BY <2>2 DEF SetsItself, PrioInv, IInv, TypeCore
  <2>. QED BY <2>1, <2>3, PrioFrame DEF SetPriorityCheck
<1>2. CASE SetPriorityApply(t)
  <2>1. PICK s \in setting[t] : base_priority' = [base_priority EXCEPT ![s[1]] = s[2]]
    BY <1>2 DEF SetPriorityApply
  <2>2. s[1] = t /\ status'[t] = "READY" /\ setting' = [setting EXCEPT ![t] = {}]
        /\ UNCHANGED <<waiters, owner, donated_priority, pi_donations>>
    BY <1>2, <2>1 DEF PrioInv, SetsItself, SetPriorityApply, At
  <2>3. SetsItself'
    BY <2>2 DEF SetsItself, PrioInv, IInv, TypeCore
  <2>4. \A u \in Threads : status'[u] # "READY" =>
            /\ base_priority'[u] = base_priority[u]
            /\ \A p \in Prio : pi_donations'[u][p] = pi_donations[u][p]
    BY <2>1, <2>2 DEF IInv, TypeCore
  <2>5. \A n \in Mutexes :
            /\ OrderedFor(waiters'[n], Prios(base_priority, pi_donations), base_priority)
            /\ CoversFor(waiters'[n], owner'[n], donated_priority'[n],
                         Prios(base_priority, pi_donations), base_priority)
    BY <2>2, PrioBefore
  <2>. QED BY <2>3, <2>4, <2>5, PrioReady
<1>. QED BY <1>1, <1>2

(* The donation of a queue is the priority of its first waiter. *)
LEMMA WaiterPriorityIs ==
  ASSUME TypeCore, NEW ws \in Seq(Threads), NEW don \in Donations,
         ws # <<>> => \A p \in Prio : don[ws[1]][p] = pi_donations[ws[1]][p]
  PROVE  WaiterPriority(don, ws) =
           IF ws = <<>> THEN PRIO_NONE ELSE Prios(base_priority, pi_donations)[ws[1]]
<1>1. CASE ws = <<>>
  BY <1>1 DEF WaiterPriority
<1>2. CASE ws # <<>>
  <2>1. Head(ws) = ws[1] /\ ws[1] \in Threads
    BY <1>2
  <2>2. don[ws[1]] \in [Prio -> Int] /\ pi_donations[ws[1]] \in [Prio -> Int]
    BY <2>1 DEF TypeCore, Donations
  <2>3. don[ws[1]] = pi_donations[ws[1]]
    BY <1>2, <2>2
  <2>4. Effective(don, ws[1]) = LeastPrio(base_priority[ws[1]], don[ws[1]])
    BY <2>1, PriorityIs
  <2>. QED BY <1>2, <2>1, <2>3, <2>4 DEF WaiterPriority, Prios
<1>. QED BY <1>1, <1>2

(* The new owner's donation is fresh, whichever path it took. *)
LEMMA PrioTakes ==
  ASSUME IInv, IInv', QueueInv, QueueInv', PrioInv, NEW t \in Threads, Attach(t) \/ SlowTake(t)
  PROVE  PrioInv'
<1>. DEFINE m == want[t]
            pr == Prios(base_priority, pi_donations)
<1>1. /\ m \in Mutexes /\ status'[t] = "READY"
      /\ owner' = [owner EXCEPT ![m] = t]
      /\ mutex_refresh_donation(m, pi_donations, t, PRIO_NONE, waiters[m])
      /\ UNCHANGED <<waiters, base_priority, setting>>
  BY DEF Attach, SlowTake, mutex_attach_owner, At, IInv, WantSet
<1>2. /\ donated_priority'[m] = WaiterPriority(pi_donations, waiters[m])
      /\ \A n \in Mutexes \ {m} : donated_priority'[n] = donated_priority[n]
  BY <1>1, NoneAssumption DEF mutex_refresh_donation, IInv, TypeCore
<1>3. \A u \in Threads, p \in Prio :
         pi_donations'[u][p] = pi_donations[u][p]
                 - (IF t = u /\ PRIO_NONE = p THEN 1 ELSE 0)
                 + (IF t = u /\ donated_priority'[m] = p THEN 1 ELSE 0)
  BY <1>1, RefreshEffect DEF IInv, TypeCore
<1>4. \A u \in Threads : status'[u] # "READY" =>
            /\ base_priority'[u] = base_priority[u]
            /\ \A p \in Prio : pi_donations'[u][p] = pi_donations[u][p]
  <2>1. \A u \in Threads, p \in Prio : pi_donations[u][p] \in Int
    BY DEF IInv, TypeCore, Donations
  <2>. HIDE DEF m
  <2>. QED BY <1>1, <1>3, <2>1
<1>5. SetsItself'
  BY <1>1 DEF PrioInv, SetsItself
<1>6. /\ waiters[m] \in Seq(Threads) /\ pr \in [Threads -> Prio]
      /\ base_priority \in [Threads -> Int] /\ \A u \in Threads : pr[u] <= base_priority[u]
  BY <1>1, PriosType DEF IInv, TypeCore, Donations
<1>7. donated_priority'[m] = IF waiters[m] = <<>> THEN PRIO_NONE ELSE pr[waiters[m][1]]
  BY <1>2, <1>6, WaiterPriorityIs DEF IInv, TypeCore
<1>8. OrderedFor(waiters[m], pr, base_priority)
  BY <1>1, PrioBefore
<1>. HIDE DEF m, pr
<1>9. CoversFor(waiters[m], t, donated_priority'[m], pr, base_priority)
  BY <1>6, <1>7, <1>8, FreshCovers
<1>10. ASSUME NEW n \in Mutexes
       PROVE  /\ OrderedFor(waiters'[n], pr, base_priority)
              /\ CoversFor(waiters'[n], owner'[n], donated_priority'[n], pr, base_priority)
  <2>1. CASE n = m
    BY <1>1, <1>8, <1>9, <2>1 DEF IInv, TypeCore
  <2>2. CASE n # m
    <3>1. waiters'[n] = waiters[n] /\ owner'[n] = owner[n] /\ donated_priority'[n] = donated_priority[n]
      BY <1>1, <1>2, <2>2 DEF IInv, TypeCore
    <3>. QED BY <3>1, PrioBefore DEF pr
  <2>. QED BY <2>1, <2>2
<1>. QED BY <1>4, <1>5, <1>10, PrioReady DEF pr

(* Inserting a thread by its priority keeps a queue ordered. *)
LEMMA InsertedOrdered ==
  ASSUME NEW ws \in Seq(Threads), NEW t \in Threads, NEW k \in 1 .. Len(ws) + 1,
         NEW pr \in [Threads -> Int], NEW b \in [Threads -> Int],
         \A u \in Threads : pr[u] <= b[u],
         OrderedFor(ws, pr, b),
         \A i \in 1 .. k - 1 : pr[ws[i]] <= pr[t],
         k <= Len(ws) => pr[t] < pr[ws[k]]
  PROVE  OrderedFor(Inserted(ws, k, t), pr, b)
<1>1. Len(ws) \in Nat /\ DOMAIN ws = 1 .. Len(ws) /\ \A i \in 1 .. Len(ws) : ws[i] \in Threads
  OBVIOUS
<1>2. \A i, j \in 1 .. Len(ws) : i < j => pr[ws[i]] <= b[ws[j]]
  BY <1>1 DEF OrderedFor
<1>3. DOMAIN Inserted(ws, k, t) = 1 .. Len(ws) + 1
  BY DEF Inserted
<1>4. ASSUME NEW i \in 1 .. Len(ws) + 1, NEW j \in 1 .. Len(ws) + 1, i < j
      PROVE  pr[Inserted(ws, k, t)[i]] <= b[Inserted(ws, k, t)[j]]
  <2>1. CASE j < k
    BY <1>1, <1>2, <1>4, <2>1 DEF Inserted
  <2>2. CASE j = k
    <3>1. i \in 1 .. k - 1 /\ i \in 1 .. Len(ws) /\ Inserted(ws, k, t)[i] = ws[i] /\ Inserted(ws, k, t)[j] = t
      BY <1>1, <1>4, <2>2 DEF Inserted
    <3>. QED BY <1>1, <3>1
  <2>3. CASE j > k
    <3>1. j - 1 \in 1 .. Len(ws) /\ Inserted(ws, k, t)[j] = ws[j - 1] /\ k <= Len(ws)
      BY <1>1, <2>3 DEF Inserted
    <3>2. CASE i < k
      <4>1. i \in 1 .. Len(ws) /\ i < j - 1 /\ Inserted(ws, k, t)[i] = ws[i]
        BY <1>1, <1>4, <2>3, <3>2 DEF Inserted
      <4>. QED BY <1>2, <3>1, <4>1
    <3>3. CASE i = k
      <4>1. Inserted(ws, k, t)[i] = t /\ k \in 1 .. Len(ws)
        BY <3>1, <3>3 DEF Inserted
      <4>2. pr[t] < pr[ws[k]] /\ ws[k] \in Threads /\ ws[j - 1] \in Threads
        BY <1>1, <3>1, <4>1
      <4>3. pr[ws[k]] <= b[ws[j - 1]]
        <5>1. CASE k = j - 1
          BY <4>2, <5>1
        <5>2. CASE k < j - 1
          BY <1>2, <3>1, <4>1, <5>2
        <5>. QED BY <2>3, <5>1, <5>2
      <4>4. pr[t] <= b[ws[j - 1]]
        <5>1. pr[t] \in Int /\ pr[ws[k]] \in Int /\ b[ws[j - 1]] \in Int
          BY <4>2
        <5>. QED BY SMTT(60), <4>2, <4>3, <5>1
      <4>. QED BY <3>1, <4>1, <4>4
    <3>4. CASE i > k
      <4>1. i - 1 \in 1 .. Len(ws) /\ i - 1 < j - 1 /\ Inserted(ws, k, t)[i] = ws[i - 1]
        BY <1>1, <1>4, <3>4 DEF Inserted
      <4>. QED BY <1>2, <3>1, <4>1
    <3>. QED BY <3>2, <3>3, <3>4
  <2>. QED BY <2>1, <2>2, <2>3
<1>. QED BY <1>3, <1>4 DEF OrderedFor

(* A donation count is a natural number, and positive where a mutex donates. *)
LEMMA DonationCounts ==
  ASSUME IInv
  PROVE  /\ \A t \in Threads, p \in Prio : pi_donations[t][p] \in Nat
         /\ \A m \in Mutexes : owner[m] \in Threads /\ donated_priority[m] \in Prio
              => pi_donations[owner[m]][donated_priority[m]] > 0
<1>1. IsFiniteSet(Mutexes)
  BY NMutexesAssumption, FS_Interval DEF Mutexes
<1>2. ASSUME NEW t \in Threads, NEW p \in Prio
      PROVE  /\ pi_donations[t][p] \in Nat
             /\ \A m \in Mutexes : owner[m] = t /\ donated_priority[m] = p
                  => pi_donations[t][p] > 0
  <2>. DEFINE A == {m \in Mutexes : owner[m] = t /\ donated_priority[m] = p}
  <2>1. IsFiniteSet(A) /\ Cardinality(A) \in Nat
    BY <1>1, FS_Subset, FS_CardinalityType
  <2>2. A # {} => Cardinality(A) # 0
    BY <2>1, FS_EmptySet
  <2>3. pi_donations[t][p] = Cardinality(A)
    BY DEF IInv, DonationAccounting
  <2>. QED BY <2>1, <2>2, <2>3
<1>. QED BY <1>2

(* A row of donation counts in which one donation replaces another. *)
Moved(d, old, new) == [p \in Prio |-> d[p] - (IF old = p THEN 1 ELSE 0)
                                           + (IF new = p THEN 1 ELSE 0)]

(* A new waiter raises the owner, never lowers it: the first of the queue  *)
(* covers what the mutex donated before.                                   *)
LEMMA OwnerRises ==
  ASSUME NEW b \in Prio, NEW d \in [Prio -> Nat], NEW old, NEW new,
         old \in Prio => new \in Prio /\ new <= old /\ d[old] > 0
  PROVE  LeastPrio(b, Moved(d, old, new)) <= LeastPrio(b, d)
<1>. DEFINE e == Moved(d, old, new)
<1>1. d \in [Prio -> Int] /\ e \in [Prio -> Int]
  BY DEF Moved
<1>2. \A p \in Prio : e[p] = d[p] - (IF old = p THEN 1 ELSE 0) + (IF new = p THEN 1 ELSE 0)
  BY DEF Moved
<1>. HIDE DEF e
<1>3. ASSUME NEW p \in Prio, d[p] > 0
      PROVE  \E q \in Prio : q <= p /\ e[q] > 0
  <2>1. CASE p = old
    <3>1. new \in Prio /\ new <= p /\ d[new] \in Nat /\ d[p] \in Nat
      BY <2>1
    <3>2. e[new] > 0
      BY <1>2, <1>3, <2>1, <3>1
    <3>. QED BY <3>1, <3>2
  <2>2. CASE p # old
    <3>1. e[p] > 0 /\ p <= p
      <4>1. p \in Int /\ d[p] \in Nat
        BY PrioAssumption DEF Prio
      <4>. QED BY <1>2, <1>3, <2>2, <4>1
    <3>. QED BY <3>1
  <2>. QED BY <2>1, <2>2
<1>4. LeastPrio(b, e) <= LeastPrio(b, d)
  BY <1>1, <1>3, LeastPrioMonotone
<1>. QED BY <1>4 DEF e

(* A refresh replaces the mutex's donation in the owner's counts. *)
LEMMA DonationRefreshed ==
  ASSUME IInv, NEW m \in Mutexes, NEW ws \in Seq(Threads),
         mutex_refresh_donation(m, pi_donations, owner[m], donated_priority[m], ws)
  PROVE  /\ \A n \in Mutexes \ {m} : donated_priority'[n] = donated_priority[n]
         /\ \A u \in Threads, p \in Prio :
               pi_donations'[u][p] = pi_donations[u][p]
                 - (IF owner[m] = u /\ donated_priority[m] = p THEN 1 ELSE 0)
                 + (IF owner[m] = u /\ donated_priority'[m] = p THEN 1 ELSE 0)
<1>. DEFINE o == owner[m]
            old == donated_priority[m]
<1>1. /\ TypeCore /\ pi_donations \in Donations
      /\ o \in Threads \cup {None}
      /\ mutex_refresh_donation(m, pi_donations, o, old, ws)
  BY DEF IInv, TypeCore
<1>. HIDE DEF o, old
<1>2. /\ \A n \in Mutexes \ {m} : donated_priority'[n] = donated_priority[n]
      /\ \A u \in Threads, p \in Prio :
            pi_donations'[u][p] = pi_donations[u][p]
              - (IF o = u /\ old = p THEN 1 ELSE 0)
              + (IF o = u /\ donated_priority'[m] = p THEN 1 ELSE 0)
  BY <1>1, RefreshEffect
<1>. QED BY <1>2 DEF o, old

(* A thread queues itself by its priority, and raises the owner. *)
LEMMA PrioBlocks ==
  ASSUME IInv, IInv', QueueInv, QueueInv', PrioInv, NEW t \in Threads, SlowBlock(t)
  PROVE  PrioInv'
<1>. DEFINE m == want[t]
            ws == waiters[m]
            pr == Prios(base_priority, pi_donations)
            qr == Prios(base_priority', pi_donations')
            o == owner[m]
<1>1. /\ m \in Mutexes /\ ws \in Seq(Threads) /\ status[t] = "READY"
      /\ o \in Threads \cup {None}
      /\ UNCHANGED <<owner, base_priority, setting>>
  BY DEF SlowBlock, At, IInv, WantSet, TypeCore
<1>2. t \notin Elements(ws)
  BY <1>1 DEF QueueInv, WaitersBlocked
<1>3. /\ pr \in [Threads -> Int] /\ pr \in [Threads -> Prio]
      /\ base_priority \in [Threads -> Int] /\ base_priority \in [Threads -> Prio]
      /\ \A u \in Threads : pr[u] <= base_priority[u]
      /\ \A u \in Threads : pr[u] = LeastPrio(base_priority[u], pi_donations[u])
      /\ \A u \in Threads : qr[u] = LeastPrio(base_priority[u], pi_donations'[u])
  BY <1>1, PriosType DEF IInv, TypeCore, Donations
<1>4. PICK k \in 1 .. Len(ws) + 1 :
            /\ mutex_add_waiter(ws, t) = Inserted(ws, k, t)
            /\ \A i \in 1 .. k - 1 : Priority(ws[i]) <= Priority(t)
            /\ k <= Len(ws) => Priority(t) < Priority(ws[k])
  BY <1>1, AddWaiterShape DEF IInv
<1>. DEFINE vs == Inserted(ws, k, t)
<1>5. \A u \in Threads : Priority(u) = pr[u]
  BY <1>3, PriorityIs
<1>6. /\ \A i \in 1 .. k - 1 : pr[ws[i]] <= pr[t]
      /\ k <= Len(ws) => pr[t] < pr[ws[k]]
  BY <1>1, <1>4, <1>5
<1>7. /\ waiters' = [waiters EXCEPT ![m] = vs]
      /\ mutex_refresh_donation(m, pi_donations, o, donated_priority[m], vs)
  BY <1>2, <1>4 DEF SlowBlock
<1>8. /\ vs \in Seq(Threads) /\ vs # <<>> /\ DOMAIN vs = 1 .. Len(ws) + 1
      /\ \A i \in 1 .. Len(ws) + 1 : vs[i] = IF i < k THEN ws[i] ELSE IF i = k THEN t ELSE ws[i - 1]
  BY <1>1, <1>4, InsertedElements DEF Inserted
<1>9. /\ OrderedFor(ws, pr, base_priority)
      /\ CoversFor(ws, o, donated_priority[m], pr, base_priority)
  BY <1>1, PrioBefore
<1>10. pi_donations \in Donations
  BY DEF IInv, TypeCore
<1>11. donated_priority'[m] = IF o = None THEN PRIO_NONE ELSE pr[vs[1]]
  <2>1. donated_priority'[m] = IF o = None THEN PRIO_NONE ELSE WaiterPriority(pi_donations, vs)
    BY <1>1, <1>7 DEF mutex_refresh_donation, IInv, TypeCore
  <2>2. WaiterPriority(pi_donations, vs) = pr[vs[1]]
    BY <1>8, <1>10, WaiterPriorityIs DEF IInv
  <2>. QED BY <2>1, <2>2
<1>12. /\ \A n \in Mutexes \ {m} : donated_priority'[n] = donated_priority[n]
       /\ \A u \in Threads, p \in Prio :
               pi_donations'[u][p] = pi_donations[u][p]
                 - (IF o = u /\ donated_priority[m] = p THEN 1 ELSE 0)
                 + (IF o = u /\ donated_priority'[m] = p THEN 1 ELSE 0)
  BY <1>1, <1>7, <1>8, DonationRefreshed
<1>. HIDE DEF vs, o, pr, qr
<1>13. OrderedFor(vs, pr, base_priority)
  <2>. HIDE DEF ws
  <2>. QED BY <1>1, <1>3, <1>4, <1>6, <1>9, InsertedOrdered DEF vs
<1>14. CoversFor(vs, o, donated_priority'[m], pr, base_priority)
  <2>. HIDE DEF m, ws
  <2>. QED BY <1>3, <1>8, <1>11, <1>13, FreshCovers
<1>15. ASSUME NEW u \in Threads PROVE qr[u] <= pr[u]
  <2>1. /\ base_priority[u] \in Prio /\ pi_donations'[u] \in [Prio -> Int]
        /\ pi_donations[u] \in [Prio -> Int]
    BY DEF IInv, TypeCore, Donations
  <2>2. \A p \in Prio : pi_donations[u][p] \in Nat
    BY DonationCounts
  <2>3. pi_donations[u] \in [Prio -> Nat]
    BY <2>1, <2>2
  <2>4. CASE u # o
    <3>1. pi_donations'[u] = pi_donations[u]
      BY <1>12, <2>1, <2>4
    <3>2. pr[u] \in Int
      BY <1>3
    <3>. QED BY <1>3, <3>1, <3>2
  <2>5. CASE u = o
    <3>. DEFINE old == donated_priority[m]
                new == donated_priority'[m]
    <3>1. o # None /\ new = pr[vs[1]]
      BY <1>11, <2>5, NoneAssumption
    <3>2. ASSUME old \in Prio PROVE new \in Prio /\ new <= old /\ pi_donations[u][old] > 0
      <4>1. ws # <<>>
        <5>1. PRIO_NONE \notin Prio
          BY PrioAssumption DEF PRIO_NONE, Prio
        <5>. QED BY <1>9, <3>2, <5>1 DEF CoversFor
      <4>2. pr[ws[1]] <= old
        BY <1>9, <3>1, <4>1 DEF CoversFor
      <4>3. Len(ws) \in Nat /\ Len(ws) >= 1 /\ ws[1] \in Threads
        BY <1>1, <4>1
      <4>4. pr[vs[1]] <= pr[ws[1]] /\ vs[1] \in Threads
        <5>1. CASE k = 1
          <6>1. vs[1] = t /\ pr[t] < pr[ws[1]] /\ pr[t] \in Int /\ pr[ws[1]] \in Int
            BY SMTT(60), <1>3, <1>4, <1>6, <1>8, <4>3, <5>1
          <6>. QED BY <6>1
        <5>2. CASE k # 1
          <6>1. vs[1] = ws[1] /\ pr[ws[1]] \in Int
            <7>1. 1 \in 1 .. Len(ws) + 1 /\ 1 < k
              BY <1>4, <4>3, <5>2
            <7>. QED BY <1>3, <1>8, <4>3, <7>1
          <6>. QED BY <4>3, <6>1
        <5>. QED BY <5>1, <5>2
      <4>5. pr[vs[1]] \in Int /\ pr[vs[1]] \in Prio /\ pr[ws[1]] \in Int /\ old \in Int
        BY SMTT(60), <1>3, <3>2, <4>3, <4>4, PrioAssumption DEF Prio
      <4>6. pi_donations[u][old] > 0
        BY <1>1, <2>5, <3>2, DonationCounts DEF o
      <4>. QED BY <3>1, <4>2, <4>4, <4>5, <4>6
    <3>3. \A p \in Prio : pi_donations'[u][p] = pi_donations[u][p] - (IF old = p THEN 1 ELSE 0)
                                     + (IF new = p THEN 1 ELSE 0)
      BY <1>12, <2>5
    <3>. HIDE DEF old, new
    <3>4. LeastPrio(base_priority[u], pi_donations'[u]) <= LeastPrio(base_priority[u], pi_donations[u])
      <4>1. old \in Prio => new \in Prio /\ new <= old /\ pi_donations[u][old] > 0
        BY <3>2 DEF old, new
      <4>2. base_priority[u] \in Prio
        BY <2>1
      <4>3. pi_donations'[u] = Moved(pi_donations[u], old, new)
        BY <2>1, <2>3, <3>3 DEF Moved
      <4>. QED BY <2>3, <4>1, <4>2, <4>3, OwnerRises
    <3>. QED BY <1>3, <3>4
  <2>. QED BY <2>4, <2>5
<1>. HIDE DEF m, ws
<1>16. ASSUME NEW n \in Mutexes
       PROVE  /\ OrderedFor(waiters'[n], pr, base_priority)
              /\ CoversFor(waiters'[n], owner'[n], donated_priority'[n], pr, base_priority)
  <2>1. CASE n = m
    <3>1. waiters'[n] = vs /\ owner'[n] = o
      BY <1>1, <1>7, <2>1 DEF IInv, TypeCore, o
    <3>. QED BY <1>13, <1>14, <2>1, <3>1
  <2>2. CASE n # m
    <3>1. waiters'[n] = waiters[n] /\ owner'[n] = owner[n] /\ donated_priority'[n] = donated_priority[n]
      BY <1>1, <1>7, <1>12, <2>2 DEF IInv, TypeCore
    <3>. QED BY <3>1, PrioBefore DEF pr
  <2>. QED BY <2>1, <2>2
<1>17. SetsItself'
  BY <1>1 DEF PrioInv, SetsItself
<1>18. \A n \in Mutexes : \A i \in DOMAIN waiters'[n] : waiters'[n][i] \in Threads
  BY DEF IInv, TypeCore
<1>19. TypeCore /\ TypeCore'
  BY DEF IInv
<1>20. \A n \in Mutexes : \A i \in DOMAIN waiters'[n] :
            /\ base_priority'[waiters'[n][i]] = base_priority[waiters'[n][i]]
            /\ qr[waiters'[n][i]] <= pr[waiters'[n][i]]
  BY <1>1, <1>15, <1>18
<1>. QED BY <1>16, <1>17, <1>19, <1>20, PrioStep DEF pr, qr

(* The head leaves an ordered queue. *)
LEMMA TailOrdered ==
  ASSUME NEW ws \in Seq(Threads), ws # <<>>, NEW pr, NEW b, OrderedFor(ws, pr, b)
  PROVE  OrderedFor(Tail(ws), pr, b)
<1>1. /\ Len(ws) \in Nat /\ DOMAIN ws = 1 .. Len(ws)
      /\ DOMAIN Tail(ws) = 1 .. Len(ws) - 1
      /\ \A i \in 1 .. Len(ws) - 1 : Tail(ws)[i] = ws[i + 1]
  BY HeadTailProperties
<1>. QED BY <1>1 DEF OrderedFor

(* An unlock without handoff leaves the mutex without an owner. *)
LEMMA PrioUnlockRaw ==
  ASSUME IInv, IInv', QueueInv, QueueInv', PrioInv, NEW t \in Threads, NEW m \in Mutexes,
         pi_donations' = mutex_detach_owner(m),
         donated_priority' = [donated_priority EXCEPT ![m] = PRIO_NONE],
         owner' = [owner EXCEPT ![m] = None], owner[m] = t, status[t] = "READY",
         __wake_up_one(m), UNCHANGED <<base_priority, setting>>
  PROVE  PrioInv'
<1>. DEFINE pr == Prios(base_priority, pi_donations)
<1>1. /\ \A n \in Mutexes \ {m} : waiters'[n] = waiters[n]
      /\ waiters[m] = <<>> => UNCHANGED <<waiters, status>>
      /\ waiters[m] # <<>> => /\ waiters'[m] = Tail(waiters[m])
                              /\ status'[Head(waiters[m])] = "READY"
                              /\ \A u \in Threads \ {Head(waiters[m])} : status'[u] = status[u]
  BY WakeEffect
<1>2. status'[t] = "READY"
  BY <1>1
<1>3. \A u \in Threads : status'[u] # "READY" =>
            /\ base_priority'[u] = base_priority[u]
            /\ \A p \in Prio : pi_donations'[u][p] = pi_donations[u][p]
  <2>1. \A u \in Threads, p \in Prio : pi_donations[u][p] \in Int
    BY DEF IInv, TypeCore, Donations
  <2>2. \A u \in Threads, p \in Prio :
          pi_donations'[u][p] = pi_donations[u][p]
                 - (IF owner[m] = u /\ donated_priority[m] = p THEN 1 ELSE 0)
    BY DetachEffect DEF IInv
  <2>. QED BY <1>2, <2>1, <2>2
<1>4. ASSUME NEW n \in Mutexes
      PROVE  /\ OrderedFor(waiters'[n], pr, base_priority)
             /\ CoversFor(waiters'[n], owner'[n], donated_priority'[n], pr, base_priority)
  <2>1. /\ OrderedFor(waiters[n], pr, base_priority)
        /\ CoversFor(waiters[n], owner[n], donated_priority[n], pr, base_priority)
    BY PrioBefore
  <2>. HIDE DEF pr
  <2>2. CASE n = m
    <3>1. owner'[n] = None /\ donated_priority'[n] = PRIO_NONE /\ waiters[n] \in Seq(Threads)
      BY <2>2 DEF IInv, TypeCore
    <3>2. OrderedFor(waiters'[n], pr, base_priority)
      BY <1>1, <2>1, <2>2, <3>1, TailOrdered
    <3>. QED BY <3>1, <3>2 DEF CoversFor
  <2>3. CASE n # m
    <3>1. waiters'[n] = waiters[n] /\ owner'[n] = owner[n] /\ donated_priority'[n] = donated_priority[n]
      BY <1>1, <2>3 DEF IInv, TypeCore
    <3>. QED BY <2>1, <3>1
  <2>. QED BY <2>2, <2>3
<1>5. SetsItself'
  BY DEF PrioInv, SetsItself
<1>. QED BY <1>3, <1>4, <1>5, PrioReady

(* The handoff: the new owner gets the donation of the waiters that stay.  *)
LEMMA PrioHandoff ==
  ASSUME IInv, IInv', QueueInv, QueueInv', PrioInv, NEW t \in Threads, NEW m \in Mutexes,
         mutex_unlock_handoff(t, m), waiters[m] # <<>>
  PROVE  PrioInv'
<1>. DEFINE pr == Prios(base_priority, pi_donations)
            h == Head(waiters[m])
            rest == Tail(waiters[m])
            don == mutex_detach_owner(m)
<1>1. /\ status[t] = "READY" /\ owner[m] = t
      /\ owner' = [owner EXCEPT ![m] = h]
      /\ mutex_refresh_donation(m, don, h, PRIO_NONE, rest)
      /\ UNCHANGED <<base_priority, setting>>
      /\ __wake_up_one(m)
  BY HeldMutex DEF mutex_unlock_handoff, mutex_attach_owner, At
<1>2. /\ \A n \in Mutexes \ {m} : waiters'[n] = waiters[n]
      /\ h \in Threads /\ waiters'[m] = rest /\ status'[h] = "READY"
      /\ \A u \in Threads \ {h} : status'[u] = status[u]
  BY <1>1, WakeEffect
<1>3. /\ don \in Donations
      /\ \A u \in Threads, p \in Prio :
          don[u][p] = pi_donations[u][p]
                 - (IF owner[m] = u /\ donated_priority[m] = p THEN 1 ELSE 0)
  BY DetachEffect DEF IInv
<1>4. waiters[m] \in Seq(Threads) /\ rest \in Seq(Threads) /\ TypeCore
  BY <1>2 DEF IInv, TypeCore
<1>. HIDE DEF don, h, rest, pr
<1>5. /\ donated_priority'[m] = WaiterPriority(don, rest)
      /\ \A n \in Mutexes \ {m} : donated_priority'[n] = donated_priority[n]
  BY <1>1, <1>2, NoneAssumption DEF mutex_refresh_donation, IInv, TypeCore
<1>6. \A u \in Threads, p \in Prio :
               pi_donations'[u][p] = don[u][p]
                 - (IF h = u /\ PRIO_NONE = p THEN 1 ELSE 0)
                 + (IF h = u /\ donated_priority'[m] = p THEN 1 ELSE 0)
  BY <1>1, <1>2, <1>3, <1>4, RefreshEffect
<1>7. \A u \in Threads, p \in Prio : pi_donations[u][p] \in Int /\ don[u][p] \in Int
  BY <1>3 DEF IInv, TypeCore, Donations
<1>8. \A u \in Threads : status'[u] # "READY" =>
            /\ base_priority'[u] = base_priority[u]
            /\ \A p \in Prio : pi_donations'[u][p] = pi_donations[u][p]
  <2>1. status'[t] = "READY"
    BY <1>1, <1>2
  <2>. QED BY <1>1, <1>2, <1>3, <1>6, <1>7, <2>1
<1>9. rest # <<>> => \A p \in Prio : don[rest[1]][p] = pi_donations[rest[1]][p]
  <2>1. ASSUME rest # <<>> PROVE rest[1] # t /\ rest[1] \in Threads
    <3>1. rest[1] \in Elements(waiters'[m]) /\ rest[1] \in Threads
      BY <1>2, <1>4, <2>1 DEF Elements
    <3>2. status'[rest[1]] # "READY"
      BY <3>1 DEF QueueInv, WaitersBlocked
    <3>. QED BY <1>1, <1>2, <3>1, <3>2
  <2>. QED BY <1>1, <1>3, <1>7, <2>1
<1>10. donated_priority'[m] = IF rest = <<>> THEN PRIO_NONE ELSE pr[rest[1]]
  BY <1>3, <1>4, <1>5, <1>9, WaiterPriorityIs DEF pr
<1>11. /\ pr \in [Threads -> Prio] /\ base_priority \in [Threads -> Int]
       /\ \A u \in Threads : pr[u] <= base_priority[u]
  BY PriosType DEF IInv, TypeCore, Donations, pr
<1>12. OrderedFor(rest, pr, base_priority)
  BY <1>4, PrioBefore, TailOrdered DEF pr, rest
<1>13. CoversFor(rest, h, donated_priority'[m], pr, base_priority)
  BY <1>4, <1>10, <1>11, <1>12, FreshCovers
<1>14. ASSUME NEW n \in Mutexes
       PROVE  /\ OrderedFor(waiters'[n], pr, base_priority)
              /\ CoversFor(waiters'[n], owner'[n], donated_priority'[n], pr, base_priority)
  <2>1. CASE n = m
    <3>1. waiters'[n] = rest /\ owner'[n] = h
      BY <1>1, <1>2, <2>1 DEF IInv, TypeCore
    <3>. QED BY <1>12, <1>13, <2>1, <3>1
  <2>2. CASE n # m
    <3>1. waiters'[n] = waiters[n] /\ owner'[n] = owner[n] /\ donated_priority'[n] = donated_priority[n]
      BY <1>1, <1>2, <1>5, <2>2 DEF IInv, TypeCore
    <3>. QED BY <3>1, PrioBefore DEF pr
  <2>. QED BY <2>1, <2>2
<1>15. SetsItself'
  BY <1>1 DEF PrioInv, SetsItself
<1>. QED BY <1>8, <1>14, <1>15, PrioReady DEF pr

(* Every step keeps it, where threads change their own priority only. *)
LEMMA PrioNext ==
  ASSUME IInv, IInv', QueueInv, QueueInv', PrioInv, OnlySelf,
         [Next /\ UNCHANGED inst]_<<vars, inst>>
  PROVE  PrioInv'
<1>1. CASE UNCHANGED <<vars, inst>>
  <2>1. SetsItself'
    BY <1>1 DEF PrioInv, SetsItself, vars
  <2>. QED BY <1>1, <2>1, PrioFrame DEF vars
<1>2. CASE Next
  <2>1. PICK t \in Threads :
           \/ \E m \in Mutexes : Call(t, m) \/ mutex_unlock(t, m)
           \/ Locking(t)
           \/ \E u \in Threads, p \in Prio : SetPriorityCheck(t, u, p)
           \/ SetPriorityApply(t)
    BY <1>2 DEF Next
  <2>2. CASE \/ \E m \in Mutexes : Call(t, m)
             \/ Confirm(t) \/ TryLock(t) \/ TryFails(t)
    <3>1. UNCHANGED <<waiters, owner, donated_priority, pi_donations, base_priority, setting>>
      BY <2>2 DEF Call, Confirm, TryLock, TryFails
    <3>2. SetsItself'
      BY <3>1 DEF PrioInv, SetsItself
    <3>. QED BY <3>1, <3>2, PrioFrame
  <2>3. ASSUME NEW m \in Mutexes, mutex_unlock_raw(t, m)
        PROVE  PrioInv'
    BY ZenonT(60), <2>3, HeldMutex, PrioUnlockRaw DEF mutex_unlock_raw, At
  <2>4. ASSUME NEW m \in Mutexes, mutex_unlock_handoff(t, m)
        PROVE  PrioInv'
    <3>1. CASE waiters[m] = <<>>
      BY <2>4, <3>1, HeldMutex, PrioUnlockRaw DEF mutex_unlock_handoff, At
    <3>2. CASE waiters[m] # <<>>
      BY <2>4, <3>2, PrioHandoff
    <3>. QED BY <3>1, <3>2
  <2>5. CASE Attach(t) \/ SlowTake(t)
    BY <2>5, PrioTakes
  <2>6. CASE SlowBlock(t)
    BY <2>6, PrioBlocks
  <2>7. CASE \/ \E u \in Threads, p \in Prio : SetPriorityCheck(t, u, p)
             \/ SetPriorityApply(t)
    BY <2>7, PrioSetPriority
  <2>. QED BY <2>1, <2>2, <2>3, <2>4, <2>5, <2>6, <2>7 DEF Locking, mutex_unlock
<1>. QED BY <1>1, <1>2

(* Priority inheritance works through nested locks, in either build and    *)
(* whatever the interleaving: an owner runs at no lower a priority than    *)
(* each waiter, as long as no thread changes another's priority.           *)
THEOREM MutexNoInversion == Spec => [](OnlySelf => NoPriorityInversion)
<1>1. ~OnlySelf /\ [Next /\ UNCHANGED inst]_<<vars, inst>> => ~OnlySelf'
  BY DEF OnlySelf, Reprio
<1>2. /\ IInv /\ IInv' /\ QueueInv /\ QueueInv' /\ (OnlySelf => PrioInv)
      /\ [Next /\ UNCHANGED inst]_<<vars, inst>>
      => (OnlySelf => PrioInv)'
  BY <1>1, PrioNext
<1>3. ASSUME IInv, PrioInv PROVE NoPriorityInversion
  <2>1. ASSUME NEW m \in Mutexes, owner[m] # None, NEW i \in DOMAIN waiters[m]
        PROVE  Priority(owner[m]) <= base_priority[waiters[m][i]]
    <3>. DEFINE o == owner[m]
                d == donated_priority[m]
    <3>1. /\ o \in Threads /\ waiters[m] \in Seq(Threads) /\ waiters[m] # <<>>
          /\ waiters[m][i] \in Threads
      BY <1>3, <2>1 DEF IInv, TypeCore
    <3>2. d \in Prio /\ d <= base_priority[waiters[m][i]]
      BY <1>3, <2>1, <3>1, PrioBefore DEF CoversFor
    <3>3. pi_donations[o][d] > 0
      BY <1>3, <3>1, <3>2, DonationCounts
    <3>4. base_priority[o] \in Prio /\ pi_donations[o] \in [Prio -> Int]
          /\ base_priority[waiters[m][i]] \in Int
      BY <1>3, <3>1, PrioAssumption DEF IInv, TypeCore, Donations, Prio
    <3>5. Priority(o) = LeastPrio(base_priority[o], pi_donations[o])
      BY <3>1, PriorityIs
    <3>. HIDE DEF o, d
    <3>6. Priority(o) <= d /\ Priority(o) \in Int /\ d \in Int
      <4>1. /\ LeastPrio(base_priority[o], pi_donations[o]) \in Int
            /\ LeastPrio(base_priority[o], pi_donations[o]) <= d
        BY <3>2, <3>3, <3>4, LeastPrioValue
      <4>2. d \in Int
        BY <3>2, PrioAssumption DEF Prio
      <4>. QED BY <3>5, <4>1, <4>2
    <3>7. Priority(o) <= base_priority[waiters[m][i]]
      BY <3>2, <3>4, <3>6
    <3>. QED BY <3>7 DEF o
  <2>. QED BY <2>1 DEF NoPriorityInversion, Elements
<1>. QED BY <1>2, <1>3, InitPrioInv, InvariantHolds, QueueInvHolds, PTL DEF Spec
=============================================================================
