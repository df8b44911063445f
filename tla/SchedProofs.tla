---------------------------- MODULE SchedProofs ----------------------------
(***************************************************************************)
(* Proofs about the scheduler, for every number of CPUs, threads and       *)
(* priorities and for whatever the threads do: run queues and zombie       *)
(* queues stay consistent, nothing reachable is freed, and pick_next takes *)
(* the highest priority.                                                   *)
(***************************************************************************)
EXTENDS Sched, FiniteSetTheorems, SequenceTheorems, WellFoundedInduction, TLAPS

----------------------------------------------------------------------------
(* Queues.  q's lists hold the threads of S, each once, on the list that   *)
(* pr gives it; the bitmap says which lists are not empty.                 *)
Lists(q, S, pr) ==
    /\ q \in [heads : [Prio -> Seq(Threads)], bitmap : SUBSET Prio, count : Int]
    /\ S \subseteq Threads /\ \A t \in S : pr[t] \in Prio
    /\ \A p \in Prio : \A i \in DOMAIN q.heads[p] :
          q.heads[p][i] \in S /\ pr[q.heads[p][i]] = p
    /\ \A t \in S : \E i \in DOMAIN q.heads[pr[t]] : q.heads[pr[t]][i] = t
    /\ \A p \in Prio : \A i, j \in DOMAIN q.heads[p] :
          q.heads[p][i] = q.heads[p][j] => i = j
    /\ q.bitmap = {p \in Prio : q.heads[p] # <<>>}

(* ... and the count is right. *)
Counted(q, S) == IsFiniteSet(S) /\ q.count = Cardinality(S)

(* An empty queue holds nothing. *)
LEMMA EmptyLists == \A pr : Lists(EmptyQueue, {}, pr) /\ Counted(EmptyQueue, {})
<1>1. <<>> \in Seq(Threads) /\ DOMAIN <<>> = {}
  OBVIOUS
<1>. QED BY <1>1, FS_EmptySet DEF Lists, Counted, EmptyQueue

(* Only the priorities of the queued threads matter. *)
LEMMA ListsReprio ==
  ASSUME NEW q, NEW S, NEW pr, NEW qr, Lists(q, S, pr), \A t \in S : qr[t] = pr[t]
  PROVE  Lists(q, S, qr)
BY DEF Lists

(* list_del() of a node takes that node out and keeps the others in order. *)
LEMMA WithoutNode ==
  ASSUME NEW s \in Seq(Threads), NEW t, NEW k \in DOMAIN s, s[k] = t,
         \A i, j \in DOMAIN s : s[i] = s[j] => i = j
  PROVE  /\ Without(s, t) \in Seq(Threads)
         /\ DOMAIN Without(s, t) = 1 .. Len(s) - 1
         /\ \A i \in 1 .. Len(s) - 1 : Without(s, t)[i] = IF i < k THEN s[i] ELSE s[i + 1]
<1>. DEFINE w == [i \in 1 .. Len(s) - 1 |-> IF i < k THEN s[i] ELSE s[i + 1]]
<1>1. (CHOOSE i \in DOMAIN s : s[i] = t) = k
  OBVIOUS
<1>2. Without(s, t) = w
  BY <1>1 DEF Without
<1>3. Len(s) \in Nat /\ DOMAIN s = 1 .. Len(s) /\ Len(s) - 1 \in Nat
  BY LenProperties
<1>4. w \in [1 .. Len(s) - 1 -> Threads]
  BY <1>3
<1>5. w \in Seq(Threads)
  BY <1>3, <1>4, IsASeq
<1>. QED BY <1>2, <1>5

(* Its members are the others. *)
LEMMA WithoutMembers ==
  ASSUME NEW s \in Seq(Threads), NEW t, NEW k \in DOMAIN s, s[k] = t,
         \A i, j \in DOMAIN s : s[i] = s[j] => i = j
  PROVE  /\ Without(s, t) \in Seq(Threads)
         /\ \A i \in DOMAIN Without(s, t) :
               Without(s, t)[i] # t /\ \E j \in DOMAIN s : Without(s, t)[i] = s[j]
         /\ \A j \in DOMAIN s : s[j] # t => \E i \in DOMAIN Without(s, t) : Without(s, t)[i] = s[j]
         /\ \A i, j \in DOMAIN Without(s, t) : Without(s, t)[i] = Without(s, t)[j] => i = j
<1>. DEFINE w == Without(s, t)
<1>1. /\ w \in Seq(Threads) /\ DOMAIN w = 1 .. Len(s) - 1
      /\ \A i \in 1 .. Len(s) - 1 : w[i] = IF i < k THEN s[i] ELSE s[i + 1]
  BY WithoutNode
<1>2. Len(s) \in Nat /\ DOMAIN s = 1 .. Len(s) /\ k \in Int
  BY LenProperties
<1>. HIDE DEF w
<1>3. ASSUME NEW i \in DOMAIN w
      PROVE  /\ w[i] # t
             /\ \E j \in DOMAIN s : w[i] = s[j] /\ (i < k => j = i) /\ (i >= k => j = i + 1)
  <2>1. CASE i < k
    BY <1>1, <1>2, <2>1
  <2>2. CASE i >= k
    BY <1>1, <1>2, <2>2
  <2>. QED BY <1>1, <1>2, <2>1, <2>2
<1>4. ASSUME NEW j \in DOMAIN s, s[j] # t
      PROVE  \E i \in DOMAIN w : w[i] = s[j]
  <2>1. CASE j < k
    BY <1>1, <1>2, <2>1
  <2>2. CASE j > k
    <3>1. j - 1 \in 1 .. Len(s) - 1 /\ ~(j - 1 < k) /\ (j - 1) + 1 = j
      BY <1>2, <2>2
    <3>2. w[j - 1] = s[j]
      BY <1>1, <3>1
    <3>. QED BY <1>1, <3>1, <3>2
  <2>3. j # k
    BY <1>4
  <2>. QED BY <1>2, <2>1, <2>2, <2>3
<1>5. ASSUME NEW i \in DOMAIN w, NEW j \in DOMAIN w, w[i] = w[j]
      PROVE  i = j
  <2>1. PICK a \in DOMAIN s : w[i] = s[a] /\ (i < k => a = i) /\ (i >= k => a = i + 1)
    BY <1>3
  <2>2. PICK b \in DOMAIN s : w[j] = s[b] /\ (j < k => b = j) /\ (j >= k => b = j + 1)
    BY <1>3
  <2>3. a = b
    BY <1>5, <2>1, <2>2
  <2>4. i \in Int /\ j \in Int
    BY <1>1, <1>2
  <2>. QED BY <1>2, <2>1, <2>2, <2>3, <2>4
<1>6. w \in Seq(Threads)
  BY <1>1
<1>7. \A i \in DOMAIN w : w[i] # t /\ \E j \in DOMAIN s : w[i] = s[j]
  BY <1>3
<1>. QED BY <1>4, <1>5, <1>6, <1>7 DEF w

(* Unlinking a thread. *)
LEMMA UnlinkLists ==
  ASSUME NEW q, NEW S, NEW pr, NEW t \in S, Lists(q, S, pr)
  PROVE  /\ Lists(Unlink(q, t, pr[t]), S \ {t}, pr)
         /\ Unlink(q, t, pr[t]).count = q.count
<1>. DEFINE h == [x \in Prio |-> Without(q.heads[x], t)]
            r == Unlink(q, t, pr[t])
            P == pr[t]
<1>1. /\ q \in [heads : [Prio -> Seq(Threads)], bitmap : SUBSET Prio, count : Int]
      /\ P \in Prio
  BY DEF Lists
<1>2. ASSUME NEW x \in Prio, x # P PROVE h[x] = q.heads[x]
  <2>1. \A i \in DOMAIN q.heads[x] : q.heads[x][i] # t
    BY <1>2 DEF Lists
  <2>2. Without(q.heads[x], t) = q.heads[x]
    BY <2>1 DEF Without
  <2>. QED BY <2>2
<1>3. PICK k \in DOMAIN q.heads[P] : q.heads[P][k] = t
  BY DEF Lists
<1>4. /\ h[P] \in Seq(Threads)
      /\ \A i \in DOMAIN h[P] : h[P][i] # t /\ \E j \in DOMAIN q.heads[P] : h[P][i] = q.heads[P][j]
      /\ \A j \in DOMAIN q.heads[P] : q.heads[P][j] # t => \E i \in DOMAIN h[P] : h[P][i] = q.heads[P][j]
      /\ \A i, j \in DOMAIN h[P] : h[P][i] = h[P][j] => i = j
  <2>1. /\ q.heads[P] \in Seq(Threads)
        /\ \A i, j \in DOMAIN q.heads[P] : q.heads[P][i] = q.heads[P][j] => i = j
    BY <1>1 DEF Lists
  <2>2. h[P] = Without(q.heads[P], t)
    BY <1>1
  <2>. DEFINE s == q.heads[P]
              w == h[P]
  <2>3. s \in Seq(Threads) /\ k \in DOMAIN s /\ s[k] = t /\ w = Without(s, t)
        /\ \A i, j \in DOMAIN s : s[i] = s[j] => i = j
    BY <1>3, <2>1, <2>2
  <2>. HIDE DEF s, w
  <2>4. /\ w \in Seq(Threads)
        /\ \A i \in DOMAIN w : w[i] # t /\ \E j \in DOMAIN s : w[i] = s[j]
        /\ \A j \in DOMAIN s : s[j] # t => \E i \in DOMAIN w : w[i] = s[j]
        /\ \A i, j \in DOMAIN w : w[i] = w[j] => i = j
    BY <2>3, WithoutMembers
  <2>. QED BY <2>4 DEF s, w
<1>5. /\ r.heads = h /\ r.count = q.count
      /\ r.bitmap = IF h[P] = <<>> THEN q.bitmap \ {P} ELSE q.bitmap
      /\ r = [heads |-> h, bitmap |-> IF h[P] = <<>> THEN q.bitmap \ {P} ELSE q.bitmap, count |-> q.count]
  BY <1>1 DEF Unlink
<1>6. h \in [Prio -> Seq(Threads)] /\ DOMAIN h = Prio
  <2>1. \A x \in Prio : h[x] \in Seq(Threads)
    BY <1>1, <1>2, <1>4
  <2>. QED BY <2>1
<1>. HIDE DEF h
<1>7. q.heads[P] # <<>>
  <2>1. q.heads[P] \in Seq(Threads)
    BY <1>1
  <2>. QED BY <1>3, <2>1
<1>8. r.bitmap = {p \in Prio : h[p] # <<>>}
  BY <1>2, <1>5, <1>7 DEF Lists
<1>9. \A p \in Prio : \A i \in DOMAIN h[p] : h[p][i] \in S \ {t} /\ pr[h[p][i]] = p
  <2>1. ASSUME NEW i \in DOMAIN h[P] PROVE h[P][i] \in S \ {t} /\ pr[h[P][i]] = P
    <3>1. PICK j \in DOMAIN q.heads[P] : h[P][i] = q.heads[P][j]
      BY <1>4
    <3>. QED BY <1>1, <1>4, <3>1 DEF Lists
  <2>2. ASSUME NEW p \in Prio, p # P, NEW i \in DOMAIN h[p]
        PROVE  h[p][i] \in S \ {t} /\ pr[h[p][i]] = p
    BY <1>2, <2>2 DEF Lists
  <2>. QED BY <2>1, <2>2
<1>10. \A u \in S \ {t} : \E i \in DOMAIN h[pr[u]] : h[pr[u]][i] = u
  <2>1. ASSUME NEW u \in S \ {t} PROVE \E i \in DOMAIN h[pr[u]] : h[pr[u]][i] = u
    <3>1. PICK i \in DOMAIN q.heads[pr[u]] : q.heads[pr[u]][i] = u
      BY DEF Lists
    <3>2. CASE pr[u] = P
      BY <1>4, <3>1, <3>2
    <3>3. CASE pr[u] # P
      <4>1. pr[u] \in Prio
        BY DEF Lists
      <4>. QED BY <1>2, <3>1, <3>3, <4>1
    <3>. QED BY <3>2, <3>3
  <2>. QED BY <2>1
<1>11. \A p \in Prio : \A i, j \in DOMAIN h[p] : h[p][i] = h[p][j] => i = j
  <2>1. ASSUME NEW p \in Prio, p # P
        PROVE  \A i, j \in DOMAIN h[p] : h[p][i] = h[p][j] => i = j
    <3>1. h[p] = q.heads[p]
      BY <1>2, <2>1
    <3>2. \A i, j \in DOMAIN q.heads[p] : q.heads[p][i] = q.heads[p][j] => i = j
      BY DEF Lists
    <3>. QED BY <3>1, <3>2
  <2>2. \A i, j \in DOMAIN h[P] : h[P][i] = h[P][j] => i = j
    BY <1>4
  <2>. HIDE DEF P
  <2>. QED BY <2>1, <2>2
<1>12. r \in [heads : [Prio -> Seq(Threads)], bitmap : SUBSET Prio, count : Int]
  BY <1>1, <1>5, <1>6
<1>13. S \ {t} \subseteq Threads /\ \A u \in S \ {t} : pr[u] \in Prio
  BY DEF Lists
<1>. HIDE DEF r
<1>14. Lists(r, S \ {t}, pr)
  BY <1>5, <1>8, <1>9, <1>10, <1>11, <1>12, <1>13 DEF Lists
<1>. QED BY <1>5, <1>14 DEF r

(* A list with one more node. *)
LEMMA LinkLists ==
  ASSUME NEW q, NEW S, NEW pr, NEW t \in Threads \ S, pr[t] \in Prio, Lists(q, S, pr)
  PROVE  /\ Lists(LinkHead(q, t, pr[t]), S \cup {t}, pr)
         /\ Lists(LinkTail(q, t, pr[t]), S \cup {t}, pr)
         /\ LinkHead(q, t, pr[t]).count = q.count
         /\ LinkTail(q, t, pr[t]).count = q.count
<1>. DEFINE P == pr[t]
            s == q.heads[P]
<1>1. /\ q \in [heads : [Prio -> Seq(Threads)], bitmap : SUBSET Prio, count : Int]
      /\ s \in Seq(Threads) /\ \A i, j \in DOMAIN s : s[i] = s[j] => i = j
      /\ \A i \in DOMAIN s : s[i] \in S /\ pr[s[i]] = P
  BY DEF Lists
<1>2. ASSUME NEW w \in Seq(Threads), NEW r,
             \A i \in DOMAIN w : w[i] = t \/ \E j \in DOMAIN s : w[i] = s[j],
             \A j \in DOMAIN s : \E i \in DOMAIN w : w[i] = s[j],
             \E i \in DOMAIN w : w[i] = t,
             \A i, j \in DOMAIN w : w[i] = w[j] => i = j,
             r = [heads |-> [q.heads EXCEPT ![P] = w], bitmap |-> q.bitmap \cup {P},
                  count |-> q.count]
      PROVE  Lists(r, S \cup {t}, pr)
  <2>. DEFINE h == [q.heads EXCEPT ![P] = w]
  <2>1. /\ h \in [Prio -> Seq(Threads)] /\ h[P] = w
        /\ \A x \in Prio \ {P} : h[x] = q.heads[x]
    BY <1>1
  <2>2. r.heads = h /\ r.bitmap = q.bitmap \cup {P} /\ r.count = q.count
        /\ r \in [heads : [Prio -> Seq(Threads)], bitmap : SUBSET Prio, count : Int]
    <3>. HIDE DEF h
    <3>. QED BY <1>1, <1>2, <2>1 DEF h
  <2>. HIDE DEF h
  <2>3. S \cup {t} \subseteq Threads /\ \A u \in S \cup {t} : pr[u] \in Prio
    BY DEF Lists
  <2>4. \A i \in DOMAIN w : w[i] \in S \cup {t} /\ pr[w[i]] = P
    BY <1>1, <1>2
  <2>5. \A p \in Prio : \A i \in DOMAIN h[p] : h[p][i] \in S \cup {t} /\ pr[h[p][i]] = p
    <3>1. \A p \in Prio \ {P} : \A i \in DOMAIN q.heads[p] :
             q.heads[p][i] \in S /\ pr[q.heads[p][i]] = p
      BY DEF Lists
    <3>. HIDE DEF P
    <3>. QED BY ZenonT(60), <2>1, <2>4, <3>1
  <2>6. \A u \in S \cup {t} : \E i \in DOMAIN h[pr[u]] : h[pr[u]][i] = u
    <3>1. ASSUME NEW u \in S PROVE \E i \in DOMAIN h[pr[u]] : h[pr[u]][i] = u
      <4>1. PICK i \in DOMAIN q.heads[pr[u]] : q.heads[pr[u]][i] = u
        BY DEF Lists
      <4>2. pr[u] \in Prio
        BY DEF Lists
      <4>3. CASE pr[u] = P
        BY <1>2, <2>1, <4>1, <4>3
      <4>4. CASE pr[u] # P
        BY <2>1, <4>1, <4>2, <4>4
      <4>. QED BY <4>3, <4>4
    <3>. QED BY <1>2, <2>1, <3>1
  <2>7. \A p \in Prio : \A i, j \in DOMAIN h[p] : h[p][i] = h[p][j] => i = j
    <3>1. \A p \in Prio \ {P} : \A i, j \in DOMAIN q.heads[p] :
             q.heads[p][i] = q.heads[p][j] => i = j
      BY DEF Lists
    <3>. HIDE DEF P
    <3>2. ASSUME NEW p \in Prio \ {P} PROVE \A i, j \in DOMAIN h[p] : h[p][i] = h[p][j] => i = j
      <4>1. h[p] = q.heads[p]
        BY <2>1
      <4>. QED BY <3>1, <4>1
    <3>3. \A i, j \in DOMAIN h[P] : h[P][i] = h[P][j] => i = j
      <4>1. h[P] = w
        BY <2>1
      <4>. QED BY <1>2, <4>1
    <3>. QED BY <3>2, <3>3
  <2>8. w # <<>>
    BY <1>2
  <2>9. r.bitmap = {p \in Prio : h[p] # <<>>}
    BY <2>1, <2>2, <2>8 DEF Lists
  <2>. QED BY SMTT(60), <2>2, <2>3, <2>5, <2>6, <2>7, <2>9 DEF Lists
<1>. HIDE DEF s
<1>3. Len(s) \in Nat /\ DOMAIN s = 1 .. Len(s) /\ \A i \in DOMAIN s : s[i] # t
  BY <1>1
<1>4. Lists(LinkHead(q, t, P), S \cup {t}, pr)
  <2>. DEFINE w == <<t>> \o s
  <2>1. /\ w \in Seq(Threads) /\ DOMAIN w = 1 .. Len(s) + 1 /\ w[1] = t
        /\ \A i \in 2 .. Len(s) + 1 : w[i] = s[i - 1]
    BY <1>1, <1>3
  <2>. HIDE DEF w
  <2>2. \A i \in DOMAIN w : w[i] = t \/ \E j \in DOMAIN s : w[i] = s[j]
    BY <1>3, <2>1
  <2>3. ASSUME NEW j \in DOMAIN s PROVE \E i \in DOMAIN w : w[i] = s[j]
    <3>1. j + 1 \in 2 .. Len(s) + 1 /\ (j + 1) - 1 = j /\ j + 1 \in DOMAIN w
      BY <1>3, <2>1
    <3>2. w[j + 1] = s[j]
      BY <2>1, <3>1
    <3>. QED BY <3>1, <3>2
  <2>4. 1 \in DOMAIN w /\ w[1] = t
    BY <1>3, <2>1
  <2>5. \A i, j \in DOMAIN w : w[i] = w[j] => i = j
    <3>1. ASSUME NEW i \in DOMAIN w, NEW j \in DOMAIN w, w[i] = w[j], i # 1, j # 1
          PROVE  i = j
      <4>1. /\ i \in 2 .. Len(s) + 1 /\ j \in 2 .. Len(s) + 1
            /\ i - 1 \in DOMAIN s /\ j - 1 \in DOMAIN s
        BY <1>3, <2>1, <3>1
      <4>2. i - 1 = j - 1
        BY <1>1, <2>1, <3>1, <4>1 DEF s
      <4>. QED BY <4>1, <4>2
    <3>2. \A i \in DOMAIN w : i # 1 => w[i] # t
      BY <1>3, <2>1
    <3>. QED BY <2>1, <3>1, <3>2
  <2>6. LinkHead(q, t, P) = [heads |-> [q.heads EXCEPT ![P] = w], bitmap |-> q.bitmap \cup {P},
                  count |-> q.count]
    BY DEF LinkHead, w, s
  <2>. QED BY <1>2, <2>1, <2>2, <2>3, <2>4, <2>5, <2>6
<1>5. Lists(LinkTail(q, t, P), S \cup {t}, pr)
  <2>. DEFINE w == Append(s, t)
  <2>1. /\ w \in Seq(Threads) /\ DOMAIN w = 1 .. Len(s) + 1 /\ w[Len(s) + 1] = t
        /\ \A i \in 1 .. Len(s) : w[i] = s[i]
    BY <1>1, <1>3
  <2>. HIDE DEF w
  <2>2. \A i \in DOMAIN w : w[i] = t \/ \E j \in DOMAIN s : w[i] = s[j]
    BY <1>3, <2>1
  <2>3. \A j \in DOMAIN s : \E i \in DOMAIN w : w[i] = s[j]
    BY <1>3, <2>1
  <2>4. \E i \in DOMAIN w : w[i] = t
    BY <1>3, <2>1
  <2>5. ASSUME NEW i \in DOMAIN w, NEW j \in DOMAIN w, w[i] = w[j]
        PROVE  i = j
    <3>1. \A x, y \in 1 .. Len(s) : s[x] = s[y] => x = y
      BY <1>1, <1>3 DEF s
    <3>2. \A x \in 1 .. Len(s) + 1 : x \in 1 .. Len(s) \/ x = Len(s) + 1
      BY <1>3
    <3>. QED BY <1>3, <2>1, <2>5, <3>1, <3>2
  <2>6. LinkTail(q, t, P) = [heads |-> [q.heads EXCEPT ![P] = w], bitmap |-> q.bitmap \cup {P},
                  count |-> q.count]
    BY DEF LinkTail, w, s
  <2>. QED BY <1>2, <2>1, <2>2, <2>3, <2>4, <2>5, <2>6
<1>6. LinkHead(q, t, P).count = q.count /\ LinkTail(q, t, P).count = q.count
  BY DEF LinkHead, LinkTail
<1>. QED BY <1>4, <1>5, <1>6

(* A thread leaves a queue, or joins it, and the count follows. *)
LEMMA CountedMoves ==
  ASSUME NEW q, NEW r, NEW S, NEW t, Counted(q, S), q.count \in Int
  PROVE  /\ t \in S /\ r.count = q.count - 1 => Counted(r, S \ {t})
         /\ t \notin S /\ r.count = q.count + 1 => Counted(r, S \cup {t})
         /\ S # {} <=> q.count > 0
<1>1. IsFiniteSet(S) /\ q.count = Cardinality(S) /\ Cardinality(S) \in Nat
  BY FS_CardinalityType DEF Counted
<1>2. S = {} <=> Cardinality(S) = 0
  BY <1>1, FS_EmptySet
<1>3. t \in S => IsFiniteSet(S \ {t}) /\ Cardinality(S \ {t}) = Cardinality(S) - 1
  BY <1>1, FS_RemoveElement
<1>4. t \notin S => IsFiniteSet(S \cup {t}) /\ Cardinality(S \cup {t}) = Cardinality(S) + 1
  BY <1>1, FS_AddElement
<1>. QED BY <1>1, <1>2, <1>3, <1>4 DEF Counted

(* The members of a queue. *)
LEMMA ListsOnQueue ==
  ASSUME NEW q, NEW S, NEW pr, Lists(q, S, pr)
  PROVE  OnQueue(q) = S
BY DEF OnQueue, Elements, Lists

----------------------------------------------------------------------------
(* The inductive invariant. *)

Status == Live \cup {"NEW", "ZOMBIE", "FREED"}

(* The types, with sequences and queues as such. *)
TypeCore ==
    /\ status \in [Tasks -> Status]
    /\ priority \in [Threads -> Prio]
    /\ wakeup_ticks \in [Threads -> 0 .. MaxTicks]
    /\ rcu_nesting \in [Threads -> {0, 1}]
    /\ pc \in [Threads -> {"body", "arm", "asleep", "park", "kick", "pi_kick"}]
    /\ kick_cpu \in [Threads -> Cpus]
    /\ outer \in [Tasks -> Seq(Tasks)]
    /\ DOMAIN runqueue = Cpus /\ DOMAIN zombiequeue = Cpus
    /\ current \in [Cpus -> Tasks] /\ next \in [Cpus -> Tasks]
    /\ need_resched \in [Cpus -> BOOLEAN]
    /\ preempt_count \in [Cpus -> {0, 1}]
    /\ active_pml4 \in [Cpus -> UserThreads \cup {KernelRoot}]
    /\ phase \in [Cpus -> {"body", "pick", "hook", "switch"}]
    /\ g_ticks \in 0 .. MaxTicks

Mine(c) == {t \in Threads : CpuOf(t) = c}

(* A dead thread that has yet to make its last __schedule(). *)
Leaving(c) == {t \in Mine(c) : /\ status[t] = "ZOMBIE"
                               /\ current[c] = t
                               /\ phase[c] \in {"body", "pick"}}

RunSet(c) == {t \in Mine(c) : status[t] \in Live} \cup Leaving(c)
ZomSet(c) == {t \in Mine(c) : status[t] = "ZOMBIE"} \ Leaving(c)

Queues ==
    \A c \in Cpus :
        /\ Lists(runqueue[c], RunSet(c), priority)
        /\ Counted(runqueue[c], RunSet(c))
        /\ Lists(zombiequeue[c], ZomSet(c), priority)
        /\ Counted(zombiequeue[c], ZomSet(c))

(* Tasks never leave their CPU, and idle threads never die. *)
Bound ==
    /\ \A c \in Cpus : status[c] \in {"READY", "RUNNING"}
    /\ \A c \in Cpus : CpuOf(current[c]) = c /\ CpuOf(next[c]) = c
    /\ \A u \in Tasks : \A i \in DOMAIN outer[u] : CpuOf(outer[u][i]) = CpuOf(u)

(* The current thread is alive, or dead on its way out: it holds no read   *)
(* section, goes straight to __schedule() and from there to idle.          *)
CurrentAlive ==
    \A c \in Cpus : current[c] \in Threads =>
        /\ status[current[c]] \in Live \cup {"ZOMBIE"}
        /\ status[current[c]] = "ZOMBIE" =>
              /\ rcu_nesting[current[c]] = 0
              /\ phase[c] = "body" => pc[current[c]] = "park"
              /\ phase[c] \in {"hook", "switch"} => next[c] = c

(* A thread that some __schedule() has chosen is RUNNING, is not yet       *)
(* current, and no other __schedule() has chosen it.                       *)
ChosenOnce ==
    /\ \A c \in Cpus : next[c] \in Threads =>
          /\ phase[c] \in {"hook", "switch"}
          /\ status[next[c]] = "RUNNING" /\ next[c] # current[c]
    /\ \A u \in Tasks : \A i \in DOMAIN outer[u] : outer[u][i] \in Threads =>
          /\ status[outer[u][i]] = "RUNNING"
          /\ outer[u][i] # current[CpuOf(u)] /\ outer[u][i] # next[CpuOf(u)]
          /\ \A v \in Tasks : \A j \in DOMAIN outer[v] :
                outer[u][i] = outer[v][j] => u = v /\ i = j

(* Only a reader is suspended inside __schedule(). *)
SuspendedReaders ==
    /\ \A u \in Tasks : outer[u] # <<>> => u \in Threads /\ rcu_nesting[u] = 1
    /\ \A c \in Cpus : phase[c] = "body" => outer[current[c]] = <<>>

(* The root in CR3 belongs to a live thread of this CPU, or to the dead    *)
(* one that is still current.                                              *)
RootInUse ==
    \A c \in Cpus : active_pml4[c] # KernelRoot =>
        /\ CpuOf(active_pml4[c]) = c
        /\ \/ status[active_pml4[c]] \in Live
           \/ status[active_pml4[c]] = "ZOMBIE" /\ current[c] = active_pml4[c]

SInv == /\ TypeCore /\ Queues /\ Bound /\ CurrentAlive /\ ChosenOnce
        /\ SuspendedReaders /\ RootInUse

(* Idle runs while the dead wait: as long as a CPU has one, it runs idle   *)
(* or another dead thread, and will switch to idle.                        *)
DeadMakeIdle ==
    \A c \in Cpus : \A t \in Threads : CpuOf(t) = c /\ status[t] = "ZOMBIE" =>
        /\ current[c] = c \/ status[current[c]] = "ZOMBIE"
        /\ phase[c] \in {"hook", "switch"} => next[c] = c

(* Task t has the CPU, or the __schedule() under way will give it to it. *)
Occupies(t) ==
    IF phase[CpuOf(t)] \in {"hook", "switch"} THEN t = next[CpuOf(t)]
    ELSE t = current[CpuOf(t)]

(* Without readers nothing is ever suspended, and what is RUNNING has the  *)
(* CPU or is about to get it.                                              *)
NoReaders ==
    "read" \notin ops =>
        /\ \A t \in Threads : rcu_nesting[t] = 0
        /\ \A t \in Tasks : status[t] = "RUNNING" => Occupies(t)

----------------------------------------------------------------------------
(* Steps that change no queue. *)

(* The CPU of a task. *)
LEMMA CpuOfTask ==
  /\ \A t \in Tasks : CpuOf(t) \in Cpus
  /\ \A c \in Cpus : CpuOf(c) = c /\ c \notin Threads /\ c \in Tasks
  /\ \A t \in Threads : t \in Tasks /\ t \notin Cpus
BY ThreadsAssumption, TargetAssumption DEF CpuOf, Tasks

(* The queues stay as they are while the sets of threads they hold do. *)
LEMMA QueuesKept ==
  ASSUME SInv, UNCHANGED <<runqueue, zombiequeue, priority>>,
         \A c \in Cpus : RunSet(c)' = RunSet(c) /\ ZomSet(c)' = ZomSet(c)
  PROVE  Queues'
BY DEF SInv, Queues

(* A step that moves threads between live states at most, lets CPUs go on  *)
(* inside __schedule() or enter it, and does not wake what is chosen.      *)
LEMMA ThreadStep ==
  ASSUME SInv, TypeCore',
         UNCHANGED <<priority, runqueue, zombiequeue, outer, current, next, active_pml4>>,
         \A v \in Threads : \/ status'[v] = status[v]
                            \/ /\ status[v] \in Live /\ status'[v] \in Live
                               /\ v = current[CpuOf(v)] \/ status[v] # "RUNNING",
         \A c \in Cpus : status'[c] = status[c],
         \A c \in Cpus : \/ phase'[c] = phase[c]
                         \/ phase[c] = "body" /\ phase'[c] = "pick"
                         \/ phase[c] = "hook" /\ phase'[c] = "switch",
         \A v \in Threads : \/ pc'[v] = pc[v] \/ status[v] # "ZOMBIE"
                            \/ phase'[CpuOf(v)] # "body",
         \A v \in Threads : \/ rcu_nesting'[v] = rcu_nesting[v]
                            \/ outer[v] = <<>> /\ status[v] # "ZOMBIE"
  PROVE  SInv'
<1>1. \A v \in Threads : /\ status'[v] = "ZOMBIE" <=> status[v] = "ZOMBIE"
                         /\ status'[v] \in Live <=> status[v] \in Live
  BY DEF Live
<1>2. \A c \in Cpus : phase'[c] \in {"body", "pick"} <=> phase[c] \in {"body", "pick"}
  BY DEF SInv, TypeCore
<1>3. \A c \in Cpus : RunSet(c)' = RunSet(c) /\ ZomSet(c)' = ZomSet(c)
  <2>1. \A c \in Cpus : Mine(c)' = Mine(c) /\ Mine(c) \subseteq Threads
    BY DEF Mine
  <2>2. \A c \in Cpus : Leaving(c)' = Leaving(c)
    BY <1>1, <1>2, <2>1 DEF Leaving
  <2>. QED BY <1>1, <2>1, <2>2 DEF RunSet, ZomSet
<1>4. Queues'
  BY <1>3, QueuesKept
<1>5. Bound'
  BY DEF SInv, Bound, CpuOf
<1>6. CurrentAlive'
  <2>1. ASSUME NEW c \in Cpus, current[c] \in Threads
        PROVE  /\ status'[current[c]] \in Live \cup {"ZOMBIE"}
               /\ status'[current[c]] = "ZOMBIE" =>
                     /\ rcu_nesting'[current[c]] = 0
                     /\ phase'[c] = "body" => pc'[current[c]] = "park"
                     /\ phase'[c] \in {"hook", "switch"} => next[c] = c
    <3>1. CpuOf(current[c]) = c
      BY DEF SInv, Bound
    <3>2. status'[current[c]] \in Live \cup {"ZOMBIE"}
      BY <1>1, <2>1 DEF SInv, CurrentAlive
    <3>3. ASSUME status'[current[c]] = "ZOMBIE"
          PROVE  /\ rcu_nesting'[current[c]] = 0
                 /\ phase'[c] = "body" => pc'[current[c]] = "park"
                 /\ phase'[c] \in {"hook", "switch"} => next[c] = c
      <4>1. status[current[c]] = "ZOMBIE"
        BY <1>1, <2>1, <3>3
      <4>2. rcu_nesting'[current[c]] = 0
        BY <2>1, <4>1 DEF SInv, CurrentAlive
      <4>3. phase'[c] = "body" => pc'[current[c]] = "park"
        BY <2>1, <3>1, <4>1 DEF SInv, CurrentAlive
      <4>. QED BY <2>1, <4>1, <4>2, <4>3 DEF SInv, CurrentAlive
    <3>. QED BY <3>2, <3>3
  <2>. QED BY <2>1 DEF CurrentAlive
<1>7. ChosenOnce'
  <2>1. ASSUME NEW c \in Cpus, next[c] \in Threads
        PROVE  /\ phase'[c] \in {"hook", "switch"}
               /\ status'[next[c]] = "RUNNING" /\ next[c] # current[c]
    <3>1. CpuOf(next[c]) = c
      BY DEF SInv, Bound
    <3>. QED BY <2>1, <3>1 DEF SInv, ChosenOnce
  <2>2. ASSUME NEW u \in Tasks, NEW i \in DOMAIN outer[u], outer[u][i] \in Threads
        PROVE  status'[outer[u][i]] = "RUNNING"
    <3>1. CpuOf(outer[u][i]) = CpuOf(u)
      BY DEF SInv, Bound
    <3>. QED BY <2>2, <3>1 DEF SInv, ChosenOnce
  <2>3. \A t : CpuOf(t)' = CpuOf(t)
    BY DEF CpuOf
  <2>. QED BY <2>1, <2>2, <2>3 DEF SInv, ChosenOnce
<1>8. SuspendedReaders'
  BY DEF SInv, SuspendedReaders
<1>9. RootInUse'
  <2>1. \A c \in Cpus : active_pml4[c] # KernelRoot => active_pml4[c] \in Threads
    BY UserAssumption DEF SInv, TypeCore
  <2>2. \A t : CpuOf(t)' = CpuOf(t)
    BY DEF CpuOf
  <2>. QED BY <1>1, <2>1, <2>2 DEF SInv, RootInUse
<1>. QED BY <1>4, <1>5, <1>6, <1>7, <1>8, <1>9 DEF SInv

(* What is known of a thread that executes its own code. *)
LEMMA AtFacts ==
  ASSUME SInv, NEW t \in Threads, NEW label, At(t, label)
  PROVE  /\ CpuOf(t) \in Cpus /\ current[CpuOf(t)] = t /\ phase[CpuOf(t)] = "body"
         /\ pc[t] = label /\ outer[t] = <<>>
         /\ status[t] \in Live \cup {"ZOMBIE"}
         /\ label # "park" => status[t] \in Live /\ status[t] # "ZOMBIE"
<1>1. /\ CpuOf(t) \in Cpus /\ current[CpuOf(t)] = t /\ phase[CpuOf(t)] = "body" /\ pc[t] = label
  BY CpuOfTask DEF At, Tasks
<1>2. outer[t] = <<>>
  BY <1>1 DEF SInv, SuspendedReaders
<1>3. /\ status[t] \in Live \cup {"ZOMBIE"}
      /\ status[t] = "ZOMBIE" => pc[t] = "park"
  BY <1>1 DEF SInv, CurrentAlive
<1>. QED BY <1>1, <1>2, <1>3 DEF Live

(* The steps of a thread, and of interrupts, that only do that. *)
LEMMA LocalSteps ==
  ASSUME SInv, NEW t \in Threads,
         \/ schedule(t) \/ schedule_timeout(t) \/ TimeoutReturn(t)
         \/ \E n \in 1 .. MaxTicks : ArmTimeout(t, n)
         \/ Block(t) \/ Park(t)
         \/ preempt_disable(t) \/ preempt_enable(t)
         \/ rcu_read_lock(t) \/ rcu_read_unlock(t)
         \/ ipi_reschedule_cpu(t)
  PROVE  SInv'
<1>. DEFINE c == CpuOf(t)
<1>0. /\ status \in [Tasks -> Status] /\ phase \in [Cpus -> {"body", "pick", "hook", "switch"}]
      /\ pc \in [Threads -> {"body", "arm", "asleep", "park", "kick", "pi_kick"}]
      /\ rcu_nesting \in [Threads -> {0, 1}]
      /\ t \in Tasks /\ c \in Cpus /\ \A d \in Cpus : d \notin Threads
  BY CpuOfTask DEF SInv, TypeCore
<1>1. CASE schedule(t)
  <2>1. TypeCore'
    BY <1>1, CpuOfTask DEF SInv, TypeCore, schedule, Enter, threadVars, queues, Tasks
  <2>2. /\ UNCHANGED <<status, pc, rcu_nesting, priority, runqueue, zombiequeue, outer, current, next, active_pml4>>
        /\ phase' = [phase EXCEPT ![c] = "pick"] /\ phase[c] = "body"
    BY <1>1, AtFacts DEF schedule, Enter, threadVars, queues
  <2>. QED BY <1>0, <2>1, <2>2, ThreadStep
<1>2. CASE schedule_timeout(t)
  <2>1. TypeCore'
    BY <1>2, CpuOfTask DEF SInv, TypeCore, schedule_timeout, SetStatus, Goto, cpuVars, queues, Tasks, Status, Live
  <2>2. /\ UNCHANGED <<phase, rcu_nesting, priority, runqueue, zombiequeue, outer, current, next, active_pml4>>
        /\ status' = [status EXCEPT ![t] = "SLEEPING"] /\ pc' = [pc EXCEPT ![t] = "arm"]
        /\ current[c] = t /\ status[t] \in Live /\ status[t] # "ZOMBIE"
    BY <1>2, AtFacts DEF schedule_timeout, SetStatus, Goto, cpuVars, queues
  <2>. QED BY <1>0, <2>1, <2>2, ThreadStep DEF Live
<1>3. CASE TimeoutReturn(t)
  <2>1. TypeCore'
    BY <1>3, CpuOfTask DEF SInv, TypeCore, TimeoutReturn, Goto, cpuVars, queues, Tasks
  <2>2. /\ UNCHANGED <<status, phase, rcu_nesting, priority, runqueue, zombiequeue, outer, current, next, active_pml4>>
        /\ pc' = [pc EXCEPT ![t] = "body"] /\ status[t] # "ZOMBIE"
    BY <1>3, AtFacts DEF TimeoutReturn, Goto, cpuVars, queues
  <2>. QED BY <1>0, <2>1, <2>2, ThreadStep
<1>4. CASE \E n \in 1 .. MaxTicks : ArmTimeout(t, n)
  <2>0. PICK n \in 1 .. MaxTicks : ArmTimeout(t, n)
    BY <1>4
  <2>1. TypeCore'
    <3>1. g_ticks + n \in 0 .. MaxTicks
      BY <2>0, MaxTicksAssumption DEF ArmTimeout, SInv, TypeCore
    <3>. QED BY <2>0, <3>1, CpuOfTask DEF SInv, TypeCore, ArmTimeout, Enter, Goto, queues, Tasks
  <2>2. /\ UNCHANGED <<status, rcu_nesting, priority, runqueue, zombiequeue, outer, current, next, active_pml4>>
        /\ phase' = [phase EXCEPT ![c] = "pick"] /\ phase[c] = "body"
        /\ pc' = [pc EXCEPT ![t] = "asleep"] /\ status[t] # "ZOMBIE"
    BY <2>0, AtFacts DEF ArmTimeout, Enter, Goto, queues
  <2>. QED BY <1>0, <2>1, <2>2, ThreadStep
<1>5. CASE Block(t)
  <2>1. TypeCore'
    BY <1>5, CpuOfTask DEF SInv, TypeCore, Block, SetStatus, Goto, cpuVars, queues, Tasks, Status, Live
  <2>2. /\ UNCHANGED <<phase, rcu_nesting, priority, runqueue, zombiequeue, outer, current, next, active_pml4>>
        /\ status' = [status EXCEPT ![t] = "BLOCKED"] /\ pc' = [pc EXCEPT ![t] = "park"]
        /\ current[c] = t /\ status[t] \in Live /\ status[t] # "ZOMBIE"
    BY <1>5, AtFacts DEF Block, SetStatus, Goto, cpuVars, queues
  <2>. QED BY <1>0, <2>1, <2>2, ThreadStep DEF Live
<1>6. CASE Park(t)
  <2>1. TypeCore'
    BY <1>6, CpuOfTask DEF SInv, TypeCore, Park, Enter, Goto, queues, Tasks
  <2>2. /\ UNCHANGED <<status, rcu_nesting, priority, runqueue, zombiequeue, outer, current, next, active_pml4>>
        /\ phase' = [phase EXCEPT ![c] = "pick"] /\ phase[c] = "body"
        /\ pc' = [pc EXCEPT ![t] = "body"]
    BY <1>6, AtFacts DEF Park, Enter, Goto, queues
  <2>. QED BY <1>0, <2>1, <2>2, ThreadStep
<1>7. CASE preempt_disable(t)
  <2>1. TypeCore'
    BY <1>7, CpuOfTask DEF SInv, TypeCore, preempt_disable, threadVars, queues, Tasks
  <2>2. UNCHANGED <<status, pc, phase, rcu_nesting, priority, runqueue, zombiequeue, outer, current, next, active_pml4>>
    BY <1>7 DEF preempt_disable, threadVars, queues
  <2>. QED BY <1>0, <2>1, <2>2, ThreadStep
<1>8. CASE preempt_enable(t)
  <2>1. TypeCore'
    <3>1. preempt_count[c] \in {0, 1} /\ preempt_count[c] > 0
          /\ preempt_count' = [preempt_count EXCEPT ![c] = preempt_count[c] - 1]
      BY <1>0, <1>8 DEF SInv, TypeCore, preempt_enable
    <3>2. preempt_count' \in [Cpus -> {0, 1}]
      <4>1. preempt_count[c] - 1 \in {0, 1}
        BY <3>1
      <4>. QED BY <3>1, <4>1 DEF SInv, TypeCore
    <3>3. need_resched' \in [Cpus -> BOOLEAN] /\ phase' \in [Cpus -> {"body", "pick", "hook", "switch"}]
      BY <1>8 DEF SInv, TypeCore, preempt_enable, Enter
    <3>. QED BY <1>8, <3>2, <3>3 DEF SInv, TypeCore, preempt_enable, threadVars, queues
  <2>2. /\ UNCHANGED <<status, pc, rcu_nesting, priority, runqueue, zombiequeue, outer, current, next, active_pml4>>
        /\ phase' = phase \/ phase' = [phase EXCEPT ![c] = "pick"]
        /\ phase[c] = "body"
    BY <1>8, AtFacts DEF preempt_enable, Enter, threadVars, queues
  <2>. QED BY <1>0, <2>1, <2>2, ThreadStep
<1>9. CASE rcu_read_lock(t) \/ rcu_read_unlock(t)
  <2>1. TypeCore'
    BY <1>9, CpuOfTask DEF SInv, TypeCore, rcu_read_lock, rcu_read_unlock, cpuVars, queues, Tasks
  <2>2. /\ UNCHANGED <<status, pc, phase, priority, runqueue, zombiequeue, outer, current, next, active_pml4>>
        /\ rcu_nesting' = [rcu_nesting EXCEPT ![t] = 1] \/ rcu_nesting' = [rcu_nesting EXCEPT ![t] = 0]
        /\ status[t] # "ZOMBIE" /\ outer[t] = <<>>
    BY <1>9, AtFacts DEF rcu_read_lock, rcu_read_unlock, cpuVars, queues
  <2>. QED BY <1>0, <2>1, <2>2, ThreadStep
<1>10. CASE ipi_reschedule_cpu(t)
  <2>1. TypeCore'
    BY <1>10, CpuOfTask, BspAssumption DEF SInv, TypeCore, ipi_reschedule_cpu, Goto, queues, Tasks
  <2>2. /\ UNCHANGED <<status, phase, rcu_nesting, priority, runqueue, zombiequeue, outer, current, next, active_pml4>>
        /\ pc' = [pc EXCEPT ![t] = "body"] /\ status[t] # "ZOMBIE"
    BY <1>10, AtFacts DEF ipi_reschedule_cpu, Goto, queues
  <2>. QED BY <1>0, <2>1, <2>2, ThreadStep
<1>. QED BY <1>1, <1>2, <1>3, <1>4, <1>5, <1>6, <1>7, <1>8, <1>9, <1>10

(* Interrupts, the idle loop and the RCU hook that is not preempted. *)
LEMMA InterruptSteps ==
  ASSUME SInv, NEW c \in Cpus,
         \/ \E slice \in BOOLEAN : Tick(c, slice)
         \/ IrqReturn(c) \/ IdleLoop(c) \/ Hook(c)
  PROVE  SInv'
<1>0. phase \in [Cpus -> {"body", "pick", "hook", "switch"}] /\ g_ticks \in 0 .. MaxTicks
  BY DEF SInv, TypeCore
<1>1. CASE \E slice \in BOOLEAN : Tick(c, slice)
  <2>0. PICK slice \in BOOLEAN : Tick(c, slice)
    BY <1>1
  <2>1. TypeCore'
    <3>1. g_ticks' \in 0 .. MaxTicks
      BY <1>0, <2>0, MaxTicksAssumption DEF Tick
    <3>2. need_resched' \in [Cpus -> BOOLEAN]
      <4>1. (need_resched[c] \/ slice) \in BOOLEAN
        OBVIOUS
      <4>. QED BY <2>0, <4>1 DEF Tick, SInv, TypeCore
    <3>. QED BY <2>0, <3>1, <3>2 DEF SInv, TypeCore, Tick, threadVars, queues
  <2>2. UNCHANGED <<status, pc, phase, rcu_nesting, priority, runqueue, zombiequeue, outer, current, next, active_pml4>>
    BY <2>0 DEF Tick, threadVars, queues
  <2>. QED BY <2>1, <2>2, ThreadStep
<1>2. CASE IrqReturn(c)
  <2>1. TypeCore'
    BY <1>2 DEF SInv, TypeCore, IrqReturn, Enter, threadVars, queues
  <2>2. /\ UNCHANGED <<status, pc, rcu_nesting, priority, runqueue, zombiequeue, outer, current, next, active_pml4>>
        /\ phase' = [phase EXCEPT ![c] = "pick"] /\ phase[c] = "body"
    BY <1>2 DEF IrqReturn, Enter, IrqsOn, threadVars, queues
  <2>. QED BY <1>0, <2>1, <2>2, ThreadStep
<1>3. CASE Hook(c)
  <2>1. TypeCore'
    BY <1>3 DEF SInv, TypeCore, Hook, threadVars, queues
  <2>2. /\ UNCHANGED <<status, pc, rcu_nesting, priority, runqueue, zombiequeue, outer, current, next, active_pml4>>
        /\ phase' = [phase EXCEPT ![c] = "switch"] /\ phase[c] = "hook"
    BY <1>3 DEF Hook, threadVars, queues
  <2>. QED BY <1>0, <2>1, <2>2, ThreadStep
<1>4. CASE IdleLoop(c)
  <2>1. TypeCore'
    BY <1>4 DEF SInv, TypeCore, IdleLoop, Enter, threadVars, queues
  <2>2. /\ UNCHANGED <<status, pc, rcu_nesting, priority, runqueue, zombiequeue, outer, current, next, active_pml4>>
        /\ phase' = [phase EXCEPT ![c] = "pick"] /\ phase[c] = "body"
    BY <1>4 DEF IdleLoop, Enter, threadVars, queues
  <2>. QED BY <1>0, <2>1, <2>2, ThreadStep
<1>. QED BY <1>1, <1>2, <1>3, <1>4

(* A BLOCKED thread is made READY, by an interrupt or by another thread.   *)
LEMMA WakeSteps ==
  ASSUME SInv, NEW w \in Threads,
         \/ \E c \in Cpus : IrqWake(c, w)
         \/ \E t \in Threads : __wake_up_one(t, w)
  PROVE  SInv'
<1>0. status \in [Tasks -> Status] /\ w \in Tasks /\ (\A d \in Cpus : d \notin Threads)
      /\ CpuOf(w) \in Cpus
  BY CpuOfTask DEF SInv, TypeCore
<1>1. /\ UNCHANGED <<pc, phase, rcu_nesting, priority, runqueue, zombiequeue, outer, current, next, active_pml4>>
      /\ UNCHANGED <<wakeup_ticks, kick_cpu, preempt_count, g_ticks>>
      /\ status[w] = "BLOCKED" /\ status' = [status EXCEPT ![w] = "READY"]
      /\ need_resched' = need_resched \/ need_resched' = [need_resched EXCEPT ![CpuOf(w)] = TRUE]
  BY DEF IrqWake, __wake_up_one, SetStatus, cpuVars, queues
<1>2. TypeCore'
  BY <1>0, <1>1 DEF SInv, TypeCore, Status, Live
<1>. QED BY <1>0, <1>1, <1>2, ThreadStep DEF Live

(* A step of one thread that leaves CPUs and the suspended calls alone,    *)
(* and takes no chosen thread's RUNNING away.                              *)
LEMMA CallsKept ==
  ASSUME SInv, UNCHANGED <<outer, current, next, phase, rcu_nesting>>,
         \A c \in Cpus : status'[c] = status[c],
         \A v \in Threads : status'[v] # status[v] =>
             v = current[CpuOf(v)] \/ status[v] # "RUNNING"
  PROVE  Bound' /\ ChosenOnce' /\ SuspendedReaders'
<1>0. \A t : CpuOf(t)' = CpuOf(t)
  BY DEF CpuOf
<1>1. Bound'
  BY <1>0 DEF SInv, Bound
<1>2. ChosenOnce'
  <2>1. ASSUME NEW c \in Cpus, next[c] \in Threads
        PROVE  status'[next[c]] = "RUNNING"
    <3>1. CpuOf(next[c]) = c
      BY DEF SInv, Bound
    <3>. QED BY <2>1, <3>1 DEF SInv, ChosenOnce
  <2>2. ASSUME NEW u \in Tasks, NEW i \in DOMAIN outer[u], outer[u][i] \in Threads
        PROVE  status'[outer[u][i]] = "RUNNING"
    <3>1. CpuOf(outer[u][i]) = CpuOf(u)
      BY DEF SInv, Bound
    <3>. QED BY <2>2, <3>1 DEF SInv, ChosenOnce
  <2>. QED BY <1>0, <2>1, <2>2 DEF SInv, ChosenOnce
<1>3. SuspendedReaders'
  BY DEF SInv, SuspendedReaders
<1>. QED BY <1>1, <1>2, <1>3

(* thread_exit: the dead thread is still on the run queue, and current.    *)
LEMMA ExitStep ==
  ASSUME SInv, NEW t \in Threads, thread_exit(t)
  PROVE  SInv'
<1>. DEFINE c == CpuOf(t)
<1>0. /\ status \in [Tasks -> Status] /\ pc \in [Threads -> {"body", "arm", "asleep", "park", "kick", "pi_kick"}]
      /\ t \in Tasks /\ (\A d \in Cpus : d \notin Threads) /\ c \in Cpus
      /\ \A v \in Threads : v \in Tasks
  BY CpuOfTask DEF SInv, TypeCore
<1>1. /\ UNCHANGED <<phase, rcu_nesting, priority, runqueue, zombiequeue, outer, current, next, active_pml4>>
      /\ status' = [status EXCEPT ![t] = "ZOMBIE"] /\ pc' = [pc EXCEPT ![t] = "park"]
      /\ current[c] = t /\ status[t] \in Live /\ phase[c] = "body" /\ rcu_nesting[t] = 0
  BY AtFacts DEF thread_exit, SetStatus, Goto, MaySchedule, cpuVars, queues
<1>2. TypeCore'
  BY <1>0, <1>1 DEF SInv, TypeCore, thread_exit, Status, cpuVars
<1>3. ASSUME NEW d \in Cpus
      PROVE  RunSet(d)' = RunSet(d) /\ ZomSet(d)' = ZomSet(d)
  <2>1. Mine(d)' = Mine(d) /\ Mine(d) \subseteq Threads /\ t \in Mine(c) /\ (d # c => t \notin Mine(d))
    BY DEF Mine
  <2>2. CASE d = c
    <3>1. Leaving(c)' = {t}
      BY <1>0, <1>1, <2>1 DEF Leaving, Mine
    <3>2. Leaving(c) = {}
      BY <1>0, <1>1, <2>1 DEF Leaving, Live
    <3>. QED BY <1>0, <1>1, <2>1, <2>2, <3>1, <3>2 DEF RunSet, ZomSet, Live
  <2>3. CASE d # c
    <3>1. Leaving(d)' = Leaving(d)
      BY <1>0, <1>1, <2>1, <2>3 DEF Leaving
    <3>. QED BY <1>0, <1>1, <2>1, <2>3, <3>1 DEF RunSet, ZomSet
  <2>. QED BY <2>2, <2>3
<1>4. Queues'
  BY <1>1, <1>3, QueuesKept
<1>5. Bound' /\ ChosenOnce' /\ SuspendedReaders'
  BY <1>0, <1>1, CallsKept
<1>6. CurrentAlive'
  <2>1. \A d \in Cpus : current[d] = t => d = c
    BY DEF SInv, Bound
  <2>. QED BY <1>0, <1>1, <2>1 DEF SInv, CurrentAlive
<1>7. RootInUse'
  <2>1. \A d \in Cpus : active_pml4[d] # KernelRoot => active_pml4[d] \in Threads
    BY UserAssumption DEF SInv, TypeCore
  <2>2. \A u : CpuOf(u)' = CpuOf(u)
    BY DEF CpuOf
  <2>. QED BY <1>0, <1>1, <2>1, <2>2 DEF SInv, RootInUse
<1>. QED BY <1>2, <1>4, <1>5, <1>6, <1>7 DEF SInv

(* A queue with its count changed. *)
LEMMA CountChange ==
  ASSUME NEW q, NEW S, NEW pr, NEW n \in Int, Lists(q, S, pr)
  PROVE  Lists([q EXCEPT !.count = n], S, pr) /\ [q EXCEPT !.count = n].count = n
<1>. DEFINE r == [q EXCEPT !.count = n]
<1>1. r \in [heads : [Prio -> Seq(Threads)], bitmap : SUBSET Prio, count : Int]
      /\ r.heads = q.heads /\ r.bitmap = q.bitmap /\ r.count = n
  BY DEF Lists
<1>. HIDE DEF r
<1>2. Lists(r, S, pr)
  BY <1>1 DEF Lists
<1>. QED BY <1>1, <1>2 DEF r

(* cpu_enqueue and cpu_enqueue_tail. *)
LEMMA EnqueueLists ==
  ASSUME NEW q, NEW S, NEW t \in Threads \ S, priority \in [Threads -> Prio],
         Lists(q, S, priority), Counted(q, S)
  PROVE  /\ Lists(runqueue_enqueue_raw(q, t), S \cup {t}, priority)
         /\ Counted(runqueue_enqueue_raw(q, t), S \cup {t})
         /\ Lists(runqueue_enqueue_tail_raw(q, t), S \cup {t}, priority)
         /\ Counted(runqueue_enqueue_tail_raw(q, t), S \cup {t})
<1>1. q.count \in Int /\ q.count + 1 \in Int
  BY DEF Lists
<1>2. /\ Lists(LinkHead(q, t, priority[t]), S \cup {t}, priority)
      /\ Lists(LinkTail(q, t, priority[t]), S \cup {t}, priority)
      /\ LinkHead(q, t, priority[t]).count = q.count
      /\ LinkTail(q, t, priority[t]).count = q.count
  BY LinkLists
<1>3. /\ runqueue_enqueue_raw(q, t) = [LinkHead(q, t, priority[t]) EXCEPT !.count = q.count + 1]
      /\ runqueue_enqueue_tail_raw(q, t) = [LinkTail(q, t, priority[t]) EXCEPT !.count = q.count + 1]
  BY <1>2 DEF runqueue_enqueue_raw, runqueue_enqueue_tail_raw
<1>4. /\ Lists(runqueue_enqueue_raw(q, t), S \cup {t}, priority)
      /\ Lists(runqueue_enqueue_tail_raw(q, t), S \cup {t}, priority)
      /\ runqueue_enqueue_raw(q, t).count = q.count + 1
      /\ runqueue_enqueue_tail_raw(q, t).count = q.count + 1
  BY <1>1, <1>2, <1>3, CountChange
<1>. QED BY <1>1, <1>4, CountedMoves

----------------------------------------------------------------------------
(* Spawning, changing priority, reaping. *)

(* Spawning: the new thread joins the run queue of its CPU. *)
LEMMA SpawnStep ==
  ASSUME SInv, NEW t \in Threads, NEW new \in Threads, NEW tail \in BOOLEAN, Spawn(t, new, tail)
  PROVE  SInv'
<1>. DEFINE c == CpuOf(new)
<1>0. /\ status \in [Tasks -> Status] /\ pc \in [Threads -> {"body", "arm", "asleep", "park", "kick", "pi_kick"}]
      /\ new \in Tasks /\ (\A d \in Cpus : d \notin Threads) /\ c \in Cpus
      /\ \A v \in Threads : v \in Tasks
  BY CpuOfTask DEF SInv, TypeCore
<1>1. /\ UNCHANGED <<phase, rcu_nesting, priority, zombiequeue, outer, current, next, active_pml4>>
      /\ status' = [status EXCEPT ![new] = "READY"] /\ pc' = [pc EXCEPT ![t] = "kick"]
      /\ status[new] = "NEW" /\ status[t] # "ZOMBIE"
      /\ runqueue' = [runqueue EXCEPT ![c] =
                          IF tail THEN runqueue_enqueue_tail_raw(runqueue[c], new)
                          ELSE runqueue_enqueue_raw(runqueue[c], new)]
  BY AtFacts DEF Spawn, SetStatus, Goto, cpuVars
<1>2. TypeCore'
  BY <1>0, <1>1 DEF SInv, TypeCore, Spawn, Status, Live, cpuVars
<1>3. ASSUME NEW d \in Cpus
      PROVE  /\ ZomSet(d)' = ZomSet(d)
             /\ RunSet(d)' = IF d = c THEN RunSet(d) \cup {new} ELSE RunSet(d)
  <2>1. Mine(d)' = Mine(d) /\ Mine(d) \subseteq Threads /\ (d = c <=> new \in Mine(d))
    BY DEF Mine
  <2>2. Leaving(d)' = Leaving(d)
    BY <1>0, <1>1, <2>1 DEF Leaving
  <2>. QED BY <1>0, <1>1, <2>1, <2>2 DEF RunSet, ZomSet, Live
<1>4. new \notin RunSet(c)
  BY <1>1 DEF RunSet, Leaving, Live
<1>5. Queues'
  <2>1. /\ Lists(runqueue'[c], RunSet(c) \cup {new}, priority)
        /\ Counted(runqueue'[c], RunSet(c) \cup {new})
    <3>1. runqueue'[c] = runqueue_enqueue_tail_raw(runqueue[c], new)
          \/ runqueue'[c] = runqueue_enqueue_raw(runqueue[c], new)
      BY <1>0, <1>1 DEF SInv, TypeCore
    <3>2. /\ priority \in [Threads -> Prio] /\ Lists(runqueue[c], RunSet(c), priority)
          /\ Counted(runqueue[c], RunSet(c))
      BY <1>0 DEF SInv, TypeCore, Queues
    <3>. QED BY <1>4, <3>1, <3>2, EnqueueLists
  <2>2. \A d \in Cpus \ {c} : runqueue'[d] = runqueue[d]
    BY <1>1 DEF SInv, TypeCore
  <2>. HIDE DEF c
  <2>3. ASSUME NEW d \in Cpus
        PROVE  /\ Lists(runqueue'[d], RunSet(d)', priority')
               /\ Counted(runqueue'[d], RunSet(d)')
               /\ Lists(zombiequeue'[d], ZomSet(d)', priority')
               /\ Counted(zombiequeue'[d], ZomSet(d)')
    BY <1>1, <1>3, <2>1, <2>2 DEF SInv, Queues
  <2>. QED BY <2>3 DEF Queues
<1>6. Bound' /\ ChosenOnce' /\ SuspendedReaders'
  BY <1>0, <1>1, CallsKept
<1>7. CurrentAlive'
  <2>1. \A d \in Cpus : current[d] # new
    BY <1>1 DEF SInv, CurrentAlive, Live
  <2>. QED BY <1>0, <1>1, <2>1 DEF SInv, CurrentAlive
<1>8. RootInUse'
  <2>1. \A d \in Cpus : active_pml4[d] # KernelRoot => active_pml4[d] \in Threads /\ active_pml4[d] # new
    BY ZenonT(60), <1>1, UserAssumption DEF SInv, TypeCore, RootInUse, Live
  <2>2. \A u : CpuOf(u)' = CpuOf(u)
    BY DEF CpuOf
  <2>. QED BY <1>0, <1>1, <2>1, <2>2 DEF SInv, RootInUse
<1>. QED BY <1>2, <1>5, <1>6, <1>7, <1>8 DEF SInv

(* A thread's node moves to the tail of the list of its new priority. *)
LEMMA RelinkLists ==
  ASSUME NEW q, NEW S, NEW u \in S, NEW pr, NEW qr, Lists(q, S, pr), Counted(q, S),
         \A v \in S \ {u} : qr[v] = pr[v], qr[u] \in Prio
  PROVE  /\ Lists(LinkTail(Unlink(q, u, pr[u]), u, qr[u]), S, qr)
         /\ Counted(LinkTail(Unlink(q, u, pr[u]), u, qr[u]), S)
<1>. DEFINE r == Unlink(q, u, pr[u])
            R == S \ {u}
<1>1. u \in Threads \ R /\ R \cup {u} = S
  BY DEF Lists
<1>2. Lists(r, R, pr) /\ r.count = q.count
  BY ZenonT(60), UnlinkLists
<1>3. \A v \in R : qr[v] = pr[v]
  OBVIOUS
<1>. HIDE DEF r, R
<1>4. Lists(r, R, qr)
  BY <1>2, <1>3, ListsReprio
<1>5. /\ Lists(LinkTail(r, u, qr[u]), R \cup {u}, qr)
      /\ LinkTail(r, u, qr[u]).count = r.count
  BY <1>1, <1>4, LinkLists
<1>. QED BY <1>1, <1>2, <1>5 DEF r, Counted

(* A thread's node follows its priority. *)
LEMMA RequeueLists ==
  ASSUME NEW q, NEW S, NEW u \in S, NEW p \in Prio, NEW pr,
         Lists(q, S, priority), Counted(q, S),
         pr[u] = p, \A v \in S \ {u} : pr[v] = priority[v]
  PROVE  Lists(Requeue(q, u, p), S, pr) /\ Counted(Requeue(q, u, p), S)
<1>1. Requeue(q, u, p) = LinkTail(Unlink(q, u, priority[u]), u, pr[u])
  BY DEF Requeue
<1>. QED BY <1>1, RelinkLists

(* thread_apply_effective_priority, on a thread in any live state. *)
LEMMA PriorityStep ==
  ASSUME SInv, NEW t \in Threads, NEW u \in Threads, NEW p \in Prio,
         thread_apply_effective_priority(t, u, p)
  PROVE  SInv'
<1>. DEFINE c == CpuOf(u)
<1>0. /\ status \in [Tasks -> Status] /\ pc \in [Threads -> {"body", "arm", "asleep", "park", "kick", "pi_kick"}]
      /\ (\A d \in Cpus : d \notin Threads) /\ c \in Cpus
  BY CpuOfTask DEF SInv, TypeCore
<1>1. /\ UNCHANGED <<phase, rcu_nesting, status, zombiequeue, outer, current, next, active_pml4>>
      /\ pc' = [pc EXCEPT ![t] = "pi_kick"] /\ priority' = [priority EXCEPT ![u] = p]
      /\ status[u] \in Live /\ status[t] # "ZOMBIE"
      /\ runqueue' = [runqueue EXCEPT ![c] = Requeue(runqueue[c], u, p)]
  BY AtFacts DEF thread_apply_effective_priority, Goto, cpuVars, Live
<1>2. TypeCore'
  BY SMTT(60), <1>0, <1>1 DEF SInv, TypeCore, thread_apply_effective_priority, Status, Live, cpuVars
<1>3. ASSUME NEW d \in Cpus
      PROVE  /\ ZomSet(d)' = ZomSet(d) /\ RunSet(d)' = RunSet(d)
             /\ u \notin ZomSet(d)
             /\ u \in RunSet(d) <=> d = c
  <2>1. Mine(d)' = Mine(d) /\ (d = c <=> u \in Mine(d)) /\ Mine(d) \subseteq Threads
    BY DEF Mine
  <2>2. Leaving(d)' = Leaving(d) /\ Leaving(d) \subseteq Mine(d)
    BY <1>1, <2>1 DEF Leaving
  <2>. QED BY <1>1, <2>1, <2>2 DEF RunSet, ZomSet, Live
<1>5. Queues'
  <2>1. priority \in [Threads -> Prio] /\ priority' \in [Threads -> Prio]
    BY <1>2 DEF SInv, TypeCore
  <2>2. /\ Lists(runqueue'[c], RunSet(c), priority')
        /\ Counted(runqueue'[c], RunSet(c))
    <3>1. runqueue'[c] = Requeue(runqueue[c], u, p)
      BY <1>0, <1>1 DEF SInv, TypeCore
    <3>2. /\ Lists(runqueue[c], RunSet(c), priority)
          /\ Counted(runqueue[c], RunSet(c)) /\ u \in RunSet(c)
      BY <1>0, <1>3 DEF SInv, Queues
    <3>. DEFINE q == runqueue[c]
                S == RunSet(c)
    <3>3. /\ Lists(q, S, priority) /\ Counted(q, S) /\ u \in S
          /\ priority'[u] = p /\ \A v \in S \ {u} : priority'[v] = priority[v]
      BY <1>1, <2>1, <3>2 DEF Lists
    <3>. HIDE DEF q, S, c
    <3>4. Lists(Requeue(q, u, p), S, priority') /\ Counted(Requeue(q, u, p), S)
      BY <3>3, RequeueLists
    <3>. QED BY <3>1, <3>4 DEF q, S
  <2>3. \A d \in Cpus \ {c} : runqueue'[d] = runqueue[d]
    BY <1>1 DEF SInv, TypeCore
  <2>. HIDE DEF c
  <2>4. ASSUME NEW d \in Cpus, NEW q, NEW S, Lists(q, S, priority), u \notin S
        PROVE  Lists(q, S, priority')
    <3>1. \A v \in S : priority'[v] = priority[v]
      BY <1>1, <2>1, <2>4 DEF Lists
    <3>. QED BY <2>4, <3>1, ListsReprio
  <2>5. ASSUME NEW d \in Cpus
        PROVE  /\ Lists(runqueue'[d], RunSet(d)', priority')
               /\ Counted(runqueue'[d], RunSet(d)')
               /\ Lists(zombiequeue'[d], ZomSet(d)', priority')
               /\ Counted(zombiequeue'[d], ZomSet(d)')
    <3>1. Lists(zombiequeue[d], ZomSet(d), priority') /\ Counted(zombiequeue[d], ZomSet(d))
      BY <1>3, <2>4 DEF SInv, Queues
    <3>2. Lists(runqueue'[d], RunSet(d), priority') /\ Counted(runqueue'[d], RunSet(d))
      <4>1. CASE d = c
        BY <2>2, <4>1
      <4>2. CASE d # c
        BY <1>3, <2>3, <2>4, <4>2 DEF SInv, Queues
      <4>. QED BY <4>1, <4>2
    <3>. QED BY <1>1, <1>3, <3>1, <3>2
  <2>. QED BY <2>5 DEF Queues
<1>6. Bound' /\ ChosenOnce' /\ SuspendedReaders'
  BY <1>1, CallsKept
<1>7. CurrentAlive'
  BY <1>0, <1>1 DEF SInv, CurrentAlive
<1>8. RootInUse'
  <2>1. \A v : CpuOf(v)' = CpuOf(v)
    BY DEF CpuOf
  <2>. QED BY <1>1, <2>1 DEF SInv, RootInUse
<1>. QED BY <1>2, <1>5, <1>6, <1>7, <1>8 DEF SInv

----------------------------------------------------------------------------
(* Suspended calls of __schedule() and the switch. *)

(* What the invariant says of the suspended __schedule() calls. *)
Calls == Bound /\ ChosenOnce /\ SuspendedReaders

(* __schedule() returns in task t, which is or becomes current on CPU c:   *)
(* to its code, or to the call of it that was suspended last.              *)
LEMMA ReturnStep ==
  ASSUME TypeCore, Calls, NEW c \in Cpus, NEW t \in Tasks, CpuOf(t) = c, Return(c, t),
         current'[c] = t, \A d \in Cpus \ {c} : current'[d] = current[d],
         t \in Threads => \A u \in Tasks : \A i \in DOMAIN outer[u] : outer[u][i] # t,
         \A u \in Tasks : \A i \in DOMAIN outer[u] :
            outer[u][i] \in Threads => status'[outer[u][i]] = "RUNNING",
         \A d \in Cpus \ {c} : next[d] \in Threads => status'[next[d]] = "RUNNING",
         \A d \in Cpus : status'[d] \in {"READY", "RUNNING"},
         UNCHANGED rcu_nesting
  PROVE  /\ Calls'
         /\ outer' \in [Tasks -> Seq(Tasks)] /\ next' \in [Cpus -> Tasks]
         /\ phase' \in [Cpus -> {"body", "pick", "hook", "switch"}]
         /\ phase'[c] \in {"body", "switch"}
         /\ \A d \in Cpus \ {c} : phase'[d] = phase[d] /\ next'[d] = next[d]
<1>. DEFINE empty == outer[t] = <<>>
<1>0. /\ outer \in [Tasks -> Seq(Tasks)] /\ next \in [Cpus -> Tasks] /\ c \in Tasks
      /\ phase \in [Cpus -> {"body", "pick", "hook", "switch"}] /\ c \notin Threads /\ CpuOf(c) = c
      /\ outer[t] \in Seq(Tasks) /\ \A d \in Cpus : d \notin Threads
  BY CpuOfTask DEF TypeCore
<1>1. /\ phase' = [phase EXCEPT ![c] = IF empty THEN "body" ELSE "switch"]
      /\ next' = [next EXCEPT ![c] = IF empty THEN c ELSE Head(outer[t])]
      /\ outer' = [outer EXCEPT ![t] = IF outer[t] = <<>> THEN outer[t] ELSE Tail(outer[t])]
  BY DEF Return
<1>2. ~empty => /\ Head(outer[t]) = outer[t][1] /\ 1 \in DOMAIN outer[t] /\ Head(outer[t]) \in Tasks
                /\ Tail(outer[t]) \in Seq(Tasks)
                /\ DOMAIN Tail(outer[t]) = 1 .. Len(outer[t]) - 1
                /\ DOMAIN outer[t] = 1 .. Len(outer[t]) /\ Len(outer[t]) \in Nat
                /\ \A i \in 1 .. Len(outer[t]) - 1 : Tail(outer[t])[i] = outer[t][i + 1]
  BY <1>0, HeadTailProperties
<1>3. /\ outer' \in [Tasks -> Seq(Tasks)] /\ next' \in [Cpus -> Tasks]
      /\ phase' \in [Cpus -> {"body", "pick", "hook", "switch"}]
  BY <1>0, <1>1, <1>2
<1>4. /\ phase'[c] = IF empty THEN "body" ELSE "switch"
      /\ next'[c] = IF empty THEN c ELSE outer[t][1]
      /\ \A d \in Cpus \ {c} : phase'[d] = phase[d] /\ next'[d] = next[d]
      /\ \A u \in Tasks \ {t} : outer'[u] = outer[u]
      /\ outer'[t] = IF empty THEN outer[t] ELSE Tail(outer[t])
  BY <1>0, <1>1, <1>2
<1>. DEFINE was(u, i) == IF u = t /\ ~empty THEN i + 1 ELSE i
<1>5. ASSUME NEW u \in Tasks, NEW i \in DOMAIN outer'[u]
      PROVE  /\ i \in Int /\ was(u, i) \in DOMAIN outer[u] /\ outer'[u][i] = outer[u][was(u, i)]
             /\ (u = t /\ ~empty) => was(u, i) # 1
  <2>1. CASE u = t /\ ~empty
    <3>1. i \in 1 .. Len(outer[t]) - 1
      BY <1>2, <1>4, <1>5, <2>1
    <3>2. was(u, i) = i + 1 /\ outer'[u] = Tail(outer[t])
      BY <1>4, <2>1
    <3>3. i \in Int /\ i + 1 \in DOMAIN outer[t] /\ i + 1 # 1
      BY <1>2, <2>1, <3>1
    <3>4. outer'[u][i] = outer[t][i + 1]
      BY <1>2, <2>1, <3>1, <3>2
    <3>. HIDE DEF was
    <3>. QED BY <2>1, <3>2, <3>3, <3>4
  <2>2. CASE ~(u = t /\ ~empty)
    <3>1. outer'[u] = outer[u] /\ outer[u] \in Seq(Tasks)
      BY <1>0, <1>4, <2>2
    <3>. QED BY <1>5, <2>2, <3>1
  <2>. QED BY <2>1, <2>2
<1>6. \A x : CpuOf(x)' = CpuOf(x)
  BY DEF CpuOf
<1>. HIDE DEF empty, was
<1>7. Bound'
  <2>1. CpuOf(next'[c]) = c
    BY <1>0, <1>2, <1>4 DEF Calls, Bound
  <2>2. \A u \in Tasks : \A i \in DOMAIN outer'[u] : CpuOf(outer'[u][i]) = CpuOf(u)
    BY <1>5 DEF Calls, Bound
  <2>. QED BY <1>4, <1>6, <2>1, <2>2 DEF Calls, Bound
<1>8. ChosenOnce'
  <2>1. ASSUME NEW d \in Cpus, next'[d] \in Threads
        PROVE  /\ phase'[d] \in {"hook", "switch"}
               /\ status'[next'[d]] = "RUNNING" /\ next'[d] # current'[d]
    <3>1. CASE d = c
      <4>1. ~empty /\ next'[c] = outer[t][1] /\ 1 \in DOMAIN outer[t]
        BY <1>0, <1>2, <1>4, <2>1, <3>1
      <4>2. outer[t][1] \in Threads
        BY <2>1, <3>1, <4>1
      <4>3. outer[t][1] # t /\ status'[outer[t][1]] = "RUNNING"
        BY <4>1, <4>2
      <4>. QED BY <1>4, <3>1, <4>1, <4>3
    <3>2. CASE d # c
      BY <1>4, <2>1, <3>2 DEF Calls, ChosenOnce
    <3>. QED BY <3>1, <3>2
  <2>2. ASSUME NEW u \in Tasks, NEW i \in DOMAIN outer'[u], outer'[u][i] \in Threads
        PROVE  /\ status'[outer'[u][i]] = "RUNNING"
               /\ outer'[u][i] # current'[CpuOf(u)] /\ outer'[u][i] # next'[CpuOf(u)]
               /\ \A v \in Tasks : \A j \in DOMAIN outer'[v] :
                     outer'[u][i] = outer'[v][j] => u = v /\ i = j
    <3>. DEFINE x == outer'[u][i]
                k == was(u, i)
    <3>1. /\ k \in DOMAIN outer[u] /\ x = outer[u][k] /\ x \in Threads
          /\ (u = t /\ ~empty) => k # 1
      BY <1>5, <2>2
    <3>2. CpuOf(u) \in Cpus /\ CpuOf(x) = CpuOf(u)
      BY <3>1, CpuOfTask DEF Calls, Bound
    <3>. HIDE DEF x, k
    <3>3. status'[x] = "RUNNING"
      BY <3>1
    <3>4. x # current'[CpuOf(u)]
      <4>1. CASE CpuOf(u) = c
        BY <3>1, <4>1
      <4>2. CASE CpuOf(u) # c
        BY <3>1, <3>2, <4>2 DEF Calls, ChosenOnce
      <4>. QED BY <4>1, <4>2
    <3>5. x # next'[CpuOf(u)]
      <4>1. CASE CpuOf(u) = c /\ empty
        BY <1>0, <1>4, <3>1, <4>1
      <4>2. CASE CpuOf(u) = c /\ ~empty
        <5>1. next'[c] = outer[t][1] /\ 1 \in DOMAIN outer[t]
          BY <1>2, <1>4, <4>2
        <5>2. outer[u][k] = outer[t][1] => u = t /\ k = 1
          BY <3>1, <5>1 DEF Calls, ChosenOnce
        <5>. QED BY <3>1, <4>2, <5>1, <5>2
      <4>3. CASE CpuOf(u) # c
        BY <1>4, <3>1, <3>2, <4>3 DEF Calls, ChosenOnce
      <4>. QED BY <4>1, <4>2, <4>3
    <3>6. ASSUME NEW v \in Tasks, NEW j \in DOMAIN outer'[v], x = outer'[v][j]
          PROVE  u = v /\ i = j
      <4>1. /\ was(v, j) \in DOMAIN outer[v] /\ x = outer[v][was(v, j)] /\ j \in Int /\ i \in Int
        BY <1>5, <3>6
      <4>. DEFINE m == was(v, j)
      <4>. HIDE DEF m
      <4>2. m \in DOMAIN outer[v] /\ x = outer[v][m]
        BY <4>1 DEF m
      <4>3. u = v /\ k = m
        <5>1. outer[u][k] \in Threads /\ outer[u][k] = outer[v][m] /\ k \in DOMAIN outer[u]
          BY <3>1, <4>2
        <5>2. \A a \in Tasks : \A b \in DOMAIN outer[a] : outer[a][b] \in Threads =>
                 \A e \in Tasks : \A f \in DOMAIN outer[e] :
                    outer[a][b] = outer[e][f] => a = e /\ b = f
          BY DEF Calls, ChosenOnce
        <5>. QED BY <4>2, <5>1, <5>2
      <4>. QED BY <4>1, <4>3 DEF was, k, m
    <3>. QED BY <3>3, <3>4, <3>5, <3>6 DEF x
  <2>. QED BY <1>6, <2>1, <2>2 DEF ChosenOnce
<1>9. SuspendedReaders'
  <2>1. ASSUME NEW u \in Tasks, outer'[u] # <<>> PROVE u \in Threads /\ rcu_nesting'[u] = 1
    <3>1. outer[u] # <<>>
      BY <1>4, <2>1 DEF empty
    <3>. QED BY <3>1 DEF Calls, SuspendedReaders
  <2>2. ASSUME NEW d \in Cpus, phase'[d] = "body" PROVE outer'[current'[d]] = <<>>
    <3>1. CASE d = c
      BY <1>4, <2>2, <3>1 DEF empty
    <3>2. CASE d # c
      <4>1. current'[d] = current[d] /\ current[d] # t /\ current[d] \in Tasks /\ phase[d] = "body"
        BY <1>4, <2>2, <3>2 DEF Calls, Bound, TypeCore
      <4>. QED BY <1>4, <4>1 DEF Calls, SuspendedReaders
    <3>. QED BY <3>1, <3>2
  <2>. QED BY <2>1, <2>2 DEF SuspendedReaders
<1>10. phase'[c] \in {"body", "switch"}
  BY <1>4
<1>. QED BY <1>3, <1>4, <1>7, <1>8, <1>9, <1>10 DEF Calls

(* The RCU hook is preempted: the outer call's choice is put aside. *)
LEMMA HookPreemptedStep ==
  ASSUME SInv, NEW c \in Cpus, HookPreempted(c)
  PROVE  SInv'
<1>. DEFINE r == current[c]
<1>0. /\ outer \in [Tasks -> Seq(Tasks)] /\ next \in [Cpus -> Tasks] /\ c \in Tasks
      /\ phase \in [Cpus -> {"body", "pick", "hook", "switch"}] /\ c \notin Threads /\ CpuOf(c) = c
      /\ \A d \in Cpus : d \notin Threads
      /\ r \in Tasks /\ CpuOf(r) = c /\ outer[r] \in Seq(Tasks)
      /\ need_resched \in [Cpus -> BOOLEAN] /\ next[c] \in Tasks
  BY CpuOfTask DEF SInv, TypeCore, Bound
<1>1. /\ UNCHANGED <<status, pc, priority, rcu_nesting, runqueue, zombiequeue, current, active_pml4>>
      /\ phase[c] = "hook" /\ phase' = [phase EXCEPT ![c] = "pick"]
      /\ outer' = [outer EXCEPT ![r] = <<next[c]>> \o outer[r]]
      /\ next' = [next EXCEPT ![c] = c]
      /\ r \in Threads /\ rcu_nesting[r] = 1
      /\ need_resched' = [need_resched EXCEPT ![c] = FALSE]
  BY DEF HookPreempted, Enter, InReadSection, queues, SInv, TypeCore
<1>2. status[r] \in Live /\ status[r] # "ZOMBIE"
  BY <1>1 DEF SInv, CurrentAlive
<1>. HIDE DEF r
<1>3. /\ outer'[r] \in Seq(Tasks) /\ DOMAIN outer'[r] = 1 .. Len(outer[r]) + 1
      /\ outer'[r][1] = next[c] /\ Len(outer[r]) \in Nat /\ DOMAIN outer[r] = 1 .. Len(outer[r])
      /\ \A i \in 2 .. Len(outer[r]) + 1 : outer'[r][i] = outer[r][i - 1]
      /\ \A u \in Tasks \ {r} : outer'[u] = outer[u]
  <2>1. outer'[r] = <<next[c]>> \o outer[r] /\ \A u \in Tasks \ {r} : outer'[u] = outer[u]
    BY <1>0, <1>1
  <2>2. <<next[c]>> \in Seq(Tasks) /\ Len(<<next[c]>>) = 1 /\ <<next[c]>>[1] = next[c]
    BY <1>0
  <2>3. Len(outer[r]) \in Nat /\ DOMAIN outer[r] = 1 .. Len(outer[r])
    BY <1>0
  <2>. QED BY <1>0, <2>1, <2>2, <2>3
<1>4. TypeCore'
  <2>1. outer' \in [Tasks -> Seq(Tasks)]
    BY <1>0, <1>1, <1>3
  <2>2. next' \in [Cpus -> Tasks] /\ phase' \in [Cpus -> {"body", "pick", "hook", "switch"}]
        /\ need_resched' \in [Cpus -> BOOLEAN]
    BY <1>0, <1>1
  <2>. QED BY <1>1, <2>1, <2>2 DEF SInv, TypeCore, HookPreempted
<1>5. \A x : CpuOf(x)' = CpuOf(x)
  BY DEF CpuOf
<1>6. \A d \in Cpus : RunSet(d)' = RunSet(d) /\ ZomSet(d)' = ZomSet(d)
  <2>1. \A d \in Cpus : Mine(d)' = Mine(d) /\ Mine(d) \subseteq Threads
    BY DEF Mine
  <2>2. Leaving(c) = {} /\ Leaving(c)' = {}
    BY <1>0, <1>1, <1>2 DEF Leaving, r
  <2>3. \A d \in Cpus \ {c} : Leaving(d)' = Leaving(d)
    BY <1>0, <1>1, <2>1 DEF Leaving
  <2>. QED BY <1>1, <2>1, <2>2, <2>3 DEF RunSet, ZomSet
<1>7. Queues'
  BY <1>1, <1>6, QueuesKept
<1>8. /\ next'[c] = c /\ \A d \in Cpus \ {c} : next'[d] = next[d] /\ phase'[d] = phase[d]
      /\ phase'[c] = "pick"
  BY <1>0, <1>1
<1>. DEFINE was(u, i) == IF u = r THEN i - 1 ELSE i
<1>9. ASSUME NEW u \in Tasks, NEW i \in DOMAIN outer'[u]
      PROVE  \/ u = r /\ i = 1 /\ outer'[u][i] = next[c]
             \/ /\ was(u, i) \in DOMAIN outer[u] /\ outer'[u][i] = outer[u][was(u, i)]
                /\ i \in Int
  <2>1. CASE u = r
    <3>1. i = 1 \/ i \in 2 .. Len(outer[r]) + 1
      BY <1>3, <1>9, <2>1
    <3>. QED BY <1>3, <2>1, <3>1
  <2>2. CASE u # r
    <3>1. outer'[u] = outer[u] /\ outer[u] \in Seq(Tasks)
      BY <1>0, <1>3, <2>2
    <3>. QED BY <1>9, <2>2, <3>1
  <2>. QED BY <2>1, <2>2
<1>. HIDE DEF was
<1>10. Bound'
  <2>1. \A u \in Tasks : \A i \in DOMAIN outer'[u] : CpuOf(outer'[u][i]) = CpuOf(u)
    <3>1. ASSUME NEW u \in Tasks, NEW i \in DOMAIN outer'[u] PROVE CpuOf(outer'[u][i]) = CpuOf(u)
      <4>1. CASE u = r /\ outer'[u][i] = next[c]
        <5>1. CpuOf(next[c]) = c
          BY DEF SInv, Bound
        <5>. QED BY <1>0, <4>1, <5>1
      <4>2. CASE was(u, i) \in DOMAIN outer[u] /\ outer'[u][i] = outer[u][was(u, i)]
        BY <4>2 DEF SInv, Bound
      <4>. QED BY <1>9, <4>1, <4>2
    <3>. QED BY <3>1
  <2>. QED BY <1>0, <1>1, <1>5, <1>8, <2>1 DEF SInv, Bound
<1>11. CurrentAlive'
  BY <1>0, <1>1, <1>2, <1>8 DEF SInv, CurrentAlive, r
<1>12. ChosenOnce'
  <2>1. ASSUME NEW d \in Cpus, next'[d] \in Threads
        PROVE  /\ phase'[d] \in {"hook", "switch"}
               /\ status[next'[d]] = "RUNNING" /\ next'[d] # current[d]
    <3>1. d # c
      BY <1>0, <1>8, <2>1
    <3>2. next'[d] = next[d] /\ phase'[d] = phase[d] /\ next[d] \in Threads
      BY <1>8, <2>1, <3>1
    <3>3. phase[d] \in {"hook", "switch"} /\ status[next[d]] = "RUNNING" /\ next[d] # current[d]
      BY <3>2 DEF SInv, ChosenOnce
    <3>. QED BY <3>2, <3>3
  <2>2. ASSUME NEW u \in Tasks, NEW i \in DOMAIN outer'[u], outer'[u][i] \in Threads
        PROVE  /\ status[outer'[u][i]] = "RUNNING"
               /\ outer'[u][i] # current[CpuOf(u)] /\ outer'[u][i] # next'[CpuOf(u)]
               /\ \A v \in Tasks : \A j \in DOMAIN outer'[v] :
                     outer'[u][i] = outer'[v][j] => u = v /\ i = j
    <3>0. CpuOf(u) \in Cpus
      BY CpuOfTask
    <3>1. ASSUME NEW v \in Tasks, NEW j \in DOMAIN outer[v], next[c] \in Threads
          PROVE  outer[v][j] # next[c]
      <4>1. CpuOf(outer[v][j]) = CpuOf(v) /\ CpuOf(next[c]) = c
        BY DEF SInv, Bound
      <4>. QED BY <3>1, <4>1 DEF SInv, ChosenOnce
    <3>2. CASE u = r /\ i = 1 /\ outer'[u][i] = next[c]
      <4>1. status[next[c]] = "RUNNING" /\ next[c] # current[c] /\ CpuOf(u) = c
        BY <1>0, <2>2, <3>2 DEF SInv, ChosenOnce
      <4>2. \A v \in Tasks : \A j \in DOMAIN outer'[v] : next[c] = outer'[v][j] => u = v /\ i = j
        BY <1>9, <2>2, <3>1, <3>2
      <4>. QED BY <1>0, <1>8, <2>2, <3>2, <4>1, <4>2
    <3>3. CASE /\ was(u, i) \in DOMAIN outer[u] /\ outer'[u][i] = outer[u][was(u, i)] /\ i \in Int
      <4>. DEFINE x == outer[u][was(u, i)]
      <4>1. x \in Threads /\ status[x] = "RUNNING" /\ x # current[CpuOf(u)] /\ x # next[CpuOf(u)]
        BY <2>2, <3>3 DEF SInv, ChosenOnce
      <4>2. x # next'[CpuOf(u)]
        BY <1>0, <1>8, <3>0, <4>1
      <4>3. ASSUME NEW v \in Tasks, NEW j \in DOMAIN outer'[v], x = outer'[v][j]
            PROVE  u = v /\ i = j
        <5>1. outer'[v][j] # next[c]
          BY <3>1, <3>3, <4>1, <4>3
        <5>2. was(v, j) \in DOMAIN outer[v] /\ x = outer[v][was(v, j)] /\ j \in Int
          BY <1>9, <4>3, <5>1
        <5>3. u = v /\ was(u, i) = was(v, j)
          BY <3>3, <4>1, <5>2 DEF SInv, ChosenOnce
        <5>. QED BY <3>3, <5>2, <5>3 DEF was
      <4>. QED BY <3>3, <4>1, <4>2, <4>3
    <3>. QED BY <1>9, <3>2, <3>3
  <2>. QED BY <1>1, <1>5, <2>1, <2>2 DEF ChosenOnce
<1>13. SuspendedReaders'
  <2>1. \A u \in Tasks : outer'[u] # <<>> => u \in Threads /\ rcu_nesting[u] = 1
    BY <1>1, <1>3 DEF SInv, SuspendedReaders
  <2>2. ASSUME NEW d \in Cpus, phase'[d] = "body" PROVE outer'[current[d]] = <<>>
    <3>1. d # c /\ phase[d] = "body"
      BY <1>8, <2>2
    <3>2. current[d] \in Tasks \ {r}
      BY <1>0, <3>1 DEF SInv, TypeCore, Bound
    <3>. QED BY <1>3, <3>1, <3>2 DEF SInv, SuspendedReaders
  <2>. QED BY <1>1, <2>1, <2>2 DEF SuspendedReaders
<1>14. RootInUse'
  BY <1>1, <1>5 DEF SInv, RootInUse
<1>. QED BY <1>4, <1>7, <1>10, <1>11, <1>12, <1>13, <1>14 DEF SInv

(* The switch itself. *)
LEMMA SwitchStep ==
  ASSUME SInv, NEW c \in Cpus, SwitchTo(c)
  PROVE  SInv'
<1>. DEFINE t == next[c]
            prev == current[c]
<1>0. /\ t \in Tasks /\ prev \in Tasks /\ CpuOf(t) = c /\ CpuOf(prev) = c
      /\ current \in [Cpus -> Tasks] /\ \A d \in Cpus : d \notin Threads
  BY CpuOfTask DEF SInv, TypeCore, Bound
<1>1. /\ UNCHANGED <<status, pc, priority, rcu_nesting, runqueue, zombiequeue>>
      /\ phase[c] = "switch" /\ current' = [current EXCEPT ![c] = t] /\ Return(c, t)
      /\ active_pml4' = [active_pml4 EXCEPT ![c] =
            IF t \in UserThreads THEN t
            ELSE IF status[prev] = "ZOMBIE" THEN KernelRoot ELSE active_pml4[c]]
  BY DEF SwitchTo, switch_mm, queues
<1>2. t \in Threads => status[t] = "RUNNING"
  BY DEF SInv, ChosenOnce
<1>. HIDE DEF t, prev
<1>3. current'[c] = t /\ \A d \in Cpus \ {c} : current'[d] = current[d]
  BY <1>0, <1>1
<1>4. /\ Calls'
      /\ outer' \in [Tasks -> Seq(Tasks)] /\ next' \in [Cpus -> Tasks]
      /\ phase' \in [Cpus -> {"body", "pick", "hook", "switch"}]
      /\ phase'[c] \in {"body", "switch"}
      /\ \A d \in Cpus \ {c} : phase'[d] = phase[d] /\ next'[d] = next[d]
  <2>1. t \in Threads => \A u \in Tasks : \A i \in DOMAIN outer[u] : outer[u][i] # t
    <3>1. \A u \in Tasks : \A i \in DOMAIN outer[u] : CpuOf(outer[u][i]) = CpuOf(u)
      BY DEF SInv, Bound
    <3>. QED BY <1>0, <3>1 DEF SInv, ChosenOnce, t
  <2>2. \A u \in Tasks : \A i \in DOMAIN outer[u] :
            outer[u][i] \in Threads => status'[outer[u][i]] = "RUNNING"
    BY <1>1 DEF SInv, ChosenOnce
  <2>3. \A d \in Cpus \ {c} : next[d] \in Threads => status'[next[d]] = "RUNNING"
    BY <1>1 DEF SInv, ChosenOnce
  <2>4. \A d \in Cpus : status'[d] \in {"READY", "RUNNING"}
    BY <1>1 DEF SInv, Bound
  <2>5. TypeCore /\ Calls
    BY DEF SInv, Calls
  <2>. QED BY <1>0, <1>1, <1>3, <2>1, <2>2, <2>3, <2>4, <2>5, ReturnStep
<1>5. TypeCore'
  <2>1. current' \in [Cpus -> Tasks]
    BY <1>0, <1>1
  <2>2. active_pml4' \in [Cpus -> UserThreads \cup {KernelRoot}]
    BY <1>1 DEF SInv, TypeCore
  <2>. QED BY <1>1, <1>4, <2>1, <2>2 DEF SInv, TypeCore, SwitchTo
<1>6. \A d \in Cpus : RunSet(d)' = RunSet(d) /\ ZomSet(d)' = ZomSet(d)
  <2>1. \A d \in Cpus : Mine(d)' = Mine(d) /\ Mine(d) \subseteq Threads
    BY DEF Mine
  <2>2. Leaving(c) = {} /\ Leaving(c)' = {}
    BY <1>1, <1>2, <1>3, <2>1 DEF Leaving
  <2>3. \A d \in Cpus \ {c} : Leaving(d)' = Leaving(d)
    BY <1>1, <1>3, <1>4, <2>1 DEF Leaving
  <2>. QED BY <1>1, <2>1, <2>2, <2>3 DEF RunSet, ZomSet
<1>7. Queues'
  BY <1>1, <1>6, QueuesKept
<1>8. CurrentAlive'
  <2>1. ASSUME NEW d \in Cpus, current'[d] \in Threads
        PROVE  /\ status'[current'[d]] \in Live \cup {"ZOMBIE"}
               /\ status'[current'[d]] = "ZOMBIE" =>
                    /\ rcu_nesting'[current'[d]] = 0
                    /\ phase'[d] = "body" => pc'[current'[d]] = "park"
                    /\ phase'[d] \in {"hook", "switch"} => next'[d] = d
    <3>1. CASE d = c
      BY <1>1, <1>2, <1>3, <2>1, <3>1 DEF Live
    <3>2. CASE d # c
      BY ZenonT(60), <1>1, <1>3, <1>4, <2>1, <3>2 DEF SInv, CurrentAlive
    <3>. QED BY <3>1, <3>2
  <2>. QED BY <2>1 DEF CurrentAlive
<1>9. RootInUse'
  <2>1. \A x : CpuOf(x)' = CpuOf(x)
    BY DEF CpuOf
  <2>2. /\ active_pml4'[c] = IF t \in UserThreads THEN t
                             ELSE IF status[prev] = "ZOMBIE" THEN KernelRoot ELSE active_pml4[c]
        /\ \A d \in Cpus \ {c} : active_pml4'[d] = active_pml4[d]
    BY <1>1 DEF SInv, TypeCore
  <2>3. ASSUME active_pml4'[c] # KernelRoot
        PROVE  CpuOf(active_pml4'[c]) = c /\ status[active_pml4'[c]] \in Live
    <3>1. CASE t \in UserThreads
      BY <1>0, <1>2, <2>2, <3>1, UserAssumption DEF Live
    <3>2. CASE t \notin UserThreads
      BY <2>2, <2>3, <3>2 DEF SInv, RootInUse, prev
    <3>. QED BY <3>1, <3>2
  <2>. QED BY <1>1, <1>3, <2>1, <2>2, <2>3 DEF SInv, RootInUse
<1>. QED BY <1>4, <1>5, <1>7, <1>8, <1>9 DEF SInv, Calls

----------------------------------------------------------------------------
(* The choice. *)

(* A set of naturals that is not empty has a least member. *)
LEMMA LeastNatural ==
  ASSUME NEW S \in SUBSET Nat, S # {}
  PROVE  \E x \in S : \A y \in S : x <= y
<1>. DEFINE R == {ss \in Nat \X Nat : ss[1] < ss[2]}
<1>1. IsWellFoundedOn(R, Nat)
  BY NatLessThanWellFounded DEF OpToRel
<1>. HIDE DEF R
<1>2. PICK x \in S : \A y \in S : ~ (<<y, x>> \in R)
  BY <1>1, WFMin
<1>3. \A y \in S : ~ (y < x)
  BY <1>2 DEF R
<1>. QED BY <1>3

(* pick_next's scan finds a candidate of the highest priority that has any. *)
LEMMA FoundIsBest ==
  ASSUME NEW q, NEW S, Lists(q, S, priority)
  PROVE  /\ Candidates(q) # {} =>
              /\ Found(q) \in S /\ Eligible(Found(q))
              /\ FoundPrio(q) = priority[Found(q)]
              /\ \A t \in S : Eligible(t) => FoundPrio(q) <= priority[t]
         /\ Candidates(q) = {} => \A t \in S : ~Eligible(t)
<1>1. \A t \in S : Eligible(t) => priority[t] \in Candidates(q)
  <2>1. ASSUME NEW t \in S, Eligible(t) PROVE priority[t] \in Candidates(q)
    <3>. DEFINE p == priority[t]
    <3>1. PICK i \in DOMAIN q.heads[p] : q.heads[p][i] = t
      BY DEF Lists
    <3>2. q.heads[p] # <<>> /\ p \in Prio
      BY <3>1 DEF Lists
    <3>3. p \in q.bitmap
      BY <3>2 DEF Lists
    <3>4. t \in Elements(q.heads[p])
      BY <3>1 DEF Elements
    <3>. QED BY <2>1, <3>3, <3>4 DEF Candidates
  <2>. QED BY <2>1
<1>2. ASSUME Candidates(q) # {}
      PROVE  /\ Found(q) \in S /\ Eligible(Found(q))
             /\ FoundPrio(q) = priority[Found(q)]
             /\ \A r \in Candidates(q) : FoundPrio(q) <= r
  <2>. DEFINE P == FoundPrio(q)
              s == q.heads[P]
              E == {i \in DOMAIN s : Eligible(s[i])}
  <2>1. Candidates(q) \in SUBSET Nat /\ Candidates(q) \subseteq Prio
    BY PrioAssumption DEF Candidates, Lists, Prio
  <2>2. P \in Candidates(q) /\ \A r \in Candidates(q) : P <= r
    <3>1. \E x \in Candidates(q) : \A y \in Candidates(q) : x <= y
      BY <1>2, <2>1, LeastNatural
    <3>. QED BY <3>1 DEF FoundPrio
  <2>. HIDE DEF P
  <2>3. P \in Prio /\ s \in Seq(Threads) /\ E # {}
    BY <2>1, <2>2 DEF Candidates, Elements, Lists
  <2>4. E \in SUBSET Nat
    BY <2>3
  <2>5. \E x \in E : \A y \in E : x <= y
    BY <2>3, <2>4, LeastNatural
  <2>. DEFINE k == CHOOSE i \in DOMAIN s :
                     Eligible(s[i]) /\ \A j \in DOMAIN s : Eligible(s[j]) => i <= j
  <2>6. k \in DOMAIN s /\ Eligible(s[k])
    <3>1. \E i \in DOMAIN s : Eligible(s[i]) /\ \A j \in DOMAIN s : Eligible(s[j]) => i <= j
      BY <2>5
    <3>. QED BY <3>1
  <2>7. Found(q) = s[k]
    BY DEF Found, P
  <2>8. s[k] \in S /\ priority[s[k]] = P
    BY <2>3, <2>6 DEF Lists
  <2>. QED BY <2>2, <2>6, <2>7, <2>8 DEF P
<1>. QED BY <1>1, <1>2

(* The tasks that some __schedule() call has chosen are RUNNING. *)
LEMMA ChosenAreRunning ==
  ASSUME SInv, NEW u \in Tasks, NEW i \in DOMAIN outer[u], outer[u][i] \in Threads
  PROVE  /\ status[outer[u][i]] = "RUNNING" /\ CpuOf(outer[u][i]) = CpuOf(u) /\ CpuOf(u) \in Cpus
         /\ \A c \in Cpus : outer[u][i] # current[c]
         /\ outer[u][i] # next[CpuOf(u)]
<1>1. CpuOf(outer[u][i]) = CpuOf(u) /\ CpuOf(u) \in Cpus
  BY CpuOfTask DEF SInv, Bound
<1>2. \A c \in Cpus : CpuOf(current[c]) = c
  BY DEF SInv, Bound
<1>3. /\ status[outer[u][i]] = "RUNNING" /\ outer[u][i] # current[CpuOf(u)]
      /\ outer[u][i] # next[CpuOf(u)]
  BY DEF SInv, ChosenOnce
<1>. QED BY <1>1, <1>2, <1>3

(* __schedule() chooses a task and either returns or goes on to the hook:  *)
(* what that does to the calls, whatever the choice rests on.              *)
LEMMA ChoiceCalls ==
  ASSUME SInv, NEW c \in Cpus, phase[c] = "pick", NEW to \in Tasks, CpuOf(to) = c, Chosen(c, to),
         UNCHANGED <<rcu_nesting, current>>,
         \A d \in Cpus : status'[d] \in {"READY", "RUNNING"},
         \A v \in Threads : v \notin {to, current[c]} => status'[v] = status[v],
         to \in Threads => status'[to] = "RUNNING",
         to \in Threads /\ to # current[c] => status[to] # "RUNNING"
  PROVE  /\ Calls'
         /\ outer' \in [Tasks -> Seq(Tasks)] /\ next' \in [Cpus -> Tasks]
         /\ phase' \in [Cpus -> {"body", "pick", "hook", "switch"}]
         /\ to = current[c] => phase'[c] \in {"body", "switch"}
         /\ to # current[c] => phase'[c] = "hook" /\ next'[c] = to
         /\ \A d \in Cpus \ {c} : phase'[d] = phase[d] /\ next'[d] = next[d]
<1>0. /\ outer \in [Tasks -> Seq(Tasks)] /\ next \in [Cpus -> Tasks]
      /\ phase \in [Cpus -> {"body", "pick", "hook", "switch"}]
      /\ \A d \in Cpus : d \notin Threads
      /\ TypeCore /\ Calls
  BY CpuOfTask DEF SInv, TypeCore, Calls
<1>1. \A u \in Tasks : \A i \in DOMAIN outer[u] :
          outer[u][i] \in Threads => status'[outer[u][i]] = "RUNNING" /\ outer[u][i] # to
  <2>1. ASSUME NEW u \in Tasks, NEW i \in DOMAIN outer[u], outer[u][i] \in Threads
        PROVE  status'[outer[u][i]] = "RUNNING" /\ outer[u][i] # to
    <3>1. status[outer[u][i]] = "RUNNING" /\ outer[u][i] # current[c]
      BY <2>1, ChosenAreRunning
    <3>. QED BY <2>1, <3>1
  <2>. QED BY <2>1
<1>2. \A d \in Cpus \ {c} : next[d] \in Threads =>
          status'[next[d]] = "RUNNING" /\ next[d] # to
  <2>1. ASSUME NEW d \in Cpus \ {c}, next[d] \in Threads
        PROVE  status'[next[d]] = "RUNNING" /\ next[d] # to
    <3>1. CpuOf(next[d]) = d /\ CpuOf(current[c]) = c /\ status[next[d]] = "RUNNING"
      BY <2>1 DEF SInv, Bound, ChosenOnce
    <3>. QED BY <2>1, <3>1
  <2>. QED BY <2>1
<1>3. CASE to = current[c]
  <2>1. Return(c, to) /\ current'[c] = to /\ \A d \in Cpus \ {c} : current'[d] = current[d]
    BY <1>3 DEF Chosen
  <2>2. /\ Calls'
        /\ outer' \in [Tasks -> Seq(Tasks)] /\ next' \in [Cpus -> Tasks]
        /\ phase' \in [Cpus -> {"body", "pick", "hook", "switch"}]
        /\ phase'[c] \in {"body", "switch"}
        /\ \A d \in Cpus \ {c} : phase'[d] = phase[d] /\ next'[d] = next[d]
    <3>1. to \in Threads => \A u \in Tasks : \A i \in DOMAIN outer[u] : outer[u][i] # to
      BY <1>1
    <3>2. \A u \in Tasks : \A i \in DOMAIN outer[u] :
             outer[u][i] \in Threads => status'[outer[u][i]] = "RUNNING"
      BY <1>1
    <3>3. \A d \in Cpus \ {c} : next[d] \in Threads => status'[next[d]] = "RUNNING"
      BY <1>2
    <3>4. UNCHANGED rcu_nesting
      OBVIOUS
    <3>. QED BY <1>0, <2>1, <3>1, <3>2, <3>3, <3>4, ReturnStep
  <2>. QED BY <1>3, <2>2
<1>4. CASE to # current[c]
  <2>1. /\ next' = [next EXCEPT ![c] = to] /\ phase' = [phase EXCEPT ![c] = "hook"] /\ outer' = outer
    BY <1>4 DEF Chosen
  <2>2. /\ next' \in [Cpus -> Tasks] /\ next'[c] = to /\ phase'[c] = "hook"
        /\ phase' \in [Cpus -> {"body", "pick", "hook", "switch"}]
        /\ \A d \in Cpus \ {c} : phase'[d] = phase[d] /\ next'[d] = next[d]
    BY <1>0, <2>1
  <2>3. \A x : CpuOf(x)' = CpuOf(x)
    BY DEF CpuOf
  <2>4. Bound'
    BY <2>1, <2>2, <2>3 DEF SInv, Bound
  <2>5. ChosenOnce'
    <3>1. ASSUME NEW d \in Cpus, next'[d] \in Threads
          PROVE  /\ phase'[d] \in {"hook", "switch"}
                 /\ status'[next'[d]] = "RUNNING" /\ next'[d] # current'[d]
      <4>1. CASE d = c
        BY <1>4, <2>2, <3>1, <4>1
      <4>2. CASE d # c
        BY <1>2, <2>2, <3>1, <4>2 DEF SInv, ChosenOnce
      <4>. QED BY <4>1, <4>2
    <3>2. ASSUME NEW u \in Tasks, NEW i \in DOMAIN outer[u], outer[u][i] \in Threads
          PROVE  /\ status'[outer[u][i]] = "RUNNING"
                 /\ outer[u][i] # current[CpuOf(u)] /\ outer[u][i] # next'[CpuOf(u)]
                 /\ \A v \in Tasks : \A j \in DOMAIN outer[v] :
                       outer[u][i] = outer[v][j] => u = v /\ i = j
      <4>1. /\ CpuOf(u) \in Cpus /\ outer[u][i] # next[CpuOf(u)] /\ outer[u][i] # current[CpuOf(u)]
        BY <3>2, ChosenAreRunning
      <4>2. outer[u][i] # next'[CpuOf(u)]
        BY <1>1, <2>2, <3>2, <4>1
      <4>. QED BY <1>1, <3>2, <4>1, <4>2 DEF SInv, ChosenOnce
    <3>. QED BY <2>1, <2>3, <3>1, <3>2 DEF ChosenOnce
  <2>6. SuspendedReaders'
    BY <2>1, <2>2 DEF SInv, SuspendedReaders
  <2>. QED BY <1>0, <1>4, <2>1, <2>2, <2>4, <2>5, <2>6 DEF Calls
<1>. QED BY <1>3, <1>4

----------------------------------------------------------------------------
(* What a pick comes to. *)

(* The dead thread that __schedule() finds as its prev. *)
DeadPrev(c) == IF status[current[c]] = "ZOMBIE" THEN {current[c]} ELSE {}

(* What a step of __schedule() under the queue lock comes to.  Status is   *)
(* as it was when idle is chosen because the dead wait or there is nothing *)
(* else; the dead prev changes queues; and the choice is the best one.     *)
Outcome(c, to) ==
    /\ to \in Tasks /\ CpuOf(to) = c /\ Chosen(c, to)
    /\ \/ /\ status' = status /\ to = c
          /\ DeadPrev(c) # {} \/ ZomSet(c) # {} \/ current[c] = c
       \/ /\ status' = StatusAfter(current[c], to)
          /\ DeadPrev(c) = {} /\ ZomSet(c) = {}
          /\ to \in Threads => to = current[c] \/ Eligible(to)
    /\ Lists(runqueue'[c], RunSet(c) \ DeadPrev(c), priority)
    /\ Counted(runqueue'[c], RunSet(c) \ DeadPrev(c))
    /\ Lists(zombiequeue'[c], ZomSet(c) \cup DeadPrev(c), priority)
    /\ Counted(zombiequeue'[c], ZomSet(c) \cup DeadPrev(c))
    /\ IF to = c
         THEN (\A t \in RunSet(c) : ~Eligible(t)) \/ ZomSet(c) \cup DeadPrev(c) # {}
         ELSE \A t \in RunSet(c) : Eligible(t) => priority[to] <= priority[t]

(* A queue that loses a thread. *)
LEMMA DequeueLists ==
  ASSUME NEW q, NEW S, NEW t \in S, NEW pr, Lists(q, S, pr), Counted(q, S)
  PROVE  /\ Lists([Unlink(q, t, pr[t]) EXCEPT !.count = @ - 1], S \ {t}, pr)
         /\ Counted([Unlink(q, t, pr[t]) EXCEPT !.count = @ - 1], S \ {t})
<1>. DEFINE x == Unlink(q, t, pr[t])
            n == q.count - 1
            r == [x EXCEPT !.count = n]
<1>1. Lists(x, S \ {t}, pr) /\ x.count = q.count
  BY UnlinkLists
<1>2. q.count \in Int /\ n \in Int
  BY DEF Lists
<1>3. [x EXCEPT !.count = @ - 1] = r
  BY <1>1
<1>. HIDE DEF x, n
<1>4. Lists(r, S \ {t}, pr) /\ r.count = n
  BY <1>1, <1>2, CountChange
<1>5. Counted(r, S \ {t})
  BY <1>2, <1>4, CountedMoves DEF n
<1>. QED BY <1>3, <1>4, <1>5 DEF x

(* The zombie that runqueue_dequeue_tail_raw takes is one of the queue's. *)
LEMMA ReapedIsDead ==
  ASSUME SInv, NEW c \in Cpus, NEW t \in Threads, ReapZombie(c, t)
  PROVE  /\ t \in ZomSet(c) /\ CpuOf(t) = c
         /\ zombiequeue' = [zombiequeue EXCEPT ![c] =
                              [Unlink(zombiequeue[c], t, priority[t]) EXCEPT !.count = @ - 1]]
<1>. DEFINE q == zombiequeue[c]
            Z == ZomSet(c)
            b == CHOOSE p \in q.bitmap : \A r \in q.bitmap : p <= r
<1>1. Lists(q, Z, priority) /\ Counted(q, Z) /\ \A v \in Z : CpuOf(v) = c
  BY DEF SInv, Queues, ZomSet, Mine
<1>2. /\ q.count > 0 /\ t = q.heads[b][Len(q.heads[b])]
      /\ zombiequeue' = [zombiequeue EXCEPT ![CpuOf(t)] = [Unlink(q, t, b) EXCEPT !.count = @ - 1]]
  BY DEF ReapZombie, runqueue_dequeue_tail_raw
<1>. HIDE DEF q, Z
<1>3. /\ q \in [heads : [Prio -> Seq(Threads)], bitmap : SUBSET Prio, count : Int]
      /\ q.bitmap = {p \in Prio : q.heads[p] # <<>>}
      /\ \A v \in Z : \E i \in DOMAIN q.heads[priority[v]] : q.heads[priority[v]][i] = v
      /\ \A v \in Z : priority[v] \in Prio
      /\ \A p \in Prio : \A i \in DOMAIN q.heads[p] : q.heads[p][i] \in Z /\ priority[q.heads[p][i]] = p
  BY <1>1 DEF Lists
<1>4. Z # {}
  BY <1>1, <1>2, <1>3, CountedMoves
<1>5. q.bitmap # {}
  BY <1>3, <1>4
<1>6. q.bitmap \in SUBSET Nat
  BY <1>3, PrioAssumption DEF Prio
<1>7. \E x \in q.bitmap : \A y \in q.bitmap : x <= y
  BY <1>5, <1>6, LeastNatural
<1>8. b \in q.bitmap
  BY <1>7
<1>. HIDE DEF b
<1>9. b \in Prio /\ q.heads[b] # <<>> /\ q.heads[b] \in Seq(Threads)
  BY <1>3, <1>8
<1>10. Len(q.heads[b]) \in DOMAIN q.heads[b]
  BY <1>9
<1>11. t \in Z /\ priority[t] = b
  BY <1>2, <1>3, <1>9, <1>10
<1>12. CpuOf(t) = c
  BY <1>1, <1>11
<1>. QED BY <1>2, <1>11, <1>12 DEF q, Z

(* The idle loop destroys a dead thread of its CPU: it is not current. *)
LEMMA ReapStep ==
  ASSUME SInv, NEW c \in Cpus, NEW z \in Threads, ReapZombie(c, z)
  PROVE  SInv'
<1>. DEFINE Z == {z}
            q == [Unlink(zombiequeue[c], z, priority[z]) EXCEPT !.count = @ - 1]
<1>0. /\ status \in [Tasks -> Status] /\ (\A d \in Cpus : d \notin Threads)
      /\ phase \in [Cpus -> {"body", "pick", "hook", "switch"}]
      /\ \A v \in Threads : v \in Tasks /\ CpuOf(v) \in Cpus
  BY CpuOfTask DEF SInv, TypeCore
<1>1. /\ UNCHANGED <<pc, priority, rcu_nesting, runqueue, outer, current, next, active_pml4, phase>>
      /\ phase[c] = "body" /\ current[c] = c
  BY DEF ReapZombie, cpuVars
<1>2. z \in ZomSet(c) /\ CpuOf(z) = c /\ zombiequeue' = [zombiequeue EXCEPT ![c] = q]
  BY ReapedIsDead
<1>3. status' = [status EXCEPT ![z] = "FREED"]
  BY DEF ReapZombie, SetStatus
<1>4. /\ status[z] = "ZOMBIE" /\ ZomSet(c) = {t \in Mine(c) : status[t] = "ZOMBIE"} /\ Z \subseteq Threads
  BY <1>0, <1>1, <1>2 DEF ZomSet, Leaving, Mine
<1>a. Lists(q, ZomSet(c) \ {z}, priority) /\ Counted(q, ZomSet(c) \ {z})
  BY <1>2, DequeueLists DEF SInv, Queues
<1>. HIDE DEF q
<1>. HIDE DEF Z
<1>5. /\ \A v \in Threads : v \notin Z => status'[v] = status[v]
      /\ \A v \in Z : status[v] = "ZOMBIE" /\ status'[v] = "FREED" /\ CpuOf(v) = c
      /\ \A d \in Cpus : status'[d] = status[d]
  BY <1>0, <1>2, <1>3, <1>4, CpuOfTask DEF Z
<1>6. TypeCore'
  <2>1. status' \in [Tasks -> Status]
    BY <1>0, <1>3 DEF Status
  <2>3. DOMAIN zombiequeue' = Cpus
    BY <1>2 DEF SInv, TypeCore
  <2>. QED BY <1>1, <2>1, <2>3 DEF ReapZombie, cpuVars, SInv, TypeCore
<1>7. ASSUME NEW d \in Cpus
      PROVE  /\ RunSet(d)' = RunSet(d)
             /\ ZomSet(d)' = IF d = c THEN ZomSet(d) \ {z} ELSE ZomSet(d)
  <2>1. Mine(d)' = Mine(d) /\ Mine(d) \subseteq Threads /\ (d # c => Mine(d) \cap Z = {})
    BY <1>5 DEF Mine
  <2>2. phase'[d] \in {"body", "pick"} <=> phase[d] \in {"body", "pick"}
    BY <1>0, <1>1
  <2>3. d = c => Leaving(d) = {} /\ Leaving(d)' = {}
    BY <1>0, <1>1, <2>1 DEF Leaving
  <2>4. d # c => Leaving(d)' = Leaving(d)
    BY <1>1, <1>5, <2>1, <2>2 DEF Leaving
  <2>5. d = c => ZomSet(d)' = ZomSet(d) \ {z}
    BY <1>2, <1>4, <1>5, <2>1, <2>3 DEF ZomSet, Z
  <2>6. d # c => ZomSet(d)' = ZomSet(d)
    BY <1>5, <2>1, <2>4 DEF ZomSet
  <2>7. {t \in Mine(d) : status'[t] \in Live} = {t \in Mine(d) : status[t] \in Live}
    BY <1>5, <2>1 DEF Live
  <2>8. RunSet(d)' = RunSet(d)
    BY <2>1, <2>3, <2>4, <2>7 DEF RunSet
  <2>. QED BY <2>5, <2>6, <2>8
<1>8. Queues'
  <2>1. ASSUME NEW d \in Cpus
        PROVE  /\ Lists(runqueue'[d], RunSet(d)', priority')
               /\ Counted(runqueue'[d], RunSet(d)')
               /\ Lists(zombiequeue'[d], ZomSet(d)', priority')
               /\ Counted(zombiequeue'[d], ZomSet(d)')
    <3>1. zombiequeue'[d] = IF d = c THEN q ELSE zombiequeue[d]
      BY <1>2 DEF SInv, TypeCore
    <3>. QED BY <1>1, <1>7, <1>a, <3>1 DEF SInv, Queues
  <2>. QED BY <2>1 DEF Queues
<1>9. \A v : CpuOf(v)' = CpuOf(v)
  BY DEF CpuOf
<1>10. Bound'
  BY <1>1, <1>5, <1>9 DEF SInv, Bound
<1>11. CurrentAlive'
  <2>1. ASSUME NEW d \in Cpus, current[d] \in Threads PROVE d # c /\ current[d] \notin Z
    BY <1>0, <1>1, <1>5, <2>1 DEF SInv, Bound
  <2>2. \A d \in Cpus : d # c => phase'[d] = phase[d]
    BY <1>0, <1>1
  <2>. QED BY <1>1, <1>5, <2>1, <2>2 DEF SInv, CurrentAlive
<1>12. ChosenOnce'
  <2>1. \A v \in Threads : status[v] = "RUNNING" => status'[v] = "RUNNING"
    BY <1>5
  <2>2. \A d \in Cpus : next[d] \in Threads => phase'[d] = phase[d]
    BY <1>0, <1>1 DEF SInv, ChosenOnce
  <2>. QED BY <1>1, <1>9, <2>1, <2>2 DEF SInv, ChosenOnce
<1>13. SuspendedReaders'
  <2>1. \A d \in Cpus : phase'[d] = "body" => phase[d] = "body"
    BY <1>0, <1>1
  <2>. QED BY <1>1, <2>1 DEF SInv, SuspendedReaders
<1>14. RootInUse'
  <2>1. ASSUME NEW d \in Cpus, active_pml4[d] # KernelRoot
        PROVE  active_pml4[d] \in Threads /\ active_pml4[d] \notin Z
    <3>1. active_pml4[d] \in Threads
      BY <2>1, UserAssumption DEF SInv, TypeCore
    <3>2. active_pml4[d] \in Z => d = c /\ status[active_pml4[d]] = "ZOMBIE"
      BY <1>5, <2>1 DEF SInv, RootInUse
    <3>. QED BY <1>0, <1>1, <2>1, <3>1, <3>2 DEF SInv, RootInUse, Live
  <2>. QED BY <1>1, <1>5, <1>9, <2>1 DEF SInv, RootInUse
<1>. QED BY <1>6, <1>8, <1>10, <1>11, <1>12, <1>13, <1>14 DEF SInv

(* The queues sched_idle_zombie leaves behind. *)
LEMMA DeadPrevMoves ==
  ASSUME SInv, NEW c \in Cpus, phase[c] = "pick", status[current[c]] = "ZOMBIE", NEW rq, NEW zq,
         rq = [Unlink(runqueue[c], current[c], priority[current[c]]) EXCEPT !.count = @ - 1],
         zq = runqueue_enqueue_raw(zombiequeue[c], current[c])
  PROVE  /\ Lists(rq, RunSet(c) \ {current[c]}, priority)
         /\ Counted(rq, RunSet(c) \ {current[c]})
         /\ Lists(zq, ZomSet(c) \cup {current[c]}, priority)
         /\ Counted(zq, ZomSet(c) \cup {current[c]})
         /\ zq.count > 0
<1>. DEFINE t == current[c]
            S == RunSet(c)
            Z == ZomSet(c)
<1>0. /\ current[c] \in Tasks /\ \A d \in Cpus : status[d] # "ZOMBIE"
      /\ priority \in [Threads -> Prio] /\ CpuOf(current[c]) = c
  BY DEF SInv, Bound, TypeCore
<1>1. t \in Threads /\ t \in S /\ t \in Threads \ Z
  <2>1. t \in Threads
    BY <1>0 DEF Tasks
  <2>2. t \in Leaving(c)
    BY <1>0, <2>1 DEF Leaving, Mine
  <2>. QED BY <2>1, <2>2 DEF RunSet, ZomSet
<1>2. /\ Lists(runqueue[c], S, priority) /\ Counted(runqueue[c], S)
      /\ Lists(zombiequeue[c], Z, priority) /\ Counted(zombiequeue[c], Z)
  BY DEF SInv, Queues
<1>. HIDE DEF t, S, Z
<1>3. rq = [Unlink(runqueue[c], t, priority[t]) EXCEPT !.count = @ - 1]
  BY DEF t
<1>4. Lists(rq, S \ {t}, priority) /\ Counted(rq, S \ {t})
  BY <1>1, <1>2, <1>3, DequeueLists
<1>8. Lists(zq, Z \cup {t}, priority) /\ Counted(zq, Z \cup {t})
  BY <1>0, <1>1, <1>2, EnqueueLists DEF t
<1>9. zq.count > 0
  <2>1. zq.count \in Int
    BY <1>8 DEF Lists
  <2>2. Z \cup {t} # {}
    OBVIOUS
  <2>3. \A A : Counted(zq, A) => (A # {} <=> zq.count > 0)
    BY <2>1, CountedMoves
  <2>. QED BY <1>8, <2>2, <2>3
<1>. QED BY <1>4, <1>8, <1>9 DEF t, S, Z

(* pick_next, when prev is not dead and nobody waits for the reaper. *)
LEMMA PickNextOutcome ==
  ASSUME SInv, NEW c \in Cpus, phase[c] = "pick", pick_next(c, runqueue[c]),
         status[current[c]] # "ZOMBIE", ZomSet(c) = {}, zombiequeue'[c] = zombiequeue[c]
  PROVE  \E to : Outcome(c, to)
<1>. DEFINE q == runqueue[c]
            S == RunSet(c)
            prev == current[c]
<1>0. /\ prev \in Tasks /\ priority \in [Threads -> Prio] /\ CpuOf(prev) = c /\ c \in Tasks
      /\ CpuOf(c) = c /\ c \notin Threads /\ DOMAIN runqueue = Cpus
  BY CpuOfTask DEF SInv, Bound, TypeCore
<1>1. /\ Lists(q, S, priority) /\ Counted(q, S)
      /\ Lists(zombiequeue[c], ZomSet(c), priority) /\ Counted(zombiequeue[c], ZomSet(c))
  BY DEF SInv, Queues
<1>2. prev \in Threads => prev \in S
  <2>1. prev \in Threads => status[prev] \in Live
    BY DEF SInv, CurrentAlive
  <2>. QED BY <1>0, <2>1 DEF RunSet, Mine
<1>3. DeadPrev(c) = {}
  BY DEF DeadPrev
<1>4. /\ S \subseteq Threads /\ \A t \in S : CpuOf(t) = c
      /\ q.count \in Int
  BY <1>1 DEF RunSet, Mine, Leaving, Lists
<1>5. S # {} <=> q.count > 0
  BY <1>1, <1>4, CountedMoves
<1>6. /\ Candidates(q) # {} =>
              /\ Found(q) \in S /\ Eligible(Found(q))
              /\ FoundPrio(q) = priority[Found(q)]
              /\ \A t \in S : Eligible(t) => FoundPrio(q) <= priority[t]
      /\ Candidates(q) = {} => \A t \in S : ~Eligible(t)
  BY <1>1, FoundIsBest
<1>7. Lists(zombiequeue'[c], ZomSet(c) \cup {}, priority) /\ Counted(zombiequeue'[c], ZomSet(c) \cup {})
  <2>1. ZomSet(c) \cup {} = ZomSet(c)
    OBVIOUS
  <2>. QED BY <1>1, <2>1
<1>8. S \ {} = S
  OBVIOUS
<1>9. CASE q.count = 0
  <2>1. S = {}
    BY <1>5, <1>9
  <2>2. prev = c
    BY <1>0, <1>2, <2>1 DEF Tasks, CpuOf
  <2>3. Chosen(c, c) /\ runqueue' = [runqueue EXCEPT ![c] = q] /\ status' = status
    BY <1>9 DEF pick_next
  <2>4. runqueue'[c] = q
    BY <1>0, <2>3
  <2>5. Outcome(c, c)
    BY <1>0, <1>1, <1>3, <1>7, <1>8, <2>1, <2>2, <2>3, <2>4 DEF Outcome
  <2>. QED BY <2>5
<1>10. CASE q.count # 0
  <2>. DEFINE to == IF KeepPrev(c, q) THEN prev
                    ELSE IF Candidates(q) = {} THEN c ELSE Found(q)
              r == IF to \in {prev, c} THEN q ELSE Rotate(q, to, FoundPrio(q))
  <2>1. Chosen(c, to) /\ runqueue' = [runqueue EXCEPT ![c] = r] /\ status' = StatusAfter(prev, to)
    BY <1>10 DEF pick_next
  <2>2. runqueue'[c] = r
    BY <1>0, <2>1
  <2>3. to \in Tasks /\ CpuOf(to) = c
    BY <1>0, <1>4, <1>6 DEF Tasks
  <2>4. to \in Threads => to = prev \/ Eligible(to)
    BY <1>0, <1>6
  <2>5. IF to = c THEN \A t \in S : ~Eligible(t)
        ELSE \A t \in S : Eligible(t) => priority[to] <= priority[t]
    <3>1. CASE KeepPrev(c, q)
      <4>1. to = prev /\ prev # c /\ (Candidates(q) = {} \/ priority[prev] < FoundPrio(q))
        BY <3>1 DEF KeepPrev
      <4>2. CASE Candidates(q) = {}
        BY <1>6, <4>1, <4>2
      <4>3. CASE Candidates(q) # {}
        <5>1. prev \in Threads
          BY <1>0, <4>1 DEF Tasks, CpuOf
        <5>2. /\ priority[prev] < FoundPrio(q) /\ priority[prev] \in Int /\ FoundPrio(q) \in Int
              /\ \A t \in S : priority[t] \in Int
          BY <1>0, <1>4, <1>6, <4>1, <4>3, <5>1, PrioAssumption DEF Prio
        <5>3. \A t \in S : Eligible(t) => FoundPrio(q) <= priority[t]
          BY <1>6, <4>3
        <5>. QED BY <4>1, <5>2, <5>3
      <4>. QED BY <4>2, <4>3
    <3>2. CASE ~KeepPrev(c, q) /\ Candidates(q) = {}
      BY <1>6, <3>2
    <3>3. CASE ~KeepPrev(c, q) /\ Candidates(q) # {}
      <4>1. to = Found(q) /\ to # c
        BY <1>0, <1>4, <1>6, <3>3
      <4>. QED BY <1>6, <3>3, <4>1
    <3>. QED BY <3>1, <3>2, <3>3
  <2>6. Lists(r, S, priority) /\ Counted(r, S)
    <3>1. CASE to \in {prev, c}
      BY <1>1, <3>1
    <3>2. CASE to \notin {prev, c}
      <4>1. to = Found(q) /\ Candidates(q) # {}
        BY <3>2
      <4>2. to \in S /\ FoundPrio(q) = priority[to]
        BY <1>6, <4>1
      <4>3. r = LinkTail(Unlink(q, to, priority[to]), to, priority[to])
        BY <3>2, <4>2 DEF Rotate
      <4>4. priority[to] \in Prio
        BY <1>0, <1>4, <4>2
      <4>. HIDE DEF to, r, q, S
      <4>. QED BY <1>1, <4>2, <4>3, <4>4, RelinkLists
    <3>. QED BY <3>1, <3>2
  <2>. HIDE DEF to, r
  <2>7. Outcome(c, to)
    BY <1>3, <1>7, <1>8, <2>1, <2>2, <2>3, <2>4, <2>5, <2>6 DEF Outcome
  <2>. QED BY <2>7
<1>. QED BY <1>9, <1>10

(* Every pick has an outcome. *)
LEMMA PickOutcome ==
  ASSUME SInv, NEW c \in Cpus, Pick(c)
  PROVE  \E to : Outcome(c, to)
<1>. DEFINE prev == current[c]
            rq == IF status[prev] = "ZOMBIE"
                  THEN [Unlink(runqueue[c], prev, priority[prev]) EXCEPT !.count = @ - 1]
                  ELSE runqueue[c]
            zq == IF status[prev] = "ZOMBIE" THEN runqueue_enqueue_raw(zombiequeue[c], prev)
                  ELSE zombiequeue[c]
<1>0. /\ c \in Tasks /\ CpuOf(c) = c /\ DOMAIN runqueue = Cpus /\ DOMAIN zombiequeue = Cpus
  BY CpuOfTask DEF SInv, Bound, TypeCore
<1>1. /\ phase[c] = "pick" /\ zombiequeue' = [zombiequeue EXCEPT ![c] = zq]
      /\ IF zq.count > 0
         THEN Chosen(c, c) /\ runqueue' = [runqueue EXCEPT ![c] = rq] /\ status' = status
         ELSE pick_next(c, rq)
  BY DEF Pick, ZOMBIE_MAX
<1>2. zombiequeue'[c] = zq
  BY <1>0, <1>1
<1>3. /\ Lists(runqueue[c], RunSet(c), priority) /\ Counted(runqueue[c], RunSet(c))
      /\ Lists(zombiequeue[c], ZomSet(c), priority) /\ Counted(zombiequeue[c], ZomSet(c))
  BY DEF SInv, Queues
<1>4. CASE status[prev] = "ZOMBIE"
  <2>1. DeadPrev(c) = {prev}
    BY <1>4 DEF DeadPrev
  <2>2. /\ Lists(rq, RunSet(c) \ {prev}, priority) /\ Counted(rq, RunSet(c) \ {prev})
        /\ Lists(zq, ZomSet(c) \cup {prev}, priority) /\ Counted(zq, ZomSet(c) \cup {prev})
        /\ zq.count > 0
    BY <1>1, <1>4, DeadPrevMoves
  <2>. HIDE DEF rq, zq
  <2>3. Chosen(c, c) /\ runqueue'[c] = rq /\ status' = status
    BY <1>0, <1>1, <2>2
  <2>4. Outcome(c, c)
    BY <1>0, <1>2, <2>1, <2>2, <2>3 DEF Outcome
  <2>. QED BY <2>4
<1>5. CASE status[prev] # "ZOMBIE"
  <2>1. DeadPrev(c) = {} /\ rq = runqueue[c] /\ zq = zombiequeue[c]
    BY <1>5 DEF DeadPrev
  <2>2. zombiequeue[c].count \in Int
    BY <1>3 DEF Lists
  <2>3. ZomSet(c) # {} <=> zombiequeue[c].count > 0
    BY <1>3, <2>2, CountedMoves
  <2>. HIDE DEF rq, zq
  <2>4. CASE zombiequeue[c].count > 0
    <3>1. Chosen(c, c) /\ runqueue'[c] = runqueue[c] /\ status' = status
      BY <1>0, <1>1, <2>1, <2>4
    <3>2. RunSet(c) \ {} = RunSet(c) /\ ZomSet(c) \cup {} = ZomSet(c)
      OBVIOUS
    <3>3. Outcome(c, c)
      BY <1>0, <1>2, <1>3, <2>1, <2>3, <2>4, <3>1, <3>2 DEF Outcome
    <3>. QED BY <3>3
  <2>5. CASE ~(zombiequeue[c].count > 0)
    BY <1>1, <1>2, <1>5, <2>1, <2>3, <2>5, PickNextOutcome
  <2>. QED BY <2>4, <2>5
<1>. QED BY <1>4, <1>5

----------------------------------------------------------------------------
(* The pick keeps the invariant. *)

(* What the outcome of a pick says of the statuses. *)
LEMMA OutcomeStatus ==
  ASSUME SInv, NEW c \in Cpus, phase[c] = "pick", NEW to, Outcome(c, to)
  PROVE  /\ status' \in [Tasks -> Status]
         /\ \A d \in Cpus : status'[d] \in {"READY", "RUNNING"}
         /\ \A v \in Threads : v \notin {to, current[c]} => status'[v] = status[v]
         /\ \A v \in Threads : \/ status'[v] = status[v]
                               \/ status[v] \in Live /\ status'[v] \in Live /\ CpuOf(v) = c
         /\ to \in Threads => status'[to] = "RUNNING"
         /\ to \in Threads /\ to # current[c] => status[to] # "RUNNING"
         /\ DeadPrev(c) # {} => to = c
<1>. DEFINE prev == current[c]
<1>0. /\ status \in [Tasks -> Status] /\ (\A d \in Cpus : d \notin Threads) /\ Cpus \subseteq Tasks
      /\ Threads \subseteq Tasks /\ prev \in Tasks /\ CpuOf(prev) = c
      /\ \A d \in Cpus : status[d] \in {"READY", "RUNNING"}
      /\ c \notin Threads
  BY CpuOfTask DEF SInv, TypeCore, Bound
<1>1. CASE status' = status /\ to = c
  BY <1>0, <1>1
<1>2. CASE /\ status' = StatusAfter(prev, to)
           /\ DeadPrev(c) = {}
           /\ to \in Threads => to = prev \/ Eligible(to)
  <2>1. /\ status[prev] # "ZOMBIE" /\ to \in Tasks /\ CpuOf(to) = c
        /\ to \in Threads => to = prev \/ status[to] \in {"READY", "SLEEPING"}
    BY <1>2 DEF DeadPrev, Eligible, Outcome
  <2>2. status' = [t \in Tasks |-> IF t = to THEN "RUNNING"
                     ELSE IF t = prev /\ status[t] = "RUNNING" THEN "READY"
                     ELSE status[t]]
    BY <1>2 DEF StatusAfter
  <2>3. status' \in [Tasks -> Status]
    BY <1>0, <2>2 DEF Status, Live
  <2>4. to \in Threads => status[to] \in Live
    <3>1. prev \in Threads => status[prev] \in Live
      BY <2>1 DEF SInv, CurrentAlive
    <3>. QED BY <2>1, <3>1 DEF Live
  <2>5. \A v \in Threads : \/ status'[v] = status[v]
                           \/ status[v] \in Live /\ status'[v] \in Live /\ CpuOf(v) = c
    BY <1>0, <2>1, <2>2, <2>4 DEF Live
  <2>6. \A d \in Cpus : status'[d] \in {"READY", "RUNNING"}
    BY <1>0, <2>2
  <2>. QED BY <1>0, <1>2, <2>1, <2>2, <2>3, <2>5, <2>6
<1>. QED BY <1>1, <1>2 DEF Outcome

(* __schedule() under the queue lock. *)
LEMMA PickStep ==
  ASSUME SInv, NEW c \in Cpus, Pick(c)
  PROVE  SInv'
<1>. DEFINE prev == current[c]
            D == DeadPrev(c)
<1>1. PICK to : Outcome(c, to)
  BY PickOutcome
<1>2. /\ phase[c] = "pick"
      /\ UNCHANGED <<priority, wakeup_ticks, rcu_nesting, pc, kick_cpu,
                       current, need_resched, preempt_count, active_pml4, g_ticks>>
      /\ DOMAIN runqueue' = Cpus /\ DOMAIN zombiequeue' = Cpus
      /\ \A d \in Cpus \ {c} : runqueue'[d] = runqueue[d] /\ zombiequeue'[d] = zombiequeue[d]
  <2>1. \E r : runqueue' = [runqueue EXCEPT ![c] = r]
    BY DEF Pick, pick_next
  <2>2. \E z : zombiequeue' = [zombiequeue EXCEPT ![c] = z]
    BY DEF Pick
  <2>3. DOMAIN runqueue = Cpus /\ DOMAIN zombiequeue = Cpus
    BY DEF SInv, TypeCore
  <2>4. /\ phase[c] = "pick"
        /\ UNCHANGED <<priority, wakeup_ticks, rcu_nesting, pc, kick_cpu,
                       current, need_resched, preempt_count, active_pml4, g_ticks>>
    BY DEF Pick
  <2>. QED BY <2>1, <2>2, <2>3, <2>4
<1>3. /\ status' \in [Tasks -> Status]
      /\ \A d \in Cpus : status'[d] \in {"READY", "RUNNING"}
      /\ \A v \in Threads : v \notin {to, current[c]} => status'[v] = status[v]
      /\ \A v \in Threads : \/ status'[v] = status[v]
                            \/ status[v] \in Live /\ status'[v] \in Live /\ CpuOf(v) = c
      /\ to \in Threads => status'[to] = "RUNNING"
      /\ to \in Threads /\ to # current[c] => status[to] # "RUNNING"
      /\ D # {} => to = c
  BY <1>1, <1>2, OutcomeStatus
<1>4. to \in Tasks /\ CpuOf(to) = c /\ Chosen(c, to)
  BY <1>1 DEF Outcome
<1>5. /\ Calls'
      /\ outer' \in [Tasks -> Seq(Tasks)] /\ next' \in [Cpus -> Tasks]
      /\ phase' \in [Cpus -> {"body", "pick", "hook", "switch"}]
      /\ to = current[c] => phase'[c] \in {"body", "switch"}
      /\ to # current[c] => phase'[c] = "hook" /\ next'[c] = to
      /\ \A d \in Cpus \ {c} : phase'[d] = phase[d] /\ next'[d] = next[d]
  <2>1. UNCHANGED <<rcu_nesting, current>>
    BY <1>2
  <2>. QED BY <1>2, <1>3, <1>4, <2>1, ChoiceCalls
<1>6. TypeCore'
  BY <1>2, <1>3, <1>5 DEF SInv, TypeCore
<1>7. /\ RunSet(c)' = RunSet(c) \ D /\ ZomSet(c)' = ZomSet(c) \cup D
      /\ \A d \in Cpus \ {c} : RunSet(d)' = RunSet(d) /\ ZomSet(d)' = ZomSet(d)
  <2>1. \A d \in Cpus : Mine(d)' = Mine(d) /\ Mine(d) \subseteq Threads /\ \A v \in Mine(d) : CpuOf(v) = d
    BY DEF Mine, CpuOf
  <2>2. \A v \in Threads : /\ status'[v] \in Live <=> status[v] \in Live
                           /\ status'[v] = "ZOMBIE" <=> status[v] = "ZOMBIE"
    BY <1>3 DEF Live
  <2>3. D = Leaving(c)
    <3>1. CpuOf(prev) = c /\ prev \in Tasks /\ \A d \in Cpus : status[d] # "ZOMBIE"
      BY DEF SInv, Bound, TypeCore
    <3>2. status[prev] = "ZOMBIE" => prev \in Mine(c)
      BY <3>1 DEF Mine, Tasks
    <3>. QED BY <1>2, <3>2 DEF DeadPrev, Leaving
  <2>4. Leaving(c)' = {}
    <3>1. ASSUME NEW v \in Mine(c)', status'[v] = "ZOMBIE", current'[c] = v
          PROVE  phase'[c] = "hook"
      <4>1. v \in Threads /\ status[v] = "ZOMBIE" /\ v = prev /\ v # c
        BY <1>2, <2>1, <2>2, <3>1, CpuOfTask
      <4>2. D # {}
        BY <4>1 DEF DeadPrev
      <4>. QED BY <1>3, <1>5, <4>1, <4>2
    <3>. QED BY <3>1 DEF Leaving
  <2>5. \A d \in Cpus \ {c} : Leaving(d)' = Leaving(d)
    BY <1>2, <1>5, <2>1, <2>2 DEF Leaving
  <2>6. {v \in Mine(c) : status'[v] \in Live} = RunSet(c) \ Leaving(c)
    BY <2>1, <2>2 DEF RunSet, Leaving, Live
  <2>7. {v \in Mine(c) : status'[v] = "ZOMBIE"} = ZomSet(c) \cup Leaving(c)
    BY <2>1, <2>2 DEF ZomSet, Leaving
  <2>8. RunSet(c)' = RunSet(c) \ D /\ ZomSet(c)' = ZomSet(c) \cup D
    BY <2>1, <2>3, <2>4, <2>6, <2>7 DEF RunSet, ZomSet
  <2>9. ASSUME NEW d \in Cpus \ {c} PROVE RunSet(d)' = RunSet(d) /\ ZomSet(d)' = ZomSet(d)
    BY <2>1, <2>2, <2>5 DEF RunSet, ZomSet
  <2>. QED BY <2>8, <2>9
<1>8. Queues'
  <2>1. ASSUME NEW d \in Cpus
        PROVE  /\ Lists(runqueue'[d], RunSet(d)', priority') /\ Counted(runqueue'[d], RunSet(d)')
               /\ Lists(zombiequeue'[d], ZomSet(d)', priority') /\ Counted(zombiequeue'[d], ZomSet(d)')
    <3>1. CASE d = c
      BY <1>1, <1>2, <1>7, <3>1 DEF Outcome
    <3>2. CASE d # c
      BY <1>2, <1>7, <3>2 DEF SInv, Queues
    <3>. QED BY <3>1, <3>2
  <2>. QED BY ZenonT(60), <2>1 DEF Queues, Lists, Counted
<1>9. CurrentAlive'
  <2>1. ASSUME NEW d \in Cpus, current[d] \in Threads
        PROVE  /\ status'[current[d]] \in Live \cup {"ZOMBIE"}
               /\ status'[current[d]] = "ZOMBIE" =>
                    /\ rcu_nesting[current[d]] = 0
                    /\ phase'[d] = "body" => pc[current[d]] = "park"
                    /\ phase'[d] \in {"hook", "switch"} => next'[d] = d
    <3>0. /\ status[current[d]] \in Live \cup {"ZOMBIE"}
          /\ status[current[d]] = "ZOMBIE" =>
              /\ rcu_nesting[current[d]] = 0
              /\ phase[d] = "body" => pc[current[d]] = "park"
              /\ phase[d] \in {"hook", "switch"} => next[d] = d
      BY <2>1 DEF SInv, CurrentAlive
    <3>1. /\ status'[current[d]] \in Live \cup {"ZOMBIE"}
          /\ status'[current[d]] = "ZOMBIE" => status[current[d]] = "ZOMBIE"
      BY <1>3, <2>1, <3>0 DEF Live
    <3>2. CASE d = c
      <4>1. status[prev] = "ZOMBIE" => to = c /\ c # prev
        BY <1>3, <2>1, <3>2, CpuOfTask DEF DeadPrev
      <4>. QED BY <1>5, <3>0, <3>1, <3>2, <4>1
    <3>3. CASE d # c
      BY <1>5, <3>0, <3>1, <3>3
    <3>. QED BY <3>2, <3>3
  <2>. QED BY <1>2, <2>1 DEF CurrentAlive
<1>10. RootInUse'
  <2>1. \A x : CpuOf(x)' = CpuOf(x)
    BY DEF CpuOf
  <2>2. \A d \in Cpus : active_pml4[d] # KernelRoot => active_pml4[d] \in Threads
    BY UserAssumption DEF SInv, TypeCore
  <2>. QED BY <1>2, <1>3, <2>1, <2>2 DEF SInv, RootInUse
<1>. QED BY <1>5, <1>6, <1>8, <1>9, <1>10 DEF SInv, Calls

----------------------------------------------------------------------------
(* The invariant and what it implies. *)

(* The boot state satisfies the invariant: Main alone is queued. *)
LEMMA InitSInv == Init => SInv
<1>. SUFFICES ASSUME Init PROVE SInv
  OBVIOUS
<1>0. /\ Main \in Threads /\ target_cpu[Main] = Bsp /\ Bsp \in Cpus /\ CpuOf(Main) = Bsp
      /\ (\A d \in Cpus : d \notin Threads /\ CpuOf(d) = d /\ d \in Tasks) /\ Threads \subseteq Tasks
  BY MainAssumption, BspAssumption, CpuOfTask DEF CpuOf
<1>1. priority \in [Threads -> Prio] /\ priority = InitPrio
  BY PrioAssumption DEF Init, Prio
<1>2. /\ status = [t \in Tasks |-> IF t = Main THEN "RUNNING" ELSE IF t \in Cpus THEN "READY" ELSE "NEW"]
      /\ outer = [t \in Tasks |-> <<>>] /\ phase = [c \in Cpus |-> "body"] /\ next = [c \in Cpus |-> c]
      /\ current = [c \in Cpus |-> IF c = Bsp THEN Main ELSE c]
      /\ active_pml4 = [c \in Cpus |-> KernelRoot]
  BY DEF Init
<1>3. TypeCore
  <2>1. <<>> \in Seq(Tasks)
    OBVIOUS
  <2>2. outer \in [Tasks -> Seq(Tasks)] /\ status \in [Tasks -> Status]
    BY <1>2, <2>1 DEF Status, Live
  <2>3. 0 \in 0 .. MaxTicks
    BY MaxTicksAssumption
  <2>. QED BY <1>0, <1>1, <1>2, <2>2, <2>3 DEF Init, TypeCore
<1>4. Queues
  <2>1. ASSUME NEW c \in Cpus
        PROVE  /\ RunSet(c) = (IF c = Bsp THEN {Main} ELSE {}) /\ ZomSet(c) = {}
    <3>1. Leaving(c) = {} /\ {t \in Mine(c) : status[t] = "ZOMBIE"} = {}
      BY <1>0, <1>2 DEF Leaving, Mine
    <3>2. {t \in Mine(c) : status[t] \in Live} = (IF c = Bsp THEN {Main} ELSE {})
      BY <1>0, <1>2 DEF Mine, Live
    <3>. QED BY <3>1, <3>2 DEF RunSet, ZomSet
  <2>. DEFINE q == runqueue_enqueue_raw(EmptyQueue, Main)
  <2>2. Lists(EmptyQueue, {}, priority) /\ Counted(EmptyQueue, {})
    BY EmptyLists
  <2>3. Main \in Threads \ {} /\ {} \cup {Main} = {Main}
    BY <1>0
  <2>4. Lists(q, {} \cup {Main}, priority) /\ Counted(q, {} \cup {Main})
    BY <1>1, <2>2, <2>3, EnqueueLists
  <2>5. /\ runqueue = [c \in Cpus |-> IF c = Bsp THEN q ELSE EmptyQueue]
        /\ zombiequeue = [c \in Cpus |-> EmptyQueue]
    BY DEF Init
  <2>. HIDE DEF q
  <2>. QED BY <2>1, <2>2, <2>3, <2>4, <2>5 DEF Queues
<1>5. Bound /\ ChosenOnce /\ SuspendedReaders
  BY <1>0, <1>2 DEF Bound, ChosenOnce, SuspendedReaders
<1>6. CurrentAlive /\ RootInUse
  BY <1>0, <1>2 DEF CurrentAlive, RootInUse, Live
<1>. QED BY <1>3, <1>4, <1>5, <1>6 DEF SInv

(* Every step keeps the invariant. *)
LEMMA NextSInv ==
  ASSUME SInv, [Next /\ UNCHANGED ops]_<<vars, ops>>
  PROVE  SInv'
<1>1. ASSUME NEW c \in Cpus, Cpu(c) PROVE SInv'
  BY <1>1, PickStep, InterruptSteps, HookPreemptedStep, SwitchStep, ReapStep DEF Cpu
<1>2. ASSUME NEW c \in Cpus, NEW slice \in BOOLEAN, Tick(c, slice) PROVE SInv'
  BY <1>2, InterruptSteps
<1>3. ASSUME NEW c \in Cpus, NEW t \in Threads, IrqWake(c, t) PROVE SInv'
  BY <1>3, WakeSteps
<1>4. ASSUME NEW t \in Threads, Thread(t) PROVE SInv'
  <2>1. CASE thread_exit(t)
    BY <2>1, ExitStep
  <2>2. CASE \E u \in Threads : __wake_up_one(t, u)
    BY <2>2, WakeSteps
  <2>3. CASE \E u \in Threads : \E tail \in BOOLEAN : Spawn(t, u, tail)
    BY <2>3, SpawnStep
  <2>4. CASE \E u \in Threads : \E p \in Prio : thread_apply_effective_priority(t, u, p)
    BY <2>4, PriorityStep
  <2>5. CASE \/ schedule(t) \/ schedule_timeout(t) \/ TimeoutReturn(t)
             \/ \E n \in 1 .. MaxTicks : ArmTimeout(t, n)
             \/ Block(t) \/ Park(t)
             \/ preempt_disable(t) \/ preempt_enable(t)
             \/ rcu_read_lock(t) \/ rcu_read_unlock(t)
             \/ ipi_reschedule_cpu(t)
    BY <2>5, LocalSteps
  <2>. QED BY <1>4, <2>1, <2>2, <2>3, <2>4, <2>5 DEF Thread
<1>5. CASE UNCHANGED <<vars, ops>>
  <2>1. /\ UNCHANGED <<status, priority, wakeup_ticks, rcu_nesting, pc, kick_cpu, outer, g_ticks>>
        /\ UNCHANGED <<runqueue, zombiequeue, current, need_resched, preempt_count>>
        /\ UNCHANGED <<active_pml4, phase, next>>
    BY <1>5 DEF vars
  <2>2. TypeCore'
    BY <2>1 DEF SInv, TypeCore
  <2>. QED BY <2>1, <2>2, ThreadStep
<1>. QED BY <1>1, <1>2, <1>3, <1>4, <1>5 DEF Next

(* The invariant holds in every reachable state. *)
THEOREM SchedInvariant == Spec => []SInv
BY InitSInv, NextSInv, PTL DEF Spec

(* A queue with the right lists and count holds what it should. *)
LEMMA ListsHold ==
  ASSUME NEW q, NEW S, Lists(q, S, priority), Counted(q, S)
  PROVE  HoldsExactly(q, S) /\ IsQueue(q)
<1>1. OnQueue(q) = S
  BY ListsOnQueue
<1>2. ASSUME NEW t \in S, NEW p \in Prio
      PROVE  Occurrences(q, t, p) = IF p = priority[t] THEN 1 ELSE 0
  <2>. DEFINE I == {i \in DOMAIN q.heads[p] : q.heads[p][i] = t}
  <2>1. CASE p = priority[t]
    <3>1. PICK k \in DOMAIN q.heads[p] : q.heads[p][k] = t
      BY <2>1 DEF Lists
    <3>2. I = {k}
      BY <3>1 DEF Lists
    <3>3. Cardinality({k}) = 1
      BY FS_Singleton
    <3>. QED BY <2>1, <3>2, <3>3 DEF Occurrences
  <2>2. CASE p # priority[t]
    <3>1. I = {}
      BY <2>2 DEF Lists
    <3>2. Cardinality({}) = 0
      BY FS_EmptySet
    <3>. QED BY <2>2, <3>1, <3>2 DEF Occurrences
  <2>. QED BY <2>1, <2>2
<1>3. q.count \in Nat /\ q.count = Cardinality(S)
  BY FS_CardinalityType DEF Counted
<1>4. /\ DOMAIN q = {"heads", "bitmap", "count"} /\ DOMAIN q.heads = Prio
      /\ q.bitmap \subseteq Prio /\ q.bitmap = {p \in Prio : q.heads[p] # <<>>}
      /\ \A p \in Prio : Elements(q.heads[p]) \subseteq Threads
  BY DEF Lists, Elements
<1>. QED BY <1>1, <1>2, <1>3, <1>4 DEF HoldsExactly, IsQueue

(* The invariant implies the types. *)
LEMMA SInvTypeOK == SInv => TypeOK
<1>. SUFFICES ASSUME SInv PROVE TypeOK
  OBVIOUS
<1>1. \A c \in Cpus : IsQueue(runqueue[c]) /\ IsQueue(zombiequeue[c])
  BY ListsHold DEF SInv, Queues
<1>2. \A t \in Tasks : Elements(outer[t]) \subseteq Tasks
  BY DEF SInv, TypeCore, Elements
<1>3. \A c \in Cpus : CpuOf(current[c]) = c /\ CpuOf(next[c]) = c
  BY DEF SInv, Bound
<1>. QED BY <1>1, <1>2, <1>3 DEF SInv, TypeCore, TypeOK, Status

(* ... that queues hold what they should. *)
LEMMA SInvQueues == SInv => QueuesConsistent
<1>1. ASSUME SInv, NEW c \in Cpus
      PROVE  HoldsExactly(runqueue[c], RunSet(c)) /\ HoldsExactly(zombiequeue[c], ZomSet(c))
  BY <1>1, ListsHold DEF SInv, Queues
<1>. QED BY <1>1 DEF QueuesConsistent, RunSet, ZomSet, Leaving, Mine

(* ... and that what is freed is out of reach. *)
LEMMA SInvFreed == SInv => FreedIsUnused
<1>. SUFFICES ASSUME SInv, NEW t \in Threads, status[t] = "FREED"
              PROVE  /\ \A c \in Cpus : /\ t \notin {current[c], next[c], active_pml4[c]}
                                        /\ t \notin OnQueue(runqueue[c])
                                        /\ t \notin OnQueue(zombiequeue[c])
                     /\ \A u \in Tasks : t \notin Elements(outer[u])
  BY DEF FreedIsUnused
<1>1. ASSUME NEW c \in Cpus
      PROVE  /\ t # current[c] /\ t # next[c] /\ t # active_pml4[c]
             /\ t \notin OnQueue(runqueue[c]) /\ t \notin OnQueue(zombiequeue[c])
  <2>1. t # current[c]
    BY DEF SInv, CurrentAlive, Live
  <2>2. t # next[c]
    BY DEF SInv, ChosenOnce
  <2>3. t # active_pml4[c]
    BY RootAssumption DEF SInv, RootInUse, Live
  <2>4. OnQueue(runqueue[c]) = RunSet(c) /\ OnQueue(zombiequeue[c]) = ZomSet(c)
    BY ListsOnQueue DEF SInv, Queues
  <2>5. t \notin RunSet(c) /\ t \notin ZomSet(c)
    BY DEF RunSet, ZomSet, Leaving, Live
  <2>. QED BY <2>1, <2>2, <2>3, <2>4, <2>5
<1>2. ASSUME NEW u \in Tasks PROVE t \notin Elements(outer[u])
  BY DEF SInv, ChosenOnce, Elements
<1>. QED BY <1>1, <1>2

(* Every variable keeps its type, whatever the number of CPUs and threads. *)
THEOREM SchedTypeCorrect == Spec => []TypeOK
BY SchedInvariant, SInvTypeOK, PTL

(* Every live thread is on its CPU's run queue once, under its effective   *)
(* priority, a dead one on the zombie queue after its last __schedule(),   *)
(* and bitmaps and counts agree with the lists.                            *)
THEOREM QueuesStayConsistent == Spec => []QueuesConsistent
BY SchedInvariant, SInvQueues, PTL

(* What the idle thread frees is current on no CPU, chosen by no           *)
(* __schedule(), suspended or not, in no CR3 and on no queue.              *)
THEOREM NothingFreedInUse == Spec => []FreedIsUnused
BY SchedInvariant, SInvFreed, PTL

----------------------------------------------------------------------------
(* RUNNING means occupying a CPU. *)

(* A step that neither switches nor picks, kills the running thread at     *)
(* most, revives nobody and makes nobody RUNNING.                          *)
LEMMA RunningKept ==
  ASSUME SInv, DeadMakeIdle, NoReaders, UNCHANGED <<ops, current, next>>,
         \A v \in Threads : \/ status'[v] = "ZOMBIE" => status[v] = "ZOMBIE"
                            \/ current[CpuOf(v)] = v /\ phase[CpuOf(v)] = "body",
         \A d \in Cpus : status[current[d]] = "ZOMBIE" => status'[current[d]] = "ZOMBIE",
         \A t \in Tasks : status'[t] = "RUNNING" => status[t] = "RUNNING",
         \A d \in Cpus : phase'[d] \in {"hook", "switch"} <=> phase[d] \in {"hook", "switch"},
         "read" \notin ops => \A t \in Threads : rcu_nesting[t] = 0 => rcu_nesting'[t] = 0
  PROVE  DeadMakeIdle' /\ NoReaders'
<1>0. /\ \A x : CpuOf(x)' = CpuOf(x)
      /\ \A t \in Tasks : CpuOf(t) \in Cpus
      /\ Threads \subseteq Tasks
  BY CpuOfTask DEF CpuOf
<1>1. ASSUME NEW c \in Cpus, NEW t \in Threads, CpuOf(t) = c, status'[t] = "ZOMBIE"
      PROVE  /\ current[c] = c \/ status'[current[c]] = "ZOMBIE"
             /\ phase'[c] \in {"hook", "switch"} => next[c] = c
  <2>1. CASE status[t] = "ZOMBIE"
    BY <1>1, <2>1 DEF DeadMakeIdle
  <2>2. CASE current[c] = t /\ phase[c] = "body"
    <3>1. ~(phase[c] \in {"hook", "switch"})
      BY <2>2
    <3>. QED BY <1>1, <2>2, <3>1
  <2>. QED BY <1>1, <2>1, <2>2
<1>2. DeadMakeIdle'
  BY <1>0, <1>1 DEF DeadMakeIdle
<1>3. \A t \in Tasks : Occupies(t)' <=> Occupies(t)
  BY <1>0 DEF Occupies
<1>4. NoReaders'
  BY <1>3 DEF NoReaders
<1>. QED BY <1>2, <1>4

(* What a thread does, apart from dying and killing. *)
LEMMA RunningThread ==
  ASSUME SInv, DeadMakeIdle, NoReaders, NEW t \in Threads, Thread(t), UNCHANGED ops
  PROVE  DeadMakeIdle' /\ NoReaders'
<1>. DEFINE c == CpuOf(t)
<1>0. /\ status \in [Tasks -> Status] /\ phase \in [Cpus -> {"body", "pick", "hook", "switch"}]
      /\ rcu_nesting \in [Threads -> {0, 1}] /\ (\A d \in Cpus : d \notin Threads)
      /\ Threads \subseteq Tasks /\ c \in Cpus
  BY CpuOfTask DEF SInv, TypeCore
<1>1. /\ UNCHANGED <<ops, current, next>>
      /\ \E label : At(t, label)
  BY DEF Thread, schedule, schedule_timeout, TimeoutReturn, ArmTimeout, Block, thread_exit, Park,
         preempt_disable, preempt_enable, rcu_read_lock, rcu_read_unlock, __wake_up_one, Spawn,
         thread_apply_effective_priority, ipi_reschedule_cpu, cpuVars, threadVars
<1>2. current[c] = t /\ phase[c] = "body"
  BY <1>1, AtFacts
<1>3. phase' = phase \/ phase' = [phase EXCEPT ![c] = "pick"]
  BY DEF Thread, schedule, schedule_timeout, TimeoutReturn, ArmTimeout, Block, thread_exit, Park,
         preempt_disable, preempt_enable, rcu_read_lock, rcu_read_unlock, __wake_up_one, Spawn,
         thread_apply_effective_priority, ipi_reschedule_cpu, cpuVars, threadVars, Enter
<1>4. \A d \in Cpus : phase'[d] \in {"hook", "switch"} <=> phase[d] \in {"hook", "switch"}
  BY <1>0, <1>2, <1>3
<1>5. "read" \notin ops => \A v \in Threads : rcu_nesting[v] = 0 => rcu_nesting'[v] = 0
  <2>1. \/ UNCHANGED rcu_nesting
        \/ "read" \in ops
        \/ rcu_nesting' = [rcu_nesting EXCEPT ![t] = 0]
    BY DEF Thread, schedule, schedule_timeout, TimeoutReturn, ArmTimeout, Block, thread_exit, Park,
         preempt_disable, preempt_enable, rcu_read_lock, rcu_read_unlock, __wake_up_one, Spawn,
         thread_apply_effective_priority, ipi_reschedule_cpu, cpuVars, threadVars
  <2>. QED BY <1>0, <2>1
<1>6. \/ status' = status
      \/ /\ status[t] # "ZOMBIE"
         /\ \E s \in {"SLEEPING", "BLOCKED", "ZOMBIE"} : status' = [status EXCEPT ![t] = s]
      \/ \E u \in Threads : /\ status[u] \in {"BLOCKED", "NEW"}
                            /\ status' = [status EXCEPT ![u] = "READY"]
  <2>1. CASE schedule_timeout(t) \/ Block(t) \/ thread_exit(t)
    <3>1. status[t] # "ZOMBIE"
      BY <2>1, AtFacts DEF schedule_timeout, Block, thread_exit
    <3>. QED BY <2>1, <3>1 DEF schedule_timeout, Block, thread_exit, SetStatus
  <2>2. CASE \E u \in Threads : __wake_up_one(t, u) \/ \E tail \in BOOLEAN : Spawn(t, u, tail)
    BY <2>2 DEF __wake_up_one, Spawn, SetStatus
  <2>3. CASE \/ schedule(t) \/ TimeoutReturn(t) \/ \E n \in 1 .. MaxTicks : ArmTimeout(t, n)
             \/ Park(t) \/ preempt_disable(t) \/ preempt_enable(t)
             \/ rcu_read_lock(t) \/ rcu_read_unlock(t) \/ ipi_reschedule_cpu(t)
             \/ \E u \in Threads : \E p \in Prio : thread_apply_effective_priority(t, u, p)
    BY <2>3 DEF schedule, TimeoutReturn, ArmTimeout, Park, preempt_disable, preempt_enable,
       rcu_read_lock, rcu_read_unlock, thread_apply_effective_priority, ipi_reschedule_cpu, threadVars
  <2>. QED BY <2>1, <2>2, <2>3 DEF Thread
<1>7. \A v \in Threads : \/ status'[v] = "ZOMBIE" => status[v] = "ZOMBIE"
                         \/ current[CpuOf(v)] = v /\ phase[CpuOf(v)] = "body"
  BY <1>0, <1>2, <1>6
<1>8. \A v \in Tasks : status'[v] = "RUNNING" => status[v] = "RUNNING"
  BY <1>0, <1>6
<1>9. \A d \in Cpus : status[current[d]] = "ZOMBIE" => status'[current[d]] = "ZOMBIE"
  <2>1. \A d \in Cpus : current[d] \in Tasks
    BY DEF SInv, TypeCore
  <2>. QED BY <1>0, <1>6, <2>1
<1>. QED BY <1>1, <1>4, <1>5, <1>7, <1>8, <1>9, RunningKept

(* Interrupts, the hook and one turn of idle. *)
LEMMA RunningCpu ==
  ASSUME SInv, DeadMakeIdle, NoReaders, NEW c \in Cpus, UNCHANGED ops,
         \/ Hook(c) \/ IrqReturn(c) \/ IdleLoop(c) \/ \E slice \in BOOLEAN : Tick(c, slice)
         \/ \E t \in Threads : IrqWake(c, t) \/ ReapZombie(c, t)
  PROVE  DeadMakeIdle' /\ NoReaders'
<1>0. /\ status \in [Tasks -> Status] /\ phase \in [Cpus -> {"body", "pick", "hook", "switch"}]
      /\ (\A d \in Cpus : d \notin Threads) /\ current \in [Cpus -> Tasks]
      /\ Threads \subseteq Tasks /\ \A d \in Cpus : CpuOf(current[d]) = d
  BY CpuOfTask DEF SInv, TypeCore, Bound
<1>1. UNCHANGED <<ops, current, next>> /\ UNCHANGED rcu_nesting
  BY DEF Hook, IrqReturn, IdleLoop, Tick, IrqWake, ReapZombie, threadVars, cpuVars
<1>2. \A d \in Cpus : phase'[d] \in {"hook", "switch"} <=> phase[d] \in {"hook", "switch"}
  <2>1. \/ phase' = phase
        \/ phase[c] = "body" /\ phase' = [phase EXCEPT ![c] = "pick"]
        \/ phase[c] = "hook" /\ phase' = [phase EXCEPT ![c] = "switch"]
    BY DEF Hook, IrqReturn, IdleLoop, Tick, IrqWake, ReapZombie, Enter, IrqsOn, cpuVars
  <2>. QED BY <1>0, <2>1
<1>3. /\ \A v \in Threads : status'[v] = "ZOMBIE" => status[v] = "ZOMBIE"
      /\ \A d \in Cpus : status[current[d]] = "ZOMBIE" => status'[current[d]] = "ZOMBIE"
      /\ \A v \in Tasks : status'[v] = "RUNNING" => status[v] = "RUNNING"
  <2>1. CASE Hook(c) \/ IrqReturn(c) \/ IdleLoop(c) \/ \E slice \in BOOLEAN : Tick(c, slice)
    BY <1>1, <2>1 DEF Hook, IrqReturn, IdleLoop, Tick, threadVars
  <2>2. CASE \E t \in Threads : IrqWake(c, t)
    BY <1>0, <1>1, <2>2 DEF IrqWake, SetStatus
  <2>3. CASE \E t \in Threads : ReapZombie(c, t)
    <3>1. PICK z \in Threads : ReapZombie(c, z)
      BY <2>3
    <3>2. status' = [status EXCEPT ![z] = "FREED"] /\ current[c] = c
      BY <3>1 DEF ReapZombie, SetStatus
    <3>3. z \in ZomSet(c) /\ CpuOf(z) = c
      BY <3>1, ReapedIsDead
    <3>4. \A d \in Cpus : current[d] # z
      BY <1>0, <3>2, <3>3
    <3>. QED BY <1>0, <3>2, <3>4
  <2>. QED BY <2>1, <2>2, <2>3
<1>. QED BY <1>1, <1>2, <1>3, RunningKept

(* Without readers no __schedule() call is suspended. *)
LEMMA NothingSuspended ==
  ASSUME SInv
  PROVE  /\ \A c \in Cpus : outer[c] = <<>>
         /\ NoReaders /\ "read" \notin ops => \A t \in Tasks : outer[t] = <<>>
BY CpuOfTask DEF SInv, SuspendedReaders, NoReaders

(* The switch. *)
LEMMA RunningSwitch ==
  ASSUME SInv, DeadMakeIdle, NoReaders, NEW c \in Cpus, UNCHANGED ops, SwitchTo(c) \/ HookPreempted(c)
  PROVE  DeadMakeIdle' /\ NoReaders'
<1>0. /\ status' = status /\ rcu_nesting' = rcu_nesting /\ \A x : CpuOf(x)' = CpuOf(x)
  BY DEF SwitchTo, HookPreempted, CpuOf
<1>1. /\ phase \in [Cpus -> {"body", "pick", "hook", "switch"}] /\ current \in [Cpus -> Tasks]
      /\ next \in [Cpus -> Tasks] /\ \A t \in Tasks : CpuOf(t) \in Cpus
      /\ Threads \subseteq Tasks /\ Cpus \subseteq Tasks
  BY CpuOfTask DEF SInv, TypeCore
<1>2. CASE SwitchTo(c)
  <2>1. /\ phase[c] = "switch" /\ current' = [current EXCEPT ![c] = next[c]]
        /\ phase' = [phase EXCEPT ![c] = IF outer[next[c]] = <<>> THEN "body" ELSE "switch"]
        /\ \A d \in Cpus \ {c} : next'[d] = next[d]
    BY <1>1, <1>2 DEF SwitchTo, Return
  <2>2. /\ current'[c] = next[c] /\ \A d \in Cpus \ {c} : current'[d] = current[d] /\ phase'[d] = phase[d]
        /\ phase'[c] = IF outer[next[c]] = <<>> THEN "body" ELSE "switch"
    BY <1>1, <2>1
  <2>3. ASSUME NEW d \in Cpus, NEW t \in Threads, CpuOf(t) = d, status[t] = "ZOMBIE"
        PROVE  /\ current'[d] = d \/ status[current'[d]] = "ZOMBIE"
               /\ phase'[d] \in {"hook", "switch"} => next'[d] = d
    <3>1. CASE d = c
      <4>1. next[c] = c /\ outer[c] = <<>>
        BY <2>1, <2>3, <3>1, NothingSuspended DEF DeadMakeIdle
      <4>. QED BY <2>2, <3>1, <4>1
    <3>2. CASE d # c
      BY <2>1, <2>2, <2>3, <3>2 DEF DeadMakeIdle
    <3>. QED BY <3>1, <3>2
  <2>4. ASSUME "read" \notin ops, NEW t \in Tasks, status[t] = "RUNNING" PROVE Occupies(t)'
    <3>1. CASE CpuOf(t) = c
      <4>1. t = next[c]
        BY <2>1, <2>4, <3>1 DEF NoReaders, Occupies
      <4>2. phase'[c] = "body"
        BY <1>1, <2>2, <2>4, NothingSuspended
      <4>. QED BY <1>0, <2>2, <3>1, <4>1, <4>2 DEF Occupies
    <3>2. CASE CpuOf(t) # c
      BY <1>0, <1>1, <2>1, <2>2, <2>4, <3>2 DEF NoReaders, Occupies
    <3>. QED BY <3>1, <3>2
  <2>5. DeadMakeIdle'
    BY <1>0, <2>3 DEF DeadMakeIdle
  <2>6. NoReaders'
    BY <1>0, <2>4 DEF NoReaders
  <2>. QED BY <2>5, <2>6
<1>3. CASE HookPreempted(c)
  <2>1. /\ phase' = [phase EXCEPT ![c] = "pick"] /\ current' = current
        /\ next' = [next EXCEPT ![c] = c] /\ current[c] \in Threads /\ rcu_nesting[current[c]] > 0
    BY <1>3 DEF HookPreempted, Enter, InReadSection
  <2>2. /\ phase'[c] = "pick" /\ \A d \in Cpus \ {c} : next'[d] = next[d] /\ phase'[d] = phase[d]
    BY <1>1, <2>1
  <2>3. DeadMakeIdle'
    BY <1>0, <2>1, <2>2 DEF DeadMakeIdle
  <2>4. NoReaders'
    BY <1>0, <2>1 DEF NoReaders
  <2>. QED BY <2>3, <2>4
<1>. QED BY <1>2, <1>3

(* The pick. *)
LEMMA RunningPick ==
  ASSUME SInv, DeadMakeIdle, NoReaders, NEW c \in Cpus, UNCHANGED ops, Pick(c)
  PROVE  DeadMakeIdle' /\ NoReaders'
<1>. DEFINE prev == current[c]
<1>1. PICK to : Outcome(c, to)
  BY PickOutcome
<1>2. /\ phase[c] = "pick" /\ UNCHANGED <<rcu_nesting, current>> /\ \A x : CpuOf(x)' = CpuOf(x)
  BY DEF Pick, CpuOf
<1>3. /\ phase \in [Cpus -> {"body", "pick", "hook", "switch"}] /\ current \in [Cpus -> Tasks]
      /\ next \in [Cpus -> Tasks] /\ \A t \in Tasks : CpuOf(t) \in Cpus
      /\ Threads \subseteq Tasks /\ Cpus \subseteq Tasks
      /\ \A d \in Cpus : CpuOf(d) = d /\ d \notin Threads
      /\ \A d \in Cpus : CpuOf(current[d]) = d /\ status[d] # "ZOMBIE"
      /\ outer[c] = <<>>
  BY CpuOfTask, NothingSuspended DEF SInv, TypeCore, Bound
<1>4. /\ to \in Tasks /\ CpuOf(to) = c
      /\ \/ to = prev /\ Return(c, to)
         \/ to # prev /\ next' = [next EXCEPT ![c] = to] /\ phase' = [phase EXCEPT ![c] = "hook"]
  BY <1>1 DEF Outcome, Chosen
<1>5. /\ \A d \in Cpus \ {c} : next'[d] = next[d] /\ phase'[d] = phase[d]
      /\ to # prev => next'[c] = to /\ phase'[c] = "hook"
      /\ to = prev /\ outer[to] = <<>> => phase'[c] = "body" /\ next'[c] = c
  BY <1>3, <1>4 DEF Return
<1>6. \A v \in Threads : \/ status'[v] = status[v]
                         \/ status[v] \in Live /\ status'[v] \in Live /\ CpuOf(v) = c
  BY <1>1, <1>2, OutcomeStatus
<1>7. \A v \in Threads : status'[v] = "ZOMBIE" <=> status[v] = "ZOMBIE"
  BY <1>6 DEF Live
<1>8. ASSUME NEW d \in Cpus, NEW t \in Threads, CpuOf(t) = d, status'[t] = "ZOMBIE"
      PROVE  /\ current[d] = d \/ status'[current[d]] = "ZOMBIE"
             /\ phase'[d] \in {"hook", "switch"} => next'[d] = d
  <2>1. status[t] = "ZOMBIE"
    BY <1>7, <1>8
  <2>2. /\ current[d] = d \/ status[current[d]] = "ZOMBIE"
        /\ phase[d] \in {"hook", "switch"} => next[d] = d
    BY <1>8, <2>1 DEF DeadMakeIdle
  <2>3. current[d] = d \/ status'[current[d]] = "ZOMBIE"
    <3>1. current[d] = d \/ current[d] \in Threads
      BY <1>3, <2>2 DEF Tasks
    <3>. QED BY <1>7, <2>2, <3>1
  <2>4. CASE d = c
    <3>1. t \in ZomSet(c) \/ t \in DeadPrev(c)
      BY <1>2, <1>8, <2>1, <2>4 DEF ZomSet, Leaving, DeadPrev, Mine
    <3>2. to = c
      BY <1>1, <3>1 DEF Outcome
    <3>. QED BY <1>3, <1>5, <2>3, <2>4, <3>2
  <2>5. CASE d # c
    BY <1>5, <2>2, <2>3, <2>5
  <2>. QED BY <2>4, <2>5
<1>9. ASSUME "read" \notin ops, NEW t \in Tasks, status'[t] = "RUNNING" PROVE Occupies(t)'
  <2>1. CASE CpuOf(t) # c
    <3>1. status[t] = "RUNNING"
      <4>1. CASE t \in Threads
        BY <1>6, <1>9, <2>1, <4>1
      <4>2. CASE t \notin Threads
        <5>1. t # to /\ t # prev
          BY <1>3, <1>4, <2>1
        <5>. QED BY <1>1, <1>9, <5>1 DEF Outcome, StatusAfter
      <4>. QED BY <4>1, <4>2
    <3>. QED BY <1>2, <1>3, <1>5, <1>9, <2>1, <3>1 DEF NoReaders, Occupies
  <2>2. CASE CpuOf(t) = c
    <3>1. status[t] = "RUNNING" => t = prev
      BY <1>2, <1>9, <2>2 DEF NoReaders, Occupies
    <3>2. outer[to] = <<>>
      BY <1>4, <1>9, NothingSuspended
    <3>3. t = to
      <4>1. CASE /\ status' = status /\ to = c
                 /\ DeadPrev(c) # {} \/ ZomSet(c) # {} \/ current[c] = c
        <5>1. t = prev
          BY <1>9, <3>1, <4>1
        <5>2. DeadPrev(c) = {}
          BY <1>9, <4>1, <5>1 DEF DeadPrev
        <5>3. ZomSet(c) # {} => prev = c
          BY <1>9, <4>1, <5>1 DEF DeadMakeIdle, ZomSet, Mine
        <5>. QED BY <4>1, <5>1, <5>2, <5>3
      <4>2. CASE status' = StatusAfter(current[c], to)
        <5>1. t # to => status'[t] = IF t = prev /\ status[t] = "RUNNING" THEN "READY" ELSE status[t]
          BY <4>2 DEF StatusAfter
        <5>. QED BY <1>9, <3>1, <5>1
      <4>. QED BY <1>1, <4>1, <4>2 DEF Outcome
    <3>. QED BY <1>2, <1>5, <2>2, <3>2, <3>3 DEF Occupies
  <2>. QED BY <2>1, <2>2
<1>10. DeadMakeIdle'
  BY <1>2, <1>8 DEF DeadMakeIdle
<1>11. NoReaders'
  BY <1>2, <1>9 DEF NoReaders
<1>. QED BY <1>10, <1>11

----------------------------------------------------------------------------
(* The invariant with what RUNNING means. *)
RInv == SInv /\ DeadMakeIdle /\ NoReaders

(* ... holds in every reachable state. *)
THEOREM RunningInvariant == Spec => []RInv
<1>1. Init => RInv
  <2>. SUFFICES ASSUME Init PROVE RInv
    OBVIOUS
  <2>1. SInv
    BY InitSInv
  <2>2. /\ Main \in Threads /\ CpuOf(Main) = Bsp /\ Bsp \in Cpus
        /\ (\A d \in Cpus : d \notin Threads) /\ Threads \subseteq Tasks
    BY MainAssumption, BspAssumption, CpuOfTask DEF CpuOf
  <2>3. DeadMakeIdle
    BY <2>2 DEF Init, DeadMakeIdle
  <2>4. NoReaders
    BY <2>2 DEF Init, NoReaders, Occupies
  <2>. QED BY <2>1, <2>3, <2>4 DEF RInv
<1>2. RInv /\ [Next /\ UNCHANGED ops]_<<vars, ops>> => RInv'
  <2>. SUFFICES ASSUME RInv, [Next /\ UNCHANGED ops]_<<vars, ops>> PROVE RInv'
    OBVIOUS
  <2>1. SInv /\ DeadMakeIdle /\ NoReaders /\ SInv'
    BY NextSInv DEF RInv
  <2>2. CASE Next /\ UNCHANGED ops
    <3>1. DeadMakeIdle' /\ NoReaders'
      BY <2>1, <2>2, RunningThread, RunningCpu, RunningSwitch, RunningPick DEF Next, Cpu
    <3>. QED BY <2>1, <3>1 DEF RInv
  <2>3. CASE UNCHANGED <<vars, ops>>
    <3>1. UNCHANGED <<ops, status, rcu_nesting, current, phase, next>>
      BY <2>3 DEF vars
    <3>2. DeadMakeIdle' /\ NoReaders'
      BY <2>1, <3>1 DEF DeadMakeIdle, NoReaders, Occupies, CpuOf
    <3>. QED BY <2>1, <3>2 DEF RInv
  <2>. QED BY <2>2, <2>3
<1>. QED BY <1>1, <1>2, PTL DEF Spec

(* Without readers a RUNNING thread has its CPU or is about to get it:     *)
(* none is left RUNNING where pick_next cannot see it.                     *)
THEOREM RunningOnItsCpu == Spec => []RunningWithoutReaders
<1>1. RInv => RunningWithoutReaders
  BY DEF RInv, NoReaders, Occupies, RunningWithoutReaders, RunningIsCurrent
<1>. QED BY <1>1, RunningInvariant, PTL

(* Only a pick leaves the "pick" step. *)
LEMMA OnlyPickLeaves ==
  ASSUME SInv, Next, NEW c \in Cpus, phase[c] = "pick", phase'[c] # "pick"
  PROVE  Pick(c)
<1>0. phase \in [Cpus -> {"body", "pick", "hook", "switch"}]
  BY DEF SInv, TypeCore
<1>1. ASSUME NEW t \in Threads, Thread(t) PROVE FALSE
  <2>1. phase' = phase \/ phase' = [phase EXCEPT ![CpuOf(t)] = "pick"]
    BY <1>1 DEF Thread, schedule, schedule_timeout, TimeoutReturn, ArmTimeout, Block, thread_exit, Park,
         preempt_disable, preempt_enable, rcu_read_lock, rcu_read_unlock, __wake_up_one, Spawn,
         thread_apply_effective_priority, ipi_reschedule_cpu, cpuVars, threadVars, Enter
  <2>. QED BY <1>0, <2>1
<1>2. ASSUME NEW d \in Cpus, NEW slice \in BOOLEAN, Tick(d, slice) PROVE FALSE
  BY <1>2 DEF Tick
<1>3. ASSUME NEW d \in Cpus, NEW t \in Threads, IrqWake(d, t) PROVE FALSE
  BY <1>3 DEF IrqWake
<1>4. ASSUME NEW d \in Cpus, Cpu(d), ~Pick(c) PROVE FALSE
  <2>1. CASE Pick(d)
    <3>1. d # c
      BY SMTT(60), <1>4, <2>1
    <3>2. \E x : phase' = [phase EXCEPT ![d] = x]
      BY ZenonT(60), <2>1 DEF Pick, pick_next, Chosen, Return
    <3>. QED BY <1>0, <3>1, <3>2
  <2>2. CASE \/ Hook(d) \/ HookPreempted(d) \/ SwitchTo(d) \/ IrqReturn(d) \/ IdleLoop(d)
             \/ \E t \in Threads : ReapZombie(d, t)
    <3>1. phase[d] # "pick" /\ (phase' = phase \/ \E x : phase' = [phase EXCEPT ![d] = x])
      BY <2>2 DEF Hook, HookPreempted, SwitchTo, IrqReturn, IdleLoop, ReapZombie, Enter, Return, IrqsOn, cpuVars
    <3>. QED BY <1>0, <3>1
  <2>. QED BY <1>4, <2>1, <2>2 DEF Cpu
<1>. QED BY <1>1, <1>2, <1>3, <1>4 DEF Next

(* pick_next never passes over a ready thread for one of lower priority,   *)
(* and idles only when none is ready or the dead wait to be reaped.        *)
THEOREM PicksHighest == Spec => PicksHighestPriority
<1>1. ASSUME SInv, Next, NEW c \in Cpus, phase[c] = "pick", phase'[c] # "pick"
      PROVE  LET chosen == IF phase'[c] = "hook" THEN next'[c] ELSE current[c]
                 ready == {t \in Threads : CpuOf(t) = c /\ status[t] = "READY"}
             IN  IF chosen = c
                   THEN ready = {} \/ zombiequeue'[c].count > 0
                   ELSE \A t \in ready : priority[chosen] <= priority[t]
  <2>. DEFINE chosen == IF phase'[c] = "hook" THEN next'[c] ELSE current[c]
              ready == {t \in Threads : CpuOf(t) = c /\ status[t] = "READY"}
  <2>1. Pick(c)
    BY <1>1, OnlyPickLeaves
  <2>2. PICK to : Outcome(c, to)
    BY <1>1, <2>1, PickOutcome
  <2>3. phase \in [Cpus -> {"body", "pick", "hook", "switch"}] /\ next \in [Cpus -> Tasks]
    BY <1>1 DEF SInv, TypeCore
  <2>4. chosen = to
    <3>1. Chosen(c, to)
      BY <2>2 DEF Outcome
    <3>2. CASE to = current[c]
      <4>1. phase'[c] # "hook"
        BY <2>3, <3>1, <3>2 DEF Chosen, Return
      <4>. QED BY <3>2, <4>1
    <3>3. CASE to # current[c]
      <4>1. phase'[c] = "hook" /\ next'[c] = to
        BY <2>3, <3>1, <3>3 DEF Chosen
      <4>. QED BY <4>1
    <3>. QED BY <3>2, <3>3
  <2>5. \A t \in ready : t \in RunSet(c) /\ Eligible(t)
    BY DEF RunSet, Mine, Live, Eligible
  <2>6. ZomSet(c) \cup DeadPrev(c) # {} => zombiequeue'[c].count > 0
    <3>. DEFINE q == zombiequeue'[c]
                Z == ZomSet(c) \cup DeadPrev(c)
    <3>1. Counted(q, Z) /\ q.count \in Int
      BY <2>2 DEF Outcome, Lists
    <3>. HIDE DEF q, Z
    <3>2. Z # {} <=> q.count > 0
      BY <3>1, CountedMoves
    <3>. QED BY <3>2 DEF q, Z
  <2>7. IF to = c
         THEN (\A t \in RunSet(c) : ~Eligible(t)) \/ ZomSet(c) \cup DeadPrev(c) # {}
         ELSE \A t \in RunSet(c) : Eligible(t) => priority[to] <= priority[t]
    BY <2>2 DEF Outcome
  <2>. HIDE DEF chosen, ready
  <2>8. IF chosen = c THEN ready = {} \/ zombiequeue'[c].count > 0
        ELSE \A t \in ready : priority[chosen] <= priority[t]
    BY <2>4, <2>5, <2>6, <2>7
  <2>. QED BY <2>8 DEF chosen, ready
<1>. DEFINE Best == \A c \in Cpus : phase[c] = "pick" /\ phase'[c] # "pick" =>
          LET chosen == IF phase'[c] = "hook" THEN next'[c] ELSE current[c]
              ready == {t \in Threads : CpuOf(t) = c /\ status[t] = "READY"}
          IN  IF chosen = c
                THEN ready = {} \/ zombiequeue'[c].count > 0
                ELSE \A t \in ready : priority[chosen] <= priority[t]
<1>2. SInv /\ [Next /\ UNCHANGED ops]_<<vars, ops>> => [Best]_vars
  BY <1>1
<1>. HIDE DEF Best
<1>3. Spec => [][Best]_vars
  BY <1>2, SchedInvariant, PTL DEF Spec
<1>. QED BY <1>3, PTL DEF PicksHighestPriority, Best
=============================================================================
