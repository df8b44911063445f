---------------------------- MODULE E1000Proofs -----------------------------
(***************************************************************************)
(* Proofs about the e1000 driver, for every size of its rings, pool, queue *)
(* and ARP cache, every number of pages and all traffic: the types, the    *)
(* ARP cache, the truth of a send's return value, the ownership of pages   *)
(* and the order of delivery.                                              *)
(***************************************************************************)
EXTENDS E1000, FiniteSetTheorems, WellFoundedInduction, TLAPS

----------------------------------------------------------------------------
(* A set of naturals that is not empty has a least member. *)
LEMMA LeastNatural ==
  ASSUME NEW S \in SUBSET Nat, S # {}
  PROVE  \E x \in S : \A y \in S : x <= y
<1>. DEFINE R == {ss \in Nat \X Nat : ss[1] < ss[2]}
<1>1. IsWellFoundedOn(R, Nat)
  BY NatLessThanWellFounded DEF OpToRel
<1>. HIDE DEF R
<1>2. PICK x \in S : \A y \in S : ~ (<<y, x>> \in R)
  BY <1>1, WFMin
<1>3. \A y \in S : ~ (y < x)
  BY <1>2 DEF R
<1>. QED BY <1>3

(* Min and Max of what has a least or a greatest member. *)
LEMMA MinIs ==
  ASSUME NEW S \in SUBSET Nat, S # {}
  PROVE  Min(S) \in S /\ \A y \in S : Min(S) <= y
BY LeastNatural DEF Min

(* The smaller of two numbers. *)
LEMMA MinOfTwo ==
  ASSUME NEW a \in Nat, NEW b \in Nat
  PROVE  /\ Min({a, b}) \in Nat /\ Min({a, b}) <= a /\ Min({a, b}) <= b
         /\ Min({a, b}) \in {a, b}
<1>1. {a, b} \in SUBSET Nat /\ {a, b} # {}
  OBVIOUS
<1>. QED BY <1>1, MinIs

(* The greater of two numbers. *)
LEMMA MaxOfTwo ==
  ASSUME NEW a \in Nat, NEW b \in Nat
  PROVE  Max({a, b}) \in Nat /\ Max({a, b}) >= a /\ Max({a, b}) >= b
<1>1. \E x \in {a, b} : \A y \in {a, b} : x >= y
  OBVIOUS
<1>2. Max({a, b}) \in {a, b} /\ \A y \in {a, b} : Max({a, b}) >= y
  BY <1>1 DEF Max
<1>. QED BY <1>2

(* Every rank below the number of free pages has its page. *)
LEMMA EveryRank ==
  ASSUME pmm \in SUBSET Nat, IsFiniteSet(pmm), NEW k \in Nat, k < Cardinality(pmm)
  PROVE  \E f \in pmm : Rank(f) = k
<1>. DEFINE Bad == {n \in Nat : n < Cardinality(pmm) /\ ~ \E f \in pmm : Rank(f) = n}
<1>. SUFFICES ASSUME Bad # {} PROVE FALSE
  OBVIOUS
<1>0. Cardinality(pmm) \in Nat
  BY FS_CardinalityType
<1>1. PICK n \in Bad : \A y \in Bad : n <= y
  BY LeastNatural
<1>. DEFINE Low(f) == {g \in pmm : g < f}
<1>2. \A f \in pmm : IsFiniteSet(Low(f)) /\ Low(f) \subseteq pmm
  BY FS_Subset
<1>3. PICK T \in SUBSET pmm : /\ IsFiniteSet(T) /\ Cardinality(T) = n
                              /\ \A g \in T : \A h \in pmm : h < g => h \in T
  <2>1. CASE n = 0
    <3>1. Cardinality({}) = 0 /\ IsFiniteSet({})
      BY FS_EmptySet
    <3>. QED BY <2>1, <3>1
  <2>2. CASE n # 0
    <3>1. n - 1 \in Nat /\ n - 1 < Cardinality(pmm) /\ n - 1 \notin Bad
      BY <1>0, <1>1, <2>2
    <3>2. PICK f \in pmm : Rank(f) = n - 1
      BY <3>1
    <3>. DEFINE U == Low(f) \cup {f}
    <3>3. f \notin Low(f) /\ IsFiniteSet(Low(f)) /\ Cardinality(Low(f)) = n - 1
      BY <1>2, <3>2 DEF Rank
    <3>4. IsFiniteSet(U) /\ Cardinality(U) = n
      <4>. DEFINE L == Low(f)
      <4>. HIDE DEF L
      <4>1. f \notin L /\ IsFiniteSet(L) /\ Cardinality(L) = n - 1 /\ n \in Nat
        BY <3>3 DEF L
      <4>2. IsFiniteSet(L \cup {f}) /\ Cardinality(L \cup {f}) = Cardinality(L) + 1
        BY <4>1, FS_AddElement
      <4>. QED BY <4>1, <4>2 DEF L
    <3>5. \A g \in U : \A h \in pmm : h < g => h \in U
      OBVIOUS
    <3>. QED BY <3>4, <3>5
  <2>. QED BY <2>1, <2>2
<1>4. pmm \ T # {}
  <2>1. n < Cardinality(pmm)
    BY <1>1
  <2>2. CASE pmm \ T = {}
    <3>1. pmm = T
      BY <2>2
    <3>. QED BY <1>0, <1>3, <2>1, <3>1
  <2>. QED BY <2>2
<1>5. PICK f \in pmm \ T : \A y \in pmm \ T : f <= y
  BY <1>4, LeastNatural
<1>6. Low(f) = T
  <2>1. ASSUME NEW g \in pmm PROVE g < f <=> g \in T
    <3>1. g \in Nat /\ f \in Nat /\ f \in pmm /\ f \notin T
      BY <1>5
    <3>2. g \notin T => f <= g
      BY <1>5
    <3>3. g \in T => ~(f < g) /\ f # g
      BY <1>3, <3>1
    <3>. QED BY <3>1, <3>2, <3>3
  <2>. QED BY <1>3, <2>1
<1>7. Rank(f) = n
  BY <1>3, <1>6 DEF Rank
<1>. QED BY <1>1, <1>7

(* pmm_alloc called n times yields different free pages. *)
LEMMA LowestPages ==
  ASSUME NEW n \in Nat, pmm \in SUBSET (1 .. total), total \in Nat
  PROVE  /\ Lowest(n) \in Seq(pmm) /\ Len(Lowest(n)) <= n
         /\ DOMAIN Lowest(n) = 1 .. Len(Lowest(n)) /\ Len(Lowest(n)) \in Nat
         /\ \A i, j \in DOMAIN Lowest(n) : Lowest(n)[i] = Lowest(n)[j] => i = j
<1>1. IsFiniteSet(pmm) /\ Cardinality(pmm) \in Nat /\ pmm \in SUBSET Nat
  <2>1. IsFiniteSet(1 .. total)
    BY FS_Interval
  <2>2. IsFiniteSet(pmm)
    BY <2>1, FS_Subset
  <2>3. Cardinality(pmm) \in Nat
    BY <2>2, FS_CardinalityType
  <2>. QED BY <2>2, <2>3
<1>. DEFINE m == Min({n, Cardinality(pmm)})
<1>2. m \in Nat /\ m <= n /\ m <= Cardinality(pmm)
  BY <1>1, MinOfTwo
<1>. HIDE DEF m
<1>. DEFINE page(k) == CHOOSE f \in pmm : Rank(f) = k - 1
<1>3. ASSUME NEW k \in 1 .. m PROVE page(k) \in pmm /\ Rank(page(k)) = k - 1
  <2>1. k - 1 \in Nat /\ k - 1 < Cardinality(pmm)
    BY <1>1, <1>2
  <2>2. \E f \in pmm : Rank(f) = k - 1
    BY <1>1, <2>1, EveryRank
  <2>. QED BY <2>2
<1>. HIDE DEF page
<1>4. Lowest(n) = [k \in 1 .. m |-> page(k)]
  BY DEF Lowest, m, page
<1>5. Lowest(n) \in Seq(pmm) /\ Len(Lowest(n)) = m
  BY <1>2, <1>3, <1>4
<1>6. DOMAIN Lowest(n) = 1 .. m
  BY <1>4
<1>7. ASSUME NEW i \in 1 .. m, NEW j \in 1 .. m, Lowest(n)[i] = Lowest(n)[j] PROVE i = j
  <2>1. page(i) = page(j)
    BY <1>4, <1>7
  <2>2. i - 1 = j - 1
    BY <1>3, <2>1
  <2>. QED BY <2>2
<1>. QED BY <1>2, <1>5, <1>6, <1>7

----------------------------------------------------------------------------
(* Types, and what the driver's state says of the rings: EInv is           *)
(* inductive, TypeOK alone is not (a loaded ring has its descriptors, a    *)
(* loop that does not run yet is idle, a batch that is to be released has  *)
(* its first descriptor completed).                                        *)
Page == 0 .. total
RxDesc == [RxSlots -> [buf : Page, dd : BOOLEAN]]
TxDesc == [TxSlots -> [buf : Page, dd : BOOLEAN, pkt : Nat]]
RxDescs == RxDesc \cup {<<>>}
TxDescs == TxDesc \cup {<<>>}

Basics ==
    /\ mode \in 1 .. 5 /\ total \in Nat /\ pmm \in SUBSET (1 .. total)
    /\ state \in {"probe", "rx_ready", "loaded", "running", "failed"}
    /\ turn \in {"poll", "proc"} /\ wire \in Nat /\ timeouts \in Nat /\ exhausted \in BOOLEAN
RxType ==
    rx \in [page : Page, desc : RxDescs, rx_tail : RxSlots, RDH : RxSlots,
            RDT : RxSlots, RCTL_EN : BOOLEAN]
TxType ==
    tx \in [page : Page, desc : TxDescs, tx_tail : TxSlots, TDH : TxSlots,
            TDT : TxSlots, hand : Nat]
MemType == mem \in [Page -> Nat]
ListType == pool \in Seq(Page) /\ queue \in Seq(Page)
PollType ==
    poll \in [pc : {"scan", "alloc", "push", "bind", "publish", "release"}, i : RxSlots, n : Nat,
              new : Page]
ProcType ==
    proc \in [pc : {"idle", "handle", "send", "wait", "release"}, buf : Page, pkt : Nat,
              slot : TxSlots, processed : Nat]
ArpType == DOMAIN arp = 1 .. ARP_CACHE_SIZE /\ \A s \in DOMAIN arp : arp[s].valid \in BOOLEAN
HistType == got \in Seq(Nat) /\ handled \in Seq(Nat) /\ sent \in Seq(Nat) /\ acked \in Seq(Nat)

Types ==
    /\ Basics /\ RxType /\ TxType /\ MemType /\ ListType /\ PollType /\ ProcType /\ ArpType
    /\ HistType

RxLoaded ==
    /\ IF state \in {"rx_ready", "loaded", "running"} THEN rx.desc \in RxDesc /\ rx.page # NULL
       ELSE rx = NoRx
    /\ state \in {"rx_ready", "loaded"} => \A i \in RxSlots : rx.desc[i].buf # NULL
TxLoaded ==
    /\ IF state \in {"loaded", "running"} THEN tx.desc \in TxDesc /\ tx.page # NULL ELSE tx = NoTx
    /\ tx.TDT = tx.tx_tail
Idle ==
    state # "running" => /\ pool = <<>> /\ queue = <<>> /\ poll.pc = "scan" /\ poll.n = 0
                         /\ poll.new = NULL /\ poll.i = 0 /\ proc.pc = "idle" /\ proc.buf = NULL
                         /\ turn = "poll" /\ handled = <<>>
Loaded == RxLoaded /\ TxLoaded /\ Idle

(* What is polled fits the arrays. *)
Fits ==
    /\ Len(pool) <= RX_FREE_POOL_SIZE
    /\ Len(queue) <= IF mode \in {4, 5} THEN RX_QUEUE_SIZE ELSE RX_BATCH_MAX
    /\ mode = 3 /\ turn = "poll" => Len(queue) = poll.n
    /\ mode = 3 /\ turn = "proc" => poll.n = 0
    /\ poll.pc = "release" => mode = 2 /\ poll.n > 0 /\ Ready(rx.rx_tail)

EInv == Types /\ Loaded /\ Fits

(* Slots are numbers modulo the size of the ring. *)
LEMMA Slots ==
  /\ \A a \in Nat : a % NUM_RX_DESC \in RxSlots /\ a % NUM_TX_DESC \in TxSlots
  /\ \A i \in RxSlots : i \in Nat /\ NextRx(i) \in RxSlots
  /\ \A i \in TxSlots : i \in Nat /\ NextTx(i) \in TxSlots
  /\ 0 \in RxSlots /\ 0 \in TxSlots /\ NUM_RX_DESC - 1 \in RxSlots
BY E1000Assumption DEF RxSlots, TxSlots, NextRx, NextTx

(* The run of completed descriptors. *)
LEMMA ReadyRunIs ==
  ASSUME NEW n \in Nat, rx.rx_tail \in RxSlots
  PROVE  /\ ReadyRun(n) \in Seq(RxSlots) /\ Len(ReadyRun(n)) \in Nat
         /\ Len(ReadyRun(n)) <= n /\ Len(ReadyRun(n)) <= NUM_RX_DESC
         /\ DOMAIN ReadyRun(n) = 1 .. Len(ReadyRun(n))
         /\ \A k \in 1 .. Len(ReadyRun(n)) :
               /\ ReadyRun(n)[k] = (rx.rx_tail + (k - 1)) % NUM_RX_DESC
               /\ Ready(ReadyRun(n)[k])
         /\ n > 0 /\ Ready(rx.rx_tail) => Len(ReadyRun(n)) > 0
         /\ n <= NUM_RX_DESC /\ (\A j \in 0 .. n - 1 : Ready((rx.rx_tail + j) % NUM_RX_DESC)) =>
               Len(ReadyRun(n)) = n
<1>. DEFINE at(k) == (rx.rx_tail + k) % NUM_RX_DESC
            m == Min({n, NUM_RX_DESC})
            ks == {k \in 0 .. m : \A j \in 0 .. k - 1 : Ready(at(j))}
            M == Max(ks)
<1>1. m \in Nat /\ m <= n /\ m <= NUM_RX_DESC /\ NUM_RX_DESC \in Nat /\ NUM_RX_DESC > 1
      /\ m \in {n, NUM_RX_DESC} /\ rx.rx_tail \in Nat
  <2>1. NUM_RX_DESC \in Nat /\ NUM_RX_DESC > 1
    BY E1000Assumption
  <2>2. m \in Nat /\ m <= n /\ m <= NUM_RX_DESC /\ m \in {n, NUM_RX_DESC}
    BY <2>1, MinOfTwo
  <2>3. rx.rx_tail \in Nat
    BY Slots
  <2>. QED BY <2>1, <2>2, <2>3
<1>. HIDE DEF m
<1>2. 0 \in ks /\ ks \subseteq 0 .. m
  BY <1>1
<1>3. M \in ks /\ \A k \in ks : M >= k
  <2>. DEFINE below == {m - k : k \in ks}
  <2>1. below \in SUBSET Nat /\ below # {}
    BY <1>1, <1>2
  <2>2. PICK x \in below : \A y \in below : x <= y
    BY <2>1, LeastNatural
  <2>3. PICK k \in ks : x = m - k
    BY <2>2
  <2>4. \A j \in ks : k >= j
    <3>1. ASSUME NEW j \in ks PROVE k >= j
      <4>1. m - j \in below
        OBVIOUS
      <4>2. m - k <= m - j
        BY <2>2, <2>3, <4>1
      <4>. QED BY <1>1, <1>2, <4>2
    <3>. QED BY <3>1
  <2>. HIDE DEF ks
  <2>5. \E z \in ks : \A y \in ks : z >= y
    BY <2>4
  <2>. QED BY <2>5 DEF Max
<1>4. M \in 0 .. m /\ \A j \in 0 .. M - 1 : Ready(at(j))
  BY <1>3
<1>5. ReadyRun(n) = [k \in 1 .. M |-> at(k - 1)]
  BY DEF ReadyRun, m
<1>6. n > 0 /\ Ready(rx.rx_tail) => M > 0
  <2>. SUFFICES ASSUME n > 0, Ready(rx.rx_tail) PROVE M > 0
    OBVIOUS
  <2>1. at(0) = rx.rx_tail
    <3>1. rx.rx_tail + 0 = rx.rx_tail /\ rx.rx_tail < NUM_RX_DESC
      BY <1>1 DEF RxSlots
    <3>. QED BY <1>1, <3>1
  <2>2. 1 \in 0 .. m
    BY <1>1
  <2>3. \A j \in 0 .. 1 - 1 : j = 0
    OBVIOUS
  <2>4. 1 \in ks
    BY <2>1, <2>2, <2>3
  <2>. QED BY <1>1, <1>3, <1>4, <2>4
<1>9. n <= NUM_RX_DESC /\ (\A j \in 0 .. n - 1 : Ready(at(j))) => M = n
  <2>. SUFFICES ASSUME n <= NUM_RX_DESC, \A j \in 0 .. n - 1 : Ready(at(j)) PROVE M = n
    OBVIOUS
  <2>1. m = n
    BY <1>1
  <2>2. n \in ks
    BY <2>1
  <2>. QED BY <1>3, <1>4, <2>1, <2>2
<1>. HIDE DEF M, ks
<1>7. M \in Nat /\ M <= n /\ M <= NUM_RX_DESC
  BY <1>1, <1>4
<1>8. \A k \in 1 .. M : at(k - 1) \in RxSlots /\ Ready(at(k - 1))
  <2>1. ASSUME NEW k \in 1 .. M PROVE at(k - 1) \in RxSlots /\ Ready(at(k - 1))
    <3>1. k - 1 \in 0 .. M - 1 /\ rx.rx_tail + (k - 1) \in Nat
      BY <1>1, <1>7
    <3>2. Ready(at(k - 1))
      BY <1>4, <3>1
    <3>. QED BY <3>1, <3>2, Slots
  <2>. QED BY <2>1
<1>. QED
  <2>. HIDE DEF at
  <2>1. ReadyRun(n) \in Seq(RxSlots) /\ Len(ReadyRun(n)) = M /\ DOMAIN ReadyRun(n) = 1 .. M
    BY <1>5, <1>7, <1>8
  <2>2. \A k \in 1 .. M : ReadyRun(n)[k] = at(k - 1) /\ Ready(ReadyRun(n)[k])
    BY <1>5, <1>8
  <2>. QED BY <1>6, <1>7, <1>9, <2>1, <2>2 DEF at

----------------------------------------------------------------------------
(* The first and the last of a sequence. *)
LEMMA Ends ==
  ASSUME NEW S, NEW s \in Seq(S), s # <<>>
  PROVE  /\ Last(s) \in S /\ Front(s) \in Seq(S) /\ Len(Front(s)) = Len(s) - 1
         /\ Len(s) \in Nat /\ Len(s) > 0 /\ Last(s) = s[Len(s)]
         /\ DOMAIN Front(s) = 1 .. Len(s) - 1 /\ DOMAIN s = 1 .. Len(s)
         /\ \A k \in 1 .. Len(s) - 1 : Front(s)[k] = s[k]
<1>1. Len(s) \in Nat /\ Len(s) > 0 /\ DOMAIN s = 1 .. Len(s) /\ s[Len(s)] \in S
  OBVIOUS
<1>2. Front(s) \in Seq(S) /\ Len(Front(s)) = Len(s) - 1
  BY <1>1 DEF Front
<1>3. \A k \in 1 .. Len(s) - 1 : Front(s)[k] = s[k]
  BY <1>1 DEF Front
<1>. QED BY <1>1, <1>2, <1>3 DEF Last

(* Appending to a sequence, and taking its head off. *)
LEMMA Appends ==
  ASSUME NEW S, NEW s \in Seq(S), NEW e \in S
  PROVE  /\ Append(s, e) \in Seq(S) /\ Len(Append(s, e)) = Len(s) + 1 /\ Len(s) \in Nat
         /\ Append(s, e)[Len(s) + 1] = e
         /\ \A k \in 1 .. Len(s) : Append(s, e)[k] = s[k]
OBVIOUS

(* Taking the head off a sequence. *)
LEMMA Heads ==
  ASSUME NEW S, NEW s \in Seq(S), s # <<>>
  PROVE  /\ Head(s) \in S /\ Tail(s) \in Seq(S) /\ Len(Tail(s)) = Len(s) - 1
         /\ Len(s) \in Nat /\ Len(s) > 0 /\ Head(s) = s[1]
         /\ \A k \in 1 .. Len(s) - 1 : Tail(s)[k] = s[k + 1]
OBVIOUS

(* What a sequence holds. *)
LEMMA InSet ==
  ASSUME NEW S, NEW s \in Seq(S)
  PROVE  /\ ToSet(s) \subseteq S
         /\ \A x : x \in ToSet(s) <=> \E k \in 1 .. Len(s) : x = s[k]
BY DEF ToSet

(* Appending adds one element to what a sequence holds. *)
LEMMA Appended ==
  ASSUME NEW S, NEW s \in Seq(S), NEW e \in S
  PROVE  ToSet(Append(s, e)) = ToSet(s) \cup {e}
<1>1. /\ Append(s, e) \in Seq(S) /\ Len(Append(s, e)) = Len(s) + 1 /\ Len(s) \in Nat
      /\ Append(s, e)[Len(s) + 1] = e
      /\ \A k \in 1 .. Len(s) : Append(s, e)[k] = s[k]
  BY Appends
<1>. DEFINE t == Append(s, e)
<1>. HIDE DEF t
<1>2. /\ t \in Seq(S) /\ Len(t) = Len(s) + 1 /\ Len(s) \in Nat /\ t[Len(s) + 1] = e
      /\ \A k \in 1 .. Len(s) : t[k] = s[k]
  BY <1>1 DEF t
<1>3. /\ \A x : x \in ToSet(s) <=> \E k \in 1 .. Len(s) : x = s[k]
      /\ \A x : x \in ToSet(t) <=> \E k \in 1 .. Len(t) : x = t[k]
  BY <1>2, InSet
<1>4. ASSUME NEW x \in ToSet(t) PROVE x \in ToSet(s) \cup {e}
  <2>1. PICK k \in 1 .. Len(t) : x = t[k]
    BY <1>3
  <2>2. k \in 1 .. Len(s) \/ k = Len(s) + 1
    BY <1>2
  <2>. QED BY <1>2, <1>3, <2>1, <2>2
<1>5. ASSUME NEW x \in ToSet(s) PROVE x \in ToSet(t)
  <2>1. PICK k \in 1 .. Len(s) : x = s[k]
    BY <1>3
  <2>2. k \in 1 .. Len(t) /\ t[k] = x
    BY <1>2, <2>1
  <2>. QED BY <1>3, <2>2
<1>6. e \in ToSet(t)
  <2>1. Len(s) + 1 \in 1 .. Len(t)
    BY <1>2
  <2>. QED BY <1>2, <1>3, <2>1
<1>. QED BY <1>4, <1>5, <1>6 DEF t

(* The next slot. *)
LEMMA NextIs ==
  /\ \A i \in RxSlots : NextRx(i) = IF i = NUM_RX_DESC - 1 THEN 0 ELSE i + 1
  /\ \A i \in TxSlots : NextTx(i) = IF i = NUM_TX_DESC - 1 THEN 0 ELSE i + 1
<1>1. ASSUME NEW n \in Nat \ {0, 1}, NEW i \in 0 .. n - 1
      PROVE  (i + 1) % n = IF i = n - 1 THEN 0 ELSE i + 1
  <2>1. CASE i = n - 1
    <3>1. i + 1 = n /\ n % n = 0
      BY <2>1
    <3>. QED BY <2>1, <3>1
  <2>2. CASE i # n - 1
    <3>1. i + 1 \in Nat /\ i + 1 < n
      BY <2>2
    <3>. QED BY <2>2, <3>1
  <2>. QED BY <2>1, <2>2
<1>. QED BY <1>1, E1000Assumption DEF RxSlots, TxSlots, NextRx, NextTx

(* Descriptors of the rings. *)
LEMMA RxUpdates ==
  ASSUME NEW d \in RxDesc, NEW i \in RxSlots
  PROVE  /\ \A b \in BOOLEAN : [d EXCEPT ![i].dd = b] \in RxDesc
         /\ \A p \in Page, b \in BOOLEAN : [d EXCEPT ![i] = [buf |-> p, dd |-> b]] \in RxDesc
         /\ \A b \in BOOLEAN, j \in RxSlots :
               /\ [d EXCEPT ![i].dd = b][j].buf = d[j].buf
               /\ [d EXCEPT ![i].dd = b][j].dd = IF i = j THEN b ELSE d[j].dd
         /\ d[i].buf \in Page /\ d[i].dd \in BOOLEAN /\ d[i] = [buf |-> d[i].buf, dd |-> d[i].dd]
BY DEF RxDesc

(* Descriptors of the transmit ring keep their type through                *)
(* e1000_send_packet and the device.                                       *)
LEMMA TxUpdates ==
  ASSUME NEW d \in TxDesc, NEW i \in TxSlots
  PROVE  /\ \A b \in BOOLEAN : [d EXCEPT ![i].dd = b] \in TxDesc
         /\ \A p \in Nat : [d EXCEPT ![i] = TxDescriptor(@, p)] \in TxDesc
         /\ d[i].buf \in Page /\ d[i].dd \in BOOLEAN /\ d[i].pkt \in Nat
BY DEF TxDesc, TxDescriptor

(* The types do not change while the number of pages does not. *)
LEMMA Kept ==
  ASSUME total' = total
  PROVE  /\ Page' = Page /\ RxDesc' = RxDesc /\ TxDesc' = TxDesc
         /\ RxDescs' = RxDescs /\ TxDescs' = TxDescs
BY DEF Page, RxDesc, TxDesc, RxDescs, TxDescs

(* Page numbers; the free page pmm_alloc takes. *)
LEMMA PageFacts ==
  ASSUME Basics
  PROVE  /\ NULL \in Page /\ pmm \subseteq Page /\ NULL \notin pmm
         /\ \A p \in Page : p # NULL => p \in 1 .. total
         /\ pmm # {} => Min(pmm) \in pmm
<1>1. pmm \in SUBSET Nat
  BY DEF Basics
<1>2. pmm # {} => Min(pmm) \in pmm
  BY <1>1, MinIs
<1>. QED BY <1>2 DEF Basics, Page, NULL

(* The driver starts with no ring and idle loops. *)
LEMMA EInvInit == Init => EInv
<1>. SUFFICES ASSUME Init PROVE EInv
  OBVIOUS
<1>. USE DEF Init
<1>0. total \in Nat /\ 0 \in Page /\ mode \in 1 .. 5
  BY E1000Assumption DEF Page
<1>1. Basics
  BY <1>0 DEF Basics
<1>2. MemType /\ ListType
  BY <1>0 DEF MemType, ListType, Page, NULL
<1>3. ArpType /\ HistType
  <2>1. HistType
    BY DEF HistType
  <2>2. DOMAIN arp = 1 .. ARP_CACHE_SIZE
    OBVIOUS
  <2>3. \A s \in 1 .. ARP_CACHE_SIZE : arp[s] = [valid |-> FALSE, ip |-> 0, mac |-> 0]
    OBVIOUS
  <2>4. \A s \in 1 .. ARP_CACHE_SIZE : arp[s].valid \in BOOLEAN
    BY <2>3
  <2>. QED BY <2>1, <2>2, <2>4 DEF ArpType
<1>4. RxType /\ TxType
  BY <1>0, Slots DEF RxType, TxType, NoRx, NoTx, NULL, RxDescs, TxDescs
<1>5. PollType /\ ProcType
  BY <1>0, Slots DEF PollType, ProcType, NULL
<1>6. RxLoaded /\ TxLoaded /\ Idle
  BY DEF NoRx, NoTx, RxLoaded, TxLoaded, Idle
<1>7. Fits
  BY E1000Assumption DEF Fits
<1>. QED BY <1>1, <1>2, <1>3, <1>4, <1>5, <1>6, <1>7 DEF EInv, Types, Loaded

(* Where the rings are there. *)
LEMMA RingFacts ==
  ASSUME EInv
  PROVE  /\ rx.rx_tail \in RxSlots /\ rx.RDH \in RxSlots /\ rx.RDT \in RxSlots
         /\ tx.tx_tail \in TxSlots /\ tx.TDH \in TxSlots /\ tx.TDT \in TxSlots
         /\ poll.i \in RxSlots /\ poll.n \in Nat /\ proc.slot \in TxSlots /\ poll.new \in Page
         /\ proc.buf \in Page
         /\ rx.RCTL_EN \/ state \in {"rx_ready", "loaded", "running"} => rx.desc \in RxDesc
         /\ tx.TDH # tx.TDT \/ tx.hand # NULL \/ state \in {"loaded", "running"} => tx.desc \in TxDesc
<1>. USE DEF EInv, Types, Loaded
<1>1. /\ rx.rx_tail \in RxSlots /\ rx.RDH \in RxSlots /\ rx.RDT \in RxSlots
      /\ rx.RCTL_EN \/ state \in {"rx_ready", "loaded", "running"} => rx.desc \in RxDesc
  BY DEF RxType, RxLoaded, NoRx
<1>2. /\ tx.tx_tail \in TxSlots /\ tx.TDH \in TxSlots /\ tx.TDT \in TxSlots
      /\ tx.TDH # tx.TDT \/ tx.hand # NULL \/ state \in {"loaded", "running"} => tx.desc \in TxDesc
  BY DEF TxType, TxLoaded, NoTx, NULL
<1>3. /\ poll.i \in RxSlots /\ poll.n \in Nat /\ proc.slot \in TxSlots /\ poll.new \in Page
      /\ proc.buf \in Page
  BY DEF PollType, ProcType
<1>. QED BY <1>1, <1>2, <1>3

(* A descriptor ring's pages. *)
LEMMA RingPages ==
  ASSUME Basics, NEW n \in Nat, ~ (Len(Lowest(n + 1)) < n + 1)
  PROVE  /\ \A k \in 1 .. n + 1 : /\ Lowest(n + 1)[k] \in Page /\ Lowest(n + 1)[k] # NULL
                                  /\ Lowest(n + 1)[k] \in pmm
         /\ Len(Lowest(n + 1)) = n + 1 /\ DOMAIN Lowest(n + 1) = 1 .. n + 1
         /\ \A i, j \in 1 .. n + 1 : Lowest(n + 1)[i] = Lowest(n + 1)[j] => i = j
<1>1. n + 1 \in Nat
  OBVIOUS
<1>2. /\ Lowest(n + 1) \in Seq(pmm) /\ Len(Lowest(n + 1)) \in Nat /\ Len(Lowest(n + 1)) <= n + 1
      /\ DOMAIN Lowest(n + 1) = 1 .. Len(Lowest(n + 1))
      /\ \A i, j \in DOMAIN Lowest(n + 1) : Lowest(n + 1)[i] = Lowest(n + 1)[j] => i = j
  BY <1>1, LowestPages DEF Basics
<1>3. Len(Lowest(n + 1)) = n + 1
  BY <1>1, <1>2
<1>. QED BY <1>2, <1>3, PageFacts

(* A page is bound to the descriptor at poll.i. *)
LEMMA BindTypes ==
  ASSUME EInv, NEW p \in Page, Bind(p), state = "running", UNCHANGED <<total, state>>
  PROVE  /\ RxType' /\ RxLoaded' /\ PollType'
         /\ poll'.n = poll.n + 1 /\ poll'.pc = "scan"
<1>1. /\ Page' = Page /\ RxDesc' = RxDesc /\ RxDescs' = RxDescs
  BY Kept
<1>2. /\ rx.desc \in RxDesc /\ poll.i \in RxSlots /\ rx.desc[poll.i].buf \in Page
  BY RingFacts, RxUpdates
<1>3. RxType /\ RxLoaded /\ ListType /\ PollType
  BY DEF EInv, Types, Loaded
<1>. DEFINE d == [rx.desc EXCEPT ![poll.i] = [buf |-> p, dd |-> FALSE]]
<1>4. d \in RxDesc
  BY <1>2, RxUpdates
<1>5. rx' = [rx EXCEPT !.desc = d]
  BY <1>3 DEF Bind, RxType
<1>. HIDE DEF d
<1>6. RxType'
  BY <1>1, <1>3, <1>4, <1>5 DEF RxType, RxDescs
<1>7. RxLoaded'
  BY <1>1, <1>3, <1>4, <1>5 DEF RxType, RxLoaded
<1>11. PollType' /\ poll'.n = poll.n + 1 /\ poll'.pc = "scan"
  <2>1. poll' = [poll EXCEPT !.pc = "scan", !.i = NextRx(poll.i), !.n = poll.n + 1, !.new = NULL]
    BY <1>3 DEF Bind, PollType
  <2>2. NextRx(poll.i) \in RxSlots /\ poll.n + 1 \in Nat /\ NULL \in Page
    BY <1>2, Slots, RingFacts, PageFacts DEF EInv, Types
  <2>. QED BY <1>1, <1>3, <2>1, <2>2 DEF PollType
<1>. QED BY <1>6, <1>7, <1>11

(* The page of the descriptor at poll.i is queued. *)
LEMMA QueueTypes ==
  ASSUME EInv, state = "running", queue' = Append(queue, rx.desc[poll.i].buf),
         UNCHANGED <<total, pool>>
  PROVE  ListType' /\ Len(queue') = Len(queue) + 1
<1>1. Page' = Page /\ queue \in Seq(Page) /\ pool \in Seq(Page)
  BY Kept DEF EInv, Types, ListType
<1>2. poll.i \in RxSlots /\ rx.desc[poll.i].buf \in Page
  BY RingFacts, RxUpdates
<1>3. queue' \in Seq(Page) /\ Len(queue') = Len(queue) + 1
  BY <1>1, <1>2, Appends
<1>. QED BY <1>1, <1>3 DEF ListType

(* A page goes to the pool or the page allocator. *)
LEMMA PutTypes ==
  ASSUME EInv, NEW p \in Page, rx_free_pool_put(p)
  PROVE  /\ pool' \in Seq(Page) /\ Len(pool') <= RX_FREE_POOL_SIZE /\ pmm' \in SUBSET (1 .. total)
<1>1. Basics /\ pool \in Seq(Page) /\ Len(pool) <= RX_FREE_POOL_SIZE
  BY DEF EInv, Types, ListType, Fits
<1>2. RX_FREE_POOL_SIZE \in Nat
  BY E1000Assumption
<1>3. CASE Len(pool) < RX_FREE_POOL_SIZE
  <2>1. pool' = Append(pool, p) /\ pmm' = pmm
    BY <1>3 DEF rx_free_pool_put
  <2>2. pool' \in Seq(Page) /\ Len(pool') = Len(pool) + 1 /\ Len(pool) \in Nat
    BY <1>1, <2>1, Appends
  <2>. QED BY <1>1, <1>2, <1>3, <2>1, <2>2 DEF Basics
<1>4. CASE ~ (Len(pool) < RX_FREE_POOL_SIZE)
  <2>1. pool' = pool /\ pmm' = pmm \cup ({p} \ {NULL})
    BY <1>4 DEF rx_free_pool_put
  <2>. QED BY <1>1, <2>1, PageFacts DEF Basics
<1>. QED BY <1>3, <1>4

(* Every step of the loops and of the device keeps the types, the rings    *)
(* loaded and the arrays within bounds.                                    *)
LEMMA EInvStep == ASSUME EInv, [Next]_vars PROVE EInv'
<1>0. /\ Basics /\ RxType /\ TxType /\ MemType /\ ListType /\ PollType /\ ProcType /\ ArpType
      /\ HistType /\ RxLoaded /\ TxLoaded /\ Idle /\ Fits
  BY DEF EInv, Types, Loaded
<1>. USE <1>0
<1>1. CASE e1000_init_rx
  <2>. USE <1>1 DEF e1000_init_rx
  <2>0. /\ Page' = Page /\ RxDesc' = RxDesc /\ TxDesc' = TxDesc
        /\ RxDescs' = RxDescs /\ TxDescs' = TxDescs
    BY Kept
  <2>1. TxType' /\ MemType' /\ ListType' /\ PollType' /\ ProcType' /\ ArpType' /\ HistType'
    BY <2>0 DEF TxType, MemType, ListType, PollType, ProcType, ArpType, HistType, histVars
  <2>2. Basics' /\ RxType' /\ RxLoaded'
    <3>. DEFINE pages == Lowest(NUM_RX_DESC + 1)
    <3>1. CASE Len(pages) < NUM_RX_DESC + 1
      <4>1. /\ state' = "failed" /\ UNCHANGED <<pmm, rx, mode, total, turn, wire, timeouts>>
            /\ UNCHANGED exhausted
        BY <3>1 DEF histVars
      <4>. QED BY <2>0, <4>1 DEF Basics, RxType, RxLoaded
    <3>2. CASE ~ (Len(pages) < NUM_RX_DESC + 1)
      <4>. DEFINE d == [i \in RxSlots |-> [buf |-> pages[i + 2], dd |-> FALSE]]
      <4>1. NUM_RX_DESC \in Nat
        BY E1000Assumption
      <4>2. \A k \in 1 .. NUM_RX_DESC + 1 : pages[k] \in Page /\ pages[k] # NULL
        BY <3>2, <4>1, RingPages
      <4>3. /\ state' = "rx_ready" /\ pmm' = pmm \ ToSet(pages)
            /\ rx' = [page |-> pages[1], desc |-> d, rx_tail |-> 0, RDH |-> 0,
                      RDT |-> NUM_RX_DESC - 1, RCTL_EN |-> TRUE]
            /\ UNCHANGED <<mode, total, turn, wire, timeouts, exhausted>>
        BY <3>2 DEF histVars
      <4>. HIDE DEF pages
      <4>4. \A i \in RxSlots : i + 2 \in 1 .. NUM_RX_DESC + 1
        BY <4>1 DEF RxSlots
      <4>5. d \in RxDesc /\ \A i \in RxSlots : d[i].buf # NULL
        BY <4>2, <4>4 DEF RxDesc
      <4>. HIDE DEF d
      <4>6. pages[1] \in Page /\ pages[1] # NULL
        BY <4>1, <4>2
      <4>7. RxType'
        BY <2>0, <4>3, <4>5, <4>6, Slots DEF RxType, RxDescs
      <4>8. RxLoaded'
        BY <2>0, <4>3, <4>5, <4>6 DEF RxLoaded
      <4>9. Basics'
        BY <4>3 DEF Basics
      <4>. QED BY <4>7, <4>8, <4>9
    <3>. QED BY <3>1, <3>2
  <2>3. TxLoaded' /\ Idle' /\ Fits'
    <3>1. state' \in {"failed", "rx_ready"} /\ state = "probe"
      OBVIOUS
    <3>. QED BY <2>0, <3>1 DEF TxLoaded, Idle, Fits, histVars
  <2>. QED BY <2>1, <2>2, <2>3 DEF EInv, Types, Loaded
<1>2. CASE e1000_init_tx
  <2>. USE <1>2 DEF e1000_init_tx
  <2>0. /\ Page' = Page /\ RxDesc' = RxDesc /\ TxDesc' = TxDesc
        /\ RxDescs' = RxDescs /\ TxDescs' = TxDescs
    BY Kept
  <2>1. MemType' /\ ListType' /\ PollType' /\ ProcType' /\ ArpType' /\ HistType'
    BY <2>0 DEF MemType, ListType, PollType, ProcType, ArpType, HistType, histVars
  <2>2. Basics' /\ RxType' /\ RxLoaded' /\ TxType' /\ TxLoaded'
    <3>. DEFINE pages == Lowest(NUM_TX_DESC + 1)
    <3>1. CASE Len(pages) < NUM_TX_DESC + 1
      <4>1. /\ state' = "failed" /\ UNCHANGED <<tx, mode, total, turn, wire, timeouts, exhausted>>
            /\ rx' = NoRx /\ pmm' = pmm \cup RxPages
        BY <3>1 DEF histVars, e1000_free_rx
      <4>2. RxPages \subseteq Page /\ NULL \notin RxPages
        <5>1. rx.page \in Page /\ rx.page # NULL /\ rx.desc \in RxDesc
          BY DEF RxType, RxLoaded
        <5>2. \A i \in RxSlots : rx.desc[i].buf \in Page /\ rx.desc[i].buf # NULL
          BY <5>1, RxUpdates DEF RxLoaded
        <5>3. DOMAIN rx.desc = RxSlots
          BY <5>1 DEF RxDesc
        <5>. QED BY <5>1, <5>2, <5>3 DEF RxPages
      <4>3. Basics'
        BY <4>1, <4>2, PageFacts DEF Basics
      <4>4. RxType'
        BY <2>0, <4>1, Slots, PageFacts DEF RxType, NoRx, RxDescs
      <4>5. TxType' /\ TxLoaded' /\ RxLoaded'
        BY <2>0, <4>1 DEF TxType, TxLoaded, RxLoaded
      <4>. QED BY <4>3, <4>4, <4>5
    <3>2. CASE ~ (Len(pages) < NUM_TX_DESC + 1)
      <4>. DEFINE d == [i \in TxSlots |-> [buf |-> pages[i + 2], dd |-> TRUE, pkt |-> NULL]]
      <4>1. NUM_TX_DESC \in Nat
        BY E1000Assumption
      <4>2. \A k \in 1 .. NUM_TX_DESC + 1 : pages[k] \in Page /\ pages[k] # NULL
        BY <3>2, <4>1, RingPages
      <4>3. /\ state' = "loaded" /\ pmm' = pmm \ ToSet(pages)
            /\ tx' = [page |-> pages[1], desc |-> d, tx_tail |-> 0, TDH |-> 0, TDT |-> 0,
                      hand |-> NULL]
            /\ UNCHANGED <<mode, total, turn, wire, timeouts, exhausted, rx>>
        BY <3>2 DEF histVars
      <4>. HIDE DEF pages
      <4>4. \A i \in TxSlots : i + 2 \in 1 .. NUM_TX_DESC + 1
        BY <4>1 DEF TxSlots
      <4>5. d \in TxDesc
        BY <4>2, <4>4 DEF TxDesc, NULL
      <4>. HIDE DEF d
      <4>6. pages[1] \in Page /\ pages[1] # NULL
        BY <4>1, <4>2
      <4>7. TxType'
        BY <2>0, <4>3, <4>5, <4>6, Slots DEF TxType, TxDescs, NULL
      <4>8. TxLoaded'
        BY <2>0, <4>3, <4>5, <4>6 DEF TxLoaded
      <4>9. Basics' /\ RxType' /\ RxLoaded'
        BY <2>0, <4>3 DEF Basics, RxType, RxLoaded
      <4>. QED BY <4>7, <4>8, <4>9
    <3>. QED BY <3>1, <3>2
  <2>3. Idle' /\ Fits'
    <3>1. state' \in {"failed", "loaded"} /\ state = "rx_ready"
      BY DEF e1000_free_rx
    <3>. QED BY <3>1 DEF Idle, Fits, histVars
  <2>. QED BY <2>1, <2>2, <2>3 DEF EInv, Types, Loaded
<1>3. CASE StartLoop
  <2>. USE <1>3 DEF StartLoop
  <2>0. /\ Page' = Page /\ RxDesc' = RxDesc /\ TxDesc' = TxDesc
        /\ RxDescs' = RxDescs /\ TxDescs' = TxDescs
    BY Kept
  <2>1. /\ RxType' /\ TxType' /\ MemType' /\ PollType' /\ ProcType' /\ ArpType' /\ HistType'
        /\ RxLoaded' /\ TxLoaded' /\ Idle'
    BY <2>0 DEF RxType, TxType, MemType, PollType, ProcType, ArpType, HistType, histVars,
                RxLoaded, TxLoaded, Idle
  <2>2. RX_FREE_POOL_SIZE \in Nat
    BY E1000Assumption
  <2>3. /\ Lowest(RX_FREE_POOL_SIZE) \in Seq(pmm) /\ Len(Lowest(RX_FREE_POOL_SIZE)) \in Nat
        /\ Len(Lowest(RX_FREE_POOL_SIZE)) <= RX_FREE_POOL_SIZE
    BY <2>2, LowestPages DEF Basics
  <2>. DEFINE pages == Lowest(RX_FREE_POOL_SIZE)
  <2>4. pages \in Seq(Page)
    BY <2>3, PageFacts
  <2>5. /\ (pool' = pages /\ pmm' = pmm \ ToSet(pages)) \/ UNCHANGED <<pool, pmm>>
        /\ UNCHANGED <<mode, total, turn, wire, timeouts, exhausted, queue, poll>>
        /\ state' = "running" /\ state = "loaded"
    BY DEF histVars
  <2>6. Len(pages) \in Nat /\ Len(pages) <= RX_FREE_POOL_SIZE
    BY <2>3
  <2>. HIDE DEF pages
  <2>7. Basics'
    BY <2>5 DEF Basics
  <2>8. ListType'
    BY <2>0, <2>4, <2>5 DEF ListType
  <2>9. Fits'
    BY <2>5, <2>6 DEF Fits, Idle
  <2>. QED BY <2>1, <2>7, <2>8, <2>9 DEF EInv, Types, Loaded
<1>4. CASE ReceiveDma
  <2>. USE <1>4 DEF ReceiveDma
  <2>0. /\ Page' = Page /\ RxDesc' = RxDesc /\ TxDesc' = TxDesc
        /\ RxDescs' = RxDescs /\ TxDescs' = TxDescs
    BY Kept
  <2>1. Basics' /\ TxType' /\ ListType' /\ PollType' /\ ProcType' /\ ArpType' /\ TxLoaded' /\ Idle'
    BY <2>0 DEF Basics, TxType, ListType, PollType, ProcType, ArpType, TxLoaded, Idle
  <2>2. rx.desc \in RxDesc /\ rx.RDH \in RxSlots /\ rx.rx_tail \in RxSlots
    BY RingFacts
  <2>3. CASE rx.RDH = rx.RDT
    <3>1. UNCHANGED <<rx, mem, got>>
      BY <2>3
    <3>2. RxType' /\ MemType' /\ HistType' /\ RxLoaded' /\ Fits'
      BY <2>0, <3>1 DEF RxType, MemType, HistType, RxLoaded, Fits, Ready
    <3>. QED BY <2>1, <3>2 DEF EInv, Types, Loaded
  <2>4. CASE rx.RDH # rx.RDT
    <3>. DEFINE d == [rx.desc EXCEPT ![rx.RDH].dd = TRUE]
    <3>1. /\ mem' = [mem EXCEPT ![rx.desc[rx.RDH].buf] = wire + 1]
          /\ rx' = [rx EXCEPT !.desc = d, !.RDH = NextRx(rx.RDH)]
          /\ got' = Append(got, wire + 1) /\ wire + 1 \in Nat
      BY <2>4 DEF RxType, Basics
    <3>2. /\ d \in RxDesc /\ \A i \in RxSlots : d[i].buf = rx.desc[i].buf
          /\ \A i \in RxSlots : rx.desc[i].dd => d[i].dd
      <4>1. d \in RxDesc
        BY <2>2, RxUpdates
      <4>2. \A i \in RxSlots : /\ d[i].buf = rx.desc[i].buf
                              /\ d[i].dd = IF rx.RDH = i THEN TRUE ELSE rx.desc[i].dd
        <5>. DEFINE c == rx.desc
                    h == rx.RDH
        <5>. HIDE DEF c, h
        <5>1. c \in RxDesc /\ h \in RxSlots
          BY <2>2 DEF c, h
        <5>2. \A i \in RxSlots : /\ [c EXCEPT ![h].dd = TRUE][i].buf = c[i].buf
                                /\ [c EXCEPT ![h].dd = TRUE][i].dd = IF h = i THEN TRUE ELSE c[i].dd
          BY <5>1 DEF RxDesc
        <5>. QED BY <5>2 DEF c, h
      <4>. QED BY <4>1, <4>2
    <3>. HIDE DEF d
    <3>3. RxType'
      BY <2>0, <2>2, <3>1, <3>2, Slots DEF RxType, RxDescs
    <3>4. /\ rx'.desc = d /\ rx'.rx_tail = rx.rx_tail /\ rx'.page = rx.page
          /\ state \in {"rx_ready", "loaded", "running"} /\ state' = state
      BY <3>1 DEF RxType, RxLoaded, NoRx
    <3>5. RxLoaded'
      BY <2>0, <3>2, <3>4 DEF RxLoaded
    <3>6. MemType'
      BY <2>0, <3>1 DEF MemType
    <3>8. HistType'
      <4>1. got' \in Seq(Nat)
        BY <3>1, Appends DEF HistType
      <4>. QED BY <4>1 DEF HistType
    <3>7. Fits'
      BY <2>2, <3>2, <3>4 DEF Fits, Ready
    <3>. QED BY <2>1, <3>3, <3>5, <3>6, <3>7, <3>8 DEF EInv, Types, Loaded
  <2>. QED BY <2>3, <2>4
<1>5. CASE TransmitFetch
  <2>. USE <1>5 DEF TransmitFetch
  <2>0. /\ Page' = Page /\ RxDesc' = RxDesc /\ TxDesc' = TxDesc
        /\ RxDescs' = RxDescs /\ TxDescs' = TxDescs
    BY Kept
  <2>1. /\ Basics' /\ RxType' /\ MemType' /\ ListType' /\ PollType' /\ ProcType' /\ ArpType'
        /\ HistType' /\ RxLoaded' /\ Idle' /\ Fits'
    BY ZenonT(60), <2>0 DEF Basics, RxType, MemType, ListType, PollType, ProcType, ArpType, HistType, histVars,
                RxLoaded, Idle, Fits, Ready
  <2>2. tx.desc \in TxDesc /\ tx.desc[tx.TDH].pkt \in Nat
    BY RingFacts, TxUpdates
  <2>3. TxType'
    BY <2>0, <2>2 DEF TxType
  <2>4. TxLoaded'
    BY <2>0, <2>2 DEF TxLoaded, TxType, NoTx
  <2>. QED BY <2>1, <2>3, <2>4 DEF EInv, Types, Loaded
<1>6. CASE TransmitDone
  <2>. USE <1>6 DEF TransmitDone
  <2>0. /\ Page' = Page /\ RxDesc' = RxDesc /\ TxDesc' = TxDesc
        /\ RxDescs' = RxDescs /\ TxDescs' = TxDescs
    BY Kept
  <2>1. /\ Basics' /\ RxType' /\ MemType' /\ ListType' /\ PollType' /\ ProcType' /\ ArpType'
        /\ RxLoaded' /\ Idle' /\ Fits'
    BY SMTT(60), <2>0 DEF Basics, RxType, MemType, ListType, PollType, ProcType, ArpType,
                RxLoaded, Idle, Fits, Ready
  <2>. DEFINE d == [tx.desc EXCEPT ![tx.TDH].dd = TRUE]
  <2>2. d \in TxDesc /\ tx.TDH \in TxSlots
    BY RingFacts, TxUpdates
  <2>3. tx' = [tx EXCEPT !.desc = d, !.TDH = NextTx(tx.TDH), !.hand = NULL]
    BY DEF TxType
  <2>. HIDE DEF d
  <2>4. TxType'
    BY ZenonT(60), <2>0, <2>2, <2>3, Slots DEF TxType, TxDescs, NULL
  <2>5. TxLoaded'
    <3>1. state \in {"loaded", "running"} /\ state' = state
      BY DEF TxLoaded, NoTx
    <3>2. tx'.desc = d /\ tx'.page = tx.page /\ tx'.TDT = tx.TDT /\ tx'.tx_tail = tx.tx_tail
      BY <2>3 DEF TxType
    <3>. QED BY <2>0, <2>2, <3>1, <3>2 DEF TxLoaded
  <2>6. HistType'
    BY DEF HistType, TxType
  <2>. QED BY <2>1, <2>4, <2>5, <2>6 DEF EInv, Types, Loaded
<1>7. CASE e1000_poll_packet
  <2>. USE DEF e1000_poll_packet, Scanning, Runs
  <2>0. /\ Page' = Page /\ RxDesc' = RxDesc /\ TxDesc' = TxDesc
        /\ RxDescs' = RxDescs /\ TxDescs' = TxDescs
    BY <1>7, Kept
  <2>1. /\ Basics' /\ TxType' /\ MemType' /\ PollType' /\ ProcType' /\ ArpType' /\ HistType'
        /\ TxLoaded' /\ Idle'
    BY <1>7, <2>0 DEF Basics, TxType, MemType, PollType, ProcType, ArpType, HistType, histVars,
                TxLoaded, Idle
  <2>. DEFINE d == [rx.desc EXCEPT ![rx.rx_tail].dd = FALSE]
  <2>2. d \in RxDesc /\ rx.rx_tail \in RxSlots /\ rx.desc[rx.rx_tail].buf \in Page
    BY <1>7, RingFacts, RxUpdates
  <2>3. rx' = [rx EXCEPT !.desc = d, !.rx_tail = NextRx(rx.rx_tail), !.RDT = rx.rx_tail]
    BY <1>7 DEF RxType
  <2>. HIDE DEF d
  <2>4. RxType'
    BY <2>0, <2>2, <2>3, Slots DEF RxType, RxDescs
  <2>5. RxLoaded'
    BY <1>7, <2>0, <2>2, <2>3 DEF RxLoaded, RxType
  <2>6. ListType' /\ Len(queue') = 1
    BY <1>7, <2>0, <2>2 DEF ListType
  <2>7. Fits'
    BY <1>7, <2>6, E1000Assumption DEF Fits
  <2>. QED BY <2>1, <2>4, <2>5, <2>6, <2>7 DEF EInv, Types, Loaded
<1>8. CASE e1000_poll_packet_batch
  <2>. USE <1>8 DEF e1000_poll_packet_batch, Scanning, Runs
  <2>0. /\ Page' = Page /\ RxDesc' = RxDesc /\ TxDesc' = TxDesc
        /\ RxDescs' = RxDescs /\ TxDescs' = TxDescs
    BY Kept DEF ringVars
  <2>1. /\ Basics' /\ RxType' /\ TxType' /\ MemType' /\ ProcType' /\ ArpType' /\ HistType'
        /\ RxLoaded' /\ TxLoaded'
    BY <2>0 DEF Basics, RxType, TxType, MemType, ProcType, ArpType, HistType, histVars, ringVars,
                RxLoaded, TxLoaded
  <2>. DEFINE run == ReadyRun(RX_BATCH_MAX)
  <2>2. RX_BATCH_MAX \in Nat /\ rx.rx_tail \in RxSlots /\ rx.desc \in RxDesc
    BY RingFacts, E1000Assumption
  <2>3. /\ run \in Seq(RxSlots) /\ Len(run) \in Nat /\ Len(run) <= RX_BATCH_MAX
        /\ DOMAIN run = 1 .. Len(run)
        /\ \A k \in 1 .. Len(run) : run[k] = (rx.rx_tail + (k - 1)) % NUM_RX_DESC /\ Ready(run[k])
    BY <2>2, ReadyRunIs
  <2>4. /\ queue' = [k \in DOMAIN run |-> rx.desc[run[k]].buf] /\ run # <<>>
        /\ poll' = [poll EXCEPT !.pc = "release", !.n = Len(run)]
    OBVIOUS
  <2>. HIDE DEF run
  <2>5. PollType' /\ poll'.n = Len(run)
    BY <2>0, <2>3, <2>4 DEF PollType
  <2>6. \A k \in 1 .. Len(run) : rx.desc[run[k]].buf \in Page
    <3>1. \A k \in 1 .. Len(run) : run[k] \in RxSlots
      BY <2>3
    <3>. QED BY <2>2, <3>1, RxUpdates
  <2>7. ListType' /\ Len(queue') = Len(run)
    BY SMTT(60), <2>0, <2>3, <2>4, <2>6 DEF ListType, ringVars
  <2>8. Len(run) > 0 /\ Ready(rx.rx_tail)
    <3>1. Len(run) > 0
      BY <2>3, <2>4
    <3>2. Ready(run[1]) /\ run[1] = (rx.rx_tail + (1 - 1)) % NUM_RX_DESC
      BY <2>3, <3>1
    <3>3. (rx.rx_tail + (1 - 1)) % NUM_RX_DESC = rx.rx_tail
      <4>. DEFINE t == rx.rx_tail
                  n == NUM_RX_DESC
      <4>1. t \in Nat /\ n \in Nat /\ n > 1 /\ t < n
        BY <2>2, E1000Assumption DEF RxSlots
      <4>. HIDE DEF t, n
      <4>2. t + (1 - 1) = t /\ t % n = t
        BY <4>1
      <4>3. (t + (1 - 1)) % n = t
        BY <4>2
      <4>. QED BY <4>3 DEF t, n
    <3>. QED BY <3>1, <3>2, <3>3
  <2>9. Fits' /\ Idle'
    BY <2>3, <2>5, <2>7, <2>8 DEF Fits, Idle, Ready, ringVars
  <2>. QED BY <2>1, <2>5, <2>7, <2>9 DEF EInv, Types, Loaded
<1>9. CASE e1000_rx_batch_release
  <2>. USE DEF e1000_rx_batch_release, Runs
  <2>0. /\ Page' = Page /\ RxDesc' = RxDesc /\ TxDesc' = TxDesc
        /\ RxDescs' = RxDescs /\ TxDescs' = TxDescs
    BY <1>9, Kept
  <2>1. /\ Basics' /\ TxType' /\ MemType' /\ ListType' /\ ProcType' /\ ArpType' /\ HistType'
        /\ TxLoaded'
    BY <1>9, <2>0 DEF Basics, TxType, MemType, ListType, ProcType, ArpType, HistType, histVars,
                TxLoaded
  <2>. DEFINE run == ReadyRun(poll.n)
  <2>2. poll.n \in Nat /\ poll.n > 0 /\ rx.rx_tail \in RxSlots /\ rx.desc \in RxDesc
        /\ Ready(rx.rx_tail)
    BY <1>9, RingFacts DEF Fits
  <2>3. run \in Seq(RxSlots) /\ Len(run) > 0 /\ Len(run) \in Nat
    BY <2>2, ReadyRunIs
  <2>. DEFINE d == Released(run)
  <2>4. rx' = [rx EXCEPT !.desc = d, !.rx_tail = NextRx(Last(run)), !.RDT = Last(run)]
    BY <1>9
  <2>. HIDE DEF run
  <2>5. Last(run) \in RxSlots
    BY <2>3 DEF Last
  <2>6. d \in RxDesc
    <3>1. \A i \in RxSlots : rx.desc[i].buf \in Page
      BY <2>2, RxUpdates
    <3>2. \A i \in RxSlots : (Ready(i) /\ i \notin ToSet(run)) \in BOOLEAN
      OBVIOUS
    <3>. QED BY <3>1, <3>2 DEF RxDesc, Released
  <2>. HIDE DEF d
  <2>7. RxType'
    BY <2>0, <2>4, <2>5, <2>6, Slots DEF RxType, RxDescs
  <2>8. RxLoaded'
    BY <1>9, <2>0, <2>4, <2>6 DEF RxLoaded, RxType
  <2>9. PollType' /\ poll'.pc = "scan"
    BY <1>9, <2>0 DEF PollType
  <2>10. Fits' /\ Idle'
    BY <1>9, <2>9 DEF Fits, Idle
  <2>. QED BY <2>1, <2>7, <2>8, <2>9, <2>10 DEF EInv, Types, Loaded
<1>10. CASE SwapBuffer
  <2>. USE DEF SwapBuffer, Scanning, Runs
  <2>0. /\ Page' = Page /\ RxDesc' = RxDesc /\ TxDesc' = TxDesc
        /\ RxDescs' = RxDescs /\ TxDescs' = TxDescs
    BY <1>10, Kept
  <2>1. /\ Basics' /\ TxType' /\ MemType' /\ ProcType' /\ ArpType' /\ HistType' /\ TxLoaded' /\ Idle'
    BY <1>10, <2>0 DEF Basics, TxType, MemType, ProcType, ArpType, HistType, histVars, TxLoaded, Idle
  <2>2. Min(pmm) \in Page
    BY <1>10, PageFacts
  <2>3. /\ RxType' /\ RxLoaded' /\ ListType' /\ PollType' /\ Len(queue') = Len(queue) + 1
        /\ poll'.n = poll.n + 1 /\ poll'.pc = "scan"
    BY <1>10, <2>2, BindTypes, QueueTypes
  <2>4. mode = 3 /\ mode' = 3 /\ pool' = pool /\ turn' = "poll" /\ turn = "poll" /\ poll.n < RX_BATCH_MAX
    BY <1>10
  <2>5. Len(queue) \in Nat /\ poll.n \in Nat /\ RX_BATCH_MAX \in Nat
    BY RingFacts, E1000Assumption DEF ListType
  <2>6. Fits'
    BY <2>3, <2>4, <2>5 DEF Fits
  <2>. QED BY <2>1, <2>3, <2>6 DEF EInv, Types, Loaded
<1>11. CASE rx_free_pool_get
  <2>. USE DEF rx_free_pool_get, Pipelined, Scanning, Runs
  <2>0. /\ Page' = Page /\ RxDesc' = RxDesc /\ TxDesc' = TxDesc
        /\ RxDescs' = RxDescs /\ TxDescs' = TxDescs
    BY <1>11, Kept DEF ringVars
  <2>1. /\ RxType' /\ TxType' /\ MemType' /\ ProcType' /\ ArpType' /\ HistType' /\ RxLoaded' /\ TxLoaded'
    BY <1>11, <2>0 DEF RxType, TxType, MemType, ProcType, ArpType, HistType, histVars, ringVars,
                       RxLoaded, TxLoaded
  <2>2. /\ queue' = queue /\ turn' = turn /\ mode' = mode /\ mode \in {4, 5} /\ state' = "running"
        /\ UNCHANGED <<total, wire, timeouts, pmm, exhausted>>
    BY <1>11 DEF ringVars, histVars
  <2>3. PICK p \in Page, l \in {"alloc", "push"} : poll' = [poll EXCEPT !.pc = l, !.new = p]
    <3>1. CASE pool # <<>>
      <4>1. Last(pool) \in Page
        BY <3>1, Ends DEF ListType
      <4>. QED BY <1>11, <3>1, <4>1
    <3>2. CASE pool = <<>>
      BY <1>11, <3>2, PageFacts
    <3>. QED BY <3>1, <3>2
  <2>4. PollType' /\ poll'.pc \in {"alloc", "push"}
    BY <2>0, <2>3 DEF PollType
  <2>5. pool' \in Seq(Page) /\ Len(pool') <= RX_FREE_POOL_SIZE
    <3>1. CASE pool # <<>>
      <4>1. Front(pool) \in Seq(Page) /\ Len(Front(pool)) = Len(pool) - 1 /\ Len(pool) \in Nat
        BY <3>1, Ends DEF ListType
      <4>2. pool' = Front(pool)
        BY <1>11, <3>1
      <4>3. RX_FREE_POOL_SIZE \in Nat /\ Len(pool) <= RX_FREE_POOL_SIZE
        BY E1000Assumption DEF Fits
      <4>4. Len(Front(pool)) <= RX_FREE_POOL_SIZE
        BY <4>1, <4>3
      <4>. QED BY <4>1, <4>2, <4>4
    <3>2. CASE pool = <<>>
      BY <1>11, <3>2 DEF ListType, Fits
    <3>. QED BY <3>1, <3>2
  <2>6. Basics' /\ ListType' /\ Idle'
    BY <2>0, <2>2, <2>5 DEF Basics, ListType, Idle
  <2>7. Fits'
    BY <2>2, <2>4, <2>5 DEF Fits
  <2>. QED BY <2>1, <2>4, <2>6, <2>7 DEF EInv, Types, Loaded
<1>23. CASE PoolFallback
  <2>. USE DEF PoolFallback, Pipelined, Runs
  <2>0. /\ Page' = Page /\ RxDesc' = RxDesc /\ TxDesc' = TxDesc
        /\ RxDescs' = RxDescs /\ TxDescs' = TxDescs
    BY <1>23, Kept DEF ringVars
  <2>1. /\ RxType' /\ TxType' /\ MemType' /\ ProcType' /\ ArpType' /\ HistType' /\ RxLoaded' /\ TxLoaded'
    BY <1>23, <2>0 DEF RxType, TxType, MemType, ProcType, ArpType, HistType, ringVars, RxLoaded, TxLoaded
  <2>2. /\ queue' = queue /\ pool' = pool /\ turn' = turn /\ mode' = mode /\ mode \in {4, 5}
        /\ state' = "running" /\ UNCHANGED <<total, wire, timeouts>>
    BY <1>23 DEF ringVars
  <2>3. PollType' /\ poll'.pc = "push"
    <3>1. CASE pmm # {}
      <4>1. Min(pmm) \in Page
        BY <3>1, PageFacts
      <4>. QED BY <1>23, <2>0, <3>1, <4>1 DEF PollType
    <3>2. CASE pmm = {}
      BY <1>23, <2>0, <3>2 DEF PollType
    <3>. QED BY <3>1, <3>2
  <2>4. pmm' \in SUBSET (1 .. total) /\ exhausted' \in BOOLEAN
    BY <1>23 DEF Basics
  <2>5. Basics' /\ ListType' /\ Idle'
    BY <2>0, <2>2, <2>4 DEF Basics, ListType, Idle
  <2>6. Fits'
    BY <2>2, <2>3 DEF Fits
  <2>. QED BY <2>1, <2>3, <2>5, <2>6 DEF EInv, Types, Loaded
<1>12. CASE rx_queue_push
  <2>. USE DEF rx_queue_push, Pipelined, Runs
  <2>0. /\ Page' = Page /\ RxDesc' = RxDesc /\ TxDesc' = TxDesc
        /\ RxDescs' = RxDescs /\ TxDescs' = TxDescs
    BY <1>12, Kept DEF ringVars
  <2>1. /\ Basics' /\ RxType' /\ TxType' /\ MemType' /\ ProcType' /\ ArpType' /\ HistType'
        /\ RxLoaded' /\ TxLoaded' /\ Idle'
    BY <1>12, <2>0 DEF Basics, RxType, TxType, MemType, ProcType, ArpType, HistType, histVars, ringVars,
                       RxLoaded, TxLoaded, Idle
  <2>2. PollType' /\ poll'.pc = "bind"
    BY <1>12, <2>0 DEF PollType
  <2>3. ListType' /\ Len(queue') = Len(queue) + 1
    BY <1>12, QueueTypes DEF ringVars
  <2>4. mode \in {4, 5} /\ mode' = mode /\ pool' = pool /\ turn' = turn /\ Len(queue) < RX_QUEUE_SIZE
    BY <1>12 DEF ringVars
  <2>5. Len(queue) \in Nat /\ RX_QUEUE_SIZE \in Nat
    BY E1000Assumption DEF ListType
  <2>6. Fits'
    BY <2>2, <2>3, <2>4, <2>5 DEF Fits
  <2>. QED BY <2>1, <2>2, <2>3, <2>6 DEF EInv, Types, Loaded
<1>24. CASE BindBuffer
  <2>. USE DEF BindBuffer, Pipelined, Runs
  <2>0. /\ Page' = Page /\ RxDesc' = RxDesc /\ TxDesc' = TxDesc
        /\ RxDescs' = RxDescs /\ TxDescs' = TxDescs
    BY <1>24, Kept
  <2>1. /\ Basics' /\ TxType' /\ MemType' /\ ListType' /\ ProcType' /\ ArpType' /\ HistType' /\ TxLoaded'
        /\ Idle'
    BY <1>24, <2>0 DEF Basics, TxType, MemType, ListType, ProcType, ArpType, HistType, histVars, TxLoaded,
                       Idle
  <2>2. poll.new \in Page
    BY RingFacts
  <2>3. RxType' /\ RxLoaded' /\ PollType' /\ poll'.pc = "scan"
    BY <1>24, <2>2, BindTypes
  <2>4. mode \in {4, 5} /\ UNCHANGED <<mode, pool, turn, queue>>
    BY <1>24
  <2>5. Fits'
    BY <2>3, <2>4 DEF Fits
  <2>. QED BY <2>1, <2>3, <2>5 DEF EInv, Types, Loaded
<1>13. CASE QueueFull
  <2>. USE DEF QueueFull, Pipelined, Runs
  <2>0. /\ Page' = Page /\ RxDesc' = RxDesc /\ TxDesc' = TxDesc
        /\ RxDescs' = RxDescs /\ TxDescs' = TxDescs
    BY <1>13, Kept DEF ringVars
  <2>1. /\ RxType' /\ TxType' /\ MemType' /\ ProcType' /\ ArpType' /\ HistType' /\ RxLoaded' /\ TxLoaded'
    BY <1>13, <2>0 DEF RxType, TxType, MemType, ProcType, ArpType, HistType, histVars, ringVars,
                       RxLoaded, TxLoaded
  <2>2. /\ queue' = queue /\ turn' = turn /\ mode' = mode /\ mode \in {4, 5} /\ state' = "running"
        /\ UNCHANGED <<total, wire, timeouts, exhausted>>
    BY <1>13 DEF ringVars, histVars
  <2>3. poll.new \in Page
    BY RingFacts
  <2>4. pool' \in Seq(Page) /\ Len(pool') <= RX_FREE_POOL_SIZE /\ pmm' \in SUBSET (1 .. total)
    BY <1>13, <2>3, PutTypes
  <2>5. PollType' /\ poll'.pc = "publish"
    BY <1>13, <2>0, PageFacts DEF PollType
  <2>6. Basics' /\ ListType' /\ Idle'
    BY <2>0, <2>2, <2>4 DEF Basics, ListType, Idle
  <2>7. Fits'
    BY <2>2, <2>4, <2>5 DEF Fits
  <2>. QED BY <2>1, <2>5, <2>6, <2>7 DEF EInv, Types, Loaded
<1>14. CASE ScanEnd
  <2>. USE DEF ScanEnd, Runs
  <2>0. /\ Page' = Page /\ RxDesc' = RxDesc /\ TxDesc' = TxDesc
        /\ RxDescs' = RxDescs /\ TxDescs' = TxDescs
    BY <1>14, Kept
  <2>1. /\ TxType' /\ MemType' /\ ProcType' /\ ListType' /\ ArpType' /\ HistType' /\ TxLoaded'
    BY <1>14, <2>0 DEF TxType, MemType, ProcType, ListType, ArpType, HistType, histVars, TxLoaded
  <2>2. /\ UNCHANGED <<mode, total, state, pmm, pool, queue, wire, timeouts, exhausted>>
        /\ rx' = Published /\ poll' = [poll EXCEPT !.pc = "scan", !.i = Published.rx_tail, !.n = 0]
        /\ turn' = (IF mode = 5 THEN turn ELSE "proc") /\ state = "running" /\ mode \in {3, 4, 5}
    BY <1>14 DEF histVars
  <2>3. Basics' /\ Idle'
    BY <2>2 DEF Basics, Idle
  <2>4. RxType' /\ RxLoaded' /\ Published.rx_tail \in RxSlots
    <3>1. CASE poll.n = 0
      BY <2>0, <2>2, <3>1, RingFacts DEF Published, RxType, RxLoaded
    <3>2. CASE poll.n # 0
      <4>. DEFINE t == (poll.i + NUM_RX_DESC - 1) % NUM_RX_DESC
      <4>1. poll.i \in RxSlots /\ t \in RxSlots
        BY RingFacts, E1000Assumption DEF RxSlots
      <4>2. Published = [rx EXCEPT !.rx_tail = poll.i, !.RDT = t]
        BY <3>2 DEF Published
      <4>. HIDE DEF t
      <4>. QED BY <2>0, <2>2, <4>1, <4>2 DEF RxType, RxLoaded
    <3>. QED BY <3>1, <3>2
  <2>. HIDE DEF Published
  <2>5. PollType' /\ poll'.pc = "scan" /\ poll'.n = 0
    BY <2>0, <2>2, <2>4 DEF PollType
  <2>6. Fits'
    <3>1. mode' = 3 => turn' = "proc"
      BY <2>2
    <3>. QED BY <2>2, <2>5, <3>1 DEF Fits
  <2>. QED BY <2>1, <2>3, <2>4, <2>5, <2>6 DEF EInv, Types, Loaded
<1>15. CASE rx_queue_pop
  <2>. USE DEF rx_queue_pop, Runs
  <2>0. /\ Page' = Page /\ RxDesc' = RxDesc /\ TxDesc' = TxDesc
        /\ RxDescs' = RxDescs /\ TxDescs' = TxDescs
    BY <1>15, Kept DEF ringVars
  <2>1. /\ Basics' /\ RxType' /\ TxType' /\ MemType' /\ PollType' /\ ArpType' /\ HistType'
        /\ RxLoaded' /\ TxLoaded' /\ Idle'
    BY <1>15, <2>0 DEF Basics, RxType, TxType, MemType, PollType, ArpType, HistType, histVars,
                       ringVars, RxLoaded, TxLoaded, Idle
  <2>2. /\ Head(queue) \in Page /\ Tail(queue) \in Seq(Page) /\ Len(Tail(queue)) = Len(queue) - 1
        /\ Len(queue) \in Nat /\ Len(queue) > 0
    BY <1>15, Heads DEF ListType
  <2>3. ListType' /\ Len(queue') = Len(queue) - 1
    BY <1>15, <2>0, <2>2 DEF ListType
  <2>4. ProcType'
    BY <1>15, <2>0, <2>2 DEF ProcType
  <2>5. Fits'
    <3>1. /\ UNCHANGED <<mode, pool, poll, turn, rx>> /\ (mode = 5 \/ turn = "proc")
      BY <1>15 DEF ringVars
    <3>2. RX_QUEUE_SIZE \in Nat /\ RX_BATCH_MAX \in Nat
      BY E1000Assumption
    <3>. QED BY <2>2, <2>3, <3>1, <3>2 DEF Fits, Ready
  <2>. QED BY <2>1, <2>3, <2>4, <2>5 DEF EInv, Types, Loaded
<1>16. CASE e1000_handle_packet
  <2>. USE DEF e1000_handle_packet, Runs
  <2>0. /\ Page' = Page /\ RxDesc' = RxDesc /\ TxDesc' = TxDesc
        /\ RxDescs' = RxDescs /\ TxDescs' = TxDescs
    BY <1>16, Kept DEF ringVars
  <2>1. /\ Basics' /\ RxType' /\ TxType' /\ MemType' /\ ListType' /\ PollType'
        /\ RxLoaded' /\ TxLoaded' /\ Idle' /\ Fits'
    BY <1>16, <2>0 DEF Basics, RxType, TxType, MemType, ListType, PollType,
                       ringVars, RxLoaded, TxLoaded, Idle, Fits, Ready
  <2>. DEFINE n == mem[proc.buf]
  <2>2. n \in Nat
    BY RingFacts DEF MemType
  <2>3. /\ handled' = Append(handled, n) /\ UNCHANGED <<got, sent, acked>>
        /\ proc' = [proc EXCEPT !.pc = IF Answered(Traffic[n]) THEN "send" ELSE "release", !.pkt = n]
    BY <1>16
  <2>5. ArpType'
    <3>1. CASE Traffic[n].kind = "arp_reply"
      <4>. DEFINE r == [valid |-> TRUE, ip |-> Traffic[n].ip, mac |-> Traffic[n].mac]
                  s == ArpSlot(Traffic[n].ip)
      <4>1. arp' = [arp EXCEPT ![s] = r]
        BY <1>16, <3>1
      <4>2. r.valid \in BOOLEAN
        OBVIOUS
      <4>. HIDE DEF r, s
      <4>. QED BY <4>1, <4>2 DEF ArpType
    <3>2. CASE Traffic[n].kind # "arp_reply"
      BY <1>16, <3>2 DEF ArpType
    <3>. QED BY <3>1, <3>2
  <2>. HIDE DEF n
  <2>6. HistType'
    BY <2>2, <2>3, Appends DEF HistType
  <2>7. ProcType'
    BY <2>0, <2>2, <2>3 DEF ProcType
  <2>. QED BY <2>1, <2>5, <2>6, <2>7 DEF EInv, Types, Loaded
<1>17. CASE SendPacket
  <2>. USE DEF SendPacket, Runs
  <2>0. /\ Page' = Page /\ RxDesc' = RxDesc /\ TxDesc' = TxDesc
        /\ RxDescs' = RxDescs /\ TxDescs' = TxDescs
    BY <1>17, Kept
  <2>1. /\ Basics' /\ RxType' /\ MemType' /\ ListType' /\ PollType' /\ ArpType' /\ HistType'
        /\ RxLoaded' /\ Idle' /\ Fits'
    BY <1>17, <2>0 DEF Basics, RxType, MemType, ListType, PollType, ArpType, HistType, histVars,
                       RxLoaded, Idle, Fits, Ready
  <2>. DEFINE d == [tx.desc EXCEPT ![tx.tx_tail] = TxDescriptor(@, proc.pkt)]
  <2>2. tx.tx_tail \in TxSlots /\ tx.desc \in TxDesc /\ proc.pkt \in Nat
    BY <1>17, RingFacts DEF ProcType
  <2>3. d \in TxDesc
    BY <2>2, TxUpdates
  <2>4. tx' = [tx EXCEPT !.desc = d, !.tx_tail = NextTx(tx.tx_tail), !.TDT = NextTx(tx.tx_tail)]
    BY <1>17 DEF TxType
  <2>. HIDE DEF d
  <2>5. TxType'
    BY <2>0, <2>2, <2>3, <2>4, Slots DEF TxType, TxDescs
  <2>6. TxLoaded'
    <3>1. state = "running" /\ state' = state
      BY <1>17
    <3>2. tx'.desc = d /\ tx'.page = tx.page /\ tx'.TDT = tx'.tx_tail
      BY <2>4 DEF TxType
    <3>. QED BY <2>0, <2>3, <3>1, <3>2 DEF TxLoaded
  <2>7. ProcType'
    BY <1>17, <2>0, <2>2 DEF ProcType
  <2>. QED BY <2>1, <2>5, <2>6, <2>7 DEF EInv, Types, Loaded
<1>18. CASE SendDone
  <2>. USE DEF SendDone, Runs
  <2>0. /\ Page' = Page /\ RxDesc' = RxDesc /\ TxDesc' = TxDesc
        /\ RxDescs' = RxDescs /\ TxDescs' = TxDescs
    BY <1>18, Kept DEF ringVars
  <2>1. /\ Basics' /\ RxType' /\ TxType' /\ MemType' /\ ListType' /\ PollType' /\ ArpType'
        /\ RxLoaded' /\ TxLoaded' /\ Idle' /\ Fits'
    BY <1>18, <2>0 DEF Basics, RxType, TxType, MemType, ListType, PollType, ArpType,
                       ringVars, RxLoaded, TxLoaded, Idle, Fits, Ready
  <2>2. ProcType'
    BY <1>18, <2>0 DEF ProcType
  <2>3. proc.pkt \in Nat
    BY DEF ProcType
  <2>4. HistType'
    BY <1>18, <2>3, Appends DEF HistType
  <2>. QED BY <2>1, <2>2, <2>4 DEF EInv, Types, Loaded
<1>19. CASE SendTimeout
  <2>. USE DEF SendTimeout, Runs
  <2>0. /\ Page' = Page /\ RxDesc' = RxDesc /\ TxDesc' = TxDesc
        /\ RxDescs' = RxDescs /\ TxDescs' = TxDescs
    BY <1>19, Kept DEF ringVars
  <2>1. /\ RxType' /\ TxType' /\ MemType' /\ ListType' /\ PollType' /\ ArpType' /\ HistType'
        /\ RxLoaded' /\ TxLoaded' /\ Idle' /\ Fits'
    BY <1>19, <2>0 DEF RxType, TxType, MemType, ListType, PollType, ArpType, HistType, histVars,
                       ringVars, RxLoaded, TxLoaded, Idle, Fits, Ready
  <2>2. ProcType'
    BY <1>19, <2>0 DEF ProcType
  <2>3. Basics'
    BY <1>19 DEF Basics, ringVars, histVars
  <2>. QED BY <2>1, <2>2, <2>3 DEF EInv, Types, Loaded
<1>20. CASE e1000_rx_release_buffer
  <2>. USE DEF e1000_rx_release_buffer, Runs
  <2>0. /\ Page' = Page /\ RxDesc' = RxDesc /\ TxDesc' = TxDesc
        /\ RxDescs' = RxDescs /\ TxDescs' = TxDescs
    BY <1>20, Kept DEF ringVars
  <2>1. /\ RxType' /\ TxType' /\ MemType' /\ PollType' /\ ArpType' /\ HistType'
        /\ RxLoaded' /\ TxLoaded' /\ Idle'
    BY <1>20, <2>0 DEF RxType, TxType, MemType, PollType, ArpType, HistType, histVars,
                       ringVars, RxLoaded, TxLoaded, Idle
  <2>2. /\ pool' \in Seq(Page) /\ Len(pool') <= RX_FREE_POOL_SIZE /\ pmm' \in SUBSET (1 .. total)
    <3>1. CASE Pipelined
      BY <1>20, <3>1, RingFacts, PutTypes
    <3>2. CASE ~ Pipelined
      BY <1>20, <3>2 DEF Basics, ListType, Fits
    <3>. QED BY <3>1, <3>2
  <2>3. Basics'
    BY <1>20, <2>2 DEF Basics, ringVars, histVars
  <2>4. ListType'
    BY <1>20, <2>0, <2>2 DEF ListType
  <2>5. ProcType'
    <3>. DEFINE k == IF mode = 4 THEN proc.processed + 1 ELSE proc.processed
    <3>1. k \in Nat
      BY DEF ProcType
    <3>2. proc' = [proc EXCEPT !.pc = "idle", !.buf = NULL, !.pkt = NULL, !.processed = k]
      BY <1>20
    <3>. HIDE DEF k
    <3>. QED BY <2>0, <3>1, <3>2, PageFacts DEF ProcType, NULL
  <2>6. Fits'
    BY <1>20, <2>2 DEF Fits, Ready, ringVars
  <2>. QED BY <2>1, <2>3, <2>4, <2>5, <2>6 DEF EInv, Types, Loaded
<1>21. CASE BatchDone
  <2>. USE DEF BatchDone, Runs
  <2>0. /\ Page' = Page /\ RxDesc' = RxDesc /\ TxDesc' = TxDesc
        /\ RxDescs' = RxDescs /\ TxDescs' = TxDescs
    BY <1>21, Kept DEF ringVars
  <2>1. /\ Basics' /\ RxType' /\ TxType' /\ MemType' /\ ListType' /\ PollType' /\ ArpType' /\ HistType'
        /\ RxLoaded' /\ TxLoaded' /\ Idle'
    BY <1>21, <2>0 DEF Basics, RxType, TxType, MemType, ListType, PollType, ArpType, HistType, histVars,
                       ringVars, RxLoaded, TxLoaded, Idle
  <2>2. ProcType'
    BY <1>21, <2>0 DEF ProcType
  <2>3. Fits'
    <3>1. /\ UNCHANGED <<mode, pool, poll, rx, queue>> /\ turn = "proc" /\ turn' = "poll"
          /\ (mode = 3 => queue = <<>>)
      BY <1>21 DEF ringVars
    <3>. QED BY <3>1 DEF Fits, Ready
  <2>. QED BY <2>1, <2>2, <2>3 DEF EInv, Types, Loaded
<1>22. CASE UNCHANGED vars
  <2>0. /\ Page' = Page /\ RxDesc' = RxDesc /\ TxDesc' = TxDesc
        /\ RxDescs' = RxDescs /\ TxDescs' = TxDescs
    BY <1>22, Kept DEF ringVars, vars
  <2>. QED
    BY SMTT(60), <1>22, <2>0 DEF vars, ringVars, histVars, EInv, Types, Loaded, Basics, RxType, TxType, MemType,
      ListType, PollType, ProcType, ArpType, HistType, RxLoaded, TxLoaded, Idle, Fits, Ready
<1>. QED
  BY <1>1, <1>2, <1>3, <1>4, <1>5, <1>6, <1>7, <1>8, <1>9, <1>10, <1>11, <1>12, <1>13, <1>14,
     <1>15, <1>16, <1>17, <1>18, <1>19, <1>20, <1>21, <1>22, <1>23, <1>24
     DEF Next, DeviceNext, PollNext, ProcNext

(* The parts of EInv hold in every state. *)
THEOREM E1000Invariant == Spec => []EInv
<1>1. Init => EInv
  BY EInvInit
<1>2. EInv /\ [Next]_vars => EInv'
  BY EInvStep
<1>. QED BY <1>1, <1>2, PTL DEF Spec

(* TypeOK for every size of the rings, pool, queue and batch: the ring     *)
(* indexes stay on the ring and the pool and the queue never outgrow       *)
(* their arrays.                                                           *)
THEOREM E1000TypeCorrect == Spec => []TypeOK
<1>1. ASSUME EInv PROVE TypeOK
  <2>1. /\ Basics /\ RxType /\ TxType /\ ListType /\ PollType /\ ProcType /\ TxLoaded /\ Fits
    BY <1>1 DEF EInv, Types, Loaded
  <2>2. ToSet(pool) \subseteq 0 .. total /\ ToSet(queue) \subseteq 0 .. total
    <3>1. ToSet(pool) \subseteq Page /\ ToSet(queue) \subseteq Page
      BY <2>1, InSet DEF ListType
    <3>. QED BY <3>1 DEF Page
  <2>3. Len(queue) <= Max({RX_QUEUE_SIZE, RX_BATCH_MAX})
    <3>1. RX_QUEUE_SIZE \in Nat /\ RX_BATCH_MAX \in Nat
      BY E1000Assumption
    <3>. DEFINE m == Max({RX_QUEUE_SIZE, RX_BATCH_MAX})
    <3>2. m \in Nat /\ m >= RX_QUEUE_SIZE /\ m >= RX_BATCH_MAX
      BY <3>1, MaxOfTwo
    <3>. HIDE DEF m
    <3>3. Len(queue) \in Nat /\ Len(queue) <= m
      BY <2>1, <3>1, <3>2 DEF Fits, ListType
    <3>. QED BY <3>3 DEF m
  <2>4. Len(pool) <= RX_FREE_POOL_SIZE
    BY <2>1 DEF Fits
  <2>5. /\ poll.pc \in {"scan", "alloc", "push", "bind", "publish", "release"} /\ poll.i \in RxSlots
        /\ proc.pc \in {"idle", "handle", "send", "wait", "release"}
    BY <2>1 DEF PollType, ProcType
  <2>6. rx.rx_tail \in RxSlots /\ rx.RDH \in RxSlots /\ rx.RDT \in RxSlots
    BY <2>1 DEF RxType
  <2>7. tx.tx_tail \in TxSlots /\ tx.TDH \in TxSlots /\ tx.TDT = tx.tx_tail
    BY <2>1 DEF TxType, TxLoaded
  <2>. QED BY <2>1, <2>2, <2>3, <2>4, <2>5, <2>6, <2>7 DEF TypeOK, Basics
<1>2. EInv => TypeOK
  BY <1>1
<1>. QED BY <1>2, E1000Invariant, PTL

----------------------------------------------------------------------------
(* The ARP cache: an address has at most one valid entry, the one its      *)
(* owner's last handled reply gave.  Said are the places of its replies.   *)
Said(h, ip) == {i \in DOMAIN h : Traffic[h[i]].kind = "arp_reply" /\ Traffic[h[i]].ip = ip}
ArpInv ==
    \A s \in DOMAIN arp : arp[s].valid =>
        /\ \A t \in DOMAIN arp : arp[t].valid /\ arp[t].ip = arp[s].ip => t = s
        /\ \E i \in Said(handled, arp[s].ip) : /\ \A j \in Said(handled, arp[s].ip) : j <= i
                                      /\ arp[s].mac = Traffic[handled[i]].mac

(* The slot is an address's own, if it has one. *)
LEMMA ArpSlotIs ==
  ASSUME ArpType, ArpInv, NEW ip
  PROVE  /\ ArpSlot(ip) \in DOMAIN arp
         /\ \A t \in DOMAIN arp : arp[t].valid /\ arp[t].ip = ip => t = ArpSlot(ip)
<1>. DEFINE same == {s \in DOMAIN arp : arp[s].valid /\ arp[s].ip = ip}
            free == {s \in DOMAIN arp : ~ arp[s].valid}
<1>0. DOMAIN arp \in SUBSET Nat /\ 1 \in DOMAIN arp
  BY E1000Assumption DEF ArpType
<1>1. same \in SUBSET Nat /\ free \in SUBSET Nat
  BY <1>0
<1>2. CASE same # {}
  <2>1. Min(same) \in same
    BY <1>1, <1>2, MinIs
  <2>2. ArpSlot(ip) = Min(same)
    BY <1>2 DEF ArpSlot
  <2>3. ArpSlot(ip) \in same
    BY <2>1, <2>2
  <2>. QED BY <2>3 DEF ArpInv
<1>3. CASE same = {} /\ free # {}
  <2>1. Min(free) \in free
    BY <1>1, <1>3, MinIs
  <2>2. ArpSlot(ip) = Min(free)
    BY <1>3 DEF ArpSlot
  <2>. QED BY <1>3, <2>1, <2>2
<1>4. CASE same = {} /\ free = {}
  <2>1. ArpSlot(ip) = 1
    BY <1>4 DEF ArpSlot
  <2>. QED BY <1>0, <1>4, <2>1
<1>. QED BY <1>2, <1>3, <1>4

(* The cache starts without a valid entry. *)
LEMMA ArpInit == Init => ArpInv
<1>. SUFFICES ASSUME Init PROVE ArpInv
  OBVIOUS
<1>1. \A s \in DOMAIN arp : ~ arp[s].valid
  <2>1. \A s \in 1 .. ARP_CACHE_SIZE : arp[s] = [valid |-> FALSE, ip |-> 0, mac |-> 0]
    BY DEF Init
  <2>2. DOMAIN arp = 1 .. ARP_CACHE_SIZE
    BY DEF Init
  <2>. QED BY <2>1, <2>2
<1>. QED BY <1>1 DEF ArpInv

(* Only e1000_handle_packet writes the cache, and it writes the slot that  *)
(* arp_cache_update finds.                                                 *)
LEMMA ArpStep == ASSUME EInv, ArpInv, [Next]_vars PROVE ArpInv'
<1>1. ASSUME UNCHANGED <<arp, handled>> PROVE ArpInv'
  BY <1>1 DEF ArpInv, Said
<1>2. CASE e1000_handle_packet
  <2>. DEFINE n == mem[proc.buf]
              p == Traffic[n]
              L == Len(handled)
  <2>0. n \in Nat /\ handled \in Seq(Nat) /\ ArpType
    BY RingFacts DEF EInv, Types, MemType, HistType
  <2>1. /\ handled' = Append(handled, n)
        /\ arp' = IF p.kind = "arp_reply"
                  THEN [arp EXCEPT ![ArpSlot(p.ip)] = [valid |-> TRUE, ip |-> p.ip, mac |-> p.mac]]
                  ELSE arp
    BY <1>2 DEF e1000_handle_packet
  <2>. HIDE DEF n
  <2>2. /\ L \in Nat /\ DOMAIN handled = 1 .. L /\ DOMAIN handled' = 1 .. L + 1
        /\ \A i \in 1 .. L : handled'[i] = handled[i] /\ handled'[L + 1] = n
    BY <2>0, <2>1
  <2>2a. handled'[L + 1] = n
    BY <2>0, <2>1
  <2>3. ASSUME NEW ip PROVE Said(handled', ip) = Said(handled, ip) \cup
                              IF p.kind = "arp_reply" /\ p.ip = ip THEN {L + 1} ELSE {}
    BY <2>2, <2>2a DEF Said
  <2>4. \A ip : \A i \in Said(handled, ip) : i \in 1 .. L
    BY <2>2 DEF Said
  <2>5. CASE p.kind # "arp_reply"
    <3>1. arp' = arp /\ \A ip : Said(handled', ip) = Said(handled, ip)
      BY <2>1, <2>3, <2>5
    <3>. HIDE DEF p, L
    <3>. SUFFICES ASSUME NEW s \in DOMAIN arp, arp[s].valid
                  PROVE  \E i \in Said(handled, arp[s].ip) : /\ \A j \in Said(handled, arp[s].ip) : j <= i
                                                    /\ arp[s].mac = Traffic[handled'[i]].mac
      BY <3>1 DEF ArpInv
    <3>2. PICK i \in Said(handled, arp[s].ip) : /\ \A j \in Said(handled, arp[s].ip) : j <= i
                                       /\ arp[s].mac = Traffic[handled[i]].mac
      BY DEF ArpInv
    <3>. QED BY <2>2, <2>4, <3>2
  <2>6. CASE p.kind = "arp_reply"
    <3>. DEFINE a == ArpSlot(p.ip)
                r == [valid |-> TRUE, ip |-> p.ip, mac |-> p.mac]
    <3>1. a \in DOMAIN arp /\ \A t \in DOMAIN arp : arp[t].valid /\ arp[t].ip = p.ip => t = a
      BY <2>0, ArpSlotIs
    <3>2. arp' = [arp EXCEPT ![a] = r]
      BY <2>1, <2>6
    <3>3. r.valid /\ r.ip = p.ip /\ r.mac = p.mac
      OBVIOUS
    <3>. HIDE DEF a, r
    <3>4. DOMAIN arp' = DOMAIN arp /\ arp'[a] = r /\ \A t \in DOMAIN arp : t # a => arp'[t] = arp[t]
      BY <3>1, <3>2
    <3>5. Said(handled', p.ip) = Said(handled, p.ip) \cup {L + 1} /\ \A ip : ip # p.ip => Said(handled', ip) = Said(handled, ip)
      BY <2>3, <2>6
    <3>6. handled'[L + 1] = n /\ Traffic[handled'[L + 1]].mac = p.mac
      BY <2>2a
    <3>. SUFFICES ASSUME NEW s \in DOMAIN arp, arp'[s].valid
                  PROVE  /\ \A t \in DOMAIN arp : arp'[t].valid /\ arp'[t].ip = arp'[s].ip => t = s
                         /\ \E i \in Said(handled', arp'[s].ip) : /\ \A j \in Said(handled', arp'[s].ip) : j <= i
                                                         /\ arp'[s].mac = Traffic[handled'[i]].mac
      BY <3>4 DEF ArpInv
    <3>7. CASE s = a
      <4>1. arp'[s].ip = p.ip /\ arp'[s].mac = p.mac
        BY <3>3, <3>4, <3>7
      <4>2. \A t \in DOMAIN arp : arp'[t].valid /\ arp'[t].ip = arp'[s].ip => t = s
        BY <3>1, <3>4, <3>7, <4>1
      <4>3. \A j \in Said(handled', p.ip) : j <= L + 1
        BY <2>2, <2>4, <3>5
      <4>. HIDE DEF p, L
      <4>. QED BY <3>5, <3>6, <4>1, <4>2, <4>3
    <3>8. CASE s # a
      <4>1. arp'[s] = arp[s] /\ arp[s].valid /\ arp[s].ip # p.ip
        BY <3>1, <3>4, <3>8
      <4>2. \A t \in DOMAIN arp : arp'[t].valid /\ arp'[t].ip = arp[s].ip => t = s
        BY <3>3, <3>4, <4>1 DEF ArpInv
      <4>3. Said(handled', arp[s].ip) = Said(handled, arp[s].ip)
        BY <3>5, <4>1
      <4>4. PICK i \in Said(handled, arp[s].ip) : /\ \A j \in Said(handled, arp[s].ip) : j <= i
                                         /\ arp[s].mac = Traffic[handled[i]].mac
        BY SMTT(60), <4>1 DEF ArpInv
      <4>5. handled'[i] = handled[i]
        BY <2>2, <2>4
      <4>. HIDE DEF p, L
      <4>. QED BY <4>1, <4>2, <4>3, <4>4, <4>5
    <3>. QED BY <3>7, <3>8
  <2>. QED BY <2>5, <2>6
<1>3. CASE [Next]_vars /\ ~ e1000_handle_packet
  <2>1. UNCHANGED <<arp, handled>>
    BY <1>3 DEF Next, DeviceNext, PollNext, ProcNext, vars, histVars, e1000_init_rx, e1000_init_tx,
      StartLoop, ReceiveDma, TransmitFetch, TransmitDone, e1000_poll_packet,
      e1000_poll_packet_batch, e1000_rx_batch_release, SwapBuffer, rx_free_pool_get, PoolFallback, rx_queue_push, BindBuffer,
      QueueFull, ScanEnd, rx_queue_pop, SendPacket, SendDone, SendTimeout,
      e1000_rx_release_buffer, BatchDone
  <2>. QED BY <1>1, <2>1
<1>. QED BY <1>2, <1>3

(* ArpCurrent for every cache size and traffic: an address never has two   *)
(* entries, and its entry is the last one its owner sent, also when a      *)
(* full cache recycles slot 1.                                             *)
THEOREM ArpStaysCurrent == Spec => []ArpCurrent
<1>1. EInv /\ ArpInv => ArpCurrent
  <2>. SUFFICES ASSUME EInv, ArpInv, NEW s \in DOMAIN arp, arp[s].valid
                PROVE  arp[s].mac = Traffic[handled[Max(Said(handled, arp[s].ip))]].mac
    BY DEF ArpCurrent, ArpInv, Said
  <2>1. PICK i \in Said(handled, arp[s].ip) : /\ \A j \in Said(handled, arp[s].ip) : j <= i
                                     /\ arp[s].mac = Traffic[handled[i]].mac
    BY DEF ArpInv
  <2>2. Said(handled, arp[s].ip) \subseteq Nat
    BY DEF Said, EInv, Types, HistType
  <2>. DEFINE S == Said(handled, arp[s].ip)
              m == Max(S)
  <2>. HIDE DEF S
  <2>3. m \in S /\ \A j \in S : m >= j
    <3>1. \E x \in S : \A j \in S : x >= j
      BY <2>1, <2>2 DEF S
    <3>. QED BY <3>1 DEF Max
  <2>4. m = i
    BY <2>1, <2>2, <2>3 DEF S
  <2>. QED BY <2>1, <2>4 DEF S
<1>2. ArpInv /\ EInv /\ [Next]_vars => ArpInv'
  BY ArpStep
<1>. QED BY <1>1, <1>2, ArpInit, E1000Invariant, PTL DEF Spec

----------------------------------------------------------------------------
(* Sending.  The device still has the f descriptors TDH .. TDT - 1; each   *)
(* of them but the one being waited for belongs to a send that timed out,  *)
(* so while fewer than NUM_TX_DESC have, the ring is not full and the      *)
(* descriptor being polled is this packet's.                               *)
InFlight(f) ==
    /\ tx.TDT = IF tx.TDH + f < NUM_TX_DESC THEN tx.TDH + f ELSE tx.TDH + f - NUM_TX_DESC
    /\ f <= timeouts + IF proc.pc = "wait" /\ ~ tx.desc[proc.slot].dd THEN 1 ELSE 0
    /\ tx.hand # NULL => f > 0 /\ tx.hand = tx.desc[tx.TDH].pkt
    /\ proc.pc = "wait" =>
          /\ tx.TDT = IF proc.slot = NUM_TX_DESC - 1 THEN 0 ELSE proc.slot + 1
          /\ tx.desc[proc.slot].pkt = proc.pkt
          /\ IF tx.desc[proc.slot].dd THEN proc.pkt \in ToSet(sent) ELSE f > 0

SendInv ==
    timeouts < NUM_TX_DESC => /\ \E f \in 0 .. NUM_TX_DESC : InFlight(f)
                              /\ ToSet(acked) \subseteq ToSet(sent)

(* At first no descriptor is the device's. *)
LEMMA SendInit == Init => SendInv
<1>. SUFFICES ASSUME Init PROVE SendInv
  OBVIOUS
<1>1. /\ tx = NoTx /\ proc.pc = "idle" /\ timeouts = 0 /\ acked = <<>> /\ sent = <<>>
  BY DEF Init
<1>2. InFlight(0)
  BY <1>1, E1000Assumption DEF InFlight, NoTx
<1>3. 0 \in 0 .. NUM_TX_DESC
  BY E1000Assumption
<1>4. ToSet(acked) \subseteq ToSet(sent)
  BY <1>1
<1>. QED BY <1>2, <1>3, <1>4 DEF SendInv

(* The steps that leave the transmit ring alone. *)
LEMMA SendKept ==
  ASSUME SendInv, UNCHANGED <<tx, timeouts, sent, acked>>,
         (proc.pc # "wait" /\ proc'.pc # "wait") \/ proc' = proc
  PROVE  SendInv'
<1>. SUFFICES ASSUME timeouts < NUM_TX_DESC
              PROVE  (\E f \in 0 .. NUM_TX_DESC : InFlight(f)') /\ ToSet(acked) \subseteq ToSet(sent)
  BY DEF SendInv
<1>1. PICK f \in 0 .. NUM_TX_DESC : InFlight(f)
  BY DEF SendInv
<1>2. InFlight(f)'
  BY <1>1 DEF InFlight
<1>. QED BY <1>2 DEF SendInv

(* A send adds one descriptor to the device's, a timeout leaves it there,  *)
(* a transmission takes the oldest.                                        *)
LEMMA SendStep == ASSUME EInv, SendInv, [Next]_vars PROVE SendInv'
<1>0. /\ NUM_TX_DESC \in Nat /\ NUM_TX_DESC > 1
      /\ tx.TDH \in 0 .. NUM_TX_DESC - 1 /\ tx.TDT \in 0 .. NUM_TX_DESC - 1 /\ tx.tx_tail = tx.TDT
      /\ proc.slot \in 0 .. NUM_TX_DESC - 1 /\ timeouts \in Nat
      /\ sent \in Seq(Nat) /\ acked \in Seq(Nat) /\ tx.hand \in Nat /\ proc.pkt \in Nat
      /\ TxType /\ ProcType
  BY E1000Assumption, RingFacts DEF TxSlots, EInv, Types, Loaded, TxLoaded, Basics, HistType, TxType,
     ProcType
<1>1. ASSUME NEW i \in 0 .. NUM_TX_DESC - 1
      PROVE  NextTx(i) = IF i = NUM_TX_DESC - 1 THEN 0 ELSE i + 1
  BY NextIs DEF TxSlots
<1>2. CASE e1000_init_tx
  <2>0. /\ state = "rx_ready" /\ UNCHANGED <<proc, sent, acked, timeouts>>
    BY <1>2 DEF e1000_init_tx, histVars
  <2>1. tx = NoTx /\ proc.pc = "idle"
    BY <2>0 DEF EInv, Loaded, TxLoaded, Idle
  <2>2. CASE tx' = tx
    BY <2>0, <2>2, SendKept
  <2>3. CASE tx' # tx
    <3>1. tx'.TDH = 0 /\ tx'.TDT = 0 /\ tx'.hand = NULL
      BY <1>2, <2>3 DEF e1000_init_tx
    <3>2. InFlight(0)'
      BY <1>0, <2>0, <2>1, <3>1 DEF InFlight
    <3>. QED BY <1>0, <2>0, <3>2 DEF SendInv
  <2>. QED BY <2>2, <2>3
<1>3. CASE TransmitFetch
  <2>1. /\ tx' = [tx EXCEPT !.hand = tx.desc[tx.TDH].pkt] /\ UNCHANGED <<proc, sent, acked, timeouts>>
        /\ tx.TDH # tx.TDT
    BY <1>3 DEF TransmitFetch, histVars
  <2>2. /\ tx'.desc = tx.desc /\ tx'.TDH = tx.TDH /\ tx'.TDT = tx.TDT
        /\ tx'.hand = tx.desc[tx.TDH].pkt
    BY <1>0, <2>1 DEF TxType
  <2>. SUFFICES ASSUME timeouts < NUM_TX_DESC PROVE \E f \in 0 .. NUM_TX_DESC : InFlight(f)'
    BY <2>1 DEF SendInv
  <2>3. PICK f \in 0 .. NUM_TX_DESC : InFlight(f)
    BY DEF SendInv
  <2>4. f > 0
    BY <1>0, <2>1, <2>3 DEF InFlight
  <2>5. InFlight(f)'
    BY <2>1, <2>2, <2>3, <2>4 DEF InFlight
  <2>. QED BY <2>5
<1>4. CASE TransmitDone
  <2>. DEFINE h == tx.TDH
              d == tx.desc
  <2>1. /\ tx' = [tx EXCEPT !.desc[tx.TDH].dd = TRUE, !.TDH = NextTx(@), !.hand = NULL]
        /\ UNCHANGED <<proc, acked, timeouts>> /\ sent' = Append(sent, tx.hand) /\ tx.hand # NULL
    BY <1>4 DEF TransmitDone
  <2>2. tx.desc \in TxDesc
    BY <2>1, RingFacts
  <2>3. /\ tx'.TDH = NextTx(h) /\ tx'.TDT = tx.TDT /\ tx'.hand = NULL
        /\ tx'.desc = [d EXCEPT ![h].dd = TRUE]
    BY <1>0, <2>1 DEF TxType
  <2>4. \A i \in TxSlots : /\ tx'.desc[i].pkt = d[i].pkt
                           /\ tx'.desc[i].dd = IF i = h THEN TRUE ELSE d[i].dd
    <3>. HIDE DEF d, h
    <3>1. d \in TxDesc /\ h \in TxSlots
      BY <1>0, <2>2 DEF d, h, TxSlots
    <3>2. \A i \in TxSlots : /\ [d EXCEPT ![h].dd = TRUE][i].pkt = d[i].pkt
                             /\ [d EXCEPT ![h].dd = TRUE][i].dd = IF i = h THEN TRUE ELSE d[i].dd
      BY <3>1 DEF TxDesc
    <3>. QED BY <2>3, <3>2
  <2>5. ToSet(sent) \subseteq ToSet(sent') /\ tx.hand \in ToSet(sent')
    <3>. DEFINE x == tx.hand
    <3>1. sent \in Seq(Nat) /\ x \in Nat
      BY <1>0
    <3>. HIDE DEF x
    <3>2. ToSet(Append(sent, x)) = ToSet(sent) \cup {x}
      BY <3>1, Appended
    <3>. QED BY <2>1, <3>2 DEF x
  <2>. SUFFICES ASSUME timeouts < NUM_TX_DESC
                PROVE  \E f \in 0 .. NUM_TX_DESC : InFlight(f)'
    BY <2>1, <2>5 DEF SendInv
  <2>6. PICK f \in 0 .. NUM_TX_DESC : InFlight(f)
    BY DEF SendInv
  <2>7. f > 0 /\ tx.hand = d[h].pkt
    BY <2>1, <2>6 DEF InFlight
  <2>8. proc.slot \in TxSlots /\ h \in TxSlots
    BY <1>0 DEF TxSlots
  <2>9. proc.pc = "wait" /\ proc.slot = h /\ f # 1 => FALSE
    <3>. SUFFICES ASSUME proc.pc = "wait", proc.slot = h, f # 1 PROVE FALSE
      OBVIOUS
    <3>1. tx.TDT = IF h = NUM_TX_DESC - 1 THEN 0 ELSE h + 1
      BY <2>6 DEF InFlight
    <3>2. tx.TDT = IF h + f < NUM_TX_DESC THEN h + f ELSE h + f - NUM_TX_DESC
      BY <2>6 DEF InFlight
    <3>. QED BY <1>0, <2>7, <3>1, <3>2
  <2>10. f = 1 /\ proc.pc = "wait" => proc.slot = h
    <3>. SUFFICES ASSUME proc.pc = "wait", f = 1 PROVE proc.slot = h
      OBVIOUS
    <3>1. tx.TDT = IF proc.slot = NUM_TX_DESC - 1 THEN 0 ELSE proc.slot + 1
      BY <2>6 DEF InFlight
    <3>2. tx.TDT = IF h + f < NUM_TX_DESC THEN h + f ELSE h + f - NUM_TX_DESC
      BY <2>6 DEF InFlight
    <3>. QED BY SMTT(60), <1>0, <3>1, <3>2
  <2>11. tx'.TDT = IF tx'.TDH + (f - 1) < NUM_TX_DESC THEN tx'.TDH + (f - 1)
                   ELSE tx'.TDH + (f - 1) - NUM_TX_DESC
    <3>1. tx.TDT = IF h + f < NUM_TX_DESC THEN h + f ELSE h + f - NUM_TX_DESC
      BY <2>6 DEF InFlight
    <3>2. NextTx(h) = IF h = NUM_TX_DESC - 1 THEN 0 ELSE h + 1
      BY <1>0, <1>1
    <3>. QED BY SMTT(60), <1>0, <2>3, <2>7, <3>1, <3>2
  <2>12. f - 1 <= timeouts + IF proc.pc = "wait" /\ ~ tx'.desc[proc.slot].dd THEN 1 ELSE 0
    <3>1. f <= timeouts + IF proc.pc = "wait" /\ ~ tx.desc[proc.slot].dd THEN 1 ELSE 0
      BY <2>6 DEF InFlight
    <3>. QED BY <1>0, <3>1
  <2>13. proc.pc = "wait" => IF tx'.desc[proc.slot].dd THEN proc.pkt \in ToSet(sent') ELSE f - 1 > 0
    <3>. SUFFICES ASSUME proc.pc = "wait"
                  PROVE  IF tx'.desc[proc.slot].dd THEN proc.pkt \in ToSet(sent') ELSE f - 1 > 0
      OBVIOUS
    <3>1. /\ IF tx.desc[proc.slot].dd THEN proc.pkt \in ToSet(sent) ELSE f > 0
          /\ tx.desc[proc.slot].pkt = proc.pkt
      BY <2>6 DEF InFlight
    <3>2. CASE proc.slot = h
      BY <2>4, <2>5, <2>7, <2>8, <3>1, <3>2
    <3>3. CASE proc.slot # h
      <4>1. tx'.desc[proc.slot].dd = tx.desc[proc.slot].dd /\ f # 1
        BY <2>4, <2>8, <2>10, <3>3
      <4>. QED BY <2>5, <2>7, <3>1, <4>1
    <3>. QED BY <3>2, <3>3
  <2>14. InFlight(f - 1)'
    <3>1. /\ tx'.desc[proc.slot].pkt = tx.desc[proc.slot].pkt /\ tx'.TDT = tx.TDT
          /\ tx'.hand = NULL /\ proc' = proc /\ timeouts' = timeouts
      BY <2>1, <2>3, <2>4, <2>8
    <3>. QED BY <2>6, <2>11, <2>12, <2>13, <3>1 DEF InFlight
  <2>15. f - 1 \in 0 .. NUM_TX_DESC
    BY <1>0, <2>7
  <2>. QED BY <2>14, <2>15
<1>5. CASE SendPacket
  <2>. DEFINE i == tx.tx_tail
              d == tx.desc
  <2>1. /\ tx' = [tx EXCEPT !.desc[i] = TxDescriptor(@, proc.pkt), !.tx_tail = NextTx(i),
                            !.TDT = NextTx(i)]
        /\ proc' = [proc EXCEPT !.pc = "wait", !.slot = i] /\ proc.pc = "send"
        /\ UNCHANGED <<sent, acked, timeouts>> /\ state = "running"
    BY <1>5 DEF SendPacket, histVars, Runs
  <2>2. tx.desc \in TxDesc
    BY <2>1, RingFacts
  <2>3. /\ tx'.TDT = NextTx(i) /\ tx'.TDH = tx.TDH /\ tx'.hand = tx.hand
        /\ tx'.desc = [d EXCEPT ![i] = TxDescriptor(@, proc.pkt)]
        /\ proc'.pc = "wait" /\ proc'.slot = i /\ proc'.pkt = proc.pkt
    BY <1>0, <2>1 DEF TxType, ProcType
  <2>4. /\ tx'.desc[i].pkt = proc.pkt /\ ~ tx'.desc[i].dd
        /\ \A j \in TxSlots : j # i => tx'.desc[j] = d[j]
    <3>. HIDE DEF d, i
    <3>1. d \in TxDesc /\ i \in TxSlots /\ proc.pkt \in Nat
      BY <1>0, <2>2 DEF d, i, TxSlots
    <3>2. /\ [d EXCEPT ![i] = TxDescriptor(@, proc.pkt)][i].pkt = proc.pkt
          /\ ~ [d EXCEPT ![i] = TxDescriptor(@, proc.pkt)][i].dd
          /\ \A j \in TxSlots : j # i => [d EXCEPT ![i] = TxDescriptor(@, proc.pkt)][j] = d[j]
      BY <3>1 DEF TxDesc, TxDescriptor
    <3>. QED BY <2>3, <3>2
  <2>. SUFFICES ASSUME timeouts < NUM_TX_DESC PROVE \E f \in 0 .. NUM_TX_DESC : InFlight(f)'
    BY <2>1 DEF SendInv
  <2>5. PICK f \in 0 .. NUM_TX_DESC : InFlight(f)
    BY DEF SendInv
  <2>6. f <= timeouts /\ f < NUM_TX_DESC /\ i \in 0 .. NUM_TX_DESC - 1
        /\ NextTx(i) = IF i = NUM_TX_DESC - 1 THEN 0 ELSE i + 1
    BY <1>0, <1>1, <2>1, <2>5 DEF InFlight
  <2>7. /\ tx.TDT = IF tx.TDH + f < NUM_TX_DESC THEN tx.TDH + f ELSE tx.TDH + f - NUM_TX_DESC
        /\ tx.hand # NULL => f > 0 /\ tx.hand = tx.desc[tx.TDH].pkt
    BY <2>5 DEF InFlight
  <2>8. tx.hand # NULL => f + 1 > 0 /\ tx.hand = tx'.desc[tx.TDH].pkt
    <3>. SUFFICES ASSUME tx.hand # NULL PROVE f + 1 > 0 /\ tx.hand = tx'.desc[tx.TDH].pkt
      OBVIOUS
    <3>1. tx.TDH # i /\ tx.TDH \in TxSlots
      BY <1>0, <2>6, <2>7 DEF TxSlots
    <3>. QED BY <2>4, <2>6, <2>7, <3>1
  <2>9. tx'.TDT = IF tx'.TDH + (f + 1) < NUM_TX_DESC THEN tx'.TDH + (f + 1)
                  ELSE tx'.TDH + (f + 1) - NUM_TX_DESC
    <3>. DEFINE t == tx.TDT
                h == tx.TDH
                n == NUM_TX_DESC
    <3>1. /\ t \in 0 .. n - 1 /\ h \in 0 .. n - 1 /\ f \in 0 .. n - 1 /\ n \in Nat
          /\ t = IF h + f < n THEN h + f ELSE h + f - n
      BY <1>0, <2>6, <2>7
    <3>2. tx'.TDT = (IF t = n - 1 THEN 0 ELSE t + 1) /\ tx'.TDH = h
      BY <1>0, <2>3, <2>6
    <3>. HIDE DEF t, h, n
    <3>3. (IF t = n - 1 THEN 0 ELSE t + 1) = IF h + (f + 1) < n THEN h + (f + 1) ELSE h + (f + 1) - n
      BY <3>1
    <3>. QED BY <3>2, <3>3 DEF n
  <2>10. InFlight(f + 1)'
    <3>1. f + 1 <= timeouts + 1 /\ f + 1 > 0
      BY <1>0, <2>6
    <3>. QED BY <2>1, <2>3, <2>4, <2>6, <2>8, <2>9, <3>1 DEF InFlight
  <2>11. f + 1 \in 0 .. NUM_TX_DESC
    BY <1>0, <2>6
  <2>. QED BY <2>10, <2>11
<1>6. CASE SendDone
  <2>1. /\ UNCHANGED <<tx, sent, timeouts>> /\ acked' = Append(acked, proc.pkt)
        /\ proc.pc = "wait" /\ tx.desc[proc.slot].dd /\ proc' = [proc EXCEPT !.pc = "release"]
    BY <1>6 DEF SendDone, ringVars
  <2>. SUFFICES ASSUME timeouts < NUM_TX_DESC
                PROVE  (\E f \in 0 .. NUM_TX_DESC : InFlight(f)') /\ ToSet(acked') \subseteq ToSet(sent)
    BY <2>1 DEF SendInv
  <2>2. PICK f \in 0 .. NUM_TX_DESC : InFlight(f)
    BY DEF SendInv
  <2>3. proc'.pc = "release"
    BY <1>0, <2>1 DEF ProcType
  <2>4. InFlight(f)'
    BY <2>1, <2>2, <2>3 DEF InFlight
  <2>5. proc.pkt \in ToSet(sent) /\ ToSet(acked) \subseteq ToSet(sent)
    BY <2>1, <2>2 DEF InFlight, SendInv
  <2>6. ToSet(acked') = ToSet(acked) \cup {proc.pkt}
    <3>1. ToSet(Append(acked, proc.pkt)) = ToSet(acked) \cup {proc.pkt}
      BY <1>0, Appended
    <3>. QED BY <2>1, <3>1
  <2>. QED BY <2>4, <2>5, <2>6
<1>7. CASE SendTimeout
  <2>1. /\ UNCHANGED <<tx, sent, acked>> /\ timeouts' = timeouts + 1
        /\ proc.pc = "wait" /\ ~ tx.desc[proc.slot].dd /\ proc' = [proc EXCEPT !.pc = "release"]
    BY <1>7 DEF SendTimeout, ringVars, histVars
  <2>. SUFFICES ASSUME timeouts + 1 < NUM_TX_DESC
                PROVE  (\E f \in 0 .. NUM_TX_DESC : InFlight(f)') /\ ToSet(acked) \subseteq ToSet(sent)
    BY <2>1 DEF SendInv
  <2>0. timeouts < NUM_TX_DESC
    BY <1>0
  <2>2. PICK f \in 0 .. NUM_TX_DESC : InFlight(f)
    BY <2>0 DEF SendInv
  <2>3. proc'.pc = "release"
    BY <1>0, <2>1 DEF ProcType
  <2>4. InFlight(f)'
    BY <1>0, <2>1, <2>2, <2>3 DEF InFlight
  <2>. QED BY <2>0, <2>4 DEF SendInv
<1>8. CASE rx_queue_pop \/ e1000_handle_packet \/ e1000_rx_release_buffer \/ BatchDone
  <2>1. UNCHANGED <<tx, timeouts, sent, acked>>
    BY <1>8 DEF rx_queue_pop, e1000_handle_packet, e1000_rx_release_buffer, BatchDone, ringVars, histVars
  <2>2. proc.pc # "wait" /\ proc'.pc # "wait"
    BY <1>0, <1>8 DEF rx_queue_pop, e1000_handle_packet, e1000_rx_release_buffer, BatchDone, ProcType
  <2>. QED BY <2>1, <2>2, SendKept
<1>9. CASE \/ e1000_init_rx \/ StartLoop \/ ReceiveDma \/ PollNext \/ UNCHANGED vars
  <2>1. UNCHANGED <<tx, timeouts, sent, acked, proc>>
    BY <1>9 DEF PollNext, vars, histVars, ringVars, e1000_init_rx,
      StartLoop, ReceiveDma, e1000_poll_packet, e1000_poll_packet_batch, e1000_rx_batch_release,
      SwapBuffer, rx_free_pool_get, PoolFallback, rx_queue_push, BindBuffer, QueueFull, ScanEnd
  <2>. QED BY <2>1, SendKept
<1>. QED
  BY <1>2, <1>3, <1>4, <1>5, <1>6, <1>7, <1>8, <1>9 DEF Next, DeviceNext, ProcNext

(* SendsTruthful for every ring size: as long as fewer sends have timed    *)
(* out than there are descriptors, the status bit that e1000_send_packet   *)
(* polls is that of its own packet.                                        *)
THEOREM SendsStayTruthful == Spec => []SendsTruthful
<1>1. SendInv => SendsTruthful
  BY DEF SendInv, SendsTruthful
<1>2. EInv /\ SendInv /\ [Next]_vars => SendInv'
  BY SendStep
<1>. QED BY <1>1, <1>2, SendInit, E1000Invariant, PTL DEF Spec

----------------------------------------------------------------------------
(* The pages held, by holder; a page in no ring, list or hand is lost. *)
Held == [h \in Holders |-> Holds(h)]
Apart(H) == \A g, h \in Holders : g # h => H[g] \cap H[h] = {}
All(H) == UNION {H[h] : h \in Holders}

Owned == Apart(Held) /\ (mode # 3 => All(Held) = 1 .. total)
Sound(r) ==
    \A i \in DOMAIN r.desc :
        /\ r.desc[i].buf # NULL /\ r.desc[i].buf # r.page
        /\ \A j \in DOMAIN r.desc : r.desc[i].buf = r.desc[j].buf => i = j
Listed ==
    IsInjective(pool) /\ IsInjective(queue) /\ NULL \notin ToSet(pool) /\ NULL \notin ToSet(queue)
InHands ==
    /\ poll.new # NULL <=> poll.pc \in {"push", "bind"}
    /\ proc.buf # NULL <=> proc.pc # "idle"

PageInv == ~ exhausted => Owned /\ Sound(rx) /\ Sound(tx) /\ Listed /\ InHands

(* Pages go from one holder to another, or through one to a third. *)
Moves(H, K, g, h, M) ==
    /\ g \in Holders /\ h \in Holders /\ g # h /\ M \subseteq H[g]
    /\ K[g] = H[g] \ M /\ K[h] = H[h] \cup M
    /\ \A x \in Holders : x # g /\ x # h => K[x] = H[x]

(* Pages that go from one holder to another stay with one owner, and none  *)
(* is lost.                                                                *)
LEMMA Moved ==
  ASSUME NEW H, NEW K, NEW g, NEW h, NEW M, Moves(H, K, g, h, M), Apart(H)
  PROVE  Apart(K) /\ All(K) = All(H)
<1>. USE DEF Moves
<1>1. ASSUME NEW x \in Holders, NEW y \in Holders, x # y PROVE K[x] \cap K[y] = {}
  <2>1. H[x] \cap H[y] = {} /\ (H[g] \cap H[x] = {} \/ g = x)
    BY <1>1 DEF Apart
  <2>2. g # y => H[g] \cap H[y] = {}
    BY DEF Apart
  <2>3. H[x] \cap H[y] = {}
    BY <1>1 DEF Apart
  <2>4. g # x => H[g] \cap H[x] = {}
    BY DEF Apart
  <2>5. CASE x = g \/ y = g
    BY <1>1, <2>2, <2>3, <2>4, <2>5
  <2>6. CASE x # g /\ y # g
    <3>1. M \cap H[x] = {} /\ M \cap H[y] = {}
      BY <2>2, <2>4, <2>6
    <3>. QED BY <1>1, <2>3, <2>6, <3>1
  <2>. QED BY <2>5, <2>6
<1>2. ASSUME NEW p PROVE p \in All(K) <=> p \in All(H)
  <2>1. ASSUME NEW x \in Holders, p \in K[x] PROVE \E y \in Holders : p \in H[y]
    BY <2>1
  <2>2. ASSUME NEW x \in Holders, p \in H[x] PROVE \E y \in Holders : p \in K[y]
    BY <2>2
  <2>. QED BY <2>1, <2>2 DEF All
<1>. QED BY <1>1, <1>2 DEF Apart

Passes(H, K, g, h, j, p, b) ==
    /\ g \in Holders /\ h \in Holders /\ j \in Holders /\ g # h /\ h # j /\ g # j
    /\ p \in H[g] /\ b \in H[h] /\ p # b
    /\ K[g] = H[g] \ {p} /\ K[h] = (H[h] \cup {p}) \ {b} /\ K[j] = H[j] \cup {b}
    /\ \A x \in Holders : x # g /\ x # h /\ x # j => K[x] = H[x]

(* So do two pages of which one takes the other's place. *)
LEMMA Passed ==
  ASSUME NEW H, NEW K, NEW g, NEW h, NEW j, NEW p, NEW b, Passes(H, K, g, h, j, p, b), Apart(H)
  PROVE  Apart(K) /\ All(K) = All(H)
<1>. DEFINE L == [x \in Holders |-> IF x = g THEN H[g] \ {p} ELSE IF x = h THEN H[h] \cup {p} ELSE H[x]]
<1>1. Moves(H, L, g, h, {p})
  BY DEF Moves, Passes
<1>2. Moves(L, K, h, j, {b})
  <2>1. L[h] = H[h] \cup {p} /\ L[j] = H[j] /\ \A x \in Holders : x # g /\ x # h => L[x] = H[x]
    BY DEF Passes
  <2>2. L[g] = H[g] \ {p}
    BY DEF Passes
  <2>. HIDE DEF L
  <2>. QED BY <2>1, <2>2 DEF Moves, Passes
<1>. HIDE DEF L
<1>3. Apart(L) /\ All(L) = All(H)
  BY <1>1, Moved
<1>4. Apart(K) /\ All(K) = All(L)
  BY <1>2, <1>3, Moved
<1>. QED BY <1>3, <1>4

(* Sequences that hold nothing twice. *)
LEMMA InjectiveAppend ==
  ASSUME NEW S, NEW s \in Seq(S), NEW e \in S, IsInjective(s), e \notin ToSet(s)
  PROVE  IsInjective(Append(s, e))
<1>. DEFINE t == Append(s, e)
<1>1. /\ t \in Seq(S) /\ Len(t) = Len(s) + 1 /\ Len(s) \in Nat /\ t[Len(s) + 1] = e
      /\ \A k \in 1 .. Len(s) : t[k] = s[k]
  BY Appends
<1>2. \A x : x \in ToSet(s) <=> \E k \in 1 .. Len(s) : x = s[k]
  BY InSet
<1>. HIDE DEF t
<1>3. ASSUME NEW a \in 1 .. Len(t), NEW b \in 1 .. Len(t), t[a] = t[b] PROVE a = b
  <2>1. CASE a \in 1 .. Len(s) /\ b \in 1 .. Len(s)
    BY <1>1, <1>3, <2>1 DEF IsInjective
  <2>2. CASE a = Len(s) + 1 /\ b \in 1 .. Len(s)
    BY <1>1, <1>2, <1>3, <2>2
  <2>3. CASE b = Len(s) + 1 /\ a \in 1 .. Len(s)
    BY <1>1, <1>2, <1>3, <2>3
  <2>. QED BY <1>1, <2>1, <2>2, <2>3
<1>4. DOMAIN t = 1 .. Len(t)
  BY <1>1
<1>5. IsInjective(t)
  BY <1>3, <1>4 DEF IsInjective
<1>. QED BY <1>5 DEF t

(* Taking the head off removes one element from what a sequence holds. *)
LEMMA InjectiveTail ==
  ASSUME NEW S, NEW s \in Seq(S), s # <<>>, IsInjective(s)
  PROVE  IsInjective(Tail(s)) /\ ToSet(Tail(s)) = ToSet(s) \ {Head(s)} /\ Head(s) \in ToSet(s)
<1>. DEFINE t == Tail(s)
<1>1. /\ t \in Seq(S) /\ Len(t) = Len(s) - 1 /\ Len(s) \in Nat /\ Len(s) > 0 /\ Head(s) = s[1]
      /\ \A k \in 1 .. Len(s) - 1 : t[k] = s[k + 1]
  BY Heads
<1>. HIDE DEF t
<1>2. DOMAIN t = 1 .. Len(t) /\ DOMAIN s = 1 .. Len(s)
  BY <1>1
<1>3. /\ \A x : x \in ToSet(s) <=> \E k \in 1 .. Len(s) : x = s[k]
      /\ \A x : x \in ToSet(t) <=> \E k \in 1 .. Len(t) : x = t[k]
  BY <1>1, InSet
<1>4. \A a, b \in 1 .. Len(s) : s[a] = s[b] => a = b
  BY <1>2 DEF IsInjective
<1>5. IsInjective(t)
  <2>1. ASSUME NEW a \in 1 .. Len(t), NEW b \in 1 .. Len(t), t[a] = t[b] PROVE a = b
    <3>1. t[a] = s[a + 1] /\ t[b] = s[b + 1] /\ a + 1 \in 1 .. Len(s) /\ b + 1 \in 1 .. Len(s)
      BY <1>1
    <3>2. a + 1 = b + 1
      BY <1>4, <2>1, <3>1
    <3>. QED BY <3>2
  <2>. QED BY <1>2, <2>1 DEF IsInjective
<1>6. ASSUME NEW x \in ToSet(t) PROVE x \in ToSet(s) \ {Head(s)}
  <2>1. PICK k \in 1 .. Len(t) : x = t[k]
    BY <1>3
  <2>2. x = s[k + 1] /\ k + 1 \in 1 .. Len(s) /\ 1 \in 1 .. Len(s) /\ k + 1 # 1
    BY <1>1, <2>1
  <2>3. s[k + 1] # s[1]
    BY <1>4, <2>2
  <2>. QED BY <1>1, <1>3, <2>2, <2>3
<1>7. ASSUME NEW x \in ToSet(s), x # Head(s) PROVE x \in ToSet(t)
  <2>1. PICK k \in 1 .. Len(s) : x = s[k]
    BY <1>3
  <2>2. k # 1
    BY <1>1, <1>7, <2>1
  <2>3. k - 1 \in 1 .. Len(s) - 1 /\ (k - 1) + 1 = k
    BY <1>1, <2>2
  <2>4. t[k - 1] = x
    BY <1>1, <2>1, <2>3
  <2>. QED BY <1>1, <1>3, <2>3, <2>4
<1>8. Head(s) \in ToSet(s)
  BY <1>1, <1>3
<1>. QED BY <1>5, <1>6, <1>7, <1>8 DEF t

(* Taking the last element off removes one from what a sequence holds. *)
LEMMA InjectiveFront ==
  ASSUME NEW S, NEW s \in Seq(S), s # <<>>, IsInjective(s)
  PROVE  IsInjective(Front(s)) /\ ToSet(Front(s)) = ToSet(s) \ {Last(s)} /\ Last(s) \in ToSet(s)
<1>. DEFINE t == Front(s)
<1>1. /\ t \in Seq(S) /\ Len(t) = Len(s) - 1 /\ Len(s) \in Nat /\ Len(s) > 0 /\ Last(s) = s[Len(s)]
      /\ \A k \in 1 .. Len(s) - 1 : t[k] = s[k]
  BY Ends
<1>. HIDE DEF t
<1>2. DOMAIN t = 1 .. Len(t) /\ DOMAIN s = 1 .. Len(s)
  BY <1>1
<1>3. /\ \A x : x \in ToSet(s) <=> \E k \in 1 .. Len(s) : x = s[k]
      /\ \A x : x \in ToSet(t) <=> \E k \in 1 .. Len(t) : x = t[k]
  BY <1>1, InSet
<1>4. \A a, b \in 1 .. Len(s) : s[a] = s[b] => a = b
  BY <1>2 DEF IsInjective
<1>5. IsInjective(t)
  <2>1. ASSUME NEW a \in 1 .. Len(t), NEW b \in 1 .. Len(t), t[a] = t[b] PROVE a = b
    <3>1. t[a] = s[a] /\ t[b] = s[b] /\ a \in 1 .. Len(s) /\ b \in 1 .. Len(s)
      BY <1>1
    <3>. QED BY <1>4, <2>1, <3>1
  <2>. QED BY <1>2, <2>1 DEF IsInjective
<1>6. ASSUME NEW x \in ToSet(t) PROVE x \in ToSet(s) \ {Last(s)}
  <2>1. PICK k \in 1 .. Len(t) : x = t[k]
    BY <1>3
  <2>2. x = s[k] /\ k \in 1 .. Len(s) /\ Len(s) \in 1 .. Len(s) /\ k # Len(s)
    BY <1>1, <2>1
  <2>3. s[k] # s[Len(s)]
    BY <1>4, <2>2
  <2>. QED BY <1>1, <1>3, <2>2, <2>3
<1>7. ASSUME NEW x \in ToSet(s), x # Last(s) PROVE x \in ToSet(t)
  <2>1. PICK k \in 1 .. Len(s) : x = s[k]
    BY <1>3
  <2>2. k # Len(s)
    BY <1>1, <1>7, <2>1
  <2>3. k \in 1 .. Len(s) - 1 /\ k \in 1 .. Len(t)
    BY <1>1, <2>2
  <2>4. t[k] = x
    BY <1>1, <2>1, <2>3
  <2>. QED BY <1>3, <2>3, <2>4
<1>8. Last(s) \in ToSet(s)
  BY <1>1, <1>3
<1>. QED BY <1>5, <1>6, <1>7, <1>8 DEF t

(* What Held says of each holder, in this and in the next state. *)
LEMMA HeldIs ==
  /\ Held["pmm"] = pmm /\ Held["rx"] = RxPages \ ({NULL} \cup HandedOver) /\ Held["tx"] = TxPages \ {NULL}
  /\ Held["pool"] = ToSet(pool) /\ Held["poll"] = {poll.new} \ {NULL}
  /\ Held["queue"] = (IF mode \in {1, 2} THEN {} ELSE ToSet(queue))
  /\ Held["proc"] = (IF mode \in {1, 2} THEN {} ELSE {proc.buf} \ {NULL})
  /\ DOMAIN Held = Holders
BY DEF Held, Holds, Holders

(* The same for the next state. *)
LEMMA HeldIsThen ==
  /\ Held'["pmm"] = pmm' /\ Held'["rx"] = RxPages' \ ({NULL} \cup HandedOver') /\ Held'["tx"] = TxPages' \ {NULL}
  /\ Held'["pool"] = ToSet(pool') /\ Held'["poll"] = {poll'.new} \ {NULL}
  /\ Held'["queue"] = (IF mode' \in {1, 2} THEN {} ELSE ToSet(queue'))
  /\ Held'["proc"] = (IF mode' \in {1, 2} THEN {} ELSE {proc'.buf} \ {NULL})
  /\ DOMAIN Held' = Holders
BY DEF Held, Holds, Holders, RxPages, TxPages, HandedOver, NULL

(* When a page has been handed over. *)
LEMMA HandedIs ==
  /\ poll.pc # "bind" => HandedOver = {}
  /\ poll'.pc # "bind" => HandedOver' = {}
  /\ poll.pc = "bind" => HandedOver = {rx.desc[poll.i].buf}
  /\ poll'.pc = "bind" => HandedOver' = {rx'.desc[poll'.i].buf}
  /\ UNCHANGED <<rx, poll>> => HandedOver' = HandedOver
BY DEF HandedOver

----------------------------------------------------------------------------
(* What a step leaves where it is. *)
SameRing(r, s) ==
    /\ s.page = r.page /\ DOMAIN s.desc = DOMAIN r.desc
    /\ \A i \in DOMAIN r.desc : s.desc[i].buf = r.desc[i].buf
SameHands ==
    /\ poll'.new = poll.new /\ (poll'.pc \in {"push", "bind"} <=> poll.pc \in {"push", "bind"})
    /\ HandedOver' = HandedOver
    /\ proc'.buf = proc.buf /\ (proc'.pc = "idle" <=> proc.pc = "idle")

(* A receive ring that keeps its buffers keeps its pages. *)
LEMMA SameRx ==
  ASSUME SameRing(rx, rx')
  PROVE  RxPages' = RxPages /\ (Sound(rx) => Sound(rx'))
BY DEF SameRing, RxPages, Sound

(* A transmit ring that keeps its buffers keeps its pages. *)
LEMMA SameTx ==
  ASSUME SameRing(tx, tx')
  PROVE  TxPages' = TxPages /\ (Sound(tx) => Sound(tx'))
BY DEF SameRing, TxPages, Sound

(* No page changes hands. *)
LEMMA PagesKept ==
  ASSUME PageInv, UNCHANGED <<mode, total, pmm, pool, queue, exhausted>>,
         SameRing(rx, rx'), SameRing(tx, tx'), SameHands
  PROVE  PageInv'
<1>. SUFFICES ASSUME ~ exhausted PROVE Owned' /\ Sound(rx)' /\ Sound(tx)' /\ Listed' /\ InHands'
  BY DEF PageInv
<1>1. Owned /\ Sound(rx) /\ Sound(tx) /\ Listed /\ InHands
  BY DEF PageInv
<1>2. Sound(rx') /\ Sound(tx') /\ RxPages' = RxPages /\ TxPages' = TxPages
  BY <1>1, SameRx, SameTx
<1>3. Held' = Held
  <2>1. \A h \in Holders : Holds(h)' = Holds(h)
    BY <1>2 DEF Holders, Holds, SameHands, NULL
  <2>. QED BY <2>1 DEF Held
<1>4. Owned'
  BY <1>1, <1>3 DEF Owned
<1>5. Listed' /\ InHands'
  BY <1>1 DEF Listed, InHands, SameHands, NULL
<1>. QED BY <1>2, <1>4, <1>5

(* At first the allocator has every page. *)
LEMMA PageInit == Init => PageInv
<1>. SUFFICES ASSUME Init PROVE PageInv
  OBVIOUS
<1>1. /\ rx = NoRx /\ tx = NoTx /\ pool = <<>> /\ queue = <<>> /\ poll.new = NULL /\ proc.buf = NULL
      /\ poll.pc = "scan" /\ proc.pc = "idle" /\ pmm = 1 .. total
  BY DEF Init
<1>2. DOMAIN NoRx.desc = {} /\ DOMAIN NoTx.desc = {} /\ NoRx.page = NULL /\ NoTx.page = NULL
  BY DEF NoRx, NoTx
<1>3. RxPages = {NULL} /\ TxPages = {NULL}
  BY <1>1, <1>2 DEF RxPages, TxPages
<1>4. ToSet(<<>>) = {} /\ IsInjective(<<>>)
  BY DEF ToSet, IsInjective
<1>5. /\ Held["pmm"] = 1 .. total
      /\ \A h \in Holders : h # "pmm" => Held[h] = {}
  BY <1>1, <1>3, <1>4, HeldIs, HandedIs DEF Holders
<1>6. Apart(Held)
  BY <1>5 DEF Apart
<1>7. All(Held) = 1 .. total
  BY <1>5 DEF All, Holders
<1>8. Sound(rx) /\ Sound(tx)
  BY <1>1, <1>2 DEF Sound
<1>9. Listed /\ InHands
  BY <1>1, <1>4 DEF Listed, InHands
<1>. QED BY <1>6, <1>7, <1>8, <1>9 DEF PageInv, Owned

(* The pages of a new ring. *)
LEMMA NewRing ==
  ASSUME Basics, NEW n \in Nat, ~ (Len(Lowest(n + 1)) < n + 1), NEW r,
         r.page = Lowest(n + 1)[1], DOMAIN r.desc = 0 .. n - 1,
         \A i \in 0 .. n - 1 : r.desc[i].buf = Lowest(n + 1)[i + 2]
  PROVE  /\ Sound(r)
         /\ {r.page} \cup {r.desc[i].buf : i \in DOMAIN r.desc} = ToSet(Lowest(n + 1))
         /\ ToSet(Lowest(n + 1)) \subseteq pmm /\ NULL \notin ToSet(Lowest(n + 1))
<1>. DEFINE p == Lowest(n + 1)
<1>1. /\ \A k \in 1 .. n + 1 : p[k] \in pmm /\ p[k] # NULL
      /\ DOMAIN p = 1 .. n + 1 /\ \A i, j \in 1 .. n + 1 : p[i] = p[j] => i = j
  BY RingPages
<1>. HIDE DEF p
<1>2. \A i \in 0 .. n - 1 : r.desc[i].buf = p[i + 2] /\ i + 2 \in 1 .. n + 1 /\ i + 2 # 1
  BY DEF p
<1>3. r.page = p[1] /\ 1 \in 1 .. n + 1
  BY DEF p
<1>4. Sound(r)
  <2>1. ASSUME NEW i \in 0 .. n - 1, NEW j \in 0 .. n - 1, r.desc[i].buf = r.desc[j].buf PROVE i = j
    <3>1. i + 2 = j + 2
      BY <1>1, <1>2, <2>1
    <3>. QED BY <3>1
  <2>2. \A i \in 0 .. n - 1 : r.desc[i].buf # NULL /\ r.desc[i].buf # r.page
    BY <1>1, <1>2, <1>3
  <2>. QED BY <2>1, <2>2 DEF Sound
<1>5. {r.page} \cup {r.desc[i].buf : i \in DOMAIN r.desc} = ToSet(p)
  <2>1. ASSUME NEW x \in ToSet(p) PROVE x = r.page \/ \E i \in 0 .. n - 1 : x = r.desc[i].buf
    <3>1. PICK k \in 1 .. n + 1 : x = p[k]
      BY <1>1 DEF ToSet
    <3>2. CASE k = 1
      BY <1>3, <3>1, <3>2
    <3>3. CASE k # 1
      <4>1. k - 2 \in 0 .. n - 1 /\ (k - 2) + 2 = k
        BY <3>3
      <4>. QED BY <1>2, <3>1, <4>1
    <3>. QED BY <3>2, <3>3
  <2>2. r.page \in ToSet(p) /\ \A i \in 0 .. n - 1 : r.desc[i].buf \in ToSet(p)
    BY <1>1, <1>2, <1>3 DEF ToSet
  <2>. QED BY SMTT(60), <2>1, <2>2
<1>6. ToSet(p) \subseteq pmm /\ NULL \notin ToSet(p)
  BY <1>1 DEF ToSet
<1>. QED BY <1>4, <1>5, <1>6 DEF p

----------------------------------------------------------------------------
(* A page that a loop has in hand goes to the pool or the page allocator.  *)
LEMMA PutPages ==
  ASSUME EInv, Owned, Listed, NEW g \in {"poll", "proc"}, NEW p \in Page, p # NULL,
         Held[g] = {p}, Held'[g] = {}, rx_free_pool_put(p), UNCHANGED <<mode, total>>,
         \A x \in Holders \ {g, "pool", "pmm"} : Held'[x] = Held[x]
  PROVE  Owned' /\ IsInjective(pool') /\ NULL \notin ToSet(pool')
<1>1. pool \in Seq(Page) /\ IsInjective(pool) /\ NULL \notin ToSet(pool) /\ Apart(Held)
  BY DEF EInv, Types, ListType, Listed, Owned
<1>2. g \in Holders /\ "pool" \in Holders /\ "pmm" \in Holders /\ g # "pool" /\ g # "pmm"
  BY DEF Holders
<1>3. Held["pool"] = ToSet(pool) /\ Held'["pool"] = ToSet(pool')
      /\ Held["pmm"] = pmm /\ Held'["pmm"] = pmm'
  BY HeldIs, HeldIsThen
<1>4. p \notin ToSet(pool)
  BY <1>1, <1>2, <1>3 DEF Apart
<1>5. \E h : Moves(Held, Held', g, h, {p}) /\ IsInjective(pool') /\ NULL \notin ToSet(pool')
  <2>1. CASE Len(pool) < RX_FREE_POOL_SIZE
    <3>1. pool' = Append(pool, p) /\ pmm' = pmm
      BY <2>1 DEF rx_free_pool_put
    <3>2. ToSet(pool') = ToSet(pool) \cup {p}
      BY <1>1, <3>1, Appended
    <3>3. IsInjective(pool')
      BY <1>1, <1>4, <3>1, InjectiveAppend
    <3>4. Moves(Held, Held', g, "pool", {p})
      BY <1>2, <1>3, <3>1, <3>2 DEF Moves
    <3>. QED BY <1>1, <3>2, <3>3, <3>4
  <2>2. CASE ~ (Len(pool) < RX_FREE_POOL_SIZE)
    <3>1. pool' = pool /\ pmm' = pmm \cup {p}
      BY <2>2 DEF rx_free_pool_put
    <3>2. Moves(Held, Held', g, "pmm", {p})
      BY <1>2, <1>3, <3>1 DEF Moves
    <3>. QED BY <1>1, <3>1, <3>2
  <2>. QED BY <2>1, <2>2
<1>6. Apart(Held') /\ All(Held') = All(Held)
  BY <1>1, <1>5, Moved
<1>. QED BY <1>5, <1>6 DEF Owned

(* A new page takes the place of a descriptor's. *)
LEMMA BindRing ==
  ASSUME EInv, Sound(rx), state = "running", NEW p \in Page, p # NULL, Bind(p),
         p \notin {rx.page} \cup {rx.desc[j].buf : j \in RxSlots \ {poll.i}}
  PROVE  /\ Sound(rx') /\ RxPages' = (RxPages \ {rx.desc[poll.i].buf}) \cup {p}
         /\ rx.desc[poll.i].buf \in RxPages /\ rx.desc[poll.i].buf \in Page
         /\ rx.desc[poll.i].buf # NULL /\ HandedOver' = {} /\ NULL \notin {p}
<1>. DEFINE i == poll.i
            b == rx.desc[i].buf
<1>1. RxType /\ rx.desc \in RxDesc /\ i \in RxSlots
  BY RingFacts DEF EInv, Types
<1>4. DOMAIN rx.desc = RxSlots /\ \A j \in RxSlots : rx.desc[j].buf \in Page
  BY <1>1, RxUpdates DEF RxDesc
<1>5. /\ b \in Page /\ b # NULL /\ b # rx.page /\ b \in RxPages
      /\ \A j \in RxSlots : j # i => rx.desc[j].buf # b
  BY <1>1, <1>4 DEF Sound, RxPages
<1>6. p # rx.page /\ \A j \in RxSlots : j # i => rx.desc[j].buf # p
  OBVIOUS
<1>7. /\ rx'.page = rx.page /\ rx'.desc = [rx.desc EXCEPT ![i] = [buf |-> p, dd |-> FALSE]]
  BY <1>1 DEF Bind, RxType
<1>8. /\ DOMAIN rx'.desc = RxSlots /\ rx'.desc[i].buf = p
      /\ \A j \in RxSlots : j # i => rx'.desc[j].buf = rx.desc[j].buf
  BY <1>1, <1>4, <1>7
<1>9. \A j \in RxSlots : rx.desc[j].buf \in RxPages /\ rx.page \in RxPages
  BY <1>4 DEF RxPages
<1>10. Sound(rx')
  <2>1. \A j \in RxSlots : rx'.desc[j].buf # NULL /\ rx'.desc[j].buf # rx'.page
    BY <1>4, <1>6, <1>7, <1>8, <1>9 DEF Sound
  <2>2. ASSUME NEW j \in RxSlots, NEW k \in RxSlots, rx'.desc[j].buf = rx'.desc[k].buf PROVE j = k
    <3>1. CASE j = i \/ k = i
      BY <1>6, <1>8, <2>2, <3>1
    <3>2. CASE j # i /\ k # i
      BY <1>4, <1>8, <2>2, <3>2 DEF Sound
    <3>. QED BY <3>1, <3>2
  <2>. QED BY <1>8, <2>1, <2>2 DEF Sound
<1>12. HandedOver' = {}
  <2>1. poll'.pc = "scan"
    BY RingFacts DEF Bind, EInv, Types, PollType
  <2>. QED BY <2>1, HandedIs
<1>. HIDE DEF b, i
<1>11. RxPages' = (RxPages \ {b}) \cup {p}
  <2>1. ASSUME NEW x \in RxPages' PROVE x \in (RxPages \ {b}) \cup {p}
    <3>1. x = rx.page \/ \E j \in RxSlots : x = rx'.desc[j].buf
      BY <1>7, <1>8 DEF RxPages
    <3>2. rx.page # b /\ rx.page \in RxPages
      BY <1>5 DEF RxPages
    <3>3. ASSUME NEW j \in RxSlots, x = rx'.desc[j].buf PROVE x \in (RxPages \ {b}) \cup {p}
      BY <1>5, <1>8, <1>9, <3>3
    <3>. QED BY <3>1, <3>2, <3>3
  <2>2. ASSUME NEW x \in RxPages, x # b PROVE x \in RxPages'
    <3>1. x = rx.page \/ \E j \in RxSlots : x = rx.desc[j].buf
      BY <1>4 DEF RxPages
    <3>2. CASE x = rx.page
      BY <1>7, <3>2 DEF RxPages
    <3>3. ASSUME NEW j \in RxSlots, x = rx.desc[j].buf PROVE x \in RxPages'
      <4>1. j # i
        BY <2>2, <3>3 DEF b
      <4>2. rx'.desc[j].buf = x /\ j \in DOMAIN rx'.desc
        BY <1>8, <3>3, <4>1
      <4>. QED BY <4>2 DEF RxPages
    <3>. QED BY <3>1, <3>2, <3>3
  <2>3. p \in RxPages'
    BY <1>1, <1>8 DEF RxPages
  <2>. QED BY <2>1, <2>2, <2>3
<1>. QED BY <1>5, <1>10, <1>11, <1>12 DEF b, i

(* A descriptor's page is queued. *)
LEMMA QueuePages ==
  ASSUME EInv, Owned, Listed, Sound(rx), mode \in {3, 4, 5}, state = "running", poll.pc # "bind",
         queue' = Append(queue, rx.desc[poll.i].buf)
  PROVE  /\ ToSet(queue') = ToSet(queue) \cup {rx.desc[poll.i].buf} /\ IsInjective(queue')
         /\ NULL \notin ToSet(queue') /\ rx.desc[poll.i].buf \in Held["rx"]
         /\ rx.desc[poll.i].buf # NULL
<1>. DEFINE b == rx.desc[poll.i].buf
<1>1. /\ queue \in Seq(Page) /\ IsInjective(queue) /\ NULL \notin ToSet(queue) /\ Apart(Held)
      /\ rx.desc \in RxDesc /\ poll.i \in RxSlots
  BY RingFacts DEF EInv, Types, ListType, Listed, Owned
<1>2. DOMAIN rx.desc = RxSlots /\ b \in Page
  BY <1>1, RxUpdates DEF RxDesc
<1>3. b # NULL /\ b \in RxPages
  BY <1>1, <1>2 DEF Sound, RxPages
<1>4. Held["rx"] = RxPages \ {NULL} /\ Held["queue"] = ToSet(queue)
  BY HeldIs, HandedIs
<1>5. b \in Held["rx"] /\ b \notin ToSet(queue)
  BY <1>1, <1>3, <1>4 DEF Apart, Holders
<1>. HIDE DEF b
<1>6. queue' = Append(queue, b)
  BY DEF b
<1>7. ToSet(queue') = ToSet(queue) \cup {b} /\ IsInjective(queue')
  BY <1>1, <1>2, <1>5, <1>6, Appended, InjectiveAppend
<1>. QED BY <1>1, <1>3, <1>5, <1>7 DEF b

----------------------------------------------------------------------------
(* The completed descriptors in a row differ. *)
LEMMA RunDiffers ==
  ASSUME NEW t \in RxSlots, NEW i \in 1 .. NUM_RX_DESC, NEW j \in 1 .. NUM_RX_DESC,
         (t + (i - 1)) % NUM_RX_DESC = (t + (j - 1)) % NUM_RX_DESC
  PROVE  i = j
<1>. DEFINE n == NUM_RX_DESC
<1>1. n \in Nat /\ n > 1 /\ t \in 0 .. n - 1
  BY E1000Assumption DEF RxSlots
<1>. HIDE DEF n
<1>2. ASSUME NEW a \in 0 .. 2 * n - 2 PROVE a % n = IF a < n THEN a ELSE a - n
  <2>1. CASE a < n
    BY <1>1, <2>1
  <2>2. CASE ~ (a < n)
    <3>1. a - n \in 0 .. n - 1 /\ a = 1 * n + (a - n)
      BY <1>1, <2>2
    <3>. QED BY <1>1, <2>2, <3>1
  <2>. QED BY <2>1, <2>2
<1>3. t + (i - 1) \in 0 .. 2 * n - 2 /\ t + (j - 1) \in 0 .. 2 * n - 2
  BY <1>1 DEF n
<1>4. (t + (i - 1)) % n = (t + (j - 1)) % n
  BY DEF n
<1>. QED BY <1>1, <1>2, <1>3, <1>4 DEF n

(* Every step of the driver moves whole pages between holders, on the      *)
(* error paths too.                                                        *)
LEMMA PageStep == ASSUME EInv, PageInv, [Next]_vars PROVE PageInv'
<1>0. /\ Basics /\ RxType /\ TxType /\ MemType /\ ListType /\ PollType /\ ProcType
      /\ RxLoaded /\ TxLoaded /\ Idle
  BY DEF EInv, Types, Loaded
<1>00. ~ exhausted => Owned /\ Sound(rx) /\ Sound(tx) /\ Listed /\ InHands
  BY DEF PageInv
<1>s. state # "running" => poll.pc = "scan"
  BY <1>0 DEF Idle
<1>e. NULL \in Page /\ NULL \notin pmm /\ pmm \subseteq Page
  BY <1>0, PageFacts
<1>1. CASE e1000_init_rx
  <2>. DEFINE pages == Lowest(NUM_RX_DESC + 1)
  <2>1. /\ UNCHANGED <<mode, total, tx, pool, queue, poll, proc, exhausted>> /\ state = "probe"
    BY <1>1 DEF e1000_init_rx, histVars
  <2>2. CASE Len(pages) < NUM_RX_DESC + 1
    <3>1. UNCHANGED <<rx, pmm>>
      BY <1>1, <2>2 DEF e1000_init_rx
    <3>. QED BY <2>1, <3>1, PagesKept, HandedIs, <1>s DEF SameRing, SameHands
  <2>3. CASE ~ (Len(pages) < NUM_RX_DESC + 1)
    <3>. SUFFICES ASSUME ~ exhausted
                  PROVE  Owned' /\ Sound(rx)' /\ Sound(tx)' /\ Listed' /\ InHands'
      BY <2>1 DEF PageInv
    <3>1. /\ pmm' = pmm \ ToSet(pages)
          /\ rx' = [page |-> pages[1],
                    desc |-> [i \in RxSlots |-> [buf |-> pages[i + 2], dd |-> FALSE]],
                    rx_tail |-> 0, RDH |-> 0, RDT |-> NUM_RX_DESC - 1, RCTL_EN |-> TRUE]
      BY <1>1, <2>3 DEF e1000_init_rx
    <3>. HIDE DEF pages
    <3>2. /\ rx'.page = pages[1] /\ DOMAIN rx'.desc = 0 .. NUM_RX_DESC - 1
          /\ \A i \in 0 .. NUM_RX_DESC - 1 : rx'.desc[i].buf = pages[i + 2]
      BY <3>1 DEF RxSlots
    <3>3. NUM_RX_DESC \in Nat
      BY E1000Assumption
    <3>4. /\ Sound(rx') /\ {rx'.page} \cup {rx'.desc[i].buf : i \in DOMAIN rx'.desc} = ToSet(pages)
          /\ ToSet(pages) \subseteq pmm /\ NULL \notin ToSet(pages)
      BY <1>0, <2>3, <3>2, <3>3, NewRing DEF pages
    <3>5. RxPages' = ToSet(pages)
      BY <3>4 DEF RxPages
    <3>6. rx = NoRx /\ RxPages = {NULL}
      <4>1. rx = NoRx
        BY <1>0, <2>1 DEF RxLoaded
      <4>2. NoRx.page = NULL /\ DOMAIN NoRx.desc = {}
        BY DEF NoRx
      <4>. QED BY <4>1, <4>2 DEF RxPages
    <3>7. Moves(Held, Held', "pmm", "rx", ToSet(pages))
      <4>1. TxPages' = TxPages
        BY <2>1 DEF TxPages
      <4>2. /\ Held["rx"] = {} /\ Held'["rx"] = ToSet(pages)
            /\ Held'["pmm"] = Held["pmm"] \ ToSet(pages) /\ ToSet(pages) \subseteq Held["pmm"]
        BY <2>1, <3>1, <3>4, <3>5, <3>6, <1>s, HeldIs, HeldIsThen, HandedIs
      <4>3. \A x \in Holders : x # "pmm" /\ x # "rx" => Held'[x] = Held[x]
        BY <2>1, <3>1, <4>1, HeldIs, HeldIsThen DEF Holders
      <4>. QED BY <4>2, <4>3 DEF Moves, Holders
    <3>8. Apart(Held') /\ All(Held') = All(Held)
      BY <1>00, <3>7, Moved DEF Owned
    <3>9. Owned'
      BY <1>00, <2>1, <3>8 DEF Owned
    <3>10. Sound(tx)' /\ Listed' /\ InHands'
      BY <1>00, <2>1 DEF Sound, Listed, InHands, NULL
    <3>. QED BY <3>4, <3>9, <3>10
  <2>. QED BY <2>2, <2>3
<1>2. CASE e1000_init_tx
  <2>. DEFINE pages == Lowest(NUM_TX_DESC + 1)
  <2>1. /\ UNCHANGED <<mode, total, pool, queue, poll, proc, exhausted>> /\ state = "rx_ready"
    BY <1>2 DEF e1000_init_tx, histVars
  <2>. SUFFICES ASSUME ~ exhausted
                PROVE  Owned' /\ Sound(rx)' /\ Sound(tx)' /\ Listed' /\ InHands'
    BY <2>1 DEF PageInv
  <2>2. Listed' /\ InHands'
    BY <1>00, <2>1 DEF Listed, InHands, NULL
  <2>3. CASE Len(pages) < NUM_TX_DESC + 1
    <3>1. UNCHANGED tx /\ rx' = NoRx /\ pmm' = pmm \cup RxPages
      BY <1>2, <2>3 DEF e1000_init_tx, e1000_free_rx
    <3>2. NoRx.page = NULL /\ DOMAIN NoRx.desc = {}
      BY DEF NoRx
    <3>3. RxPages' = {NULL} /\ Sound(rx')
      BY <3>1, <3>2 DEF RxPages, Sound
    <3>4. NULL \notin RxPages
      <4>1. rx.page # NULL
        BY <1>0, <2>1 DEF RxLoaded
      <4>. QED BY <1>00, <4>1 DEF RxPages, Sound
    <3>5. Moves(Held, Held', "rx", "pmm", RxPages)
      <4>1. TxPages' = TxPages
        BY <3>1 DEF TxPages
      <4>. QED BY <1>s, <2>1, <3>1, <3>3, <3>4, <4>1, HeldIs, HeldIsThen, HandedIs DEF Moves, Holders
    <3>6. Apart(Held') /\ All(Held') = All(Held)
      BY <1>00, <3>5, Moved DEF Owned
    <3>7. Owned' /\ Sound(tx)'
      BY <1>00, <2>1, <3>1, <3>6 DEF Owned, Sound, NULL
    <3>. QED BY <2>2, <3>3, <3>7
  <2>4. CASE ~ (Len(pages) < NUM_TX_DESC + 1)
    <3>1. /\ pmm' = pmm \ ToSet(pages) /\ rx' = rx
          /\ tx' = [page |-> pages[1],
                    desc |-> [i \in TxSlots |->
                                [buf |-> pages[i + 2], dd |-> TRUE, pkt |-> NULL]],
                    tx_tail |-> 0, TDH |-> 0, TDT |-> 0, hand |-> NULL]
      BY <1>2, <2>4 DEF e1000_init_tx
    <3>. HIDE DEF pages
    <3>2. /\ tx'.page = pages[1] /\ DOMAIN tx'.desc = 0 .. NUM_TX_DESC - 1
          /\ \A i \in 0 .. NUM_TX_DESC - 1 : tx'.desc[i].buf = pages[i + 2]
      BY <3>1 DEF TxSlots
    <3>3. NUM_TX_DESC \in Nat
      BY E1000Assumption
    <3>4. /\ Sound(tx') /\ {tx'.page} \cup {tx'.desc[i].buf : i \in DOMAIN tx'.desc} = ToSet(pages)
          /\ ToSet(pages) \subseteq pmm /\ NULL \notin ToSet(pages)
      BY <1>0, <2>4, <3>2, <3>3, NewRing DEF pages
    <3>5. TxPages' = ToSet(pages)
      BY <3>4 DEF TxPages
    <3>6. TxPages = {NULL}
      <4>1. tx = NoTx
        BY <1>0, <2>1 DEF TxLoaded
      <4>2. NoTx.page = NULL /\ DOMAIN NoTx.desc = {}
        BY DEF NoTx
      <4>. QED BY <4>1, <4>2 DEF TxPages
    <3>7. Moves(Held, Held', "pmm", "tx", ToSet(pages))
      <4>1. RxPages' = RxPages
        BY <3>1 DEF RxPages
      <4>2. /\ Held["tx"] = {} /\ Held'["tx"] = ToSet(pages)
            /\ Held'["pmm"] = Held["pmm"] \ ToSet(pages) /\ ToSet(pages) \subseteq Held["pmm"]
        BY <3>1, <3>4, <3>5, <3>6, HeldIs, HeldIsThen
      <4>0. HandedOver' = HandedOver
        BY <2>1, <3>1, HandedIs
      <4>3. \A x \in Holders : x # "pmm" /\ x # "tx" => Held'[x] = Held[x]
        BY <2>1, <3>1, <4>0, <4>1, HeldIs, HeldIsThen DEF Holders
      <4>. QED BY <4>2, <4>3 DEF Moves, Holders
    <3>8. Apart(Held') /\ All(Held') = All(Held)
      BY <1>00, <3>7, Moved DEF Owned
    <3>9. Owned' /\ Sound(rx)'
      BY <1>00, <2>1, <3>1, <3>8 DEF Owned, Sound, NULL
    <3>. QED BY <2>2, <3>4, <3>9
  <2>. QED BY <2>3, <2>4
<1>3. CASE StartLoop
  <2>. DEFINE pages == Lowest(RX_FREE_POOL_SIZE)
  <2>1. /\ UNCHANGED <<mode, total, rx, tx, queue, poll, proc, exhausted>> /\ state = "loaded"
    BY <1>3 DEF StartLoop, histVars
  <2>2. CASE ~ Pipelined
    <3>1. UNCHANGED <<pool, pmm>>
      BY <1>3, <2>2 DEF StartLoop
    <3>. QED BY <2>1, <3>1, PagesKept, HandedIs, <1>s DEF SameRing, SameHands
  <2>3. CASE Pipelined
    <3>. SUFFICES ASSUME ~ exhausted
                  PROVE  Owned' /\ Sound(rx)' /\ Sound(tx)' /\ Listed' /\ InHands'
      BY <2>1 DEF PageInv
    <3>1. pool' = pages /\ pmm' = pmm \ ToSet(pages)
      BY <1>3, <2>3 DEF StartLoop
    <3>2. pages \in Seq(pmm) /\ \A i, j \in DOMAIN pages : pages[i] = pages[j] => i = j
      BY <1>0, E1000Assumption, LowestPages DEF Basics
    <3>. HIDE DEF pages
    <3>3. ToSet(pages) \subseteq pmm /\ IsInjective(pages)
      BY <3>2, InSet DEF IsInjective
    <3>4. ToSet(pool) = {}
      BY <1>0, <2>1 DEF Idle, ToSet
    <3>5. Moves(Held, Held', "pmm", "pool", ToSet(pages))
      <4>1. TxPages' = TxPages /\ RxPages' = RxPages /\ HandedOver' = HandedOver
        BY <2>1, HandedIs DEF TxPages, RxPages
      <4>2. \A x \in Holders : x # "pmm" /\ x # "pool" => Held'[x] = Held[x]
        BY <2>1, <3>1, <4>1, HeldIs, HeldIsThen DEF Holders
      <4>. QED BY <3>1, <3>3, <3>4, <4>2, HeldIs, HeldIsThen DEF Moves, Holders
    <3>6. Apart(Held') /\ All(Held') = All(Held)
      BY <1>00, <3>5, Moved DEF Owned
    <3>7. Owned'
      BY <1>00, <2>1, <3>6 DEF Owned
    <3>8. Sound(rx)' /\ Sound(tx)' /\ InHands'
      BY <1>00, <2>1 DEF Sound, InHands, NULL
    <3>9. Listed'
      BY <1>00, <1>e, <2>1, <3>1, <3>3 DEF Listed, NULL
    <3>. QED BY <3>7, <3>8, <3>9
  <2>. QED BY <2>2, <2>3
<1>4. CASE ReceiveDma
  <2>1. UNCHANGED <<mode, total, tx, pmm, pool, queue, poll, proc, exhausted>>
    BY <1>4 DEF ReceiveDma
  <2>2. rx.desc \in RxDesc /\ rx.RDH \in RxSlots
    BY <1>4, RingFacts DEF ReceiveDma
  <2>3. SameRing(rx, rx')
    <3>1. CASE rx' = rx
      BY <3>1 DEF SameRing
    <3>2. CASE rx' # rx
      <4>1. rx'.page = rx.page /\ rx'.desc = [rx.desc EXCEPT ![rx.RDH].dd = TRUE]
        BY <1>0, <1>4, <3>2 DEF ReceiveDma, RxType
      <4>2. DOMAIN rx.desc = RxSlots /\ \A i \in RxSlots : rx'.desc[i].buf = rx.desc[i].buf
        BY <2>2, <4>1 DEF RxDesc
      <4>. QED BY <4>1, <4>2 DEF SameRing
    <3>. QED BY <3>1, <3>2
  <2>4. HandedOver' = HandedOver
    <3>1. CASE poll.pc = "bind"
      <4>1. state = "running"
        BY <1>s, <3>1
      <4>2. poll.i \in DOMAIN rx.desc
        BY <2>2, <4>1, RingFacts DEF RxDesc
      <4>3. rx'.desc[poll.i].buf = rx.desc[poll.i].buf /\ poll' = poll
        BY <2>1, <2>3, <4>2 DEF SameRing
      <4>. QED BY <3>1, <4>3, HandedIs
    <3>. QED BY <2>1, <3>1, HandedIs
  <2>. QED BY <2>1, <2>3, <2>4, PagesKept DEF SameRing, SameHands
<1>5. CASE TransmitFetch \/ TransmitDone \/ SendPacket
  <2>1. UNCHANGED <<mode, total, rx, pmm, pool, queue, poll, exhausted>>
    BY <1>5 DEF TransmitFetch, TransmitDone, SendPacket, histVars
  <2>2. tx.desc \in TxDesc /\ tx.TDH \in TxSlots /\ tx.tx_tail \in TxSlots
    BY <1>5, RingFacts DEF TransmitFetch, TransmitDone, SendPacket, Runs
  <2>3. /\ tx'.page = tx.page
        /\ \/ tx'.desc = tx.desc
           \/ tx'.desc = [tx.desc EXCEPT ![tx.TDH].dd = TRUE]
           \/ tx'.desc = [tx.desc EXCEPT ![tx.tx_tail] = TxDescriptor(@, proc.pkt)]
    BY <1>0, <1>5 DEF TransmitFetch, TransmitDone, SendPacket, TxType
  <2>4. SameRing(tx, tx')
    <3>1. CASE tx'.desc = tx.desc
      BY <2>3, <3>1 DEF SameRing
    <3>2. CASE tx'.desc = [tx.desc EXCEPT ![tx.TDH].dd = TRUE]
      <4>1. DOMAIN tx.desc = TxSlots /\ \A i \in TxSlots : tx'.desc[i].buf = tx.desc[i].buf
        BY <2>2, <3>2 DEF TxDesc
      <4>. QED BY <2>3, <3>2, <4>1 DEF SameRing
    <3>3. CASE tx'.desc = [tx.desc EXCEPT ![tx.tx_tail] = TxDescriptor(@, proc.pkt)]
      <4>1. DOMAIN tx.desc = TxSlots /\ \A i \in TxSlots : tx'.desc[i].buf = tx.desc[i].buf
        BY <2>2, <3>3 DEF TxDesc, TxDescriptor
      <4>. QED BY <2>3, <3>3, <4>1 DEF SameRing
    <3>. QED BY <2>3, <3>1, <3>2, <3>3
  <2>5. SameHands
    BY <1>0, <1>5, <2>1, HandedIs DEF TransmitFetch, TransmitDone, SendPacket, SameHands, ProcType
  <2>. QED BY <2>1, <2>4, <2>5, PagesKept DEF SameRing
<1>6. CASE e1000_poll_packet
  <2>1. /\ UNCHANGED <<mode, total, tx, pmm, pool, poll, proc, exhausted>> /\ mode = 1
        /\ queue' = <<rx.desc[rx.rx_tail].buf>> /\ state = "running" /\ poll.pc = "scan"
    BY <1>6 DEF e1000_poll_packet, histVars, Scanning, Runs
  <2>2. rx.desc \in RxDesc /\ rx.rx_tail \in RxSlots /\ rx.desc[rx.rx_tail].buf \in Page
    BY <2>1, RingFacts, RxUpdates
  <2>3. rx'.page = rx.page /\ rx'.desc = [rx.desc EXCEPT ![rx.rx_tail].dd = FALSE]
    BY <1>0, <1>6 DEF e1000_poll_packet, RxType
  <2>4. DOMAIN rx.desc = RxSlots /\ \A i \in RxSlots : rx'.desc[i].buf = rx.desc[i].buf
    BY <2>2, <2>3 DEF RxDesc
  <2>5. SameRing(rx, rx')
    BY <2>3, <2>4 DEF SameRing
  <2>6. SameRing(tx, tx')
    BY <2>1 DEF SameRing
  <2>. SUFFICES ASSUME ~ exhausted
                PROVE  Owned' /\ Sound(rx)' /\ Sound(tx)' /\ Listed' /\ InHands'
    BY <2>1 DEF PageInv
  <2>7. RxPages' = RxPages /\ TxPages' = TxPages /\ Sound(rx') /\ Sound(tx')
    BY <1>00, <2>5, <2>6, SameRx, SameTx
  <2>8. \A x \in Holders : Held'[x] = Held[x]
    <3>1. HandedOver = {} /\ HandedOver' = {}
      BY <2>1, HandedIs
    <3>2. Held'["rx"] = Held["rx"]
      BY <2>7, <3>1, HeldIs, HeldIsThen
    <3>. QED BY ZenonT(60), <2>1, <2>7, <3>2, HeldIs, HeldIsThen DEF Holders
  <2>9. Owned'
    BY <1>00, <2>1, <2>8 DEF Owned, Apart, All
  <2>10. rx.desc[rx.rx_tail].buf # NULL
    BY <1>00, <2>2, <2>4 DEF Sound
  <2>11. Listed' /\ InHands'
    <3>. DEFINE b == rx.desc[rx.rx_tail].buf
    <3>. HIDE DEF b
    <3>1. queue' = <<b>> /\ b # NULL
      BY <2>1, <2>10 DEF b
    <3>2. IsInjective(<<b>>) /\ ToSet(<<b>>) = {b}
      BY DEF IsInjective, ToSet
    <3>. QED BY <1>00, <2>1, <3>1, <3>2 DEF Listed, InHands, NULL
  <2>. QED BY <2>7, <2>9, <2>11
<1>7. CASE e1000_poll_packet_batch
  <2>. DEFINE run == ReadyRun(RX_BATCH_MAX)
              buf(k) == rx.desc[run[k]].buf
  <2>1. /\ UNCHANGED <<mode, total, rx, tx, pmm, pool, proc, exhausted>> /\ mode = 2
        /\ queue' = [k \in DOMAIN run |-> buf(k)] /\ state = "running"
        /\ poll' = [poll EXCEPT !.pc = "release", !.n = Len(run)] /\ poll.pc = "scan"
    BY <1>7 DEF e1000_poll_packet_batch, histVars, ringVars, Scanning, Runs
  <2>2. rx.desc \in RxDesc /\ rx.rx_tail \in RxSlots /\ RX_BATCH_MAX \in Nat /\ NUM_RX_DESC \in Nat
    BY <2>1, RingFacts, E1000Assumption
  <2>3. /\ run \in Seq(RxSlots) /\ Len(run) \in Nat /\ Len(run) <= NUM_RX_DESC
        /\ DOMAIN run = 1 .. Len(run)
        /\ \A k \in 1 .. Len(run) : run[k] = (rx.rx_tail + (k - 1)) % NUM_RX_DESC
    BY <2>2, ReadyRunIs
  <2>. HIDE DEF run
  <2>. SUFFICES ASSUME ~ exhausted
                PROVE  Owned' /\ Sound(rx)' /\ Sound(tx)' /\ Listed' /\ InHands'
    BY <2>1 DEF PageInv
  <2>4. poll'.new = poll.new /\ poll'.pc = "release"
    BY <1>0, <2>1 DEF PollType
  <2>5. \A x \in Holders : Held'[x] = Held[x]
    <3>1. RxPages' = RxPages /\ TxPages' = TxPages
      BY <2>1 DEF RxPages, TxPages
    <3>2. HandedOver = {} /\ HandedOver' = {}
      BY <2>1, <2>4, HandedIs
    <3>. QED BY ZenonT(60), <2>1, <2>4, <3>1, <3>2, HeldIs, HeldIsThen DEF Holders
  <2>6. Owned'
    BY <1>00, <2>1, <2>5 DEF Owned, Apart, All
  <2>7. Sound(rx)' /\ Sound(tx)' /\ InHands'
    BY <1>00, <2>1, <2>4 DEF Sound, InHands, NULL
  <2>8. \A k \in 1 .. Len(run) : run[k] \in RxSlots /\ run[k] \in DOMAIN rx.desc
    BY <2>2, <2>3 DEF RxDesc
  <2>9. ASSUME NEW j \in 1 .. Len(run), NEW k \in 1 .. Len(run), buf(j) = buf(k) PROVE j = k
    <3>1. run[j] = run[k]
      BY <1>00, <2>8, <2>9 DEF Sound
    <3>2. (rx.rx_tail + (j - 1)) % NUM_RX_DESC = (rx.rx_tail + (k - 1)) % NUM_RX_DESC
      BY <2>3, <3>1
    <3>3. j \in 1 .. NUM_RX_DESC /\ k \in 1 .. NUM_RX_DESC
      BY <2>2, <2>3
    <3>. QED BY <2>2, <3>2, <3>3, RunDiffers
  <2>10. \A k \in 1 .. Len(run) : buf(k) # NULL
    BY <1>00, <2>8 DEF Sound
  <2>. HIDE DEF buf
  <2>11. DOMAIN queue' = 1 .. Len(run) /\ \A k \in 1 .. Len(run) : queue'[k] = buf(k)
    BY <2>1, <2>3
  <2>12. IsInjective(queue') /\ NULL \notin ToSet(queue')
    BY <2>9, <2>10, <2>11 DEF IsInjective, ToSet
  <2>13. Listed'
    BY <1>00, <2>1, <2>12 DEF Listed, NULL
  <2>. QED BY <2>6, <2>7, <2>13
<1>8. CASE e1000_rx_batch_release \/ ScanEnd
  <2>1. UNCHANGED <<mode, total, tx, pmm, pool, queue, proc, exhausted>> /\ state = "running"
    BY <1>8 DEF e1000_rx_batch_release, ScanEnd, histVars, Runs
  <2>2. rx.desc \in RxDesc
    BY <2>1, RingFacts
  <2>3. /\ rx'.page = rx.page
        /\ rx'.desc = rx.desc \/ \E run : rx'.desc = Released(run)
    <3>1. CASE e1000_rx_batch_release
      <4>1. \E run : rx' = [rx EXCEPT !.desc = Released(run), !.rx_tail = NextRx(Last(run)),
                                      !.RDT = Last(run)]
        BY <3>1 DEF e1000_rx_batch_release
      <4>. QED BY <1>0, <4>1 DEF RxType
    <3>2. CASE ScanEnd
      BY <1>0, <3>2 DEF ScanEnd, Published, RxType
    <3>. QED BY <1>8, <3>1, <3>2
  <2>4. SameRing(rx, rx')
    <3>1. DOMAIN rx.desc = RxSlots
      BY <2>2 DEF RxDesc
    <3>2. \A run : DOMAIN Released(run) = RxSlots /\ \A i \in RxSlots : Released(run)[i].buf = rx.desc[i].buf
      BY DEF Released
    <3>. QED BY <2>3, <3>1, <3>2 DEF SameRing
  <2>5. poll'.new = poll.new /\ poll'.pc = "scan" /\ poll.pc # "push" /\ poll.pc # "bind"
    BY <1>0, <1>8 DEF e1000_rx_batch_release, ScanEnd, PollType
  <2>. QED BY <2>1, <2>4, <2>5, PagesKept, HandedIs DEF SameRing, SameHands
<1>9. CASE SwapBuffer
  <2>. DEFINE p == Min(pmm)
              b == rx.desc[poll.i].buf
  <2>1. /\ UNCHANGED <<mode, total, state, tx, pool, proc, exhausted>> /\ mode = 3 /\ state = "running"
        /\ Bind(p) /\ pmm' = pmm \ {p} /\ pmm # {} /\ poll.pc = "scan"
        /\ queue' = Append(queue, b)
    BY <1>9 DEF SwapBuffer, histVars, Scanning, Runs
  <2>2. p \in pmm /\ p \in Page /\ p # NULL
    BY <1>0, <1>e, <2>1, PageFacts
  <2>. HIDE DEF p
  <2>. SUFFICES ASSUME ~ exhausted
                PROVE  Owned' /\ Sound(rx)' /\ Sound(tx)' /\ Listed' /\ InHands'
    BY <2>1 DEF PageInv
  <2>3. poll'.new = NULL /\ poll'.pc = "scan" /\ poll.new = NULL
    BY <1>0, <1>00, <2>1 DEF Bind, PollType, InHands
  <2>4. \A x \in Holders \ {"pmm", "rx", "queue"} : Held'[x] = Held[x]
    <3>1. TxPages' = TxPages
      BY <2>1 DEF TxPages
    <3>2. /\ Held'["tx"] = Held["tx"] /\ Held'["pool"] = Held["pool"]
          /\ Held'["poll"] = Held["poll"] /\ Held'["proc"] = Held["proc"]
      BY <2>1, <2>3, <3>1, HeldIs, HeldIsThen
    <3>. QED BY <3>2 DEF Holders
  <2>5. p \in Held["pmm"] /\ Held'["pmm"] = Held["pmm"] \ {p}
    BY <2>1, <2>2, HeldIs, HeldIsThen
  <2>6. /\ ToSet(queue') = ToSet(queue) \cup {b} /\ IsInjective(queue') /\ NULL \notin ToSet(queue')
        /\ b \in Held["rx"] /\ b # NULL
    BY <1>00, <2>1, QueuePages
  <2>7. Held["rx"] = RxPages \ {NULL} /\ Held["queue"] = ToSet(queue) /\ Held'["queue"] = ToSet(queue')
    BY <2>1, HeldIs, HeldIsThen, HandedIs
  <2>8. p \notin RxPages
    BY <1>00, <2>2, <2>5, <2>7 DEF Owned, Apart, Holders
  <2>9. /\ Sound(rx') /\ RxPages' = (RxPages \ {b}) \cup {p} /\ HandedOver' = {}
    <3>1. {rx.page} \cup {rx.desc[j].buf : j \in RxSlots \ {poll.i}} \subseteq RxPages
      <4>1. DOMAIN rx.desc = RxSlots
        BY <2>1, RingFacts DEF RxDesc
      <4>. QED BY <4>1 DEF RxPages
    <3>. QED BY <1>00, <2>1, <2>2, <2>8, <3>1, BindRing
  <2>. HIDE DEF b
  <2>10. Passes(Held, Held', "pmm", "rx", "queue", p, b)
    <3>1. Held'["rx"] = RxPages' \ {NULL}
      BY <2>9, HeldIsThen
    <3>2. Held'["rx"] = (Held["rx"] \cup {p}) \ {b} /\ p # b
      BY <2>2, <2>6, <2>7, <2>8, <2>9, <3>1
    <3>3. /\ "pmm" \in Holders /\ "rx" \in Holders /\ "queue" \in Holders
          /\ "pmm" # "rx" /\ "pmm" # "queue" /\ "rx" # "queue"
      BY DEF Holders
    <3>. QED BY <2>4, <2>5, <2>6, <2>7, <3>2, <3>3 DEF Passes
  <2>11. Owned'
    <3>1. Apart(Held') /\ All(Held') = All(Held)
      BY <1>00, <2>10, Passed DEF Owned
    <3>. QED BY <1>00, <2>1, <3>1 DEF Owned
  <2>12. Sound(tx)' /\ Listed' /\ InHands'
    BY <1>00, <2>1, <2>3, <2>6 DEF Sound, Listed, InHands, NULL
  <2>. QED BY <2>9, <2>11, <2>12
<1>10. CASE rx_free_pool_get
  <2>1. /\ UNCHANGED <<mode, total, rx, tx, pmm, queue, proc, exhausted>> /\ poll.pc = "scan"
    BY <1>10 DEF rx_free_pool_get, ringVars, histVars, Scanning
  <2>2. TxPages' = TxPages /\ RxPages' = RxPages
    BY <2>1 DEF RxPages, TxPages
  <2>. SUFFICES ASSUME ~ exhausted
                PROVE  Owned' /\ Sound(rx)' /\ Sound(tx)' /\ Listed' /\ InHands'
    BY <2>1 DEF PageInv
  <2>3. poll.new = NULL
    BY <1>00, <2>1 DEF InHands
  <2>4. CASE pool = <<>>
    <3>1. poll' = [poll EXCEPT !.pc = "alloc", !.new = NULL] /\ pool' = pool
      BY <1>10, <2>4 DEF rx_free_pool_get
    <3>2. poll'.pc = "alloc" /\ poll'.new = NULL
      BY <1>0, <3>1 DEF PollType
    <3>3. SameHands
      BY <2>1, <2>3, <3>2, HandedIs DEF SameHands
    <3>4. PageInv'
      BY <2>1, <3>1, <3>3, PagesKept DEF SameRing
    <3>. QED BY <2>1, <3>4 DEF PageInv
  <2>5. CASE pool # <<>>
    <3>. DEFINE p == Last(pool)
    <3>1. IsInjective(Front(pool)) /\ ToSet(Front(pool)) = ToSet(pool) \ {p} /\ p \in ToSet(pool)
      BY <1>0, <1>00, <2>5, InjectiveFront DEF Listed, ListType
    <3>2. p # NULL
      BY <1>00, <3>1 DEF Listed
    <3>3. poll' = [poll EXCEPT !.pc = "push", !.new = p] /\ pool' = Front(pool)
      BY <1>10, <2>5, <3>2 DEF rx_free_pool_get
    <3>. HIDE DEF p
    <3>4. poll'.new = p /\ poll'.pc = "push"
      BY <1>0, <3>3 DEF PollType
    <3>5. Listed'
      BY <1>00, <2>1, <3>1, <3>3 DEF Listed, NULL
    <3>6. /\ Held["poll"] = {} /\ Held'["poll"] = {p} /\ Held'["pool"] = Held["pool"] \ {p}
          /\ p \in Held["pool"]
      BY <2>3, <3>1, <3>2, <3>3, <3>4, HeldIs, HeldIsThen
    <3>7. \A x \in Holders : x # "pool" /\ x # "poll" => Held'[x] = Held[x]
      BY <2>1, <2>2, <3>4, HeldIs, HeldIsThen, HandedIs DEF Holders
    <3>8. Moves(Held, Held', "pool", "poll", {p})
      BY <3>6, <3>7 DEF Moves, Holders
    <3>9. Apart(Held') /\ All(Held') = All(Held)
      BY <1>00, <3>8, Moved DEF Owned
    <3>10. Owned'
      BY <1>00, <2>1, <3>9 DEF Owned
    <3>11. Sound(rx)' /\ Sound(tx)' /\ InHands'
      BY <1>00, <2>1, <3>2, <3>4 DEF Sound, InHands, NULL
    <3>. QED BY <3>5, <3>10, <3>11
  <2>. QED BY <2>4, <2>5
<1>17. CASE PoolFallback
  <2>1. /\ UNCHANGED <<mode, total, rx, tx, pool, queue, proc>> /\ poll.pc = "alloc"
    BY <1>17 DEF PoolFallback, ringVars
  <2>2. TxPages' = TxPages /\ RxPages' = RxPages
    BY <2>1 DEF RxPages, TxPages
  <2>3. CASE pmm = {}
    <3>1. exhausted'
      BY <1>17, <2>3 DEF PoolFallback
    <3>. QED BY <3>1 DEF PageInv
  <2>4. CASE pmm # {}
    <3>. DEFINE p == Min(pmm)
    <3>1. /\ poll' = [poll EXCEPT !.pc = "push", !.new = p] /\ pmm' = pmm \ {p}
          /\ exhausted' = exhausted
      BY <1>17, <2>4 DEF PoolFallback
    <3>. SUFFICES ASSUME ~ exhausted
                  PROVE  Owned' /\ Sound(rx)' /\ Sound(tx)' /\ Listed' /\ InHands'
      BY <3>1 DEF PageInv
    <3>2. p \in pmm /\ p # NULL
      BY <1>0, <1>e, <2>4, PageFacts
    <3>. HIDE DEF p
    <3>3. poll.new = NULL
      BY <1>00, <2>1 DEF InHands
    <3>4. poll'.new = p /\ poll'.pc = "push"
      BY <1>0, <3>1 DEF PollType
    <3>5. /\ Held["poll"] = {} /\ Held'["poll"] = {p} /\ Held'["pmm"] = Held["pmm"] \ {p}
          /\ p \in Held["pmm"]
      BY <3>1, <3>2, <3>3, <3>4, HeldIs, HeldIsThen
    <3>6. \A x \in Holders : x # "pmm" /\ x # "poll" => Held'[x] = Held[x]
      BY <2>1, <2>2, <3>4, HeldIs, HeldIsThen, HandedIs DEF Holders
    <3>7. Moves(Held, Held', "pmm", "poll", {p})
      BY <3>5, <3>6 DEF Moves, Holders
    <3>8. Apart(Held') /\ All(Held') = All(Held)
      BY <1>00, <3>7, Moved DEF Owned
    <3>9. Owned'
      BY <1>00, <2>1, <3>8 DEF Owned
    <3>10. Sound(rx)' /\ Sound(tx)' /\ Listed' /\ InHands'
      BY <1>00, <2>1, <3>2, <3>4 DEF Sound, Listed, InHands, NULL
    <3>. QED BY <3>9, <3>10
  <2>. QED BY <2>3, <2>4
<1>11. CASE rx_queue_push
  <2>. DEFINE b == rx.desc[poll.i].buf
  <2>1. /\ UNCHANGED <<mode, total, rx, tx, pmm, pool, proc, exhausted>> /\ mode \in {3, 4, 5}
        /\ state = "running" /\ poll' = [poll EXCEPT !.pc = "bind"] /\ poll.pc = "push"
        /\ queue' = Append(queue, b)
    BY <1>11 DEF rx_queue_push, ringVars, histVars, Pipelined, Runs
  <2>. SUFFICES ASSUME ~ exhausted
                PROVE  Owned' /\ Sound(rx)' /\ Sound(tx)' /\ Listed' /\ InHands'
    BY <2>1 DEF PageInv
  <2>2. poll'.pc = "bind" /\ poll'.i = poll.i /\ poll'.new = poll.new
    BY <1>0, <2>1 DEF PollType
  <2>3. /\ ToSet(queue') = ToSet(queue) \cup {b} /\ IsInjective(queue') /\ NULL \notin ToSet(queue')
        /\ b \in Held["rx"] /\ b # NULL
    BY <1>00, <2>1, QueuePages
  <2>4. HandedOver = {} /\ HandedOver' = {b}
    BY <2>1, <2>2, HandedIs
  <2>. HIDE DEF b
  <2>5. TxPages' = TxPages /\ RxPages' = RxPages
    BY <2>1 DEF RxPages, TxPages
  <2>6. Held'["rx"] = Held["rx"] \ {b} /\ Held'["queue"] = Held["queue"] \cup {b}
    BY <2>1, <2>3, <2>4, <2>5, HeldIs, HeldIsThen
  <2>7. \A x \in Holders : x # "rx" /\ x # "queue" => Held'[x] = Held[x]
    BY <2>1, <2>2, <2>5, HeldIs, HeldIsThen DEF Holders
  <2>8. Moves(Held, Held', "rx", "queue", {b})
    BY <2>3, <2>6, <2>7 DEF Moves, Holders
  <2>9. Apart(Held') /\ All(Held') = All(Held)
    BY <1>00, <2>8, Moved DEF Owned
  <2>10. Owned'
    BY <1>00, <2>1, <2>9 DEF Owned
  <2>11. Sound(rx)' /\ Sound(tx)' /\ Listed' /\ InHands'
    BY <1>00, <2>1, <2>2, <2>3 DEF Sound, Listed, InHands, NULL
  <2>. QED BY <2>10, <2>11
<1>18. CASE BindBuffer
  <2>. DEFINE p == poll.new
              b == rx.desc[poll.i].buf
  <2>1. /\ UNCHANGED <<mode, total, state, tx, pmm, pool, queue, proc, exhausted>> /\ mode \in {4, 5}
        /\ state = "running" /\ Bind(p) /\ poll.pc = "bind"
    BY <1>18 DEF BindBuffer, histVars, Pipelined, Runs
  <2>. SUFFICES ASSUME ~ exhausted
                PROVE  Owned' /\ Sound(rx)' /\ Sound(tx)' /\ Listed' /\ InHands'
    BY <2>1 DEF PageInv
  <2>2. p \in Page /\ p # NULL
    BY <1>0, <1>00, <2>1 DEF InHands, PollType
  <2>3. poll'.new = NULL /\ poll'.pc = "scan"
    BY <1>0, <2>1 DEF Bind, PollType
  <2>4. /\ Held["poll"] = {p} /\ Held'["poll"] = {}
        /\ Held["rx"] = RxPages \ {NULL, b} /\ Held'["rx"] = RxPages' \ {NULL}
    <3>1. HandedOver = {b} /\ HandedOver' = {}
      BY <2>1, <2>3, HandedIs
    <3>. QED BY <2>2, <2>3, <3>1, HeldIs, HeldIsThen
  <2>5. p \notin RxPages \ {b}
    BY <1>00, <2>2, <2>4 DEF Owned, Apart, Holders
  <2>6. Sound(rx') /\ RxPages' = (RxPages \ {b}) \cup {p}
    <3>1. {rx.page} \cup {rx.desc[j].buf : j \in RxSlots \ {poll.i}} \subseteq RxPages \ {b}
      <4>1. DOMAIN rx.desc = RxSlots /\ poll.i \in RxSlots
        BY <2>1, RingFacts DEF RxDesc
      <4>. QED BY <1>00, <4>1 DEF RxPages, Sound
    <3>. QED BY <1>00, <2>1, <2>2, <2>5, <3>1, BindRing
  <2>. HIDE DEF p, b
  <2>7. Held'["rx"] = Held["rx"] \cup {p}
    BY <2>2, <2>4, <2>6
  <2>8. \A x \in Holders : x # "poll" /\ x # "rx" => Held'[x] = Held[x]
    <3>1. TxPages' = TxPages
      BY <2>1 DEF TxPages
    <3>. QED BY <2>1, <3>1, HeldIs, HeldIsThen DEF Holders
  <2>9. Moves(Held, Held', "poll", "rx", {p})
    BY <2>4, <2>7, <2>8 DEF Moves, Holders
  <2>10. Apart(Held') /\ All(Held') = All(Held)
    BY <1>00, <2>9, Moved DEF Owned
  <2>11. Owned'
    BY <1>00, <2>1, <2>10 DEF Owned
  <2>12. Sound(tx)' /\ Listed' /\ InHands'
    BY <1>00, <2>1, <2>3 DEF Sound, Listed, InHands, NULL
  <2>. QED BY <2>6, <2>11, <2>12
<1>12. CASE QueueFull
  <2>. DEFINE p == poll.new
  <2>1. /\ UNCHANGED <<mode, total, rx, tx, queue, proc, exhausted>> /\ poll.pc = "push"
        /\ rx_free_pool_put(p) /\ poll' = [poll EXCEPT !.pc = "publish", !.new = NULL]
    BY <1>12 DEF QueueFull, histVars, ringVars
  <2>. SUFFICES ASSUME ~ exhausted
                PROVE  Owned' /\ Sound(rx)' /\ Sound(tx)' /\ Listed' /\ InHands'
    BY <2>1 DEF PageInv
  <2>2. p \in Page /\ p # NULL /\ poll'.new = NULL /\ poll'.pc = "publish"
    BY <1>0, <1>00, <2>1 DEF InHands, PollType
  <2>3. Held["poll"] = {p} /\ Held'["poll"] = {}
    BY <2>2, HeldIs, HeldIsThen
  <2>4. \A x \in Holders \ {"poll", "pool", "pmm"} : Held'[x] = Held[x]
    <3>1. TxPages' = TxPages /\ RxPages' = RxPages
      BY <2>1 DEF TxPages, RxPages
    <3>. QED BY <2>1, <2>2, <3>1, HeldIs, HeldIsThen, HandedIs DEF Holders
  <2>. HIDE DEF p
  <2>5. Owned' /\ IsInjective(pool') /\ NULL \notin ToSet(pool')
    <3>1. "poll" \in {"poll", "proc"} /\ UNCHANGED <<mode, total>>
      BY <2>1
    <3>. QED BY <1>00, <2>1, <2>2, <2>3, <2>4, <3>1, PutPages
  <2>6. Sound(rx)' /\ Sound(tx)' /\ Listed' /\ InHands'
    BY <1>00, <2>1, <2>2, <2>5 DEF Sound, Listed, InHands, NULL
  <2>. QED BY <2>5, <2>6
<1>13. CASE rx_queue_pop
  <2>. DEFINE b == Head(queue)
  <2>1. /\ UNCHANGED <<mode, total, rx, tx, pmm, pool, poll, exhausted>> /\ proc.pc = "idle"
        /\ queue # <<>> /\ queue' = Tail(queue) /\ proc' = [proc EXCEPT !.pc = "handle", !.buf = b]
    BY <1>13 DEF rx_queue_pop, histVars, ringVars
  <2>. SUFFICES ASSUME ~ exhausted
                PROVE  Owned' /\ Sound(rx)' /\ Sound(tx)' /\ Listed' /\ InHands'
    BY <2>1 DEF PageInv
  <2>2. IsInjective(queue') /\ ToSet(queue') = ToSet(queue) \ {b} /\ b \in ToSet(queue)
    BY <1>0, <1>00, <2>1, InjectiveTail DEF Listed, ListType
  <2>. HIDE DEF b
  <2>3. proc'.pc = "handle" /\ proc'.buf = b /\ b # NULL /\ proc.buf = NULL
    BY <1>0, <1>00, <2>1, <2>2 DEF ProcType, Listed, InHands
  <2>4. Sound(rx)' /\ Sound(tx)' /\ Listed' /\ InHands'
    BY <1>00, <2>1, <2>2, <2>3 DEF Sound, Listed, InHands, NULL
  <2>5. TxPages' = TxPages /\ RxPages' = RxPages
    BY <2>1 DEF TxPages, RxPages
  <2>6. CASE mode \in {1, 2}
    <3>1. \A x \in Holders : Held'[x] = Held[x]
      BY <2>1, <2>5, <2>6, HeldIs, HeldIsThen, HandedIs DEF Holders
    <3>2. Owned'
      BY <1>00, <2>1, <3>1 DEF Owned, Apart, All
    <3>. QED BY <2>4, <3>2
  <2>7. CASE mode \notin {1, 2}
    <3>1. /\ Held["proc"] = {} /\ Held'["proc"] = {b} /\ Held'["queue"] = Held["queue"] \ {b}
          /\ b \in Held["queue"]
      BY <2>1, <2>2, <2>3, <2>7, HeldIs, HeldIsThen
    <3>2. \A x \in Holders : x # "queue" /\ x # "proc" => Held'[x] = Held[x]
      BY <2>1, <2>5, HeldIs, HeldIsThen, HandedIs DEF Holders
    <3>3. Moves(Held, Held', "queue", "proc", {b})
      BY <3>1, <3>2 DEF Moves, Holders
    <3>4. Apart(Held') /\ All(Held') = All(Held)
      BY <1>00, <3>3, Moved DEF Owned
    <3>5. Owned'
      BY <1>00, <2>1, <3>4 DEF Owned
    <3>. QED BY <2>4, <3>5
  <2>. QED BY <2>6, <2>7
<1>14. CASE e1000_handle_packet \/ SendDone \/ SendTimeout \/ BatchDone
  <2>1. UNCHANGED <<mode, total, rx, tx, pmm, pool, queue, poll, exhausted>>
    BY <1>14 DEF e1000_handle_packet, SendDone, SendTimeout, BatchDone, histVars, ringVars
  <2>2. proc'.buf = proc.buf /\ (proc'.pc = "idle" <=> proc.pc = "idle")
    BY <1>0, <1>14 DEF e1000_handle_packet, SendDone, SendTimeout, BatchDone, ProcType
  <2>. QED BY <2>1, <2>2, PagesKept, HandedIs DEF SameRing, SameHands
<1>15. CASE e1000_rx_release_buffer
  <2>. DEFINE p == proc.buf
  <2>1. /\ UNCHANGED <<mode, total, rx, tx, queue, poll, exhausted>> /\ proc.pc = "release"
        /\ IF Pipelined THEN rx_free_pool_put(p) ELSE UNCHANGED <<pool, pmm>>
    BY <1>15 DEF e1000_rx_release_buffer, histVars, ringVars
  <2>. SUFFICES ASSUME ~ exhausted
                PROVE  Owned' /\ Sound(rx)' /\ Sound(tx)' /\ Listed' /\ InHands'
    BY <2>1 DEF PageInv
  <2>2. p \in Page /\ p # NULL /\ proc'.buf = NULL /\ proc'.pc = "idle"
    BY <1>0, <1>00, <1>15, <2>1 DEF InHands, ProcType, e1000_rx_release_buffer
  <2>3. TxPages' = TxPages /\ RxPages' = RxPages
    BY <2>1 DEF TxPages, RxPages
  <2>. HIDE DEF p
  <2>4. Owned' /\ IsInjective(pool') /\ NULL \notin ToSet(pool')
    <3>1. CASE Pipelined
      <4>1. Held["proc"] = {p} /\ Held'["proc"] = {}
        BY <2>1, <2>2, <3>1, HeldIs, HeldIsThen DEF Pipelined, p
      <4>2. \A x \in Holders \ {"proc", "pool", "pmm"} : Held'[x] = Held[x]
        BY <2>1, <2>3, HeldIs, HeldIsThen, HandedIs DEF Holders
      <4>3. "proc" \in {"poll", "proc"} /\ UNCHANGED <<mode, total>> /\ rx_free_pool_put(p)
        BY <2>1, <3>1
      <4>. QED BY <1>00, <2>2, <4>1, <4>2, <4>3, PutPages
    <3>2. CASE ~ Pipelined
      <4>1. UNCHANGED <<pool, pmm>>
        BY <2>1, <3>2
      <4>2. \A x \in Holders : x # "proc" => Held'[x] = Held[x]
        BY <2>1, <2>3, <4>1, HeldIs, HeldIsThen, HandedIs DEF Holders
      <4>3. Held'["proc"] = {} /\ (mode # 3 => Held["proc"] = {})
        BY <1>0, <2>1, <2>2, <3>2, HeldIs, HeldIsThen DEF Pipelined, Basics
      <4>4. Apart(Held')
        BY <1>00, <4>2, <4>3 DEF Apart, Owned
      <4>5. mode # 3 => All(Held') = All(Held)
        BY <4>2, <4>3 DEF All, Holders
      <4>6. Owned'
        BY <1>00, <2>1, <4>4, <4>5 DEF Owned
      <4>. QED BY <1>00, <4>1, <4>6 DEF Listed
    <3>. QED BY <3>1, <3>2
  <2>5. Sound(rx)' /\ Sound(tx)' /\ Listed' /\ InHands'
    BY <1>00, <2>1, <2>2, <2>4 DEF Sound, Listed, InHands, NULL
  <2>. QED BY <2>4, <2>5
<1>16. CASE UNCHANGED vars
  <2>1. UNCHANGED <<mode, total, rx, tx, pmm, pool, queue, poll, proc, exhausted>>
    BY <1>16 DEF vars, ringVars, histVars
  <2>. QED BY <2>1, PagesKept, HandedIs DEF SameRing, SameHands
<1>. QED
  BY <1>1, <1>2, <1>3, <1>4, <1>5, <1>6, <1>7, <1>8, <1>9, <1>10, <1>11, <1>12, <1>13, <1>14,
     <1>15, <1>16, <1>17, <1>18 DEF Next, DeviceNext, PollNext, ProcNext

----------------------------------------------------------------------------
(* Delivery.  Slots are counted from rx_tail on: first the Swapped ones    *)
(* whose pages have been queued (modes 3 to 5), then the Full ones whose   *)
(* packets wait, the first Batch of which mode 2 is handling in place,     *)
(* then the device's.  The packets the device has stored are, in order:    *)
(* those handled, the one in hand, those queued, those that wait.  Modes 1 *)
(* and 2 borrow the pages they handle: from the slot before rx_tail, which *)
(* is RDT and so not the device's, or from the batch.                      *)
From(t, i) == IF i >= t THEN i - t ELSE i - t + NUM_RX_DESC
Ahead(i) == From(rx.rx_tail, i)
InHand == IF proc.pc = "handle" THEN 1 ELSE 0
Handing == IF poll.pc = "bind" THEN 1 ELSE 0
Swapped == IF mode \in {1, 2} THEN 0 ELSE poll.n + Handing
Batch == IF mode = 2 /\ poll.pc = "release" THEN poll.n ELSE 0
Taken == Len(handled) + InHand + Len(queue)
Full == Len(got) - Taken + Batch
Waits(i) == rx.desc[i].dd /\ ~ (poll.pc = "bind" /\ i = poll.i)
Lent(i) == IF mode = 1 THEN Ahead(i) = NUM_RX_DESC - 1 ELSE Ahead(i) < Batch

Counts ==
    /\ Full >= Batch /\ Swapped + Full < NUM_RX_DESC
    /\ mode \notin {1, 2} => Ahead(poll.i) = poll.n
    /\ Ahead(rx.RDH) = Swapped + Full /\ Ahead(rx.RDT) = NUM_RX_DESC - 1
Stored ==
    \A i \in RxSlots :
        /\ Waits(i) <=> (Swapped <= Ahead(i) /\ Ahead(i) < Swapped + Full)
        /\ Swapped + Batch <= Ahead(i) /\ Ahead(i) < Swapped + Full =>
              got[Taken + Ahead(i) - Swapped - Batch + 1] = mem[rx.desc[i].buf]
Contents ==
    /\ Taken <= Len(got)
    /\ \A k \in 1 .. Len(handled) : got[k] = handled[k]
    /\ proc.pc = "handle" => got[Len(handled) + 1] = mem[proc.buf]
    /\ \A k \in 1 .. Len(queue) : got[Len(handled) + InHand + k] = mem[queue[k]]
Borrowed ==
    mode \in {1, 2} =>
        /\ turn = "poll" => queue = <<>> /\ proc.pc = "idle"
        /\ turn = "proc" /\ mode = 2 => poll.pc = "release"
        /\ poll.pc \in {"scan", "release"}
        /\ \A b \in ToSet(queue) \cup ({proc.buf} \ {NULL}) :
              \E i \in RxSlots : Lent(i) /\ rx.desc[i].buf = b
Pushing == poll.pc \in {"alloc", "push", "bind"} => mode \notin {1, 2} /\ Ready(poll.i)
RingUp == state \in {"rx_ready", "loaded", "running"}
DeliveryInv ==
    ~ exhausted =>
        /\ Contents /\ (state = "probe" => got = <<>>)
        /\ RingUp => Counts /\ Stored /\ Borrowed /\ Pushing

(* Counting round the ring. *)
LEMMA FromIs ==
  ASSUME NEW t \in RxSlots
  PROVE  /\ \A i \in RxSlots : From(t, i) \in 0 .. NUM_RX_DESC - 1
         /\ \A i, j \in RxSlots : From(t, i) = From(t, j) => i = j
         /\ From(t, t) = 0
         /\ \A i \in RxSlots : From(t, i) < NUM_RX_DESC - 1 => From(t, NextRx(i)) = From(t, i) + 1
<1>1. NUM_RX_DESC \in Nat /\ NUM_RX_DESC > 1
  BY E1000Assumption
<1>2. \A i \in RxSlots : NextRx(i) = IF i = NUM_RX_DESC - 1 THEN 0 ELSE i + 1
  BY NextIs
<1>. QED BY <1>1, <1>2 DEF From, RxSlots

(* The slot k past t, as the code computes it. *)
LEMMA FromStart ==
  ASSUME NEW t \in RxSlots, NEW k \in 0 .. NUM_RX_DESC - 1
  PROVE  (t + k) % NUM_RX_DESC \in RxSlots /\ From(t, (t + k) % NUM_RX_DESC) = k
<1>. DEFINE n == NUM_RX_DESC
<1>1. n \in Nat /\ n > 1 /\ t \in 0 .. n - 1 /\ k \in 0 .. n - 1
  BY E1000Assumption DEF RxSlots
<1>. HIDE DEF n
<1>2. (t + k) % n = IF t + k < n THEN t + k ELSE t + k - n
  <2>1. CASE t + k < n
    BY <1>1, <2>1
  <2>2. CASE ~ (t + k < n)
    <3>1. t + k - n \in 0 .. n - 1 /\ t + k = 1 * n + (t + k - n)
      BY <1>1, <2>2
    <3>. QED BY <1>1, <2>2, <3>1
  <2>. QED BY <2>1, <2>2
<1>. QED BY <1>1, <1>2 DEF From, RxSlots, n

(* The same the other way round. *)
LEMMA FromIndex ==
  ASSUME NEW t \in RxSlots, NEW i \in RxSlots
  PROVE  (i + NUM_RX_DESC - t) % NUM_RX_DESC = From(t, i)
<1>. DEFINE n == NUM_RX_DESC
<1>1. n \in Nat /\ n > 1 /\ t \in 0 .. n - 1 /\ i \in 0 .. n - 1
  BY E1000Assumption DEF RxSlots
<1>2. From(t, i) = IF i >= t THEN i - t ELSE i - t + n
  BY DEF From
<1>. HIDE DEF n
<1>3. CASE i >= t
  <2>1. i - t \in 0 .. n - 1 /\ i + n - t = 1 * n + (i - t)
    BY <1>1, <1>3
  <2>2. (i + n - t) % n = i - t
    BY <1>1, <2>1
  <2>. QED BY <1>2, <1>3, <2>2 DEF n
<1>4. CASE ~ (i >= t)
  <2>1. i + n - t \in 0 .. n - 1 /\ i + n - t = i - t + n
    BY <1>1, <1>4
  <2>2. (i + n - t) % n = i - t + n
    BY <1>1, <2>1
  <2>. QED BY <1>2, <1>4, <2>2 DEF n
<1>. QED BY <1>3, <1>4

(* Counting from a later slot. *)
LEMMA FromShift ==
  ASSUME NEW t \in RxSlots, NEW u \in RxSlots, NEW i \in RxSlots
  PROVE  From(u, i) = IF From(t, i) >= From(t, u) THEN From(t, i) - From(t, u)
                      ELSE From(t, i) - From(t, u) + NUM_RX_DESC
<1>1. NUM_RX_DESC \in Nat /\ NUM_RX_DESC > 1
  BY E1000Assumption
<1>. QED BY <1>1 DEF From, RxSlots

(* The counts are numbers. *)
LEMMA Numbers ==
  ASSUME EInv
  PROVE  /\ Len(got) \in Nat /\ Len(handled) \in Nat /\ Len(queue) \in Nat /\ InHand \in 0 .. 1
         /\ Swapped \in Nat /\ Batch \in Nat /\ Taken \in Nat /\ Full \in Int
         /\ NUM_RX_DESC \in Nat /\ NUM_RX_DESC > 1
         /\ got \in Seq(Nat) /\ handled \in Seq(Nat) /\ queue \in Seq(Page)
<1>1. got \in Seq(Nat) /\ handled \in Seq(Nat) /\ queue \in Seq(Page) /\ poll.n \in Nat
  BY RingFacts DEF EInv, Types, HistType, ListType
<1>2. Len(got) \in Nat /\ Len(handled) \in Nat /\ Len(queue) \in Nat
  BY <1>1
<1>3. NUM_RX_DESC \in Nat /\ NUM_RX_DESC > 1
  BY E1000Assumption
<1>. QED BY <1>1, <1>2, <1>3 DEF InHand, Handing, Swapped, Batch, Taken, Full

(* Nothing has arrived at first. *)
LEMMA DeliveryInit == Init => DeliveryInv
<1>. SUFFICES ASSUME Init PROVE DeliveryInv
  OBVIOUS
<1>1. /\ got = <<>> /\ handled = <<>> /\ queue = <<>> /\ proc.pc = "idle" /\ state = "probe"
  BY DEF Init
<1>2. Taken = 0 /\ Len(got) = 0 /\ Len(handled) = 0 /\ Len(queue) = 0
  BY <1>1 DEF Taken, InHand
<1>. QED BY <1>1, <1>2 DEF DeliveryInv, Contents, RingUp

(* The steps in which no packet moves. *)
LEMMA DeliveryKept ==
  ASSUME DeliveryInv, UNCHANGED <<mode, rx, mem, queue, got, handled>>,
         turn' = turn \/ mode \notin {1, 2} \/ (turn' = "poll" /\ queue = <<>> /\ proc.pc = "idle"),
         RingUp' => RingUp, state' # "probe" \/ state' = state, exhausted' \/ exhausted' = exhausted,
         UNCHANGED <<poll.i, poll.n>> /\ (poll'.pc = poll.pc \/ mode \notin {1, 2}),
         poll'.pc = "bind" <=> poll.pc = "bind",
         ~ exhausted' /\ poll'.pc \in {"alloc", "push", "bind"} => mode \notin {1, 2} /\ Ready(poll.i),
         proc'.buf \in {proc.buf, NULL}, proc'.pc = "handle" <=> proc.pc = "handle",
         proc'.pc = "handle" => proc'.buf = proc.buf, proc.pc = "idle" => proc'.pc = "idle"
  PROVE  DeliveryInv'
<1>. SUFFICES ASSUME ~ exhausted'
              PROVE  /\ Contents' /\ (state' = "probe" => got = <<>>)
                     /\ RingUp' => Counts' /\ Stored' /\ Borrowed' /\ Pushing'
  BY DEF DeliveryInv
<1>1. /\ Contents /\ (state = "probe" => got = <<>>)
      /\ RingUp => Counts /\ Stored /\ Borrowed /\ Pushing
  BY DEF DeliveryInv
<1>2. InHand' = InHand /\ Taken' = Taken /\ Swapped' = Swapped /\ Batch' = Batch /\ Full' = Full
  BY DEF InHand, Handing, Taken, Swapped, Batch, Full
<1>3. Contents'
  BY <1>1, <1>2 DEF Contents
<1>4. RingUp => Counts'
  BY <1>1, <1>2 DEF Counts, Ahead
<1>5. RingUp => Stored'
  <2>1. \A i \in RxSlots : Waits(i)' = Waits(i) /\ Ahead(i)' = Ahead(i)
    BY DEF Waits, Ahead
  <2>. QED BY <1>1, <1>2, <2>1 DEF Stored
<1>6. RingUp => Borrowed'
  BY <1>1, <1>2 DEF Borrowed, Lent, Ahead, NULL
<1>7. Pushing'
  BY <1>1 DEF Pushing, Ready
<1>. QED BY <1>1, <1>3, <1>4, <1>5, <1>6, <1>7

----------------------------------------------------------------------------
(* The rings come up empty. *)
LEMMA InitRxDelivers == ASSUME EInv, DeliveryInv, e1000_init_rx PROVE DeliveryInv'
<1>1. /\ UNCHANGED <<mode, queue, poll, proc, turn, got, handled, exhausted>> /\ state = "probe"
      /\ state' \in {"failed", "rx_ready"} /\ mem' = mem
  BY DEF e1000_init_rx, histVars
<1>2. /\ queue = <<>> /\ poll.pc = "scan" /\ poll.n = 0 /\ proc.pc = "idle" /\ turn = "poll"
      /\ handled = <<>> /\ poll.i = 0 /\ proc.buf = NULL
  BY <1>1 DEF EInv, Loaded, Idle
<1>. SUFFICES ASSUME ~ exhausted
              PROVE  Contents' /\ (RingUp' => Counts' /\ Stored' /\ Borrowed' /\ Pushing')
  BY <1>1 DEF DeliveryInv
<1>3. got = <<>> /\ Contents
  BY <1>1 DEF DeliveryInv
<1>4. Contents'
  BY <1>1, <1>3 DEF Contents, Taken, InHand
<1>5. ASSUME RingUp' PROVE Counts' /\ Stored' /\ Borrowed' /\ Pushing'
  <2>. DEFINE pages == Lowest(NUM_RX_DESC + 1)
  <2>1. rx' = [page |-> pages[1],
               desc |-> [i \in RxSlots |-> [buf |-> pages[i + 2], dd |-> FALSE]],
               rx_tail |-> 0, RDH |-> 0, RDT |-> NUM_RX_DESC - 1, RCTL_EN |-> TRUE]
    BY <1>5 DEF e1000_init_rx, RingUp
  <2>. HIDE DEF pages
  <2>2. /\ rx'.rx_tail = 0 /\ rx'.RDH = 0 /\ rx'.RDT = NUM_RX_DESC - 1
        /\ \A i \in RxSlots : rx'.desc[i].dd = FALSE
    BY <2>1
  <2>3. NUM_RX_DESC \in Nat /\ NUM_RX_DESC > 1
    BY E1000Assumption
  <2>4. Swapped' = 0 /\ Batch' = 0 /\ Taken' = 0 /\ Full' = 0
    <3>1. got' = <<>> /\ handled' = <<>> /\ queue' = <<>> /\ poll' = poll /\ proc' = proc
      BY <1>1, <1>2, <1>3
    <3>2. Len(got') = 0 /\ Len(handled') = 0 /\ Len(queue') = 0
      BY <3>1
    <3>3. Swapped' = 0 /\ Batch' = 0 /\ InHand' = 0
      BY <1>2, <3>1 DEF Swapped, Handing, Batch, InHand
    <3>. QED BY <3>2, <3>3 DEF Taken, Full
  <2>5. Counts'
    BY <1>1, <1>2, <2>2, <2>3, <2>4 DEF Counts, Ahead, From
  <2>6. Stored'
    <3>1. \A i \in RxSlots : ~ (0 <= From(0, i) /\ From(0, i) < 0 + 0)
      BY <2>3 DEF From, RxSlots
    <3>. QED BY <2>2, <2>4, <3>1 DEF Stored, Waits, Ahead
  <2>7. Borrowed' /\ Pushing'
    <3>1. ToSet(queue') = {}
      BY <1>1, <1>2 DEF ToSet
    <3>. QED BY <1>1, <1>2, <3>1 DEF Borrowed, Pushing, NULL
  <2>. QED BY <2>5, <2>6, <2>7
<1>. QED BY <1>4, <1>5

(* The device stores a packet; its page is not one that is being read. *)
LEMMA DmaDelivers == ASSUME EInv, PageInv, DeliveryInv, ReceiveDma PROVE DeliveryInv'
<1>0. /\ UNCHANGED <<mode, state, queue, poll, proc, turn, handled, exhausted>>
  BY DEF ReceiveDma
<1>1. CASE rx.RDH = rx.RDT
  <2>1. UNCHANGED <<rx, mem, got>>
    BY <1>1 DEF ReceiveDma
  <2>. QED BY <1>0, <2>1 DEF DeliveryInv, RingUp, Contents, Counts, Stored, Borrowed, Pushing,
         Taken, InHand, Handing, Swapped, Batch, Full, Waits, Lent, Ahead, Ready, NULL
<1>2. CASE rx.RDH # rx.RDT
  <2>. DEFINE h == rx.RDH
              p == rx.desc[h].buf
              L == Len(got)
  <2>1. /\ mem' = [mem EXCEPT ![p] = wire + 1]
        /\ rx' = [rx EXCEPT !.desc[h].dd = TRUE, !.RDH = NextRx(h)]
        /\ got' = Append(got, wire + 1) /\ rx.RCTL_EN
    BY <1>2 DEF ReceiveDma
  <2>2. /\ rx.desc \in RxDesc /\ h \in RxSlots /\ rx.RDT \in RxSlots /\ rx.rx_tail \in RxSlots
        /\ RxType /\ RxLoaded /\ MemType /\ Basics
    BY <2>1, RingFacts DEF EInv, Types, Loaded
  <2>3. state \in {"rx_ready", "loaded", "running"}
    BY <2>1, <2>2 DEF RxLoaded, NoRx
  <2>. SUFFICES ASSUME ~ exhausted
                PROVE  Contents' /\ Counts' /\ Stored' /\ Borrowed' /\ Pushing'
    BY <1>0, <2>3 DEF DeliveryInv
  <2>4. Contents /\ Counts /\ Stored /\ Borrowed /\ Pushing
    BY <2>3 DEF DeliveryInv, RingUp
  <2>5. Owned /\ Sound(rx) /\ Listed /\ InHands
    BY DEF PageInv
  <2>6. /\ rx'.RDH = NextRx(h) /\ rx'.RDT = rx.RDT /\ rx'.rx_tail = rx.rx_tail
        /\ rx'.desc = [rx.desc EXCEPT ![h].dd = TRUE]
    BY <2>1, <2>2 DEF RxType
  <2>7. \A i \in RxSlots : /\ rx'.desc[i].buf = rx.desc[i].buf
                           /\ rx'.desc[i].dd = IF i = h THEN TRUE ELSE rx.desc[i].dd
    <3>. DEFINE d == rx.desc
    <3>1. d \in RxDesc /\ h \in RxSlots
      BY <2>2
    <3>2. rx'.desc = [d EXCEPT ![h].dd = TRUE]
      BY <2>6
    <3>. HIDE DEF d, h
    <3>3. \A i \in RxSlots : /\ [d EXCEPT ![h].dd = TRUE][i].buf = d[i].buf
                             /\ [d EXCEPT ![h].dd = TRUE][i].dd = IF i = h THEN TRUE ELSE d[i].dd
      BY <3>1 DEF RxDesc
    <3>. QED BY <3>2, <3>3 DEF d
  <2>8. /\ L \in Nat /\ Len(handled) \in Nat /\ Len(queue) \in Nat /\ InHand \in 0 .. 1
        /\ Swapped \in Nat /\ Batch \in Nat /\ Taken \in Nat /\ Full \in Int
        /\ NUM_RX_DESC \in Nat /\ NUM_RX_DESC > 1 /\ got \in Seq(Nat)
        /\ queue \in Seq(Page) /\ wire + 1 \in Nat
    BY <2>2, Numbers DEF Basics
  <2>9. /\ Len(got') = L + 1 /\ got'[L + 1] = wire + 1 /\ \A k \in 1 .. L : got'[k] = got[k]
    BY <2>1, <2>8
  <2>10. /\ InHand' = InHand /\ Taken' = Taken /\ Swapped' = Swapped /\ Batch' = Batch
         /\ Full' = Full + 1
    BY <1>0, <2>8, <2>9 DEF InHand, Handing, Taken, Swapped, Batch, Full
  <2>11. /\ Ahead(h) = Swapped + Full /\ Ahead(h) < NUM_RX_DESC - 1 /\ Full >= Batch
         /\ \A i \in RxSlots : Ahead(i) \in 0 .. NUM_RX_DESC - 1 /\ (Ahead(i) = Ahead(h) => i = h)
         /\ Ahead(NextRx(h)) = Ahead(h) + 1 /\ Full = L - Taken + Batch
    <3>1. /\ Ahead(h) = Swapped + Full /\ Ahead(rx.RDT) = NUM_RX_DESC - 1 /\ Full >= Batch
      BY <2>4 DEF Counts
    <3>2. \A i \in RxSlots : Ahead(i) \in 0 .. NUM_RX_DESC - 1 /\ (Ahead(i) = Ahead(h) => i = h)
      BY <2>2, FromIs DEF Ahead
    <3>3. Ahead(h) # Ahead(rx.RDT)
      BY <1>2, <2>2, FromIs DEF Ahead
    <3>4. Ahead(h) < NUM_RX_DESC - 1
      BY <2>2, <2>8, <3>1, <3>2, <3>3
    <3>5. Ahead(NextRx(h)) = Ahead(h) + 1
      BY <2>2, <3>4, FromIs DEF Ahead
    <3>. QED BY <3>1, <3>2, <3>4, <3>5 DEF Full
  <2>12. \A i \in RxSlots : Ahead(i)' = Ahead(i)
    BY <2>6 DEF Ahead
  <2>13. Counts'
    <3>1. Ahead(rx.RDT)' = Ahead(rx.RDT) /\ Ahead(rx.RDH)' = Ahead(NextRx(h))
      BY <2>6 DEF Ahead
    <3>2. Ahead(poll.i)' = Ahead(poll.i)
      BY <1>0, <2>6 DEF Ahead
    <3>3. /\ Swapped + Full < NUM_RX_DESC /\ (mode \notin {1, 2} => Ahead(poll.i) = poll.n)
          /\ Ahead(rx.RDT) = NUM_RX_DESC - 1
      BY <2>4 DEF Counts
    <3>4. Full + 1 >= Batch /\ Swapped + (Full + 1) < NUM_RX_DESC
          /\ Ahead(NextRx(h)) = Swapped + (Full + 1)
      BY <2>8, <2>11
    <3>. QED BY <1>0, <2>10, <3>1, <3>2, <3>3, <3>4 DEF Counts
  <2>14. p \in Page /\ p # NULL /\ DOMAIN rx.desc = RxSlots
    BY <2>2, <2>5, RxUpdates DEF Sound, RxDesc
  <2>15. \A i \in RxSlots : i # h => mem'[rx.desc[i].buf] = mem[rx.desc[i].buf]
    <3>1. \A i \in RxSlots : i # h => rx.desc[i].buf # p
      BY <2>2, <2>5, <2>14 DEF Sound
    <3>2. \A i \in RxSlots : rx.desc[i].buf \in Page
      BY <2>2, RxUpdates
    <3>. QED BY <2>1, <2>2, <3>1, <3>2 DEF MemType
  <2>16. mem'[p] = wire + 1
    BY <2>1, <2>2, <2>14 DEF MemType
  <2>00. ~ (poll.pc = "bind" /\ h = poll.i)
    <3>1. SUFFICES ASSUME poll.pc = "bind", h = poll.i PROVE FALSE
      OBVIOUS
    <3>2. mode \notin {1, 2}
      BY <2>4, <3>1 DEF Pushing
    <3>3. Ahead(poll.i) = poll.n /\ Swapped = poll.n + 1 /\ poll.n \in Nat
      BY <2>4, <3>1, <3>2, RingFacts DEF Counts, Swapped, Handing
    <3>. QED BY <2>8, <2>11, <3>1, <3>3 DEF Counts
  <2>17. \A b \in ToSet(queue) \cup ({proc.buf} \ {NULL}) : b # p
    <3>1. CASE mode \in {1, 2}
      <4>. SUFFICES ASSUME NEW b \in ToSet(queue) \cup ({proc.buf} \ {NULL}) PROVE b # p
        OBVIOUS
      <4>1. PICK i \in RxSlots : Lent(i) /\ rx.desc[i].buf = b
        BY <2>4, <3>1 DEF Borrowed
      <4>2. i # h
        BY <2>2, <2>8, <2>11, <4>1 DEF Lent
      <4>. QED BY <2>2, <2>5, <2>14, <4>1, <4>2 DEF Sound
    <3>2. CASE mode \notin {1, 2}
      <4>1. p \in RxPages /\ p \notin HandedOver
        <5>1. p \in RxPages
          BY <2>2, <2>14 DEF RxPages
        <5>2. ASSUME poll.pc = "bind" PROVE p # rx.desc[poll.i].buf
          <6>1. poll.i \in RxSlots /\ poll.i # h
            BY <2>00, <5>2, RingFacts
          <6>. QED BY <2>2, <2>5, <2>14, <6>1 DEF Sound
        <5>. QED BY <5>1, <5>2, HandedIs
      <4>2. p \in Held["rx"]
        BY <2>14, <4>1, HeldIs
      <4>3. Held["queue"] = ToSet(queue) /\ Held["proc"] = {proc.buf} \ {NULL}
        BY <3>2, HeldIs
      <4>4. Held["rx"] \cap Held["queue"] = {} /\ Held["rx"] \cap Held["proc"] = {}
        BY <2>5 DEF Owned, Apart, Holders
      <4>. QED BY <4>2, <4>3, <4>4
    <3>. QED BY <3>1, <3>2
  <2>18. \A b \in Page : b # p => mem'[b] = mem[b]
    BY <2>1, <2>2 DEF MemType
  <2>. HIDE DEF p, L
  <2>19. Contents'
    <3>1. /\ Taken <= Len(got) /\ \A k \in 1 .. Len(handled) : got[k] = handled[k]
          /\ proc.pc = "handle" => got[Len(handled) + 1] = mem[proc.buf]
          /\ \A k \in 1 .. Len(queue) : got[Len(handled) + InHand + k] = mem[queue[k]]
      BY <2>4 DEF Contents
    <3>2. Taken = Len(handled) + InHand + Len(queue) /\ L = Len(got)
      BY DEF Taken, L
    <3>3. \A k \in 1 .. Len(handled) : got'[k] = handled[k]
      BY <2>8, <2>9, <3>1, <3>2
    <3>4. proc.pc = "handle" => got'[Len(handled) + 1] = mem'[proc.buf]
      <4>. SUFFICES ASSUME proc.pc = "handle" PROVE got'[Len(handled) + 1] = mem'[proc.buf]
        OBVIOUS
      <4>1. InHand = 1 /\ Len(handled) + 1 \in 1 .. L
        BY <2>8, <3>1, <3>2 DEF InHand
      <4>2. proc.buf # NULL /\ proc.buf \in Page
        BY <2>5, RingFacts DEF InHands
      <4>3. mem'[proc.buf] = mem[proc.buf]
        BY <2>17, <2>18, <4>2
      <4>. QED BY <2>9, <3>1, <4>1, <4>3
    <3>5. \A k \in 1 .. Len(queue) : got'[Len(handled) + InHand + k] = mem'[queue[k]]
      <4>. SUFFICES ASSUME NEW k \in 1 .. Len(queue)
                    PROVE  got'[Len(handled) + InHand + k] = mem'[queue[k]]
        OBVIOUS
      <4>1. Len(handled) + InHand + k \in 1 .. L
        BY SMTT(60), <2>8, <3>1, <3>2
      <4>2. queue[k] \in Page /\ queue[k] \in ToSet(queue)
        BY <2>8, InSet
      <4>3. mem'[queue[k]] = mem[queue[k]]
        BY <2>17, <2>18, <4>2
      <4>. QED BY <2>9, <3>1, <4>1, <4>3
    <3>6. Taken <= Len(got')
      BY <2>8, <2>9, <3>1, <3>2
    <3>. QED BY <1>0, <2>10, <3>3, <3>4, <3>5, <3>6 DEF Contents
  <2>20. Stored'
    <3>. SUFFICES ASSUME NEW i \in RxSlots
                  PROVE  /\ Waits(i)' <=> (Swapped <= Ahead(i) /\ Ahead(i) < Swapped + (Full + 1))
                         /\ Swapped + Batch <= Ahead(i) /\ Ahead(i) < Swapped + (Full + 1) =>
                              got'[Taken + Ahead(i) - Swapped - Batch + 1] = mem'[rx'.desc[i].buf]
      BY <2>10, <2>12 DEF Stored
    <3>1. /\ Waits(i) <=> (Swapped <= Ahead(i) /\ Ahead(i) < Swapped + Full)
          /\ Swapped + Batch <= Ahead(i) /\ Ahead(i) < Swapped + Full =>
                got[Taken + Ahead(i) - Swapped - Batch + 1] = mem[rx.desc[i].buf]
      BY <2>4 DEF Stored
    <3>2. CASE i = h
      <4>1. Waits(i)'
        BY <1>0, <2>00, <2>7, <3>2 DEF Waits
      <4>2. Ahead(i) = Swapped + Full
        BY <2>11, <3>2
      <4>3. Taken + Ahead(i) - Swapped - Batch + 1 = L + 1
        BY <2>8, <2>11, <4>2
      <4>4. mem'[rx'.desc[i].buf] = wire + 1
        BY <2>7, <2>16, <3>2 DEF p
      <4>5. Swapped <= Ahead(i) /\ Ahead(i) < Swapped + (Full + 1)
        BY <2>8, <2>11, <4>2
      <4>. QED BY <2>9, <4>1, <4>3, <4>4, <4>5
    <3>3. CASE i # h
      <4>1. Waits(i)' = Waits(i) /\ rx'.desc[i].buf = rx.desc[i].buf
        BY <1>0, <2>7, <3>3 DEF Waits
      <4>2. Ahead(i) # Swapped + Full /\ Ahead(i) \in Int
        BY <2>11, <3>3
      <4>3. Ahead(i) < Swapped + (Full + 1) <=> Ahead(i) < Swapped + Full
        <5>. DEFINE a == Ahead(i)
                    s == Swapped
                    f == Full
        <5>1. a \in Int /\ s \in Int /\ f \in Int /\ a # s + f
          BY <2>8, <4>2
        <5>. HIDE DEF a, s, f
        <5>2. a < s + (f + 1) <=> a < s + f
          BY <5>1
        <5>. QED BY <5>2 DEF a, s, f
      <4>4. ASSUME Swapped + Batch <= Ahead(i), Ahead(i) < Swapped + Full
            PROVE  Taken + Ahead(i) - Swapped - Batch + 1 \in 1 .. L
        <5>. DEFINE a == Ahead(i)
                    s == Swapped
                    f == Full
                    b == Batch
                    T == Taken
        <5>1. /\ a \in Int /\ s \in Int /\ f \in Int /\ b \in Int /\ T \in Nat /\ L \in Nat
              /\ s + b <= a /\ a < s + f /\ f = L - T + b
          BY <2>8, <2>11, <4>2, <4>4
        <5>. HIDE DEF a, s, f, b, T
        <5>2. T + a - s - b + 1 \in 1 .. L
          BY <5>1
        <5>. QED BY <5>2 DEF a, s, f, b, T
      <4>5. mem'[rx'.desc[i].buf] = mem[rx.desc[i].buf]
        BY <2>15, <3>3, <4>1
      <4>. QED BY <2>9, <3>1, <4>1, <4>3, <4>4, <4>5
    <3>. QED BY <3>2, <3>3
  <2>21. Borrowed'
    <3>. SUFFICES ASSUME mode \in {1, 2} PROVE Borrowed'
      BY <1>0 DEF Borrowed
    <3>. DEFINE bs == ToSet(queue) \cup ({proc.buf} \ {NULL})
    <3>1. /\ turn = "poll" => queue = <<>> /\ proc.pc = "idle"
          /\ turn = "proc" /\ mode = 2 => poll.pc = "release"
          /\ poll.pc \in {"scan", "release"}
          /\ \A b \in bs : \E i \in RxSlots : Lent(i) /\ rx.desc[i].buf = b
      BY <2>4 DEF Borrowed
    <3>2. bs' = bs
      BY <1>0 DEF NULL
    <3>3. \A b \in bs : \E i \in RxSlots : Lent(i)' /\ rx'.desc[i].buf = b
      <4>1. ASSUME NEW b \in bs PROVE \E i \in RxSlots : Lent(i)' /\ rx'.desc[i].buf = b
        <5>1. PICK i \in RxSlots : Lent(i) /\ rx.desc[i].buf = b
          BY <3>1
        <5>2. Ahead(i)' = Ahead(i) /\ rx'.desc[i].buf = rx.desc[i].buf
          BY <2>7, <2>12
        <5>3. Lent(i)' /\ rx'.desc[i].buf = b
          BY <1>0, <2>10, <5>1, <5>2 DEF Lent
        <5>. QED BY <5>3
      <4>. QED BY <4>1
    <3>. HIDE DEF bs
    <3>4. \A b \in bs' : \E i \in RxSlots : Lent(i)' /\ rx'.desc[i].buf = b
      BY <3>2, <3>3
    <3>. QED BY <1>0, <3>1, <3>4 DEF Borrowed, bs
  <2>22. Pushing'
    <3>1. poll.i \in RxSlots
      BY RingFacts
    <3>. QED BY <1>0, <2>4, <2>7, <3>1 DEF Pushing, Ready
  <2>. QED BY <2>13, <2>19, <2>20, <2>21, <2>22
<1>. QED BY <1>1, <1>2

----------------------------------------------------------------------------
(* What DeliveryInv says of a loop that runs. *)
LEMMA Running ==
  ASSUME EInv, PageInv, DeliveryInv, ~ exhausted, state = "running"
  PROVE  /\ Contents /\ Counts /\ Stored /\ Borrowed /\ Pushing /\ InHands /\ Fits
         /\ rx.desc \in RxDesc /\ RxType /\ PollType /\ ProcType /\ rx.rx_tail \in RxSlots
         /\ poll.i \in RxSlots /\ rx.RDH \in RxSlots /\ rx.RDT \in RxSlots
         /\ \A i \in RxSlots : /\ Ahead(i) \in 0 .. NUM_RX_DESC - 1 /\ Ahead(i) \in Int
                               /\ rx.desc[i].buf \in Page
<1>1. Contents /\ Counts /\ Stored /\ Borrowed /\ Pushing
  BY DEF DeliveryInv, RingUp
<1>2. InHands /\ Fits /\ RxType /\ PollType /\ ProcType
  BY DEF PageInv, EInv, Types
<1>3. /\ rx.desc \in RxDesc /\ rx.rx_tail \in RxSlots
      /\ poll.i \in RxSlots /\ rx.RDH \in RxSlots /\ rx.RDT \in RxSlots
  BY RingFacts
<1>4. ASSUME NEW i \in RxSlots
      PROVE  Ahead(i) \in 0 .. NUM_RX_DESC - 1 /\ Ahead(i) \in Int /\ rx.desc[i].buf \in Page
  <2>1. Ahead(i) \in 0 .. NUM_RX_DESC - 1
    BY <1>3, FromIs DEF Ahead
  <2>2. rx.desc[i].buf \in Page
    BY <1>3, RxUpdates
  <2>. QED BY <2>1, <2>2, E1000Assumption
<1>. QED BY <1>1, <1>2, <1>3, <1>4

(* e1000_poll_packet_batch: the batch is the oldest packets in the ring. *)
LEMMA BatchDelivers == ASSUME EInv, PageInv, DeliveryInv, e1000_poll_packet_batch PROVE DeliveryInv'
<1>. DEFINE run == ReadyRun(RX_BATCH_MAX)
            m == Len(run)
            H == Len(handled)
            L == Len(got)
<1>1. /\ UNCHANGED <<mode, state, rx, mem, proc, got, handled, exhausted>> /\ mode = 2
      /\ state = "running" /\ turn = "poll" /\ poll.pc = "scan" /\ run # <<>> /\ turn' = "proc"
      /\ queue' = [k \in DOMAIN run |-> rx.desc[run[k]].buf]
      /\ poll' = [poll EXCEPT !.pc = "release", !.n = Len(run)]
  BY DEF e1000_poll_packet_batch, Scanning, Runs, ringVars, histVars
<1>. SUFFICES ASSUME ~ exhausted
              PROVE  Contents' /\ Counts' /\ Stored' /\ Borrowed' /\ Pushing'
  BY <1>1 DEF DeliveryInv
<1>2. /\ Contents /\ Counts /\ Stored /\ Borrowed /\ Pushing /\ InHands
      /\ rx.desc \in RxDesc /\ PollType /\ rx.rx_tail \in RxSlots
      /\ \A i \in RxSlots : Ahead(i) \in 0 .. NUM_RX_DESC - 1 /\ rx.desc[i].buf \in Page
  BY <1>1, Running
<1>3. queue = <<>> /\ proc.pc = "idle" /\ proc.buf = NULL /\ proc'.buf = NULL /\ proc'.pc = "idle"
  BY <1>1, <1>2 DEF Borrowed, InHands
<1>4. /\ L \in Nat /\ H \in Nat /\ NUM_RX_DESC \in Nat /\ NUM_RX_DESC > 1
      /\ Taken = H /\ Batch = 0 /\ Swapped = 0 /\ Full = L - H
  <2>1. L \in Nat /\ H \in Nat /\ NUM_RX_DESC \in Nat /\ NUM_RX_DESC > 1
    BY Numbers
  <2>2. InHand = 0 /\ Len(queue) = 0 /\ Batch = 0 /\ Swapped = 0
    BY <1>1, <1>3 DEF InHand, Batch, Swapped
  <2>. QED BY <2>1, <2>2 DEF Taken, Full
<1>5. /\ run \in Seq(RxSlots) /\ m \in Nat /\ m <= NUM_RX_DESC /\ m > 0 /\ DOMAIN run = 1 .. m
      /\ \A k \in 1 .. m : run[k] = (rx.rx_tail + (k - 1)) % NUM_RX_DESC /\ Ready(run[k])
  <2>1. /\ run \in Seq(RxSlots) /\ m \in Nat /\ m <= NUM_RX_DESC /\ DOMAIN run = 1 .. m
        /\ \A k \in 1 .. m : run[k] = (rx.rx_tail + (k - 1)) % NUM_RX_DESC /\ Ready(run[k])
    BY <1>2, ReadyRunIs, E1000Assumption
  <2>. HIDE DEF run
  <2>. QED BY <1>1, <2>1
<1>. HIDE DEF run
<1>6. \A k \in 1 .. m : run[k] \in RxSlots /\ Ahead(run[k]) = k - 1
  <2>1. ASSUME NEW k \in 1 .. m PROVE run[k] \in RxSlots /\ Ahead(run[k]) = k - 1
    <3>1. k - 1 \in 0 .. NUM_RX_DESC - 1
      BY <1>4, <1>5
    <3>. QED BY <1>2, <1>5, <3>1, FromStart DEF Ahead
  <2>. QED BY <2>1
<1>. HIDE DEF H, L, m
<1>7. \A i \in RxSlots : /\ Ready(i) <=> (0 <= Ahead(i) /\ Ahead(i) < L - H)
                         /\ Ready(i) => got[H + Ahead(i) + 1] = mem[rx.desc[i].buf]
  <2>1. ASSUME NEW i \in RxSlots
        PROVE  /\ Ready(i) <=> (0 <= Ahead(i) /\ Ahead(i) < L - H)
               /\ Ready(i) => got[H + Ahead(i) + 1] = mem[rx.desc[i].buf]
    <3>0. Waits(i) <=> Ready(i)
      BY <1>1 DEF Waits, Ready
    <3>1. /\ Waits(i) <=> (0 <= Ahead(i) /\ Ahead(i) < 0 + (L - H))
          /\ 0 + 0 <= Ahead(i) /\ Ahead(i) < 0 + (L - H) =>
                got[H + Ahead(i) - 0 - 0 + 1] = mem[rx.desc[i].buf]
      BY <1>2, <1>4 DEF Stored
    <3>2. /\ 0 + (L - H) = L - H /\ H + Ahead(i) - 0 - 0 + 1 = H + Ahead(i) + 1 /\ 0 + 0 = 0
      BY <1>2, <1>4
    <3>. QED BY <3>0, <3>1, <3>2
  <2>. QED BY <2>1
<1>8. m <= L - H
  <2>1. m \in 1 .. m
    BY <1>5
  <2>2. m - 1 < L - H
    BY <1>5, <1>6, <1>7, <2>1
  <2>. QED BY <1>4, <1>5, <2>2
<1>9. /\ Len(queue') = m /\ \A k \in 1 .. m : queue'[k] = rx.desc[run[k]].buf
      /\ queue' \in Seq(Page)
  <2>1. \A k \in 1 .. m : rx.desc[run[k]].buf \in Page
    BY <1>2, <1>6
  <2>. QED BY <1>1, <1>5, <2>1
<1>10. poll'.pc = "release" /\ poll'.n = m /\ poll'.i = poll.i
  BY <1>1, <1>2 DEF PollType, m
<1>11. Taken' = H + m /\ Batch' = m /\ Swapped' = 0 /\ Full' = L - H /\ InHand' = 0
  <2>1. InHand' = 0 /\ Batch' = m /\ Swapped' = 0
    BY <1>1, <1>3, <1>10 DEF InHand, Batch, Swapped
  <2>2. Taken' = H + 0 + m
    BY <1>1, <1>9, <2>1 DEF Taken, H
  <2>3. Full' = L - Taken' + Batch'
    BY <1>1 DEF Full, L
  <2>. QED BY <1>4, <1>5, <2>1, <2>2, <2>3
<1>12. Contents'
  <2>1. \A k \in 1 .. H : got[k] = handled[k]
    BY <1>2 DEF Contents, H
  <2>2. \A k \in 1 .. m : got[H + 0 + k] = mem[queue'[k]]
    <3>1. ASSUME NEW k \in 1 .. m PROVE got[H + 0 + k] = mem[queue'[k]]
      <4>1. got[H + (k - 1) + 1] = mem[rx.desc[run[k]].buf]
        BY <1>5, <1>6, <1>7
      <4>2. H + (k - 1) + 1 = H + 0 + k
        BY <1>4
      <4>. QED BY <1>9, <4>1, <4>2
    <3>. QED BY <3>1
  <2>3. H + m <= L
    BY <1>4, <1>5, <1>8
  <2>. QED BY <1>1, <1>3, <1>9, <1>11, <2>1, <2>2, <2>3 DEF Contents, H, L
<1>13. Counts'
  <2>1. /\ 0 + (L - H) < NUM_RX_DESC /\ Ahead(rx.RDH) = 0 + (L - H)
        /\ Ahead(rx.RDT) = NUM_RX_DESC - 1
    BY <1>2, <1>4 DEF Counts
  <2>2. Ahead(rx.RDH)' = Ahead(rx.RDH) /\ Ahead(rx.RDT)' = Ahead(rx.RDT)
    BY <1>1 DEF Ahead
  <2>. QED BY <1>1, <1>8, <1>11, <2>1, <2>2, <1>4, <1>5 DEF Counts
<1>14. Stored'
  <2>0. \A i \in RxSlots : Waits(i)' <=> Ready(i)
    BY <1>1, <1>10 DEF Waits, Ready
  <2>. SUFFICES ASSUME NEW i \in RxSlots
                PROVE  /\ Ready(i) <=> (0 <= Ahead(i) /\ Ahead(i) < 0 + (L - H))
                       /\ 0 + m <= Ahead(i) /\ Ahead(i) < 0 + (L - H) =>
                            got[(H + m) + Ahead(i) - 0 - m + 1] = mem[rx.desc[i].buf]
    BY <1>1, <1>11, <2>0 DEF Stored, Ahead
  <2>1. Ahead(i) \in Nat /\ 0 + (L - H) = L - H /\ (H + m) + Ahead(i) - 0 - m + 1 = H + Ahead(i) + 1
    BY <1>2, <1>4, <1>5
  <2>2. 0 + m <= Ahead(i) => 0 <= Ahead(i)
    BY <2>1
  <2>. QED BY <1>7, <2>1, <2>2
<1>15. Borrowed' /\ Pushing'
  <2>1. ASSUME NEW b \in ToSet(queue') PROVE \E i \in RxSlots : Ahead(i) < m /\ rx.desc[i].buf = b
    <3>1. PICK k \in 1 .. m : b = queue'[k]
      BY <1>9, InSet
    <3>2. Ahead(run[k]) < m /\ rx.desc[run[k]].buf = b /\ run[k] \in RxSlots
      BY <1>5, <1>6, <1>9, <3>1
    <3>. QED BY <3>2
  <2>2. \A b \in ToSet(queue') \cup ({proc'.buf} \ {NULL}) :
           \E i \in RxSlots : Lent(i)' /\ rx'.desc[i].buf = b
    BY <1>1, <1>3, <1>11, <2>1 DEF Ahead, Lent
  <2>. QED BY <1>1, <1>10, <2>2 DEF Borrowed, Pushing, NULL
<1>. QED BY <1>12, <1>13, <1>14, <1>15

----------------------------------------------------------------------------
(* e1000_rx_batch_release: the ring moves past the batch. *)
LEMMA ReleaseDelivers == ASSUME EInv, PageInv, DeliveryInv, e1000_rx_batch_release PROVE DeliveryInv'
<1>. DEFINE m == poll.n
            run == ReadyRun(m)
            t == rx.rx_tail
            u == NextRx(Last(run))
            H == Len(handled)
            L == Len(got)
            N == NUM_RX_DESC
<1>1. /\ UNCHANGED <<mode, state, mem, queue, proc, turn, got, handled, exhausted>> /\ mode = 2
      /\ state = "running" /\ turn = "poll" /\ poll.pc = "release"
      /\ rx' = [rx EXCEPT !.desc = Released(run), !.rx_tail = u, !.RDT = Last(run)]
      /\ poll' = [poll EXCEPT !.pc = "scan", !.n = 0]
  BY DEF e1000_rx_batch_release, Runs, histVars
<1>. SUFFICES ASSUME ~ exhausted
              PROVE  Contents' /\ Counts' /\ Stored' /\ Borrowed' /\ Pushing'
  BY <1>1 DEF DeliveryInv
<1>2. /\ Contents /\ Counts /\ Stored /\ Borrowed /\ Pushing /\ InHands /\ Fits
      /\ rx.desc \in RxDesc /\ RxType /\ PollType /\ t \in RxSlots /\ rx.RDH \in RxSlots
      /\ \A i \in RxSlots : Ahead(i) \in 0 .. N - 1 /\ rx.desc[i].buf \in Page
  BY <1>1, Running
<1>3. queue = <<>> /\ proc.pc = "idle" /\ proc.buf = NULL /\ m \in Nat /\ m > 0
  BY <1>1, <1>2 DEF Borrowed, InHands, Fits, PollType
<1>4. /\ L \in Nat /\ H \in Nat /\ N \in Nat /\ N > 1
      /\ Taken = H /\ Batch = m /\ Swapped = 0 /\ Full = L - H + m
  <2>1. L \in Nat /\ H \in Nat /\ N \in Nat /\ N > 1
    BY Numbers
  <2>2. InHand = 0 /\ Len(queue) = 0 /\ Batch = m /\ Swapped = 0
    BY <1>1, <1>3 DEF InHand, Batch, Swapped
  <2>. QED BY <2>1, <2>2 DEF Taken, Full
<1>. DEFINE F == Full
<1>5. F \in Int /\ F >= m /\ F < N /\ Ahead(rx.RDH) = F /\ F - m = L - H
  <2>1. Full >= Batch /\ Swapped + Full < N /\ Ahead(rx.RDH) = Swapped + Full
    BY <1>2 DEF Counts
  <2>. QED BY <1>3, <1>4, <2>1
<1>. HIDE DEF F
<1>6. \A i \in RxSlots : /\ Ready(i) <=> (0 <= Ahead(i) /\ Ahead(i) < F)
                         /\ m <= Ahead(i) /\ Ahead(i) < F =>
                              got[H + Ahead(i) - m + 1] = mem[rx.desc[i].buf]
  <2>1. ASSUME NEW i \in RxSlots
        PROVE  /\ Ready(i) <=> (0 <= Ahead(i) /\ Ahead(i) < F)
               /\ m <= Ahead(i) /\ Ahead(i) < F =>
                     got[H + Ahead(i) - m + 1] = mem[rx.desc[i].buf]
    <3>0. Waits(i) <=> Ready(i)
      BY <1>1 DEF Waits, Ready
    <3>1. /\ Waits(i) <=> (0 <= Ahead(i) /\ Ahead(i) < 0 + F)
          /\ 0 + m <= Ahead(i) /\ Ahead(i) < 0 + F =>
                got[H + Ahead(i) - 0 - m + 1] = mem[rx.desc[i].buf]
      BY <1>2, <1>4 DEF Stored, F
    <3>2. /\ 0 + F = F /\ 0 + m = m /\ H + Ahead(i) - 0 - m + 1 = H + Ahead(i) - m + 1
      BY SMTT(60), <1>2, <1>3, <1>4, <1>5
    <3>. QED BY <3>0, <3>1, <3>2
  <2>. QED BY <2>1
<1>7. Len(run) = m
  <2>1. ASSUME NEW j \in 0 .. m - 1 PROVE Ready((t + j) % N)
    <3>1. j \in 0 .. N - 1 /\ j < F
      BY <1>3, <1>4, <1>5
    <3>2. (t + j) % N \in RxSlots /\ Ahead((t + j) % N) = j
      BY <1>2, <3>1, FromStart DEF Ahead
    <3>. QED BY <1>3, <1>6, <3>1, <3>2
  <2>2. m <= N
    BY <1>3, <1>4, <1>5
  <2>. QED BY <1>2, <1>3, <2>1, <2>2, ReadyRunIs
<1>8. /\ run \in Seq(RxSlots) /\ DOMAIN run = 1 .. m
      /\ \A k \in 1 .. m : run[k] = (t + (k - 1)) % N
  BY <1>2, <1>3, <1>7, ReadyRunIs
<1>. HIDE DEF run
<1>9. \A k \in 1 .. m : run[k] \in RxSlots /\ Ahead(run[k]) = k - 1
  <2>1. ASSUME NEW k \in 1 .. m PROVE run[k] \in RxSlots /\ Ahead(run[k]) = k - 1
    <3>1. k - 1 \in 0 .. N - 1
      BY <1>3, <1>4, <1>5
    <3>. QED BY <1>2, <1>8, <3>1, FromStart DEF Ahead
  <2>. QED BY <2>1
<1>10. Last(run) = run[m] /\ Last(run) \in RxSlots /\ Ahead(Last(run)) = m - 1
  <2>1. run # <<>> /\ m \in 1 .. m
    BY <1>3, <1>7
  <2>2. Last(run) = run[m]
    BY <1>7, <1>8, <2>1, Ends
  <2>. QED BY <1>9, <2>1, <2>2
<1>11. u \in RxSlots /\ Ahead(u) = m
  <2>1. Ahead(Last(run)) < N - 1
    BY <1>3, <1>4, <1>5, <1>10
  <2>2. Ahead(u) = Ahead(Last(run)) + 1
    BY <1>2, <1>10, <2>1, FromIs DEF Ahead
  <2>. QED BY <1>3, <1>10, <2>2, Slots
<1>12. \A i \in RxSlots : i \in ToSet(run) <=> Ahead(i) < m
  <2>1. ASSUME NEW i \in RxSlots, i \in ToSet(run) PROVE Ahead(i) < m
    <3>1. PICK k \in 1 .. m : i = run[k]
      BY <1>7, <1>8, <2>1, InSet
    <3>. QED BY <1>3, <1>9, <3>1
  <2>2. ASSUME NEW i \in RxSlots, Ahead(i) < m PROVE i \in ToSet(run)
    <3>1. Ahead(i) + 1 \in 1 .. m /\ (Ahead(i) + 1) - 1 = Ahead(i)
      BY SMTT(60), <1>2, <1>3, <1>4, <2>2
    <3>2. Ahead(run[Ahead(i) + 1]) = Ahead(i) /\ run[Ahead(i) + 1] \in RxSlots
      BY <1>9, <3>1
    <3>3. run[Ahead(i) + 1] = i
      BY <1>2, <3>2, FromIs DEF Ahead
    <3>. QED BY <1>7, <1>8, <3>1, <3>3, InSet
  <2>. QED BY <2>1, <2>2
<1>. HIDE DEF u, t, N, H, L, m
<1>13. /\ rx'.rx_tail = u /\ rx'.RDT = Last(run) /\ rx'.RDH = rx.RDH
       /\ \A i \in RxSlots : /\ rx'.desc[i].buf = rx.desc[i].buf
                             /\ rx'.desc[i].dd = (Ready(i) /\ i \notin ToSet(run))
  <2>1. /\ rx'.rx_tail = u /\ rx'.RDT = Last(run) /\ rx'.RDH = rx.RDH /\ rx'.desc = Released(run)
    BY <1>1, <1>2 DEF RxType
  <2>. QED BY <2>1 DEF Released
<1>14. \A i \in RxSlots : Ahead(i)' = IF Ahead(i) >= m THEN Ahead(i) - m ELSE Ahead(i) - m + N
  <2>1. ASSUME NEW i \in RxSlots
        PROVE  From(u, i) = IF From(t, i) >= From(t, u) THEN From(t, i) - From(t, u)
                            ELSE From(t, i) - From(t, u) + N
    BY <1>2, <1>11, FromShift DEF t, N
  <2>2. \A i \in RxSlots : Ahead(i)' = From(u, i) /\ Ahead(i) = From(t, i)
    BY <1>13 DEF Ahead, t
  <2>3. From(t, u) = m
    BY <1>11 DEF Ahead, t
  <2>. QED BY <2>1, <2>2, <2>3
<1>15. poll'.pc = "scan" /\ poll'.n = 0
  BY <1>1, <1>2 DEF PollType
<1>16. Taken' = H /\ Batch' = 0 /\ Swapped' = 0 /\ Full' = L - H /\ InHand' = InHand
  <2>1. InHand' = InHand /\ Batch' = 0 /\ Swapped' = 0
    BY <1>1, <1>15 DEF InHand, Batch, Swapped
  <2>2. Taken' = H
    BY <1>1, <1>4, <2>1 DEF Taken
  <2>3. Full' = L - Taken' + Batch'
    BY <1>1 DEF Full, L
  <2>. QED BY <1>4, <2>1, <2>2, <2>3
<1>17. Contents'
  BY <1>1, <1>2, <1>4, <1>16 DEF Contents
<1>18. Counts'
  <2>1. Ahead(rx.RDH)' = F - m
    <3>1. Ahead(rx.RDH)' = From(u, rx.RDH)
      BY <1>13 DEF Ahead
    <3>2. From(u, rx.RDH) = IF Ahead(rx.RDH) >= m THEN Ahead(rx.RDH) - m ELSE Ahead(rx.RDH) - m + N
      BY <1>2, <1>13, <1>14 DEF Ahead
    <3>. QED BY <1>5, <3>1, <3>2
  <2>2. Ahead(rx.RDT)' = N - 1
    <3>1. Ahead(rx.RDT)' = From(u, Last(run))
      BY <1>13 DEF Ahead
    <3>2. From(u, Last(run)) = IF m - 1 >= m THEN m - 1 - m ELSE m - 1 - m + N
      BY <1>10, <1>13, <1>14 DEF Ahead
    <3>. QED BY <1>3, <1>4, <3>1, <3>2
  <2>3. F - m >= 0 /\ 0 + (F - m) < N /\ 0 + (F - m) = F - m
    BY <1>3, <1>4, <1>5
  <2>. QED BY <1>1, <1>5, <1>16, <2>1, <2>2, <2>3 DEF Counts, N
<1>19. Stored'
  <2>0. \A i \in RxSlots : Waits(i)' <=> rx'.desc[i].dd
    BY <1>15 DEF Waits
  <2>. SUFFICES ASSUME NEW i \in RxSlots
                PROVE  /\ rx'.desc[i].dd <=> (0 <= Ahead(i)' /\ Ahead(i)' < 0 + (F - m))
                       /\ 0 + 0 <= Ahead(i)' /\ Ahead(i)' < 0 + (F - m) =>
                            got[H + Ahead(i)' - 0 - 0 + 1] = mem[rx.desc[i].buf]
    BY <1>1, <1>5, <1>13, <1>16, <2>0 DEF Stored
  <2>. DEFINE a == Ahead(i)
              b == Ahead(i)'
  <2>1. a \in 0 .. N - 1 /\ b = IF a >= m THEN a - m ELSE a - m + N
    BY <1>2, <1>14
  <2>2. /\ Ready(i) <=> (0 <= a /\ a < F)
        /\ m <= a /\ a < F => got[H + a - m + 1] = mem[rx.desc[i].buf]
    BY <1>6
  <2>3. rx'.desc[i].dd <=> Ready(i) /\ ~ (a < m)
    BY <1>12, <1>13
  <2>. HIDE DEF a, b
  <2>4. (0 <= b /\ b < 0 + (F - m)) <=> (m <= a /\ a < F)
    BY <1>3, <1>4, <1>5, <2>1
  <2>5. (0 <= a /\ a < F /\ ~ (a < m)) <=> (m <= a /\ a < F)
    BY <1>3, <1>4, <1>5, <2>1
  <2>6. m <= a => H + b - 0 - 0 + 1 = H + a - m + 1
    BY <1>3, <1>4, <1>5, <2>1
  <2>7. rx'.desc[i].dd <=> (0 <= b /\ b < 0 + (F - m))
    BY <2>2, <2>3, <2>4, <2>5
  <2>8. 0 + 0 <= b /\ b < 0 + (F - m) => got[H + b - 0 - 0 + 1] = mem[rx.desc[i].buf]
    BY <2>2, <2>4, <2>6
  <2>. QED BY <2>7, <2>8 DEF a, b
<1>20. Borrowed' /\ Pushing'
  <2>1. ToSet(queue') = {}
    BY <1>1, <1>3 DEF ToSet
  <2>. QED BY <1>1, <1>3, <1>15, <2>1 DEF Borrowed, Pushing, NULL
<1>. QED BY <1>17, <1>18, <1>19, <1>20

----------------------------------------------------------------------------
(* e1000_poll_packet: the oldest packet is lent from the slot that becomes *)
(* RDT, which the device does not write.                                   *)
LEMMA PollDelivers == ASSUME EInv, PageInv, DeliveryInv, e1000_poll_packet PROVE DeliveryInv'
<1>. DEFINE t == rx.rx_tail
            u == NextRx(t)
            p == rx.desc[t].buf
            H == Len(handled)
            L == Len(got)
            N == NUM_RX_DESC
            F == L - H
<1>1. /\ UNCHANGED <<mode, state, mem, poll, proc, got, handled, exhausted>> /\ mode = 1
      /\ state = "running" /\ turn = "poll" /\ turn' = "proc" /\ poll.pc = "scan" /\ Ready(t)
      /\ queue' = <<p>> /\ rx' = [rx EXCEPT !.desc[t].dd = FALSE, !.rx_tail = u, !.RDT = t]
  BY DEF e1000_poll_packet, Scanning, Runs, histVars
<1>. SUFFICES ASSUME ~ exhausted
              PROVE  Contents' /\ Counts' /\ Stored' /\ Borrowed' /\ Pushing'
  BY <1>1 DEF DeliveryInv
<1>2. /\ Contents /\ Counts /\ Stored /\ Borrowed /\ InHands
      /\ rx.desc \in RxDesc /\ RxType /\ t \in RxSlots /\ rx.RDH \in RxSlots
      /\ \A i \in RxSlots : Ahead(i) \in 0 .. N - 1 /\ rx.desc[i].buf \in Page
  BY <1>1, Running
<1>3. queue = <<>> /\ proc.pc = "idle" /\ proc.buf = NULL
  BY <1>1, <1>2 DEF Borrowed, InHands
<1>4. /\ L \in Nat /\ H \in Nat /\ N \in Nat /\ N > 1
      /\ Taken = H /\ Batch = 0 /\ Swapped = 0 /\ Full = F
  <2>1. L \in Nat /\ H \in Nat /\ N \in Nat /\ N > 1
    BY Numbers
  <2>2. InHand = 0 /\ Len(queue) = 0 /\ Batch = 0 /\ Swapped = 0
    BY <1>1, <1>3 DEF InHand, Batch, Swapped
  <2>. QED BY <2>1, <2>2 DEF Taken, Full
<1>5. \A i \in RxSlots : /\ Ready(i) <=> (0 <= Ahead(i) /\ Ahead(i) < F)
                         /\ Ready(i) => got[H + Ahead(i) + 1] = mem[rx.desc[i].buf]
  <2>1. ASSUME NEW i \in RxSlots
        PROVE  /\ Ready(i) <=> (0 <= Ahead(i) /\ Ahead(i) < F)
               /\ Ready(i) => got[H + Ahead(i) + 1] = mem[rx.desc[i].buf]
    <3>0. Waits(i) <=> Ready(i)
      BY <1>1 DEF Waits, Ready
    <3>1. /\ Waits(i) <=> (0 <= Ahead(i) /\ Ahead(i) < 0 + F)
          /\ 0 + 0 <= Ahead(i) /\ Ahead(i) < 0 + F =>
                got[H + Ahead(i) - 0 - 0 + 1] = mem[rx.desc[i].buf]
      BY <1>2, <1>4 DEF Stored
    <3>2. /\ 0 + F = F /\ H + Ahead(i) - 0 - 0 + 1 = H + Ahead(i) + 1 /\ 0 + 0 = 0
      BY <1>2, <1>4
    <3>. QED BY <3>0, <3>1, <3>2
  <2>. QED BY <2>1
<1>6. /\ F \in Int /\ F >= 1 /\ F < N /\ Ahead(rx.RDH) = F /\ Ahead(t) = 0 /\ got[H + 1] = mem[p]
  <2>1. Ahead(t) = 0
    BY <1>2, FromIs DEF Ahead
  <2>2. 0 + F < N /\ Ahead(rx.RDH) = 0 + F
    BY <1>2, <1>4 DEF Counts
  <2>3. 0 < F /\ got[H + 0 + 1] = mem[p]
    BY <1>1, <1>2, <1>5, <2>1
  <2>. QED BY <1>4, <2>1, <2>2, <2>3
<1>7. u \in RxSlots /\ Ahead(u) = 1
  <2>1. Ahead(t) < N - 1
    BY <1>4, <1>6
  <2>2. Ahead(u) = Ahead(t) + 1
    BY <1>2, <2>1, FromIs DEF Ahead
  <2>3. u \in RxSlots
    BY <1>2, Slots
  <2>4. Ahead(t) + 1 = 1
    BY <1>6
  <2>. QED BY <2>2, <2>3, <2>4
<1>8. p \in Page
  BY <1>2
<1>. HIDE DEF t, u, p, H, L, N, F
<1>9. /\ rx'.rx_tail = u /\ rx'.RDT = t /\ rx'.RDH = rx.RDH
      /\ \A i \in RxSlots : /\ rx'.desc[i].buf = rx.desc[i].buf
                            /\ rx'.desc[i].dd <=> Ready(i) /\ i # t
  <2>. DEFINE d == rx.desc
  <2>1. /\ rx'.rx_tail = u /\ rx'.RDT = t /\ rx'.RDH = rx.RDH
        /\ rx'.desc = [d EXCEPT ![t].dd = FALSE] /\ d \in RxDesc
    BY <1>1, <1>2 DEF RxType
  <2>. HIDE DEF d
  <2>2. \A i \in RxSlots : /\ [d EXCEPT ![t].dd = FALSE][i].buf = d[i].buf
                           /\ [d EXCEPT ![t].dd = FALSE][i].dd <=> d[i].dd /\ i # t
    BY <1>2, <2>1 DEF RxDesc
  <2>. QED BY <2>1, <2>2 DEF d, Ready
<1>10. \A i \in RxSlots : Ahead(i)' = IF Ahead(i) >= 1 THEN Ahead(i) - 1 ELSE Ahead(i) - 1 + N
  <2>1. ASSUME NEW i \in RxSlots
        PROVE  From(u, i) = IF From(t, i) >= From(t, u) THEN From(t, i) - From(t, u)
                            ELSE From(t, i) - From(t, u) + N
    BY <1>2, <1>7, FromShift DEF t, N
  <2>2. \A i \in RxSlots : Ahead(i)' = From(u, i) /\ Ahead(i) = From(t, i)
    BY <1>9 DEF Ahead, t
  <2>3. From(t, u) = 1
    BY <1>7 DEF Ahead, t
  <2>. QED BY <2>1, <2>2, <2>3
<1>11. Len(queue') = 1 /\ queue'[1] = p /\ queue' \in Seq(Page)
  BY <1>1, <1>8
<1>12. Taken' = H + 1 /\ Batch' = 0 /\ Swapped' = 0 /\ Full' = F - 1 /\ InHand' = 0
  <2>1. InHand' = 0 /\ Batch' = 0 /\ Swapped' = 0
    BY <1>1, <1>3 DEF InHand, Batch, Swapped
  <2>2. Taken' = H + 0 + 1
    BY <1>1, <1>11, <2>1 DEF Taken, H
  <2>3. Full' = L - Taken' + Batch'
    BY <1>1 DEF Full, L
  <2>. QED BY <1>4, <2>1, <2>2, <2>3 DEF F
<1>13. Contents'
  <2>1. \A k \in 1 .. H : got[k] = handled[k]
    BY <1>2 DEF Contents, H
  <2>2. \A k \in 1 .. 1 : got[H + 0 + k] = mem[queue'[k]]
    BY <1>4, <1>6, <1>11
  <2>3. H + 1 <= L
    BY <1>4, <1>6 DEF F
  <2>. QED BY <1>1, <1>3, <1>11, <1>12, <2>1, <2>2, <2>3 DEF Contents, H, L
<1>14. Counts'
  <2>1. \A i \in RxSlots : From(u, i) = IF Ahead(i) >= 1 THEN Ahead(i) - 1 ELSE Ahead(i) - 1 + N
    BY <1>9, <1>10 DEF Ahead
  <2>2. Ahead(rx.RDH)' = From(u, rx.RDH) /\ Ahead(rx.RDT)' = From(u, t)
    BY <1>9 DEF Ahead
  <2>3. From(u, rx.RDH) = F - 1 /\ From(u, t) = N - 1
    BY <1>2, <1>4, <1>6, <2>1
  <2>4. F - 1 >= 0 /\ 0 + (F - 1) < N /\ 0 + (F - 1) = F - 1
    BY <1>4, <1>6
  <2>. QED BY <1>1, <1>12, <2>2, <2>3, <2>4 DEF Counts, N
<1>15. Stored'
  <2>0. \A i \in RxSlots : Waits(i)' <=> Ready(i) /\ i # t
    BY <1>1, <1>9 DEF Waits
  <2>. SUFFICES ASSUME NEW i \in RxSlots
                PROVE  /\ Waits(i)' <=> (0 <= Ahead(i)' /\ Ahead(i)' < 0 + (F - 1))
                       /\ 0 + 0 <= Ahead(i)' /\ Ahead(i)' < 0 + (F - 1) =>
                            got[(H + 1) + Ahead(i)' - 0 - 0 + 1] = mem[rx.desc[i].buf]
    BY <1>1, <1>9, <1>12 DEF Stored
  <2>. DEFINE a == Ahead(i)
              b == Ahead(i)'
  <2>1. a \in 0 .. N - 1 /\ b = IF a >= 1 THEN a - 1 ELSE a - 1 + N
    BY <1>2, <1>10
  <2>2. /\ Ready(i) <=> (0 <= a /\ a < F)
        /\ Ready(i) => got[H + a + 1] = mem[rx.desc[i].buf]
    BY <1>5
  <2>3. i = t <=> a = 0
    <3>1. Ahead(i) = Ahead(t) => i = t
      BY <1>2, FromIs DEF Ahead, t
    <3>. QED BY <1>6, <3>1
  <2>4. Waits(i)' <=> Ready(i) /\ i # t
    BY <2>0
  <2>. HIDE DEF a, b
  <2>5. (0 <= b /\ b < 0 + (F - 1)) <=> (0 <= a /\ a < F /\ a # 0)
    BY <1>4, <1>6, <2>1
  <2>6. 0 <= b /\ b < 0 + (F - 1) => (H + 1) + b - 0 - 0 + 1 = H + a + 1
    BY <1>4, <1>6, <2>1
  <2>7. Waits(i)' <=> (0 <= b /\ b < 0 + (F - 1))
    BY <2>2, <2>3, <2>4, <2>5
  <2>8. 0 + 0 <= b /\ b < 0 + (F - 1) => got[(H + 1) + b - 0 - 0 + 1] = mem[rx.desc[i].buf]
    BY <2>2, <2>5, <2>6
  <2>. QED BY <2>7, <2>8 DEF a, b
<1>16. Borrowed' /\ Pushing'
  <2>1. ToSet(queue') \cup ({proc'.buf} \ {NULL}) = {p}
    <3>1. \A x : x \in ToSet(queue') <=> \E k \in 1 .. 1 : x = queue'[k]
      BY <1>11, InSet
    <3>. QED BY <1>1, <1>3, <1>11, <3>1
  <2>2. PICK i \in RxSlots : i = t
    BY <1>2
  <2>3. Lent(i)' /\ rx'.desc[i].buf = p
    <3>1. Ahead(i)' = N - 1
      BY <1>2, <1>4, <1>6, <1>10, <2>2
    <3>. QED BY <1>1, <1>9, <2>2, <3>1 DEF Lent, N, p
  <2>. QED BY <1>1, <2>1, <2>3 DEF Borrowed, Pushing, NULL
<1>. QED BY <1>13, <1>14, <1>15, <1>16

----------------------------------------------------------------------------
(* The scan's next slot is the one after those it has dealt with. *)
LEMMA NextAhead ==
  ASSUME EInv, PageInv, DeliveryInv, ~ exhausted, state = "running", mode \notin {1, 2},
         Ready(poll.i)
  PROVE  Ahead(NextRx(poll.i)) = poll.n + 1
<1>1. /\ Counts /\ Stored /\ poll.i \in RxSlots /\ rx.rx_tail \in RxSlots
      /\ Ahead(poll.i) \in 0 .. NUM_RX_DESC - 1
  BY Running
<1>2. /\ Swapped \in Nat /\ Full \in Int /\ NUM_RX_DESC \in Nat /\ poll.n \in Nat /\ Batch = 0
  BY Numbers, RingFacts DEF Batch
<1>3. Full >= 0 /\ Swapped + Full < NUM_RX_DESC /\ Ahead(poll.i) = poll.n
  BY <1>1, <1>2 DEF Counts
<1>4. poll.n < Swapped + Full
  <2>1. CASE poll.pc = "bind"
    <3>1. Swapped = poll.n + 1
      BY <2>1 DEF Swapped, Handing
    <3>. QED BY <1>2, <1>3, <3>1
  <2>2. CASE poll.pc # "bind"
    <3>1. Waits(poll.i)
      BY <2>2 DEF Waits, Ready
    <3>. QED BY <1>1, <1>3, <3>1 DEF Stored
  <2>. QED BY <2>1, <2>2
<1>5. Ahead(poll.i) < NUM_RX_DESC - 1
  BY <1>2, <1>3, <1>4
<1>. QED BY <1>1, <1>3, <1>5, FromIs DEF Ahead

LEMMA OnePast ==
  ASSUME NEW s \in Nat, NEW F \in Int, NEW a \in Nat, NEW T \in Nat
  PROVE  /\ (s + 1 <= a /\ a < (s + 1) + (F - 1)) <=> (s <= a /\ a < s + F /\ a # s)
         /\ (s + 1) + 0 = s + 1 /\ (T + 1) + a - (s + 1) - 0 + 1 = T + a - s + 1
<1>1. s + 1 <= a <=> s <= a /\ a # s
  OBVIOUS
<1>2. (s + 1) + (F - 1) = s + F
  OBVIOUS
<1>3. (s + 1) + 0 = s + 1 /\ (T + 1) + a - (s + 1) - 0 + 1 = T + a - s + 1
  OBVIOUS
<1>. QED BY <1>1, <1>2, <1>3

(* The packet of the slot in hand goes to the queue. *)
LEMMA QueueDelivers ==
  ASSUME EInv, PageInv, DeliveryInv, ~ exhausted, state = "running", mode \notin {1, 2},
         Ready(poll.i), poll.pc # "bind", queue' = Append(queue, rx.desc[poll.i].buf),
         UNCHANGED <<mode, state, mem, proc, turn, got, handled, exhausted>>,
         rx'.rx_tail = rx.rx_tail, rx'.RDH = rx.RDH, rx'.RDT = rx.RDT,
         \A i \in RxSlots : i # poll.i => rx'.desc[i] = rx.desc[i],
         \A i \in RxSlots : Waits(i)' <=> rx.desc[i].dd /\ i # poll.i,
         Swapped' = poll.n + 1, From(rx.rx_tail, poll'.i) = poll'.n, Pushing'
  PROVE  DeliveryInv'
<1>. DEFINE c == poll.i
            p == rx.desc[c].buf
            H == Len(handled)
            L == Len(got)
            Q == Len(queue)
            N == NUM_RX_DESC
            s == Swapped
            F == Full
            T == Taken
<1>. SUFFICES Contents' /\ Counts' /\ Stored' /\ Borrowed'
  BY DEF DeliveryInv
<1>2. /\ Contents /\ Counts /\ Stored
      /\ rx.desc \in RxDesc /\ RxType /\ PollType /\ c \in RxSlots /\ rx.rx_tail \in RxSlots
      /\ \A i \in RxSlots : Ahead(i) \in 0 .. N - 1 /\ rx.desc[i].buf \in Page
  BY Running
<1>3. /\ L \in Nat /\ H \in Nat /\ Q \in Nat /\ N \in Nat /\ N > 1 /\ queue \in Seq(Page)
      /\ T = H + InHand + Q /\ Batch = 0 /\ s = poll.n /\ F = L - T /\ InHand \in 0 .. 1
      /\ s \in Nat /\ T \in Nat /\ F \in Int
  <2>1. /\ L \in Nat /\ H \in Nat /\ Q \in Nat /\ N \in Nat /\ N > 1 /\ queue \in Seq(Page)
        /\ s \in Nat /\ T \in Nat /\ F \in Int /\ InHand \in 0 .. 1
    BY Numbers
  <2>2. T = H + InHand + Q
    BY DEF Taken
  <2>3. Batch = 0 /\ s = poll.n
    BY RingFacts DEF Batch, Swapped, Handing
  <2>4. F = L - T + 0
    BY <2>3 DEF Full
  <2>. QED BY <2>1, <2>2, <2>3, <2>4
<1>. HIDE DEF s, F, T
<1>4. /\ F >= 0 /\ s + F < N /\ Ahead(c) = s
      /\ Ahead(rx.RDH) = s + F /\ Ahead(rx.RDT) = N - 1
  BY <1>2, <1>3 DEF Counts, s, F
<1>5. \A i \in RxSlots : /\ rx.desc[i].dd <=> (s <= Ahead(i) /\ Ahead(i) < s + F)
                         /\ s <= Ahead(i) /\ Ahead(i) < s + F =>
                              got[T + Ahead(i) - s + 1] = mem[rx.desc[i].buf]
  <2>1. ASSUME NEW i \in RxSlots
        PROVE  /\ rx.desc[i].dd <=> (s <= Ahead(i) /\ Ahead(i) < s + F)
               /\ s <= Ahead(i) /\ Ahead(i) < s + F =>
                     got[T + Ahead(i) - s + 1] = mem[rx.desc[i].buf]
    <3>0. Waits(i) <=> rx.desc[i].dd
      BY DEF Waits
    <3>1. /\ Waits(i) <=> (s <= Ahead(i) /\ Ahead(i) < s + F)
          /\ s + 0 <= Ahead(i) /\ Ahead(i) < s + F =>
                got[T + Ahead(i) - s - 0 + 1] = mem[rx.desc[i].buf]
      BY <1>2, <1>3 DEF Stored, s, F, T
    <3>2. s + 0 = s /\ T + Ahead(i) - s - 0 + 1 = T + Ahead(i) - s + 1
      BY SMTT(60), <1>2, <1>3
    <3>. QED BY <3>0, <3>1, <3>2
  <2>. QED BY <2>1
<1>6. F >= 1 /\ got[T + 1] = mem[p] /\ p \in Page
  <2>1. s <= Ahead(c) /\ Ahead(c) < s + F
    BY <1>2, <1>5 DEF Ready
  <2>2. got[T + Ahead(c) - s + 1] = mem[p]
    BY <1>2, <1>5, <2>1
  <2>3. T + Ahead(c) - s + 1 = T + 1
    BY SMTT(60), <1>3, <1>4
  <2>4. F >= 1
    <3>1. s < s + F
      BY <1>4, <2>1
    <3>. QED BY <1>3, <3>1
  <2>. QED BY <1>2, <2>2, <2>3, <2>4
<1>. HIDE DEF p, H, L, Q
<1>9. Len(queue') = Q + 1 /\ queue'[Q + 1] = p /\ \A k \in 1 .. Q : queue'[k] = queue[k]
  BY <1>3, <1>6, Appends DEF Q, p
<1>10. /\ Taken' = T + 1 /\ Batch' = 0 /\ Swapped' = s + 1 /\ Full' = F - 1 /\ InHand' = InHand
  <2>1. InHand' = InHand /\ Batch' = 0 /\ Swapped' = s + 1
    BY <1>3 DEF InHand, Batch
  <2>2. Taken' = H + InHand + (Q + 1)
    BY <1>9, <2>1 DEF Taken, H
  <2>3. Full' = L - Taken' + Batch'
    BY DEF Full, L
  <2>. QED BY <1>3, <2>1, <2>2, <2>3
<1>12. \A i \in RxSlots : Ahead(i)' = Ahead(i)
  BY DEF Ahead
<1>13. Contents'
  <2>1. /\ \A k \in 1 .. H : got[k] = handled[k]
        /\ proc.pc = "handle" => got[H + 1] = mem[proc.buf]
        /\ \A k \in 1 .. Q : got[H + InHand + k] = mem[queue[k]]
    BY <1>2 DEF Contents, H, Q
  <2>2. \A k \in 1 .. Q + 1 : got[H + InHand + k] = mem[queue'[k]]
    <3>1. ASSUME NEW k \in 1 .. Q + 1 PROVE got[H + InHand + k] = mem[queue'[k]]
      <4>1. CASE k = Q + 1
        <5>1. H + InHand + k = T + 1
          BY <1>3, <4>1
        <5>. QED BY <1>6, <1>9, <4>1, <5>1
      <4>2. CASE k # Q + 1
        <5>1. k \in 1 .. Q
          BY <1>3, <4>2
        <5>. QED BY <1>9, <2>1, <5>1
      <4>. QED BY <4>1, <4>2
    <3>. QED BY <3>1
  <2>3. T + 1 <= L
    BY <1>3, <1>6
  <2>. QED BY <1>9, <1>10, <2>1, <2>2, <2>3 DEF Contents, H, L
<1>14. Counts'
  <2>1. /\ Ahead(rx.RDH)' = Ahead(rx.RDH) /\ Ahead(rx.RDT)' = Ahead(rx.RDT)
        /\ Ahead(poll.i)' = poll'.n
    BY DEF Ahead
  <2>2. F - 1 >= 0 /\ (s + 1) + (F - 1) < N /\ (s + 1) + (F - 1) = s + F
    <3>1. (s + 1) + (F - 1) = s + F
      BY <1>3
    <3>2. F - 1 >= 0
      BY <1>3, <1>6
    <3>. QED BY <1>4, <3>1, <3>2
  <2>. QED BY <1>4, <1>10, <2>1, <2>2 DEF Counts, N
<1>15. Stored'
  <2>. SUFFICES ASSUME NEW i \in RxSlots
                PROVE  /\ Waits(i)' <=> (s + 1 <= Ahead(i) /\ Ahead(i) < (s + 1) + (F - 1))
                       /\ (s + 1) + 0 <= Ahead(i) /\ Ahead(i) < (s + 1) + (F - 1) =>
                            got[(T + 1) + Ahead(i) - (s + 1) - 0 + 1] = mem[rx'.desc[i].buf]
    BY <1>10, <1>12 DEF Stored
  <2>. DEFINE a == Ahead(i)
  <2>1. a \in Nat /\ (a = s => i = c)
    <3>1. a \in Nat
      BY <1>2, <1>3
    <3>2. Ahead(i) = Ahead(c) => i = c
      BY <1>2, FromIs DEF Ahead
    <3>. QED BY <1>4, <3>1, <3>2
  <2>2. /\ rx.desc[i].dd <=> (s <= a /\ a < s + F)
        /\ s <= a /\ a < s + F => got[T + a - s + 1] = mem[rx.desc[i].buf]
    BY <1>5
  <2>3. i = c => a = s
    BY <1>4
  <2>. HIDE DEF a
  <2>4. /\ (s + 1 <= a /\ a < (s + 1) + (F - 1)) <=> (s <= a /\ a < s + F /\ a # s)
        /\ (s + 1) + 0 = s + 1 /\ (T + 1) + a - (s + 1) - 0 + 1 = T + a - s + 1
    <3>1. s \in Nat /\ F \in Int /\ T \in Nat /\ a \in Nat
      BY <1>3, <2>1
    <3>. QED BY ONLY <3>1, OnePast
  <2>5. CASE i = c
    <3>1. ~ Waits(i)' /\ a = s
      BY <2>3, <2>5
    <3>. QED BY <2>4, <3>1 DEF a
  <2>6. CASE i # c
    <3>1. rx'.desc[i] = rx.desc[i] /\ a # s /\ (Waits(i)' <=> rx.desc[i].dd)
      BY <2>1, <2>6
    <3>. QED BY <2>2, <2>4, <3>1 DEF a
  <2>. QED BY <2>5, <2>6
<1>16. Borrowed'
  BY DEF Borrowed
<1>. QED BY <1>13, <1>14, <1>15, <1>16

(* The slot that was in hand gets its new page. *)
LEMMA BindDelivers == ASSUME EInv, PageInv, DeliveryInv, BindBuffer PROVE DeliveryInv'
<1>. DEFINE c == poll.i
            new == poll.new
<1>1. /\ UNCHANGED <<mode, state, mem, queue, proc, turn, got, handled, exhausted>>
      /\ state = "running" /\ mode \notin {1, 2} /\ poll.pc = "bind"
      /\ rx' = [rx EXCEPT !.desc[c] = [buf |-> new, dd |-> FALSE]]
      /\ poll' = [poll EXCEPT !.pc = "scan", !.i = NextRx(@), !.n = @ + 1, !.new = NULL]
  BY DEF BindBuffer, Bind, Runs, Pipelined, histVars
<1>. SUFFICES ASSUME ~ exhausted
              PROVE  Contents' /\ Counts' /\ Stored' /\ Borrowed' /\ Pushing'
  BY <1>1 DEF DeliveryInv
<1>2. /\ Contents /\ Counts /\ Stored /\ Pushing
      /\ rx.desc \in RxDesc /\ RxType /\ PollType /\ c \in RxSlots
  BY <1>1, Running
<1>3. /\ poll'.pc = "scan" /\ poll'.i = NextRx(c) /\ poll'.n = poll.n + 1 /\ poll.n \in Nat
  BY <1>1, <1>2, RingFacts DEF PollType
<1>4. /\ InHand' = InHand /\ Taken' = Taken /\ Batch' = 0 /\ Batch = 0 /\ Swapped' = Swapped
      /\ Full' = Full
  <2>1. InHand' = InHand /\ Batch' = 0 /\ Batch = 0
    BY <1>1, <1>3 DEF InHand, Batch
  <2>2. Swapped' = poll.n + 1 + 0 /\ Swapped = poll.n + 1
    BY <1>1, <1>3 DEF Swapped, Handing
  <2>3. Taken' = Taken
    BY <1>1, <2>1 DEF Taken
  <2>. QED BY <1>1, <1>3, <2>1, <2>2, <2>3 DEF Full
<1>5. /\ rx'.rx_tail = rx.rx_tail /\ rx'.RDH = rx.RDH /\ rx'.RDT = rx.RDT
      /\ \A i \in RxSlots : rx'.desc[i] = IF i = c THEN [buf |-> new, dd |-> FALSE] ELSE rx.desc[i]
  <2>1. /\ rx'.rx_tail = rx.rx_tail /\ rx'.RDH = rx.RDH /\ rx'.RDT = rx.RDT
        /\ rx'.desc = [rx.desc EXCEPT ![c] = [buf |-> new, dd |-> FALSE]]
    BY <1>1, <1>2 DEF RxType
  <2>2. DOMAIN rx.desc = RxSlots
    BY <1>2 DEF RxDesc
  <2>. QED BY <2>1, <2>2
<1>6. \A i \in RxSlots : Ahead(i)' = Ahead(i) /\ (Waits(i)' <=> Waits(i)) /\ (Waits(i) => i # c)
  BY <1>1, <1>3, <1>5 DEF Ahead, Waits
<1>7. Contents'
  BY <1>1, <1>2, <1>4 DEF Contents
<1>8. Counts'
  <2>1. Ready(c)
    BY <1>1, <1>2 DEF Pushing
  <2>2. Ahead(NextRx(c)) = poll.n + 1
    BY <1>1, <2>1, NextAhead
  <2>3. /\ Ahead(rx.RDH)' = Ahead(rx.RDH) /\ Ahead(rx.RDT)' = Ahead(rx.RDT)
        /\ Ahead(poll.i)' = Ahead(NextRx(c))
    BY <1>3, <1>5 DEF Ahead
  <2>. QED BY <1>1, <1>2, <1>3, <1>4, <2>2, <2>3 DEF Counts
<1>9. Stored'
  <2>. SUFFICES ASSUME NEW i \in RxSlots
                PROVE  /\ Waits(i)' <=> (Swapped <= Ahead(i) /\ Ahead(i) < Swapped + Full)
                       /\ Swapped + 0 <= Ahead(i) /\ Ahead(i) < Swapped + Full =>
                            got[Taken + Ahead(i) - Swapped - 0 + 1] = mem[rx'.desc[i].buf]
    BY <1>1, <1>4, <1>6 DEF Stored
  <2>1. /\ Waits(i) <=> (Swapped <= Ahead(i) /\ Ahead(i) < Swapped + Full)
        /\ Swapped + 0 <= Ahead(i) /\ Ahead(i) < Swapped + Full =>
              got[Taken + Ahead(i) - Swapped - 0 + 1] = mem[rx.desc[i].buf]
    BY <1>2, <1>4 DEF Stored
  <2>2. Swapped + 0 = Swapped
    BY Numbers
  <2>3. Waits(i) => rx'.desc[i].buf = rx.desc[i].buf
    BY <1>5, <1>6
  <2>. QED BY <1>6, <2>1, <2>2, <2>3
<1>10. Borrowed' /\ Pushing'
  BY <1>1, <1>3 DEF Borrowed, Pushing
<1>. QED BY <1>7, <1>8, <1>9, <1>10

(* ScanEnd publishes the new tail: the ring moves past what was swapped. *)
LEMMA PublishDelivers ==
  ASSUME EInv, PageInv, DeliveryInv, ScanEnd
  PROVE  DeliveryInv'
<1>. DEFINE t == rx.rx_tail
            c == poll.i
            n == poll.n
            N == NUM_RX_DESC
            F == Full
            T == Taken
<1>1. /\ UNCHANGED <<mode, state, mem, queue, proc, got, handled, exhausted>> /\ mode \in {3, 4, 5}
      /\ state = "running" /\ rx' = Published
      /\ poll' = [poll EXCEPT !.pc = "scan", !.i = Published.rx_tail, !.n = 0]
  BY DEF ScanEnd, Runs, histVars
<1>00. poll.pc # "bind"
  BY DEF ScanEnd
<1>. SUFFICES ASSUME ~ exhausted
              PROVE  Contents' /\ Counts' /\ Stored' /\ Borrowed' /\ Pushing'
  BY <1>1 DEF DeliveryInv
<1>2. /\ Contents /\ Counts /\ Stored
      /\ rx.desc \in RxDesc /\ RxType /\ PollType /\ c \in RxSlots /\ t \in RxSlots
      /\ \A i \in RxSlots : Ahead(i) \in 0 .. N - 1
      /\ rx.RDH \in RxSlots /\ rx.RDT \in RxSlots
  BY <1>1, Running
<1>3. /\ N \in Nat /\ N > 1 /\ Batch = 0 /\ Swapped = n /\ n \in Nat /\ T \in Nat /\ F \in Int
      /\ F = Len(got) - T + 0
  <2>1. N \in Nat /\ N > 1 /\ Swapped \in Nat /\ T \in Nat /\ F \in Int
    BY Numbers
  <2>2. Batch = 0 /\ Swapped = n
    BY <1>1, <1>00, RingFacts DEF Batch, Swapped, Handing
  <2>. QED BY <2>1, <2>2 DEF Full
<1>. HIDE DEF F, T
<1>4. /\ F >= 0 /\ n + F < N /\ Ahead(c) = n
      /\ Ahead(rx.RDH) = n + F /\ Ahead(rx.RDT) = N - 1
  BY SMTT(60), <1>1, <1>2, <1>3 DEF Counts, F
<1>5. /\ rx'.rx_tail = c /\ rx'.RDH = rx.RDH /\ rx'.desc = rx.desc /\ poll'.pc = "scan" /\ poll'.i = c
      /\ poll'.n = 0 /\ rx'.RDT \in RxSlots /\ From(c, rx'.RDT) = N - 1
  <2>1. CASE n = 0
    <3>1. Ahead(t) = 0
      BY <1>2, FromIs DEF Ahead
    <3>2. c = t
      BY <1>2, <1>4, <2>1, <3>1, FromIs DEF Ahead
    <3>3. Published = rx
      BY <2>1 DEF Published
    <3>. QED BY <1>1, <1>2, <1>4, <3>2, <3>3 DEF PollType, Ahead
  <2>2. CASE n # 0
    <3>. DEFINE e == (c + NUM_RX_DESC - 1) % NUM_RX_DESC
    <3>1. Published = [rx EXCEPT !.rx_tail = c, !.RDT = e]
      BY <2>2 DEF Published
    <3>2. e = (c + (N - 1)) % N /\ N - 1 \in 0 .. N - 1
      <4>1. c \in Nat
        BY <1>2, Slots
      <4>2. c + N - 1 = c + (N - 1) /\ N - 1 \in 0 .. N - 1
        BY <1>3, <4>1
      <4>. QED BY <4>2
    <3>3. e \in RxSlots /\ From(c, e) = N - 1
      BY <1>2, <3>2, FromStart
    <3>. HIDE DEF e
    <3>4. Published.rx_tail = c /\ Published.RDT = e /\ Published.RDH = rx.RDH
          /\ Published.desc = rx.desc
      BY <1>2, <3>1 DEF RxType
    <3>. QED BY <1>1, <1>2, <3>3, <3>4 DEF PollType
  <2>. QED BY <2>1, <2>2
<1>6. InHand' = InHand /\ Taken' = T /\ Batch' = 0 /\ Swapped' = 0 /\ Full' = F
  <2>1. InHand' = InHand /\ Batch' = 0 /\ Swapped' = 0
    BY <1>1, <1>5 DEF InHand, Batch, Swapped, Handing
  <2>2. Taken' = T
    BY <1>1, <2>1 DEF Taken, T
  <2>3. Full' = Len(got) - T + 0
    BY <1>1, <2>1, <2>2 DEF Full
  <2>. QED BY <1>3, <2>1, <2>2, <2>3
<1>. HIDE DEF t, c, n, N
<1>7. \A i \in RxSlots : Ahead(i)' = IF Ahead(i) >= n THEN Ahead(i) - n ELSE Ahead(i) - n + N
  <2>1. ASSUME NEW i \in RxSlots
        PROVE  From(c, i) = IF From(t, i) >= From(t, c) THEN From(t, i) - From(t, c)
                            ELSE From(t, i) - From(t, c) + N
    BY <1>2, FromShift DEF N
  <2>2. \A i \in RxSlots : Ahead(i)' = From(c, i) /\ Ahead(i) = From(t, i)
    BY <1>5 DEF Ahead, t
  <2>3. From(t, c) = n
    BY <1>4 DEF Ahead, t
  <2>. QED BY <2>1, <2>2, <2>3
<1>8. Contents'
  BY <1>1, <1>2, <1>6 DEF Contents, T
<1>9. Counts'
  <2>1. Ahead(rx.RDH)' = From(c, rx.RDH) /\ Ahead(rx.RDT)' = From(c, rx'.RDT)
        /\ Ahead(poll.i)' = From(c, c)
    BY <1>5 DEF Ahead
  <2>2. From(c, c) = 0
    BY <1>2, FromIs
  <2>3. From(c, rx.RDH) = IF Ahead(rx.RDH) >= n THEN Ahead(rx.RDH) - n ELSE Ahead(rx.RDH) - n + N
    <3>1. \A i \in RxSlots : Ahead(i)' = From(c, i)
      BY <1>5 DEF Ahead
    <3>2. \A i \in RxSlots : From(c, i) = IF Ahead(i) >= n THEN Ahead(i) - n ELSE Ahead(i) - n + N
      BY <1>7, <3>1
    <3>. QED BY <1>2, <3>2
  <2>4. From(c, rx.RDH) = F
    <3>1. Ahead(rx.RDH) = n + F /\ Ahead(rx.RDH) >= n /\ Ahead(rx.RDH) - n = F
      BY <1>3, <1>4
    <3>. QED BY <2>3, <3>1
  <2>5. F >= 0 /\ 0 + F < N /\ 0 + F = F
    BY <1>3, <1>4
  <2>. QED BY <1>5, <1>6, <2>1, <2>2, <2>4, <2>5 DEF Counts, N
<1>10. Stored'
  <2>0. \A i \in RxSlots : (Waits(i)' <=> rx.desc[i].dd) /\ (Waits(i) <=> rx.desc[i].dd)
    BY <1>00, <1>5 DEF Waits
  <2>. SUFFICES ASSUME NEW i \in RxSlots
                PROVE  /\ rx.desc[i].dd <=> (0 <= Ahead(i)' /\ Ahead(i)' < 0 + F)
                       /\ 0 + 0 <= Ahead(i)' /\ Ahead(i)' < 0 + F =>
                            got[T + Ahead(i)' - 0 - 0 + 1] = mem[rx.desc[i].buf]
    BY <1>1, <1>5, <1>6, <2>0 DEF Stored
  <2>. DEFINE a == Ahead(i)
              b == Ahead(i)'
  <2>1. a \in 0 .. N - 1 /\ b = IF a >= n THEN a - n ELSE a - n + N
    BY <1>2, <1>7
  <2>2. /\ rx.desc[i].dd <=> (n <= a /\ a < n + F)
        /\ n + 0 <= a /\ a < n + F => got[T + a - n - 0 + 1] = mem[rx.desc[i].buf]
    BY <1>2, <1>3, <2>0 DEF Stored, F, T
  <2>. HIDE DEF a, b
  <2>3. (0 <= b /\ b < 0 + F) <=> (n <= a /\ a < n + F)
    BY <1>3, <1>4, <2>1
  <2>4. n <= a => T + b - 0 - 0 + 1 = T + a - n - 0 + 1 /\ n + 0 <= a
    BY <1>3, <1>4, <2>1
  <2>5. 0 + 0 = 0
    OBVIOUS
  <2>6. rx.desc[i].dd <=> (0 <= b /\ b < 0 + F)
    BY <2>2, <2>3
  <2>7. 0 + 0 <= b /\ b < 0 + F => got[T + b - 0 - 0 + 1] = mem[rx.desc[i].buf]
    BY <2>2, <2>3, <2>4, <2>5
  <2>. QED BY <2>6, <2>7 DEF a, b
<1>11. Borrowed' /\ Pushing'
  BY <1>1, <1>5 DEF Borrowed, Pushing
<1>. QED BY <1>8, <1>9, <1>10, <1>11

----------------------------------------------------------------------------
(* rx_queue_pop: the oldest packet in the queue is taken in hand. *)
LEMMA PopDelivers == ASSUME EInv, PageInv, DeliveryInv, rx_queue_pop PROVE DeliveryInv'
<1>. DEFINE H == Len(handled)
            Q == Len(queue)
<1>1. /\ UNCHANGED <<mode, state, rx, mem, poll, turn, got, handled, exhausted>>
      /\ state = "running" /\ (mode = 5 \/ turn = "proc")
      /\ proc.pc = "idle" /\ queue # <<>> /\ queue' = Tail(queue)
      /\ proc' = [proc EXCEPT !.pc = "handle", !.buf = Head(queue)]
  BY DEF rx_queue_pop, Runs, ringVars, histVars
<1>2. state = "running"
  BY DEF rx_queue_pop, Runs
<1>. SUFFICES ASSUME ~ exhausted
              PROVE  Contents' /\ Counts' /\ Stored' /\ Borrowed' /\ Pushing'
  BY <1>1, <1>2 DEF DeliveryInv
<1>3. Contents /\ Counts /\ Stored /\ Borrowed /\ Pushing /\ ProcType
  BY <1>2, Running
<1>4. proc'.pc = "handle" /\ proc'.buf = Head(queue)
  BY <1>1, <1>3 DEF ProcType
<1>5. /\ Len(queue') = Q - 1 /\ Q \in Nat /\ Q > 0 /\ Head(queue) = queue[1] /\ H \in Nat
      /\ \A k \in 1 .. Q - 1 : queue'[k] = queue[k + 1]
      /\ queue \in Seq(Page) /\ queue' \in Seq(Page)
  <2>1. queue \in Seq(Page) /\ H \in Nat
    BY Numbers
  <2>. QED BY <1>1, <2>1, Heads
<1>. HIDE DEF H, Q
<1>6. InHand' = 1 /\ InHand = 0
  BY <1>1, <1>4 DEF InHand
<1>7. Taken' = Taken
  <2>1. Taken' = H + 1 + (Q - 1) /\ Taken = H + 0 + Q
    BY <1>1, <1>5, <1>6 DEF Taken, H, Q
  <2>. QED BY <1>5, <2>1
<1>8. Swapped' = Swapped /\ Batch' = Batch /\ Full' = Full
  BY <1>1, <1>7 DEF Swapped, Handing, Batch, Full
<1>9. Contents'
  <2>1. /\ Taken <= Len(got) /\ \A k \in 1 .. H : got[k] = handled[k]
        /\ \A k \in 1 .. Q : got[H + 0 + k] = mem[queue[k]]
    BY <1>3, <1>6 DEF Contents, H, Q
  <2>2. got[H + 1] = mem[queue[1]]
    <3>1. 1 \in 1 .. Q /\ H + 0 + 1 = H + 1
      BY <1>5
    <3>. QED BY <2>1, <3>1
  <2>3. \A k \in 1 .. Q - 1 : got[H + 1 + k] = mem[queue'[k]]
    <3>1. ASSUME NEW k \in 1 .. Q - 1 PROVE got[H + 1 + k] = mem[queue'[k]]
      <4>1. k + 1 \in 1 .. Q /\ H + 0 + (k + 1) = H + 1 + k
        BY <1>5
      <4>. QED BY <1>5, <2>1, <4>1
    <3>. QED BY <3>1
  <2>. QED BY <1>1, <1>4, <1>5, <1>6, <1>7, <2>1, <2>2, <2>3 DEF Contents, H
<1>10. Counts' /\ Stored' /\ Pushing'
  BY <1>1, <1>3, <1>7, <1>8 DEF Counts, Stored, Waits, Ahead, Pushing, Ready
<1>11. Borrowed'
  <2>1. ToSet(queue') \cup ({proc'.buf} \ {NULL}) \subseteq ToSet(queue)
    <3>1. /\ \A x : x \in ToSet(queue) <=> \E k \in 1 .. Q : x = queue[k]
          /\ \A x : x \in ToSet(queue') <=> \E k \in 1 .. Q - 1 : x = queue'[k]
      BY <1>5, InSet DEF Q
    <3>2. queue[1] \in ToSet(queue)
      BY <1>5, <3>1
    <3>3. ASSUME NEW x \in ToSet(queue') PROVE x \in ToSet(queue)
      <4>1. PICK k \in 1 .. Q - 1 : x = queue'[k]
        BY <3>1
      <4>2. k + 1 \in 1 .. Q /\ x = queue[k + 1]
        BY <1>5, <4>1
      <4>. QED BY <3>1, <4>2
    <3>. QED BY <1>4, <1>5, <3>2, <3>3
  <2>. SUFFICES ASSUME mode \in {1, 2} PROVE Borrowed'
    BY <1>1 DEF Borrowed
  <2>2. /\ turn = "proc" /\ (mode = 2 => poll.pc = "release") /\ poll.pc \in {"scan", "release"}
        /\ \A b \in ToSet(queue) : \E i \in RxSlots : Lent(i) /\ rx.desc[i].buf = b
    BY <1>1, <1>3 DEF Borrowed
  <2>3. \A i \in RxSlots : Lent(i)' <=> Lent(i)
    BY <1>1, <1>8 DEF Lent, Ahead
  <2>4. \A b \in ToSet(queue') \cup ({proc'.buf} \ {NULL}) :
           \E i \in RxSlots : Lent(i)' /\ rx'.desc[i].buf = b
    BY <1>1, <2>1, <2>2, <2>3
  <2>. QED BY <1>1, <2>2, <2>4 DEF Borrowed, NULL
<1>. QED BY <1>9, <1>10, <1>11

(* e1000_handle_packet: what is handled is what the page in hand holds. *)
LEMMA HandleDelivers == ASSUME EInv, PageInv, DeliveryInv, e1000_handle_packet PROVE DeliveryInv'
<1>. DEFINE H == Len(handled)
            Q == Len(queue)
            n == mem[proc.buf]
<1>1. /\ UNCHANGED <<mode, state, rx, mem, queue, poll, turn, got, exhausted>>
      /\ state = "running" /\ (mode = 5 \/ turn = "proc")
      /\ proc.pc = "handle" /\ handled' = Append(handled, n)
      /\ proc' = [proc EXCEPT !.pc = IF Answered(Traffic[n]) THEN "send" ELSE "release", !.pkt = n]
  BY DEF e1000_handle_packet, Runs, ringVars
<1>. SUFFICES ASSUME ~ exhausted
              PROVE  Contents' /\ Counts' /\ Stored' /\ Borrowed' /\ Pushing'
  BY <1>1 DEF DeliveryInv
<1>2. Contents /\ Counts /\ Stored /\ Borrowed /\ Pushing /\ ProcType
  BY <1>1, Running
<1>3. proc'.pc \in {"send", "release"} /\ proc'.buf = proc.buf
  BY <1>1, <1>2 DEF ProcType
<1>4. n \in Nat /\ handled \in Seq(Nat) /\ H \in Nat /\ Q \in Nat
  BY Numbers, RingFacts DEF EInv, Types, MemType
<1>. HIDE DEF n
<1>5. Len(handled') = H + 1 /\ handled'[H + 1] = n /\ \A k \in 1 .. H : handled'[k] = handled[k]
  BY <1>1, <1>4, Appends
<1>. HIDE DEF H, Q
<1>6. InHand' = 0 /\ InHand = 1
  BY <1>1, <1>3 DEF InHand
<1>7. Taken' = Taken
  <2>1. Taken' = (H + 1) + 0 + Q /\ Taken = H + 1 + Q
    BY <1>1, <1>5, <1>6 DEF Taken, H, Q
  <2>. QED BY <1>4, <2>1
<1>8. Swapped' = Swapped /\ Batch' = Batch /\ Full' = Full
  BY <1>1, <1>7 DEF Swapped, Handing, Batch, Full
<1>9. Contents'
  <2>1. /\ Taken <= Len(got) /\ \A k \in 1 .. H : got[k] = handled[k]
        /\ got[H + 1] = n
        /\ \A k \in 1 .. Q : got[H + 1 + k] = mem[queue[k]]
    BY <1>1, <1>2, <1>6 DEF Contents, H, Q, n
  <2>2. \A k \in 1 .. H + 1 : got[k] = handled'[k]
    <3>1. ASSUME NEW k \in 1 .. H + 1 PROVE got[k] = handled'[k]
      <4>1. CASE k = H + 1
        BY <1>5, <2>1, <4>1
      <4>2. CASE k # H + 1
        <5>1. k \in 1 .. H
          BY <1>4, <4>2
        <5>. QED BY <1>5, <2>1, <5>1
      <4>. QED BY <4>1, <4>2
    <3>. QED BY <3>1
  <2>3. \A k \in 1 .. Q : got[(H + 1) + 0 + k] = mem[queue[k]]
    <3>1. ASSUME NEW k \in 1 .. Q PROVE got[(H + 1) + 0 + k] = mem[queue[k]]
      <4>1. (H + 1) + 0 + k = H + 1 + k
        BY <1>4
      <4>. QED BY <2>1, <4>1
    <3>. QED BY <3>1
  <2>. QED BY <1>1, <1>3, <1>5, <1>6, <1>7, <2>1, <2>2, <2>3 DEF Contents, Q
<1>10. Counts' /\ Stored' /\ Pushing'
  BY <1>1, <1>2, <1>7, <1>8 DEF Counts, Stored, Waits, Ahead, Pushing, Ready
<1>11. Borrowed'
  BY <1>1, <1>2, <1>3, <1>8 DEF Borrowed, Lent, Ahead, NULL
<1>. QED BY <1>9, <1>10, <1>11

(* DeliveryInv is inductive, given the types and the ownership of pages. *)
LEMMA DeliveryStep == ASSUME EInv, PageInv, DeliveryInv, [Next]_vars PROVE DeliveryInv'
<1>1. CASE e1000_init_rx
  BY <1>1, InitRxDelivers
<1>2. CASE e1000_init_tx
  <2>1. /\ UNCHANGED <<mode, mem, queue, poll, proc, turn, got, handled, exhausted>>
        /\ state = "rx_ready"
    BY <1>2 DEF e1000_init_tx, histVars
  <2>2. CASE state' = "failed"
    <3>1. Contents' <=> Contents
      BY <2>1 DEF Contents, Taken, InHand
    <3>. QED BY <2>1, <2>2, <3>1 DEF DeliveryInv, RingUp
  <2>3. CASE state' # "failed"
    <3>1. rx' = rx /\ state' = "loaded"
      BY <1>2, <2>3 DEF e1000_init_tx, e1000_free_rx
    <3>2. RingUp
      BY <2>1 DEF RingUp
    <3>3. poll.pc \notin {"alloc", "push", "bind"}
      BY <2>1 DEF EInv, Loaded, Idle
    <3>. QED BY <2>1, <3>1, <3>2, <3>3, DeliveryKept
  <2>. QED BY <2>2, <2>3
<1>3. CASE StartLoop
  <2>1. /\ UNCHANGED <<mode, rx, mem, queue, poll, proc, turn, got, handled, exhausted>>
        /\ state = "loaded" /\ state' = "running"
    BY <1>3 DEF StartLoop, histVars
  <2>2. RingUp
    BY <2>1 DEF RingUp
  <2>3. poll.pc \notin {"alloc", "push", "bind"}
    BY <2>1 DEF EInv, Loaded, Idle
  <2>. QED BY <2>1, <2>2, <2>3, DeliveryKept
<1>pushing. ASSUME ~ exhausted, poll.pc \in {"alloc", "push", "bind"}
            PROVE  mode \notin {1, 2} /\ Ready(poll.i)
  <2>1. state = "running"
    BY <1>pushing DEF EInv, Loaded, Idle
  <2>. QED BY <1>pushing, <2>1 DEF DeliveryInv, RingUp, Pushing
<1>still. ASSUME UNCHANGED <<mode, state, rx, mem, queue, poll, turn, got, handled, exhausted>>,
                 proc'.buf \in {proc.buf, NULL}, proc'.pc = "handle" <=> proc.pc = "handle",
                 proc'.pc = "handle" => proc'.buf = proc.buf, proc.pc = "idle" => proc'.pc = "idle"
          PROVE  DeliveryInv'
  <2>1. (RingUp' => RingUp) /\ (state' # "probe" \/ state' = state)
        /\ (exhausted' \/ exhausted' = exhausted)
    BY <1>still DEF RingUp
  <2>2. UNCHANGED <<poll.i, poll.n>> /\ poll'.pc = poll.pc
    BY <1>still
  <2>3. ~ exhausted' /\ poll'.pc \in {"alloc", "push", "bind"} => mode \notin {1, 2} /\ Ready(poll.i)
    BY <1>still, <1>pushing
  <2>. QED BY <1>still, <2>1, <2>2, <2>3, DeliveryKept
<1>4. CASE ReceiveDma
  BY <1>4, DmaDelivers
<1>5. CASE TransmitFetch \/ TransmitDone
  <2>1. UNCHANGED <<mode, state, rx, mem, queue, poll, proc, turn, got, handled, exhausted>>
    BY <1>5 DEF TransmitFetch, TransmitDone, histVars
  <2>. QED BY <2>1, <1>still
<1>6. CASE e1000_poll_packet
  BY <1>6, PollDelivers
<1>7. CASE e1000_poll_packet_batch
  BY <1>7, BatchDelivers
<1>8. CASE e1000_rx_batch_release
  BY <1>8, ReleaseDelivers
<1>9. CASE SwapBuffer
  <2>1. /\ state = "running" /\ mode \notin {1, 2} /\ Ready(poll.i) /\ poll.pc = "scan"
        /\ queue' = Append(queue, rx.desc[poll.i].buf)
        /\ rx' = [rx EXCEPT !.desc[poll.i] = [buf |-> Min(pmm), dd |-> FALSE]]
        /\ poll' = [poll EXCEPT !.pc = "scan", !.i = NextRx(@), !.n = @ + 1, !.new = NULL]
        /\ UNCHANGED <<mode, state, mem, proc, turn, got, handled, exhausted>>
    BY <1>9 DEF SwapBuffer, Bind, Scanning, Runs, histVars
  <2>2. CASE exhausted
    BY <2>1, <2>2 DEF DeliveryInv
  <2>3. CASE ~ exhausted
    <3>1. rx.desc \in RxDesc /\ RxType /\ PollType /\ poll.i \in RxSlots
      BY <2>1, <2>3, Running
    <3>2. /\ rx'.rx_tail = rx.rx_tail /\ rx'.RDH = rx.RDH /\ rx'.RDT = rx.RDT
          /\ \A i \in RxSlots : rx'.desc[i] = IF i = poll.i THEN [buf |-> Min(pmm), dd |-> FALSE]
                                               ELSE rx.desc[i]
      <4>1. /\ rx'.rx_tail = rx.rx_tail /\ rx'.RDH = rx.RDH /\ rx'.RDT = rx.RDT
            /\ rx'.desc = [rx.desc EXCEPT ![poll.i] = [buf |-> Min(pmm), dd |-> FALSE]]
        BY <2>1, <3>1 DEF RxType
      <4>2. DOMAIN rx.desc = RxSlots
        BY <3>1 DEF RxDesc
      <4>. QED BY <4>1, <4>2
    <3>3. poll'.pc = "scan" /\ poll'.i = NextRx(poll.i) /\ poll'.n = poll.n + 1 /\ poll.n \in Nat
      BY <2>1, <3>1, RingFacts DEF PollType
    <3>4. \A i \in RxSlots : Waits(i)' <=> rx.desc[i].dd /\ i # poll.i
      BY <3>2, <3>3 DEF Waits
    <3>5. Swapped' = poll.n + 1 /\ Pushing'
      BY <2>1, <3>3 DEF Swapped, Handing, Pushing
    <3>6. From(rx.rx_tail, poll'.i) = poll'.n
      BY <2>1, <2>3, <3>3, NextAhead DEF Ahead
    <3>7. \A i \in RxSlots : i # poll.i => rx'.desc[i] = rx.desc[i]
      BY <3>2
    <3>. QED BY <2>1, <2>3, <3>2, <3>4, <3>5, <3>6, <3>7, QueueDelivers
  <2>. QED BY <2>2, <2>3
<1>10. CASE rx_free_pool_get
  <2>1. /\ UNCHANGED <<mode, state, rx, mem, queue, proc, turn, got, handled, exhausted>>
        /\ mode \notin {1, 2} /\ Ready(poll.i) /\ poll.pc = "scan"
    BY <1>10 DEF rx_free_pool_get, ringVars, histVars, Pipelined, Scanning
  <2>2. UNCHANGED <<poll.i, poll.n>> /\ poll'.pc \in {"alloc", "push"}
    BY <1>10 DEF rx_free_pool_get, EInv, Types, PollType
  <2>3. RingUp' => RingUp
    BY <2>1 DEF RingUp
  <2>. QED BY <2>1, <2>2, <2>3, DeliveryKept
<1>20. CASE PoolFallback
  <2>1. /\ UNCHANGED <<mode, state, rx, mem, queue, proc, turn, got, handled>>
        /\ mode \notin {1, 2} /\ poll.pc = "alloc" /\ (exhausted' \/ exhausted' = exhausted)
    BY <1>20 DEF PoolFallback, ringVars, Pipelined
  <2>2. UNCHANGED <<poll.i, poll.n>> /\ poll'.pc = "push"
    BY <1>20 DEF PoolFallback, EInv, Types, PollType
  <2>3. RingUp' => RingUp
    BY <2>1 DEF RingUp
  <2>4. ~ exhausted' => Ready(poll.i)
    BY <1>pushing, <2>1
  <2>. QED BY <2>1, <2>2, <2>3, <2>4, DeliveryKept
<1>11. CASE rx_queue_push
  <2>1. /\ state = "running" /\ mode \notin {1, 2} /\ poll.pc = "push"
        /\ queue' = Append(queue, rx.desc[poll.i].buf) /\ poll' = [poll EXCEPT !.pc = "bind"]
        /\ UNCHANGED <<mode, state, rx, mem, proc, turn, got, handled, exhausted>>
    BY <1>11 DEF rx_queue_push, Runs, ringVars, histVars, Pipelined
  <2>2. CASE exhausted
    BY <2>1, <2>2 DEF DeliveryInv
  <2>3. CASE ~ exhausted
    <3>1. PollType /\ Ready(poll.i) /\ Counts
      BY <1>pushing, <2>1, <2>3, Running
    <3>2. poll'.pc = "bind" /\ poll'.i = poll.i /\ poll'.n = poll.n
      BY <2>1, <3>1 DEF PollType
    <3>3. \A i \in RxSlots : Waits(i)' <=> rx.desc[i].dd /\ i # poll.i
      BY <2>1, <3>2 DEF Waits
    <3>4. Swapped' = poll.n + 1 /\ Pushing'
      BY <2>1, <3>1, <3>2 DEF Swapped, Handing, Pushing, Ready
    <3>5. From(rx.rx_tail, poll'.i) = poll'.n
      BY <2>1, <3>1, <3>2 DEF Counts, Ahead
    <3>6. \A i \in RxSlots : i # poll.i => rx'.desc[i] = rx.desc[i]
      BY <2>1
    <3>. QED BY <2>1, <2>3, <3>1, <3>3, <3>4, <3>5, <3>6, QueueDelivers
  <2>. QED BY <2>2, <2>3
<1>21. CASE BindBuffer
  BY <1>21, BindDelivers
<1>12. CASE QueueFull
  <2>1. /\ UNCHANGED <<mode, state, rx, mem, queue, proc, turn, got, handled, exhausted>>
        /\ mode \notin {1, 2}
    BY <1>12 DEF QueueFull, ringVars, histVars, Pipelined
  <2>2. UNCHANGED <<poll.i, poll.n>> /\ poll'.pc = "publish" /\ poll.pc = "push"
    BY <1>12 DEF QueueFull, EInv, Types, PollType
  <2>3. RingUp' => RingUp
    BY <2>1 DEF RingUp
  <2>. QED BY <2>1, <2>2, <2>3, DeliveryKept
<1>13. CASE ScanEnd
  BY <1>13, PublishDelivers
<1>14. CASE rx_queue_pop
  BY <1>14, PopDelivers
<1>15. CASE e1000_handle_packet
  BY <1>15, HandleDelivers
<1>16. CASE SendPacket \/ SendDone \/ SendTimeout
  <2>1. UNCHANGED <<mode, state, rx, mem, queue, poll, turn, got, handled, exhausted>>
    BY <1>16 DEF SendPacket, SendDone, SendTimeout, ringVars, histVars
  <2>2. proc'.buf = proc.buf /\ proc.pc \in {"send", "wait"} /\ proc'.pc \in {"wait", "release"}
    BY <1>16 DEF SendPacket, SendDone, SendTimeout, EInv, Types, ProcType
  <2>. QED BY <2>1, <2>2, <1>still
<1>17. CASE e1000_rx_release_buffer
  <2>1. UNCHANGED <<mode, state, rx, mem, queue, poll, turn, got, handled, exhausted>>
    BY <1>17 DEF e1000_rx_release_buffer, ringVars, histVars
  <2>2. proc'.buf = NULL /\ proc.pc = "release" /\ proc'.pc = "idle"
    BY <1>17 DEF e1000_rx_release_buffer, EInv, Types, ProcType
  <2>. QED BY <2>1, <2>2, <1>still
<1>18. CASE BatchDone
  <2>1. /\ UNCHANGED <<mode, state, rx, mem, queue, poll, got, handled, exhausted>>
        /\ proc.pc = "idle" /\ (queue = <<>> \/ mode = 4) /\ turn' = "poll"
    BY <1>18 DEF BatchDone, ringVars, histVars
  <2>2. proc'.buf = proc.buf /\ proc'.pc = proc.pc
    BY <1>18 DEF BatchDone, EInv, Types, ProcType
  <2>3. RingUp' => RingUp
    BY <2>1 DEF RingUp
  <2>4. ~ exhausted' /\ poll'.pc \in {"alloc", "push", "bind"} => mode \notin {1, 2} /\ Ready(poll.i)
    BY <2>1, <1>pushing
  <2>. QED BY <2>1, <2>2, <2>3, <2>4, DeliveryKept
<1>19. CASE UNCHANGED vars
  <2>1. UNCHANGED <<mode, state, rx, mem, queue, poll, proc, turn, got, handled, exhausted>>
    BY <1>19 DEF vars, ringVars, histVars
  <2>. QED BY <2>1, <1>still
<1>. QED BY <1>1, <1>2, <1>3, <1>4, <1>5, <1>6, <1>7, <1>8, <1>9, <1>10, <1>11, <1>12, <1>13, <1>14,
            <1>15, <1>16, <1>17, <1>18, <1>19, <1>20, <1>21
     DEF Next, DeviceNext, PollNext, ProcNext

----------------------------------------------------------------------------
(* As long as rx_free_pool_get finds a page no page has two owners, none   *)
(* is lost, and the device writes only the ring's own: rx_queue_push and   *)
(* BindBuffer are separate steps, between which the page that was queued   *)
(* is still named by a descriptor, one behind RDT.                         *)
THEOREM PagesStayAccounted == Spec => []PagesAccounted
<1>1. EInv /\ PageInv /\ DeliveryInv => PagesAccounted
  <2>. SUFFICES ASSUME EInv, PageInv, DeliveryInv, ~ exhausted
                PROVE  /\ \A g, h \in Holders : g # h => Holds(g) \cap Holds(h) = {}
                       /\ Distinct
                       /\ mode # 3 => UNION {Holds(h) : h \in Holders} = 1 .. total
                       /\ \A i \in DeviceSlots : rx.desc[i].buf \in Holds("rx")
    BY DEF PagesAccounted
  <2>1. \A h \in Holders : Held[h] = Holds(h)
    BY DEF Held
  <2>2. \A g, h \in Holders : g # h => Holds(g) \cap Holds(h) = {}
    BY <2>1 DEF PageInv, Owned, Apart
  <2>3. mode # 3 => UNION {Holds(h) : h \in Holders} = 1 .. total
    BY <2>1 DEF PageInv, Owned, All
  <2>4. Distinct
    BY DEF PageInv, Sound, Listed, Distinct
  <2>5. ASSUME NEW i \in DeviceSlots PROVE rx.desc[i].buf \in Holds("rx")
    <3>1. i \in DOMAIN rx.desc
      BY DEF DeviceSlots
    <3>2. rx.desc[i].buf # NULL /\ rx.desc[i].buf \in RxPages /\ Sound(rx)
      BY <3>1 DEF PageInv, Sound, RxPages
    <3>3. ASSUME poll.pc = "bind" PROVE rx.desc[i].buf # rx.desc[poll.i].buf
      <4>. DEFINE S == Swapped
                  F == Full
                  N == NUM_RX_DESC
                  e == From(rx.RDH, rx.RDT)
                  p == From(rx.RDH, poll.i)
      <4>1. state = "running"
        BY <3>3 DEF EInv, Loaded, Idle
      <4>2. /\ Counts /\ Pushing /\ rx.desc \in RxDesc /\ rx.rx_tail \in RxSlots
            /\ poll.i \in RxSlots /\ rx.RDH \in RxSlots /\ rx.RDT \in RxSlots
        BY <4>1, Running
      <4>3. DOMAIN rx.desc = RxSlots
        BY <4>2 DEF RxDesc
      <4>4. S \in Nat /\ F \in Int /\ N \in Nat /\ N > 1 /\ poll.n \in Nat
        BY Numbers, RingFacts
      <4>5. mode \notin {1, 2} /\ S = poll.n + 1 /\ Batch = 0
        BY <3>3, <4>2 DEF Pushing, Swapped, Handing, Batch
      <4>6. /\ F >= 0 /\ S + F < N /\ Ahead(poll.i) = poll.n
            /\ Ahead(rx.RDH) = S + F /\ Ahead(rx.RDT) = N - 1
        BY <4>2, <4>5 DEF Counts
      <4>7. /\ e = (IF N - 1 >= S + F THEN N - 1 - (S + F) ELSE N - 1 - (S + F) + N)
            /\ p = (IF poll.n >= S + F THEN poll.n - (S + F) ELSE poll.n - (S + F) + N)
        BY <4>2, <4>6, FromShift DEF Ahead
      <4>8. From(rx.RDH, i) < e
        BY <3>1, <4>2, <4>3, FromIndex DEF DeviceSlots
      <4>. HIDE DEF S, F, N, e, p
      <4>9. e <= p
        BY <4>4, <4>5, <4>6, <4>7
      <4>10. e \in Int /\ p \in Int
        BY <4>4, <4>5, <4>7
      <4>11. i # poll.i
        BY <4>8, <4>9, <4>10 DEF p
      <4>. QED BY <3>1, <3>2, <4>2, <4>3, <4>11 DEF Sound
    <3>4. rx.desc[i].buf \notin HandedOver
      BY <3>3, HandedIs
    <3>5. Holds("rx") = RxPages \ ({NULL} \cup HandedOver)
      BY DEF Holds
    <3>. QED BY <3>2, <3>4, <3>5
  <2>. QED BY <2>2, <2>3, <2>4, <2>5
<1>2. Init => EInv /\ PageInv /\ DeliveryInv
  BY EInvInit, PageInit, DeliveryInit
<1>3. EInv /\ PageInv /\ DeliveryInv /\ [Next]_vars => EInv' /\ PageInv' /\ DeliveryInv'
  BY EInvStep, PageStep, DeliveryStep
<1>. QED BY <1>1, <1>2, <1>3, PTL DEF Spec

(* The packets the loops handle are those the device stored, once each and *)
(* in order, however the two threads and the device interleave.            *)
THEOREM DeliveryStaysInOrder == Spec => []DeliveredInOrder
<1>1. EInv /\ DeliveryInv => DeliveredInOrder
  <2>. SUFFICES ASSUME EInv, DeliveryInv, ~ exhausted PROVE IsPrefix(handled, got)
    BY DEF DeliveredInOrder
  <2>1. /\ Taken <= Len(got) /\ \A k \in 1 .. Len(handled) : got[k] = handled[k]
    BY DEF DeliveryInv, Contents
  <2>2. Len(handled) \in Nat /\ Len(got) \in Nat /\ handled \in Seq(Nat) /\ got \in Seq(Nat)
        /\ InHand \in 0 .. 1 /\ Len(queue) \in Nat
    BY Numbers
  <2>3. Len(handled) <= Len(got)
    BY <2>1, <2>2 DEF Taken
  <2>4. SubSeq(handled, 1, Len(handled)) = SubSeq(got, 1, Len(handled))
    BY <2>1, <2>2, <2>3
  <2>. QED BY <2>3, <2>4 DEF IsPrefix
<1>2. Init => EInv /\ PageInv /\ DeliveryInv
  BY EInvInit, PageInit, DeliveryInit
<1>3. EInv /\ PageInv /\ DeliveryInv /\ [Next]_vars => EInv' /\ PageInv' /\ DeliveryInv'
  BY EInvStep, PageStep, DeliveryStep
<1>. QED BY <1>1, <1>2, <1>3, PTL DEF Spec
=============================================================================
