-------------------------- MODULE PageTableProofs --------------------------
(***************************************************************************)
(* Lemmas about the page tables, for every number of levels and entries:   *)
(* the tables below a root form a tree in which the slots that lead to a   *)
(* table tell its pages (Shaped); what is mapped where is said without the *)
(* walk (Maps), and vmm_map(), vmm_unmap(), vmm_get_phys() and             *)
(* vmm_is_mapped() are shown to do to it what they should. There are no    *)
(* large pages below the roots considered.                                 *)
(***************************************************************************)
EXTENDS Vmm, WellFoundedInduction, TLAPS

(* Min picks a member of a set of naturals that has one. *)
LEMMA LeastNatural ==
  ASSUME NEW S \in SUBSET Nat, S # {} PROVE \E x \in S : \A y \in S : x <= y
<1>1. PICK x \in S : \A y \in S : ~(<<y, x>> \in OpToRel(<, Nat))
  BY NatLessThanWellFounded, WFMin
<1>2. \A y \in S : ~ (y < x)
  BY <1>1 DEF OpToRel
<1>. QED BY <1>2

(* The same for the operator Min. *)
LEMMA LeastIs == ASSUME NEW S \in SUBSET Nat, S # {} PROVE Min(S) \in S
BY LeastNatural DEF Min

(* Induction over a range, upwards and downwards. *)
LEMMA UpFrom ==
  ASSUME NEW N \in Nat, NEW S \in SUBSET (0 .. N), 0 \in S,
         \A n \in 0 .. N : n \in S /\ n < N => n + 1 \in S
  PROVE  \A n \in 0 .. N : n \in S
<1>. SUFFICES ASSUME NEW x \in 0 .. N, x \notin S PROVE FALSE
  OBVIOUS
<1>. DEFINE B == {n \in 0 .. N : n \notin S}
<1>1. B \in SUBSET Nat /\ B # {}
  OBVIOUS
<1>2. PICK b \in B : \A y \in B : b <= y
  BY <1>1, LeastNatural
<1>3. b \in 1 .. N /\ b - 1 \in 0 .. N /\ b - 1 \notin B /\ (b - 1) + 1 = b
  BY <1>2
<1>. QED BY <1>2, <1>3

(* The same, downwards. *)
LEMMA DownFrom ==
  ASSUME NEW N \in Nat \ {0}, NEW S \in SUBSET (1 .. N), N \in S,
         \A n \in 1 .. N : n + 1 \in S /\ n < N => n \in S
  PROVE  \A n \in 1 .. N : n \in S
<1>. DEFINE U == {n \in 0 .. N - 1 : N - n \in S}
<1>1. 0 \in U /\ \A n \in 0 .. N - 1 : n \in U /\ n < N - 1 => n + 1 \in U
  <2>1. ASSUME NEW n \in 0 .. N - 1, n \in U, n < N - 1 PROVE n + 1 \in U
    <3>1. N - (n + 1) \in 1 .. N /\ N - (n + 1) < N /\ (N - (n + 1)) + 1 = N - n
      BY <2>1
    <3>. QED BY <2>1, <3>1
  <2>. QED BY <2>1
<1>2. N - 1 \in Nat /\ U \in SUBSET (0 .. N - 1)
  OBVIOUS
<1>. HIDE DEF U
<1>3. \A n \in 0 .. N - 1 : n \in U
  BY ONLY <1>1, <1>2, UpFrom
<1>. QED
  <2>. SUFFICES ASSUME NEW n \in 1 .. N PROVE n \in S
    OBVIOUS
  <2>1. N - n \in 0 .. N - 1 /\ N - (N - n) = n
    OBVIOUS
  <2>. QED BY <1>3, <2>1 DEF U

(* The walk exists: what it is at each level. *)
LEMMA WalkLevels ==
  ASSUME NEW tables, NEW root, NEW va
  PROVE  \E at :
           /\ Walk(tables, root, va) = at[1]
           /\ at[Levels] = [e |-> tables[root][Index(va, Levels)], level |-> Levels]
           /\ \A l \in 1 .. Levels : l < Levels =>
                at[l] = LET up == at[l + 1]
                        IN  IF ~ up.e.present \/ up.e.leaf \/ up.level # l + 1 THEN up
                            ELSE [e |-> tables[up.e.frame][Index(va, l)], level |-> l]
<1>. DEFINE top == [e |-> tables[root][Index(va, Levels)], level |-> Levels]
            Below(up, l) == IF ~ up.e.present \/ up.e.leaf \/ up.level # l + 1 THEN up
                            ELSE [e |-> tables[up.e.frame][Index(va, l)], level |-> l]
            IsAt(g, k) == g = [l \in k .. Levels |-> IF l = Levels THEN top ELSE Below(g[l + 1], l)]
            at == CHOOSE g : IsAt(g, 1)
<1>0. Levels \in Nat \ {0}
  BY LevelsAssumption
<1>1. Walk(tables, root, va) = at[1]
  BY ZenonT(60) DEF Walk
<1>. HIDE DEF top, Below
<1>2. \A k \in 1 .. Levels : k \in {j \in 1 .. Levels : \E g : IsAt(g, j)}
  <2>. DEFINE S == {j \in 1 .. Levels : \E g : IsAt(g, j)}
  <2>1. Levels \in S
    <3>. DEFINE g == [l \in Levels .. Levels |-> top]
    <3>1. IsAt(g, Levels)
      BY <1>0
    <3>2. \E f : IsAt(f, Levels)
      BY <3>1
    <3>. QED BY <1>0, <3>2
  <2>2. ASSUME NEW k \in 1 .. Levels, k + 1 \in S, k < Levels PROVE k \in S
    <3>1. PICK g : IsAt(g, k + 1)
      BY <2>2
    <3>. DEFINE h == [l \in k .. Levels |-> IF l = k THEN Below(g[k + 1], k) ELSE g[l]]
    <3>2. \A l \in k + 1 .. Levels : g[l] = IF l = Levels THEN top ELSE Below(g[l + 1], l)
      BY <3>1
    <3>3. ASSUME NEW l \in k .. Levels
          PROVE  h[l] = IF l = Levels THEN top ELSE Below(h[l + 1], l)
      <4>1. CASE l = k
        <5>1. h[l] = Below(g[k + 1], k) /\ h[l + 1] = g[k + 1] /\ l # Levels
          BY <1>0, <2>2, <4>1
        <5>. QED BY <4>1, <5>1
      <4>2. CASE l # k
        <5>1. l \in k + 1 .. Levels /\ h[l] = g[l] /\ (l # Levels => h[l + 1] = g[l + 1])
          BY <1>0, <2>2, <4>2
        <5>. QED BY <3>2, <5>1
      <4>. QED BY <4>1, <4>2
    <3>4. IsAt(h, k)
      BY <3>3
    <3>5. \E f : IsAt(f, k)
      BY <3>4
    <3>. QED BY <3>5
  <2>. HIDE DEF S
  <2>. QED BY <1>0, <2>1, <2>2, DownFrom DEF S
<1>3. IsAt(at, 1)
  <2>. HIDE DEF IsAt
  <2>1. \E g : IsAt(g, 1)
    BY <1>0, <1>2
  <2>. QED BY <2>1
<1>. HIDE DEF at
<1>4. \A l \in 1 .. Levels : at[l] = IF l = Levels THEN top ELSE Below(at[l + 1], l)
  BY <1>3
<1>5. at[Levels] = top /\ \A l \in 1 .. Levels : l < Levels => at[l] = Below(at[l + 1], l)
  BY <1>0, <1>4
<1>. QED BY <1>1, <1>5, Zenon DEF top, Below

(* The pages an entry covers, level by level. *)
LEMMA Spans ==
  /\ Span[0] = 1
  /\ \A l \in 0 .. Levels : Span[l] \in Nat \ {0}
  /\ \A l \in 1 .. Levels : Span[l] = Entries * Span[l - 1]
<1>0. Levels \in Nat \ {0} /\ Entries \in Nat \ {0}
  BY LevelsAssumption, EntriesAssumption
<1>. DEFINE IsSpan(g, k) == g = [l \in 0 .. k |-> IF l = 0 THEN 1 ELSE Entries * g[l - 1]]
            S == {k \in 0 .. Levels : \E g : IsSpan(g, k)}
<1>1. 0 \in S
  <2>1. IsSpan([l \in 0 .. 0 |-> 1], 0)
    OBVIOUS
  <2>2. \E g : IsSpan(g, 0)
    BY <2>1
  <2>. QED BY <1>0, <2>2
<1>2. ASSUME NEW k \in 0 .. Levels, k \in S, k < Levels PROVE k + 1 \in S
  <2>1. PICK g : IsSpan(g, k)
    BY <1>2
  <2>. DEFINE h == [l \in 0 .. k + 1 |-> IF l = k + 1 THEN Entries * g[k] ELSE g[l]]
  <2>2. \A l \in 0 .. k : g[l] = IF l = 0 THEN 1 ELSE Entries * g[l - 1]
    BY <2>1
  <2>3. ASSUME NEW l \in 0 .. k + 1 PROVE h[l] = IF l = 0 THEN 1 ELSE Entries * h[l - 1]
    <3>1. CASE l = k + 1
      <4>1. l # 0 /\ h[l] = Entries * g[k] /\ h[l - 1] = g[k]
        BY <1>0, <3>1
      <4>. QED BY <4>1
    <3>2. CASE l # k + 1
      <4>1. l \in 0 .. k /\ h[l] = g[l] /\ (l # 0 => h[l - 1] = g[l - 1])
        BY <1>0, <3>2
      <4>. QED BY <2>2, <4>1
    <3>. QED BY <3>1, <3>2
  <2>4. IsSpan(h, k + 1)
    BY <2>3
  <2>5. \E f : IsSpan(f, k + 1)
    BY <2>4
  <2>. QED BY <1>0, <1>2, <2>5
<1>3. \E g : IsSpan(g, Levels)
  <2>1. S \in SUBSET (0 .. Levels)
    OBVIOUS
  <2>. HIDE DEF S
  <2>2. Levels \in S
    BY <1>0, <1>1, <1>2, <2>1, UpFrom
  <2>. QED BY <2>2 DEF S
<1>4. Span = CHOOSE g : IsSpan(g, Levels)
  BY DEF Span
<1>5. IsSpan(Span, Levels)
  <2>. HIDE DEF IsSpan
  <2>. QED BY <1>3, <1>4
<1>6. \A l \in 0 .. Levels : Span[l] = IF l = 0 THEN 1 ELSE Entries * Span[l - 1]
  BY <1>5
<1>. DEFINE P == {l \in 0 .. Levels : Span[l] \in Nat \ {0}}
<1>7. 0 \in P /\ \A l \in 0 .. Levels : l \in P /\ l < Levels => l + 1 \in P
  <2>1. 0 \in P
    BY <1>0, <1>6
  <2>2. ASSUME NEW l \in 0 .. Levels, l \in P, l < Levels PROVE l + 1 \in P
    <3>1. l + 1 \in 0 .. Levels /\ l + 1 # 0 /\ (l + 1) - 1 = l
      BY <1>0, <2>2
    <3>2. Span[l + 1] = Entries * Span[l]
      BY <1>6, <3>1
    <3>3. \A x \in Nat \ {0} : Entries * x \in Nat \ {0}
      BY <1>0
    <3>. QED BY <2>2, <3>1, <3>2, <3>3
  <2>. QED BY <2>1, <2>2
<1>8. \A l \in 0 .. Levels : l \in P
  <2>1. P \in SUBSET (0 .. Levels)
    OBVIOUS
  <2>. HIDE DEF P
  <2>. QED BY <1>0, <1>7, <2>1, UpFrom
<1>. QED BY <1>0, <1>6, <1>8

(* A page's slot at each level. *)
LEMMA IndexSlot == ASSUME NEW va \in Nat, NEW l \in 1 .. Levels PROVE Index(va, l) \in Slots
<1>1. Span[l - 1] \in Nat \ {0} /\ Entries \in Nat \ {0}
  BY Spans, LevelsAssumption, EntriesAssumption
<1>2. \A s \in Nat \ {0} : va \div s \in Nat
  OBVIOUS
<1>3. \A x \in Nat : x % Entries \in 0 .. Entries - 1
  BY <1>1
<1>. QED BY <1>1, <1>2, <1>3 DEF Index, Slots

(* Dividing in two steps. *)
LEMMA DivDiv ==
  ASSUME NEW a \in Nat, NEW b \in Nat \ {0}, NEW c \in Nat \ {0}
  PROVE  a \div (c * b) = (a \div b) \div c
<1>. DEFINE q == a \div b
            r == q \div c
<1>1. q \in Nat /\ b * q <= a /\ a < b * q + b
  OBVIOUS
<1>. HIDE DEF q
<1>2. r \in Nat /\ c * r <= q /\ q < c * r + c
  BY <1>1
<1>. HIDE DEF r
<1>3. b * (c * r) <= b * q /\ b * q + b <= b * (c * r + c)
  <2>1. q + 1 <= c * r + c /\ c * r \in Nat
    BY <1>1, <1>2
  <2>2. b * (q + 1) <= b * (c * r + c)
    BY <1>1, <2>1
  <2>. QED BY <1>1, <1>2, <2>1, <2>2
<1>4. (c * b) * r <= a /\ a < (c * b) * r + (c * b)
  BY <1>1, <1>2, <1>3
<1>5. c * b \in Nat \ {0}
  OBVIOUS
<1>. DEFINE d == c * b
<1>6. d \in Nat \ {0} /\ d * r <= a /\ a < d * r + d
  BY <1>4, <1>5
<1>. HIDE DEF d
<1>7. a \div d = r
  BY <1>2, <1>6
<1>. QED BY <1>7 DEF d, r, q

(* The page table tells the pages of its range apart. *)
LEMMA SameIndexes ==
  ASSUME NEW a \in Nat, NEW b \in Nat, a < Span[Levels], b < Span[Levels],
         \A l \in 1 .. Levels : Index(a, l) = Index(b, l)
  PROVE  a = b
<1>0. Levels \in Nat \ {0} /\ Entries \in Nat \ {0}
  BY LevelsAssumption, EntriesAssumption
<1>. DEFINE S == {n \in 0 .. Levels : a \div Span[Levels - n] = b \div Span[Levels - n]}
<1>1. 0 \in S
  <2>1. Span[Levels] \in Nat \ {0}
    BY <1>0, Spans
  <2>2. \A s \in Nat \ {0} : \A x \in Nat : x < s => x \div s = 0
    OBVIOUS
  <2>. QED BY <1>0, <2>1, <2>2
<1>2. ASSUME NEW n \in 0 .. Levels, n \in S, n < Levels PROVE n + 1 \in S
  <2>. DEFINE l == Levels - n
              t == Span[l - 1]
  <2>1. l \in 1 .. Levels /\ Levels - (n + 1) = l - 1 /\ l - 1 \in 0 .. Levels
    BY <1>0, <1>2
  <2>2. t \in Nat \ {0} /\ Span[l] = Entries * t
    BY <2>1, Spans
  <2>. HIDE DEF t
  <2>3. a \div (Entries * t) = b \div (Entries * t)
    BY <1>2, <2>2
  <2>4. (a \div t) \div Entries = (b \div t) \div Entries
    BY <1>0, <2>2, <2>3, DivDiv
  <2>5. (a \div t) % Entries = (b \div t) % Entries
    BY <2>1 DEF Index, t
  <2>6. a \div t \in Nat /\ b \div t \in Nat
    BY <2>2
  <2>7. \A x, y \in Nat : x \div Entries = y \div Entries /\ x % Entries = y % Entries => x = y
    <3>1. \A x \in Nat : x = Entries * (x \div Entries) + (x % Entries)
      BY <1>0
    <3>. QED BY <3>1
  <2>8. a \div t = b \div t
    BY <2>4, <2>5, <2>6, <2>7
  <2>9. n + 1 \in 0 .. Levels /\ a \div Span[Levels - (n + 1)] = b \div Span[Levels - (n + 1)]
    BY <1>0, <1>2, <2>1, <2>8 DEF t
  <2>. QED BY <2>9
<1>3. Levels \in S
  <2>1. S \in SUBSET (0 .. Levels)
    OBVIOUS
  <2>. HIDE DEF S
  <2>. QED BY <1>0, <1>1, <1>2, <2>1, UpFrom
<1>4. a \div Span[0] = b \div Span[0]
  BY <1>0, <1>3
<1>. QED BY <1>4, Spans

Entry == [present : BOOLEAN, frame : Nat, leaf : BOOLEAN, perm : SUBSET {"U", "W", "NX"}]

(* The tables form a tree: lev is the level of each and at the slots that  *)
(* lead to it, level by level from the root. There are no large pages.     *)
Child(f, g, i, lev, at) ==
    /\ lev[g] = lev[f] - 1 /\ at[g][lev[f]] = i
    /\ \A j \in 1 .. Levels : j > lev[f] => at[g][j] = at[f][j]
Shaped(T, lev, at) ==
    /\ T \in [DOMAIN T -> [Slots -> Entry]]
    /\ lev \in [DOMAIN T -> 1 .. Levels] /\ at \in [DOMAIN T -> [1 .. Levels -> Slots]]
    /\ \A f \in DOMAIN T, i \in Slots :
         /\ ~ T[f][i].leaf
         /\ T[f][i].present /\ lev[f] > 1 =>
              T[f][i].frame \in DOMAIN T /\ Child(f, T[f][i].frame, i, lev, at)

(* p is the way to the table of level l for page va. *)
Path(T, root, va, l, p) ==
    /\ p \in [l .. Levels -> DOMAIN T] /\ p[Levels] = root
    /\ \A j \in l .. Levels : j > l =>
         /\ T[p[j]][Index(va, j)].present /\ ~ T[p[j]][Index(va, j)].leaf
         /\ T[p[j]][Index(va, j)].frame = p[j - 1]

(* Page va is mapped to frame x. *)
Maps(T, root, va, x) ==
    \E p : /\ Path(T, root, va, 1, p)
           /\ T[p[1]][Index(va, 1)].present /\ T[p[1]][Index(va, 1)].frame = x

(* One entry of a table of the tree. *)
LEMMA ShapedEntry ==
  ASSUME NEW T, NEW lev, NEW at, Shaped(T, lev, at), NEW f \in DOMAIN T, NEW i \in Slots
  PROVE  /\ T[f][i] \in Entry /\ ~ T[f][i].leaf /\ lev[f] \in 1 .. Levels
         /\ T[f][i].present /\ lev[f] > 1 =>
              T[f][i].frame \in DOMAIN T /\ Child(f, T[f][i].frame, i, lev, at)
BY DEF Shaped

(* A way has one table of each level, the one its slots lead to. *)
LEMMA PathShape ==
  ASSUME NEW T, NEW lev, NEW at, Shaped(T, lev, at), NEW root, lev[root] = Levels,
         NEW va \in Nat, NEW l \in 1 .. Levels, NEW p, Path(T, root, va, l, p)
  PROVE  \A j \in l .. Levels :
            lev[p[j]] = j /\ \A k \in 1 .. Levels : k > j => at[p[j]][k] = Index(va, k)
<1>0. Levels \in Nat \ {0}
  BY LevelsAssumption
<1>. DEFINE OK(j) == lev[p[j]] = j /\ \A k \in 1 .. Levels : k > j => at[p[j]][k] = Index(va, k)
            S == {j \in 1 .. Levels : j >= l => OK(j)}
<1>1. Levels \in S
  BY <1>0 DEF Path
<1>2. ASSUME NEW j \in 1 .. Levels, j + 1 \in S, j < Levels PROVE j \in S
  <2>. SUFFICES ASSUME j >= l PROVE OK(j)
    OBVIOUS
  <2>1. OK(j + 1) /\ j + 1 \in l .. Levels /\ j + 1 > l /\ (j + 1) - 1 = j /\ j + 1 \in 1 .. Levels
    BY <1>0, <1>2
  <2>2. p[j + 1] \in DOMAIN T /\ p[j] \in DOMAIN T
    BY <2>1 DEF Path
  <2>. DEFINE i == Index(va, j + 1)
  <2>3. i \in Slots
    BY <1>0, <2>1, IndexSlot
  <2>4. T[p[j + 1]][i].present /\ T[p[j + 1]][i].frame = p[j]
    BY <2>1 DEF Path
  <2>. HIDE DEF i
  <2>5. Child(p[j + 1], p[j], i, lev, at)
    <3>1. lev[p[j + 1]] > 1
      BY <1>0, <2>1
    <3>. QED BY <2>2, <2>3, <2>4, <3>1, ShapedEntry
  <2>6. lev[p[j]] = j /\ at[p[j]][j + 1] = i /\ \A k \in 1 .. Levels : k > j + 1 => at[p[j]][k] = at[p[j + 1]][k]
    BY <1>0, <2>1, <2>5 DEF Child
  <2>7. ASSUME NEW k \in 1 .. Levels, k > j PROVE at[p[j]][k] = Index(va, k)
    <3>1. CASE k = j + 1
      BY <2>6, <3>1 DEF i
    <3>2. CASE k > j + 1
      BY <2>1, <2>6, <3>2
    <3>. QED BY <1>0, <2>7, <3>1, <3>2
  <2>. QED BY <2>6, <2>7
<1>3. S \in SUBSET (1 .. Levels)
  OBVIOUS
<1>. HIDE DEF S
<1>4. \A j \in 1 .. Levels : j \in S
  BY <1>0, <1>1, <1>2, <1>3, DownFrom
<1>. QED BY <1>4 DEF S

(* The walk follows the way. *)
LEMMA WalkPath ==
  ASSUME NEW T, NEW root, NEW va, NEW p, Path(T, root, va, 1, p)
  PROVE  Walk(T, root, va) = [e |-> T[p[1]][Index(va, 1)], level |-> 1]
<1>0. Levels \in Nat \ {0}
  BY LevelsAssumption
<1>1. PICK w :
           /\ Walk(T, root, va) = w[1]
           /\ w[Levels] = [e |-> T[root][Index(va, Levels)], level |-> Levels]
           /\ \A l \in 1 .. Levels : l < Levels =>
                w[l] = LET up == w[l + 1]
                        IN  IF ~ up.e.present \/ up.e.leaf \/ up.level # l + 1 THEN up
                            ELSE [e |-> T[up.e.frame][Index(va, l)], level |-> l]
  BY WalkLevels
<1>. DEFINE E(l) == [e |-> T[p[l]][Index(va, l)], level |-> l]
            S == {l \in 1 .. Levels : w[l] = E(l)}
<1>2. Levels \in S
  BY <1>0, <1>1 DEF Path
<1>3. ASSUME NEW l \in 1 .. Levels, l + 1 \in S, l < Levels PROVE l \in S
  <2>1. l + 1 \in 1 .. Levels /\ l + 1 > 1 /\ (l + 1) - 1 = l
    BY <1>0, <1>3
  <2>2. /\ T[p[l + 1]][Index(va, l + 1)].present /\ ~ T[p[l + 1]][Index(va, l + 1)].leaf
        /\ T[p[l + 1]][Index(va, l + 1)].frame = p[l]
    BY <2>1 DEF Path
  <2>3. w[l + 1] = E(l + 1)
    BY <1>3
  <2>4. w[l + 1].e = T[p[l + 1]][Index(va, l + 1)] /\ w[l + 1].level = l + 1
    BY <2>3
  <2>5. w[l] = [e |-> T[w[l + 1].e.frame][Index(va, l)], level |-> l]
    BY <1>1, <1>3, <2>2, <2>4
  <2>. QED BY <2>2, <2>4, <2>5
<1>4. S \in SUBSET (1 .. Levels)
  OBVIOUS
<1>. HIDE DEF S
<1>5. 1 \in S
  BY <1>0, <1>2, <1>3, <1>4, DownFrom
<1>. QED BY <1>1, <1>5 DEF S

(* A walk that ends at a present entry has followed a way to the bottom. *)
LEMMA WalkFound ==
  ASSUME NEW T, NEW lev, NEW at, Shaped(T, lev, at), NEW root \in DOMAIN T, lev[root] = Levels,
         NEW va \in Nat, Walk(T, root, va).e.present
  PROVE  \E p : Path(T, root, va, 1, p) /\ T[p[1]][Index(va, 1)].present
<1>0. Levels \in Nat \ {0}
  BY LevelsAssumption
<1>1. PICK w :
           /\ Walk(T, root, va) = w[1]
           /\ w[Levels] = [e |-> T[root][Index(va, Levels)], level |-> Levels]
           /\ \A l \in 1 .. Levels : l < Levels =>
                w[l] = LET up == w[l + 1]
                        IN  IF ~ up.e.present \/ up.e.leaf \/ up.level # l + 1 THEN up
                            ELSE [e |-> T[up.e.frame][Index(va, l)], level |-> l]
  BY WalkLevels
<1>. DEFINE E(t, l) == [e |-> T[t][Index(va, l)], level |-> l]
            Found(l) == \E p : Path(T, root, va, l, p) /\ w[l] = E(p[l], l)
            S == {l \in 1 .. Levels : w[l].e.present => Found(l)}
<1>2. Levels \in S
  <2>. DEFINE p == [j \in Levels .. Levels |-> root]
  <2>1. Path(T, root, va, Levels, p) /\ p[Levels] = root
    BY <1>0 DEF Path
  <2>2. w[Levels] = E(p[Levels], Levels)
    BY <1>1, <2>1
  <2>3. Found(Levels)
    BY <2>1, <2>2
  <2>. QED BY <1>0, <2>3
<1>3. ASSUME NEW l \in 1 .. Levels, l + 1 \in S, l < Levels PROVE l \in S
  <2>. SUFFICES ASSUME w[l].e.present PROVE Found(l)
    OBVIOUS
  <2>0. l + 1 \in 1 .. Levels
    BY <1>0, <1>3
  <2>1. w[l + 1].e.present
    BY <1>1, <1>3
  <2>2. PICK p : Path(T, root, va, l + 1, p) /\ w[l + 1] = E(p[l + 1], l + 1)
    BY <1>3, <2>1
  <2>. DEFINE i == Index(va, l + 1)
              g == T[p[l + 1]][i].frame
  <2>3. w[l + 1].e = T[p[l + 1]][i] /\ w[l + 1].level = l + 1
    BY <2>2
  <2>4. p[l + 1] \in DOMAIN T /\ i \in Slots
    BY <1>0, <2>0, <2>2, IndexSlot DEF Path
  <2>5. lev[p[l + 1]] = l + 1
    BY <1>0, <2>0, <2>2, PathShape
  <2>6. ~ T[p[l + 1]][i].leaf /\ g \in DOMAIN T
    <3>1. lev[p[l + 1]] > 1 /\ T[p[l + 1]][i].present
      BY <1>0, <2>1, <2>3, <2>5
    <3>. HIDE DEF i
    <3>. QED BY <2>4, <3>1, ShapedEntry
  <2>7. w[l] = E(g, l)
    BY <1>1, <1>3, <2>1, <2>3, <2>6
  <2>. HIDE DEF g
  <2>. DEFINE q == [j \in l .. Levels |-> IF j = l THEN g ELSE p[j]]
  <2>8. /\ q \in [l .. Levels -> DOMAIN T] /\ q[Levels] = root /\ q[l] = g
        /\ \A j \in l + 1 .. Levels : q[j] = p[j]
    BY <1>0, <1>3, <2>0, <2>2, <2>6 DEF Path
  <2>. HIDE DEF q
  <2>9. ASSUME NEW j \in l .. Levels, j > l
        PROVE  /\ T[q[j]][Index(va, j)].present /\ ~ T[q[j]][Index(va, j)].leaf
               /\ T[q[j]][Index(va, j)].frame = q[j - 1]
    <3>1. CASE j = l + 1
      BY <1>0, <2>1, <2>3, <2>6, <2>8, <3>1 DEF g
    <3>2. CASE j > l + 1
      <4>1. j \in l + 1 .. Levels /\ j - 1 \in l + 1 .. Levels
        BY <1>0, <2>9, <3>2
      <4>. QED BY <2>2, <2>8, <3>2, <4>1 DEF Path
    <3>. QED BY <1>0, <2>9, <3>1, <3>2
  <2>10. Path(T, root, va, l, q)
    BY <2>8, <2>9 DEF Path
  <2>. QED BY <2>7, <2>8, <2>10
<1>4. S \in SUBSET (1 .. Levels)
  OBVIOUS
<1>. HIDE DEF S
<1>5. 1 \in S
  BY <1>0, <1>2, <1>3, <1>4, DownFrom
<1>6. w[1].e.present => Found(1)
  BY <1>5 DEF S
<1>7. PICK p : Path(T, root, va, 1, p) /\ w[1] = E(p[1], 1)
  BY <1>1, <1>6
<1>8. w[1].e = T[p[1]][Index(va, 1)]
  BY <1>7
<1>. QED BY <1>1, <1>7, <1>8

(* There is one way at most. *)
LEMMA PathOnce ==
  ASSUME NEW T, NEW root, NEW va, NEW l \in 1 .. Levels, NEW p, NEW q,
         Path(T, root, va, l, p), Path(T, root, va, l, q)
  PROVE  \A j \in l .. Levels : p[j] = q[j]
<1>0. Levels \in Nat \ {0}
  BY LevelsAssumption
<1>. DEFINE S == {j \in 1 .. Levels : j >= l => p[j] = q[j]}
<1>1. Levels \in S
  BY <1>0 DEF Path
<1>2. ASSUME NEW j \in 1 .. Levels, j + 1 \in S, j < Levels PROVE j \in S
  <2>. SUFFICES ASSUME j >= l PROVE p[j] = q[j]
    OBVIOUS
  <2>1. j + 1 \in l .. Levels /\ j + 1 > l /\ (j + 1) - 1 = j /\ p[j + 1] = q[j + 1]
    BY <1>0, <1>2
  <2>. QED BY <2>1 DEF Path
<1>3. S \in SUBSET (1 .. Levels)
  OBVIOUS
<1>. HIDE DEF S
<1>4. \A j \in 1 .. Levels : j \in S
  BY <1>0, <1>1, <1>2, <1>3, DownFrom
<1>. QED BY <1>4 DEF S

(* vmm_get_phys() and vmm_is_mapped() find what is mapped, and only that. *)
LEMMA PhysIs ==
  ASSUME NEW T, NEW lev, NEW at, Shaped(T, lev, at), NEW root, NEW va \in Nat, NEW x,
         Maps(T, root, va, x)
  PROVE  vmm_is_mapped(T, root, va) /\ vmm_get_phys(T, root, va) = x /\ x \in Nat
<1>0. Levels \in Nat \ {0} /\ Span[0] = 1
  BY LevelsAssumption, Spans
<1>1. PICK p : /\ Path(T, root, va, 1, p)
               /\ T[p[1]][Index(va, 1)].present /\ T[p[1]][Index(va, 1)].frame = x
  BY DEF Maps
<1>. DEFINE w == Walk(T, root, va)
<1>2. w = [e |-> T[p[1]][Index(va, 1)], level |-> 1]
  BY <1>1, WalkPath
<1>3. w.e = T[p[1]][Index(va, 1)] /\ w.level = 1
  BY <1>2
<1>. HIDE DEF w
<1>4. x \in Nat
  <2>1. p[1] \in DOMAIN T /\ Index(va, 1) \in Slots
    BY <1>0, <1>1, IndexSlot DEF Path
  <2>2. T[p[1]][Index(va, 1)] \in Entry
    BY <2>1, ShapedEntry
  <2>. QED BY <1>1, <2>2 DEF Entry
<1>5. va % Span[w.level - 1] = 0
  BY <1>0, <1>3
<1>6. w.e.frame + (va % Span[w.level - 1]) = x
  BY <1>1, <1>3, <1>4, <1>5
<1>. QED BY <1>1, <1>3, <1>4, <1>6 DEF vmm_is_mapped, vmm_get_phys, w

(* Without a mapping the walk finds nothing. *)
LEMMA PhysFound ==
  ASSUME NEW T, NEW lev, NEW at, Shaped(T, lev, at), NEW root \in DOMAIN T, lev[root] = Levels,
         NEW va \in Nat
  PROVE  /\ vmm_is_mapped(T, root, va) => Maps(T, root, va, vmm_get_phys(T, root, va))
         /\ ~ vmm_is_mapped(T, root, va) => vmm_get_phys(T, root, va) = NULL
<1>1. CASE vmm_is_mapped(T, root, va)
  <2>1. PICK p : Path(T, root, va, 1, p) /\ T[p[1]][Index(va, 1)].present
    BY <1>1, WalkFound DEF vmm_is_mapped
  <2>2. Maps(T, root, va, T[p[1]][Index(va, 1)].frame)
    BY <2>1 DEF Maps
  <2>. QED BY <1>1, <2>2, PhysIs
<1>2. CASE ~ vmm_is_mapped(T, root, va)
  BY <1>2 DEF vmm_is_mapped, vmm_get_phys
<1>. QED BY <1>1, <1>2

(* Tables that only gain entries keep every way and every mapping. *)
Kept(T, T2) ==
    /\ DOMAIN T \subseteq DOMAIN T2
    /\ \A f \in DOMAIN T, i \in Slots : T[f][i].present =>
         T2[f][i].present /\ T2[f][i].frame = T[f][i].frame /\ (~ T[f][i].leaf => ~ T2[f][i].leaf)

(* The ways of tables that gain entries. *)
LEMMA KeptPath ==
  ASSUME NEW T, NEW T2, Kept(T, T2), NEW root, NEW va \in Nat, NEW l \in 1 .. Levels, NEW p,
         Path(T, root, va, l, p)
  PROVE  Path(T2, root, va, l, p)
<1>0. Levels \in Nat \ {0}
  BY LevelsAssumption
<1>1. p \in [l .. Levels -> DOMAIN T2] /\ p[Levels] = root
  BY DEF Path, Kept
<1>2. ASSUME NEW j \in l .. Levels, j > l
      PROVE  /\ T2[p[j]][Index(va, j)].present /\ ~ T2[p[j]][Index(va, j)].leaf
             /\ T2[p[j]][Index(va, j)].frame = p[j - 1]
  <2>1. p[j] \in DOMAIN T /\ Index(va, j) \in Slots
    BY <1>0, <1>2, IndexSlot DEF Path
  <2>2. /\ T[p[j]][Index(va, j)].present /\ ~ T[p[j]][Index(va, j)].leaf
        /\ T[p[j]][Index(va, j)].frame = p[j - 1]
    BY <1>2 DEF Path
  <2>. QED BY <2>1, <2>2 DEF Kept
<1>. QED BY <1>1, <1>2 DEF Path

(* Their mappings. *)
LEMMA KeptMaps ==
  ASSUME NEW T, NEW T2, Kept(T, T2), NEW root, NEW va \in Nat, NEW x, Maps(T, root, va, x)
  PROVE  Maps(T2, root, va, x)
<1>0. Levels \in Nat \ {0}
  BY LevelsAssumption
<1>1. PICK p : /\ Path(T, root, va, 1, p)
               /\ T[p[1]][Index(va, 1)].present /\ T[p[1]][Index(va, 1)].frame = x
  BY DEF Maps
<1>2. Path(T2, root, va, 1, p)
  BY <1>0, <1>1, KeptPath
<1>3. p[1] \in DOMAIN T /\ Index(va, 1) \in Slots
  BY <1>0, <1>1, IndexSlot DEF Path
<1>. QED BY <1>1, <1>2, <1>3 DEF Kept, Maps

(* T2 keeps what T has, and its other present entries lead to new tables. *)
Extends(T, lev, at, T2, lev2, at2) ==
    /\ Kept(T, T2)
    /\ \A f \in DOMAIN T : lev2[f] = lev[f] /\ at2[f] = at[f]
    /\ \A f \in DOMAIN T2, i \in Slots : T2[f][i].present =>
         \/ f \in DOMAIN T /\ T[f][i].present /\ T[f][i].frame = T2[f][i].frame
         \/ lev2[f] > 1 /\ T2[f][i].frame \notin DOMAIN T

(* There are such levels and ways. *)
Grows(T, lev, at, T2) == \E lev2, at2 : Shaped(T2, lev2, at2) /\ Extends(T, lev, at, T2, lev2, at2)

(* Growing twice. *)
LEMMA ExtendsTwice ==
  ASSUME NEW T, NEW lev, NEW at, NEW T1, NEW lev1, NEW at1, NEW T2, NEW lev2, NEW at2,
         Extends(T, lev, at, T1, lev1, at1), Extends(T1, lev1, at1, T2, lev2, at2)
  PROVE  Extends(T, lev, at, T2, lev2, at2)
<1>1. Kept(T, T2)
  BY DEF Extends, Kept
<1>2. \A f \in DOMAIN T : lev2[f] = lev[f] /\ at2[f] = at[f]
  BY DEF Extends, Kept
<1>3. ASSUME NEW f \in DOMAIN T2, NEW i \in Slots, T2[f][i].present
      PROVE  \/ f \in DOMAIN T /\ T[f][i].present /\ T[f][i].frame = T2[f][i].frame
             \/ lev2[f] > 1 /\ T2[f][i].frame \notin DOMAIN T
  <2>1. CASE f \in DOMAIN T1 /\ T1[f][i].present /\ T1[f][i].frame = T2[f][i].frame
    <3>1. \/ f \in DOMAIN T /\ T[f][i].present /\ T[f][i].frame = T1[f][i].frame
          \/ lev1[f] > 1 /\ T1[f][i].frame \notin DOMAIN T
      BY <2>1 DEF Extends
    <3>2. lev2[f] = lev1[f]
      BY <2>1 DEF Extends
    <3>. QED BY <2>1, <3>1, <3>2
  <2>2. CASE lev2[f] > 1 /\ T2[f][i].frame \notin DOMAIN T1
    BY <2>2 DEF Extends, Kept
  <2>. QED BY <1>3, <2>1, <2>2 DEF Extends
<1>. QED BY <1>1, <1>2, <1>3 DEF Extends

----------------------------------------------------------------------------
(* The page allocator: what it may hand out. *)
Avail(pm) == {i \in 0 .. pm.total - 1 : PMM_LOWMEM_PAGES <= i /\ i \notin pm.used}
PmOK(pm) == DOMAIN pm = {"total", "used", "panic", "page"} /\ pm.total \in Nat

(* Both allocators keep the size of memory, and a panic is for good. *)
PmStep(pm, pm2) == /\ PmOK(pm2) /\ pm2.total = pm.total
                   /\ pm2.panic = "none" => pm.panic = "none"

(* pmm_alloc() hands out what was available, once. *)
LEMMA Allocates ==
  ASSUME NEW pm, PmOK(pm)
  PROVE  LET new == pmm_alloc(pm) IN
         /\ new.ret = NULL => new.pm = pm
         /\ new.ret # NULL => new.ret \in Avail(pm)
         /\ new.ret \in Nat
         /\ PmStep(pm, new.pm) /\ new.pm.panic = pm.panic
         /\ Avail(new.pm) = Avail(pm) \ {new.ret}
<1>. DEFINE starts == {s \in FreePages(pm) : FreeRun(pm, s, 1)}
            start == pmm_find_run(pm, 1)
            new == pmm_alloc(pm)
<1>0. PMM_LOWMEM_PAGES \in Nat \ {0}
  BY LowmemAssumption
<1>1. starts \subseteq Avail(pm)
  <2>1. ASSUME NEW s \in starts PROVE s \in Avail(pm)
    <3>1. s \in 0 .. pm.total - 1 /\ FreeRun(pm, s, 1)
      BY DEF FreePages
    <3>2. s \in s .. s + 1 - 1
      BY <3>1 DEF PmOK
    <3>3. pmm_idx_safe(pm, s) /\ s \notin pm.used
      BY <3>1, <3>2 DEF FreeRun
    <3>. QED BY <3>1, <3>3 DEF Avail, pmm_idx_safe
  <2>. QED BY <2>1
<1>2. Avail(pm) \subseteq Nat /\ 0 \notin Avail(pm)
  BY <1>0 DEF Avail, PmOK
<1>3. start = IF starts = {} THEN NULL ELSE Min(starts)
  BY DEF pmm_find_run
<1>4. start # NULL => start \in Avail(pm)
  <2>1. starts # {} => Min(starts) \in starts
    BY <1>1, <1>2, LeastIs
  <2>. HIDE DEF starts
  <2>. QED BY <1>1, <1>3, <2>1
<1>. HIDE DEF start
<1>5. new = MarkRun(pm, start, 1)
  BY DEF pmm_alloc, pmm_alloc_run, start
<1>6. CASE start = NULL
  <2>1. new.pm = pm /\ new.ret = NULL
    BY <1>5, <1>6 DEF MarkRun
  <2>. QED BY <1>2, <2>1 DEF PmStep, NULL
<1>7. CASE start # NULL
  <2>. DEFINE pm2 == [pm EXCEPT !.used = @ \cup (start .. start + 1 - 1), !.page.freed = @ - 1]
  <2>1. new.pm = pm2 /\ new.ret = start
    BY <1>5, <1>7 DEF MarkRun
  <2>2. DOMAIN pm2 = DOMAIN pm /\ pm2.total = pm.total /\ pm2.panic = pm.panic
    BY DEF PmOK
  <2>3. pm2.used = pm.used \cup {start}
    <3>1. start .. start + 1 - 1 = {start}
      BY <1>2, <1>4, <1>7
    <3>. QED BY <3>1 DEF PmOK
  <2>. HIDE DEF pm2
  <2>4. Avail(pm2) = Avail(pm) \ {start}
    BY <2>2, <2>3 DEF Avail
  <2>. QED BY <1>2, <1>4, <1>7, <2>1, <2>2, <2>4 DEF PmStep, PmOK
<1>. QED BY <1>6, <1>7

(* pmm_free() makes at most that frame available. *)
LEMMA Frees ==
  ASSUME NEW pm, PmOK(pm), NEW f \in Nat
  PROVE  PmStep(pm, pmm_free(pm, f)) /\ Avail(pmm_free(pm, f)) \subseteq Avail(pm) \cup {f}
<1>. DEFINE pm2 == pmm_free(pm, f)
            pages == f .. f + 1 - 1
<1>1. pages = {f}
  OBVIOUS
<1>2. \/ pm2 = pm
      \/ pm2 = [pm EXCEPT !.panic = "free out of range"]
      \/ pm2 = [pm EXCEPT !.panic = "double free"]
      \/ pm2 = [pm EXCEPT !.used = @ \ {f}, !.page.freed = @ + 1]
  BY <1>1 DEF pmm_free, pmm_free_pages, Panic
<1>. HIDE DEF pm2
<1>3. DOMAIN pm2 = DOMAIN pm /\ pm2.total = pm.total /\ pm.used \ {f} \subseteq pm2.used
  BY <1>2 DEF PmOK
<1>4. pm2.panic = pm.panic \/ pm2.panic \in {"free out of range", "double free"}
  BY <1>2 DEF PmOK
<1>5. pm2.panic = "none" => pm.panic = "none"
  BY <1>4
<1>. QED BY <1>3, <1>5 DEF pm2, PmStep, PmOK, Avail

(* A way goes on through a present entry. *)
LEMMA PathDown ==
  ASSUME NEW T, NEW root, NEW va, NEW l \in 1 .. Levels, l > 1, NEW p, Path(T, root, va, l, p),
         T[p[l]][Index(va, l)].present, ~ T[p[l]][Index(va, l)].leaf,
         T[p[l]][Index(va, l)].frame \in DOMAIN T
  PROVE  \E q : Path(T, root, va, l - 1, q) /\ q[l - 1] = T[p[l]][Index(va, l)].frame
<1>0. Levels \in Nat \ {0}
  BY LevelsAssumption
<1>. DEFINE g == T[p[l]][Index(va, l)].frame
            q == [j \in l - 1 .. Levels |-> IF j = l - 1 THEN g ELSE p[j]]
<1>1. g \in DOMAIN T
  OBVIOUS
<1>. HIDE DEF g
<1>2. /\ q \in [l - 1 .. Levels -> DOMAIN T] /\ q[Levels] = root /\ q[l - 1] = g
      /\ \A j \in l .. Levels : q[j] = p[j]
  BY <1>0, <1>1 DEF Path
<1>. HIDE DEF q
<1>3. ASSUME NEW j \in l - 1 .. Levels, j > l - 1
      PROVE  /\ T[q[j]][Index(va, j)].present /\ ~ T[q[j]][Index(va, j)].leaf
             /\ T[q[j]][Index(va, j)].frame = q[j - 1]
  <2>1. CASE j = l
    BY <1>0, <1>2, <2>1 DEF g
  <2>2. CASE j > l
    <3>1. j \in l .. Levels /\ j - 1 \in l .. Levels
      BY <1>0, <1>3, <2>2
    <3>. QED BY <1>2, <2>2, <3>1 DEF Path
  <2>. QED BY <1>0, <1>3, <2>1, <2>2
<1>4. Path(T, root, va, l - 1, q)
  BY <1>2, <1>3 DEF Path
<1>. QED BY <1>2, <1>4 DEF g

(* One entry of one table is set. *)
SetSlot(T, t, i, e) == [T EXCEPT ![t] = [T[t] EXCEPT ![i] = e]]

(* One slot of one table is written. *)
LEMMA SlotSet ==
  ASSUME NEW T, T \in [DOMAIN T -> [Slots -> Entry]], NEW t \in DOMAIN T, NEW i \in Slots,
         NEW e \in Entry
  PROVE  /\ DOMAIN SetSlot(T, t, i, e) = DOMAIN T
         /\ SetSlot(T, t, i, e) \in [DOMAIN T -> [Slots -> Entry]]
         /\ SetSlot(T, t, i, e)[t][i] = e
         /\ \A f \in DOMAIN T, j \in Slots : f # t \/ j # i => SetSlot(T, t, i, e)[f][j] = T[f][j]
<1>. DEFINE row == [T[t] EXCEPT ![i] = e]
<1>1. T[t] \in [Slots -> Entry]
  OBVIOUS
<1>2. row \in [Slots -> Entry] /\ row[i] = e /\ \A j \in Slots : j # i => row[j] = T[t][j]
  BY <1>1
<1>. HIDE DEF row
<1>. DEFINE T2 == [T EXCEPT ![t] = row]
<1>3. DOMAIN T2 = DOMAIN T /\ T2[t] = row /\ \A f \in DOMAIN T : f # t => T2[f] = T[f]
  OBVIOUS
<1>4. T2 \in [DOMAIN T -> [Slots -> Entry]]
  BY <1>2
<1>5. SetSlot(T, t, i, e) = T2
  BY DEF SetSlot, row
<1>. HIDE DEF T2
<1>. QED BY <1>2, <1>3, <1>4, <1>5

(* An entry that keeps its frame and loses nothing: the path permissions. *)
LEMMA Repaint ==
  ASSUME NEW T, NEW lev, NEW at, Shaped(T, lev, at), NEW t \in DOMAIN T, NEW i \in Slots,
         NEW e \in Entry, e.present <=> T[t][i].present, e.frame = T[t][i].frame, ~ e.leaf
  PROVE  LET T2 == SetSlot(T, t, i, e) IN
         /\ Shaped(T2, lev, at) /\ Extends(T, lev, at, T2, lev, at) /\ DOMAIN T2 = DOMAIN T
         /\ T2[t][i] = e
<1>. DEFINE T2 == SetSlot(T, t, i, e)
<1>1. T \in [DOMAIN T -> [Slots -> Entry]]
  BY DEF Shaped
<1>2. /\ DOMAIN T2 = DOMAIN T /\ T2 \in [DOMAIN T -> [Slots -> Entry]] /\ T2[t][i] = e
      /\ \A f \in DOMAIN T, j \in Slots : f # t \/ j # i => T2[f][j] = T[f][j]
  BY <1>1, SlotSet
<1>. HIDE DEF T2
<1>3. \A f \in DOMAIN T, j \in Slots :
         (T2[f][j].present <=> T[f][j].present) /\ T2[f][j].frame = T[f][j].frame /\ ~ T2[f][j].leaf
  BY <1>2 DEF Shaped
<1>4. Shaped(T2, lev, at)
  BY <1>2, <1>3 DEF Shaped
<1>5. Extends(T, lev, at, T2, lev, at)
  BY <1>2, <1>3 DEF Extends, Kept, Shaped
<1>. QED BY <1>2, <1>4, <1>5 DEF T2

(* A new, empty table n below slot i of table t. *)
LinkTable(T, t, i, n, e) ==
    SetSlot([f \in DOMAIN T \cup {n} |-> IF f = n THEN EmptyTable ELSE T[f]], t, i, e)

(* A new, empty table is linked where there was none. *)
LEMMA Links ==
  ASSUME NEW T, NEW lev, NEW at, Shaped(T, lev, at), NEW t \in DOMAIN T, NEW i \in Slots,
         lev[t] > 1, ~ T[t][i].present, NEW n \in Nat, n \notin DOMAIN T,
         NEW e \in Entry, e.present, e.frame = n, ~ e.leaf
  PROVE  LET T2 == LinkTable(T, t, i, n, e) IN
         /\ Grows(T, lev, at, T2)
         /\ DOMAIN T2 = DOMAIN T \cup {n} /\ T2[t][i] = e
<1>. DEFINE T1 == [f \in DOMAIN T \cup {n} |-> IF f = n THEN EmptyTable ELSE T[f]]
            T2 == SetSlot(T1, t, i, e)
            l == lev[t]
            lev2 == [f \in DOMAIN T \cup {n} |-> IF f = n THEN l - 1 ELSE lev[f]]
            way == [k \in 1 .. Levels |-> IF k = l THEN i ELSE at[t][k]]
            at2 == [f \in DOMAIN T \cup {n} |-> IF f = n THEN way ELSE at[f]]
<1>0. /\ T \in [DOMAIN T -> [Slots -> Entry]] /\ lev \in [DOMAIN T -> 1 .. Levels]
      /\ at \in [DOMAIN T -> [1 .. Levels -> Slots]] /\ Levels \in Nat \ {0}
  BY LevelsAssumption DEF Shaped
<1>1. NoEntry \in Entry /\ ~ NoEntry.present /\ ~ NoEntry.leaf
  BY DEF NoEntry, Entry, NULL
<1>2. /\ DOMAIN T1 = DOMAIN T \cup {n} /\ T1 \in [DOMAIN T1 -> [Slots -> Entry]] /\ t \in DOMAIN T1
      /\ \A f \in DOMAIN T : T1[f] = T[f]
      /\ \A j \in Slots : T1[n][j] = NoEntry
  BY <1>0, <1>1 DEF EmptyTable
<1>. HIDE DEF T1
<1>3. /\ DOMAIN T2 = DOMAIN T \cup {n} /\ T2 \in [DOMAIN T2 -> [Slots -> Entry]] /\ T2[t][i] = e
      /\ \A f \in DOMAIN T1, j \in Slots : f # t \/ j # i => T2[f][j] = T1[f][j]
  <2>1. /\ DOMAIN T2 = DOMAIN T1 /\ T2 \in [DOMAIN T1 -> [Slots -> Entry]] /\ T2[t][i] = e
        /\ \A f \in DOMAIN T1, j \in Slots : f # t \/ j # i => T2[f][j] = T1[f][j]
    <3>1. T1 \in [DOMAIN T1 -> [Slots -> Entry]] /\ t \in DOMAIN T1 /\ i \in Slots /\ e \in Entry
      BY <1>2
    <3>. QED BY ONLY <3>1, SlotSet
  <2>. QED BY <1>2, <2>1
<1>4. /\ \A f \in DOMAIN T, j \in Slots : f # t \/ j # i => T2[f][j] = T[f][j]
      /\ \A j \in Slots : T2[n][j] = NoEntry
  BY <1>2, <1>3
<1>. HIDE DEF T2
<1>5. /\ l \in 1 .. Levels /\ l - 1 \in 1 .. Levels /\ lev2 \in [DOMAIN T2 -> 1 .. Levels]
      /\ lev2[n] = l - 1 /\ \A f \in DOMAIN T : lev2[f] = lev[f]
  BY <1>0, <1>3
<1>6. way \in [1 .. Levels -> Slots] /\ way[l] = i /\ \A k \in 1 .. Levels : k > l => way[k] = at[t][k]
  BY <1>0, <1>5
<1>. HIDE DEF way
<1>7. /\ at2 \in [DOMAIN T2 -> [1 .. Levels -> Slots]]
      /\ at2[n] = way /\ \A f \in DOMAIN T : at2[f] = at[f]
  BY <1>0, <1>3, <1>6
<1>. HIDE DEF lev2, at2
<1>8. ASSUME NEW f \in DOMAIN T2, NEW j \in Slots
      PROVE  /\ ~ T2[f][j].leaf
             /\ T2[f][j].present /\ lev2[f] > 1 =>
                  T2[f][j].frame \in DOMAIN T2 /\ Child(f, T2[f][j].frame, j, lev2, at2)
  <2>1. CASE f = t /\ j = i
    <3>1. lev2[t] = l /\ at2[t] = at[t] /\ lev2[n] = l - 1 /\ at2[n] = way
      BY <1>5, <1>7
    <3>2. Child(t, n, i, lev2, at2)
      BY <1>6, <3>1 DEF Child
    <3>. QED BY <1>3, <2>1, <3>2
  <2>2. CASE f \in DOMAIN T /\ (f # t \/ j # i)
    <3>1. T2[f][j] = T[f][j]
      BY <1>4, <2>2
    <3>2. /\ ~ T[f][j].leaf
          /\ T[f][j].present /\ lev[f] > 1 =>
               T[f][j].frame \in DOMAIN T /\ Child(f, T[f][j].frame, j, lev, at)
      BY <2>2, ShapedEntry
    <3>3. ASSUME NEW g \in DOMAIN T, Child(f, g, j, lev, at) PROVE Child(f, g, j, lev2, at2)
      <4>1. lev2[f] = lev[f] /\ at2[f] = at[f] /\ lev2[g] = lev[g] /\ at2[g] = at[g]
        BY <1>5, <1>7, <2>2
      <4>. QED BY <3>3, <4>1 DEF Child
    <3>. QED BY <1>3, <1>5, <2>2, <3>1, <3>2, <3>3
  <2>3. CASE f = n
    BY <1>1, <1>4, <2>3
  <2>. QED BY <1>3, <2>1, <2>2, <2>3
<1>9. Shaped(T2, lev2, at2)
  BY <1>3, <1>5, <1>7, <1>8 DEF Shaped
<1>10. Kept(T, T2)
  BY <1>3, <1>4 DEF Kept
<1>11. ASSUME NEW f \in DOMAIN T2, NEW j \in Slots, T2[f][j].present
       PROVE  \/ f \in DOMAIN T /\ T[f][j].present /\ T[f][j].frame = T2[f][j].frame
              \/ lev2[f] > 1 /\ T2[f][j].frame \notin DOMAIN T
  <2>1. CASE f = t /\ j = i
    BY <1>3, <1>5, <2>1
  <2>2. CASE f \in DOMAIN T /\ (f # t \/ j # i)
    BY <1>4, <1>11, <2>2
  <2>3. CASE f = n
    BY <1>1, <1>4, <1>11, <2>3
  <2>. QED BY <1>3, <2>1, <2>2, <2>3
<1>12. Extends(T, lev, at, T2, lev2, at2)
  BY <1>5, <1>7, <1>10, <1>11 DEF Extends
<1>13. Grows(T, lev, at, T2)
  BY <1>9, <1>12 DEF Grows
<1>. QED BY <1>3, <1>13 DEF LinkTable, T2, T1

(* The levels of __vmm_map(). *)
MapDown(down, mm, root, va, frame, perm) ==
    /\ vmm_map(mm, root, va, frame, perm) = SetEntry(down[1], Index(va, 1), frame, perm, FALSE)
    /\ down[Levels] = [m |-> mm, table |-> root, ok |-> TRUE]
    /\ \A l \in 1 .. Levels : l < Levels =>
         down[l] = IF down[l + 1].ok
                   THEN Descend(down[l + 1], l + 1, Index(va, l + 1), perm) ELSE down[l + 1]

(* The levels of __vmm_map(), one after the other. *)
LEMMA MapLevels ==
  ASSUME NEW mm, NEW root, NEW va, NEW frame, NEW perm
  PROVE  \E down : MapDown(down, mm, root, va, frame, perm)
<1>. DEFINE top == [m |-> mm, table |-> root, ok |-> TRUE]
            Below(s, l) == IF s.ok THEN Descend(s, l, Index(va, l), perm) ELSE s
            IsDown(g, k) == g = [l \in k .. Levels |-> IF l = Levels THEN top ELSE Below(g[l + 1], l + 1)]
            down == CHOOSE g : IsDown(g, 1)
<1>0. Levels \in Nat \ {0}
  BY LevelsAssumption
<1>1. vmm_map(mm, root, va, frame, perm) = SetEntry(down[1], Index(va, 1), frame, perm, FALSE)
  BY DEF vmm_map, __vmm_map
<1>. HIDE DEF top, Below
<1>2. \A k \in 1 .. Levels : k \in {j \in 1 .. Levels : \E g : IsDown(g, j)}
  <2>. DEFINE S == {j \in 1 .. Levels : \E g : IsDown(g, j)}
  <2>1. Levels \in S
    <3>. DEFINE g == [l \in Levels .. Levels |-> top]
    <3>1. IsDown(g, Levels)
      BY <1>0
    <3>2. \E f : IsDown(f, Levels)
      BY <3>1
    <3>. QED BY <1>0, <3>2
  <2>2. ASSUME NEW k \in 1 .. Levels, k + 1 \in S, k < Levels PROVE k \in S
    <3>1. PICK g : IsDown(g, k + 1)
      BY <2>2
    <3>. DEFINE h == [l \in k .. Levels |-> IF l = k THEN Below(g[k + 1], k + 1) ELSE g[l]]
    <3>2. \A l \in k + 1 .. Levels : g[l] = IF l = Levels THEN top ELSE Below(g[l + 1], l + 1)
      BY <3>1
    <3>3. ASSUME NEW l \in k .. Levels
          PROVE  h[l] = IF l = Levels THEN top ELSE Below(h[l + 1], l + 1)
      <4>1. CASE l = k
        <5>1. h[l] = Below(g[k + 1], k + 1) /\ h[l + 1] = g[k + 1] /\ l # Levels
          BY <1>0, <2>2, <4>1
        <5>. QED BY <4>1, <5>1
      <4>2. CASE l # k
        <5>1. l \in k + 1 .. Levels /\ h[l] = g[l] /\ (l # Levels => h[l + 1] = g[l + 1])
          BY <1>0, <2>2, <4>2
        <5>. QED BY <3>2, <5>1
      <4>. QED BY <4>1, <4>2
    <3>4. IsDown(h, k)
      BY <3>3
    <3>5. \E f : IsDown(f, k)
      BY <3>4
    <3>. QED BY <3>5
  <2>. HIDE DEF S
  <2>. QED BY <1>0, <2>1, <2>2, DownFrom DEF S
<1>3. IsDown(down, 1)
  <2>1. \E g : IsDown(g, 1)
    BY <1>0, <1>2
  <2>. HIDE DEF IsDown
  <2>. QED BY <2>1
<1>. HIDE DEF down
<1>4. \A l \in 1 .. Levels : down[l] = IF l = Levels THEN top ELSE Below(down[l + 1], l + 1)
  BY <1>3
<1>5. down[Levels] = top /\ \A l \in 1 .. Levels : l < Levels => down[l] = Below(down[l + 1], l + 1)
  BY <1>0, <1>4
<1>6. MapDown(down, mm, root, va, frame, perm)
  BY <1>1, <1>5, Zenon DEF MapDown, top, Below
<1>. QED BY <1>6

(* What __vmm_map() has done on its way to level l. *)
Descended(s, pm, T, lev, at, root, va, l) ==
    /\ s = [m |-> s.m, table |-> s.table, ok |-> s.ok]
    /\ s.m = [pm |-> s.m.pm, tables |-> s.m.tables]
    /\ PmStep(pm, s.m.pm) /\ s.m.pm.panic = pm.panic /\ Avail(s.m.pm) \subseteq Avail(pm)
    /\ DOMAIN s.m.tables \subseteq DOMAIN T \cup (Avail(pm) \ Avail(s.m.pm))
    /\ Grows(T, lev, at, s.m.tables)
    /\ s.ok => \E p : Path(s.m.tables, root, va, l, p) /\ p[l] = s.table
    /\ (\E x : Maps(T, root, va, x)) => s.ok

(* A page that is mapped has a way to each level. *)
LEMMA MapsPresent ==
  ASSUME NEW T, NEW root, NEW va, NEW x, Maps(T, root, va, x), NEW l \in 1 .. Levels, NEW p,
         Path(T, root, va, l, p)
  PROVE  T[p[l]][Index(va, l)].present
<1>0. Levels \in Nat \ {0}
  BY LevelsAssumption
<1>1. PICK q : Path(T, root, va, 1, q) /\ T[q[1]][Index(va, 1)].present
  BY DEF Maps
<1>. DEFINE r == [j \in l .. Levels |-> q[j]]
<1>2. r \in [l .. Levels -> DOMAIN T] /\ r[Levels] = root /\ r[l] = q[l]
  BY <1>0, <1>1 DEF Path
<1>3. ASSUME NEW j \in l .. Levels, j > l
      PROVE  /\ T[r[j]][Index(va, j)].present /\ ~ T[r[j]][Index(va, j)].leaf
             /\ T[r[j]][Index(va, j)].frame = r[j - 1]
  <2>1. j \in 1 .. Levels /\ j > 1 /\ r[j] = q[j] /\ r[j - 1] = q[j - 1]
    BY <1>0, <1>3
  <2>. QED BY <1>1, <2>1 DEF Path
<1>. HIDE DEF r
<1>4. Path(T, root, va, l, r)
  BY <1>2, <1>3 DEF Path
<1>5. p[l] = q[l]
  BY <1>0, <1>2, <1>4, PathOnce
<1>6. CASE l = 1
  BY <1>1, <1>5, <1>6
<1>7. CASE l > 1
  BY <1>1, <1>5, <1>7 DEF Path
<1>. QED BY <1>0, <1>6, <1>7

Perms == SUBSET {"U", "W", "NX"}

(* One level down: the way so far is kept, and goes one table further. *)
LEMMA DescendStep ==
  ASSUME NEW pm, PmOK(pm), NEW T, NEW lev, NEW at, NEW root \in DOMAIN T, lev[root] = Levels,
         DOMAIN T \cap Avail(pm) = {}, NEW va \in Nat, NEW l \in 1 .. Levels, l > 1,
         NEW perm \in Perms, NEW s, s.ok, Descended(s, pm, T, lev, at, root, va, l)
  PROVE  Descended(Descend(s, l, Index(va, l), perm), pm, T, lev, at, root, va, l - 1)
<1>0. Levels \in Nat \ {0}
  BY LevelsAssumption
<1>. DEFINE pm1 == s.m.pm
            T1 == s.m.tables
            t == s.table
            i == Index(va, l)
            e == T1[t][i]
            r == Descend(s, l, i, perm)
<1>1. /\ s = [m |-> [pm |-> pm1, tables |-> T1], table |-> t, ok |-> s.ok]
      /\ PmStep(pm, pm1) /\ pm1.panic = pm.panic /\ Avail(pm1) \subseteq Avail(pm)
      /\ DOMAIN T1 \subseteq DOMAIN T \cup (Avail(pm) \ Avail(pm1))
  BY DEF Descended
<1>2. PICK lev1, at1 : Shaped(T1, lev1, at1) /\ Extends(T, lev, at, T1, lev1, at1)
  BY DEF Descended, Grows
<1>3. PICK p : Path(T1, root, va, l, p) /\ p[l] = t
  BY DEF Descended
<1>4. lev1[root] = Levels
  BY <1>2 DEF Extends
<1>5. i \in Slots /\ t \in DOMAIN T1
  BY <1>0, <1>3, IndexSlot DEF Path
<1>6. lev1[t] = l
  BY <1>0, <1>2, <1>3, <1>4, PathShape
<1>7. e \in Entry /\ ~ e.leaf /\ (e.present => e.frame \in DOMAIN T1)
  BY <1>2, <1>5, <1>6, ShapedEntry
<1>10. (\E x : Maps(T, root, va, x)) => e.present
  <2>1. SUFFICES ASSUME NEW x, Maps(T, root, va, x) PROVE e.present
    OBVIOUS
  <2>2. Kept(T, T1)
    BY <1>2 DEF Extends
  <2>3. Maps(T1, root, va, x)
    BY <2>1, <2>2, KeptMaps
  <2>. QED BY <1>3, <2>3, MapsPresent
<1>8. CASE e.present
  <2>. DEFINE e2 == [e EXCEPT !.perm = @ \cup PathPerm(perm)]
              T2 == SetSlot(T1, t, i, e2)
  <2>1. e2 \in Entry /\ (e2.present <=> e.present) /\ e2.frame = e.frame /\ ~ e2.leaf
    <3>1. PathPerm(perm) \in Perms
      BY DEF PathPerm, Perms
    <3>. QED BY <1>7, <3>1 DEF Entry, Perms
  <2>2. r = [m |-> [pm |-> pm1, tables |-> T2], table |-> e.frame, ok |-> s.ok]
    <3>1. r = [s EXCEPT !.m.tables[t][i].perm = @ \cup PathPerm(perm), !.table = e.frame]
      BY <1>7, <1>8 DEF Descend
    <3>2. r = [s EXCEPT !.m = [s.m EXCEPT !.tables = T2], !.table = e.frame]
      BY <3>1 DEF SetSlot
    <3>. HIDE DEF T2, r, e
    <3>3. [s.m EXCEPT !.tables = T2] = [pm |-> pm1, tables |-> T2]
      BY <1>1
    <3>. HIDE DEF pm1, T1, t
    <3>. QED BY ONLY <1>1, <3>2, <3>3
  <2>. HIDE DEF e2
  <2>3. /\ Shaped(T2, lev1, at1) /\ Extends(T1, lev1, at1, T2, lev1, at1) /\ DOMAIN T2 = DOMAIN T1
        /\ T2[t][i] = e2
    BY <1>2, <1>5, <1>7, <2>1, Repaint
  <2>. HIDE DEF T2
  <2>4. Grows(T, lev, at, T2)
    BY <1>2, <2>3, ExtendsTwice DEF Grows
  <2>5. Path(T2, root, va, l, p)
    BY SMTT(60), <1>3, <2>3, KeptPath DEF Extends
  <2>6. \E q : Path(T2, root, va, l - 1, q) /\ q[l - 1] = e.frame
    BY <1>3, <1>7, <1>8, <2>1, <2>3, <2>5, PathDown
  <2>7. r.m = [pm |-> pm1, tables |-> T2] /\ r.table = e.frame /\ r.m.pm = pm1 /\ r.m.tables = T2
    BY <2>2
  <2>8. /\ r = [m |-> r.m, table |-> r.table, ok |-> r.ok] /\ r.m = [pm |-> r.m.pm, tables |-> r.m.tables]
        /\ r.ok
    BY <2>2
  <2>. HIDE DEF r
  <2>9. Descended(r, pm, T, lev, at, root, va, l - 1)
    BY <1>1, <2>3, <2>4, <2>6, <2>7, <2>8 DEF Descended
  <2>. QED BY SMTT(60), <2>9 DEF r
<1>9. CASE ~ e.present
  <2>. DEFINE new == pmm_alloc(pm1)
              n == new.ret
              e2 == Pointer(n, PathPerm(perm))
              T2 == LinkTable(T1, t, i, n, e2)
  <2>0. PmOK(pm1)
    BY <1>1 DEF PmStep
  <2>1. /\ n = NULL => new.pm = pm1
        /\ n # NULL => n \in Avail(pm1)
        /\ n \in Nat /\ PmStep(pm1, new.pm) /\ new.pm.panic = pm1.panic
        /\ Avail(new.pm) = Avail(pm1) \ {n}
    BY <2>0, Allocates
  <2>2. r = NewTable(s, i, new, EmptyTable, perm)
    BY <1>7, <1>9 DEF Descend
  <2>3. CASE n = NULL
    <3>1. r = [s EXCEPT !.ok = FALSE]
      BY <2>2, <2>3 DEF NewTable
    <3>2. /\ r.m = s.m /\ r.ok = FALSE /\ r = [m |-> r.m, table |-> r.table, ok |-> r.ok]
      BY <1>1, <3>1
    <3>. HIDE DEF r
    <3>3. Descended(r, pm, T, lev, at, root, va, l - 1)
      BY <1>1, <1>2, <1>9, <1>10, <3>2 DEF Descended
    <3>. QED BY <3>3 DEF r
  <2>4. CASE n # NULL
    <3>1. n \in Nat /\ n \notin DOMAIN T1
      BY <1>1, <2>1, <2>4
    <3>2. e2 \in Entry /\ e2.present /\ e2.frame = n /\ ~ e2.leaf
      <4>1. PathPerm(perm) \in Perms
        BY DEF PathPerm, Perms
      <4>. QED BY <3>1, <4>1 DEF Pointer, Entry, Perms
    <3>3. r = [m |-> [pm |-> new.pm, tables |-> T2], table |-> n, ok |-> TRUE]
      <4>. DEFINE A == [f \in DOMAIN T1 \cup {n} |-> IF f = n THEN EmptyTable ELSE T1[f]]
      <4>1. AddTable(s.m, new, EmptyTable) = [pm |-> new.pm, tables |-> A]
        BY DEF AddTable
      <4>2. r = [m |-> [AddTable(s.m, new, EmptyTable) EXCEPT !.tables[t][i] = e2], table |-> n, ok |-> TRUE]
        BY <2>2, <2>4 DEF NewTable
      <4>3. T2 = [A EXCEPT ![t][i] = e2]
        BY DEF LinkTable, SetSlot
      <4>4. \A x, y : [[pm |-> x, tables |-> y] EXCEPT !.tables[t][i] = e2]
                      = [pm |-> x, tables |-> [y EXCEPT ![t][i] = e2]]
        OBVIOUS
      <4>. HIDE DEF A, e2, T2, r
      <4>5. [AddTable(s.m, new, EmptyTable) EXCEPT !.tables[t][i] = e2] = [pm |-> new.pm, tables |-> T2]
        BY <4>1, <4>3, <4>4
      <4>. QED BY <4>2, <4>5
    <3>. HIDE DEF e2
    <3>4. /\ Grows(T1, lev1, at1, T2)
          /\ DOMAIN T2 = DOMAIN T1 \cup {n} /\ T2[t][i] = e2
      <4>1. Shaped(T1, lev1, at1) /\ t \in DOMAIN T1 /\ i \in Slots /\ lev1[t] > 1 /\ ~ T1[t][i].present
        BY <1>0, <1>2, <1>5, <1>6, <1>9
      <4>. HIDE DEF T1, t, i, n
      <4>. QED BY ONLY <3>1, <3>2, <4>1, Links DEF T2
    <3>. HIDE DEF T2
    <3>5. PICK lev2, at2 : Shaped(T2, lev2, at2) /\ Extends(T1, lev1, at1, T2, lev2, at2)
      BY <3>4 DEF Grows
    <3>6. Grows(T, lev, at, T2)
      BY <1>2, <3>5, ExtendsTwice DEF Grows
    <3>7. Path(T2, root, va, l, p)
      BY <1>3, <3>5, KeptPath DEF Extends
    <3>8. \E q : Path(T2, root, va, l - 1, q) /\ q[l - 1] = n
      <4>1. T2[p[l]][i].present /\ ~ T2[p[l]][i].leaf /\ T2[p[l]][i].frame = n /\ n \in DOMAIN T2
        BY <1>3, <3>2, <3>4
      <4>. QED BY <3>7, <4>1, PathDown
    <3>9. r.m = [pm |-> new.pm, tables |-> T2] /\ r.table = n /\ r.m.pm = new.pm /\ r.m.tables = T2
      BY <3>3
    <3>10. /\ r = [m |-> r.m, table |-> r.table, ok |-> r.ok] /\ r.m = [pm |-> r.m.pm, tables |-> r.m.tables]
           /\ r.ok
      BY <3>3
    <3>11. PmStep(pm, new.pm) /\ new.pm.panic = pm.panic /\ Avail(new.pm) \subseteq Avail(pm)
      BY <1>1, <2>1 DEF PmStep
    <3>12. DOMAIN T2 \subseteq DOMAIN T \cup (Avail(pm) \ Avail(new.pm))
      BY <1>1, <2>1, <2>4, <3>4
    <3>. HIDE DEF r
    <3>13. Descended(r, pm, T, lev, at, root, va, l - 1)
      BY <3>5, <3>6, <3>8, <3>9, <3>10, <3>11, <3>12 DEF Descended
    <3>. QED BY <3>13 DEF r
  <2>. QED BY <2>3, <2>4
<1>. QED BY <1>8, <1>9

(* The page table does not tell the pages a and b apart. *)
SameSlots(a, b) == \A l \in 1 .. Levels : Index(a, l) = Index(b, l)

(* A present entry of T2 is one of T, leads to a new table, or is the one  *)
(* at the bottom that maps va, to one of the frames given.                 *)
OneMore(T, T2, lev2, at2, va, frames) ==
    \A f \in DOMAIN T2, i \in Slots : T2[f][i].present =>
      \/ f \in DOMAIN T /\ T[f][i].present /\ T[f][i].frame = T2[f][i].frame
      \/ lev2[f] > 1 /\ T2[f][i].frame \notin DOMAIN T
      \/ /\ lev2[f] = 1 /\ i = Index(va, 1) /\ T2[f][i].frame \in frames
         /\ \A k \in 1 .. Levels : k > 1 => at2[f][k] = Index(va, k)

(* With one more entry at the bottom only the pages of its slots are       *)
(* mapped anew.                                                            *)
LEMMA NewMaps ==
  ASSUME NEW T, NEW lev, NEW at, Shaped(T, lev, at), NEW T2, NEW lev2, NEW at2, Shaped(T2, lev2, at2),
         NEW va, NEW frames, OneMore(T, T2, lev2, at2, va, frames),
         NEW root, lev2[root] = Levels, NEW vb \in Nat, NEW x, Maps(T2, root, vb, x)
  PROVE  Maps(T, root, vb, x) \/ (x \in frames /\ SameSlots(va, vb))
<1>0. Levels \in Nat \ {0}
  BY LevelsAssumption
<1>1. PICK p : /\ Path(T2, root, vb, 1, p)
               /\ T2[p[1]][Index(vb, 1)].present /\ T2[p[1]][Index(vb, 1)].frame = x
  BY DEF Maps
<1>2. \A j \in 1 .. Levels :
         /\ lev2[p[j]] = j /\ p[j] \in DOMAIN T2 /\ Index(vb, j) \in Slots
         /\ \A k \in 1 .. Levels : k > j => at2[p[j]][k] = Index(vb, k)
  <2>1. \A j \in 1 .. Levels :
           lev2[p[j]] = j /\ \A k \in 1 .. Levels : k > j => at2[p[j]][k] = Index(vb, k)
    <3>1. 1 \in 1 .. Levels
      BY <1>0
    <3>. QED BY <1>1, <3>1, PathShape
  <2>2. \A j \in 1 .. Levels : p[j] \in DOMAIN T2 /\ Index(vb, j) \in Slots
    BY <1>1, IndexSlot DEF Path
  <2>. QED BY <2>1, <2>2
<1>3. CASE /\ Index(vb, 1) = Index(va, 1) /\ x \in frames
           /\ \A k \in 1 .. Levels : k > 1 => at2[p[1]][k] = Index(va, k)
  <2>1. ASSUME NEW l \in 1 .. Levels PROVE Index(va, l) = Index(vb, l)
    <3>1. CASE l = 1
      BY <1>3, <3>1
    <3>2. CASE l > 1
      BY <1>0, <1>2, <1>3, <3>2
    <3>. QED BY <1>0, <3>1, <3>2
  <2>. QED BY <1>3, <2>1 DEF SameSlots
<1>4. CASE p[1] \in DOMAIN T /\ T[p[1]][Index(vb, 1)].present /\ T[p[1]][Index(vb, 1)].frame = x
  <2>. DEFINE OK(j) == p[j] \in DOMAIN T /\ (j > 1 => /\ T[p[j]][Index(vb, j)].present
                                                      /\ T[p[j]][Index(vb, j)].frame = p[j - 1])
              S == {n \in 0 .. Levels - 1 : OK(n + 1)}
  <2>1. 0 \in S
    BY <1>0, <1>4
  <2>2. ASSUME NEW n \in 0 .. Levels - 1, n \in S, n < Levels - 1 PROVE n + 1 \in S
    <3>. DEFINE j == n + 2
    <3>1. j \in 1 .. Levels /\ j > 1 /\ j - 1 = n + 1 /\ p[j - 1] \in DOMAIN T /\ (n + 1) + 1 = j
      BY <1>0, <2>2
    <3>2. T2[p[j]][Index(vb, j)].present /\ T2[p[j]][Index(vb, j)].frame = p[j - 1]
      BY <1>0, <1>1, <3>1 DEF Path
    <3>3. lev2[p[j]] # 1 /\ p[j] \in DOMAIN T2 /\ Index(vb, j) \in Slots
      BY <1>0, <1>2, <3>1
    <3>. HIDE DEF j
    <3>4. p[j] \in DOMAIN T /\ T[p[j]][Index(vb, j)].present /\ T[p[j]][Index(vb, j)].frame = p[j - 1]
      BY <3>1, <3>2, <3>3 DEF OneMore
    <3>5. OK((n + 1) + 1) /\ n + 1 \in 0 .. Levels - 1
      BY <1>0, <2>2, <3>1, <3>4
    <3>. QED BY <3>5
  <2>3. S \in SUBSET (0 .. Levels - 1) /\ Levels - 1 \in Nat
    BY <1>0
  <2>. HIDE DEF S
  <2>4. \A n \in 0 .. Levels - 1 : n \in S
    BY <2>1, <2>2, <2>3, UpFrom
  <2>5. ASSUME NEW j \in 1 .. Levels PROVE OK(j)
    <3>1. j - 1 \in 0 .. Levels - 1 /\ (j - 1) + 1 = j
      BY <1>0
    <3>2. OK((j - 1) + 1)
      BY <2>4, <3>1 DEF S
    <3>. QED BY <3>1, <3>2
  <2>6. p \in [1 .. Levels -> DOMAIN T] /\ p[Levels] = root
    BY <1>0, <1>1, <2>5 DEF Path
  <2>7. ASSUME NEW j \in 1 .. Levels, j > 1
        PROVE  /\ T[p[j]][Index(vb, j)].present /\ ~ T[p[j]][Index(vb, j)].leaf
               /\ T[p[j]][Index(vb, j)].frame = p[j - 1]
    <3>1. p[j] \in DOMAIN T /\ Index(vb, j) \in Slots
      BY <1>2, <2>5
    <3>. QED BY <2>5, <2>7, <3>1, ShapedEntry
  <2>8. Path(T, root, vb, 1, p)
    BY <2>6, <2>7 DEF Path
  <2>. QED BY <1>4, <2>8 DEF Maps
<1>5. 1 \in 1 .. Levels
  BY <1>0
<1>. QED BY <1>1, <1>2, <1>3, <1>4, <1>5 DEF OneMore

(* vmm_map(): every mapping is kept; if it succeeds va is mapped to the    *)
(* frame, and nothing else is new; a page that is mapped is not mapped     *)
(* again. Tables are taken from what was available, and kept from it.      *)
MapResult(v, pm, T, lev, at, root, va, frame) ==
    /\ v.m = [pm |-> v.m.pm, tables |-> v.m.tables]
    /\ PmStep(pm, v.m.pm) /\ Avail(v.m.pm) \subseteq Avail(pm)
    /\ DOMAIN v.m.tables \subseteq DOMAIN T \cup (Avail(pm) \ Avail(v.m.pm))
    /\ \E lev2, at2 : /\ Shaped(v.m.tables, lev2, at2)
                      /\ \A f \in DOMAIN T : lev2[f] = lev[f] /\ at2[f] = at[f]
    /\ Kept(T, v.m.tables)
    /\ v.ok => Maps(v.m.tables, root, va, frame)
    /\ \A vb \in Nat : \A x : Maps(v.m.tables, root, vb, x) =>
         Maps(T, root, vb, x) \/ (v.ok /\ x = frame /\ SameSlots(va, vb))
    /\ \A x : Maps(T, root, va, x) => v.m.pm.panic # "none" /\ ~ v.ok

(* What vmm_map() does to the mappings, whether or not it succeeds. *)
LEMMA MapWorks ==
  ASSUME NEW pm, PmOK(pm), NEW T, NEW lev, NEW at, Shaped(T, lev, at), NEW root \in DOMAIN T,
         lev[root] = Levels, DOMAIN T \cap Avail(pm) = {}, NEW va \in Nat, NEW frame \in Nat,
         NEW perm \in Perms, NEW mm, mm = [pm |-> pm, tables |-> T],
         NEW v, v = vmm_map(mm, root, va, frame, perm)
  PROVE  MapResult(v, pm, T, lev, at, root, va, frame)
<1>0. Levels \in Nat \ {0}
  BY LevelsAssumption
<1>1a. PICK down : MapDown(down, mm, root, va, frame, perm)
  BY MapLevels
<1>1. /\ v = SetEntry(down[1], Index(va, 1), frame, perm, FALSE)
      /\ down[Levels] = [m |-> mm, table |-> root, ok |-> TRUE]
      /\ \A l \in 1 .. Levels : l < Levels =>
           down[l] = IF down[l + 1].ok
                     THEN Descend(down[l + 1], l + 1, Index(va, l + 1), perm) ELSE down[l + 1]
  BY <1>1a DEF MapDown
<1>. DEFINE S == {l \in 1 .. Levels : Descended(down[l], pm, T, lev, at, root, va, l)}
<1>2. Levels \in S
  <2>. DEFINE s == down[Levels]
              p == [j \in Levels .. Levels |-> root]
  <2>1. /\ s = [m |-> s.m, table |-> s.table, ok |-> s.ok] /\ s.m = [pm |-> s.m.pm, tables |-> s.m.tables]
        /\ s.m.pm = pm /\ s.m.tables = T /\ s.table = root /\ s.ok
    BY <1>1
  <2>2. Grows(T, lev, at, T)
    BY DEF Grows, Extends, Kept
  <2>3. Path(T, root, va, Levels, p) /\ p[Levels] = root
    BY <1>0 DEF Path
  <2>4. PmStep(pm, pm)
    BY DEF PmStep
  <2>. HIDE DEF s, p
  <2>5. Descended(s, pm, T, lev, at, root, va, Levels)
    BY <2>1, <2>2, <2>3, <2>4 DEF Descended
  <2>. QED BY <1>0, <2>5 DEF s
<1>3. ASSUME NEW l \in 1 .. Levels, l + 1 \in S, l < Levels PROVE l \in S
  <2>1. l + 1 \in 1 .. Levels /\ l + 1 > 1 /\ (l + 1) - 1 = l
    BY <1>0, <1>3
  <2>2. Descended(down[l + 1], pm, T, lev, at, root, va, l + 1)
    BY <1>3
  <2>3. CASE down[l + 1].ok
    <3>1. down[l] = Descend(down[l + 1], l + 1, Index(va, l + 1), perm)
      BY <1>1, <1>3, <2>3
    <3>2. Descended(Descend(down[l + 1], l + 1, Index(va, l + 1), perm), pm, T, lev, at, root, va, (l + 1) - 1)
      BY <2>1, <2>2, <2>3, DescendStep
    <3>. QED BY <2>1, <3>1, <3>2
  <2>4. CASE ~ down[l + 1].ok
    <3>1. down[l] = down[l + 1]
      BY <1>1, <1>3, <2>4
    <3>2. Descended(down[l], pm, T, lev, at, root, va, l)
      BY <2>2, <2>4, <3>1 DEF Descended
    <3>. QED BY <3>2
  <2>. QED BY <2>3, <2>4
<1>4. S \in SUBSET (1 .. Levels)
  OBVIOUS
<1>. HIDE DEF S
<1>5. Descended(down[1], pm, T, lev, at, root, va, 1)
  <2>1. 1 \in S
    BY <1>0, <1>2, <1>3, <1>4, DownFrom
  <2>. QED BY <2>1 DEF S
<1>6. PICK s : v = SetEntry(s, Index(va, 1), frame, perm, FALSE) /\ Descended(s, pm, T, lev, at, root, va, 1)
  BY <1>1, <1>5
<1>7. PICK pm1, T1, t, i :
      /\ i = Index(va, 1) /\ s = [m |-> [pm |-> pm1, tables |-> T1], table |-> t, ok |-> s.ok]
      /\ PmStep(pm, pm1) /\ pm1.panic = pm.panic /\ Avail(pm1) \subseteq Avail(pm)
      /\ DOMAIN T1 \subseteq DOMAIN T \cup (Avail(pm) \ Avail(pm1))
      /\ s.ok => \E p : Path(T1, root, va, 1, p) /\ p[1] = t
      /\ (\E x : Maps(T, root, va, x)) => s.ok
      /\ Grows(T, lev, at, T1)
  <2>. DEFINE pm1 == s.m.pm
              T1 == s.m.tables
              t == s.table
              i == Index(va, 1)
  <2>1. /\ i = Index(va, 1) /\ s = [m |-> [pm |-> pm1, tables |-> T1], table |-> t, ok |-> s.ok]
        /\ PmStep(pm, pm1) /\ pm1.panic = pm.panic /\ Avail(pm1) \subseteq Avail(pm)
        /\ DOMAIN T1 \subseteq DOMAIN T \cup (Avail(pm) \ Avail(pm1))
        /\ s.ok => \E p : Path(T1, root, va, 1, p) /\ p[1] = t
        /\ (\E x : Maps(T, root, va, x)) => s.ok
        /\ Grows(T, lev, at, T1)
    BY <1>6 DEF Descended
  <2>. HIDE DEF pm1, T1, t, i
  <2>. QED BY <2>1
<1>8. PICK lev1, at1 : Shaped(T1, lev1, at1) /\ Extends(T, lev, at, T1, lev1, at1)
  BY <1>7 DEF Grows
<1>9. i \in Slots /\ lev1[root] = Levels /\ Kept(T, T1)
  BY <1>0, <1>7, <1>8, IndexSlot DEF Extends
<1>10. ASSUME NEW vb \in Nat, NEW x, Maps(T1, root, vb, x) PROVE Maps(T, root, vb, x)
  <2>1. OneMore(T, T1, lev1, at1, va, {})
    BY <1>8 DEF Extends, OneMore
  <2>. QED BY <1>8, <1>9, <1>10, <2>1, NewMaps
<1>11. ASSUME NEW x, Maps(T, root, va, x) PROVE s.ok /\ T1[t][i].present
  <2>1. s.ok
    BY <1>7, <1>11
  <2>2. PICK p : Path(T1, root, va, 1, p) /\ p[1] = t
    BY <1>7, <2>1
  <2>3. Maps(T1, root, va, x)
    BY <1>9, <1>11, KeptMaps
  <2>4. T1[p[1]][Index(va, 1)].present
    <3>1. 1 \in 1 .. Levels
      BY <1>0
    <3>. QED BY <2>2, <2>3, <3>1, MapsPresent
  <2>. QED BY <1>7, <2>1, <2>2, <2>4
<1>12. CASE ~ s.ok
  <2>0. s.m = [pm |-> pm1, tables |-> T1]
    BY <1>7
  <2>1. v = [m |-> [pm |-> pm1, tables |-> T1], ok |-> FALSE]
    BY <1>6, <1>12, <2>0 DEF SetEntry
  <2>2. v.m = [pm |-> pm1, tables |-> T1] /\ v.m.pm = pm1 /\ v.m.tables = T1 /\ v.ok = FALSE
    BY <2>1
  <2>3. \E lev2, at2 : Shaped(T1, lev2, at2) /\ \A f \in DOMAIN T : lev2[f] = lev[f] /\ at2[f] = at[f]
    BY <1>8 DEF Extends
  <2>. QED BY <1>7, <1>9, <1>10, <1>11, <1>12, <2>2, <2>3 DEF MapResult
<1>13. CASE s.ok /\ T1[t][i].present
  <2>. DEFINE pm2 == Panic(pm1, "overwriting mapping")
  <2>1. v = [m |-> [pm |-> pm2, tables |-> T1], ok |-> FALSE]
    <3>1. s.m = [pm |-> pm1, tables |-> T1] /\ s.table = t
      BY <1>7
    <3>2. \A x, y, z : [[pm |-> x, tables |-> y] EXCEPT !.pm = z] = [pm |-> z, tables |-> y]
      OBVIOUS
    <3>3. v = [m |-> [s.m EXCEPT !.pm = Panic(@, "overwriting mapping")], ok |-> FALSE]
      <4>1. s.m.tables[s.table][Index(va, 1)].present
        BY <1>7, <1>13, <3>1
      <4>. QED BY <1>6, <1>13, <4>1 DEF SetEntry
    <3>4. s.m.pm = pm1
      BY <3>1
    <3>. HIDE DEF pm2
    <3>5. v = [m |-> [s.m EXCEPT !.pm = pm2], ok |-> FALSE]
      BY <3>3, <3>4 DEF pm2
    <3>6. [s.m EXCEPT !.pm = pm2] = [pm |-> pm2, tables |-> T1]
      BY ONLY <3>1, <3>2
    <3>. QED BY ONLY <3>5, <3>6
  <2>3. DOMAIN pm2 = DOMAIN pm1 /\ pm2.total = pm1.total /\ pm2.used = pm1.used /\ pm2.panic = "overwriting mapping"
    BY <1>7 DEF PmStep, PmOK, Panic
  <2>. HIDE DEF pm2
  <2>2. v.m = [pm |-> pm2, tables |-> T1] /\ v.m.pm = pm2 /\ v.m.tables = T1 /\ v.ok = FALSE
    BY <2>1
  <2>4. PmStep(pm, pm2) /\ Avail(pm2) = Avail(pm1) /\ pm2.panic # "none"
    BY <1>7, <2>3 DEF PmStep, PmOK, Avail
  <2>5. \E lev2, at2 : Shaped(T1, lev2, at2) /\ \A f \in DOMAIN T : lev2[f] = lev[f] /\ at2[f] = at[f]
    BY <1>8 DEF Extends
  <2>. QED BY <1>7, <1>9, <1>10, <2>2, <2>4, <2>5 DEF MapResult
<1>14. CASE s.ok /\ ~ T1[t][i].present
  <2>. DEFINE e == Pointer(frame, perm)
              T2 == SetSlot(T1, t, i, e)
  <2>0. PICK p : Path(T1, root, va, 1, p) /\ p[1] = t
    BY <1>7, <1>14
  <2>1. t \in DOMAIN T1 /\ lev1[t] = 1 /\ \A k \in 1 .. Levels : k > 1 => at1[t][k] = Index(va, k)
    <3>1. 1 \in 1 .. Levels /\ t \in DOMAIN T1
      BY <1>0, <2>0 DEF Path
    <3>. QED BY <1>8, <1>9, <2>0, <3>1, PathShape
  <2>2. e \in Entry /\ e.present /\ e.frame = frame /\ ~ e.leaf
    BY DEF Pointer, Entry, Perms
  <2>3. v = [m |-> [pm |-> pm1, tables |-> T2], ok |-> TRUE]
    <3>1. s.m = [pm |-> pm1, tables |-> T1] /\ s.table = t
      BY <1>7
    <3>2. [s.m EXCEPT !.tables[t][i] = e] = [pm |-> pm1, tables |-> T2]
      BY <3>1 DEF SetSlot
    <3>3. v = [m |-> [s.m EXCEPT !.tables[s.table][Index(va, 1)] = e], ok |-> TRUE]
      <4>1. ~ s.m.tables[s.table][Index(va, 1)].present
        BY <1>7, <1>14, <3>1
      <4>. QED BY <1>6, <1>14, <4>1 DEF SetEntry
    <3>. HIDE DEF e, T2
    <3>. QED BY <1>7, <3>1, <3>2, <3>3
  <2>4. v.m = [pm |-> pm1, tables |-> T2] /\ v.m.pm = pm1 /\ v.m.tables = T2 /\ v.ok
    BY <2>3
  <2>. HIDE DEF e
  <2>5. /\ DOMAIN T2 = DOMAIN T1 /\ T2 \in [DOMAIN T1 -> [Slots -> Entry]] /\ T2[t][i] = e
        /\ \A f \in DOMAIN T1, j \in Slots : f # t \/ j # i => T2[f][j] = T1[f][j]
    <3>1. T1 \in [DOMAIN T1 -> [Slots -> Entry]]
      BY <1>8 DEF Shaped
    <3>2. t \in DOMAIN T1 /\ i \in Slots /\ e \in Entry
      BY <1>9, <2>1, <2>2
    <3>. QED BY ONLY <3>1, <3>2, SlotSet
  <2>. HIDE DEF T2
  <2>6. Shaped(T2, lev1, at1)
    <3>1. ASSUME NEW f \in DOMAIN T2, NEW j \in Slots
          PROVE  /\ ~ T2[f][j].leaf
                 /\ T2[f][j].present /\ lev1[f] > 1 =>
                      T2[f][j].frame \in DOMAIN T2 /\ Child(f, T2[f][j].frame, j, lev1, at1)
      <4>1. CASE f = t /\ j = i
        BY <2>1, <2>2, <2>5, <4>1
      <4>2. CASE f # t \/ j # i
        BY <1>8, <2>5, <4>2, ShapedEntry
      <4>. QED BY <4>1, <4>2
    <3>. QED BY <1>8, <2>5, <3>1 DEF Shaped
  <2>7. Kept(T1, T2)
    BY <1>14, <2>5 DEF Kept
  <2>8. Kept(T, T2)
    BY <1>9, <2>7 DEF Kept
  <2>9. OneMore(T, T2, lev1, at1, va, {frame})
    <3>1. ASSUME NEW f \in DOMAIN T2, NEW j \in Slots, T2[f][j].present, f # t \/ j # i
          PROVE  \/ f \in DOMAIN T /\ T[f][j].present /\ T[f][j].frame = T2[f][j].frame
                 \/ lev1[f] > 1 /\ T2[f][j].frame \notin DOMAIN T
      <4>1. T2[f][j] = T1[f][j] /\ f \in DOMAIN T1
        BY <2>5, <3>1
      <4>. QED BY <1>8, <3>1, <4>1 DEF Extends
    <3>. QED BY <1>7, <2>1, <2>2, <2>5, <3>1 DEF OneMore
  <2>10. Maps(T2, root, va, frame)
    <3>1. Path(T2, root, va, 1, p)
      <4>1. 1 \in 1 .. Levels
        BY <1>0
      <4>. QED BY <2>0, <2>7, <4>1, KeptPath
    <3>. QED BY <1>7, <2>0, <2>2, <2>5, <3>1 DEF Maps
  <2>11. ASSUME NEW vb \in Nat, NEW x, Maps(T2, root, vb, x)
         PROVE  Maps(T, root, vb, x) \/ (x = frame /\ SameSlots(va, vb))
    BY ONLY Shaped(T, lev, at), vb \in Nat, <1>9, <2>6, <2>9, <2>11, NewMaps
  <2>12. \E lev2, at2 : Shaped(T2, lev2, at2) /\ \A f \in DOMAIN T : lev2[f] = lev[f] /\ at2[f] = at[f]
    BY <1>8, <2>6 DEF Extends
  <2>13. \A x : ~ Maps(T, root, va, x)
    BY <1>11, <1>14
  <2>. QED BY <1>7, <2>4, <2>5, <2>8, <2>10, <2>11, <2>12, <2>13 DEF MapResult
<1>. QED BY <1>12, <1>13, <1>14

(* vmm_unmap() of a mapped page: at most that page's entry is cleared. *)
LEMMA UnmapTable ==
  ASSUME NEW pm, NEW T, NEW mm, mm = [pm |-> pm, tables |-> T], NEW root, NEW va, NEW p,
         Path(T, root, va, 1, p)
  PROVE  \/ vmm_unmap(mm, root, va).m = mm
         \/ vmm_unmap(mm, root, va).m = [pm |-> pm, tables |-> SetSlot(T, p[1], Index(va, 1), NoEntry)]
<1>0. Levels \in Nat \ {0}
  BY LevelsAssumption
<1>. DEFINE Up(up, l) == IF up = NULL THEN NULL
                         ELSE IF mm.tables[up][Index(va, l + 1)].present
                         THEN mm.tables[up][Index(va, l + 1)].frame
                         ELSE NULL
            IsAt(g) == g = [l \in 1 .. Levels |-> IF l = Levels THEN root ELSE Up(g[l + 1], l)]
            a == CHOOSE g : IsAt(g)
            h == [l \in 1 .. Levels |-> IF \E j \in 1 .. Levels : j > l /\ p[j] = NULL THEN NULL ELSE p[l]]
<1>1. vmm_unmap(mm, root, va) =
        IF a[1] = NULL THEN [m |-> mm, ok |-> FALSE]
        ELSE [m |-> [mm EXCEPT !.tables[a[1]][Index(va, 1)] = NoEntry], ok |-> TRUE]
  BY DEF vmm_unmap
<1>a. T = mm.tables
  OBVIOUS
<1>2. ASSUME NEW l \in 1 .. Levels PROVE h[l] = IF l = Levels THEN root ELSE Up(h[l + 1], l)
  <2>1. CASE l = Levels
    BY <1>0, <2>1 DEF Path
  <2>2. CASE l # Levels
    <3>1. l + 1 \in 1 .. Levels /\ l + 1 > 1 /\ (l + 1) - 1 = l
      BY <1>0, <2>2
    <3>2. T[p[l + 1]][Index(va, l + 1)].present /\ T[p[l + 1]][Index(va, l + 1)].frame = p[l]
      BY <3>1 DEF Path
    <3>3. CASE \E j \in 1 .. Levels : j > l /\ p[j] = NULL
      <4>1. h[l] = NULL
        BY <3>3
      <4>2. h[l + 1] = NULL
        BY <1>0, <3>1, <3>3
      <4>. QED BY <2>2, <4>1, <4>2
    <3>4. CASE ~ \E j \in 1 .. Levels : j > l /\ p[j] = NULL
      <4>1. h[l] = p[l] /\ h[l + 1] = p[l + 1] /\ p[l + 1] # NULL
        BY <1>0, <3>1, <3>4
      <4>. QED BY <1>a, <2>2, <3>2, <4>1
    <3>. QED BY <3>3, <3>4
  <2>. QED BY <2>1, <2>2
<1>. HIDE DEF Up
<1>3. IsAt(h)
  BY <1>2
<1>4. IsAt(a)
  <2>. HIDE DEF IsAt, h
  <2>. QED BY <1>3
<1>. HIDE DEF a
<1>5. \A l \in 1 .. Levels : a[l] = IF l = Levels THEN root ELSE Up(a[l + 1], l)
  BY <1>4
<1>. DEFINE S == {l \in 1 .. Levels : a[l] = p[l] \/ a[l] = NULL}
<1>6. Levels \in S
  BY <1>0, <1>5 DEF Path
<1>7. ASSUME NEW l \in 1 .. Levels, l + 1 \in S, l < Levels PROVE l \in S
  <2>1. l + 1 \in 1 .. Levels /\ l + 1 > 1 /\ (l + 1) - 1 = l
    BY <1>0, <1>7
  <2>2. T[p[l + 1]][Index(va, l + 1)].present /\ T[p[l + 1]][Index(va, l + 1)].frame = p[l]
    BY <2>1 DEF Path
  <2>3. a[l] = Up(a[l + 1], l)
    BY <1>0, <1>5, <1>7
  <2>. QED BY <1>7, <1>a, <2>2, <2>3 DEF Up
<1>8. S \in SUBSET (1 .. Levels)
  OBVIOUS
<1>. HIDE DEF S
<1>9. 1 \in S
  BY <1>0, <1>6, <1>7, <1>8, DownFrom
<1>10. a[1] = p[1] \/ a[1] = NULL
  BY <1>9 DEF S
<1>11. [mm EXCEPT !.tables[p[1]][Index(va, 1)] = NoEntry]
         = [pm |-> pm, tables |-> SetSlot(T, p[1], Index(va, 1), NoEntry)]
  <2>1. \A a1, b, c, u, j : [[pm |-> a1, tables |-> b] EXCEPT !.tables[u][j] = c]
                            = [pm |-> a1, tables |-> [b EXCEPT ![u][j] = c]]
    OBVIOUS
  <2>2. SetSlot(T, p[1], Index(va, 1), NoEntry) = [T EXCEPT ![p[1]][Index(va, 1)] = NoEntry]
    BY DEF SetSlot
  <2>. QED BY <2>1, <2>2
<1>12. CASE a[1] = NULL
  BY <1>1, <1>12
<1>13. CASE a[1] # NULL
  <2>1. vmm_unmap(mm, root, va) = [m |-> [mm EXCEPT !.tables[p[1]][Index(va, 1)] = NoEntry], ok |-> TRUE]
    BY <1>1, <1>10, <1>13
  <2>. QED BY <1>11, <2>1
<1>. QED BY <1>12, <1>13

UnmapResult(u, T2, pm, T, lev, at, root, va) ==
    /\ u = [pm |-> pm, tables |-> T2]
    /\ DOMAIN T2 = DOMAIN T /\ Shaped(T2, lev, at)
    /\ \A vb \in Nat : \A y :
         /\ Maps(T2, root, vb, y) => Maps(T, root, vb, y)
         /\ Maps(T, root, vb, y) /\ ~ SameSlots(va, vb) => Maps(T2, root, vb, y)

(* vmm_unmap() takes away the mapping of the page and no other. *)
LEMMA Unmaps ==
  ASSUME NEW pm, NEW T, NEW lev, NEW at, Shaped(T, lev, at), NEW root, lev[root] = Levels,
         NEW va \in Nat, NEW x, Maps(T, root, va, x), NEW mm, mm = [pm |-> pm, tables |-> T]
  PROVE  \E T2 : UnmapResult(vmm_unmap(mm, root, va).m, T2, pm, T, lev, at, root, va)
<1>0. Levels \in Nat \ {0} /\ 1 \in 1 .. Levels
  BY LevelsAssumption
<1>1. PICK p : Path(T, root, va, 1, p)
  BY DEF Maps
<1>. DEFINE t == p[1]
            i == Index(va, 1)
            T2 == SetSlot(T, t, i, NoEntry)
<1>2. /\ t \in DOMAIN T /\ i \in Slots /\ lev[t] = 1
      /\ \A k \in 1 .. Levels : k > 1 => at[t][k] = Index(va, k)
  <2>1. t \in DOMAIN T /\ i \in Slots
    BY <1>0, <1>1, IndexSlot DEF Path
  <2>. QED BY <1>0, <1>1, <2>1, PathShape
<1>3. \/ vmm_unmap(mm, root, va).m = mm
      \/ vmm_unmap(mm, root, va).m = [pm |-> pm, tables |-> T2]
  BY <1>1, UnmapTable
<1>5. NoEntry \in Entry /\ ~ NoEntry.present /\ ~ NoEntry.leaf
  BY DEF NoEntry, Entry, NULL
<1>6. /\ DOMAIN T2 = DOMAIN T /\ T2 \in [DOMAIN T -> [Slots -> Entry]] /\ T2[t][i] = NoEntry
      /\ \A f \in DOMAIN T, j \in Slots : f # t \/ j # i => T2[f][j] = T[f][j]
  <2>1. T \in [DOMAIN T -> [Slots -> Entry]]
    BY DEF Shaped
  <2>. HIDE DEF t, i
  <2>. QED BY <1>2, <1>5, <2>1, SlotSet
<1>. HIDE DEF T2
<1>7. Shaped(T2, lev, at)
  <2>1. ASSUME NEW f \in DOMAIN T2, NEW j \in Slots
        PROVE  /\ ~ T2[f][j].leaf
               /\ T2[f][j].present /\ lev[f] > 1 =>
                    T2[f][j].frame \in DOMAIN T2 /\ Child(f, T2[f][j].frame, j, lev, at)
    <3>1. CASE f = t /\ j = i
      BY <1>5, <1>6, <3>1
    <3>2. CASE f # t \/ j # i
      BY <1>6, <3>2, ShapedEntry
    <3>. QED BY <3>1, <3>2
  <2>. QED BY <1>6, <2>1 DEF Shaped
<1>8. Kept(T2, T)
  BY <1>5, <1>6 DEF Kept
<1>9. ASSUME NEW vb \in Nat, NEW y, Maps(T2, root, vb, y) PROVE Maps(T, root, vb, y)
  BY <1>8, <1>9, KeptMaps
<1>10. ASSUME NEW vb \in Nat, NEW y, Maps(T, root, vb, y), ~ SameSlots(va, vb)
       PROVE  Maps(T2, root, vb, y)
  <2>1. PICK q : /\ Path(T, root, vb, 1, q)
                 /\ T[q[1]][Index(vb, 1)].present /\ T[q[1]][Index(vb, 1)].frame = y
    BY <1>10 DEF Maps
  <2>2. \A j \in 1 .. Levels : lev[q[j]] = j /\ \A k \in 1 .. Levels : k > j => at[q[j]][k] = Index(vb, k)
    BY <1>0, <2>1, PathShape
  <2>3. \A j \in 1 .. Levels : q[j] \in DOMAIN T /\ Index(vb, j) \in Slots
    BY <2>1, IndexSlot DEF Path
  <2>4. \A j \in 1 .. Levels : j > 1 => T2[q[j]][Index(vb, j)] = T[q[j]][Index(vb, j)]
    BY <1>0, <1>2, <1>6, <2>2, <2>3
  <2>5. Path(T2, root, vb, 1, q)
    BY <1>0, <1>6, <2>1, <2>4 DEF Path
  <2>6. q[1] # t \/ Index(vb, 1) # i
    <3>1. SUFFICES ASSUME q[1] = t, Index(vb, 1) = i PROVE FALSE
      OBVIOUS
    <3>2. ASSUME NEW l \in 1 .. Levels PROVE Index(va, l) = Index(vb, l)
      <4>1. CASE l = 1
        BY <3>1, <4>1
      <4>2. CASE l > 1
        BY <1>0, <1>2, <2>2, <3>1, <4>2
      <4>. QED BY <4>1, <4>2
    <3>. QED BY <1>10, <3>2 DEF SameSlots
  <2>7. T2[q[1]][Index(vb, 1)] = T[q[1]][Index(vb, 1)]
    BY <1>0, <1>6, <2>3, <2>6
  <2>. QED BY <2>1, <2>5, <2>7 DEF Maps
<1>11. CASE vmm_unmap(mm, root, va).m = mm
  BY <1>11 DEF UnmapResult
<1>12. CASE vmm_unmap(mm, root, va).m = [pm |-> pm, tables |-> T2]
  BY <1>6, <1>7, <1>9, <1>10, <1>12 DEF UnmapResult
<1>. QED BY <1>3, <1>11, <1>12
=============================================================================
