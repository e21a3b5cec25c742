-------------------------- MODULE DeviceListProofs --------------------------
(***************************************************************************)
(* Theorems about DeviceList, for any number of cells, ports and programs: *)
(* the list keeps its shape, numbers and handles name one device each, and *)
(* what the USB stack and the programs keep of a cell stays good.          *)
(***************************************************************************)
EXTENDS DeviceList, FiniteSetTheorems, WellFoundedInduction, TLAPS

-----------------------------------------------------------------------------
(* The walks.  The cells are, in the order of the list, a sequence q.      *)

Listed(q) ==
    /\ q \in Seq(Cells)
    /\ \A c \in Cells : \E i \in DOMAIN q : q[i] = c
    /\ \A i, j \in DOMAIN q : q[i] = q[j] => i = j
    /\ \A i \in DOMAIN q : /\ heap[q[i]].last = IF i = 1 THEN NULL ELSE q[i - 1]
                           /\ heap[q[i]].next = IF i = Len(q) THEN NULL ELSE q[i + 1]

(* And rootDevice points to one of them, whichever.                        *)
Rooted(q) == /\ Listed(q)
             /\ IF q = <<>> THEN rootDevice = NULL ELSE \E r \in DOMAIN q : rootDevice = q[r]

(* A set of numbers has a least element: what is proved by induction here  *)
(* is proved of the least number it does not hold for.                     *)
LEMMA Least ==
  ASSUME NEW S \in SUBSET Nat, NEW n \in S
  PROVE  \E m \in S : \A k \in S : m <= k
<1> DEFINE T == {0 .. k : k \in S}
<1>1. T \subseteq FiniteSubsetsOf(Nat) /\ T # {}
  <2>1. \A k \in S : IsFiniteSet(0 .. k)
    BY FS_Interval
  <2> QED
    BY <2>1 DEF FiniteSubsetsOf
<1>2. PICK x \in T : \A y \in T : ~(<<y, x>> \in StrictSubsetOrdering(Nat))
  BY <1>1, WFMin, FS_StrictSubsetOrderingWellFounded
<1>3. PICK m \in S : x = 0 .. m
  OBVIOUS
<1>4. ASSUME NEW k \in S PROVE m <= k
  <2>1. SUFFICES ASSUME k < m PROVE FALSE
    OBVIOUS
  <2>2. 0 .. k \in T /\ 0 .. k \subseteq 0 .. m /\ m \notin 0 .. k /\ m \in 0 .. m
    BY <2>1
  <2>3. <<0 .. k, 0 .. m>> \in (SUBSET Nat) \X (SUBSET Nat)
    OBVIOUS
  <2>4. <<0 .. k, 0 .. m>> \in StrictSubsetOrdering(Nat)
    BY <2>2, <2>3 DEF StrictSubsetOrdering
  <2> QED
    BY <1>2, <1>3, <2>2, <2>4
<1> QED
  BY <1>4

(* Two functions that begin alike and go on alike are alike.               *)
Chain(D) == D \in SUBSET Nat /\ \A k \in D : k = 0 \/ k - 1 \in D
GoAlike(D, f, g) == f[0] = g[0] /\ \A k \in D : k # 0 /\ f[k - 1] = g[k - 1] => f[k] = g[k]

LEMMA Alike ==
  ASSUME NEW D, NEW f, NEW g, Chain(D), GoAlike(D, f, g)
  PROVE  \A k \in D : f[k] = g[k]
<1> USE DEF Chain, GoAlike
<1> DEFINE S == {k \in D : f[k] # g[k]}
<1>1. SUFFICES ASSUME NEW k0 \in S PROVE FALSE
  OBVIOUS
<1>2. S \in SUBSET Nat
  OBVIOUS
<1> HIDE DEF S
<1>3. PICK m \in S : \A k \in S : m <= k
  BY <1>2, Least
<1>4. m \in D /\ m \in Nat /\ f[m] # g[m] /\ m # 0
  BY <1>3 DEF S
<1>5. m - 1 \in D /\ ~(m <= m - 1)
  BY <1>4
<1>6. f[m - 1] = g[m - 1]
  BY <1>3, <1>5 DEF S
<1> QED
  BY <1>4, <1>6

(* A list is as long as there are cells, N at most.                        *)
LEMMA Short ==
  ASSUME NEW q, Listed(q), Cells \subseteq Addr
  PROVE  Len(q) = Cardinality(Cells) /\ Cardinality(Cells) <= N /\ N \in Nat /\ IsFiniteSet(Cells)
<1>1. IsFiniteSet(Cells) /\ Cardinality(Cells) <= N /\ N \in Nat
  BY FS_Subset, FS_CardinalityType, AddrAssumption DEF N
<1>2. Len(q) \in Nat /\ DOMAIN q = 1 .. Len(q) /\ q \in [1 .. Len(q) -> Cells]
  BY DEF Listed
<1>3. q \in Bijection(1 .. Len(q), Cells)
  BY <1>2 DEF Listed, Bijection, Injection, Surjection, IsInjective
<1>4. IsFiniteSet(1 .. Len(q)) /\ Cardinality(1 .. Len(q)) = Len(q)
  BY <1>2, FS_Interval
<1>5. ExistsBijection(1 .. Len(q), Cells)
  BY <1>3 DEF ExistsBijection
<1> QED
  BY <1>1, <1>4, <1>5, FS_Bijection

(* N steps back from any cell end at the first, N steps on at the last: an *)
(* explicit function obeys the recursion, and Alike says it is the one.    *)
LEMMA GotoFirstIs ==
  ASSUME NEW q, Listed(q), NULL \notin Cells, N \in Nat, Len(q) <= N, NEW r \in DOMAIN q
  PROVE  GotoFirst(q[r]) = q[1]
<1> DEFINE Eq(f) == f = [k \in 0 .. N |-> IF k = 0 THEN q[r]
                                          ELSE IF heap[f[k - 1]].last = NULL THEN f[k - 1]
                                          ELSE heap[f[k - 1]].last]
           back == [k \in 0 .. N |-> IF k < r THEN q[r - k] ELSE q[1]]
           at == CHOOSE f : Eq(f)
<1>1. Len(q) \in Nat /\ DOMAIN q = 1 .. Len(q) /\ \A i \in DOMAIN q : q[i] \in Cells
  BY DEF Listed
<1>2. \A i \in DOMAIN q : heap[q[i]].last = IF i = 1 THEN NULL ELSE q[i - 1]
  BY DEF Listed
<1>3. Eq(back)
  <2>1. ASSUME NEW k \in 1 .. N
        PROVE  back[k] = IF heap[back[k - 1]].last = NULL THEN back[k - 1] ELSE heap[back[k - 1]].last
    <3>1. CASE k < r
      BY <1>1, <1>2, <3>1
    <3>2. CASE k >= r
      BY <1>1, <1>2, <3>2
    <3> QED
      BY <1>1, <3>1, <3>2
  <2>2. back[0] = q[r]
    BY <1>1
  <2>3. \A k \in 0 .. N : k = 0 \/ k \in 1 .. N
    OBVIOUS
  <2> QED
    BY <2>1, <2>2, <2>3
<1>4. Eq(at)
  BY <1>3
<1>5. GotoFirst(q[r]) = at[N]
  BY DEF GotoFirst
<1>6. at[0] = back[0] /\ \A k \in 1 .. N : at[k - 1] = back[k - 1] => at[k] = back[k]
  <2> HIDE DEF at, back
  <2>1. at[0] = q[r] /\ \A k \in 1 .. N : at[k] = IF heap[at[k - 1]].last = NULL THEN at[k - 1]
                                                 ELSE heap[at[k - 1]].last
    BY <1>4
  <2>2. back[0] = q[r] /\ \A k \in 1 .. N : back[k] = IF heap[back[k - 1]].last = NULL
                                                     THEN back[k - 1] ELSE heap[back[k - 1]].last
    BY <1>3
  <2> HIDE DEF Eq
  <2> QED
    BY <2>1, <2>2
<1>7. \A k \in 0 .. N : at[k] = back[k]
  <2> DEFINE D == 0 .. N
  <2> HIDE DEF at, back, Eq
  <2>1. Chain(D) /\ \A k \in D : k # 0 => k \in 1 .. N
    BY DEF Chain
  <2> HIDE DEF D
  <2>2. GoAlike(D, at, back)
    BY <1>6, <2>1 DEF GoAlike
  <2>3. \A k \in D : at[k] = back[k]
    BY <2>1, <2>2, Alike
  <2> QED
    BY <2>3 DEF D
<1>8. back[N] = q[1]
  BY <1>1
<1> QED
  BY <1>5, <1>7, <1>8

LEMMA GotoEndIs ==
  ASSUME NEW q, Listed(q), NULL \notin Cells, N \in Nat, Len(q) <= N, NEW r \in DOMAIN q
  PROVE  GotoEnd(q[r]) = q[Len(q)]
<1> DEFINE Eq(f) == f = [k \in 0 .. N |-> IF k = 0 THEN q[r]
                                          ELSE IF heap[f[k - 1]].next = NULL THEN f[k - 1]
                                          ELSE heap[f[k - 1]].next]
           on == [k \in 0 .. N |-> IF r + k < Len(q) THEN q[r + k] ELSE q[Len(q)]]
           at == CHOOSE f : Eq(f)
<1>1. Len(q) \in Nat /\ DOMAIN q = 1 .. Len(q) /\ \A i \in DOMAIN q : q[i] \in Cells
  BY DEF Listed
<1>2. \A i \in DOMAIN q : heap[q[i]].next = IF i = Len(q) THEN NULL ELSE q[i + 1]
  BY DEF Listed
<1>3. Eq(on)
  <2>1. ASSUME NEW k \in 1 .. N
        PROVE  on[k] = IF heap[on[k - 1]].next = NULL THEN on[k - 1] ELSE heap[on[k - 1]].next
    <3>1. CASE r + k <= Len(q)
      <4> DEFINE i == r + (k - 1)
      <4>1. r \in 1 .. Len(q) /\ k - 1 \in 0 .. N /\ k \in Int /\ i \in 1 .. Len(q)
        BY <1>1, <3>1
      <4>2. i \in DOMAIN q /\ i # Len(q) /\ i + 1 = r + k /\ on[k - 1] = q[i]
        BY <1>1, <3>1, <4>1
      <4>3. on[k] = q[i + 1] /\ q[i + 1] \in Cells
        BY <1>1, <3>1, <4>2
      <4> QED
        BY <1>2, <4>2, <4>3
    <3>2. CASE r + k > Len(q)
      <4>1. on[k - 1] = q[Len(q)] /\ on[k] = q[Len(q)] /\ Len(q) \in DOMAIN q
        BY <1>1, <3>2
      <4> QED
        BY <1>2, <4>1
    <3> QED
      BY <1>1, <3>1, <3>2
  <2>2. on[0] = q[r]
    BY <1>1
  <2>3. \A k \in 0 .. N : k = 0 \/ k \in 1 .. N
    OBVIOUS
  <2> QED
    BY <2>1, <2>2, <2>3
<1>4. Eq(at)
  BY <1>3
<1>5. GotoEnd(q[r]) = at[N]
  BY DEF GotoEnd
<1>6. at[0] = on[0] /\ \A k \in 1 .. N : at[k - 1] = on[k - 1] => at[k] = on[k]
  <2> HIDE DEF at, on
  <2>1. at[0] = q[r] /\ \A k \in 1 .. N : at[k] = IF heap[at[k - 1]].next = NULL THEN at[k - 1]
                                                 ELSE heap[at[k - 1]].next
    BY <1>4
  <2>2. on[0] = q[r] /\ \A k \in 1 .. N : on[k] = IF heap[on[k - 1]].next = NULL
                                                     THEN on[k - 1] ELSE heap[on[k - 1]].next
    BY <1>3
  <2> HIDE DEF Eq
  <2> QED
    BY <2>1, <2>2
<1>7. \A k \in 0 .. N : at[k] = on[k]
  <2> DEFINE D == 0 .. N
  <2> HIDE DEF at, on, Eq
  <2>1. Chain(D) /\ \A k \in D : k # 0 => k \in 1 .. N
    BY DEF Chain
  <2> HIDE DEF D
  <2>2. GoAlike(D, at, on)
    BY <1>6, <2>1 DEF GoAlike
  <2>3. \A k \in D : at[k] = on[k]
    BY <2>1, <2>2, Alike
  <2> QED
    BY <2>3 DEF D
<1>8. on[N] = q[Len(q)]
  BY <1>1
<1> QED
  BY <1>5, <1>7, <1>8
LEMMA FromIs ==
  ASSUME NEW q, Listed(q), NULL \notin Cells, N \in Nat, Len(q) <= N, Len(q) > 0
  PROVE  From(q[1]) = q
<1> DEFINE Eq(f) == f = [k \in 1 .. N |->
                            IF k = 1 THEN <<q[1]>>
                            ELSE LET s == f[k - 1]
                                     c == heap[s[Len(s)]].next
                                 IN  IF c = NULL THEN s ELSE Append(s, c)]
           Part(n) == [i \in 1 .. n |-> q[i]]
           parts == [k \in 1 .. N |-> Part(IF k <= Len(q) THEN k ELSE Len(q))]
           path == CHOOSE f : Eq(f)
           Longer(s) == LET c == heap[s[Len(s)]].next IN IF c = NULL THEN s ELSE Append(s, c)
<1>1. /\ Len(q) \in Nat /\ DOMAIN q = 1 .. Len(q) /\ (\A i \in DOMAIN q : q[i] \in Cells)
      /\ q = [i \in 1 .. Len(q) |-> q[i]]
  BY DEF Listed
<1>2. \A i \in DOMAIN q : heap[q[i]].next = IF i = Len(q) THEN NULL ELSE q[i + 1]
  BY DEF Listed
<1>3. \A n \in 1 .. Len(q) : /\ Part(n) \in Seq(Cells) /\ Len(Part(n)) = n /\ Part(n)[n] = q[n]
                             /\ n < Len(q) => Append(Part(n), q[n + 1]) = Part(n + 1)
  <2> TAKE n \in 1 .. Len(q)
  <2>1. Part(n) \in Seq(Cells) /\ Len(Part(n)) = n /\ Part(n)[n] = q[n]
    BY <1>1
  <2>2. ASSUME n < Len(q) PROVE Append(Part(n), q[n + 1]) = Part(n + 1)
    <3>1. q[n + 1] \in Cells
      BY <1>1, <2>2
    <3>2. /\ Append(Part(n), q[n + 1]) \in Seq(Cells) /\ Len(Append(Part(n), q[n + 1])) = n + 1
          /\ \A i \in 1 .. n + 1 : Append(Part(n), q[n + 1])[i] = q[i]
      BY <2>1, <3>1
    <3>3. Part(n + 1) \in Seq(Cells) /\ Len(Part(n + 1)) = n + 1 /\ \A i \in 1 .. n + 1 : Part(n + 1)[i] = q[i]
      BY <1>1, <2>2
    <3> HIDE DEF Part
    <3> QED
      BY <3>2, <3>3
  <2> QED
    BY <2>1, <2>2
<1>4. Part(1) = <<q[1]>>
  BY <1>1
<1> HIDE DEF Part
<1>5. \A k \in 2 .. N : parts[k] = Longer(parts[k - 1])
  <2> TAKE k \in 2 .. N
  <2>1. CASE k <= Len(q)
    <3>1. parts[k - 1] = Part(k - 1) /\ parts[k] = Part(k) /\ k - 1 \in 1 .. Len(q) /\ k - 1 < Len(q)
      BY <1>1, <2>1
    <3>2. heap[Part(k - 1)[Len(Part(k - 1))]].next = q[k] /\ q[k] \in Cells
      BY <1>1, <1>2, <1>3, <2>1, <3>1
    <3>3. Append(Part(k - 1), q[k]) = Part(k)
      BY <1>3, <3>1
    <3> QED
      BY <3>1, <3>2, <3>3
  <2>2. CASE k > Len(q)
    <3>1. parts[k - 1] = Part(Len(q)) /\ parts[k] = Part(Len(q)) /\ Len(q) \in 1 .. Len(q)
      BY <1>1, <2>2
    <3>2. heap[Part(Len(q))[Len(Part(Len(q)))]].next = NULL
      BY <1>1, <1>2, <1>3, <3>1
    <3> QED
      BY <3>1, <3>2
  <2> QED
    BY <1>1, <2>1, <2>2
<1>6. parts[1] = <<q[1]>> /\ parts[N] = q
  BY <1>1, <1>4 DEF Part
<1>7. Eq(parts)
  <2>1. \A k \in 1 .. N : k = 1 \/ k \in 2 .. N
    OBVIOUS
  <2> QED
    BY <1>5, <1>6, <2>1
<1>8. Eq(path)
  <2> HIDE DEF parts
  <2> QED
    BY <1>7
<1>9. From(q[1]) = path[N]
  BY DEF From
<1>10. path[1] = <<q[1]>> /\ \A k \in 2 .. N : path[k] = Longer(path[k - 1])
  <2>1. 1 \in 1 .. N /\ \A k \in 2 .. N : k \in 1 .. N /\ k # 1
    OBVIOUS
  <2> HIDE DEF path
  <2> QED
    BY <1>8, <2>1
<1>11. path[N] = parts[N]
  <2> HIDE DEF path, parts, Longer
  <2> DEFINE f == [k \in 0 .. N - 1 |-> path[k + 1]]  g == [k \in 0 .. N - 1 |-> parts[k + 1]]
  <2>1. N - 1 \in Nat
    BY <1>1
  <2>2. f[0] = g[0] /\ f[N - 1] = path[N] /\ g[N - 1] = parts[N]
    <3>1. 0 \in 0 .. N - 1 /\ N - 1 \in 0 .. N - 1 /\ (N - 1) + 1 = N /\ 0 + 1 = 1
      BY <2>1
    <3>2. f[0] = path[1] /\ g[0] = parts[1] /\ f[N - 1] = path[N] /\ g[N - 1] = parts[N]
      BY <3>1
    <3> QED
      BY <1>6, <1>10, <3>2
  <2>3. ASSUME NEW k \in 1 .. N - 1, f[k - 1] = g[k - 1] PROVE f[k] = g[k]
    <3>1. k + 1 \in 2 .. N /\ (k + 1) - 1 = k /\ f[k] = path[k + 1] /\ g[k] = parts[k + 1]
      BY <2>1
    <3>2. f[k - 1] = path[k] /\ g[k - 1] = parts[k]
      BY <2>1
    <3>3. path[k + 1] = Longer(path[k]) /\ parts[k + 1] = Longer(parts[k])
      BY <1>5, <1>10, <3>1
    <3> HIDE DEF f, g
    <3> QED
      BY <2>3, <3>1, <3>2, <3>3
  <2> HIDE DEF f, g
  <2>4. N - 1 \in 0 .. N - 1 /\ \A k \in 0 .. N - 1 : f[k] = g[k]
    <3>1. \A k \in 1 .. N - 1 : f[k - 1] = g[k - 1] => f[k] = g[k]
      BY <2>3
    <3> DEFINE D == 0 .. N - 1
    <3> HIDE DEF f, g
    <3>2. Chain(D) /\ \A k \in D : k # 0 => k \in 1 .. N - 1
      BY <2>1 DEF Chain
    <3> HIDE DEF D
    <3>3. GoAlike(D, f, g)
      BY <2>2, <3>1, <3>2 DEF GoAlike
    <3>4. \A k \in D : f[k] = g[k]
      BY <3>2, <3>3, Alike
    <3> QED
      BY <2>1, <3>4 DEF D
  <2> HIDE DEF f, g
  <2> QED
    BY <2>2, <2>4
<1> QED
  BY <1>6, <1>9, <1>11

(* Every search walks the cells in this order.                             *)
LEMMA WalkIs ==
  ASSUME NEW q, Rooted(q), Cells \subseteq Addr
  PROVE  Walk = q
<1>1. Listed(q) /\ NULL \notin Cells /\ N \in Nat /\ Len(q) <= N
  BY Short, AddrAssumption DEF Rooted
<1>2. Len(q) \in Nat /\ DOMAIN q = 1 .. Len(q) /\ \A i \in DOMAIN q : q[i] \in Cells
  BY <1>1 DEF Listed
<1>3. CASE q = <<>>
  BY <1>3 DEF Rooted, Walk
<1>4. CASE q # <<>>
  <2>1. PICK r \in DOMAIN q : rootDevice = q[r]
    BY <1>4 DEF Rooted
  <2>2. rootDevice # NULL /\ Len(q) > 0
    BY <1>1, <1>2, <2>1
  <2>3. GotoFirst(rootDevice) = q[1]
    BY <1>1, <2>1, GotoFirstIs
  <2>4. From(q[1]) = q
    BY <1>1, <2>2, FromIs
  <2> QED
    BY <2>2, <2>3, <2>4 DEF Walk
<1> QED
  BY <1>3, <1>4

(* A search finds a cell if there is one.                                  *)
LEMMA SeekIs ==
  ASSUME NEW q, Rooted(q), Cells \subseteq Addr, NEW S
  PROVE  \/ Seek(S) = NULL /\ \A c \in Cells : c \notin S
         \/ Seek(S) \in Cells /\ Seek(S) \in S
<1> DEFINE hits == {k \in DOMAIN q : q[k] \in S}
<1>1. Walk = q /\ Len(q) \in Nat /\ DOMAIN q = 1 .. Len(q) /\ \A i \in DOMAIN q : q[i] \in Cells
  BY WalkIs DEF Rooted, Listed
<1>2. Seek(S) = IF hits = {} THEN NULL ELSE q[CHOOSE k \in hits : \A j \in hits : k <= j]
  BY <1>1 DEF Seek
<1>3. CASE hits = {}
  <2>1. \A c \in Cells : c \notin S
    BY <1>3 DEF Rooted, Listed
  <2> QED
    BY <1>2, <1>3, <2>1
<1>4. CASE hits # {}
  <2>1. hits \in SUBSET Nat
    BY <1>1
  <2>2. \E k \in hits : \A j \in hits : k <= j
    <3> HIDE DEF hits
    <3>1. PICK n \in hits : TRUE
      BY <1>4
    <3> QED
      BY <2>1, <3>1, Least
  <2>3. (CHOOSE k \in hits : \A j \in hits : k <= j) \in hits
    <3> HIDE DEF hits
    <3> QED
      BY <2>2
  <2> QED
    BY <1>1, <1>2, <1>4, <2>3
<1> QED
  BY <1>3, <1>4

(* Additive finds a number that no cell has, and that is less than N.      *)
LEMMA IndexIs ==
  ASSUME NEW q, Rooted(q), Cells \subseteq Addr, Cells # Addr,
         \A c \in Cells : heap[c].devnum \in 0 .. N - 1
  PROVE  Index0device \in 0 .. N - 1 /\ \A c \in Cells : heap[c].devnum # Index0device
<1> DEFINE Free(i) == SeekNumber(i) = NULL
           used == {heap[c].devnum : c \in Cells}
           Eq(f) == f = [i \in 0 .. N |-> IF SeekNumber(i) = NULL THEN i ELSE f[i + 1]]
           IsNext(i, j) == j \in i .. N /\ Free(j) /\ \A k \in i .. N : Free(k) => j <= k
           first == [i \in 0 .. N |-> CHOOSE j \in i .. N : IsNext(i, j)]
           try == CHOOSE f : Eq(f)
<1>1. Listed(q) /\ N \in Nat /\ Cardinality(Cells) <= N /\ Cardinality(Cells) \in Nat /\ IsFiniteSet(Cells)
  BY Short, FS_CardinalityType DEF Rooted
<1>2. \A i : Free(i) <=> i \notin used
  <2> TAKE i
  <2> DEFINE S == {c \in Cells : heap[c].devnum = i}
  <2>1. \/ Seek(S) = NULL /\ \A c \in Cells : c \notin S
        \/ Seek(S) \in Cells /\ Seek(S) \in S
    BY SeekIs
  <2>2. NULL \notin Cells
    BY AddrAssumption
  <2> QED
    BY <2>1, <2>2 DEF SeekNumber
<1>3. N >= 1 /\ \E i \in 0 .. N - 1 : i \notin used
  <2>1. Cardinality(Cells) < N
    <3>1. IsFiniteSet(Addr) /\ Cells \in SUBSET Addr
      BY AddrAssumption
    <3>2. Cardinality(Cells) # Cardinality(Addr)
      BY <3>1, FS_Subset
    <3> QED
      BY <1>1, <3>2 DEF N
  <2>2. IsFiniteSet(used) /\ Cardinality(used) <= Cardinality(Cells)
    <3> DEFINE g == [c \in Cells |-> heap[c].devnum]
    <3>1. g \in Surjection(Cells, used)
      BY DEF Surjection
    <3> QED
      BY <1>1, <3>1, FS_Surjection
  <2>3. Cardinality(0 .. N - 1) = N /\ IsFiniteSet(0 .. N - 1)
    <3>1. 0 \in Int /\ N - 1 \in Int /\ ~(0 > N - 1) /\ (N - 1) - 0 + 1 = N
      BY <1>1, <2>1
    <3> QED
      BY <3>1, FS_Interval
  <2>4. Cardinality(used) \in Nat
    BY <2>2, FS_CardinalityType
  <2>5. ~(0 .. N - 1 \subseteq used)
    BY <1>1, <2>1, <2>2, <2>3, <2>4, FS_Subset
  <2> QED
    BY <1>1, <2>1, <2>5
<1>4. Free(N)
  <2>1. N \notin used
    BY <1>1
  <2> QED
    BY <1>2, <2>1
<1> HIDE DEF used
<1>5. \A i \in 0 .. N : IsNext(i, first[i])
  <2> TAKE i \in 0 .. N
  <2> DEFINE S == {j \in i .. N : Free(j)}
  <2>1. S \in SUBSET Nat /\ N \in S
    BY <1>1, <1>4
  <2> HIDE DEF S
  <2>2. PICK m \in S : \A k \in S : m <= k
    BY <2>1, Least
  <2>3. m \in i .. N /\ IsNext(i, m)
    BY <2>2 DEF S
  <2> HIDE DEF IsNext
  <2> QED
    BY <2>3
<1>13. first = [i \in 0 .. N |-> first[i]]
  OBVIOUS
<1> HIDE DEF first
<1>6. ASSUME NEW i \in 0 .. N, ~Free(i)
      PROVE  i + 1 \in 0 .. N /\ first[i] = first[i + 1]
  <2>1. i + 1 \in 0 .. N
    BY <1>1, <1>4, <1>6
  <2>2. IsNext(i, first[i]) /\ IsNext(i + 1, first[i + 1])
    BY <1>5, <2>1
  <2>3. first[i] # i
    BY <1>6, <2>2
  <2> QED
    BY <1>1, <2>1, <2>2, <2>3
<1>7. ASSUME NEW i \in 0 .. N, Free(i) PROVE first[i] = i
  BY <1>1, <1>5, <1>7
<1>8. Eq(first)
  <2>1. \A i \in 0 .. N : first[i] = IF SeekNumber(i) = NULL THEN i ELSE first[i + 1]
    BY <1>6, <1>7
  <2> QED
    BY <1>13, <2>1
<1>9. Eq(try) /\ Index0device = try[0]
  BY <1>8 DEF Index0device
<1>10. \A i \in 0 .. N : try[i] = IF Free(i) THEN i ELSE try[i + 1]
  <2> HIDE DEF try
  <2> QED
    BY <1>9
<1> HIDE DEF try, Free, Eq, IsNext
<1>11. try[0] = first[0]
  <2> DEFINE f == [k \in 0 .. N |-> try[N - k]]  g == [k \in 0 .. N |-> first[N - k]]
  <2>1. f[0] = g[0]
    <3>1. N \in 0 .. N /\ N - 0 = N /\ 0 \in 0 .. N
      BY <1>1
    <3> QED
      BY <1>4, <1>7, <1>10, <3>1
  <2>2. ASSUME NEW k \in 1 .. N, f[k - 1] = g[k - 1] PROVE f[k] = g[k]
    <3>1. N - k \in 0 .. N /\ k - 1 \in 0 .. N /\ k \in 0 .. N /\ N - (k - 1) = (N - k) + 1
      BY <1>1
    <3>2. f[k] = try[N - k] /\ g[k] = first[N - k]
      BY <3>1
    <3>3. f[k - 1] = try[(N - k) + 1] /\ g[k - 1] = first[(N - k) + 1]
      BY <3>1
    <3>4. CASE Free(N - k)
      BY <1>7, <1>10, <3>1, <3>2, <3>4
    <3>5. CASE ~Free(N - k)
      BY <1>6, <1>10, <2>2, <3>1, <3>2, <3>3, <3>5
    <3> QED
      BY <3>4, <3>5
  <2>3. N \in 0 .. N /\ f[N] = try[0] /\ g[N] = first[0]
    BY <1>1
  <2> HIDE DEF f, g
  <2>4. \A k \in 0 .. N : f[k] = g[k]
    <3> DEFINE D == 0 .. N
    <3>1. Chain(D) /\ \A k \in D : k # 0 => k \in 1 .. N
      BY <1>1 DEF Chain
    <3>2. \A k \in 1 .. N : f[k - 1] = g[k - 1] => f[k] = g[k]
      BY <2>2
    <3> HIDE DEF D
    <3>3. GoAlike(D, f, g)
      BY <2>1, <3>1, <3>2 DEF GoAlike
    <3>4. \A k \in D : f[k] = g[k]
      BY <3>1, <3>3, Alike
    <3> QED
      BY <3>4 DEF D
  <2> QED
    BY <2>3, <2>4
<1>12. first[0] \in 0 .. N - 1 /\ first[0] \notin used
  <2>1. 0 \in 0 .. N /\ IsNext(0, first[0])
    BY <1>1, <1>5
  <2>2. PICK i \in 0 .. N - 1 : i \notin used
    BY <1>3
  <2>3. Free(i) /\ i \in 0 .. N /\ i < N
    BY <1>1, <1>2, <2>2
  <2>4. first[0] \in 0 .. N /\ Free(first[0]) /\ first[0] <= i
    BY <2>1, <2>3 DEF IsNext
  <2> QED
    BY <1>1, <1>2, <2>3, <2>4
<1> QED
  BY <1>9, <1>11, <1>12 DEF used

-----------------------------------------------------------------------------
(* The inductive invariant.                                                *)

(* The cells form a list; with N cells at most, numbers stay below N.      *)
Order == \E q : Rooted(q)
Numbers == (\A c \in Cells : heap[c].devnum \in 0 .. N - 1) /\ NumbersDistinct

(* The USB stack has each cell of a device that is there once.             *)
Present == /\ DevicedataAlive
           /\ \A o, u \in Port : loaded /\ devicedata[o] # NULL /\ devicedata[o] = devicedata[u] => o = u

(* A cell in use has the handle of the program that opened it, any other   *)
(* has none; and a handle that is held is that of a cell in use.           *)
Handles ==
    /\ \A c \in Cells : IF c \in Used
                       THEN \E p \in Pid : heap[c].lDescriptor = c + p /\ c + p \in held[p]
                       ELSE heap[c].lDescriptor = 0
    /\ loaded => \A p \in Pid : \A h \in held[p] :
                    \E c \in Used : h = c + p /\ heap[c].lDescriptor = h

IInv == TypeOK /\ Order /\ Numbers /\ Present /\ Handles /\ UnloadFreesAll

(* The enumeration of p has come to find[p], and reported the cells up to  *)
(* it in the order of the list.                                            *)
Reported(p) ==
    loaded /\ ~booChangeList => \A q : Rooted(q) =>
        IF find[p] = NULL THEN seen[p] = {} /\ (ended[p] => Cells = {})
        ELSE \E k \in DOMAIN q : /\ find[p] = q[k] /\ (ended[p] => k = Len(q))
                                 /\ seen[p] = {heap[q[i]].devnum : i \in 1 .. k}

-----------------------------------------------------------------------------
(* What the actions do to the list.                                        *)

LEMMA InitInv == Init => IInv
<1> SUFFICES ASSUME Init PROVE IInv
  OBVIOUS
<1>1. Cells = {} /\ rootDevice = NULL /\ N \in Nat
  BY AddrAssumption, FS_CardinalityType DEF Init, Cells, N
<1>2. Rooted(<<>>)
  BY <1>1 DEF Rooted, Listed
<1>3. TypeOK
  BY <1>1 DEF Init, TypeOK
<1> QED
  BY <1>1, <1>2, <1>3 DEF IInv, Order, Numbers, NumbersDistinct, Present, DevicedataAlive, Handles,
     UnloadFreesAll, Init

(* An order of cells whose links are not touched stays their order.        *)
LEMMA OrderSame ==
  ASSUME NEW q, Cells' = Cells, rootDevice' = rootDevice,
         \A c \in Cells : heap'[c].last = heap[c].last /\ heap'[c].next = heap[c].next
  PROVE  Rooted(q)' <=> Rooted(q)
<1>1. ASSUME Listed(q) PROVE Listed(q)'
  <2>1. q \in Seq(Cells) /\ \A i \in DOMAIN q : q[i] \in Cells
    BY <1>1 DEF Listed
  <2> QED
    BY <1>1, <2>1 DEF Listed
<1>2. ASSUME Listed(q)' PROVE Listed(q)
  <2>1. q \in Seq(Cells) /\ \A i \in DOMAIN q : q[i] \in Cells
    BY <1>2 DEF Listed
  <2> QED
    BY <1>2, <2>1 DEF Listed
<1> QED
  BY <1>1, <1>2 DEF Rooted

(* What the steps below need of the order, at once.                        *)
LEMMA ListFacts ==
  ASSUME IInv, NEW q, Rooted(q)
  PROVE  /\ Cells \subseteq Addr /\ NULL \notin Cells /\ Walk = q /\ N \in Nat
         /\ Len(q) \in Nat /\ DOMAIN q = 1 .. Len(q) /\ \A i \in DOMAIN q : q[i] \in Cells
         /\ Len(q) = Cardinality(Cells) /\ Len(q) <= N
<1>1. Cells \subseteq Addr
  BY DEF IInv, TypeOK
<1>2. Listed(q) /\ Walk = q
  BY <1>1, WalkIs DEF Rooted
<1>3. /\ Len(q) = Cardinality(Cells) /\ Cardinality(Cells) <= N /\ N \in Nat
  BY <1>1, <1>2, Short
<1>4. Len(q) \in Nat /\ DOMAIN q = 1 .. Len(q) /\ \A i \in DOMAIN q : q[i] \in Cells
  BY <1>2 DEF Listed
<1> QED
  BY <1>1, <1>2, <1>3, <1>4, AddrAssumption

(* Additive puts the cell behind the last one.                             *)
LEMMA AdditiveOrder ==
  ASSUME IInv, NEW o \in Port, NEW a \in Addr, Additive(o, a), NEW q, Rooted(q)
  PROVE  /\ Cells' = Cells \union {a} /\ Rooted(Append(q, a))'
         /\ \A c \in Cells : /\ heap'[c].devnum = heap[c].devnum /\ heap'[c].iFlags = heap[c].iFlags
                             /\ heap'[c].lDescriptor = heap[c].lDescriptor
         /\ heap'[a].devnum \in 0 .. N - 1 /\ \A c \in Cells : heap[c].devnum # heap'[a].devnum
         /\ heap'[a].iFlags = {"PRESENCE"} /\ heap'[a].lDescriptor = 0
         /\ \A c \in Cells' : heap'[c] \in Cell
<1> DEFINE end == IF rootDevice = NULL THEN NULL ELSE GotoEnd(rootDevice)
           new == [devnum |-> Index0device, last |-> end, next |-> NULL,
                   iFlags |-> {"PRESENCE"}, lDescriptor |-> 0]
           qq == Append(q, a)
<1>1. /\ Cells \subseteq Addr /\ NULL \notin Cells /\ N \in Nat /\ Len(q) <= N /\ a \notin Cells /\ a # NULL
      /\ Len(q) \in Nat /\ DOMAIN q = 1 .. Len(q) /\ \A i \in DOMAIN q : q[i] \in Cells
  BY ListFacts, AddrAssumption DEF Additive
<1>2. Listed(q) /\ \A c \in Cells : heap[c] \in Cell
  BY DEF Rooted, IInv, TypeOK
<1>3. end = IF Len(q) = 0 THEN NULL ELSE q[Len(q)]
  <2>1. CASE q = <<>>
    BY <2>1 DEF Rooted
  <2>2. CASE q # <<>>
    <3>1. PICK r \in DOMAIN q : rootDevice = q[r]
      BY <2>2 DEF Rooted
    <3>2. GotoEnd(q[r]) = q[Len(q)] /\ rootDevice # NULL /\ Len(q) # 0
      BY <1>1, <1>2, <3>1, GotoEndIs
    <3> QED
      BY <3>1, <3>2
  <2> QED
    BY <2>1, <2>2
<1> HIDE DEF end
<1>4. heap' = [c \in Cells \union {a} |-> IF c = a THEN new
                                         ELSE IF c = end THEN [heap[c] EXCEPT !.next = a]
                                         ELSE heap[c]]
  BY DEF Additive, end
<1>5. Cells' = Cells \union {a} /\ rootDevice' = a
  BY <1>4 DEF Cells, Additive
<1>6. heap'[a] = new /\ \A c \in Cells : heap'[c] = IF c = end THEN [heap[c] EXCEPT !.next = a] ELSE heap[c]
  BY <1>1, <1>4
<1>7. \A c \in Cells : /\ heap'[c].last = heap[c].last /\ heap'[c].next = IF c = end THEN a ELSE heap[c].next
                       /\ heap'[c].devnum = heap[c].devnum /\ heap'[c].iFlags = heap[c].iFlags
                       /\ heap'[c].lDescriptor = heap[c].lDescriptor
  BY <1>2, <1>6 DEF Cell
<1>8. end \in Addr \union {NULL}
  BY <1>1, <1>3
<1>13. Index0device \in 0 .. N - 1 /\ \A c \in Cells : heap[c].devnum # Index0device
  BY <1>1, IndexIs DEF IInv, Numbers
<1>9. \A c \in Cells' : heap'[c] \in Cell
  <2>1. new \in Cell
    BY <1>1, <1>8, <1>13 DEF Cell, Flag
  <2>2. ASSUME NEW c \in Cells PROVE heap'[c] \in Cell
    BY <1>1, <1>2, <1>6 DEF Cell
  <2> HIDE DEF new
  <2> QED
    BY <1>5, <1>6, <2>1, <2>2
<1>10. /\ qq \in Seq(Cells \union {a}) /\ Len(qq) = Len(q) + 1 /\ DOMAIN qq = 1 .. Len(q) + 1
       /\ qq[Len(q) + 1] = a /\ \A i \in 1 .. Len(q) : qq[i] = q[i]
  <2>1. q \in Seq(Cells \union {a})
    BY <1>2 DEF Listed
  <2> QED
    BY <1>1, <2>1
<1> HIDE DEF qq
<1>11. Listed(qq)'
  <2>1. \A c \in Cells' : \E i \in DOMAIN qq : qq[i] = c
    BY <1>1, <1>2, <1>5, <1>10 DEF Listed
  <2>2. \A i, j \in DOMAIN qq : qq[i] = qq[j] => i = j
    <3>1. \A i \in DOMAIN qq : i = Len(q) + 1 \/ i \in 1 .. Len(q)
      BY <1>1, <1>10
    <3> QED
      BY <1>1, <1>2, <1>10, <3>1 DEF Listed
  <2>3. ASSUME NEW i \in DOMAIN qq
        PROVE  /\ heap'[qq[i]].last = IF i = 1 THEN NULL ELSE qq[i - 1]
               /\ heap'[qq[i]].next = IF i = Len(qq) THEN NULL ELSE qq[i + 1]
    <3>1. CASE i = Len(q) + 1
      BY <1>1, <1>3, <1>6, <1>10, <3>1
    <3>2. CASE i \in 1 .. Len(q)
      <4>1. /\ q[i] \in Cells /\ heap[q[i]].last = IF i = 1 THEN NULL ELSE q[i - 1]
            /\ heap[q[i]].next = IF i = Len(q) THEN NULL ELSE q[i + 1]
        BY <1>1, <1>2, <3>2 DEF Listed
      <4>2. q[i] = end <=> i = Len(q)
        BY <1>1, <1>2, <1>3, <3>2 DEF Listed
      <4>3. /\ i # 1 => i - 1 \in 1 .. Len(q)
            /\ i # Len(q) => i + 1 \in 1 .. Len(q)
        BY <1>1, <3>2
      <4>4. heap'[q[i]].last = heap[q[i]].last /\ heap'[q[i]].next = IF q[i] = end THEN a ELSE heap[q[i]].next
        BY <1>7, <4>1
      <4> QED
        BY <1>1, <1>10, <3>2, <4>1, <4>2, <4>3, <4>4
    <3> QED
      BY <1>1, <1>10, <3>1, <3>2
  <2> QED
    BY <1>5, <1>10, <2>1, <2>2, <2>3 DEF Listed
<1>12. Rooted(qq)'
  <2>1. Len(q) + 1 \in DOMAIN qq /\ qq # <<>>
    BY <1>1, <1>10
  <2> QED
    BY <1>5, <1>10, <1>11, <2>1 DEF Rooted
<1> QED
  BY <1>5, <1>6, <1>7, <1>9, <1>12, <1>13 DEF qq

(* Disconnected closes the gap a cell leaves.                              *)
LEMMA UnlinkedOrder ==
  ASSUME IInv, NEW dev \in Cells, NEW h, NEW q, Rooted(q),
         h = [heap EXCEPT ![dev].iFlags = @ \ {"PRESENCE"}],
         heap' = Unlinked(h, dev), rootDevice' = NewRoot(h, dev)
  PROVE  /\ Cells' = Cells \ {dev} /\ Order'
         /\ \A c \in Cells' : /\ heap'[c].devnum = heap[c].devnum /\ heap'[c].iFlags = heap[c].iFlags
                              /\ heap'[c].lDescriptor = heap[c].lDescriptor /\ heap'[c] \in Cell
<1>1. /\ Cells \subseteq Addr /\ NULL \notin Cells /\ N \in Nat
      /\ Len(q) \in Nat /\ DOMAIN q = 1 .. Len(q) /\ \A i \in DOMAIN q : q[i] \in Cells
  BY ListFacts
<1>2. Listed(q) /\ \A c \in Cells : heap[c] \in Cell
  BY DEF Rooted, IInv, TypeOK
<1>3. PICK j \in DOMAIN q : q[j] = dev
  BY <1>2 DEF Listed
<1> DEFINE n == Len(q)  before == heap[dev].last  after == heap[dev].next
           qq == [i \in 1 .. n - 1 |-> IF i < j THEN q[i] ELSE q[i + 1]]
<1>4. /\ before = IF j = 1 THEN NULL ELSE q[j - 1]
      /\ after = IF j = n THEN NULL ELSE q[j + 1]
  BY <1>2, <1>3 DEF Listed
<1>5. /\ DOMAIN h = Cells /\ h[dev].last = before /\ h[dev].next = after
      /\ \A c \in Cells : c # dev => h[c] = heap[c]
  BY <1>2 DEF Cells, Cell
<1>6. /\ before \in Addr \union {NULL} /\ after \in Addr \union {NULL}
      /\ before \in Cells => before # after
  <2>1. before \in Addr \union {NULL} /\ after \in Addr \union {NULL}
    BY <1>2 DEF Cell
  <2>2. ASSUME before \in Cells, before = after PROVE FALSE
    <3>1. j # 1 /\ j # n /\ q[j - 1] = q[j + 1] /\ j - 1 \in DOMAIN q /\ j + 1 \in DOMAIN q
      BY <1>1, <1>4, <2>2
    <3> QED
      BY <1>1, <1>2, <3>1 DEF Listed
  <2> QED
    BY <2>1, <2>2
<1> HIDE DEF before, after
<1>7. heap' = [c \in Cells \ {dev} |-> IF c = before THEN [h[c] EXCEPT !.next = after]
                                      ELSE IF c = after THEN [h[c] EXCEPT !.last = before]
                                      ELSE h[c]]
  BY <1>5 DEF Unlinked
<1>8. Cells' = Cells \ {dev}
  BY <1>7 DEF Cells
<1>9. \A c \in Cells' : /\ heap'[c].next = IF c = before THEN after ELSE heap[c].next
                        /\ heap'[c].last = IF c = after THEN before ELSE heap[c].last
                        /\ heap'[c].devnum = heap[c].devnum /\ heap'[c].iFlags = heap[c].iFlags
                        /\ heap'[c].lDescriptor = heap[c].lDescriptor /\ heap'[c] \in Cell
  <2> TAKE c \in Cells'
  <2>1. c \in Cells /\ c # dev /\ h[c] = heap[c] /\ heap[c] \in Cell
    BY <1>2, <1>5, <1>8
  <2>2. heap'[c] = IF c = before THEN [heap[c] EXCEPT !.next = after]
                   ELSE IF c = after THEN [heap[c] EXCEPT !.last = before]
                   ELSE heap[c]
    BY <1>7, <2>1
  <2>3. /\ [heap[c] EXCEPT !.next = after] \in Cell /\ [heap[c] EXCEPT !.next = after].next = after
        /\ [heap[c] EXCEPT !.last = before] \in Cell /\ [heap[c] EXCEPT !.last = before].last = before
    BY <1>6, <2>1 DEF Cell
  <2>4. LET r == [heap[c] EXCEPT !.next = after]
        IN  /\ r.last = heap[c].last /\ r.devnum = heap[c].devnum
            /\ r.iFlags = heap[c].iFlags /\ r.lDescriptor = heap[c].lDescriptor
    BY <2>1 DEF Cell
  <2>5. LET r == [heap[c] EXCEPT !.last = before]
        IN  /\ r.next = heap[c].next /\ r.devnum = heap[c].devnum
            /\ r.iFlags = heap[c].iFlags /\ r.lDescriptor = heap[c].lDescriptor
    BY <2>1 DEF Cell
  <2>6. c = before => c # after
    BY <1>6, <2>1
  <2>7. CASE c = before
    <3>1. heap'[c] = [heap[c] EXCEPT !.next = after] /\ c # after
      BY <2>2, <2>6, <2>7
    <3> QED
      BY <2>3, <2>4, <2>7, <3>1
  <2>8. CASE c # before /\ c = after
    <3>1. heap'[c] = [heap[c] EXCEPT !.last = before]
      BY <2>2, <2>8
    <3> QED
      BY <2>3, <2>5, <2>8, <3>1
  <2>9. CASE c # before /\ c # after
    BY <2>1, <2>2, <2>9
  <2> QED
    BY <2>7, <2>8, <2>9
<1>10. /\ qq \in Seq(Cells \ {dev}) /\ Len(qq) = n - 1 /\ DOMAIN qq = 1 .. n - 1
       /\ \A i \in 1 .. n - 1 : qq[i] = IF i < j THEN q[i] ELSE q[i + 1]
  <2>1. j \in 1 .. n /\ n - 1 \in Nat
    BY <1>1, <1>3
  <2>2. \A i \in 1 .. n - 1 : qq[i] = (IF i < j THEN q[i] ELSE q[i + 1]) /\ qq[i] \in Cells \ {dev}
    <3> TAKE i \in 1 .. n - 1
    <3>1. i \in DOMAIN q /\ i + 1 \in DOMAIN q
      BY <1>1
    <3>2. i < j => q[i] # dev
      BY <1>2, <1>3, <2>1, <3>1 DEF Listed
    <3>3. ~(i < j) => q[i + 1] # dev
      BY <1>2, <1>3, <2>1, <3>1 DEF Listed
    <3> QED
      BY <1>1, <3>1, <3>2, <3>3
  <2> QED
    BY <2>1, <2>2
<1> HIDE DEF qq
<1>11. Listed(qq)'
  <2>1. \A c \in Cells' : \E i \in DOMAIN qq : qq[i] = c
    <3> TAKE c \in Cells'
    <3>1. PICK i \in DOMAIN q : q[i] = c
      BY <1>2, <1>8 DEF Listed
    <3>2. i # j /\ i \in 1 .. n /\ j \in 1 .. n
      BY <1>1, <1>3, <1>8, <3>1
    <3>3. CASE i < j
      BY <1>1, <1>10, <3>1, <3>2, <3>3
    <3>4. CASE i > j
      <4>1. i - 1 \in 1 .. n - 1 /\ ~(i - 1 < j) /\ (i - 1) + 1 = i
        BY <1>1, <3>2, <3>4
      <4> QED
        BY <1>10, <3>1, <4>1
    <3> QED
      BY <3>2, <3>3, <3>4
  <2>2. \A i, k \in DOMAIN qq : qq[i] = qq[k] => i = k
    <3> TAKE i, k \in DOMAIN qq
    <3>1. /\ i \in 1 .. n - 1 /\ k \in 1 .. n - 1 /\ i \in DOMAIN q /\ i + 1 \in DOMAIN q
          /\ k \in DOMAIN q /\ k + 1 \in DOMAIN q /\ j \in 1 .. n
      BY <1>1, <1>3, <1>10
    <3>2. \A x, y \in DOMAIN q : q[x] = q[y] => x = y
      BY <1>2 DEF Listed
    <3> QED
      BY <1>1, <1>10, <3>1, <3>2
  <2>3. ASSUME NEW i \in DOMAIN qq
        PROVE  /\ heap'[qq[i]].last = IF i = 1 THEN NULL ELSE qq[i - 1]
               /\ heap'[qq[i]].next = IF i = Len(qq) THEN NULL ELSE qq[i + 1]
    <3>1. i \in 1 .. n - 1 /\ j \in 1 .. n /\ qq[i] \in Cells'
      BY <1>1, <1>3, <1>8, <1>10
    <3>2. \A x, y \in DOMAIN q : q[x] = q[y] => x = y
      BY <1>2 DEF Listed
    <3>3. \A x \in DOMAIN q : /\ heap[q[x]].last = IF x = 1 THEN NULL ELSE q[x - 1]
                              /\ heap[q[x]].next = IF x = n THEN NULL ELSE q[x + 1]
      BY <1>2 DEF Listed
    <3>4. /\ heap'[qq[i]].next = IF qq[i] = before THEN after ELSE heap[qq[i]].next
          /\ heap'[qq[i]].last = IF qq[i] = after THEN before ELSE heap[qq[i]].last
      <4>1. PICK c \in Cells' : c = qq[i]
        BY <3>1
      <4>2. /\ heap'[c].next = IF c = before THEN after ELSE heap[c].next
            /\ heap'[c].last = IF c = after THEN before ELSE heap[c].last
        BY <1>9
      <4> QED
        BY <4>1, <4>2
    <3>5. CASE i < j
      <4>1. qq[i] = q[i] /\ i \in DOMAIN q /\ q[i] \in Cells
        BY <1>1, <1>10, <3>1, <3>5
      <4>2. q[i] = before <=> i = j - 1
        <5>1. j # 1 => j - 1 \in DOMAIN q
          BY <1>1, <3>1
        <5> QED
          BY <1>1, <1>4, <3>1, <3>2, <4>1, <5>1
      <4>3. q[i] # after
        <5>1. j # n => j + 1 \in DOMAIN q
          BY <1>1, <3>1
        <5> QED
          BY <1>1, <1>4, <3>1, <3>2, <3>5, <4>1, <5>1
      <4>4. heap'[qq[i]].last = IF i = 1 THEN NULL ELSE q[i - 1]
        BY <3>3, <3>4, <4>1, <4>3
      <4>5. i # 1 => qq[i - 1] = q[i - 1]
        BY <1>1, <1>10, <3>1, <3>5
      <4>6. CASE i = j - 1
        <5>1. heap'[qq[i]].next = IF j = n THEN NULL ELSE q[j + 1]
          BY <1>4, <3>4, <4>1, <4>2, <4>6
        <5>2. (j = n <=> i = Len(qq)) /\ (j # n => qq[i + 1] = q[j + 1])
          BY <1>1, <1>10, <3>1, <4>6
        <5> QED
          BY <4>4, <4>5, <5>1, <5>2
      <4>7. CASE i # j - 1
        <5>1. heap'[qq[i]].next = q[i + 1]
          BY <1>1, <3>1, <3>3, <3>4, <3>5, <4>1, <4>2, <4>7
        <5>2. i + 1 < j /\ i # Len(qq) /\ qq[i + 1] = q[i + 1]
          BY <1>1, <1>10, <3>1, <3>5, <4>7
        <5> QED
          BY <4>4, <4>5, <5>1, <5>2
      <4> QED
        BY <4>6, <4>7
    <3>6. CASE i >= j
      <4> DEFINE x == i + 1
      <4>1. qq[i] = q[x] /\ x \in DOMAIN q /\ q[x] \in Cells /\ x > j /\ x - 1 = i
        BY <1>1, <1>10, <3>1, <3>6
      <4>2. q[x] # before
        <5>1. j # 1 => j - 1 \in DOMAIN q
          BY <1>1, <3>1
        <5> QED
          BY <1>1, <1>4, <3>1, <3>2, <4>1, <5>1
      <4>3. q[x] = after <=> i = j
        <5>1. j # n => j + 1 \in DOMAIN q
          BY <1>1, <3>1
        <5> QED
          BY <1>1, <1>4, <3>1, <3>2, <4>1, <5>1
      <4>4. heap'[qq[i]].next = IF x = n THEN NULL ELSE q[x + 1]
        BY <3>3, <3>4, <4>1, <4>2
      <4>5. (x = n <=> i = Len(qq)) /\ (x # n => qq[i + 1] = q[x + 1])
        BY <1>1, <1>10, <3>1, <3>6
      <4>6. CASE i = j
        <5>1. heap'[qq[i]].last = IF j = 1 THEN NULL ELSE q[j - 1]
          BY <1>4, <3>4, <4>1, <4>3, <4>6
        <5>2. j # 1 => qq[i - 1] = q[j - 1]
          BY <1>1, <1>10, <3>1, <4>6
        <5> QED
          BY <4>4, <4>5, <4>6, <5>1, <5>2
      <4>7. CASE i # j
        <5>1. heap'[qq[i]].last = q[i]
          BY <1>1, <3>1, <3>3, <3>4, <3>6, <4>1, <4>3, <4>7
        <5>2. i # 1 /\ qq[i - 1] = q[i]
          BY <1>1, <1>10, <3>1, <3>6, <4>7
        <5> QED
          BY <4>4, <4>5, <5>1, <5>2
      <4> QED
        BY <4>6, <4>7
    <3> QED
      BY <3>1, <3>5, <3>6
  <2> QED
    BY <1>8, <1>10, <2>1, <2>2, <2>3 DEF Listed
<1>12. Rooted(qq)'
  <2>1. rootDevice' = IF after # NULL THEN after ELSE before
    BY <1>5 DEF NewRoot
  <2>2. j \in 1 .. n
    BY <1>1, <1>3
  <2>3. CASE n = 1
    <3>1. after = NULL /\ before = NULL
      BY <1>4, <2>2, <2>3
    <3>2. qq = <<>>
      BY <1>10, <2>3
    <3> QED
      BY <1>11, <2>1, <3>1, <3>2 DEF Rooted
  <2>4. CASE n > 1 /\ j # n
    <3>1. after = q[j + 1] /\ j + 1 \in DOMAIN q
      BY <1>1, <1>4, <2>2, <2>4
    <3>2. after # NULL /\ j \in DOMAIN qq /\ qq[j] = after
      BY <1>1, <1>10, <2>2, <2>4, <3>1
    <3>3. qq # <<>>
      BY <1>10, <2>4, <3>2
    <3> QED
      BY <1>11, <2>1, <3>2, <3>3 DEF Rooted
  <2>5. CASE n > 1 /\ j = n
    <3>1. after = NULL /\ before = q[j - 1]
      BY <1>1, <1>4, <2>5
    <3>2. j - 1 \in DOMAIN qq /\ qq[j - 1] = before
      BY <1>1, <1>10, <2>5, <3>1
    <3>3. qq # <<>>
      BY <1>10, <2>5, <3>2
    <3> QED
      BY <1>11, <2>1, <3>1, <3>2, <3>3 DEF Rooted
  <2> QED
    BY <1>1, <2>2, <2>3, <2>4, <2>5
<1>13. Order'
  BY <1>12 DEF Order
<1> QED
  BY <1>8, <1>9, <1>13

-----------------------------------------------------------------------------
(* Every step keeps the invariant.                                         *)

LEMMA AdditiveInv ==
  ASSUME IInv, NEW o \in Port, NEW a \in Addr, Additive(o, a)
  PROVE  IInv'
<1>1. PICK q : Rooted(q)
  BY DEF IInv, Order
<1>2. /\ Cells' = Cells \union {a} /\ Rooted(Append(q, a))'
      /\ \A c \in Cells : /\ heap'[c].devnum = heap[c].devnum /\ heap'[c].iFlags = heap[c].iFlags
                          /\ heap'[c].lDescriptor = heap[c].lDescriptor
      /\ heap'[a].devnum \in 0 .. N - 1 /\ \A c \in Cells : heap[c].devnum # heap'[a].devnum
      /\ heap'[a].iFlags = {"PRESENCE"} /\ heap'[a].lDescriptor = 0
      /\ \A c \in Cells' : heap'[c] \in Cell
  BY <1>1, AdditiveOrder
<1>3. /\ loaded /\ loaded' = loaded /\ a \notin Cells /\ rootDevice' = a /\ booChangeList' = TRUE
      /\ devicedata' = [devicedata EXCEPT ![o] = a] /\ UNCHANGED <<held, find, seen, ended>>
  BY DEF Additive, views
<1>4. TypeOK'
  BY <1>2, <1>3 DEF IInv, TypeOK
<1>5. Order'
  BY <1>2 DEF Order
<1>6. Numbers'
  BY <1>2 DEF IInv, Numbers, NumbersDistinct
<1>7. Present'
  <2>1. devicedata'[o] = a /\ \A u \in Port : u # o => devicedata'[u] = devicedata[u]
    BY <1>3 DEF IInv, TypeOK
  <2>2. \A u \in Port : devicedata[u] # NULL => /\ devicedata[u] \in Cells
                                                /\ "PRESENCE" \in heap[devicedata[u]].iFlags
    BY <1>3 DEF IInv, Present, DevicedataAlive
  <2>3. DevicedataAlive'
    BY <1>2, <2>1, <2>2 DEF DevicedataAlive
  <2>4. \A u, v \in Port : devicedata'[u] # NULL /\ devicedata'[u] = devicedata'[v] => u = v
    BY <1>3, <2>1, <2>2 DEF IInv, Present
  <2> QED
    BY <2>3, <2>4 DEF Present
<1>8. Handles'
  <2>1. Used' = Used
    BY <1>2, <1>3 DEF Used
  <2>2. Used \subseteq Cells
    BY DEF Used
  <2> QED
    BY <1>2, <1>3, <2>1, <2>2 DEF IInv, Handles
<1>9. UnloadFreesAll'
  BY <1>3 DEF UnloadFreesAll
<1> QED
  BY <1>4, <1>5, <1>6, <1>7, <1>8, <1>9 DEF IInv

LEMMA DisconnectedInv ==
  ASSUME IInv, NEW o \in Port, Disconnected(o)
  PROVE  IInv'
<1>1. PICK q : Rooted(q)
  BY DEF IInv, Order
<1>2. PICK dev \in Cells : dev = devicedata[o] /\ "PRESENCE" \in heap[dev].iFlags
  BY DEF Disconnected, IInv, Present, DevicedataAlive
<1> DEFINE h == [heap EXCEPT ![dev].iFlags = @ \ {"PRESENCE"}]
<1>3. /\ loaded /\ loaded' = loaded /\ devicedata' = [devicedata EXCEPT ![o] = NULL]
      /\ booChangeList' = TRUE /\ UNCHANGED <<held, find, seen, ended>>
      /\ IF h[dev].iFlags = {} THEN heap' = Unlinked(h, dev) /\ rootDevice' = NewRoot(h, dev)
                               ELSE heap' = h /\ UNCHANGED rootDevice
  BY <1>2 DEF Disconnected, views
<1>4. \A c \in Cells : heap[c] \in Cell
  BY DEF IInv, TypeOK
<1>5. /\ DOMAIN h = Cells /\ h[dev].iFlags = heap[dev].iFlags \ {"PRESENCE"}
      /\ h[dev].devnum = heap[dev].devnum /\ h[dev].last = heap[dev].last /\ h[dev].next = heap[dev].next
      /\ h[dev].lDescriptor = heap[dev].lDescriptor /\ h[dev] \in Cell
      /\ \A c \in Cells : c # dev => h[c] = heap[c]
  BY <1>4 DEF Cells, Cell
(* What is left of the list, and which cells it is about.                  *)
<1>6. /\ Order' /\ Cells' \subseteq Cells /\ Used' = Used /\ Used \subseteq Cells' /\ Cells \ {dev} \subseteq Cells'
      /\ rootDevice' \in Addr \union {NULL}
      /\ \A c \in Cells' : /\ heap'[c].devnum = heap[c].devnum /\ heap'[c].lDescriptor = heap[c].lDescriptor
                           /\ c # dev => heap'[c].iFlags = heap[c].iFlags
                           /\ heap'[c] \in Cell
  <2>1. CASE h[dev].iFlags = {}
    <3>1. heap' = Unlinked(h, dev) /\ rootDevice' = NewRoot(h, dev)
      BY <1>3, <2>1
    <3>2. /\ Cells' = Cells \ {dev} /\ Order'
          /\ \A c \in Cells' : /\ heap'[c].devnum = heap[c].devnum /\ heap'[c].iFlags = heap[c].iFlags
                               /\ heap'[c].lDescriptor = heap[c].lDescriptor /\ heap'[c] \in Cell
      BY <1>1, <3>1, UnlinkedOrder
    <3>3. heap[dev].iFlags \subseteq {"PRESENCE"}
      BY <1>5, <2>1
    <3>4. "BUSY" \notin heap[dev].iFlags
      BY <3>3
    <3>5. dev \notin Used /\ Used' = Used
      BY <3>2, <3>4 DEF Used
    <3>6. rootDevice' \in Addr \union {NULL}
      BY <1>5, <3>1 DEF NewRoot, Cell
    <3>7. Used \subseteq Cells
      BY DEF Used
    <3> QED
      BY <3>2, <3>5, <3>6, <3>7
  <2>2. CASE h[dev].iFlags # {}
    <3>1. heap' = h /\ rootDevice' = rootDevice /\ Cells' = Cells
      BY <1>3, <1>5, <2>2 DEF Cells
    <3>2. \A c \in Cells : heap'[c].last = heap[c].last /\ heap'[c].next = heap[c].next
      BY <1>5, <3>1
    <3>3. Order'
      <4>1. Rooted(q)'
        BY <1>1, <3>1, <3>2, OrderSame
      <4> QED
        BY <4>1 DEF Order
    <3>4. \A c \in Cells : "BUSY" \in heap'[c].iFlags <=> "BUSY" \in heap[c].iFlags
      BY <1>5, <3>1
    <3>5. Used' = Used /\ Used \subseteq Cells
      BY <3>1, <3>4 DEF Used
    <3>6. rootDevice' \in Addr \union {NULL}
      BY <3>1 DEF IInv, TypeOK
    <3>7. \A c \in Cells : /\ heap'[c].devnum = heap[c].devnum /\ heap'[c].lDescriptor = heap[c].lDescriptor
                           /\ c # dev => heap'[c].iFlags = heap[c].iFlags
                           /\ heap'[c] \in Cell
      BY <1>4, <1>5, <3>1
    <3> HIDE DEF h
    <3> QED
      BY <3>1, <3>3, <3>5, <3>6, <3>7
  <2> QED
    BY <2>1, <2>2
<1> HIDE DEF h
<1>7. TypeOK'
  BY <1>3, <1>6 DEF IInv, TypeOK
<1>8. Numbers'
  BY <1>6 DEF IInv, Numbers, NumbersDistinct
<1>9. Present'
  <2>1. devicedata'[o] = NULL /\ \A u \in Port : u # o => devicedata'[u] = devicedata[u]
    BY <1>3 DEF IInv, TypeOK
  <2>2. \A u \in Port : devicedata[u] # NULL => /\ devicedata[u] \in Cells
                                                /\ "PRESENCE" \in heap[devicedata[u]].iFlags
    BY <1>3 DEF IInv, Present, DevicedataAlive
  <2>3. \A u \in Port : u # o /\ devicedata[u] # NULL => devicedata[u] # dev
    BY <1>2, <1>3 DEF IInv, Present
  <2>4. \A u \in Port : devicedata'[u] # NULL => /\ devicedata'[u] \in Cells'
                                                 /\ "PRESENCE" \in heap'[devicedata'[u]].iFlags
    <3> SUFFICES ASSUME NEW u \in Port, devicedata'[u] # NULL
                 PROVE  devicedata'[u] \in Cells' /\ "PRESENCE" \in heap'[devicedata'[u]].iFlags
      OBVIOUS
    <3>1. u # o /\ devicedata'[u] = devicedata[u]
      BY <2>1
    <3>2. devicedata[u] \in Cells /\ devicedata[u] # dev /\ "PRESENCE" \in heap[devicedata[u]].iFlags
      BY <2>2, <2>3, <3>1
    <3>3. devicedata[u] \in Cells'
      BY <1>6, <3>2
    <3> QED
      BY <1>6, <3>1, <3>2, <3>3
  <2>5. \A u, v \in Port : devicedata'[u] # NULL /\ devicedata'[u] = devicedata'[v] => u = v
    BY <1>3, <2>1 DEF IInv, Present
  <2> QED
    BY <2>4, <2>5 DEF Present, DevicedataAlive
<1>10. Handles'
  BY <1>3, <1>6 DEF IInv, Handles
<1>11. UnloadFreesAll'
  BY <1>3 DEF UnloadFreesAll
<1> QED
  BY <1>6, <1>7, <1>8, <1>9, <1>10, <1>11 DEF IInv

LEMMA UnloadInv ==
  ASSUME IInv, Unload
  PROVE  IInv'
<1>1. PICK q : Rooted(q)
  BY DEF IInv, Order
<1>2. Walk = q /\ \A c \in Cells : \E i \in DOMAIN q : q[i] = c
  BY <1>1, ListFacts DEF Rooted, Listed
<1>3. /\ loaded' = FALSE /\ rootDevice' = NULL /\ UNCHANGED <<booChangeList, devicedata, held, find, seen, ended>>
      /\ heap' = [c \in Cells \ {Walk[k] : k \in DOMAIN Walk} |-> heap[c]]
  BY DEF Unload, views
<1>4. Cells' = {}
  <2>1. Cells' = Cells \ {q[k] : k \in DOMAIN q}
    BY <1>2, <1>3 DEF Cells
  <2> QED
    BY <1>2, <2>1
<1>5. Order'
  <2>1. Rooted(<<>>)'
    BY <1>3, <1>4 DEF Rooted, Listed
  <2> QED
    BY <2>1 DEF Order
<1>6. TypeOK'
  BY <1>3, <1>4 DEF IInv, TypeOK
<1> QED
  BY <1>3, <1>4, <1>5, <1>6 DEF IInv, Numbers, NumbersDistinct, Present, DevicedataAlive, Handles, Used,
     UnloadFreesAll

(* A step that keeps every link, number and device in place.               *)
LEMMA LinksKept ==
  ASSUME IInv, Cells' = Cells, rootDevice' = rootDevice, devicedata' = devicedata, loaded' = loaded,
         \A c \in Cells : /\ heap'[c].last = heap[c].last /\ heap'[c].next = heap[c].next
                          /\ heap'[c].devnum = heap[c].devnum
                          /\ "PRESENCE" \in heap[c].iFlags => "PRESENCE" \in heap'[c].iFlags
  PROVE  Order' /\ Numbers' /\ Present' /\ UnloadFreesAll'
<1>1. Order'
  <2>1. PICK q : Rooted(q)
    BY DEF IInv, Order
  <2>2. Rooted(q)'
    BY <2>1, OrderSame
  <2> QED
    BY <2>2 DEF Order
<1> QED
  BY <1>1 DEF IInv, Numbers, NumbersDistinct, Present, DevicedataAlive, UnloadFreesAll

LEMMA SetBusyInv ==
  ASSUME IInv, NEW p \in Pid, NEW n \in 0 .. N, NEW mode, mode \subseteq {"UART"}, loaded, SetBusy(p, n, mode)
  PROVE  IInv'
<1>1. PICK q : Rooted(q)
  BY DEF IInv, Order
<1>2. Cells \subseteq Addr /\ \A c \in Cells : heap[c] \in Cell
  BY DEF IInv, TypeOK
<1>3. PICK dev \in Cells : dev = SeekNumber(n)
  BY <1>1, <1>2, SeekIs DEF SeekNumber, SetBusy
<1>4. /\ "BUSY" \notin heap[dev].iFlags
      /\ heap' = [heap EXCEPT ![dev].iFlags = (@ \ {"UART"}) \union {"BUSY"} \union mode,
                              ![dev].lDescriptor = dev + p]
      /\ held' = [held EXCEPT ![p] = @ \union {dev + p}]
      /\ UNCHANGED <<rootDevice, booChangeList, devicedata, loaded, find, seen, ended>>
  BY <1>3 DEF SetBusy, views
<1>5. dev \in Nat /\ p \in Nat /\ dev + p \in Nat
  BY <1>2, AddrAssumption, PidAssumption
<1>6. /\ Cells' = Cells /\ \A c \in Cells : c # dev => heap'[c] = heap[c]
      /\ heap'[dev].iFlags = (heap[dev].iFlags \ {"UART"}) \union {"BUSY"} \union mode
      /\ heap'[dev].lDescriptor = dev + p /\ heap'[dev].devnum = heap[dev].devnum
      /\ heap'[dev].last = heap[dev].last /\ heap'[dev].next = heap[dev].next
  BY <1>2, <1>4 DEF Cells, Cell
<1>7. heap'[dev] \in Cell
  <2>1. (heap[dev].iFlags \ {"UART"}) \union {"BUSY"} \union mode \in SUBSET Flag
    BY <1>2 DEF Cell, Flag
  <2>2. heap'[dev] = [heap[dev] EXCEPT !.iFlags = (@ \ {"UART"}) \union {"BUSY"} \union mode,
                                      !.lDescriptor = dev + p]
    BY <1>4 DEF Cells
  <2> QED
    BY <1>2, <1>5, <2>1, <2>2 DEF Cell
<1>8. /\ held'[p] = held[p] \union {dev + p} /\ \A r \in Pid : r # p => held'[r] = held[r]
      /\ held' \in [Pid -> SUBSET Nat]
  BY <1>4, <1>5 DEF IInv, TypeOK
<1>9. TypeOK'
  BY <1>2, <1>4, <1>6, <1>7, <1>8 DEF IInv, TypeOK
<1>10. Order' /\ Numbers' /\ Present' /\ UnloadFreesAll'
  <2>1. \A c \in Cells : /\ heap'[c].last = heap[c].last /\ heap'[c].next = heap[c].next
                         /\ heap'[c].devnum = heap[c].devnum
                         /\ "PRESENCE" \in heap[c].iFlags => "PRESENCE" \in heap'[c].iFlags
    BY <1>6
  <2> QED
    BY <1>4, <1>6, <2>1, LinksKept
<1>11. Handles'
  <2>1. Used' = Used \union {dev} /\ dev \notin Used /\ Used \subseteq Cells
    BY <1>4, <1>6 DEF Used
  <2>2. ASSUME NEW c \in Cells
        PROVE  IF c \in Used' THEN \E r \in Pid : heap'[c].lDescriptor = c + r /\ c + r \in held'[r]
                              ELSE heap'[c].lDescriptor = 0
    <3>1. CASE c = dev
      BY <1>6, <1>8, <2>1, <3>1
    <3>2. CASE c # dev
      <4>1. c \in Used' <=> c \in Used
        BY <2>1, <3>2
      <4>2. heap'[c] = heap[c] /\ \A r \in Pid : held[r] \subseteq held'[r]
        BY <1>6, <1>8, <3>2
      <4> QED
        BY <4>1, <4>2 DEF IInv, Handles
    <3> QED
      BY <3>1, <3>2
  <2>3. ASSUME NEW r \in Pid, NEW h \in held'[r]
        PROVE  \E c \in Used' : h = c + r /\ heap'[c].lDescriptor = h
    <3>1. CASE h \in held[r]
      <4>1. PICK c \in Used : h = c + r /\ heap[c].lDescriptor = h
        BY <3>1 DEF IInv, Handles
      <4>2. c # dev /\ c \in Cells /\ c \in Used'
        BY <2>1
      <4> QED
        BY <1>6, <4>1, <4>2
    <3>2. CASE h \notin held[r]
      <4>1. r = p /\ h = dev + p
        BY <1>8, <3>2
      <4> QED
        BY <1>6, <2>1, <4>1
    <3> QED
      BY <3>1, <3>2
  <2> QED
    BY <1>6, <2>2, <2>3 DEF Handles
<1> QED
  BY <1>9, <1>10, <1>11 DEF IInv

LEMMA CloseInv ==
  ASSUME IInv, NEW p \in Pid, NEW h \in held[p] \union {0}, ProcCmd_CLOSE_DEVICE(p, h)
  PROVE  IInv'
<1>1. PICK q : Rooted(q)
  BY DEF IInv, Order
<1>2. Cells \subseteq Addr /\ \A c \in Cells : heap[c] \in Cell
  BY DEF IInv, TypeOK
<1>3. PICK dev \in Cells : dev = SeekToDescriptor(h) /\ heap[dev].lDescriptor = h
  <2> DEFINE S == {c \in Cells : heap[c].lDescriptor = h}
  <2>1. SeekToDescriptor(h) = Seek(S) /\ SeekToDescriptor(h) # NULL
    BY DEF SeekToDescriptor, ProcCmd_CLOSE_DEVICE
  <2>2. Seek(S) = NULL \/ (Seek(S) \in Cells /\ Seek(S) \in S)
    <3> HIDE DEF S
    <3> QED
      BY <1>1, <1>2, SeekIs
  <2> QED
    BY <2>1, <2>2
<1>4. /\ loaded
      /\ heap' = [heap EXCEPT ![dev].iFlags = @ \ {"BUSY", "UART"}, ![dev].lDescriptor = 0]
      /\ held' = [held EXCEPT ![p] = @ \ {h}]
      /\ UNCHANGED <<rootDevice, booChangeList, devicedata, loaded, find, seen, ended>>
  BY <1>3 DEF ProcCmd_CLOSE_DEVICE, views
<1>5. Addr \subseteq Nat \ {0} /\ Pid \subseteq Nat \ {0}
  BY AddrAssumption, PidAssumption
<1>6. /\ Cells' = Cells /\ \A c \in Cells : c # dev => heap'[c] = heap[c]
      /\ heap'[dev].iFlags = heap[dev].iFlags \ {"BUSY", "UART"}
      /\ heap'[dev].lDescriptor = 0 /\ heap'[dev].devnum = heap[dev].devnum
      /\ heap'[dev].last = heap[dev].last /\ heap'[dev].next = heap[dev].next
      /\ heap'[dev] \in Cell
  BY <1>2, <1>4 DEF Cells, Cell
<1>7. /\ held'[p] = held[p] \ {h} /\ \A r \in Pid : r # p => held'[r] = held[r]
      /\ held' \in [Pid -> SUBSET Nat]
  BY <1>4 DEF IInv, TypeOK
<1>8. TypeOK'
  BY <1>2, <1>4, <1>6, <1>7 DEF IInv, TypeOK
<1>9. Order' /\ Numbers' /\ Present' /\ UnloadFreesAll'
  <2>1. \A c \in Cells : /\ heap'[c].last = heap[c].last /\ heap'[c].next = heap[c].next
                         /\ heap'[c].devnum = heap[c].devnum
                         /\ "PRESENCE" \in heap[c].iFlags => "PRESENCE" \in heap'[c].iFlags
    BY <1>6
  <2> QED
    BY <1>4, <1>6, <2>1, LinksKept
<1>10. Used' = Used \ {dev} /\ Used \subseteq Cells
  BY <1>6 DEF Used
(* The handle that is closed is that of dev alone.                         *)
<1>11. dev \in Used => h = dev + p /\ h \in held[p]
  <2> SUFFICES ASSUME dev \in Used PROVE h = dev + p /\ h \in held[p]
    OBVIOUS
  <2>1. PICK r \in Pid : h = dev + r
    BY <1>3 DEF IInv, Handles
  <2>2. h # 0 /\ h \in held[p]
    <3>1. dev \in Nat \ {0} /\ r \in Nat \ {0}
      BY <1>2, <1>5
    <3>2. dev + r # 0
      BY <3>1
    <3> QED
      BY <2>1, <3>2
  <2>3. PICK c \in Used : h = c + p
    BY <1>4, <2>2 DEF IInv, Handles
  <2>4. c = dev
    BY <1>2, <1>10, <2>1, <2>3, SpacingAssumption
  <2> QED
    BY <2>2, <2>3, <2>4
<1>12. dev \notin Used => h = 0
  BY <1>3 DEF IInv, Handles
<1>13. Handles'
  <2>1. ASSUME NEW c \in Cells
        PROVE  IF c \in Used' THEN \E r \in Pid : heap'[c].lDescriptor = c + r /\ c + r \in held'[r]
                              ELSE heap'[c].lDescriptor = 0
    <3>1. CASE c = dev
      BY <1>6, <1>10, <3>1
    <3>2. CASE c # dev /\ c \notin Used
      BY <1>6, <1>10, <3>2 DEF IInv, Handles
    <3>3. CASE c # dev /\ c \in Used
      <4>1. PICK r \in Pid : heap[c].lDescriptor = c + r /\ c + r \in held[r]
        BY <3>3 DEF IInv, Handles
      <4>2. c + r # h
        <5>1. CASE dev \in Used
          BY <1>2, <1>11, <3>3, <5>1, SpacingAssumption
        <5>2. CASE dev \notin Used
          BY <1>2, <1>5, <1>12, <5>2
        <5> QED
          BY <5>1, <5>2
      <4>3. c + r \in held'[r] /\ heap'[c] = heap[c] /\ c \in Used'
        BY <1>6, <1>7, <1>10, <3>3, <4>1, <4>2
      <4> QED
        BY <4>1, <4>3
    <3> QED
      BY <3>1, <3>2, <3>3
  <2>2. ASSUME NEW r \in Pid, NEW k \in held'[r]
        PROVE  \E c \in Used' : k = c + r /\ heap'[c].lDescriptor = k
    <3>1. k \in held[r] /\ (r = p => k # h)
      BY <1>7
    <3>2. PICK c \in Used : k = c + r /\ heap[c].lDescriptor = k
      BY <1>4, <3>1 DEF IInv, Handles
    <3>3. c # dev
      <4>1. SUFFICES ASSUME c = dev PROVE FALSE
        OBVIOUS
      <4>2. k = h /\ h = dev + p /\ k = dev + r
        BY <1>3, <1>11, <3>2, <4>1
      <4>3. dev \in Nat /\ p \in Nat /\ r \in Nat
        BY <1>2, <1>5
      <4>4. dev + r = dev + p
        BY <4>2
      <4>5. r = p
        BY <4>3, <4>4
      <4> QED
        BY <3>1, <4>2, <4>5
    <3> QED
      BY <1>6, <1>10, <3>2, <3>3
  <2> QED
    BY <1>6, <2>1, <2>2 DEF Handles
<1> QED
  BY <1>8, <1>9, <1>13 DEF IInv

(* What enumerations do leaves the cells and the handles alone.            *)
LEMMA ViewInv ==
  ASSUME IInv, UNCHANGED <<heap, rootDevice, devicedata, loaded, held>>, booChangeList' \in BOOLEAN,
         find' \in [Pid -> Addr \union {NULL}], seen' \in [Pid -> SUBSET (0 .. N)], ended' \in [Pid -> BOOLEAN]
  PROVE  IInv'
<1>1. Cells' = Cells /\ Used' = Used
  BY DEF Cells, Used
<1>2. TypeOK'
  BY <1>1 DEF IInv, TypeOK
<1>3. Order' /\ Numbers' /\ Present' /\ UnloadFreesAll'
  BY <1>1, LinksKept
<1>4. Handles'
  BY <1>1 DEF IInv, Handles
<1> QED
  BY <1>2, <1>3, <1>4 DEF IInv

LEMMA ReportInv ==
  ASSUME IInv, NEW p \in Pid, NEW dev \in Cells \union {NULL}, Report(p, dev)
  PROVE  IInv'
<1>1. /\ UNCHANGED <<heap, rootDevice, booChangeList, devicedata, loaded, held>>
      /\ IF dev = NULL THEN ended' = [ended EXCEPT ![p] = TRUE] /\ UNCHANGED <<find, seen>>
         ELSE /\ find' = [find EXCEPT ![p] = dev]
              /\ seen' = [seen EXCEPT ![p] = @ \union {heap[dev].devnum}]
              /\ UNCHANGED ended
  BY DEF Report, list
<1>2. dev # NULL => dev \in Addr /\ heap[dev].devnum \in 0 .. N
  BY DEF IInv, TypeOK, Cell
<1>3. booChangeList' \in BOOLEAN /\ ended' \in [Pid -> BOOLEAN]
  BY <1>1 DEF IInv, TypeOK
<1>4. find' \in [Pid -> Addr \union {NULL}]
  BY <1>1, <1>2 DEF IInv, TypeOK
<1>5. seen' \in [Pid -> SUBSET (0 .. N)]
  <2>1. seen \in [Pid -> SUBSET (0 .. N)]
    BY DEF IInv, TypeOK
  <2>2. CASE dev = NULL
    BY <1>1, <2>1, <2>2
  <2>3. CASE dev # NULL
    <3>1. seen[p] \union {heap[dev].devnum} \in SUBSET (0 .. N)
      BY <1>2, <2>1, <2>3
    <3>2. seen' = [seen EXCEPT ![p] = @ \union {heap[dev].devnum}]
      BY <1>1, <2>3
    <3> QED
      BY <2>1, <3>1, <3>2
  <2> QED
    BY <2>2, <2>3
<1> QED
  BY <1>1, <1>3, <1>4, <1>5, ViewInv

(* What FIRST_DEVICE and NEXT_DEVICE report is in the list, if anything.   *)
LEMMA ReportsACell ==
  ASSUME IInv, NEW p \in Viewer
  PROVE  /\ FIRST_DEVICE(p) => \E dev \in Cells \union {NULL} : Report(p, dev)
         /\ NEXT_DEVICE(p) => \E dev \in Cells \union {NULL} : Report(p, dev)
<1>1. PICK q : Rooted(q)
  BY DEF IInv, Order
<1>2. /\ Cells \subseteq Addr /\ NULL \notin Cells /\ N \in Nat /\ Len(q) <= N /\ Len(q) \in Nat
      /\ DOMAIN q = 1 .. Len(q) /\ \A i \in DOMAIN q : q[i] \in Cells
  BY <1>1, ListFacts
<1>3. ASSUME FIRST_DEVICE(p) PROVE \E dev \in Cells \union {NULL} : Report(p, dev)
  <2>1. CASE rootDevice = NULL
    BY <1>3, <2>1 DEF FIRST_DEVICE
  <2>2. CASE rootDevice # NULL
    <3>1. PICK r \in DOMAIN q : rootDevice = q[r]
      BY <1>1, <2>2 DEF Rooted
    <3>2. GotoFirst(rootDevice) = q[1]
      BY <1>1, <1>2, <3>1, GotoFirstIs DEF Rooted
    <3>3. q[1] \in Cells
      BY <1>2, <3>1
    <3> QED
      BY <1>3, <2>2, <3>2, <3>3 DEF FIRST_DEVICE
  <2> QED
    BY <2>1, <2>2
<1>4. ASSUME NEXT_DEVICE(p) PROVE \E dev \in Cells \union {NULL} : Report(p, dev)
  <2> DEFINE dev == SeekUartDevice(find[p])
  <2>1. dev = NULL \/ dev \in Cells
    BY <1>1, <1>2, SeekIs DEF SeekUartDevice
  <2>2. Report(p, IF dev = NULL THEN NULL ELSE heap[dev].next)
    BY <1>4 DEF NEXT_DEVICE
  <2>3. CASE dev = NULL
    BY <2>2, <2>3
  <2>4. CASE dev # NULL
    <3>1. PICK k \in DOMAIN q : q[k] = dev
      BY <1>1, <2>1, <2>4 DEF Rooted, Listed
    <3>2. heap[dev].next = IF k = Len(q) THEN NULL ELSE q[k + 1]
      BY <1>1, <3>1 DEF Rooted, Listed
    <3>3. k # Len(q) => q[k + 1] \in Cells
      BY <1>2
    <3> QED
      BY <2>2, <2>4, <3>2, <3>3
  <2> QED
    BY <2>3, <2>4
<1> QED
  BY <1>3, <1>4

LEMMA StepInv == IInv /\ [Next]_vars => IInv'
<1> SUFFICES ASSUME IInv, [Next]_vars PROVE IInv'
  OBVIOUS
<1> USE PidAssumption
<1>1. ASSUME NEW o \in Port, Disconnected(o) PROVE IInv'
  BY <1>1, DisconnectedInv
<1>2. ASSUME NEW o \in Port, NEW a \in Addr, Additive(o, a) PROVE IInv'
  BY <1>2, AdditiveInv
<1>3. CASE Unload
  BY <1>3, UnloadInv
<1>4. ASSUME NEW p \in Pid, NEW n \in 0 .. N, ProcCmd_OPEN_UART(p, n) PROVE IInv'
  BY <1>4, SetBusyInv DEF ProcCmd_OPEN_UART
<1>5. ASSUME NEW p \in Pid, NEW n \in 0 .. N, ProcCmd_OPEN_RAW(p, n) PROVE IInv'
  BY <1>5, SetBusyInv DEF ProcCmd_OPEN_RAW
<1>6. ASSUME NEW p \in Pid, NEW h \in held[p] \union {0}, ProcCmd_CLOSE_DEVICE(p, h) PROVE IInv'
  BY <1>6, CloseInv
<1>7. ASSUME NEW p \in Viewer, GET_EVENT_CHANGE_LIST(p) PROVE IInv'
  <2>1. /\ booChangeList' = FALSE /\ find' = [find EXCEPT ![p] = NULL]
        /\ seen' = [seen EXCEPT ![p] = {}] /\ ended' = [ended EXCEPT ![p] = FALSE]
        /\ UNCHANGED <<heap, rootDevice, devicedata, loaded, held>>
    BY <1>7 DEF GET_EVENT_CHANGE_LIST
  <2>2. /\ find' \in [Pid -> Addr \union {NULL}] /\ seen' \in [Pid -> SUBSET (0 .. N)]
        /\ ended' \in [Pid -> BOOLEAN]
    BY <2>1 DEF IInv, TypeOK
  <2> QED
    BY <2>1, <2>2, ViewInv
<1>8. ASSUME NEW p \in Viewer, FIRST_DEVICE(p) \/ NEXT_DEVICE(p) PROVE IInv'
  BY <1>8, ReportsACell, ReportInv
<1>9. CASE UNCHANGED vars
  <2>1. UNCHANGED <<heap, rootDevice, booChangeList, devicedata, loaded, held, find, seen, ended>>
    BY <1>9 DEF vars, list, views
  <2>2. /\ booChangeList \in BOOLEAN /\ find \in [Pid -> Addr \union {NULL}]
        /\ seen \in [Pid -> SUBSET (0 .. N)] /\ ended \in [Pid -> BOOLEAN]
    BY DEF IInv, TypeOK
  <2> QED
    BY <2>1, <2>2, ViewInv
<1> QED
  BY <1>1, <1>2, <1>3, <1>4, <1>5, <1>6, <1>7, <1>8, <1>9 DEF Next

LEMMA Inductive == Spec => []IInv
<1> QED
  BY InitInv, StepInv, PTL DEF Spec

-----------------------------------------------------------------------------
(* What follows from it.                                                   *)

LEMMA WellFormed == IInv => ListWellFormed
<1> SUFFICES ASSUME IInv PROVE ListWellFormed
  OBVIOUS
<1>1. PICK q : Rooted(q)
  BY DEF IInv, Order
<1>2. /\ Cells \subseteq Addr /\ NULL \notin Cells /\ Walk = q /\ Len(q) \in Nat /\ DOMAIN q = 1 .. Len(q)
      /\ Len(q) = Cardinality(Cells) /\ \A i \in DOMAIN q : q[i] \in Cells
  BY <1>1, ListFacts
<1>3. /\ \A c \in Cells : \E i \in DOMAIN q : q[i] = c
      /\ \A i \in DOMAIN q : /\ heap[q[i]].last = IF i = 1 THEN NULL ELSE q[i - 1]
                             /\ heap[q[i]].next = IF i = Len(q) THEN NULL ELSE q[i + 1]
      /\ IF q = <<>> THEN rootDevice = NULL ELSE \E r \in DOMAIN q : rootDevice = q[r]
  BY <1>1 DEF Rooted, Listed
<1>4. Cells = {} <=> q = <<>>
  <2>1. q = <<>> <=> Len(q) = 0
    BY <1>1 DEF Rooted, Listed
  <2>2. Len(q) # 0 => 1 \in DOMAIN q
    BY <1>2
  <2>3. Len(q) = 0 => DOMAIN q = {}
    BY <1>2
  <2> QED
    BY <1>2, <1>3, <2>1, <2>2, <2>3
<1>5. IF Cells = {} THEN rootDevice = NULL ELSE rootDevice \in Cells
  BY <1>2, <1>3, <1>4
<1>6. ASSUME NEW c \in Cells PROVE {heap[c].last, heap[c].next} \subseteq Cells \union {NULL}
  <2>1. PICK i \in DOMAIN q : q[i] = c
    BY <1>3
  <2>2. (i # 1 => i - 1 \in DOMAIN q) /\ (i # Len(q) => i + 1 \in DOMAIN q)
    BY <1>2
  <2> QED
    BY <1>2, <1>3, <2>1, <2>2
<1>7. Cells # {} => /\ {q[k] : k \in DOMAIN q} = Cells
                    /\ heap[q[1]].last = NULL /\ heap[q[Len(q)]].next = NULL
                    /\ \A k \in 2 .. Len(q) : heap[q[k]].last = q[k - 1]
  <2>1. {q[k] : k \in DOMAIN q} = Cells
    BY <1>2, <1>3
  <2>2. Cells # {} => 1 \in DOMAIN q /\ Len(q) \in DOMAIN q
    <3>1. Cells # {} => Len(q) # 0
      BY <1>2, <2>1
    <3> QED
      BY <1>2, <3>1
  <2>3. \A k \in 2 .. Len(q) : k \in DOMAIN q /\ k # 1
    BY <1>2
  <2> QED
    BY <1>3, <2>1, <2>2, <2>3
<1> QED
  BY <1>2, <1>5, <1>6, <1>7 DEF ListWellFormed

(* A handle that is held is found, at the cell it was given for.           *)
LEMMA Found ==
  ASSUME IInv, loaded, NEW p \in Pid, NEW h \in held[p]
  PROVE  SeekToDescriptor(h) \in Used /\ h = SeekToDescriptor(h) + p
<1>1. PICK q : Rooted(q)
  BY DEF IInv, Order
<1>2. Cells \subseteq Addr /\ Used \subseteq Cells
  BY DEF IInv, TypeOK, Used
<1>3. PICK c \in Used : h = c + p /\ heap[c].lDescriptor = h
  BY DEF IInv, Handles
<1> DEFINE S == {d \in Cells : heap[d].lDescriptor = h}
           dev == SeekToDescriptor(h)
<1>4. dev = Seek(S) /\ c \in S
  BY <1>2, <1>3 DEF SeekToDescriptor
<1>5. dev \in Cells /\ heap[dev].lDescriptor = h
  <2>1. Seek(S) \in Cells /\ Seek(S) \in S
    <3> HIDE DEF S
    <3> QED
      BY <1>1, <1>2, <1>3, <1>4, SeekIs
  <2> QED
    BY <1>4, <2>1
<1>6. c + p # 0
  <2>1. c \in Nat \ {0} /\ p \in Nat \ {0}
    BY <1>2, AddrAssumption, PidAssumption
  <2> QED
    BY <2>1
<1>7. dev \in Used
  BY <1>3, <1>5, <1>6 DEF IInv, Handles
<1>8. PICK r \in Pid : h = dev + r
  BY <1>5, <1>7 DEF IInv, Handles
<1>9. dev = c
  BY <1>2, <1>3, <1>5, <1>8, SpacingAssumption
<1> QED
  BY <1>3, <1>7, <1>9

LEMMA Good == IInv => HandlesGood
<1> SUFFICES ASSUME IInv, loaded PROVE HandlesGood
  BY DEF HandlesGood
<1> DEFINE open == UNION {held[p] : p \in Pid}
<1>1. \A p \in Pid : \A h \in held[p] : SeekToDescriptor(h) \in Used /\ h = SeekToDescriptor(h) + p
  BY Found
<1>2. ASSUME NEW p \in Pid, NEW r \in Pid, NEW h \in held[p], h \in held[r]
      PROVE  p = r
  <2> DEFINE dev == SeekToDescriptor(h)
  <2>1. dev \in Used /\ h = dev + p /\ h = dev + r
    BY <1>1, <1>2
  <2>2. dev \in Nat /\ p \in Nat /\ r \in Nat
    BY <2>1, AddrAssumption, PidAssumption DEF Used, IInv, TypeOK
  <2> HIDE DEF dev
  <2>3. dev + p = dev + r
    BY <2>1
  <2> QED
    BY <2>2, <2>3
<1>3. ASSUME NEW c \in Used PROVE \E h \in open : c = SeekToDescriptor(h)
  <2>1. c \in Cells /\ Cells \subseteq Addr
    BY DEF Used, IInv, TypeOK
  <2>2. PICK p \in Pid : c + p \in held[p]
    BY <2>1 DEF IInv, Handles
  <2>3. SeekToDescriptor(c + p) \in Used /\ c + p = SeekToDescriptor(c + p) + p
    BY <1>1, <2>2
  <2>4. SeekToDescriptor(c + p) = c
    BY <2>1, <2>3, SpacingAssumption DEF Used
  <2> QED
    BY <2>2, <2>4
<1>4. Used = {SeekToDescriptor(h) : h \in open}
  BY <1>1, <1>3
<1> QED
  BY <1>1, <1>2, <1>4 DEF HandlesGood

(* The list keeps its shape through every plugging, unplugging, opening    *)
(* and closing: Additive and Disconnected link and unlink one cell, and no *)
(* link or number names two.  (The module's ListSound.)                    *)
THEOREM ListHolds == Spec => []ListSound
<1>1. IInv => ListSound
  BY WellFormed DEF IInv, Numbers, ListSound
<1> QED
  BY <1>1, Inductive, PTL

(* What Additive returned to the USB stack is a cell of the list when      *)
(* Disconnected uses it, and a handle finds the cell it was opened for.    *)
(* (The module's PointersGood.)                                            *)
THEOREM PointersHold == Spec => []PointersGood
<1>1. IInv => PointersGood
  BY Good DEF IInv, Present, PointersGood
<1> QED
  BY <1>1, Inductive, PTL

-----------------------------------------------------------------------------
(* Enumerations.  GET_EVENT_CHANGE_LIST takes the announcement of a change *)
(* away from every other program that enumerates.                          *)
OneViewer == \A p, r \in Viewer : p = r

EInv == IInv /\ \A p \in Viewer : Reported(p)

LEMMA InitReported == Init => \A p \in Viewer : Reported(p)
<1> SUFFICES ASSUME Init, NEW p \in Viewer PROVE Reported(p)
  OBVIOUS
<1>1. find[p] = NULL /\ seen[p] = {} /\ ~ended[p]
  BY PidAssumption DEF Init
<1> QED
  BY <1>1 DEF Reported

(* There is but one order of the cells.                                    *)
LEMMA OneOrder ==
  ASSUME Cells \subseteq Addr, NEW q, NEW w, Rooted(q), Rooted(w)
  PROVE  q = w
BY WalkIs

(* A step that keeps links, numbers and the enumeration of p.              *)
LEMMA ReportedKept ==
  ASSUME NEW p, Reported(p), Cells' = Cells, rootDevice' = rootDevice, booChangeList' = booChangeList,
         loaded' = loaded, find'[p] = find[p], seen'[p] = seen[p], ended'[p] = ended[p],
         \A c \in Cells : /\ heap'[c].last = heap[c].last /\ heap'[c].next = heap[c].next
                          /\ heap'[c].devnum = heap[c].devnum
  PROVE  Reported(p)'
<1> SUFFICES ASSUME loaded, ~booChangeList, NEW q, Rooted(q)'
             PROVE  (IF find[p] = NULL THEN seen[p] = {} /\ (ended[p] => Cells = {})
                     ELSE \E k \in DOMAIN q : /\ find[p] = q[k] /\ (ended[p] => k = Len(q))
                                              /\ seen[p] = {heap'[q[i]].devnum : i \in 1 .. k})
  BY DEF Reported
<1>1. Rooted(q)
  BY OrderSame
<1>2. Len(q) \in Nat /\ DOMAIN q = 1 .. Len(q) /\ \A i \in DOMAIN q : q[i] \in Cells
  BY <1>1 DEF Rooted, Listed
<1>3. CASE find[p] = NULL
  BY <1>1, <1>3 DEF Reported
<1>4. CASE find[p] # NULL
  <2>1. PICK k \in DOMAIN q : /\ find[p] = q[k] /\ (ended[p] => k = Len(q))
                              /\ seen[p] = {heap[q[i]].devnum : i \in 1 .. k}
    BY <1>1, <1>4 DEF Reported
  <2>2. \A i \in 1 .. k : i \in DOMAIN q /\ heap'[q[i]].devnum = heap[q[i]].devnum
    BY <1>2
  <2>3. {heap'[q[i]].devnum : i \in 1 .. k} = {heap[q[i]].devnum : i \in 1 .. k}
    BY <2>2
  <2> QED
    BY <1>4, <2>1, <2>3
<1> QED
  BY <1>3, <1>4

LEMMA FirstReported ==
  ASSUME IInv, NEW p \in Viewer, Reported(p), FIRST_DEVICE(p)
  PROVE  Reported(p)'
<1>1. /\ UNCHANGED <<heap, rootDevice, booChangeList, devicedata, loaded, held>>
      /\ find[p] = NULL /\ ~ended[p] /\ p \in Pid
  BY PidAssumption DEF FIRST_DEVICE, Report, list
<1> SUFFICES ASSUME loaded, ~booChangeList, NEW q, Rooted(q)'
             PROVE  (IF find'[p] = NULL THEN seen'[p] = {} /\ (ended'[p] => Cells = {})
                     ELSE \E k \in DOMAIN q : /\ find'[p] = q[k] /\ (ended'[p] => k = Len(q))
                                              /\ seen'[p] = {heap[q[i]].devnum : i \in 1 .. k})
  BY <1>1 DEF Reported, Cells
<1>2. Rooted(q)
  BY <1>1, OrderSame DEF Cells
<1>3. /\ Cells \subseteq Addr /\ NULL \notin Cells /\ N \in Nat /\ Len(q) <= N /\ Len(q) \in Nat
      /\ DOMAIN q = 1 .. Len(q) /\ \A i \in DOMAIN q : q[i] \in Cells
  BY <1>2, ListFacts
<1>4. seen[p] = {}
  BY <1>1, <1>2 DEF Reported
<1>5. CASE rootDevice = NULL
  <2>1. Report(p, NULL)
    BY <1>5 DEF FIRST_DEVICE
  <2>2. find' = find /\ seen' = seen
    BY <2>1 DEF Report
  <2>3. q = <<>>
    BY <1>2, <1>3, <1>5 DEF Rooted
  <2>4. Cells = {}
    BY <1>2, <2>3 DEF Rooted, Listed
  <2> QED
    BY <1>1, <1>4, <2>2, <2>4
<1>6. CASE rootDevice # NULL
  <2>1. PICK r \in DOMAIN q : rootDevice = q[r]
    BY <1>2, <1>6 DEF Rooted
  <2>2. GotoFirst(rootDevice) = q[1]
    BY <1>2, <1>3, <2>1, GotoFirstIs DEF Rooted
  <2>3. 1 \in DOMAIN q /\ q[1] \in Cells /\ q[1] # NULL
    BY <1>3, <2>1
  <2>4. Report(p, q[1])
    BY <1>6, <2>2 DEF FIRST_DEVICE
  <2>5. /\ find' = [find EXCEPT ![p] = q[1]] /\ ended' = ended
        /\ seen' = [seen EXCEPT ![p] = @ \union {heap[q[1]].devnum}]
    BY <2>3, <2>4 DEF Report
  <2>6. find'[p] = q[1] /\ seen'[p] = {heap[q[1]].devnum} /\ ~ended'[p]
    BY <1>1, <1>4, <2>5 DEF IInv, TypeOK
  <2>7. {heap[q[i]].devnum : i \in 1 .. 1} = {heap[q[1]].devnum}
    OBVIOUS
  <2> QED
    BY <2>3, <2>6, <2>7
<1> QED
  BY <1>5, <1>6

LEMMA NextReported ==
  ASSUME IInv, NEW p \in Viewer, Reported(p), NEXT_DEVICE(p)
  PROVE  Reported(p)'
<1>1. /\ UNCHANGED <<heap, rootDevice, booChangeList, devicedata, loaded, held>>
      /\ find[p] # NULL /\ ~ended[p] /\ p \in Pid
  BY PidAssumption DEF NEXT_DEVICE, Report, list
<1> SUFFICES ASSUME loaded, ~booChangeList, NEW q, Rooted(q)'
             PROVE  (IF find'[p] = NULL THEN seen'[p] = {} /\ (ended'[p] => Cells = {})
                     ELSE \E k \in DOMAIN q : /\ find'[p] = q[k] /\ (ended'[p] => k = Len(q))
                                              /\ seen'[p] = {heap[q[i]].devnum : i \in 1 .. k})
  BY <1>1 DEF Reported, Cells
<1>2. Rooted(q)
  BY <1>1, OrderSame DEF Cells
<1>3. /\ Cells \subseteq Addr /\ NULL \notin Cells /\ N \in Nat /\ Len(q) <= N /\ Len(q) \in Nat
      /\ DOMAIN q = 1 .. Len(q) /\ \A i \in DOMAIN q : q[i] \in Cells
  BY <1>2, ListFacts
<1>4. PICK k \in DOMAIN q : find[p] = q[k] /\ seen[p] = {heap[q[i]].devnum : i \in 1 .. k}
  BY <1>1, <1>2 DEF Reported
<1>5. SeekUartDevice(find[p]) = q[k]
  <2>1. q[k] \in Cells /\ q[k] # NULL /\ SeekUartDevice(find[p]) = Seek({q[k]})
    BY <1>3, <1>4 DEF SeekUartDevice
  <2> QED
    BY <1>2, <1>3, <2>1, SeekIs
<1>6. q[k] # NULL /\ heap[q[k]].next = IF k = Len(q) THEN NULL ELSE q[k + 1]
  BY <1>2, <1>3, <1>4 DEF Rooted, Listed
<1>7. Report(p, heap[q[k]].next)
  BY <1>5, <1>6 DEF NEXT_DEVICE
<1>8. CASE k = Len(q)
  <2>1. find' = find /\ seen' = seen
    BY <1>6, <1>7, <1>8 DEF Report
  <2> QED
    BY <1>1, <1>4, <1>8, <2>1
<1>9. CASE k # Len(q)
  <2>1. k + 1 \in DOMAIN q /\ q[k + 1] \in Cells /\ q[k + 1] # NULL
    BY <1>3, <1>9
  <2>2. /\ find' = [find EXCEPT ![p] = q[k + 1]] /\ ended' = ended
        /\ seen' = [seen EXCEPT ![p] = @ \union {heap[q[k + 1]].devnum}]
    BY <1>6, <1>7, <1>9, <2>1 DEF Report
  <2>3. find'[p] = q[k + 1] /\ seen'[p] = seen[p] \union {heap[q[k + 1]].devnum} /\ ~ended'[p]
    BY <1>1, <2>2 DEF IInv, TypeOK
  <2>4. \A i : i \in 1 .. k + 1 <=> i \in 1 .. k \/ i = k + 1
    BY <1>3
  <2>5. {heap[q[i]].devnum : i \in 1 .. k + 1} = seen[p] \union {heap[q[k + 1]].devnum}
    BY <1>4, <2>4
  <2> QED
    BY <2>1, <2>3, <2>5
<1> QED
  BY <1>8, <1>9

LEMMA SetBusyKeeps ==
  ASSUME IInv, NEW p \in Pid, NEW n \in 0 .. N, NEW mode, SetBusy(p, n, mode),
         NEW r \in Viewer, Reported(r)
  PROVE  Reported(r)'
<1>1. PICK dev : heap' = [heap EXCEPT ![dev].iFlags = (@ \ {"UART"}) \union {"BUSY"} \union mode,
                                     ![dev].lDescriptor = dev + p]
  BY DEF SetBusy
<1>2. UNCHANGED <<rootDevice, booChangeList, devicedata, loaded, find, seen, ended>>
  BY DEF SetBusy, views
<1>3. Cells' = Cells /\ \A c \in Cells : heap[c] \in Cell
  BY <1>1 DEF Cells, IInv, TypeOK
<1>4. \A c \in Cells : /\ heap'[c].last = heap[c].last /\ heap'[c].next = heap[c].next
                       /\ heap'[c].devnum = heap[c].devnum
  BY <1>1, <1>3 DEF Cells, Cell
<1> QED
  BY <1>2, <1>3, <1>4, ReportedKept

LEMMA CloseKeeps ==
  ASSUME IInv, NEW p \in Pid, NEW h, ProcCmd_CLOSE_DEVICE(p, h), NEW r \in Viewer, Reported(r)
  PROVE  Reported(r)'
<1>1. PICK dev : heap' = [heap EXCEPT ![dev].iFlags = @ \ {"BUSY", "UART"}, ![dev].lDescriptor = 0]
  BY DEF ProcCmd_CLOSE_DEVICE
<1>2. UNCHANGED <<rootDevice, booChangeList, devicedata, loaded, find, seen, ended>>
  BY DEF ProcCmd_CLOSE_DEVICE, views
<1>3. Cells' = Cells /\ \A c \in Cells : heap[c] \in Cell
  BY <1>1 DEF Cells, IInv, TypeOK
<1>4. \A c \in Cells : /\ heap'[c].last = heap[c].last /\ heap'[c].next = heap[c].next
                       /\ heap'[c].devnum = heap[c].devnum
  BY <1>1, <1>3 DEF Cells, Cell
<1> QED
  BY <1>2, <1>3, <1>4, ReportedKept

LEMMA StepReported ==
  ASSUME OneViewer, IInv, [Next]_vars, NEW r \in Viewer, Reported(r)
  PROVE  Reported(r)'
<1> USE PidAssumption
<1>1. ASSUME booChangeList' = TRUE \/ loaded' = FALSE PROVE Reported(r)'
  BY <1>1 DEF Reported
<1>2. ASSUME NEW o \in Port, Disconnected(o) PROVE Reported(r)'
  BY <1>1, <1>2 DEF Disconnected
<1>3. ASSUME NEW o \in Port, NEW a \in Addr, Additive(o, a) PROVE Reported(r)'
  BY <1>1, <1>3 DEF Additive
<1>4. CASE Unload
  BY <1>1, <1>4 DEF Unload
<1>5. ASSUME NEW p \in Pid, NEW n \in 0 .. N, ProcCmd_OPEN_UART(p, n) PROVE Reported(r)'
  BY <1>5, SetBusyKeeps DEF ProcCmd_OPEN_UART
<1>6. ASSUME NEW p \in Pid, NEW n \in 0 .. N, ProcCmd_OPEN_RAW(p, n) PROVE Reported(r)'
  BY <1>6, SetBusyKeeps DEF ProcCmd_OPEN_RAW
<1>7. ASSUME NEW p \in Pid, NEW h \in held[p] \union {0}, ProcCmd_CLOSE_DEVICE(p, h) PROVE Reported(r)'
  BY <1>7, CloseKeeps
<1>8. ASSUME NEW p \in Viewer, GET_EVENT_CHANGE_LIST(p) PROVE Reported(r)'
  <2>1. p = r
    BY DEF OneViewer
  <2>2. find'[r] = NULL /\ seen'[r] = {} /\ ~ended'[r]
    BY <1>8, <2>1 DEF GET_EVENT_CHANGE_LIST, IInv, TypeOK
  <2> QED
    BY <2>2 DEF Reported
<1>9. ASSUME NEW p \in Viewer, FIRST_DEVICE(p) \/ NEXT_DEVICE(p) PROVE Reported(r)'
  <2>1. p = r
    BY DEF OneViewer
  <2> QED
    BY <1>9, <2>1, FirstReported, NextReported
<1>10. CASE UNCHANGED vars
  <2>1. UNCHANGED <<heap, rootDevice, booChangeList, loaded, find, seen, ended>>
    BY <1>10 DEF vars, list, views
  <2>2. Cells' = Cells
    BY <2>1 DEF Cells
  <2> QED
    BY <2>1, <2>2, ReportedKept
<1> QED
  BY <1>2, <1>3, <1>4, <1>5, <1>6, <1>7, <1>8, <1>9, <1>10 DEF Next

LEMMA Complete == EInv => EnumerationComplete
<1> SUFFICES ASSUME EInv, NEW p \in Viewer, loaded, ended[p], ~booChangeList
             PROVE  seen[p] = {heap[c].devnum : c \in Cells}
  BY DEF EnumerationComplete
<1>1. PICK q : Rooted(q)
  BY DEF EInv, IInv, Order
<1>2. Len(q) \in Nat /\ DOMAIN q = 1 .. Len(q) /\ \A i \in DOMAIN q : q[i] \in Cells
  BY <1>1 DEF Rooted, Listed
<1>3. CASE find[p] = NULL
  BY <1>1, <1>3 DEF EInv, Reported
<1>4. CASE find[p] # NULL
  <2>1. seen[p] = {heap[q[i]].devnum : i \in 1 .. Len(q)}
    BY <1>1, <1>4 DEF EInv, Reported
  <2>2. \A c \in Cells : \E i \in 1 .. Len(q) : q[i] = c
    BY <1>1, <1>2 DEF Rooted, Listed
  <2> QED
    BY <1>2, <2>1, <2>2
<1> QED
  BY <1>3, <1>4

(* A program that is the only one to enumerate, and is told that there are *)
(* no more devices while no change was announced since it began, has been  *)
(* told of every one.  (The module's EnumerationComplete.)                 *)
THEOREM EnumerationHolds == OneViewer /\ Spec => []EnumerationComplete
<1> SUFFICES ASSUME OneViewer PROVE Spec => []EnumerationComplete
  OBVIOUS
<1>1. Init => EInv
  BY InitInv, InitReported DEF EInv
<1>2. EInv /\ [Next]_vars => EInv'
  BY StepInv, StepReported DEF EInv
<1> QED
  BY <1>1, <1>2, Complete, PTL DEF Spec
=============================================================================
