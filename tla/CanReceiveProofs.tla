--------------------------- MODULE CanReceiveProofs ---------------------------
(***************************************************************************)
(* Proofs about CanReceive for all frame lengths, message types and sizes, *)
(* and any number of lost and inserted frames: the sequence buffer is      *)
(* allocated once and freed once, no copy leaves it, and a sequence is     *)
(* finished with the data of its own header.  What the application gets    *)
(* has the checksum announced, the station list is sorted, and on a bus    *)
(* that loses and inserts nothing messages arrive whole.                   *)
(*                                                                         *)
(* Checksum and sort are folds; UpTo, ChainOf and FoldExists are the rules *)
(* by which something is shown of them for every length.                   *)
(***************************************************************************)
EXTENDS CanReceive, SequenceTheorems, FiniteSetTheorems, FunctionTheorems,
        WellFoundedInduction, TLAPS

-----------------------------------------------------------------------------
(* Induction and folds                                                     *)

\* A set of numbers that holds 0 and goes on as far as N holds them all: the rule by
\* which what follows is proved, for the sets of the numbers something holds for.
LEMMA UpTo ==
  ASSUME NEW N \in Nat, NEW S, 0 \in S, \A n \in 1..N : n - 1 \in S => n \in S
  PROVE  \A n \in 0..N : n \in S
  <1> DEFINE T == {n \in 0..N : n \notin S}
  <1>1. SUFFICES ASSUME T # {} PROVE FALSE
    OBVIOUS
  <1>2. T \subseteq Nat
    OBVIOUS
  <1>3. PICK n \in T : \A m \in T : ~ (<<m, n>> \in OpToRel(<, Nat))
    BY <1>1, <1>2, NatLessThanWellFounded, WFMin
  <1>4. n \in 1..N /\ n - 1 \in 0..N /\ n - 1 < n /\ n \in Nat /\ n - 1 \in Nat
    OBVIOUS
  <1>5. n - 1 \in T
    BY <1>4
  <1>6. <<n - 1, n>> \in OpToRel(<, Nat)
    BY <1>4 DEF OpToRel
  <1>7. QED
    BY <1>3, <1>5, <1>6

\* The greatest of some numbers is one of them.
LEMMA MaxIs ==
  ASSUME NEW N \in Nat, NEW s \in SUBSET (1..N), s # {}
  PROVE  Max(s) \in s /\ \A x \in s : x <= Max(s)
  <1> DEFINE S == {n \in 0..N : \A x \in s : x <= N - n}
  <1>1. 0 \in S /\ N \notin S
    <2>1. PICK x \in s : x \in 1..N
      OBVIOUS
    <2>2. QED
      BY <2>1
  <1>2. \E m \in s : \A x \in s : x <= m
    <2> HIDE DEF S
    <2>1. PICK n \in 1..N : n - 1 \in S /\ n \notin S
      BY <1>1, UpTo
    <2>2. PICK m \in s : ~(m <= N - n)
      BY <2>1 DEF S
    <2>3. \A x \in s : x <= N - (n - 1)
      BY <2>1 DEF S
    <2>4. QED
      BY <2>2, <2>3
  <1>3. QED
    BY <1>2 DEF Max

\* A fold over the numbers 1..n takes n last.
LEMMA FirstNumbers ==
  ASSUME NEW N \in Nat, NEW n \in 1..N
  PROVE  1..n # {} /\ Max(1..n) = n /\ (1..n) \ {n} = 1..(n - 1) /\ 1..n \in SUBSET (1..N)
  <1>1. 1..n \in SUBSET (1..N) /\ n \in 1..n
    OBVIOUS
  <1>2. Max(1..n) \in 1..n /\ n <= Max(1..n)
    BY <1>1, MaxIs
  <1>3. PICK m \in 1..n : m = Max(1..n)
    BY <1>2
  <1>4. n <= m
    BY <1>2, <1>3, Zenon
  <1>5. m = n
    BY <1>4
  <1>6. (1..n) \ {n} = 1..(n - 1)
    OBVIOUS
  <1>7. QED
    BY <1>1, <1>3, <1>5, <1>6

\* What MapThenFoldSet chooses a function for, with the numbers up to N for the set, the
\* greatest chosen first, and the operator as a function on S at each of them.
FoldOf(f, N, S, base, step) ==
  /\ f \in [SUBSET (1..N) -> S]
  /\ \A s \in SUBSET (1..N) :
       f[s] = IF s = {} THEN base ELSE step[Max(s)][f[s \ {Max(s)}]]

\* There is one: FoldLeft does compute what its definition says.
LEMMA FoldExists ==
  ASSUME NEW S, NEW base \in S, NEW N \in Nat, NEW step \in [1..N -> [S -> S]]
  PROVE  \E f : FoldOf(f, N, S, base, step)
  <1> DEFINE G == {n \in 0..N : \E f : FoldOf(f, n, S, base, step)}
  <1>1. 0 \in G
    <2> DEFINE f == [s \in SUBSET (1..0) |-> base]
    <2>1. f \in [SUBSET (1..0) -> S] /\ \A s \in SUBSET (1..0) : s = {}
      OBVIOUS
    <2>2. FoldOf(f, 0, S, base, step)
      BY <2>1 DEF FoldOf
    <2> HIDE DEF f
    <2>3. QED
      BY <2>2
  <1>2. ASSUME NEW n \in 1..N, n - 1 \in G PROVE n \in G
    <2>1. PICK f : FoldOf(f, n - 1, S, base, step)
      BY <1>2
    <2> DEFINE g == [s \in SUBSET (1..n) |->
                      IF n \in s THEN step[n][f[s \ {n}]] ELSE f[s]]
    <2>2. \A s \in SUBSET (1..n) : n \notin s => s \in SUBSET (1..(n - 1))
      OBVIOUS
    <2>3. \A s \in SUBSET (1..n) : s \ {n} \in SUBSET (1..(n - 1))
      OBVIOUS
    <2>4. g \in [SUBSET (1..n) -> S]
      BY <2>1, <2>2, <2>3 DEF FoldOf
    <2>5. ASSUME NEW s \in SUBSET (1..n)
          PROVE  g[s] = IF s = {} THEN base ELSE step[Max(s)][g[s \ {Max(s)}]]
      <3>1. CASE s = {}
        <4>1. s \in SUBSET (1..(n - 1)) /\ n \notin s
          BY <3>1
        <4>2. QED
          BY <2>1, <3>1, <4>1 DEF FoldOf
      <3>2. CASE n \in s
        <4>1. Max(s) \in s /\ \A x \in s : x <= Max(s)
          <5>1. n \in Nat /\ s # {}
            BY <3>2
          <5>2. QED
            BY <5>1, MaxIs
        <4>2. PICK m \in 1..n : m = Max(s)
          BY <4>1
        <4>3. n <= m
          BY <3>2, <4>1, <4>2, Zenon
        <4>4. Max(s) = n
          BY <4>2, <4>3
        <4>5. s \ {n} \in SUBSET (1..n) /\ n \notin s \ {n}
          OBVIOUS
        <4>6. g[s \ {n}] = f[s \ {n}]
          BY <4>5
        <4>7. QED
          BY <3>2, <4>4, <4>6
      <3>3. CASE s # {} /\ n \notin s
        <4>1. s \in SUBSET (1..(n - 1))
          BY <2>2, <3>3
        <4>2. Max(s) \in s
          <5>1. n \in Nat /\ s # {}
            BY <3>3
          <5>2. QED
            BY <5>1, MaxIs
        <4>3. s \ {Max(s)} \in SUBSET (1..n) /\ n \notin s \ {Max(s)}
          BY <3>3
        <4>4. g[s] = f[s] /\ g[s \ {Max(s)}] = f[s \ {Max(s)}]
          BY <3>3, <4>3
        <4>5. QED
          BY <2>1, <3>3, <4>1, <4>4 DEF FoldOf
      <3>4. QED
        BY <3>1, <3>2, <3>3
    <2> HIDE DEF g
    <2>6. FoldOf(g, n, S, base, step)
      BY <2>4, <2>5 DEF FoldOf
    <2>7. QED
      BY <2>6
  <1> HIDE DEF G
  <1>3. N \in G
    <2>1. \A n \in 1..N : n - 1 \in G => n \in G
      BY <1>2
    <2>2. \A n \in 0..N : n \in G
      BY <1>1, <2>1, UpTo
    <2>3. QED
      BY <2>2
  <1>4. QED
    BY <1>3 DEF G

\* g is what a fold has after each of its N steps.
Chain(g, N, S, base, step) ==
  /\ g \in [0..N -> S] /\ g[0] = base
  /\ \A n \in 1..N : g[n] = step[n][g[n - 1]]

\* The values the fold has for the first n numbers are such a chain.
LEMMA ChainOf ==
  ASSUME NEW N \in Nat, NEW S, NEW base \in S, NEW step \in [1..N -> [S -> S]],
         NEW it, it[1..0] = base,
         \A n \in 1..N : it[1..(n - 1)] \in S => it[1..n] = step[n][it[1..(n - 1)]]
  PROVE  \E g : Chain(g, N, S, base, step) /\ it[1..N] = g[N]
  <1> DEFINE T == {n \in 0..N : it[1..n] \in S}
  <1>1. \A n \in 0..N : n \in T
    <2>1. 0 \in T
      OBVIOUS
    <2>2. \A n \in 1..N : n - 1 \in T => n \in T
      OBVIOUS
    <2> HIDE DEF T
    <2>3. QED
      BY <2>1, <2>2, UpTo
  <1> DEFINE g == [n \in 0..N |-> it[1..n]]
  <1>2. g \in [0..N -> S] /\ g[0] = base /\ g[N] = it[1..N]
    BY <1>1
  <1>3. \A n \in 1..N : g[n] = step[n][g[n - 1]]
    BY <1>1
  <1>4. QED
    BY <1>2, <1>3 DEF Chain

-----------------------------------------------------------------------------
(* The checksum *)

\* g has the checksum of the first n bytes of b for each n.
XorSums(b, g) ==
  /\ g \in [0..Len(b) -> Byte] /\ g[0] = 0
  /\ \A n \in 1..Len(b) : g[n] = Xor(g[n - 1], b[n])

LEMMA XorByte == \A a, b \in Byte : Xor(a, b) \in Byte
  BY DEF Byte, Xor

\* The checksum is summed up byte by byte.
LEMMA ChecksumSums ==
  ASSUME NEW b \in Seq(Byte)
  PROVE  \E g : XorSums(b, g) /\ Checksum(b) = g[Len(b)]
  <1> DEFINE N == Len(b)
             step == [n \in 1..N |-> [x \in Byte |-> Xor(x, b[n])]]
  <1>1. N \in Nat /\ DOMAIN b = 1..N /\ \A n \in 1..N : b[n] \in Byte
    BY LenProperties
  <1>2. step \in [1..N -> [Byte -> Byte]] /\ 0 \in Byte
    BY <1>1, XorByte DEF Byte
  <1>3. PICK f : FoldOf(f, N, Byte, 0, step)
    <2> HIDE DEF N, step
    <2>1. N \in Nat
      BY <1>1
    <2>2. QED
      BY <1>2, <2>1, FoldExists
  <1> DEFINE P(h) == h = [s \in SUBSET (1..N) |->
                            IF s = {} THEN 0 ELSE Xor(h[s \ {Max(s)}], b[Max(s)])]
             it == CHOOSE h : P(h)
  <1>4. P(f)
    <2>1. ASSUME NEW s \in SUBSET (1..N), s # {}
          PROVE  f[s] = Xor(f[s \ {Max(s)}], b[Max(s)])
      <3>1. Max(s) \in 1..N /\ s \ {Max(s)} \in SUBSET (1..N)
        BY <1>1, <2>1, MaxIs
      <3>2. QED
        BY <1>3, <2>1, <3>1 DEF FoldOf
    <2>2. \A s \in SUBSET (1..N) : f[s] = IF s = {} THEN 0 ELSE Xor(f[s \ {Max(s)}], b[Max(s)])
      BY <1>3, <2>1 DEF FoldOf
    <2>3. QED
      BY <1>3, <2>2 DEF FoldOf
  <1>5. P(it)
    BY <1>4
  <1>6. Checksum(b) = it[1..N]
    BY <1>1, Zenon DEF Checksum, FoldLeft, MapThenFoldSet
  <1> HIDE DEF it
  <1>7. it[1..0] = 0
    BY <1>5
  <1>8. ASSUME NEW n \in 1..N PROVE it[1..n] = Xor(it[1..(n - 1)], b[n])
    <2>1. 1..n # {} /\ Max(1..n) = n /\ (1..n) \ {n} = 1..(n - 1) /\ 1..n \in SUBSET (1..N)
      BY <1>1, FirstNumbers
    <2>2. it[1..n] = Xor(it[(1..n) \ {Max(1..n)}], b[Max(1..n)])
      BY <1>5, <2>1
    <2>3. QED
      BY <2>1, <2>2
  <1> HIDE DEF N
  <1>9. PICK g : Chain(g, N, Byte, 0, step) /\ it[1..N] = g[N]
    <2>1. \A n \in 1..N : it[1..(n - 1)] \in Byte => it[1..n] = step[n][it[1..(n - 1)]]
      BY <1>8
    <2> HIDE DEF step
    <2>2. QED
      BY <1>1, <1>2, <1>7, <2>1, ChainOf
  <1>10. \A n \in 1..N : n - 1 \in 0..N /\ g[n - 1] \in Byte
    BY <1>1, <1>9 DEF Chain
  <1>11. \A n \in 1..N : g[n] = Xor(g[n - 1], b[n])
    BY <1>9, <1>10 DEF Chain
  <1>12. QED
    BY <1>6, <1>9, <1>11 DEF Chain, XorSums, N

-----------------------------------------------------------------------------
(* The sort *)

Lists(n) == [1..n -> Nat]

\* One comparison, place by place.
LEMMA SwapIs ==
  ASSUME NEW n \in Nat, NEW list \in Lists(n), NEW i \in 1..(n - 1)
  PROVE  /\ CompareSwap(list, i) \in Lists(n)
         /\ \A k \in 1..n : CompareSwap(list, i)[k] =
              IF list[i] > list[i + 1] /\ k = i THEN list[i + 1]
              ELSE IF list[i] > list[i + 1] /\ k = i + 1 THEN list[i]
              ELSE list[k]
  <1>1. CASE list[i] > list[i + 1]
    <2>1. PICK r : r = [list EXCEPT ![i] = list[i + 1]]
      OBVIOUS
    <2>2. PICK q : q = [r EXCEPT ![i + 1] = list[i]]
      OBVIOUS
    <2>3. CompareSwap(list, i) = q
      BY <1>1, <2>1, <2>2, Zenon DEF CompareSwap
    <2>4. i + 1 \in 1..n /\ i \in 1..n /\ list[i] \in Nat /\ list[i + 1] \in Nat
      BY DEF Lists
    <2>5. r \in Lists(n) /\ \A k \in 1..n : r[k] = IF k = i THEN list[i + 1] ELSE list[k]
      BY <2>1, <2>4 DEF Lists
    <2>6. q \in Lists(n) /\ \A k \in 1..n : q[k] = IF k = i + 1 THEN list[i] ELSE r[k]
      BY <2>2, <2>4, <2>5 DEF Lists
    <2>7. QED
      BY <1>1, <2>3, <2>4, <2>5, <2>6
  <1>2. CASE ~(list[i] > list[i + 1])
    <2>1. CompareSwap(list, i) = list
      BY <1>2, Zenon DEF CompareSwap
    <2>2. QED
      BY <1>2, <2>1
  <1>3. QED
    BY <1>1, <1>2

\* b holds the members of a in another order.
Permutation(p, n) ==
  /\ p \in [1..n -> 1..n]
  /\ \A i, k \in 1..n : p[i] = p[k] => i = k
  /\ \A k \in 1..n : \E i \in 1..n : p[i] = k

Rearranged(a, b, n) ==
  /\ a \in Lists(n) /\ b \in Lists(n)
  /\ \E p : Permutation(p, n) /\ \A i \in 1..n : b[i] = a[p[i]]

LEMMA RearrangedSelf ==
  ASSUME NEW n \in Nat, NEW a \in Lists(n)
  PROVE  Rearranged(a, a, n)
  <1> DEFINE p == [i \in 1..n |-> i]
  <1>1. Permutation(p, n) /\ \A i \in 1..n : a[i] = a[p[i]]
    BY DEF Permutation
  <1> HIDE DEF p
  <1>2. QED
    BY <1>1 DEF Rearranged

LEMMA RearrangedOn ==
  ASSUME NEW n \in Nat, NEW a, NEW b, NEW c, Rearranged(a, b, n), Rearranged(b, c, n)
  PROVE  Rearranged(a, c, n)
  <1>1. PICK p : Permutation(p, n) /\ \A i \in 1..n : b[i] = a[p[i]]
    BY DEF Rearranged
  <1>2. PICK q : Permutation(q, n) /\ \A i \in 1..n : c[i] = b[q[i]]
    BY DEF Rearranged
  <1> DEFINE r == [i \in 1..n |-> p[q[i]]]
  <1>3. /\ r \in [1..n -> 1..n]
        /\ \A i, k \in 1..n : r[i] = r[k] => i = k
    <2>1. \A i \in 1..n : q[i] \in 1..n /\ r[i] = p[q[i]] /\ r[i] \in 1..n
      BY <1>1, <1>2 DEF Permutation
    <2>2. r \in [1..n -> 1..n]
      BY <2>1
    <2> HIDE DEF r
    <2>3. ASSUME NEW i \in 1..n, NEW k \in 1..n, r[i] = r[k] PROVE i = k
      <3>1. q[i] = q[k]
        <4>1. \A x, y \in 1..n : p[x] = p[y] => x = y
          BY <1>1 DEF Permutation
        <4>2. p[q[i]] = p[q[k]] /\ q[i] \in 1..n /\ q[k] \in 1..n
          BY <2>1, <2>3
        <4>3. QED
          BY <4>1, <4>2, Zenon
      <3>2. QED
        BY <1>2, <3>1 DEF Permutation
    <2>4. QED
      BY <2>2, <2>3
  <1>4. \A k \in 1..n : \E i \in 1..n : r[i] = k
    <2> TAKE k \in 1..n
    <2>1. PICK j \in 1..n : p[j] = k
      BY <1>1 DEF Permutation
    <2>2. PICK i \in 1..n : q[i] = j
      BY <1>2 DEF Permutation
    <2>3. QED
      BY <2>1, <2>2
  <1>5. \A i \in 1..n : c[i] = a[r[i]]
    <2> TAKE i \in 1..n
    <2>1. q[i] \in 1..n /\ r[i] = p[q[i]]
      BY <1>2 DEF Permutation
    <2>2. QED
      BY <1>1, <1>2, <2>1
  <1> HIDE DEF r
  <1>6. QED
    BY <1>3, <1>4, <1>5 DEF Rearranged, Permutation

\* A comparison loses and invents nothing.
LEMMA SwapRearranges ==
  ASSUME NEW n \in Nat, NEW list \in Lists(n), NEW i \in 1..(n - 1)
  PROVE  Rearranged(list, CompareSwap(list, i), n)
  <1> DEFINE out == CompareSwap(list, i)
             p == [k \in 1..n |-> IF k = i THEN i + 1 ELSE IF k = i + 1 THEN i ELSE k]
  <1>1. Permutation(p, n)
    <2>1. p \in [1..n -> 1..n] /\ \A k \in 1..n : p[p[k]] = k
      OBVIOUS
    <2> HIDE DEF p
    <2>2. QED
      BY <2>1 DEF Permutation
  <1>2. out \in Lists(n)
    BY SwapIs
  <1>3. CASE list[i] > list[i + 1]
    <2>1. \A k \in 1..n : out[k] = list[p[k]]
      BY <1>3, SwapIs
    <2> HIDE DEF p
    <2>2. QED
      BY <1>1, <1>2, <2>1 DEF Rearranged
  <1>4. CASE ~(list[i] > list[i + 1])
    <2>1. out = list
      BY <1>4, Zenon DEF CompareSwap
    <2>2. QED
      BY <2>1, RearrangedSelf
  <1>5. QED
    BY <1>3, <1>4

\* Another order has each distance as often: the permutation maps the places of one to
\* the places of the other, one to one.
LEMMA SameCounts ==
  ASSUME NEW n \in Nat, NEW a, NEW b, Rearranged(a, b, n)
  PROVE  SameStations(b, a)
  <1>1. PICK p : Permutation(p, n) /\ \A i \in 1..n : b[i] = a[p[i]]
    BY DEF Rearranged
  <1>2. Len(a) = n /\ Len(b) = n /\ DOMAIN a = 1..n /\ DOMAIN b = 1..n
    BY DEF Rearranged, Lists
  <1>3. ASSUME NEW d
        PROVE  Cardinality({i \in DOMAIN b : b[i] = d}) = Cardinality({i \in DOMAIN a : a[i] = d})
    <2> DEFINE A == {i \in 1..n : a[i] = d}
               B == {i \in 1..n : b[i] = d}
               f == [i \in B |-> p[i]]
    <2>1. f \in [B -> A]
      BY <1>1 DEF Permutation
    <2>2. \A i, k \in B : f[i] = f[k] => i = k
      BY <1>1 DEF Permutation
    <2>3. \A k \in A : \E i \in B : f[i] = k
      <3> TAKE k \in A
      <3>1. PICK i \in 1..n : p[i] = k
        BY <1>1 DEF Permutation
      <3>2. i \in B
        BY <1>1, <3>1
      <3>3. QED
        BY <3>1, <3>2
    <2> HIDE DEF A, B, f
    <2>4. f \in Bijection(B, A)
      BY <2>1, <2>2, <2>3, Fun_IsBij
    <2>5. ExistsBijection(B, A)
      BY <2>4 DEF ExistsBijection
    <2>6. IsFiniteSet(B)
      <3>1. IsFiniteSet(1..n)
        <4>1. n \in Int /\ 1 \in Int
          OBVIOUS
        <4>2. QED
          BY <4>1, FS_Interval
      <3>2. B \subseteq 1..n
        BY DEF B
      <3>3. QED
        BY <3>1, <3>2, FS_Subset
    <2>7. Cardinality(B) = Cardinality(A)
      BY <2>5, <2>6, FS_Bijection
    <2>8. QED
      BY <1>2, <2>7 DEF A, B
  <1>4. QED
    BY <1>2, <1>3 DEF SameStations

LEMMA XorSwap == \A a, b, c \in Byte : Xor(Xor(a, b), c) = Xor(Xor(a, c), b)
  BY DEF Byte, Xor

\* Neighbours that change places leave every sum as it was, but the one between them.
LEMMA SwapChecksum ==
  ASSUME NEW n \in Nat, NEW list \in [1..n -> Byte], NEW i \in 1..(n - 1)
  PROVE  /\ CompareSwap(list, i) \in [1..n -> Byte]
         /\ Checksum(CompareSwap(list, i)) = Checksum(list)
  <1> DEFINE out == CompareSwap(list, i)
  <1>1. CASE ~(list[i] > list[i + 1])
    <2>1. out = list
      BY <1>1, Zenon DEF CompareSwap
    <2>2. QED
      BY <2>1
  <1>2. CASE list[i] > list[i + 1]
    <2>1. list \in Lists(n)
      BY DEF Lists, Byte
    <2>2. /\ out \in Lists(n)
          /\ \A k \in 1..n : out[k] = IF k = i THEN list[i + 1] ELSE IF k = i + 1 THEN list[i]
                                      ELSE list[k]
      BY <1>2, <2>1, SwapIs
    <2> HIDE DEF out
    <2>3. out \in [1..n -> Byte]
      BY <2>2 DEF Lists
    <2>4. list \in Seq(Byte) /\ out \in Seq(Byte) /\ Len(list) = n /\ Len(out) = n
      BY <2>3
    <2>5. PICK g : XorSums(list, g) /\ Checksum(list) = g[n]
      BY <2>4, ChecksumSums
    <2>6. PICK h : XorSums(out, h) /\ Checksum(out) = h[n]
      BY <2>4, ChecksumSums
    <2>7. /\ g[0] = 0 /\ h[0] = 0
          /\ \A m \in 0..n : g[m] \in Byte /\ h[m] \in Byte
          /\ \A m \in 1..n : g[m] = Xor(g[m - 1], list[m]) /\ h[m] = Xor(h[m - 1], out[m])
      BY <2>4, <2>5, <2>6 DEF XorSums
    <2> DEFINE S == {m \in 0..n : h[m] = IF m = i THEN Xor(g[i - 1], list[i + 1]) ELSE g[m]}
    <2>8. 0 \in S
      BY <2>7
    <2>9. ASSUME NEW m \in 1..n, m - 1 \in S PROVE m \in S
      <3>1. /\ g[m] = Xor(g[m - 1], list[m]) /\ h[m] = Xor(h[m - 1], out[m])
            /\ h[m - 1] = IF m - 1 = i THEN Xor(g[i - 1], list[i + 1]) ELSE g[m - 1]
        BY <2>7, <2>9
      <3>2. CASE m # i /\ m # i + 1
        <4>1. h[m - 1] = g[m - 1] /\ out[m] = list[m]
          BY <2>2, <3>1, <3>2
        <4>2. QED
          BY <3>1, <3>2, <4>1
      <3>3. CASE m = i
        <4>1. h[m - 1] = g[i - 1] /\ out[m] = list[i + 1]
          BY <2>2, <3>1, <3>3
        <4>2. QED
          BY <3>1, <3>3, <4>1
      <3>4. CASE m = i + 1
        <4>1. h[m - 1] = Xor(g[i - 1], list[i + 1]) /\ out[m] = list[i] /\ g[m - 1] = g[i]
          BY <2>2, <3>1, <3>4
        <4>2. g[i] = Xor(g[i - 1], list[i])
          BY <2>7
        <4>3. g[i - 1] \in Byte /\ list[i] \in Byte /\ list[i + 1] \in Byte
          BY <2>7
        <4>4. Xor(Xor(g[i - 1], list[i + 1]), list[i]) = Xor(Xor(g[i - 1], list[i]), list[i + 1])
          BY <4>3, XorSwap
        <4>5. h[m] = Xor(Xor(g[i - 1], list[i + 1]), list[i])
          BY <3>1, <4>1
        <4>6. g[m] = Xor(Xor(g[i - 1], list[i]), list[i + 1])
          BY <3>1, <3>4, <4>1, <4>2
        <4>7. h[m] = g[m] /\ m # i
          BY <3>4, <4>4, <4>5, <4>6
        <4>8. QED
          BY <4>7
      <3>5. QED
        BY <3>2, <3>3, <3>4
    <2>10. n \in S
      <3>1. \A m \in 1..n : m - 1 \in S => m \in S
        BY <2>9
      <3> HIDE DEF S
      <3>2. \A m \in 0..n : m \in S
        BY <2>8, <3>1, UpTo
      <3>3. QED
        BY <3>2
    <2>11. h[n] = g[n]
      BY <2>10
    <2>12. QED
      BY <2>3, <2>5, <2>6, <2>11 DEF out
  <1>3. QED
    BY <1>1, <1>2

\* A pass of the inner loop, comparison by comparison.
LEMMA PassChain ==
  ASSUME NEW n \in Nat, NEW list \in Lists(n), NEW j \in 0..(n - 2)
  PROVE  \E g : /\ Chain(g, n - 1 - j, Lists(n), list,
                        [k \in 1..(n - 1 - j) |-> [l \in Lists(n) |-> CompareSwap(l, k)]])
                /\ Pass(list, j) = g[n - 1 - j]
  <1> DEFINE N == Len(list) - 1 - j
             S == Lists(n)
             ks == [k \in 1..N |-> k]
             step == [k \in 1..N |-> [l \in S |-> CompareSwap(l, k)]]
  <1>1. N \in 1..(n - 1) /\ N \in Nat /\ DOMAIN ks = 1..N /\ Len(list) = n /\ N = n - 1 - j
    BY DEF Lists
  <1>2. step \in [1..N -> [S -> S]]
    <2>1. \A k \in 1..N : \A l \in S : CompareSwap(l, k) \in S
      BY <1>1, SwapIs
    <2> HIDE DEF S, N
    <2>2. QED
      BY <2>1
  <1>3. \A k \in 1..N : \A l \in S : step[k][l] = CompareSwap(l, k)
    OBVIOUS
  <1>4. PICK f : FoldOf(f, N, S, list, step)
    <2> HIDE DEF N, step, S
    <2>1. N \in Nat /\ list \in S
      BY <1>1 DEF S
    <2>2. QED
      BY <1>2, <2>1, FoldExists
  <1> DEFINE P(h) == h = [s \in SUBSET (1..N) |->
                            IF s = {} THEN list ELSE CompareSwap(h[s \ {Max(s)}], ks[Max(s)])]
             it == CHOOSE h : P(h)
  <1>5. P(f)
    <2>1. ASSUME NEW s \in SUBSET (1..N), s # {}
          PROVE  f[s] = CompareSwap(f[s \ {Max(s)}], ks[Max(s)])
      <3>1. Max(s) \in 1..N /\ s \ {Max(s)} \in SUBSET (1..N)
        BY <1>1, <2>1, MaxIs
      <3> HIDE DEF step, S
      <3>2. f[s] = step[Max(s)][f[s \ {Max(s)}]] /\ f[s \ {Max(s)}] \in S
        BY <1>4, <2>1, <3>1 DEF FoldOf
      <3>3. ks[Max(s)] = Max(s)
        BY <3>1
      <3>4. QED
        BY <1>3, <3>1, <3>2, <3>3
    <2> HIDE DEF ks, S, step
    <2>2. \A s \in SUBSET (1..N) :
            f[s] = IF s = {} THEN list ELSE CompareSwap(f[s \ {Max(s)}], ks[Max(s)])
      BY <1>4, <2>1 DEF FoldOf
    <2>3. QED
      BY <1>4, <2>2 DEF FoldOf
  <1>6. P(it)
    BY <1>5
  <1>7. Pass(list, j) = it[1..N]
    BY <1>1, Zenon DEF Pass, FoldLeft, MapThenFoldSet
  <1> HIDE DEF it
  <1>8. it[1..0] = list
    BY <1>6
  <1>9. ASSUME NEW k \in 1..N, it[1..(k - 1)] \in S PROVE it[1..k] = step[k][it[1..(k - 1)]]
    <2>1. 1..k # {} /\ Max(1..k) = k /\ (1..k) \ {k} = 1..(k - 1) /\ 1..k \in SUBSET (1..N)
      BY <1>1, FirstNumbers
    <2>2. it[1..k] = CompareSwap(it[(1..k) \ {Max(1..k)}], ks[Max(1..k)])
      BY <1>6, <2>1
    <2>3. it[1..k] = CompareSwap(it[1..(k - 1)], k)
      BY <2>1, <2>2
    <2>4. QED
      BY <1>3, <1>9, <2>3
  <1>10. \E g : Chain(g, N, S, list, step) /\ it[1..N] = g[N]
    <2> HIDE DEF N, S, step, ks
    <2>1. N \in Nat /\ list \in S /\ \A k \in 1..N : it[1..(k - 1)] \in S => it[1..k] = step[k][it[1..(k - 1)]]
      BY <1>1, <1>9 DEF S
    <2>2. QED
      BY <1>2, <1>8, <2>1, ChainOf
  <1>11. QED
    BY <1>1, <1>7, <1>10

\* As far as a is a list of bytes, so is b, with the same checksum.
SameBytes(a, b, n) == a \in [1..n -> Byte] => b \in [1..n -> Byte] /\ Checksum(b) = Checksum(a)

\* After the comparisons 1..k of a pass: of the first k + 1 stations, no other than they
\* were, the farthest stands last, and the others have not moved.
Settled(list, q, n, k) ==
  /\ Rearranged(list, q, n) /\ SameBytes(list, q, n)
  /\ \A a \in (k + 2)..n : q[a] = list[a]
  /\ \A a \in 1..(k + 1) : q[a] <= q[k + 1] /\ \E b \in 1..(k + 1) : q[a] = list[b]

LEMMA SettledOn ==
  ASSUME NEW n \in Nat, NEW list, NEW k \in 1..(n - 1), NEW q, Settled(list, q, n, k - 1)
  PROVE  Settled(list, CompareSwap(q, k), n, k)
  <1> DEFINE r == CompareSwap(q, k)
  <1>1. q \in Lists(n) /\ list \in Lists(n)
    BY DEF Settled, Rearranged
  <1>2. Rearranged(list, r, n)
    BY <1>1, SwapRearranges, RearrangedOn DEF Settled
  <1>3. SameBytes(list, r, n)
    BY SwapChecksum DEF Settled, SameBytes
  <1>4. /\ \A a \in (k + 1)..n : q[a] = list[a]
        /\ \A a \in 1..k : q[a] <= q[k] /\ \E b \in 1..k : q[a] = list[b]
    BY DEF Settled
  <1>5. /\ r \in Lists(n)
        /\ \A a \in 1..n : r[a] = IF q[k] > q[k + 1] /\ a = k THEN q[k + 1]
                                  ELSE IF q[k] > q[k + 1] /\ a = k + 1 THEN q[k] ELSE q[a]
    BY <1>1, SwapIs
  <1> HIDE DEF r
  <1>6. \A a \in (k + 2)..n : r[a] = list[a]
    BY <1>4, <1>5
  <1>7. \A a \in 1..n : q[a] \in Nat
    BY <1>1 DEF Lists
  <1>8. ASSUME NEW a \in 1..(k + 1) PROVE r[a] <= r[k + 1]
    <2>1. CASE q[k] > q[k + 1]
      <3>1. r[k + 1] = q[k] /\ r[k] = q[k + 1]
        BY <1>5, <2>1
      <3>2. q[k] \in Nat /\ q[k + 1] \in Nat
        BY <1>7
      <3>3. CASE a \in 1..(k - 1)
        BY <1>4, <1>5, <3>1, <3>3
      <3>4. CASE a = k
        BY <2>1, <3>1, <3>2, <3>4
      <3>5. CASE a = k + 1
        BY <3>1, <3>2, <3>5
      <3>6. QED
        BY <3>3, <3>4, <3>5
    <2>2. CASE ~(q[k] > q[k + 1])
      <3>1. q[k] <= q[k + 1] /\ q[k] \in Nat /\ q[k + 1] \in Nat /\ q[a] \in Nat
        BY <1>7, <2>2
      <3>2. r[a] = q[a] /\ r[k + 1] = q[k + 1]
        BY <1>5, <2>2
      <3>3. a = k + 1 \/ q[a] <= q[k]
        BY <1>4
      <3>4. QED
        BY <3>1, <3>2, <3>3
    <2>3. QED
      BY <2>1, <2>2
  <1>9. ASSUME NEW a \in 1..(k + 1) PROVE \E b \in 1..(k + 1) : r[a] = list[b]
    <2>1. \A c \in 1..(k + 1) : \E b \in 1..(k + 1) : q[c] = list[b]
      <3> TAKE c \in 1..(k + 1)
      <3>1. CASE c = k + 1
        BY <1>4, <3>1
      <3>2. CASE c # k + 1
        BY <1>4, <3>2
      <3>3. QED
        BY <3>1, <3>2
    <2>2. PICK c \in 1..(k + 1) : r[a] = q[c]
      BY <1>5
    <2>3. QED
      BY <2>1, <2>2
  <1>10. QED
    BY <1>2, <1>3, <1>6, <1>8, <1>9 DEF Settled, r

LEMMA PassSettles ==
  ASSUME NEW n \in Nat, NEW list \in Lists(n), NEW j \in 0..(n - 2)
  PROVE  Settled(list, Pass(list, j), n, n - 1 - j)
  <1> DEFINE N == n - 1 - j
             step == [k \in 1..N |-> [l \in Lists(n) |-> CompareSwap(l, k)]]
  <1>1. N \in Nat /\ N \in 1..(n - 1)
    OBVIOUS
  <1>2. PICK g : Chain(g, N, Lists(n), list, step) /\ Pass(list, j) = g[N]
    BY PassChain
  <1>3. g[0] = list /\ \A k \in 1..N : g[k] = CompareSwap(g[k - 1], k) /\ g[k - 1] \in Lists(n)
    <2> HIDE DEF N, step
    <2>1. /\ g \in [0..N -> Lists(n)] /\ g[0] = list
          /\ \A k \in 1..N : g[k] = step[k][g[k - 1]]
      BY <1>2 DEF Chain
    <2>2. \A k \in 1..N : k - 1 \in 0..N /\ g[k - 1] \in Lists(n)
      BY <1>1, <2>1
    <2>3. \A k \in 1..N : \A l \in Lists(n) : step[k][l] = CompareSwap(l, k)
      BY DEF step
    <2>4. QED
      BY <2>1, <2>2, <2>3
  <1> DEFINE S == {k \in 0..N : Settled(list, g[k], n, k)}
  <1>4. 0 \in S
    <2>1. Rearranged(list, list, n) /\ SameBytes(list, list, n)
      BY RearrangedSelf DEF SameBytes
    <2>2. list[1] \in Nat
      BY DEF Lists
    <2>3. \A a \in 1..(0 + 1) : list[a] <= list[0 + 1] /\ \E b \in 1..(0 + 1) : list[a] = list[b]
      BY <2>2
    <2>4. Settled(list, list, n, 0)
      BY <2>1, <2>3 DEF Settled
    <2>5. QED
      BY <1>1, <1>3, <2>4
  <1>5. ASSUME NEW k \in 1..N, k - 1 \in S PROVE k \in S
    <2>1. k \in 1..(n - 1) /\ Settled(list, g[k - 1], n, k - 1) /\ g[k] = CompareSwap(g[k - 1], k)
      BY <1>1, <1>3, <1>5
    <2>2. Settled(list, g[k], n, k)
      BY <2>1, SettledOn
    <2>3. QED
      BY <2>2
  <1>6. N \in S
    <2>1. \A k \in 1..N : k - 1 \in S => k \in S
      BY <1>5
    <2> HIDE DEF S, N
    <2>2. \A k \in 0..N : k \in S
      BY <1>1, <1>4, <2>1, UpTo
    <2>3. QED
      BY <1>1, <2>2
  <1>7. QED
    BY <1>2, <1>6

\* The outer loop, pass by pass.
LEMMA SortChain ==
  ASSUME NEW n \in Nat \ {0}, NEW list \in Lists(n)
  PROVE  \E g : /\ Chain(g, n - 1, Lists(n), list,
                        [k \in 1..(n - 1) |-> [l \in Lists(n) |-> Pass(l, k - 1)]])
                /\ BubbleSort(list) = g[n - 1]
  <1> DEFINE N == Len(list) - 1
             S == Lists(n)
             js == [k \in 1..N |-> k - 1]
             step == [k \in 1..N |-> [l \in S |-> Pass(l, k - 1)]]
  <1>1. N = n - 1 /\ N \in Nat /\ DOMAIN js = 1..N /\ Len(list) = n
    BY DEF Lists
  <1>2. step \in [1..N -> [S -> S]]
    <2>1. \A k \in 1..N : k - 1 \in 0..(n - 2)
      BY <1>1
    <2>2. \A k \in 1..N : \A l \in S : Pass(l, k - 1) \in S
      BY <2>1, PassSettles DEF Settled, Rearranged
    <2> HIDE DEF S, N
    <2>3. QED
      BY <2>2
  <1>3. \A k \in 1..N : \A l \in S : step[k][l] = Pass(l, k - 1)
    OBVIOUS
  <1>4. PICK f : FoldOf(f, N, S, list, step)
    <2> HIDE DEF N, step, S
    <2>1. N \in Nat /\ list \in S
      BY <1>1 DEF S
    <2>2. QED
      BY <1>2, <2>1, FoldExists
  <1> DEFINE P(h) == h = [s \in SUBSET (1..N) |->
                            IF s = {} THEN list ELSE Pass(h[s \ {Max(s)}], js[Max(s)])]
             it == CHOOSE h : P(h)
  <1>5. P(f)
    <2>1. ASSUME NEW s \in SUBSET (1..N), s # {}
          PROVE  f[s] = Pass(f[s \ {Max(s)}], js[Max(s)])
      <3>1. Max(s) \in 1..N /\ s \ {Max(s)} \in SUBSET (1..N)
        BY <1>1, <2>1, MaxIs
      <3> HIDE DEF step, S
      <3>2. f[s] = step[Max(s)][f[s \ {Max(s)}]] /\ f[s \ {Max(s)}] \in S
        BY <1>4, <2>1, <3>1 DEF FoldOf
      <3>3. js[Max(s)] = Max(s) - 1
        BY <3>1
      <3>4. QED
        BY <1>3, <3>1, <3>2, <3>3
    <2> HIDE DEF js, S, step
    <2>2. \A s \in SUBSET (1..N) :
            f[s] = IF s = {} THEN list ELSE Pass(f[s \ {Max(s)}], js[Max(s)])
      BY <1>4, <2>1 DEF FoldOf
    <2>3. QED
      BY <1>4, <2>2 DEF FoldOf
  <1>6. P(it)
    BY <1>5
  <1>7. BubbleSort(list) = it[1..N]
    BY <1>1, Zenon DEF BubbleSort, FoldLeft, MapThenFoldSet
  <1> HIDE DEF it
  <1>8. it[1..0] = list
    BY <1>6
  <1>9. ASSUME NEW k \in 1..N, it[1..(k - 1)] \in S PROVE it[1..k] = step[k][it[1..(k - 1)]]
    <2>1. 1..k # {} /\ Max(1..k) = k /\ (1..k) \ {k} = 1..(k - 1) /\ 1..k \in SUBSET (1..N)
      BY <1>1, FirstNumbers
    <2>2. it[1..k] = Pass(it[(1..k) \ {Max(1..k)}], js[Max(1..k)])
      BY <1>6, <2>1
    <2>3. it[1..k] = Pass(it[1..(k - 1)], k - 1)
      BY <2>1, <2>2
    <2>4. QED
      BY <1>3, <1>9, <2>3
  <1>10. \E g : Chain(g, N, S, list, step) /\ it[1..N] = g[N]
    <2> HIDE DEF N, S, step, js
    <2>1. N \in Nat /\ list \in S /\ \A k \in 1..N : it[1..(k - 1)] \in S => it[1..k] = step[k][it[1..(k - 1)]]
      BY <1>1, <1>9 DEF S
    <2>2. QED
      BY <1>2, <1>8, <2>1, ChainOf
  <1>11. QED
    BY <1>1, <1>7, <1>10

\* After j passes: the last j places hold what is farthest, in order.
FarthestLast(list, q, n, j) ==
  /\ Rearranged(list, q, n) /\ SameBytes(list, q, n)
  /\ \A b \in (n - j + 1)..n : \A a \in 1..b : q[a] <= q[b]

\* Pass j puts the farthest of the others before them: it stays there, as no later pass
\* compares that place, and is at most what follows.
LEMMA PassOn ==
  ASSUME NEW n \in Nat, NEW list, NEW j \in 0..(n - 2), NEW q, FarthestLast(list, q, n, j)
  PROVE  FarthestLast(list, Pass(q, j), n, j + 1)
  <1> DEFINE r == Pass(q, j)
  <1>1. Settled(q, r, n, n - 1 - j)
    BY PassSettles DEF FarthestLast, Rearranged
  <1> HIDE DEF r
  <1>2. Rearranged(list, r, n) /\ SameBytes(list, r, n)
    BY <1>1, RearrangedOn DEF FarthestLast, Settled, SameBytes
  <1>3. /\ \A a \in (n - j + 1)..n : r[a] = q[a]
        /\ \A a \in 1..(n - j) : r[a] <= r[n - j] /\ \E b \in 1..(n - j) : r[a] = q[b]
    <2>1. (n - 1 - j) + 2 = n - j + 1 /\ (n - 1 - j) + 1 = n - j
      OBVIOUS
    <2>2. QED
      BY <1>1, <2>1 DEF Settled
  <1>4. ASSUME NEW b \in (n - j)..n, NEW a \in 1..b PROVE r[a] <= r[b]
    <2>1. CASE b = n - j
      BY <1>3, <1>4, <2>1
    <2>2. CASE b # n - j
      <3>1. b \in (n - j + 1)..n /\ r[b] = q[b] /\ \A c \in 1..b : q[c] <= q[b]
        BY <1>3, <2>2 DEF FarthestLast
      <3>2. \E c \in 1..b : r[a] = q[c]
        <4>1. CASE a \in 1..(n - j)
          <5>1. PICK c \in 1..(n - j) : r[a] = q[c]
            BY <1>3, <4>1
          <5>2. c \in 1..b
            OBVIOUS
          <5>3. QED
            BY <5>1, <5>2
        <4>2. CASE a \in (n - j + 1)..n
          BY <1>3, <4>2
        <4>3. QED
          BY <4>1, <4>2
      <3>3. QED
        BY <3>1, <3>2
    <2>3. QED
      BY <2>1, <2>2
  <1>5. \A b \in (n - (j + 1) + 1)..n : \A a \in 1..b : r[a] <= r[b]
    <2>1. n - (j + 1) + 1 = n - j
      OBVIOUS
    <2>2. QED
      BY <1>4, <2>1
  <1>6. QED
    BY <1>2, <1>5 DEF FarthestLast, r

LEMMA SortsAll ==
  ASSUME NEW n \in Nat \ {0}, NEW list \in Lists(n)
  PROVE  FarthestLast(list, BubbleSort(list), n, n - 1)
  <1> DEFINE N == n - 1
             step == [k \in 1..N |-> [l \in Lists(n) |-> Pass(l, k - 1)]]
  <1>1. N \in Nat /\ N = n - 1
    OBVIOUS
  <1>2. PICK g : Chain(g, N, Lists(n), list, step) /\ BubbleSort(list) = g[N]
    BY SortChain
  <1>3. g[0] = list /\ \A k \in 1..N : g[k] = Pass(g[k - 1], k - 1) /\ g[k - 1] \in Lists(n)
    <2> HIDE DEF N, step
    <2>1. /\ g \in [0..N -> Lists(n)] /\ g[0] = list
          /\ \A k \in 1..N : g[k] = step[k][g[k - 1]]
      BY <1>2 DEF Chain
    <2>2. \A k \in 1..N : k - 1 \in 0..N /\ g[k - 1] \in Lists(n)
      BY <1>1, <2>1
    <2>3. \A k \in 1..N : \A l \in Lists(n) : step[k][l] = Pass(l, k - 1)
      BY DEF step
    <2>4. QED
      BY <2>1, <2>2, <2>3
  <1> DEFINE S == {k \in 0..N : FarthestLast(list, g[k], n, k)}
  <1>4. 0 \in S
    <2>1. Rearranged(list, list, n) /\ SameBytes(list, list, n)
      BY RearrangedSelf DEF SameBytes
    <2>2. FarthestLast(list, list, n, 0)
      BY <2>1 DEF FarthestLast
    <2>3. QED
      BY <1>1, <1>3, <2>2
  <1>5. ASSUME NEW k \in 1..N, k - 1 \in S PROVE k \in S
    <2>1. k - 1 \in 0..(n - 2) /\ FarthestLast(list, g[k - 1], n, k - 1)
          /\ g[k] = Pass(g[k - 1], k - 1) /\ (k - 1) + 1 = k
      BY <1>1, <1>3, <1>5
    <2>2. FarthestLast(list, Pass(g[k - 1], k - 1), n, (k - 1) + 1)
      BY <2>1, PassOn
    <2>3. QED
      BY <2>1, <2>2
  <1>6. N \in S
    <2>1. \A k \in 1..N : k - 1 \in S => k \in S
      BY <1>5
    <2> HIDE DEF S, N
    <2>2. \A k \in 0..N : k \in S
      BY <1>1, <1>4, <2>1, UpTo
    <2>3. QED
      BY <1>1, <2>2
  <1>7. QED
    BY <1>2, <1>6

\* Every list of distances leaves the sort nearest first, with the stations it came
\* with, each as often, and, when it is of bytes, with the checksum it came with.
THEOREM StationsSorted ==
  ASSUME NEW n \in Nat \ {0}, NEW list \in [1..n -> Nat]
  PROVE  NearestFirst(BubbleSort(list)) /\ SameStations(BubbleSort(list), list)
  <1> DEFINE out == BubbleSort(list)
  <1>1. FarthestLast(list, out, n, n - 1)
    BY SortsAll DEF Lists
  <1> HIDE DEF out
  <1>2. SameStations(out, list)
    BY <1>1, SameCounts DEF FarthestLast
  <1>3. NearestFirst(out)
    <2>1. Len(out) = n
      BY <1>1 DEF FarthestLast, Rearranged, Lists
    <2>2. n - (n - 1) + 1 = 2
      OBVIOUS
    <2>3. \A b \in 2..n : \A a \in 1..b : out[a] <= out[b]
      BY <1>1, <2>2 DEF FarthestLast
    <2>4. \A i \in 1..(n - 1) : i + 1 \in 2..n /\ i \in 1..(i + 1)
      OBVIOUS
    <2>5. QED
      BY <2>1, <2>3, <2>4 DEF NearestFirst
  <1>4. QED
    BY <1>2, <1>3 DEF out

-----------------------------------------------------------------------------
(* The frames the peer sends *)

AllBodies == UNION {Bodies(t) : t \in Types}

HeaderFrames ==
  {[sid |-> HeaderSid(t), data |-> <<Checksum(b)>>, size |-> SizeOf[t]] : t \in Types, b \in AllBodies}
BodyFrames ==
  {[sid |-> BodySid(t), data |-> d, size |-> 0] : t \in Types, d \in Seq(Byte)}
PeerFrames == HeaderFrames \union BodyFrames

LEMMA DivType ==
  ASSUME NEW n \in Nat, NEW d \in Nat \ {0}
  PROVE  n \div d \in Nat
  OBVIOUS

\* What vCanSendBuffer makes of a message is a sequence of such frames; a header
\* always announces the size of its type.
LEMMA SentFrames ==
  ASSUME NEW t \in Types, NEW body \in Bodies(t)
  PROVE  vCanSendBuffer(t, body) \in Seq(PeerFrames)
  <1> DEFINE n == SizeOf[t]
             last == n \div FrameLen + (IF n % FrameLen > 0 THEN 1 ELSE 0)
             Header == [sid |-> HeaderSid(t), data |-> <<Checksum(body)>>, size |-> Len(body)]
             Body(k) == [sid  |-> BodySid(t),
                         data |-> SubSeq(body, (k - 1) * FrameLen + 1,
                                        IF k * FrameLen < Len(body) THEN k * FrameLen ELSE Len(body)),
                         size |-> 0]
  <1>1. n \in Nat \ {0} /\ Len(body) = n
    BY SizeAssumption DEF Bodies
  <1>2. last \in Nat
    <2>1. n \div FrameLen \in Nat
      BY <1>1, DivType, FrameLenAssumption
    <2>2. QED
      BY <2>1
  <1>3. body \in AllBodies
    BY DEF AllBodies
  <1>4. Header \in PeerFrames
    BY <1>1, <1>3 DEF PeerFrames, HeaderFrames
  <1>5. \A k \in 1..last : Body(k) \in PeerFrames
    <2> TAKE k \in 1..last
    <2> DEFINE i == (k - 1) * FrameLen + 1
               j == IF k * FrameLen < Len(body) THEN k * FrameLen ELSE Len(body)
    <2>1. i \in Nat \ {0} /\ j \in 0..Len(body)
      <3>1. k - 1 \in Nat /\ k \in Nat
        BY <1>2
      <3>2. (k - 1) * FrameLen \in Nat /\ k * FrameLen \in Nat
        BY <3>1, FrameLenAssumption
      <3>3. QED
        BY <1>1, <3>2
    <2> HIDE DEF i, j
    <2>2. SubSeq(body, i, j) \in Seq(Byte)
      <3>1. \A m \in i..j : body[m] \in Byte
        BY <1>1, <2>1 DEF Bodies
      <3>2. QED
        BY <2>1, <3>1, SubSeqProperties
    <2>3. \A d \in Seq(Byte) : [sid |-> BodySid(t), data |-> d, size |-> 0] \in PeerFrames
      BY DEF PeerFrames, BodyFrames
    <2> DEFINE d == SubSeq(body, i, j)
    <2> HIDE DEF d
    <2>4. [sid |-> BodySid(t), data |-> d, size |-> 0] \in PeerFrames
      BY <2>2, <2>3 DEF d
    <2>5. QED
      BY <2>4 DEF d, i, j
  <1> HIDE DEF Header, Body, last
  <1>6. <<Header>> \in Seq(PeerFrames)
    BY <1>4
  <1>7. [k \in 1..last |-> Body(k)] \in Seq(PeerFrames)
    BY <1>2, <1>5
  <1>8. <<Header>> \o [k \in 1..last |-> Body(k)] \in Seq(PeerFrames)
    BY <1>6, <1>7
  <1>9. QED
    BY <1>1, <1>8 DEF vCanSendBuffer, Header, Body, last

\* The size a header frame announces is that of its type's structure.
SizeFits(f) == \A t \in Types : f.sid = HeaderSid(t) => f.size = SizeOf[t]

LEMMA PeerSizes == \A f \in PeerFrames : SizeFits(f)
  <1>1. ASSUME NEW f \in HeaderFrames PROVE SizeFits(f)
    <2>1. PICK t \in Types : f.sid = HeaderSid(t) /\ f.size = SizeOf[t]
      BY DEF HeaderFrames
    <2>2. \A u \in Types : HeaderSid(u) = HeaderSid(t) => u = t
      BY DEF HeaderSid
    <2>3. QED
      BY <2>1, <2>2 DEF SizeFits
  <1>2. ASSUME NEW f \in BodyFrames PROVE SizeFits(f)
    <2>1. PICK t \in Types : f.sid = BodySid(t)
      BY DEF BodyFrames
    <2>2. \A u \in Types : HeaderSid(u) # BodySid(t)
      BY DEF HeaderSid, BodySid
    <2>3. QED
      BY <2>1, <2>2 DEF SizeFits
  <1>3. QED
    BY <1>1, <1>2 DEF PeerFrames

-----------------------------------------------------------------------------
(* The inductive invariant *)

Buffers(n) == [1..n -> Byte \union {None}]

\* The state of the receiver, sequence by sequence.
RxInv ==
  /\ ucCanTrans \in {"CST_SINGLE", "CST_SEQUENCE"}
  /\ uiCanSize \in Nat /\ rxOff \in Nat /\ heapLive \in Nat
  /\ cChecksum \in Byte
  /\ announced \in [Types -> Byte \union {None}]
  /\ ucCanTrans = "CST_SINGLE" => pCanBuff = None /\ heapLive = 0
  /\ ucCanTrans = "CST_SEQUENCE" =>
       /\ pCanBuff \in Buffers(uiCanSize + FrameLen) /\ heapLive = 1
       /\ ucCanType \in Types
       /\ uiCanSize = SizeOf[ucCanType]
       /\ cChecksum = announced[ucCanType]
       /\ rxOff < uiCanSize
       /\ \A i \in 1..rxOff : pCanBuff[i] \in Byte

IInv == RxInv /\ toSend \in Seq(PeerFrames)

\* None is not a buffer.
LEMMA BufferNotNone ==
  ASSUME NEW n \in Nat
  PROVE  None \notin Buffers(n)
  BY NoneAssumption DEF Buffers, Byte

LEMMA CopyBuffer ==
  ASSUME NEW n \in Nat, NEW buff \in Buffers(n), NEW off \in Nat,
         NEW data \in [1..FrameLen -> Byte]
  PROVE  /\ Len(buff) = n
         /\ CopyTo(buff, off, data, FrameLen) \in Buffers(n)
         /\ \A i \in 1..n : CopyTo(buff, off, data, FrameLen)[i] =
              IF i \in (off + 1)..(off + FrameLen) THEN data[i - off] ELSE buff[i]
  <1>1. Len(buff) = n
    BY DEF Buffers
  <1>2. \A i \in (off + 1)..(off + FrameLen) : data[i - off] \in Byte
    BY FrameLenAssumption
  <1>3. QED
    BY <1>1, <1>2 DEF Buffers, CopyTo

-----------------------------------------------------------------------------
(* The receive interrupt preserves it *)

LEMMA MoreCopied ==
  ASSUME RxInv, NEW f, NEW ucMessage \in [1..FrameLen -> Byte], ReceiveMore(f, ucMessage)
  PROVE  /\ pCanBuff' \in Buffers(uiCanSize + FrameLen)
         /\ \A i \in 1..(uiCanSize + FrameLen) : pCanBuff'[i] =
              IF i \in (rxOff + 1)..(rxOff + FrameLen) THEN ucMessage[i - rxOff] ELSE pCanBuff[i]
  <1>1. pCanBuff \in Buffers(uiCanSize + FrameLen) /\ ucCanTrans = "CST_SEQUENCE"
    BY DEF RxInv, ReceiveMore
  <1>2. QED
    BY <1>1, CopyBuffer, FrameLenAssumption DEF RxInv, ReceiveMore

LEMMA ReceiveMoreStep ==
  ASSUME RxInv, NEW f, NEW ucMessage \in [1..FrameLen -> Byte], ReceiveMore(f, ucMessage)
  PROVE  RxInv'
  <1>1. pCanBuff \in Buffers(uiCanSize + FrameLen) /\ ucCanTrans = "CST_SEQUENCE"
    BY DEF RxInv, ReceiveMore
  <1>2. /\ pCanBuff' \in Buffers(uiCanSize + FrameLen)
        /\ \A i \in 1..(uiCanSize + FrameLen) : pCanBuff'[i] =
             IF i \in (rxOff + 1)..(rxOff + FrameLen) THEN ucMessage[i - rxOff] ELSE pCanBuff[i]
    BY MoreCopied
  <1>3. rxOff' = rxOff + FrameLen /\ rxOff' < uiCanSize
    BY FrameLenAssumption DEF RxInv, ReceiveMore, uiRemain
  <1>4. \A i \in 1..rxOff' : pCanBuff'[i] \in Byte
    <2> TAKE i \in 1..rxOff'
    <2>1. i \in 1..(uiCanSize + FrameLen)
      BY <1>3, FrameLenAssumption DEF RxInv
    <2>2. CASE i <= rxOff
      BY <1>1, <1>2, <2>1, <2>2, FrameLenAssumption DEF RxInv
    <2>3. CASE i > rxOff
      BY <1>2, <1>3, <2>1, <2>3, FrameLenAssumption DEF RxInv
    <2>4. QED
      BY <2>2, <2>3, <1>3, FrameLenAssumption DEF RxInv
  <1>5. QED
    BY <1>1, <1>2, <1>3, <1>4, FrameLenAssumption DEF RxInv, ReceiveMore

LEMMA ReceiveLastStep ==
  ASSUME RxInv, NEW f, NEW ucMessage \in [1..FrameLen -> Byte], ReceiveLast(f, ucMessage)
  PROVE  RxInv'
  BY DEF RxInv, ReceiveLast

LEMMA ReceiveHeaderStep ==
  ASSUME RxInv, NEW f, SizeFits(f), NEW ucMessage \in [1..FrameLen -> Byte], ReceiveHeader(f, ucMessage)
  PROVE  RxInv'
  <1>1. PICK t \in Types : /\ f.sid = HeaderSid(t)
                           /\ ucCanType' = t
                           /\ announced' = [announced EXCEPT ![t] = ucMessage[1]]
    BY DEF ReceiveHeader
  <1>2. f.size = SizeOf[t] /\ uiCanSize' = f.size /\ f.size \in Nat \ {0}
    BY <1>1, SizeAssumption DEF SizeFits, ReceiveHeader
  <1>3. ucMessage[1] \in Byte /\ cChecksum' = ucMessage[1]
    BY FrameLenAssumption DEF ReceiveHeader
  <1>4. announced' \in [Types -> Byte \union {None}] /\ announced'[t] = ucMessage[1]
    BY <1>1, <1>3 DEF RxInv
  <1>5. CASE /\ pCanBuff' = [i \in 1..(f.size + FrameLen) |-> None]
             /\ heapLive' = heapLive + 1
             /\ ucCanTrans' = "CST_SEQUENCE"
             /\ rxOff' = 0
    <2>1. pCanBuff' \in Buffers(uiCanSize' + FrameLen)
      BY <1>2, <1>5 DEF Buffers
    <2>2. heapLive' = 1
      BY <1>5 DEF RxInv, ReceiveHeader
    <2>3. QED
      BY <1>1, <1>2, <1>3, <1>4, <1>5, <2>1, <2>2 DEF RxInv
  <1>6. CASE pCanBuff' = None /\ UNCHANGED <<heapLive, ucCanTrans, rxOff>>
    BY <1>2, <1>3, <1>4, <1>6 DEF RxInv, ReceiveHeader
  <1>7. QED
    BY <1>5, <1>6 DEF ReceiveHeader

LEMMA ReceiveSingleStep ==
  ASSUME RxInv, NEW f, ReceiveSingle(f)
  PROVE  RxInv'
  BY DEF RxInv, ReceiveSingle

LEMMA MsgRecvStep ==
  ASSUME RxInv, NEW f, SizeFits(f), vCAN_MsgRecv(f)
  PROVE  RxInv'
  <1>1. PICK ucMessage \in ucMessages(f) :
          \/ ReceiveMore(f, ucMessage) \/ ReceiveLast(f, ucMessage)
          \/ ReceiveHeader(f, ucMessage) \/ ReceiveSingle(f)
    BY DEF vCAN_MsgRecv
  <1>2. ucMessage \in [1..FrameLen -> Byte]
    BY DEF ucMessages
  <1>3. QED
    BY <1>1, <1>2, ReceiveMoreStep, ReceiveLastStep, ReceiveHeaderStep, ReceiveSingleStep

LEMMA InitIInv == Init => IInv
  BY DEF Init, IInv, RxInv, Byte

LEMMA StepIInv == IInv /\ [Next]_vars => IInv'
  <1> SUFFICES ASSUME IInv, [Next]_vars PROVE IInv'
    OBVIOUS
  <1>1. CASE PeerSend
    <2>1. PICK t \in Types : \E body \in Bodies(t) : toSend' = vCanSendBuffer(t, body)
      BY <1>1 DEF PeerSend
    <2>2. toSend' \in Seq(PeerFrames)
      BY <2>1, SentFrames
    <2>3. RxInv'
      BY <1>1 DEF IInv, RxInv, PeerSend, rxVars
    <2>4. QED
      BY <2>2, <2>3 DEF IInv
  <1>2. CASE Deliver
    <2>1. toSend # <<>> /\ toSend \in Seq(PeerFrames)
      BY <1>2 DEF Deliver, IInv
    <2>2. Head(toSend) \in PeerFrames /\ Tail(toSend) \in Seq(PeerFrames)
      BY <2>1, HeadTailProperties
    <2>3. RxInv'
      BY <1>2, <2>2, PeerSizes, MsgRecvStep DEF Deliver, IInv
    <2>4. QED
      BY <1>2, <2>2, <2>3 DEF Deliver, IInv
  <1>3. CASE Lose
    <2>1. toSend # <<>> /\ toSend \in Seq(PeerFrames)
      BY <1>3 DEF Lose, IInv
    <2>2. Tail(toSend) \in Seq(PeerFrames)
      BY <2>1, HeadTailProperties
    <2>3. RxInv'
      BY <1>3 DEF Lose, IInv, RxInv, rxVars
    <2>4. QED
      BY <1>3, <2>2, <2>3 DEF Lose, IInv
  <1>4. CASE Single
    <2>1. PICK b \in Byte : vCAN_MsgRecv([sid |-> SingleSid, data |-> <<b>>, size |-> 0])
      BY <1>4 DEF Single
    <2>2. SizeFits([sid |-> SingleSid, data |-> <<b>>, size |-> 0])
      BY DEF SizeFits, SingleSid, HeaderSid
    <2>3. RxInv'
      BY <2>1, <2>2, MsgRecvStep DEF IInv
    <2>4. QED
      BY <1>4, <2>3 DEF Single, IInv, peerVars
  <1>5. CASE UNCHANGED vars
    BY <1>5 DEF IInv, RxInv, vars, rxVars, peerVars
  <1>6. QED
    BY <1>1, <1>2, <1>3, <1>4, <1>5 DEF Next

LEMMA Invariance == Spec => []IInv
  BY InitIInv, StepIInv, PTL DEF Spec

-----------------------------------------------------------------------------
(* The theorems *)

\* Whatever frames are lost or inserted, the sequence buffer is allocated exactly while
\* a sequence is received, and there is only one.
THEOREM OneBuffer == Spec => []OneBufferPerSequence
  <1>1. IInv => OneBufferPerSequence
    BY BufferNotNone, FrameLenAssumption DEF IInv, RxInv, OneBufferPerSequence
  <1>2. QED
    BY <1>1, Invariance, PTL

\* No copy of a frame runs past the buffer, whatever the sizes of frames and structures,
\* and what has been counted as received has been written.
THEOREM CopyInBounds == Spec => []CopyStaysInBuffer
  <1>1. IInv => CopyStaysInBuffer
    <2> SUFFICES ASSUME IInv, ucCanTrans = "CST_SEQUENCE"
                 PROVE  /\ rxOff < uiCanSize
                        /\ rxOff + FrameLen <= Len(pCanBuff)
                        /\ \A i \in 1..rxOff : pCanBuff[i] \in Byte
      BY DEF CopyStaysInBuffer
    <2>1. Len(pCanBuff) = uiCanSize + FrameLen
      BY FrameLenAssumption DEF IInv, RxInv, Buffers
    <2>2. QED
      BY <2>1, FrameLenAssumption DEF IInv, RxInv
  <1>2. QED
    BY <1>1, Invariance, PTL

\* The type, size and checksum that end a sequence are those of one header.
THEOREM OneHeader == Spec => []OneHeaderPerSequence
  <1>1. IInv => OneHeaderPerSequence
    BY DEF IInv, RxInv, OneHeaderPerSequence
  <1>2. QED
    BY <1>1, Invariance, PTL

-----------------------------------------------------------------------------
(* The application's data                                                  *)

\* What vFetchData copies out of a completed buffer is a body of the sequence's type:
\* every byte of it has been received.
LEMMA CompletedBody ==
  ASSUME RxInv, ucCanTrans = "CST_SEQUENCE", uiRemain <= FrameLen,
         NEW ucMessage \in [1..FrameLen -> Byte]
  PROVE  LET full == CopyTo(pCanBuff, rxOff, ucMessage, uiRemain)
             body == SubSeq(full, 1, SizeOf[ucCanType])
         IN  /\ body \in Bodies(ucCanType)
             /\ \A i \in 1..uiCanSize :
                  body[i] = IF i <= rxOff THEN pCanBuff[i] ELSE ucMessage[i - rxOff]
  <1> DEFINE full == CopyTo(pCanBuff, rxOff, ucMessage, uiRemain)
             n == uiCanSize
             body == SubSeq(full, 1, n)
  <1>1. /\ pCanBuff \in Buffers(n + FrameLen) /\ n = SizeOf[ucCanType]
        /\ n \in Nat \ {0} /\ rxOff \in 0..(n - 1) /\ uiRemain = n - rxOff /\ uiRemain \in 1..FrameLen
        /\ \A i \in 1..rxOff : pCanBuff[i] \in Byte
    BY SizeAssumption, FrameLenAssumption DEF RxInv, uiRemain
  <1>2. Len(pCanBuff) = n + FrameLen
    BY <1>1, FrameLenAssumption DEF Buffers
  <1>3. full \in Buffers(n + FrameLen)
    <2>1. \A i \in (rxOff + 1)..(rxOff + uiRemain) : ucMessage[i - rxOff] \in Byte
      <3> TAKE i \in (rxOff + 1)..(rxOff + uiRemain)
      <3>1. i - rxOff \in 1..FrameLen
        BY <1>1, FrameLenAssumption
      <3>2. QED
        BY <3>1
    <2>2. QED
      BY <1>1, <1>2, <2>1 DEF CopyTo, Buffers
  <1>4. \A i \in 1..n : full[i] = IF i <= rxOff THEN pCanBuff[i] ELSE ucMessage[i - rxOff]
    BY <1>1, <1>2, FrameLenAssumption, SMTT(30) DEF CopyTo
  <1> HIDE DEF full
  <1>5. \A i \in 1..n : full[i] \in Byte
    <2> TAKE i \in 1..n
    <2>1. CASE i <= rxOff
      BY <1>1, <1>4, <2>1
    <2>2. CASE ~(i <= rxOff)
      <3>1. i - rxOff \in 1..FrameLen
        BY <1>1, <2>2, FrameLenAssumption
      <3>2. QED
        BY <1>4, <2>2, <3>1
    <2>3. QED
      BY <2>1, <2>2
  <1>6. body \in Seq(Byte) /\ Len(body) = n /\ \A i \in 1..n : body[i] = full[i]
    BY <1>1, <1>5, SubSeqProperties
  <1>7. body \in [1..n -> Byte]
    <2> HIDE DEF body
    <2>1. DOMAIN body = 1..n /\ body = [i \in DOMAIN body |-> body[i]]
      BY <1>1, <1>6, LenProperties
    <2>2. \A i \in 1..n : body[i] \in Byte
      BY <1>5, <1>6
    <2>3. QED
      BY <2>1, <2>2
  <1>8. QED
    BY <1>1, <1>4, <1>6, <1>7 DEF Bodies, full

\* What is kept of a body: the body, or its stations in order.
Stored(t, body) == IF t = Aprs THEN BubbleSort(body) ELSE body

LEMMA StoredBody ==
  ASSUME NEW t \in Types, NEW body \in Bodies(t)
  PROVE  /\ Stored(t, body) \in Bodies(t)
         /\ Checksum(Stored(t, body)) = Checksum(body)
         /\ t = Aprs => NearestFirst(Stored(t, body)) /\ SameStations(Stored(t, body), body)
  <1> DEFINE n == SizeOf[t]
  <1>1. n \in Nat \ {0} /\ body \in [1..n -> Byte] /\ body \in [1..n -> Nat]
    BY SizeAssumption DEF Bodies, Byte
  <1> HIDE DEF n
  <1>2. FarthestLast(body, BubbleSort(body), n, n - 1)
    BY <1>1, SortsAll DEF Lists
  <1>3. BubbleSort(body) \in [1..n -> Byte] /\ Checksum(BubbleSort(body)) = Checksum(body)
    BY <1>1, <1>2 DEF FarthestLast, SameBytes
  <1>4. NearestFirst(BubbleSort(body)) /\ SameStations(BubbleSort(body), body)
    BY <1>1, StationsSorted
  <1>5. QED
    BY <1>1, <1>3, <1>4 DEF Stored, Bodies, n

\* The body that a step of the receiver hands to the application is one of the type it
\* stores it as, with the checksum announced for that type.
Fetched(t, body) ==
  /\ t \in Types /\ body \in Bodies(t)
  /\ app' = [app EXCEPT ![t] = Stored(t, body)]
  /\ Checksum(body) = announced[t] /\ announced' = announced

LEMMA MsgRecvApp ==
  ASSUME RxInv, NEW f, vCAN_MsgRecv(f)
  PROVE  app' = app \/ \E t \in Types : \E body \in Bodies(t) : Fetched(t, body)
  <1>1. PICK ucMessage \in ucMessages(f) :
          \/ ReceiveMore(f, ucMessage) \/ ReceiveLast(f, ucMessage)
          \/ ReceiveHeader(f, ucMessage) \/ ReceiveSingle(f)
    BY DEF vCAN_MsgRecv
  <1>2. ucMessage \in [1..FrameLen -> Byte]
    BY DEF ucMessages
  <1>3. CASE UNCHANGED appVars
    BY <1>3 DEF appVars
  <1>4. CASE ReceiveLast(f, ucMessage) /\ ~ UNCHANGED appVars
    <2> DEFINE full == CopyTo(pCanBuff, rxOff, ucMessage, uiRemain)
               body == SubSeq(full, 1, uiCanSize)
    <2>1. /\ Checksum(body) = cChecksum /\ vFetchData(ucCanType, full)
          /\ ucCanTrans = "CST_SEQUENCE" /\ uiRemain <= FrameLen /\ announced' = announced
      BY <1>4 DEF ReceiveLast
    <2>2. ucCanType \in Types /\ uiCanSize = SizeOf[ucCanType] /\ cChecksum = announced[ucCanType]
      BY <2>1 DEF RxInv
    <2>3. body \in Bodies(ucCanType)
      BY <1>2, <2>1, <2>2, CompletedBody
    <2> HIDE DEF full
    <2>4. app' = [app EXCEPT ![ucCanType] = Stored(ucCanType, body)]
      BY <2>1, <2>2, Zenon DEF vFetchData, Stored
    <2>5. QED
      BY <2>1, <2>2, <2>3, <2>4 DEF Fetched
  <1>5. QED
    BY <1>1, <1>3, <1>4 DEF ReceiveMore, ReceiveHeader, ReceiveSingle

\* The application holds bodies of the right size, the stations in order.
AppInv ==
  /\ DOMAIN app = Types
  /\ \A t \in Types : app[t] # None => app[t] \in Bodies(t)
  /\ app[Aprs] # None => NearestFirst(app[Aprs])

LEMMA NextApp ==
  ASSUME RxInv, [Next]_vars
  PROVE  app' = app \/ \E t \in Types : \E body \in Bodies(t) : Fetched(t, body)
  <1>1. CASE UNCHANGED appVars
    BY <1>1 DEF appVars
  <1>2. CASE Deliver
    BY <1>2, MsgRecvApp DEF Deliver
  <1>3. CASE Single
    BY <1>3, MsgRecvApp DEF Single
  <1>4. QED
    BY <1>1, <1>2, <1>3 DEF Next, PeerSend, Lose, vars

LEMMA StepApp == IInv /\ AppInv /\ [Next]_vars => AppInv'
  <1> SUFFICES ASSUME IInv, AppInv, [Next]_vars PROVE AppInv'
    OBVIOUS
  <1>1. CASE app' = app
    BY <1>1 DEF AppInv
  <1>2. ASSUME NEW t \in Types, NEW body \in Bodies(t), Fetched(t, body) PROVE AppInv'
    <2>1. PICK kept : kept = Stored(t, body)
      OBVIOUS
    <2>2. kept \in Bodies(t) /\ (t = Aprs => NearestFirst(kept))
      BY <2>1, StoredBody
    <2>3. app' = [app EXCEPT ![t] = kept]
      BY <1>2, <2>1 DEF Fetched
    <2>4. DOMAIN app' = Types /\ \A u \in Types : app'[u] = IF u = t THEN kept ELSE app[u]
      BY <2>3 DEF AppInv
    <2>5. QED
      BY <2>2, <2>4, TypesAssumption DEF AppInv
  <1>3. QED
    BY <1>1, <1>2, NextApp DEF IInv

LEMMA AppAlways == Spec => []AppInv
  <1>1. Init => AppInv
    BY TypesAssumption DEF Init, AppInv
  <1>2. QED
    BY <1>1, StepApp, Invariance, PTL DEF Spec

\* The station list the screens read is nearest first, whatever frames were lost or
\* inserted, for every number of stations.
THEOREM StationsInOrder == Spec => []StationsNearestFirst
  <1>1. AppInv => StationsNearestFirst
    BY DEF AppInv, StationsNearestFirst
  <1>2. QED
    BY <1>1, AppAlways, PTL

\* What the application holds changes only to bytes with the checksum announced last for
\* their type; sorting the stations keeps it.
THEOREM NoUncheckedData == Spec => DataPassedChecksum
  <1>1. ASSUME IInv, AppInv, [Next]_vars
        PROVE  \A t \in Types : app'[t] # app[t] => Checksum(app'[t]) = announced[t]
    <2>1. CASE app' = app
      BY <2>1
    <2>2. ASSUME NEW t \in Types, NEW body \in Bodies(t), Fetched(t, body),
                 NEW u \in Types, app'[u] # app[u]
          PROVE  Checksum(app'[u]) = announced[u]
      <3>1. PICK kept : kept = Stored(t, body)
        OBVIOUS
      <3>2. Checksum(kept) = announced[t]
        BY <2>2, <3>1, StoredBody DEF Fetched
      <3>3. app' = [app EXCEPT ![t] = kept]
        BY <2>2, <3>1 DEF Fetched
      <3>4. u = t /\ app'[u] = kept
        BY <2>2, <3>3 DEF AppInv
      <3>5. QED
        BY <3>2, <3>4
    <2>3. QED
      BY <1>1, <2>1, <2>2, NextApp DEF IInv
  <1>2. IInv /\ AppInv /\ [Next]_vars
          => [\A t \in Types : app'[t] # app[t] => Checksum(app'[t]) = announced[t]]_vars
    BY <1>1
  <1>3. QED
    BY <1>2, Invariance, AppAlways, PTL DEF Spec, DataPassedChecksum

-----------------------------------------------------------------------------
(* The graph ring *)

Cell == Byte \union {None}

RingInv ==
  /\ cGraphPtr \in 0..(GraphLen - 1)
  /\ sGraph \in [0..(GraphLen - 1) -> Cell]
  /\ readings \in Seq(Cell) /\ Len(readings) <= GraphLen
  /\ RingHoldsLatest

\* The place k readings back from the write index p, without the modulus.
Back(p, k) == IF k <= p THEN p - k ELSE p - k + GraphLen

LEMMA BackIsModulus ==
  ASSUME NEW p \in 0..(GraphLen - 1), NEW k \in 1..GraphLen
  PROVE  (p - k) % GraphLen = Back(p, k)
  <1>1. GraphLen \in Nat \ {0}
    BY GraphLenAssumption
  <1>2. CASE k <= p
    BY <1>1, <1>2 DEF Back
  <1>3. CASE k > p
    BY <1>1, <1>3 DEF Back
  <1>4. QED
    BY <1>2, <1>3

\* Advancing the index moves every reading one place back.
LEMMA BackShifts ==
  ASSUME NEW p \in 0..(GraphLen - 1)
  PROVE  /\ NextGraphIndex(p) \in 0..(GraphLen - 1)
         /\ Back(NextGraphIndex(p), 1) = p
         /\ \A k \in 2..GraphLen : /\ Back(NextGraphIndex(p), k) = Back(p, k - 1)
                                   /\ Back(p, k - 1) # p
                                   /\ Back(p, k - 1) \in 0..(GraphLen - 1)
  BY GraphLenAssumption DEF NextGraphIndex, Back

\* The same, read from the end of the history.
LEMMA LatestShifts ==
  ASSUME NEW s \in Seq(Cell), Len(s) <= GraphLen, NEW v \in Cell
  PROVE  /\ Latest(Append(s, v)) \in Seq(Cell)
         /\ Len(Latest(Append(s, v))) = IF Len(s) = GraphLen THEN GraphLen ELSE Len(s) + 1
         /\ \A k \in 1..Len(Latest(Append(s, v))) :
              Latest(Append(s, v))[Len(Latest(Append(s, v))) - k + 1] =
                IF k = 1 THEN v ELSE s[Len(s) - (k - 1) + 1]
  <1> DEFINE a == Append(s, v)
  <1>1. /\ a \in Seq(Cell) /\ Len(a) = Len(s) + 1 /\ a # <<>>
        /\ \A i \in 1..Len(a) : a[i] = IF i = Len(a) THEN v ELSE s[i]
    BY AppendProperties
  <1>2. CASE Len(s) = GraphLen
    <2>1. Latest(a) = Tail(a)
      BY <1>1, <1>2, GraphLenAssumption DEF Latest
    <2>2. /\ Tail(a) \in Seq(Cell) /\ Len(Tail(a)) = Len(s)
          /\ \A i \in 1..Len(s) : Tail(a)[i] = a[i + 1]
      BY <1>1, HeadTailProperties
    <2>3. QED
      BY <1>1, <1>2, <2>1, <2>2, SMTT(30)
  <1>3. CASE Len(s) < GraphLen
    <2>1. Latest(a) = a
      BY <1>1, <1>3, GraphLenAssumption DEF Latest
    <2>2. QED
      BY <1>1, <1>3, <2>1
  <1>4. QED
    BY <1>2, <1>3, GraphLenAssumption

LEMMA FetchRing ==
  ASSUME RingInv, NEW t, NEW buff, vFetchData(t, buff),
         t = Geiger => SubSeq(buff, 1, SizeOf[t])[1] \in Cell
  PROVE  RingInv'
  <1>1. CASE t # Geiger
    <2>1. UNCHANGED <<sGraph, cGraphPtr, readings>>
      BY <1>1 DEF vFetchData
    <2>2. QED
      BY <2>1 DEF RingInv, RingHoldsLatest
  <1>2. CASE t = Geiger
    <2> DEFINE v == SubSeq(buff, 1, SizeOf[t])[1]
    <2>1. /\ sGraph' = [sGraph EXCEPT ![cGraphPtr] = v]
          /\ cGraphPtr' = NextGraphIndex(cGraphPtr)
          /\ readings' = Latest(Append(readings, v))
          /\ v \in Cell
      BY <1>2 DEF vFetchData
    <2> HIDE DEF v
    <2>2. cGraphPtr' \in 0..(GraphLen - 1) /\ sGraph' \in [0..(GraphLen - 1) -> Cell]
      BY <2>1, BackShifts DEF RingInv
    <2>3. /\ readings' \in Seq(Cell)
          /\ Len(readings') = IF Len(readings) = GraphLen THEN GraphLen ELSE Len(readings) + 1
          /\ \A k \in 1..Len(readings') :
               readings'[Len(readings') - k + 1] =
                 IF k = 1 THEN v ELSE readings[Len(readings) - (k - 1) + 1]
      BY <2>1, LatestShifts DEF RingInv
    <2>4. Len(readings) \in Nat /\ Len(readings') \in Nat /\ Len(readings') <= GraphLen
      BY <2>3, GraphLenAssumption DEF RingInv
    <2>5. \A k \in 1..Len(readings') :
            sGraph'[(cGraphPtr' - k) % GraphLen] = readings'[Len(readings') - k + 1]
      <3> TAKE k \in 1..Len(readings')
      <3>1. k \in 1..GraphLen
        BY <2>4, GraphLenAssumption
      <3>2. (cGraphPtr' - k) % GraphLen = Back(cGraphPtr', k)
        BY <2>2, <3>1, BackIsModulus
      <3>3. CASE k = 1
        <4>1. Back(cGraphPtr', k) = cGraphPtr
          BY <2>1, <3>3, BackShifts DEF RingInv
        <4>2. QED
          BY <2>1, <2>3, <3>2, <3>3, <4>1 DEF RingInv
      <3>4. CASE k # 1
        <4>1. k \in 2..GraphLen /\ k - 1 \in 1..GraphLen /\ k - 1 \in 1..Len(readings)
          BY <2>3, <2>4, <3>1, <3>4, GraphLenAssumption
        <4>2. /\ Back(cGraphPtr', k) = Back(cGraphPtr, k - 1)
              /\ Back(cGraphPtr, k - 1) # cGraphPtr
              /\ Back(cGraphPtr, k - 1) \in 0..(GraphLen - 1)
          BY <2>1, <4>1, BackShifts DEF RingInv
        <4>3. sGraph'[Back(cGraphPtr, k - 1)] = sGraph[Back(cGraphPtr, k - 1)]
          BY <2>1, <4>2 DEF RingInv
        <4>4. (cGraphPtr - (k - 1)) % GraphLen = Back(cGraphPtr, k - 1)
          BY <4>1, BackIsModulus DEF RingInv
        <4>5. sGraph[(cGraphPtr - (k - 1)) % GraphLen] = readings[Len(readings) - (k - 1) + 1]
          BY <4>1 DEF RingInv, RingHoldsLatest
        <4>6. readings'[Len(readings') - k + 1] = readings[Len(readings) - (k - 1) + 1]
          BY <2>3, <3>4
        <4>7. QED
          BY <3>2, <4>2, <4>3, <4>4, <4>5, <4>6
      <3>5. QED
        BY <3>3, <3>4
    <2>6. QED
      BY <2>2, <2>3, <2>4, <2>5 DEF RingInv, RingHoldsLatest
  <1>3. QED
    BY <1>1, <1>2

LEMMA MsgRecvRing ==
  ASSUME RxInv, RingInv, NEW f, vCAN_MsgRecv(f)
  PROVE  RingInv'
  <1>1. PICK ucMessage \in ucMessages(f) :
          \/ ReceiveMore(f, ucMessage) \/ ReceiveLast(f, ucMessage)
          \/ ReceiveHeader(f, ucMessage) \/ ReceiveSingle(f)
    BY DEF vCAN_MsgRecv
  <1>2. ucMessage \in [1..FrameLen -> Byte]
    BY DEF ucMessages
  <1>3. CASE UNCHANGED appVars
    BY <1>3 DEF appVars, RingInv, RingHoldsLatest
  <1>4. CASE ReceiveLast(f, ucMessage)
    <2> DEFINE full == CopyTo(pCanBuff, rxOff, ucMessage, uiRemain)
    <2>1. UNCHANGED appVars \/ vFetchData(ucCanType, full)
      BY <1>4 DEF ReceiveLast
    <2>2. ucCanType \in Types /\ SubSeq(full, 1, SizeOf[ucCanType]) \in Bodies(ucCanType)
      BY <1>2, <1>4, CompletedBody DEF ReceiveLast, RxInv
    <2>3. SubSeq(full, 1, SizeOf[ucCanType])[1] \in Cell
      <3>1. PICK body \in Bodies(ucCanType) : body = SubSeq(full, 1, SizeOf[ucCanType])
        BY <2>2
      <3>2. 1 \in 1..SizeOf[ucCanType]
        BY <2>2, SizeAssumption
      <3>3. body[1] \in Byte
        BY <3>2 DEF Bodies
      <3>4. QED
        BY <3>1, <3>3 DEF Cell
    <2> HIDE DEF full
    <2>4. QED
      BY <1>3, <2>1, <2>3, FetchRing
  <1>5. QED
    BY <1>1, <1>3, <1>4 DEF ReceiveMore, ReceiveHeader, ReceiveSingle

LEMMA StepRing == RxInv /\ RingInv /\ [Next]_vars => RingInv'
  <1> SUFFICES ASSUME RxInv, RingInv, [Next]_vars PROVE RingInv'
    OBVIOUS
  <1>1. CASE UNCHANGED appVars
    BY <1>1 DEF appVars, RingInv, RingHoldsLatest
  <1>2. CASE Deliver
    BY <1>2, MsgRecvRing DEF Deliver
  <1>3. CASE Single
    BY <1>3, MsgRecvRing DEF Single
  <1>4. QED
    BY <1>1, <1>2, <1>3 DEF Next, PeerSend, Lose, vars

\* Read backwards from its write index, the graph ring holds the latest readings, for
\* every length of the ring and number of readings, however often the index wrapped.
THEOREM RingCorrect == Spec => []RingHoldsLatest
  <1>1. Init => RingInv
    BY GraphLenAssumption DEF Init, RingInv, RingHoldsLatest, Cell
  <1>2. IInv /\ RingInv /\ [Next]_vars => RingInv'
    BY StepRing DEF IInv
  <1>3. RingInv => RingHoldsLatest
    BY DEF RingInv
  <1>4. QED
    BY <1>1, <1>2, <1>3, Invariance, PTL DEF Spec

-----------------------------------------------------------------------------
(* Delivery of whole messages                                              *)

\* Arithmetic of frames: what a frame more counts.
LEMMA Times ==
  ASSUME NEW a \in Nat, NEW b \in Nat, a < b
  PROVE  /\ a * FrameLen \in Nat /\ (a + 1) * FrameLen = a * FrameLen + FrameLen
         /\ (a + 1) * FrameLen <= b * FrameLen
  <1>1. FrameLen \in Nat \ {0}
    BY FrameLenAssumption
  <1>2. (a + 1) * FrameLen = a * FrameLen + FrameLen /\ a * FrameLen \in Nat
    BY <1>1, Z3
  <1>3. PICK c \in Nat : b = a + 1 + c
    <2>1. b - a - 1 \in Nat /\ b = a + 1 + (b - a - 1)
      OBVIOUS
    <2>2. QED
      BY <2>1
  <1>4. b * FrameLen = (a + 1) * FrameLen + c * FrameLen /\ c * FrameLen \in Nat
    BY <1>1, <1>3, Z3
  <1>5. QED
    BY <1>1, <1>2, <1>4

\* The frames of a message: its header, and nb bodies that hold its bytes in order, the
\* last of them those that are left.
Framed(F, t, body, nb) ==
  /\ F \in Seq(PeerFrames) /\ Len(F) = nb + 1
  /\ F[1].sid = HeaderSid(t) /\ F[1].data = <<Checksum(body)>>
  /\ (nb - 1) * FrameLen < SizeOf[t] /\ SizeOf[t] <= nb * FrameLen
  /\ \A k \in 1..nb :
       /\ F[k + 1].sid = BodySid(t)
       /\ \A i \in 1..FrameLen : (k - 1) * FrameLen + i <= SizeOf[t] =>
            /\ i \in 1..Len(F[k + 1].data)
            /\ F[k + 1].data[i] = body[(k - 1) * FrameLen + i]

\* uiLoops full bodies and the remnant hold the n bytes, and one body less does not.
LEMMA Loops ==
  ASSUME NEW n \in Nat \ {0}
  PROVE  \E nb \in Nat \ {0} :
           /\ nb = n \div FrameLen + (IF n % FrameLen > 0 THEN 1 ELSE 0)
           /\ (nb - 1) * FrameLen < n /\ n <= nb * FrameLen
  <1>1. FrameLen \in Nat \ {0}
    BY FrameLenAssumption
  <1>2. PICK q, r : q = n \div FrameLen /\ r = n % FrameLen
    OBVIOUS
  <1>3. q \in Nat /\ r \in 0..(FrameLen - 1) /\ n = q * FrameLen + r
    BY <1>1, <1>2, Z3
  <1>4. q * FrameLen \in Nat /\ (q + 1) * FrameLen = q * FrameLen + FrameLen
        /\ (q # 0 => (q - 1) * FrameLen = q * FrameLen - FrameLen)
    BY <1>1, <1>3, Z3
  <1>5. CASE r > 0
    <2>1. (q + 1) - 1 = q /\ q + 1 \in Nat \ {0}
      BY <1>3
    <2>2. q * FrameLen < n /\ n <= (q + 1) * FrameLen
      BY <1>1, <1>3, <1>4, <1>5
    <2>3. QED
      BY <1>2, <1>5, <2>1, <2>2
  <1>6. CASE ~(r > 0)
    <2>1. r = 0 /\ n = q * FrameLen
      BY <1>1, <1>3, <1>4, <1>6
    <2>2. q # 0
      BY <1>1, <1>3, <2>1
    <2>3. (q - 1) * FrameLen < n
      BY <1>1, <1>4, <2>1, <2>2
    <2>4. QED
      BY <1>2, <1>3, <1>4, <1>6, <2>1, <2>2, <2>3
  <1>7. QED
    BY <1>5, <1>6

LEMMA SentIsFramed ==
  ASSUME NEW t \in Types, NEW body \in Bodies(t)
  PROVE  \E nb \in Nat \ {0} : Framed(vCanSendBuffer(t, body), t, body, nb)
  <1> DEFINE n == SizeOf[t]
             F == vCanSendBuffer(t, body)
             Header == [sid |-> HeaderSid(t), data |-> <<Checksum(body)>>, size |-> Len(body)]
             Data(k) == SubSeq(body, (k - 1) * FrameLen + 1,
                               IF k * FrameLen < Len(body) THEN k * FrameLen ELSE Len(body))
             Body(k) == [sid |-> BodySid(t), data |-> Data(k), size |-> 0]
  <1>1. n \in Nat \ {0} /\ Len(body) = n /\ body \in Seq(Byte) /\ \A i \in 1..n : body[i] \in Byte
    BY SizeAssumption DEF Bodies
  <1> DEFINE last == n \div FrameLen + (IF n % FrameLen > 0 THEN 1 ELSE 0)
             bodies == [k \in 1..last |-> Body(k)]
  <1>2. F \in Seq(PeerFrames)
    BY SentFrames
  <1>3. PICK nb \in Nat \ {0} : nb = last /\ (nb - 1) * FrameLen < n /\ n <= nb * FrameLen
    BY <1>1, Loops
  <1>4. F = <<Header>> \o bodies
    BY <1>1 DEF vCanSendBuffer
  <1> HIDE DEF last, F
  <1>5. Len(F) = nb + 1 /\ F[1] = Header /\ \A k \in 1..nb : F[k + 1] = bodies[k]
    <2> HIDE DEF Header, Body
    <2>1. Len(bodies) = nb /\ bodies \in Seq({Body(k) : k \in 1..nb})
      BY <1>3
    <2>2. Len(<<Header>>) = 1 /\ <<Header>> \in Seq({Header}) /\ <<Header>>[1] = Header
      OBVIOUS
    <2> HIDE DEF bodies
    <2>3. QED
      BY <1>3, <1>4, <2>1, <2>2
  <1>6. \A k \in 1..nb : F[k + 1] = Body(k)
    BY <1>3, <1>5
  <1> HIDE DEF bodies
  <1>7. ASSUME NEW k \in 1..nb, NEW i \in 1..FrameLen, (k - 1) * FrameLen + i <= n
        PROVE  i \in 1..Len(Data(k)) /\ Data(k)[i] = body[(k - 1) * FrameLen + i]
    <2>1. PICK from \in Nat : from = (k - 1) * FrameLen /\ k * FrameLen = from + FrameLen
      <3>1. k - 1 \in Nat /\ k - 1 < k /\ k \in Nat /\ (k - 1) + 1 = k
        OBVIOUS
      <3>2. QED
        BY <3>1, Times
    <2> DEFINE to == IF from + FrameLen < n THEN from + FrameLen ELSE n
    <2>2. Data(k) = SubSeq(body, from + 1, to)
      BY <1>1, <2>1
    <2>3. from + i <= n /\ i \in Nat \ {0} /\ i <= FrameLen /\ FrameLen \in Nat
      BY <1>7, <2>1, FrameLenAssumption
    <2>4. from + 1 \in 1..n /\ to \in 1..n /\ from + i <= to
      BY <1>1, <2>3
    <2> HIDE DEF to
    <2>5. /\ Len(SubSeq(body, from + 1, to)) = to - (from + 1) + 1
          /\ \A m \in 1..(to - (from + 1) + 1) : SubSeq(body, from + 1, to)[m] = body[(from + 1) + m - 1]
      <3>1. \A m \in (from + 1)..to : body[m] \in Byte
        BY <1>1, <2>4
      <3>2. QED
        BY <1>1, <2>3, <2>4, <3>1, SubSeqProperties
    <2>6. i \in 1..(to - (from + 1) + 1) /\ (from + 1) + i - 1 = from + i
      BY <1>1, <2>3, <2>4
    <2>7. QED
      BY <2>1, <2>2, <2>5, <2>6
  <1> HIDE DEF Data
  <1>8. F[1].sid = HeaderSid(t) /\ F[1].data = <<Checksum(body)>>
    BY <1>5
  <1>9. \A k \in 1..nb : F[k + 1].sid = BodySid(t) /\ F[k + 1].data = Data(k)
    <2> TAKE k \in 1..nb
    <2>1. PICK d : d = Data(k)
      OBVIOUS
    <2>2. F[k + 1] = [sid |-> BodySid(t), data |-> d, size |-> 0]
      BY <1>6, <2>1
    <2>3. QED
      BY <2>1, <2>2
  <1> HIDE DEF Header, Body
  <1>10. Framed(F, t, body, nb)
    BY <1>2, <1>3, <1>5, <1>7, <1>8, <1>9 DEF Framed
  <1>11. QED
    BY <1>10 DEF F

\* The peer's message t, body is on the bus, k of its frames are gone, and if the receiver
\* is within a sequence it is this one, and what came is the body's beginning.
InFlight(t, body, nb, k) ==
  LET F == vCanSendBuffer(t, body)
  IN  /\ Framed(F, t, body, nb) /\ nb \in Nat \ {0} /\ k \in 0..nb
      /\ toSend \in Seq(PeerFrames) /\ Len(toSend) = nb + 1 - k
      /\ \A i \in 1..(nb + 1 - k) : toSend[i] = F[k + i]
      /\ ucCanTrans = "CST_SEQUENCE" =>
           /\ k > 0 /\ ucCanType = t /\ cChecksum = Checksum(body)
           /\ rxOff = (k - 1) * FrameLen
           /\ \A i \in 1..rxOff : pCanBuff[i] = body[i]

\* The frame delivered leaves the message on the bus with one frame less, or was the last:
\* then the receiver waits for a header, and the body is stored or lost.
Outcome(t, body, nb, k) ==
  \/ toSend' # <<>> /\ app' = app /\ InFlight(t, body, nb, k + 1)'
  \/ /\ toSend' = <<>> /\ ucCanTrans' = "CST_SINGLE"
     /\ app' = app \/ app' = [app EXCEPT ![t] = Stored(t, body)]

LEMMA FrameOff ==
  ASSUME NEW t \in Types, NEW body \in Bodies(t), NEW nb, NEW k, InFlight(t, body, nb, k),
         toSend' = Tail(toSend)
  PROVE  /\ toSend # <<>> /\ Head(toSend) = vCanSendBuffer(t, body)[k + 1]
         /\ toSend' \in Seq(PeerFrames) /\ Len(toSend') = nb + 1 - (k + 1)
         /\ \A i \in 1..(nb + 1 - (k + 1)) : toSend'[i] = vCanSendBuffer(t, body)[(k + 1) + i]
         /\ toSend' = <<>> <=> k = nb
  <1> DEFINE F == vCanSendBuffer(t, body)
  <1>1. /\ nb \in Nat \ {0} /\ k \in 0..nb
        /\ toSend \in Seq(PeerFrames) /\ Len(toSend) = nb + 1 - k
        /\ \A i \in 1..(nb + 1 - k) : toSend[i] = F[k + i]
    BY DEF InFlight
  <1> HIDE DEF F
  <1>2. toSend # <<>>
    BY <1>1
  <1>3. /\ Head(toSend) = toSend[1] /\ toSend' \in Seq(PeerFrames) /\ Len(toSend') = Len(toSend) - 1
        /\ \A i \in 1..Len(toSend') : toSend'[i] = toSend[i + 1]
    BY <1>1, <1>2, HeadTailProperties
  <1>4. Head(toSend) = F[k + 1]
    BY <1>1, <1>3
  <1>5. Len(toSend') = nb - k /\ \A i \in 1..(nb - k) : toSend'[i] = F[(k + 1) + i]
    <2>1. Len(toSend') = nb - k
      BY <1>1, <1>3
    <2>2. \A i \in 1..(nb - k) : i + 1 \in 1..(nb + 1 - k) /\ k + (i + 1) = (k + 1) + i
      BY <1>1
    <2>3. QED
      BY <1>1, <1>3, <2>1, <2>2
  <1>6. toSend' = <<>> <=> k = nb
    <2>1. PICK m \in Nat : m = Len(toSend') /\ m = nb - k
      BY <1>1, <1>5
    <2>2. Len(toSend') = 0 <=> k = nb
      <3>1. m = 0 <=> k = nb
        <4>1. nb \in Nat /\ k \in Nat /\ m = nb - k
          BY <1>1, <2>1
        <4>2. QED
          BY <4>1
      <3>2. QED
        BY <2>1, <3>1, Zenon
    <2>3. QED
      BY <1>3, <2>2, EmptySeq
  <1>7. QED
    BY <1>1, <1>2, <1>3, <1>4, <1>5, <1>6 DEF F

LEMMA HeaderNotBody == \A t, u \in Types : HeaderSid(t) # BodySid(u) /\ HeaderSid(t) # SingleSid
  BY DEF HeaderSid, BodySid, SingleSid

LEMMA HeaderDelivered ==
  ASSUME RxInv, NEW t \in Types, NEW body \in Bodies(t), NEW nb, NEW k, k \notin 1..nb,
         InFlight(t, body, nb, k),
         vCAN_MsgRecv(Head(toSend)), toSend' = Tail(toSend)
  PROVE  Outcome(t, body, nb, k)
  <1> DEFINE F == vCanSendBuffer(t, body)
             f == F[k + 1]
  <1>1. /\ Framed(F, t, body, nb) /\ nb \in Nat \ {0} /\ k \in 0..nb /\ k = 0
        /\ ucCanTrans # "CST_SEQUENCE"
    BY DEF InFlight
  <1>2. f.sid = HeaderSid(t) /\ f.data = <<Checksum(body)>>
    BY <1>1 DEF Framed
  <1>3. /\ Head(toSend) = f /\ toSend' \in Seq(PeerFrames) /\ Len(toSend') = nb + 1 - (k + 1)
        /\ \A i \in 1..(nb + 1 - (k + 1)) : toSend'[i] = F[(k + 1) + i]
        /\ toSend' = <<>> <=> k = nb
    BY FrameOff
  <1> HIDE DEF f
  <1>4. PICK ucMessage \in ucMessages(f) : ReceiveHeader(f, ucMessage)
    BY <1>1, <1>2, <1>3 DEF vCAN_MsgRecv, ReceiveMore, ReceiveLast, ReceiveSingle
  <1>5. ucMessage[1] = Checksum(body)
    BY <1>2, <1>4 DEF ucMessages
  <1>6. ucCanType' = t /\ cChecksum' = Checksum(body) /\ app' = app
    <2>1. \A u \in Types : HeaderSid(u) = HeaderSid(t) => u = t
      BY DEF HeaderSid
    <2>2. QED
      BY <1>2, <1>4, <1>5, <2>1 DEF ReceiveHeader, appVars
  <1>7. ucCanTrans' = "CST_SEQUENCE" => rxOff' = 0
    BY <1>1, <1>4 DEF ReceiveHeader
  <1>8. InFlight(t, body, nb, k + 1)'
    <2>1. ((k + 1) - 1) * FrameLen = 0 /\ k + 1 > 0 /\ k + 1 \in 0..nb
      BY <1>1, FrameLenAssumption
    <2> HIDE DEF F
    <2>2. ucCanTrans' = "CST_SEQUENCE" =>
            /\ k + 1 > 0 /\ ucCanType' = t /\ cChecksum' = Checksum(body)
            /\ rxOff' = ((k + 1) - 1) * FrameLen
            /\ \A i \in 1..rxOff' : pCanBuff'[i] = body[i]
      BY <1>6, <1>7, <2>1
    <2>3. QED
      BY <1>1, <1>3, <2>1, <2>2, Zenon DEF InFlight, F
  <1>9. toSend' # <<>>
    BY <1>1, <1>3
  <1>10. QED
    BY <1>6, <1>8, <1>9 DEF Outcome

LEMMA BodyIgnored ==
  ASSUME RxInv, NEW t \in Types, NEW body \in Bodies(t), NEW nb, NEW k, k # 0,
         InFlight(t, body, nb, k), ucCanTrans = "CST_SINGLE",
         vCAN_MsgRecv(Head(toSend)), toSend' = Tail(toSend)
  PROVE  Outcome(t, body, nb, k)
  <1> DEFINE F == vCanSendBuffer(t, body)
             f == F[k + 1]
  <1>1. /\ Framed(F, t, body, nb) /\ nb \in Nat \ {0} /\ k \in 1..nb
    BY DEF InFlight
  <1>2. f.sid = BodySid(t)
    BY <1>1 DEF Framed
  <1>3. /\ Head(toSend) = f /\ toSend' \in Seq(PeerFrames) /\ Len(toSend') = nb + 1 - (k + 1)
        /\ \A i \in 1..(nb + 1 - (k + 1)) : toSend'[i] = F[(k + 1) + i]
        /\ toSend' = <<>> <=> k = nb
    BY FrameOff
  <1> HIDE DEF f
  <1>4. ReceiveSingle(f)
    BY <1>2, <1>3, HeaderNotBody DEF vCAN_MsgRecv, ReceiveMore, ReceiveLast, ReceiveHeader
  <1>5. ucCanTrans' = "CST_SINGLE" /\ app' = app
    BY <1>4 DEF ReceiveSingle, appVars
  <1>6. CASE k = nb
    BY <1>3, <1>5, <1>6 DEF Outcome
  <1>7. CASE k # nb
    <2>1. k + 1 \in 0..nb
      BY <1>1, <1>7
    <2> HIDE DEF F
    <2>2. ucCanTrans' # "CST_SEQUENCE"
      BY <1>5
    <2>3. InFlight(t, body, nb, k + 1)'
      BY <1>1, <1>3, <2>1, <2>2, Zenon DEF InFlight, F
    <2>4. QED
      BY <1>3, <1>5, <1>7, <2>3 DEF Outcome
  <1>8. QED
    BY <1>6, <1>7

\* What a frame of the message brings: the bytes that follow those received.
LEMMA NextBytes ==
  ASSUME RxInv, NEW t \in Types, NEW body \in Bodies(t), NEW nb, NEW k, k \in 1..nb,
         InFlight(t, body, nb, k), ucCanTrans = "CST_SEQUENCE",
         NEW ucMessage \in ucMessages(vCanSendBuffer(t, body)[k + 1])
  PROVE  /\ uiCanSize = SizeOf[t] /\ uiCanSize \in Nat /\ rxOff \in Nat
         /\ rxOff + FrameLen = k * FrameLen
         /\ k # nb => uiRemain > FrameLen
         /\ k = nb => uiRemain <= FrameLen
         /\ \A i \in 1..uiCanSize : i \in (rxOff + 1)..(rxOff + FrameLen) => ucMessage[i - rxOff] = body[i]
  <1> DEFINE f == vCanSendBuffer(t, body)[k + 1]
             n == SizeOf[t]
  <1>1. /\ Framed(vCanSendBuffer(t, body), t, body, nb) /\ nb \in Nat \ {0}
        /\ rxOff = (k - 1) * FrameLen /\ ucCanType = t
    BY DEF InFlight
  <1>2. n \in Nat /\ FrameLen \in Nat \ {0} /\ uiCanSize = n /\ rxOff \in Nat
    BY <1>1, SizeAssumption, FrameLenAssumption DEF RxInv
  <1>3. /\ (nb - 1) * FrameLen < n /\ n <= nb * FrameLen
        /\ \A i \in 1..FrameLen : rxOff + i <= n =>
             i \in 1..Len(f.data) /\ f.data[i] = body[rxOff + i]
    BY <1>1 DEF Framed
  <1> HIDE DEF f, n
  <1>4. rxOff + FrameLen = k * FrameLen /\ k * FrameLen \in Nat
    <2>1. k - 1 \in Nat /\ k \in Nat /\ k - 1 < k /\ (k - 1) + 1 = k
      BY <1>1
    <2>2. QED
      BY <1>1, <1>2, <2>1, Times
  <1>5. k # nb => k * FrameLen < n
    <2>1. SUFFICES ASSUME k # nb PROVE k * FrameLen < n
      OBVIOUS
    <2>2. nb - 1 \in Nat /\ k \in Nat /\ (k = nb - 1 \/ k < nb - 1)
      BY <1>1, <2>1
    <2>3. CASE k = nb - 1
      BY <1>3, <2>3
    <2>4. CASE k < nb - 1
      <3>1. (k + 1) * FrameLen <= (nb - 1) * FrameLen /\ (k + 1) * FrameLen = k * FrameLen + FrameLen
        BY <2>2, <2>4, Times
      <3>2. PICK a, b : a = (nb - 1) * FrameLen /\ b = k * FrameLen
        OBVIOUS
      <3>3. a \in Int /\ b \in Nat /\ b + FrameLen <= a /\ a < n
        BY <1>1, <1>2, <1>3, <1>4, <3>1, <3>2
      <3>4. b < n
        BY <1>2, <3>3
      <3>5. QED
        BY <3>2, <3>4
    <2>5. QED
      BY <2>2, <2>3, <2>4
  <1>6. uiRemain = n - rxOff
    BY <1>2 DEF uiRemain
  <1>7. k # nb => uiRemain > FrameLen
    BY <1>2, <1>4, <1>5, <1>6
  <1>8. k = nb => uiRemain <= FrameLen
    BY <1>2, <1>3, <1>4, <1>6
  <1>9. ASSUME NEW i \in 1..n, i \in (rxOff + 1)..(rxOff + FrameLen)
         PROVE  ucMessage[i - rxOff] = body[i]
    <2>1. i - rxOff \in 1..FrameLen /\ rxOff + (i - rxOff) = i
      BY <1>2, <1>9
    <2>2. i - rxOff \in 1..Len(f.data) /\ f.data[i - rxOff] = body[i]
      BY <1>3, <2>1
    <2>3. QED
      BY <2>2 DEF ucMessages, f
  <1>10. QED
    BY <1>2, <1>4, <1>7, <1>8, <1>9 DEF n

LEMMA BodyAppended ==
  ASSUME RxInv, NEW t \in Types, NEW body \in Bodies(t), NEW nb, NEW k, k \in 1..nb, k # nb,
         InFlight(t, body, nb, k), ucCanTrans = "CST_SEQUENCE",
         vCAN_MsgRecv(Head(toSend)), toSend' = Tail(toSend)
  PROVE  Outcome(t, body, nb, k)
  <1> DEFINE F == vCanSendBuffer(t, body)
             f == F[k + 1]
  <1>1. /\ Framed(F, t, body, nb) /\ nb \in Nat \ {0} /\ ucCanType = t
        /\ cChecksum = Checksum(body)
        /\ \A i \in 1..rxOff : pCanBuff[i] = body[i]
    BY DEF InFlight
  <1>2. /\ Head(toSend) = f /\ toSend' \in Seq(PeerFrames) /\ Len(toSend') = nb + 1 - (k + 1)
        /\ \A i \in 1..(nb + 1 - (k + 1)) : toSend'[i] = F[(k + 1) + i]
        /\ toSend' = <<>> <=> k = nb
    BY FrameOff
  <1>3. PICK ucMessage \in ucMessages(f) : \/ ReceiveMore(f, ucMessage) \/ ReceiveLast(f, ucMessage)
    BY <1>2 DEF vCAN_MsgRecv, ReceiveHeader, ReceiveSingle
  <1>4. /\ uiCanSize = SizeOf[t] /\ uiCanSize \in Nat /\ rxOff \in Nat
        /\ rxOff + FrameLen = k * FrameLen /\ uiRemain > FrameLen
        /\ \A i \in 1..uiCanSize : i \in (rxOff + 1)..(rxOff + FrameLen) => ucMessage[i - rxOff] = body[i]
    BY NextBytes
  <1>5. ucMessage \in [1..FrameLen -> Byte]
    BY DEF ucMessages
  <1> HIDE DEF f, F
  <1>6. uiRemain = uiCanSize - rxOff /\ FrameLen \in Nat \ {0}
    BY FrameLenAssumption DEF uiRemain
  <1>7. ReceiveMore(f, ucMessage)
    <2>1. ~(uiRemain <= FrameLen)
      BY <1>4, <1>6
    <2>2. QED
      BY <1>3, <2>1, Zenon DEF ReceiveLast
  <1>8. /\ rxOff' = k * FrameLen /\ app' = app
        /\ ucCanType' = t /\ cChecksum' = Checksum(body)
    BY <1>1, <1>4, <1>7 DEF ReceiveMore, appVars
  <1>9. \A i \in 1..rxOff' : pCanBuff'[i] = body[i]
    <2> TAKE i \in 1..rxOff'
    <2>1. i \in 1..(rxOff + FrameLen) /\ rxOff + FrameLen < uiCanSize
      BY <1>4, <1>6, <1>8
    <2>2. pCanBuff \in Buffers(uiCanSize + FrameLen) /\ uiCanSize + FrameLen \in Nat
      BY <1>4, <1>6 DEF RxInv
    <2>3. i \in 1..(uiCanSize + FrameLen) /\ i \in 1..uiCanSize
      BY <1>4, <1>6, <2>1
    <2>4. pCanBuff'[i] = IF i \in (rxOff + 1)..(rxOff + FrameLen) THEN ucMessage[i - rxOff] ELSE pCanBuff[i]
      <3>1. \A m \in 1..(uiCanSize + FrameLen) : pCanBuff'[m] =
              IF m \in (rxOff + 1)..(rxOff + FrameLen) THEN ucMessage[m - rxOff] ELSE pCanBuff[m]
        BY <1>5, <1>7, MoreCopied
      <3>2. QED
        BY <2>3, <3>1
    <2>5. CASE i \in (rxOff + 1)..(rxOff + FrameLen)
      BY <1>4, <2>3, <2>4, <2>5
    <2>6. CASE i \notin (rxOff + 1)..(rxOff + FrameLen)
      <3>1. i \in 1..rxOff
        BY <1>4, <1>6, <2>1, <2>6
      <3>2. QED
        BY <1>1, <2>4, <2>6, <3>1
    <2>7. QED
      BY <2>5, <2>6
  <1>10. k + 1 \in 0..nb /\ k + 1 > 0 /\ (k + 1) - 1 = k
    BY <1>1
  <1>11. InFlight(t, body, nb, k + 1)'
    BY <1>1, <1>2, <1>8, <1>9, <1>10, Zenon DEF InFlight, F
  <1>12. QED
    BY <1>2, <1>8, <1>11 DEF Outcome

LEMMA LastAppended ==
  ASSUME RxInv, NEW t \in Types, NEW body \in Bodies(t), NEW nb, NEW k, k \in 1..nb, k = nb,
         InFlight(t, body, nb, k), ucCanTrans = "CST_SEQUENCE",
         vCAN_MsgRecv(Head(toSend)), toSend' = Tail(toSend)
  PROVE  Outcome(t, body, nb, k)
  <1> DEFINE F == vCanSendBuffer(t, body)
             f == F[k + 1]
  <1>1. /\ ucCanType = t /\ cChecksum = Checksum(body)
        /\ \A i \in 1..rxOff : pCanBuff[i] = body[i]
    BY DEF InFlight
  <1>2. Head(toSend) = f /\ toSend' = <<>>
    BY FrameOff
  <1>3. PICK ucMessage \in ucMessages(f) : \/ ReceiveMore(f, ucMessage) \/ ReceiveLast(f, ucMessage)
    BY <1>2 DEF vCAN_MsgRecv, ReceiveHeader, ReceiveSingle
  <1>4. /\ uiCanSize = SizeOf[t] /\ uiCanSize \in Nat /\ rxOff \in Nat /\ uiRemain <= FrameLen
        /\ \A i \in 1..uiCanSize : i \in (rxOff + 1)..(rxOff + FrameLen) => ucMessage[i - rxOff] = body[i]
    BY NextBytes
  <1>5. ucMessage \in [1..FrameLen -> Byte]
    BY DEF ucMessages
  <1> HIDE DEF f
  <1>6. uiRemain = uiCanSize - rxOff /\ FrameLen \in Nat \ {0}
    BY FrameLenAssumption DEF uiRemain
  <1>7. ReceiveLast(f, ucMessage)
    <2>1. ~(uiRemain > FrameLen)
      BY <1>4, <1>6
    <2>2. QED
      BY <1>3, <2>1, Zenon DEF ReceiveMore
  <1> DEFINE full == CopyTo(pCanBuff, rxOff, ucMessage, uiRemain)
             got == SubSeq(full, 1, uiCanSize)
  <1>8. /\ got \in Bodies(t)
        /\ \A i \in 1..uiCanSize : got[i] = IF i <= rxOff THEN pCanBuff[i] ELSE ucMessage[i - rxOff]
    BY <1>1, <1>4, <1>5, CompletedBody
  <1>9. /\ IF Checksum(got) = cChecksum THEN vFetchData(ucCanType, full) ELSE UNCHANGED appVars
        /\ ucCanTrans' = "CST_SINGLE"
    BY <1>7 DEF ReceiveLast
  <1> HIDE DEF full, got
  <1>10. got = body
    <2>1. \A i \in 1..uiCanSize : got[i] = body[i]
      <3> TAKE i \in 1..uiCanSize
      <3>1. CASE i <= rxOff
        BY <1>1, <1>4, <1>8, <3>1
      <3>2. CASE ~(i <= rxOff)
        <4>1. i \in (rxOff + 1)..(rxOff + FrameLen)
          BY <1>4, <1>6, <3>2
        <4>2. QED
          BY <1>4, <1>8, <3>2, <4>1
      <3>3. QED
        BY <3>1, <3>2
    <2>2. got \in [1..uiCanSize -> Byte] /\ body \in [1..uiCanSize -> Byte]
      BY <1>4, <1>8 DEF Bodies
    <2>3. /\ got = [i \in 1..uiCanSize |-> got[i]]
          /\ body = [i \in 1..uiCanSize |-> body[i]]
      BY <2>2, Zenon
    <2>4. [i \in 1..uiCanSize |-> got[i]] = [i \in 1..uiCanSize |-> body[i]]
      BY <2>1, Zenon
    <2>5. QED
      BY <2>3, <2>4, Zenon
  <1>11. vFetchData(t, full)
    BY <1>1, <1>9, <1>10
  <1>12. app' = [app EXCEPT ![t] = Stored(t, body)]
    <2>1. SubSeq(full, 1, SizeOf[t]) = body
      BY <1>4, <1>10 DEF got
    <2>2. QED
      BY <1>11, <2>1, Zenon DEF vFetchData, Stored
  <1>13. QED
    BY <1>2, <1>9, <1>12 DEF Outcome

LEMMA Delivered ==
  ASSUME RxInv, NEW t \in Types, NEW body \in Bodies(t), NEW nb, NEW k, InFlight(t, body, nb, k),
         vCAN_MsgRecv(Head(toSend)), toSend' = Tail(toSend)
  PROVE  Outcome(t, body, nb, k)
  <1>1. k \in 0..nb /\ nb \in Nat /\ ucCanTrans \in {"CST_SINGLE", "CST_SEQUENCE"}
        /\ (ucCanTrans = "CST_SEQUENCE" => k \in 1..nb)
    BY DEF InFlight, RxInv
  <1>2. CASE k \notin 1..nb
    BY <1>2, HeaderDelivered
  <1>3. CASE k \in 1..nb /\ ucCanTrans = "CST_SINGLE"
    <2>1. k # 0
      BY <1>3
    <2>2. QED
      BY <1>3, <2>1, BodyIgnored
  <1>4. CASE k \in 1..nb /\ ucCanTrans = "CST_SEQUENCE" /\ k # nb
    BY <1>4, BodyAppended
  <1>5. CASE k \in 1..nb /\ ucCanTrans = "CST_SEQUENCE" /\ k = nb
    BY <1>5, LastAppended
  <1>6. QED
    BY <1>1, <1>2, <1>3, <1>4, <1>5

\* Between two messages the receiver waits for a header; else one is on its way.
DeliveryInv ==
  /\ lost = 0 /\ alien = 0
  /\ toSend = <<>> => ucCanTrans = "CST_SINGLE"
  /\ toSend # <<>> => \E t \in Types : \E body \in Bodies(t) :
       sending = <<t, body>> /\ \E nb, k : InFlight(t, body, nb, k)

\* The message on the bus, as the abstract delivery has it.
onBus == IF toSend = <<>> THEN None ELSE sending

DeliverySteps ==
  /\ DeliveryInv'
  /\ \/ onBus' = onBus /\ app' = app
     \/ /\ onBus = None /\ app' = app
        /\ \E t \in Types : \E body \in Bodies(t) : onBus' = <<t, body>>
     \/ \E t \in Types : \E body \in Bodies(t) :
          /\ onBus = <<t, body>> /\ onBus' = None
          /\ app' = app \/ app' = [app EXCEPT ![t] = Stored(t, body)]

LEMMA PeerSendDelivery ==
  ASSUME IInv, DeliveryInv, PeerSend
  PROVE  DeliverySteps
  <1>0. PICK t \in Types : \E body \in Bodies(t) :
          sending' = <<t, body>> /\ toSend' = vCanSendBuffer(t, body)
    BY DEF PeerSend
  <1>1. PICK body \in Bodies(t) : sending' = <<t, body>> /\ toSend' = vCanSendBuffer(t, body)
    BY <1>0
  <1>2. PICK nb \in Nat \ {0} : Framed(vCanSendBuffer(t, body), t, body, nb)
    BY SentIsFramed
  <1>3. toSend' \in Seq(PeerFrames) /\ Len(toSend') = nb + 1
    BY <1>1, <1>2 DEF Framed
  <1>4. toSend' # <<>> /\ toSend = <<>> /\ ucCanTrans' # "CST_SEQUENCE" /\ app' = app
        /\ lost' = lost /\ alien' = alien
    <2>1. Len(toSend') # 0
      BY <1>3
    <2>2. QED
      BY <2>1, EmptySeq DEF PeerSend, DeliveryInv, rxVars, appVars
  <1>5. InFlight(t, body, nb, 0)'
    <2>1. 0 \in 0..nb /\ nb + 1 - 0 = nb + 1 /\ \A i \in 1..(nb + 1) : 0 + i = i
      OBVIOUS
    <2>2. \A i \in 1..(nb + 1 - 0) : toSend'[i] = vCanSendBuffer(t, body)[0 + i]
      BY <1>1, <2>1
    <2>3. QED
      BY <1>2, <1>3, <1>4, <2>1, <2>2 DEF InFlight
  <1>6. DeliveryInv'
    BY <1>1, <1>4, <1>5 DEF DeliveryInv
  <1>7. onBus = None /\ onBus' = <<t, body>>
    BY <1>1, <1>4 DEF onBus
  <1>8. QED
    BY <1>4, <1>6, <1>7 DEF DeliverySteps

LEMMA DeliverDelivery ==
  ASSUME IInv, DeliveryInv, Deliver
  PROVE  DeliverySteps
  <1>1. toSend # <<>> /\ toSend' = Tail(toSend) /\ vCAN_MsgRecv(Head(toSend))
        /\ sending' = sending /\ lost' = lost /\ alien' = alien
    BY DEF Deliver
  <1>0. PICK t \in Types : \E body \in Bodies(t) :
          sending = <<t, body>> /\ \E nb, k : InFlight(t, body, nb, k)
    BY <1>1 DEF DeliveryInv
  <1>9. PICK body \in Bodies(t) : sending = <<t, body>> /\ \E nb, k : InFlight(t, body, nb, k)
    BY <1>0
  <1>2. PICK nb, k : sending = <<t, body>> /\ InFlight(t, body, nb, k)
    BY <1>9
  <1>3. Outcome(t, body, nb, k)
    BY <1>1, <1>2, Delivered DEF IInv
  <1>4. onBus = <<t, body>>
    BY <1>1, <1>2 DEF onBus
  <1>5. CASE toSend' # <<>> /\ app' = app /\ InFlight(t, body, nb, k + 1)'
    <2>1. DeliveryInv'
      BY <1>1, <1>2, <1>5 DEF DeliveryInv
    <2>2. onBus' = onBus
      BY <1>1, <1>5 DEF onBus
    <2>3. QED
      BY <1>5, <2>1, <2>2 DEF DeliverySteps
  <1>6. CASE /\ toSend' = <<>> /\ ucCanTrans' = "CST_SINGLE"
             /\ app' = app \/ app' = [app EXCEPT ![t] = Stored(t, body)]
    <2>1. DeliveryInv'
      BY <1>1, <1>6 DEF DeliveryInv
    <2>2. onBus' = None
      BY <1>6 DEF onBus
    <2>3. QED
      BY <1>4, <1>6, <2>1, <2>2, Zenon DEF DeliverySteps
  <1>7. QED
    BY <1>3, <1>5, <1>6 DEF Outcome

LEMMA StepDelivery ==
  ASSUME MaxLost = 0, MaxAlien = 0, IInv, DeliveryInv, [Next]_vars
  PROVE  DeliverySteps
  <1>1. CASE PeerSend
    BY <1>1, PeerSendDelivery
  <1>2. CASE Deliver
    BY <1>2, DeliverDelivery
  <1>3. CASE Lose
    BY <1>3 DEF Lose, DeliveryInv
  <1>4. CASE Single
    <2>1. PICK b \in Byte : vCAN_MsgRecv([sid |-> SingleSid, data |-> <<b>>, size |-> 0])
      BY <1>4 DEF Single
    <2>2. PICK f : f = [sid |-> SingleSid, data |-> <<b>>, size |-> 0]
      OBVIOUS
    <2>3. toSend = <<>> /\ UNCHANGED <<toSend, sending, lost, alien>> /\ f.sid = SingleSid
          /\ ucCanTrans = "CST_SINGLE"
      BY <1>4, <2>2 DEF Single, DeliveryInv, peerVars
    <2>4. ReceiveSingle(f)
      BY <2>1, <2>2, <2>3, HeaderNotBody DEF vCAN_MsgRecv, ReceiveMore, ReceiveLast, ReceiveHeader
    <2>5. ucCanTrans' = "CST_SINGLE" /\ app' = app
      BY <2>3, <2>4 DEF ReceiveSingle, appVars
    <2>6. QED
      BY <2>3, <2>5 DEF DeliveryInv, DeliverySteps, onBus
  <1>5. CASE UNCHANGED vars
    <2>1. UNCHANGED <<ucCanTrans, ucCanType, cChecksum, pCanBuff, rxOff, sending, toSend, lost, alien, app>>
      BY <1>5 DEF vars, rxVars, appVars, peerVars
    <2>2. DeliveryInv'
      BY <2>1 DEF DeliveryInv, InFlight
    <2>3. QED
      BY <2>1, <2>2 DEF DeliverySteps, onBus
  <1>6. QED
    BY <1>1, <1>2, <1>3, <1>4, <1>5 DEF Next

\* A step of the link is one of the abstract delivery or none.
LEMMA Delivers ==
  ASSUME DeliverySteps
  PROVE  [Delivery!Next]_(Delivery!vars)
  <1>1. CASE onBus' = onBus /\ app' = app
    BY <1>1 DEF Delivery!vars, onBus
  <1>2. CASE /\ onBus = None /\ app' = app
             /\ \E t \in Types : \E body \in Bodies(t) : onBus' = <<t, body>>
    BY <1>2 DEF onBus, Delivery!Next, Delivery!Send, Bodies, Byte
  <1>3. ASSUME NEW t \in Types, NEW body \in Bodies(t), onBus = <<t, body>>, onBus' = None
        PROVE  /\ app' = app => Delivery!Miss
               /\ app' = [app EXCEPT ![t] = Stored(t, body)] => Delivery!Arrive
    <2>1. <<t, body>> \in Types \X Seq({0, 1})
      BY SizeAssumption DEF Bodies, Byte
    <2>2. onBus # None /\ onBus[1] = t /\ onBus[2] = body
      BY <1>3, <2>1, NoneAssumption
    <2>3. app' = app => Delivery!Miss
      BY <1>3, <2>2 DEF Delivery!Miss, onBus
    <2>4. PICK kept : kept = Stored(t, body)
      OBVIOUS
    <2>5. kept \in [1..SizeOf[t] -> {0, 1}]
      BY <2>4, StoredBody DEF Bodies, Byte
    <2>6. Delivery!Kept(t, body, kept)
      <3>1. \A l : Delivery!NearestFirst(l) <=> NearestFirst(l)
        BY Zenon DEF Delivery!NearestFirst, NearestFirst
      <3>2. \A S : Delivery!Cardinality(S) = Cardinality(S)
        BY Zenon DEF Delivery!Cardinality, Cardinality
      <3>3. \A l : Delivery!ToSet(l) = ToSet(l)
        BY Zenon DEF Delivery!ToSet, ToSet
      <3>4. \A l, m : Delivery!SameStations(l, m) <=> SameStations(l, m)
        BY <3>2, <3>3, Zenon DEF Delivery!SameStations, SameStations
      <3>5. QED
        BY <2>4, <3>1, <3>4, StoredBody DEF Stored, Delivery!Kept
    <2>7. app' = [app EXCEPT ![t] = Stored(t, body)] => Delivery!Arrive
      BY <1>3, <2>2, <2>4, <2>5, <2>6 DEF Delivery!Arrive, onBus
    <2>8. QED
      BY <2>3, <2>7
  <1>4. QED
    BY <1>1, <1>2, <1>3 DEF DeliverySteps, Delivery!Next

\* On a bus that loses and inserts nothing, reception delivers every message whole, or
\* not at all for want of memory, and the stations in order: the receiver implements the
\* abstract delivery, for every length of frame, set of messages and size.
THEOREM MessagesWhole ==
  ASSUME MaxLost = 0, MaxAlien = 0
  PROVE  Spec => WholeMessages
  <1>1. Init => DeliveryInv /\ Delivery!Init
    BY DEF Init, DeliveryInv, Delivery!Init
  <1>2. IInv /\ DeliveryInv /\ [Next]_vars => DeliveryInv' /\ [Delivery!Next]_(Delivery!vars)
    BY StepDelivery, Delivers DEF DeliverySteps
  <1>3. QED
    BY <1>1, <1>2, Invariance, PTL DEF Spec, WholeMessages, Delivery!Spec
=============================================================================
