------------------------------- MODULE Lemmas --------------------------------
(***************************************************************************)
(* What the proofs share: turns taken by a counter modulo the number of    *)
(* places, induction, folds along a sequence, the loops Only and Total,    *)
(* sequences that repeat nothing or follow an order, rows of sequences,    *)
(* and where in a sequence another stands or is cut off by its end.        *)
(*                                                                         *)
(* Induction is stated with a set in place of a predicate: a set G that    *)
(* holds 0 and n + 1 for every n in it holds every natural number.         *)
(***************************************************************************)
EXTENDS Integers, Filter, FiniteSetTheorems, WellFoundedInduction, SequenceTheorems, TLAPS

(* Division with a remainder has one remainder only.                       *)
LEMMA ModUnique ==
    ASSUME NEW m \in Nat \ {0}, NEW p \in Nat, NEW q \in Nat,
           NEW c \in 0..(m - 1), NEW d \in 0..(m - 1), m * p + c = m * q + d
    PROVE  c = d
<1>1. ASSUME NEW a \in Nat, NEW b \in Nat, a < b PROVE m * a + m <= m * b
    <2> DEFINE e == b - a - 1
    <2>1. e \in Nat /\ b = a + 1 + e
        BY <1>1
    <2>2. m * b = m * a + m + m * e /\ m * e \in Nat
        BY <2>1, Z3T(30)
    <2> QED
        BY <2>2, Z3T(30)
<1>2. CASE p < q
    BY <1>1, <1>2, Z3T(30)
<1>3. CASE q < p
    BY <1>1, <1>3, Z3T(30)
<1>4. CASE p = q
    BY <1>4
<1> QED
    BY <1>2, <1>3, <1>4

(* The remainder moves on by one and starts again at the end.              *)
LEMMA ModNext ==
    ASSUME NEW n \in Nat, NEW m \in Nat \ {0}
    PROVE  /\ n % m \in 0..(m - 1)
           /\ (n + 1) % m = IF (n % m) + 1 = m THEN 0 ELSE (n % m) + 1
<1> DEFINE c == n % m
           d == (n + 1) % m
           p == n \div m
           q == (n + 1) \div m
<1>1. n = m * p + c /\ p \in Nat /\ c \in 0..(m - 1)
    BY Z3T(30)
<1>2. n + 1 = m * q + d /\ q \in Nat /\ d \in 0..(m - 1)
    BY Z3T(30)
<1> HIDE DEF c, d, p, q
<1>3. CASE c + 1 = m
    <2>1. m * (p + 1) + 0 = m * q + d
        BY <1>1, <1>2, <1>3, Z3T(30)
    <2>2. d = 0
        BY <2>1, <1>1, <1>2, ModUnique, 0 \in 0..(m - 1)
    <2> QED
        BY <2>2, <1>1, <1>3 DEF c, d
<1>4. CASE c + 1 < m
    <2>1. m * p + (c + 1) = m * q + d
        BY <1>1, <1>2
    <2> QED
        BY <2>1, <1>1, <1>2, <1>4, ModUnique, Z3T(30) DEF c, d
<1> QED
    BY <1>1, <1>3, <1>4 DEF c

(* A counter that wraps at a multiple of m keeps its remainder by m.       *)
LEMMA ModWrap ==
    ASSUME NEW n \in Nat, NEW m \in Nat \ {0}, NEW k \in Nat \ {0}
    PROVE  (n % (m * k)) % m = n % m
<1> DEFINE w == m * k
           b == n % w
           a == n \div w
           f == b % m
           e == b \div m
           g == n % m
           h == n \div m
<1>1. w \in Nat \ {0}
    BY Z3T(30)
<1>2. n = w * a + b /\ a \in Nat /\ b \in Nat
    <2> HIDE DEF w
    <2> QED
        BY <1>1, Z3T(30)
<1>3. f \in 0..(m - 1) /\ b = m * e + f /\ e \in Nat
    <2>1. b \in Nat
        BY <1>2
    <2> HIDE DEF b
    <2> QED
        BY <2>1, Z3T(30)
<1>4. g \in 0..(m - 1) /\ n = m * h + g /\ h \in Nat
    BY Z3T(30)
<1> HIDE DEF a, b, e, f, g, h
<1>5. m * (k * a + e) + f = m * h + g /\ k * a + e \in Nat
    <2>1. k * a \in Nat
        BY <1>2, Z3T(30)
    <2>2. (m * k) * a = m * (k * a)
        BY <1>2, Z3T(30)
    <2>3. m * (k * a + e) = m * (k * a) + m * e
        BY <1>3, <2>1, Z3T(30)
    <2> QED
        BY <1>2, <1>3, <1>4, <2>1, <2>2, <2>3
<1>6. f = g
    BY <1>3, <1>4, <1>5, ModUnique
<1> QED
    BY <1>6 DEF b, f, g

(* Starting anywhere, m steps meet every remainder.                        *)
LEMMA ModCovers ==
    ASSUME NEW n \in Nat, NEW m \in Nat \ {0}, NEW s \in 0..(m - 1)
    PROVE  \E j \in 0..(m - 1) : (n + j) % m = s
<1> DEFINE p == n \div m
           c == n % m
           j == IF c <= s THEN s - c ELSE s - c + m
           q == (n + j) \div m
           d == (n + j) % m
           r == IF c <= s THEN p ELSE p + 1
<1>1. n = m * p + c /\ p \in Nat /\ c \in 0..(m - 1)
    BY Z3T(30)
<1> HIDE DEF p, c
<1>2. j \in 0..(m - 1)
    BY <1>1
<1>3. n + j = m * r + s /\ r \in Nat
    <2>1. m * (p + 1) = m * p + m
        BY <1>1, Z3T(30)
    <2> QED
        BY <1>1, <2>1
<1> HIDE DEF j, r
<1>4. n + j = m * q + d /\ q \in Nat /\ d \in 0..(m - 1)
    BY <1>2, Z3T(30)
<1> HIDE DEF q, d
<1>5. d = s
    BY <1>2, <1>3, <1>4, ModUnique
<1> QED
    BY <1>2, <1>5 DEF d

(* And no remainder twice.                                                 *)
LEMMA ModInjective ==
    ASSUME NEW n \in Nat, NEW m \in Nat \ {0},
           NEW c \in 0..(m - 1), NEW d \in 0..(m - 1), (n + c) % m = (n + d) % m
    PROVE  c = d
<1>1. ASSUME NEW a \in Nat
      PROVE  a = m * (a \div m) + (a % m) /\ a \div m \in Nat /\ a % m \in 0..(m - 1)
    BY Z3T(30)
<1> DEFINE p == (n + c) \div m
           q == (n + d) \div m
           r == (n + c) % m
<1>2. n + c = m * p + r /\ n + d = m * q + r /\ p \in Nat /\ q \in Nat /\ r \in Nat
    BY <1>1
<1> HIDE DEF p, q, r
<1>3. m * q + c = m * p + d
    <2>1. m * p \in Nat /\ m * q \in Nat
        BY <1>2, Z3T(30)
    <2> QED
        BY <1>2, <2>1
<1> QED
    BY <1>2, <1>3, ModUnique

-----------------------------------------------------------------------------
\* Place u lies on the way round from s to c.
Between(s, c, u) == IF s <= c THEN s <= u /\ u < c ELSE s <= u \/ u < c

\* Of n places, those from where the counter began its last round to where it is
\* now, c, had one turn more than the others.
Spread(turns, n, c) ==
    \E q \in Nat, s \in 0..(n - 1) : \A u \in 0..(n - 1) :
        turns[u] = IF Between(s, c, u) THEN q + 1 ELSE q

(* Before any pick the turns are spread, wherever the counter stands.      *)
LEMMA SpreadStart ==
    ASSUME NEW n \in Nat \ {0}, NEW c \in 0..(n - 1), NEW turns,
           \A u \in 0..(n - 1) : turns[u] = 0
    PROVE  Spread(turns, n, c)
<1>1. \A u \in 0..(n - 1) : ~Between(c, c, u)
    BY DEF Between
<1> QED
    BY <1>1 DEF Spread

(* The place the counter is at takes its turn, and the counter moves on.   *)
LEMMA SpreadNext ==
    ASSUME NEW n \in Nat \ {0}, NEW c \in 0..(n - 1), NEW before, NEW after,
           Spread(before, n, c),
           \A u \in 0..(n - 1) : after[u] = IF u = c THEN before[u] + 1 ELSE before[u]
    PROVE  Spread(after, n, IF c + 1 = n THEN 0 ELSE c + 1)
<1> DEFINE d == IF c + 1 = n THEN 0 ELSE c + 1
<1> SUFFICES Spread(after, n, d)
    OBVIOUS
<1>1. PICK q \in Nat, s \in 0..(n - 1) : \A u \in 0..(n - 1) :
          before[u] = IF Between(s, c, u) THEN q + 1 ELSE q
    BY DEF Spread
<1>2. CASE d = s
    <2>1. \A u \in 0..(n - 1) : Between(s, c, u) <=> u # c
        BY <1>2 DEF Between
    <2>2. \A u \in 0..(n - 1) : ~Between(s, d, u)
        BY <1>2 DEF Between
    <2>3. \A u \in 0..(n - 1) : after[u] = IF Between(s, d, u) THEN q + 2 ELSE q + 1
        BY <2>1, <2>2, <1>1
    <2> HIDE DEF d
    <2>4. q + 1 \in Nat /\ (q + 1) + 1 = q + 2
        OBVIOUS
    <2> QED
        BY <2>3, <2>4, ZenonT(60) DEF Spread
<1>3. CASE d # s
    <2>1. \A u \in 0..(n - 1) : Between(s, d, u) <=> Between(s, c, u) \/ u = c
        BY <1>3 DEF Between
    <2>2. ~Between(s, c, c)
        BY DEF Between
    <2>3. \A u \in 0..(n - 1) : after[u] = IF Between(s, d, u) THEN q + 1 ELSE q
        BY <2>1, <2>2, <1>1
    <2> HIDE DEF d
    <2> QED
        BY <2>3 DEF Spread
<1> HIDE DEF d
<1> QED
    BY <1>2, <1>3

(* Spread turns differ by at most one.                                     *)
LEMMA SpreadEven ==
    ASSUME NEW n \in Nat, NEW c, NEW turns, Spread(turns, n, c),
           NEW u \in 0..(n - 1), NEW v \in 0..(n - 1)
    PROVE  turns[u] <= turns[v] + 1
BY DEF Spread

-----------------------------------------------------------------------------
(* Every nonempty set of natural numbers has a least element.              *)
LEMMA LeastNatural ==
    ASSUME NEW T \in SUBSET Nat, T # {}
    PROVE  \E m \in T : \A k \in T : m <= k
<1> DEFINE R == OpToRel(<, Nat)
<1>1. IsWellFoundedOn(R, Nat)
    BY NatLessThanWellFounded, Zenon
<1>2. \A x, y \in Nat : <<x, y>> \in R <=> x < y
    BY DEF OpToRel
<1> HIDE DEF R
<1>3. PICK m \in T : \A y \in T : ~(<<y, m>> \in R)
    <2>1. T \subseteq Nat
        OBVIOUS
    <2> QED
        BY <1>1, <2>1, WFMin
<1>4. \A k \in T : ~(k < m)
    BY <1>2, <1>3
<1>5. \A k \in T : m <= k
    BY <1>4
<1> QED
    BY <1>5

(* Induction over the naturals, with a set in place of a predicate.        *)
LEMMA NatSetInduction ==
    ASSUME NEW G, 0 \in G, \A n \in Nat : n \in G => n + 1 \in G
    PROVE  \A n \in Nat : n \in G
<1> SUFFICES ASSUME Nat \ G # {} PROVE FALSE
    OBVIOUS
<1>1. PICK m \in Nat \ G : \A k \in Nat \ G : m <= k
    BY LeastNatural
<1>2. m # 0
    OBVIOUS
<1>3. m - 1 \in Nat /\ m - 1 \in G
    BY <1>1, <1>2
<1> QED
    BY <1>3, (m - 1) + 1 = m

(* Induction along the positions of a sequence, likewise.                  *)
LEMMA AlongInduction ==
    ASSUME NEW N \in Nat, NEW G, 0 \in G, \A n \in 1..N : n - 1 \in G => n \in G
    PROVE  \A n \in 0..N : n \in G
<1> DEFINE H == {n \in Nat : n <= N => n \in G}
<1>1. 0 \in H
    OBVIOUS
<1>2. ASSUME NEW n \in Nat, n \in H PROVE n + 1 \in H
    <2> SUFFICES ASSUME n + 1 <= N PROVE n + 1 \in G
        OBVIOUS
    <2>1. n + 1 \in 1..N /\ (n + 1) - 1 = n /\ n \in G
        BY <1>2
    <2> QED
        BY <2>1
<1> HIDE DEF H
<1>3. \A n \in Nat : n \in H
    BY <1>1, <1>2, NatSetInduction
<1> QED
    BY <1>3 DEF H

(* Induction over sequences, likewise.                                     *)
LEMMA SeqSetInduction ==
    ASSUME NEW S, NEW G, <<>> \in G,
           \A s \in Seq(S), x \in S : s \in G => Append(s, x) \in G
    PROVE  \A s \in Seq(S) : s \in G
<1> DEFINE H == {n \in Nat : \A s \in Seq(S) : Len(s) = n => s \in G}
<1>1. 0 \in H
    BY EmptySeq
<1>2. ASSUME NEW n \in Nat, n \in H PROVE n + 1 \in H
    <2> SUFFICES ASSUME NEW t \in Seq(S), Len(t) = n + 1 PROVE t \in G
        OBVIOUS
    <2>1. t # <<>>
        BY EmptySeq
    <2>2. PICK s \in Seq(S), x \in S : t = Append(s, x)
        BY <2>1, SequenceEmptyOrAppend
    <2>3. Len(s) = n
        BY <2>2, AppendProperties, LenProperties
    <2> QED
        BY <1>2, <2>2, <2>3
<1> HIDE DEF H
<1>3. \A n \in Nat : n \in H
    BY <1>1, <1>2, NatSetInduction
<1> QED
    BY <1>3, LenProperties DEF H

(* The largest of some positions, and of all of them.                     *)
LEMMA MaxIsMember ==
    ASSUME NEW n \in Nat, NEW T \in SUBSET (1..n), T # {}
    PROVE  Max(T) \in T /\ \A k \in T : k <= Max(T)
<1> DEFINE D == {d \in Nat : n - d \in T}
<1>1. \A k \in T : n - k \in D
    OBVIOUS
<1>2. PICK d \in D : \A e \in D : d <= e
    BY <1>1, LeastNatural, D \in SUBSET Nat
<1>3. n - d \in T /\ \A k \in T : n - d >= k
    BY <1>1, <1>2
<1> QED
    BY <1>3 DEF Max

(* The greatest of 1..n, and the range without it.                         *)
LEMMA MaxOfRange ==
    ASSUME NEW n \in Nat, n # 0
    PROVE  Max(1..n) = n /\ (1..n) \ {n} = 1..(n - 1)
<1>1. n \in 1..n /\ \A y \in 1..n : n >= y
    OBVIOUS
<1>2. \A m \in 1..n : (\A y \in 1..n : m >= y) => m = n
    BY <1>1
<1> QED
    BY <1>1, <1>2 DEF Max

\* f is the function by which the community modules define a fold over the
\* positions 1..N.
Table(f, N, base, step) ==
    f = [T \in SUBSET (1..N) |-> IF T = {} THEN base ELSE step[<<f[T \ {Max(T)}], Max(T)>>]]

(* There is one: without its largest position a set of them is smaller.    *)
LEMMA FoldExists ==
    ASSUME NEW N \in Nat, NEW V, NEW base \in V, NEW step \in [V \X (1..N) -> V]
    PROVE  \E f \in [SUBSET (1..N) -> V] : Table(f, N, base, step)
<1> DEFINE Eq(f, n) == \A T \in SUBSET (1..n) :
               f[T] = IF T = {} THEN base ELSE step[<<f[T \ {Max(T)}], Max(T)>>]
           Has(n) == \E f \in [SUBSET (1..n) -> V] : Eq(f, n)
           G == {n \in Nat : n <= N => Has(n)}
<1>1. 0 \in G
    <2>1. SUBSET (1..0) = {{}}
        OBVIOUS
    <2> DEFINE f == [T \in {{}} |-> base]
    <2>2. f \in [SUBSET (1..0) -> V] /\ Eq(f, 0)
        BY <2>1
    <2> QED
        BY <2>2
<1>2. ASSUME NEW n \in Nat, Has(n), n + 1 <= N PROVE Has(n + 1)
    <2>1. PICK g \in [SUBSET (1..n) -> V] : Eq(g, n)
        BY <1>2
    <2> DEFINE f == [T \in SUBSET (1..(n + 1)) |->
                        IF n + 1 \in T THEN step[<<g[T \ {n + 1}], n + 1>>] ELSE g[T]]
    <2>2. \A T \in SUBSET (1..(n + 1)) :
              /\ n + 1 \in T => T \ {n + 1} \in SUBSET (1..n)
              /\ n + 1 \notin T => T \in SUBSET (1..n)
        OBVIOUS
    <2>3. n + 1 \in 1..N
        BY <1>2
    <2>4. f \in [SUBSET (1..(n + 1)) -> V]
        BY <2>2, <2>3
    <2>5. ASSUME NEW T \in SUBSET (1..(n + 1)), n + 1 \in T
          PROVE  Max(T) = n + 1
        <3>1. \A y \in T : n + 1 >= y
            OBVIOUS
        <3>2. \A m \in T : (\A y \in T : m >= y) => m = n + 1
            BY <2>5, <3>1
        <3> QED
            BY <2>5, <3>1, <3>2 DEF Max
    <2>6. ASSUME NEW T \in SUBSET (1..n)
          PROVE  f[T] = g[T]
        OBVIOUS
    <2>7. ASSUME NEW T \in SUBSET (1..(n + 1))
          PROVE  f[T] = IF T = {} THEN base ELSE step[<<f[T \ {Max(T)}], Max(T)>>]
        <3>1. CASE n + 1 \in T
            BY <2>2, <2>5, <2>6, <3>1
        <3>2. CASE n + 1 \notin T
            <4>1. T \in SUBSET (1..n) /\ T \ {Max(T)} \in SUBSET (1..n)
                BY <2>2, <3>2
            <4>2. f[T] = g[T] /\ f[T \ {Max(T)}] = g[T \ {Max(T)}]
                BY <2>6, <4>1
            <4> QED
                BY <2>1, <4>1, <4>2
        <3> QED
            BY <3>1, <3>2
    <2> QED
        BY <2>4, <2>7
<1>3. N \in G
    <2> HIDE DEF Has
    <2>1. \A n \in Nat : n \in G => n + 1 \in G
        BY <1>2
    <2> HIDE DEF G
    <2> QED
        BY <1>1, <2>1, NatSetInduction
<1>4. Has(N)
    <2> HIDE DEF Has
    <2> QED
        BY <1>3
<1>5. PICK f \in [SUBSET (1..N) -> V] : Eq(f, N)
    BY <1>4
<1>6. Table(f, N, base, step)
    BY <1>5 DEF Table
<1> QED
    BY <1>6

\* F follows a fold along the positions 1..0, 1..1, 1..2 and so on.
Path(F, N, base, step) ==
    F[0] = base /\ \A n \in 1..N : F[n] = step[<<F[n - 1], n>>]

(* So a fold may be followed along the sequence, whatever it is given for  *)
(* sets of positions that are not an initial stretch.                      *)
LEMMA FoldAlong ==
    ASSUME NEW N \in Nat, NEW V, NEW base \in V, NEW step \in [V \X (1..N) -> V],
           NEW g, g[{}] = base,
           \A n \in 1..N : g[1..(n - 1)] \in V => g[1..n] = step[<<g[1..(n - 1)], n>>]
    PROVE  \E F \in [0..N -> V] : F[N] = g[1..N] /\ Path(F, N, base, step)
<1> DEFINE G == {n \in Nat : n <= N => g[1..n] \in V}
<1>1. 0 \in G
    BY 1..0 = {}
<1>2. ASSUME NEW n \in Nat, n \in G PROVE n + 1 \in G
    <2> SUFFICES ASSUME n + 1 <= N PROVE g[1..(n + 1)] \in V
        OBVIOUS
    <2>1. n + 1 \in 1..N /\ (n + 1) - 1 = n /\ n <= N
        OBVIOUS
    <2>2. g[1..n] \in V
        BY <1>2, <2>1
    <2>3. g[1..(n + 1)] = step[<<g[1..n], n + 1>>]
        BY <2>1, <2>2
    <2> QED
        BY <2>1, <2>2, <2>3
<1>3. \A n \in Nat : n \in G
    <2> HIDE DEF G
    <2> QED
        BY <1>1, <1>2, NatSetInduction
<1>4. \A n \in 0..N : g[1..n] \in V
    BY <1>3
<1> DEFINE F == [n \in 0..N |-> g[1..n]]
<1>5. F \in [0..N -> V]
    BY <1>4
<1>6. F[0] = base /\ F[N] = g[1..N]
    BY 1..0 = {}
<1>7. ASSUME NEW n \in 1..N PROVE F[n] = step[<<F[n - 1], n>>]
    <2>1. n \in 0..N /\ n - 1 \in 0..N
        OBVIOUS
    <2>2. F[n] = g[1..n] /\ F[n - 1] = g[1..(n - 1)]
        BY <2>1
    <2> QED
        BY <1>4, <2>1, <2>2
<1> HIDE DEF F
<1> QED
    BY <1>5, <1>6, <1>7 DEF Path

-----------------------------------------------------------------------------
(* A function on 1..n is a sequence.                                       *)
LEMMA FunctionIsSeq ==
    ASSUME NEW n \in Nat, NEW S, NEW f \in [1..n -> S]
    PROVE  f \in Seq(S) /\ Len(f) = n /\ DOMAIN f = 1..n
<1>1. f \in Seq(S)
    BY SeqDef
<1> QED
    BY <1>1, LenProperties

(* A sequence is one over its own elements.                                *)
LEMMA SeqOfToSet ==
    ASSUME NEW S, NEW s \in Seq(S)
    PROVE  s \in Seq(ToSet(s))
<1>1. Len(s) \in Nat /\ DOMAIN s = 1..Len(s) /\ s \in [1..Len(s) -> S]
    BY LenProperties
<1>2. s \in [1..Len(s) -> ToSet(s)]
    BY <1>1 DEF ToSet
<1> QED
    BY <1>1, <1>2, FunctionIsSeq

(* The elements of a longer sequence.                                      *)
LEMMA ToSetOfAppend ==
    ASSUME NEW S, NEW s \in Seq(S), NEW x \in S
    PROVE  ToSet(Append(s, x)) = ToSet(s) \cup {x}
BY AppendProperties, LenProperties DEF ToSet

(* The elements of a concatenation.                                        *)
LEMMA ToSetOfConcat ==
    ASSUME NEW S, NEW s \in Seq(S), NEW t \in Seq(S)
    PROVE  ToSet(s \o t) = ToSet(s) \cup ToSet(t)
<1>1. s \o t \in Seq(S) /\ \A i \in 1..Len(s) + Len(t) :
          (s \o t)[i] = IF i <= Len(s) THEN s[i] ELSE t[i - Len(s)]
    BY ConcatProperties
<1>2. Len(s) \in Nat /\ Len(t) \in Nat /\ Len(s \o t) = Len(s) + Len(t)
    BY LenProperties, ConcatProperties
<1>3. DOMAIN s = 1..Len(s) /\ DOMAIN t = 1..Len(t) /\ DOMAIN (s \o t) = 1..(Len(s) + Len(t))
    BY <1>1, <1>2, LenProperties
<1>4. \A i \in 1..Len(s) : i \in 1..(Len(s) + Len(t)) /\ (s \o t)[i] = s[i]
    BY <1>1, <1>2
<1>5. \A i \in 1..Len(t) : Len(s) + i \in 1..(Len(s) + Len(t)) /\ (s \o t)[Len(s) + i] = t[i]
    BY <1>1, <1>2
<1>6. \A i \in 1..(Len(s) + Len(t)) :
          \/ i \in 1..Len(s) /\ (s \o t)[i] = s[i]
          \/ i - Len(s) \in 1..Len(t) /\ (s \o t)[i] = t[i - Len(s)]
    BY <1>1, <1>2
<1>7. ToSet(s \o t) \subseteq ToSet(s) \cup ToSet(t)
    BY <1>3, <1>6 DEF ToSet
<1>8. ToSet(s) \cup ToSet(t) \subseteq ToSet(s \o t)
    BY <1>3, <1>4, <1>5 DEF ToSet
<1> QED
    BY <1>7, <1>8

(* Adding an element at the end goes with putting sequences in a row.      *)
LEMMA ConcatAppend ==
    ASSUME NEW S, NEW s \in Seq(S), NEW t \in Seq(S), NEW x \in S
    PROVE  s \o Append(t, x) = Append(s \o t, x)
<1>1. Append(t, x) = t \o <<x>> /\ Append(s \o t, x) = (s \o t) \o <<x>>
    BY AppendIsConcat, ConcatProperties
<1>2. <<x>> \in Seq(S)
    OBVIOUS
<1> QED
    BY <1>1, <1>2, ConcatAssociative

(* The sequence of one element.                                            *)
LEMMA OneElement ==
    ASSUME NEW e, NEW r, r = <<e>> PROVE r[1] = e /\ r # <<>> /\ Len(r) = 1
OBVIOUS

(* Contains and ToSet speak of the same elements.                          *)
LEMMA ContainsMember ==
    ASSUME NEW S, NEW s \in Seq(S), NEW e PROVE Contains(s, e) <=> e \in ToSet(s)
BY LenProperties DEF Contains, ToSet

(* A sequence is an initial stretch of itself; of two sequences one is an  *)
(* initial stretch of the other if it is element by element, and only then. *)
LEMMA PrefixOfItself == ASSUME NEW S, NEW s \in Seq(S) PROVE IsPrefix(s, s)
BY LenProperties DEF IsPrefix

(* A sequence that agrees with a longer one at every place is its prefix.  *)
LEMMA PrefixByElement ==
    ASSUME NEW S, NEW s \in Seq(S), NEW t \in Seq(S), Len(s) <= Len(t),
           \A i \in 1..Len(s) : s[i] = t[i]
    PROVE  IsPrefix(s, t)
<1>1. Len(s) \in Nat /\ Len(t) \in Nat
    BY LenProperties
<1>2. \A i \in 1..Len(s) : s[i] \in S /\ t[i] \in S
    BY <1>1, LenProperties
<1> DEFINE a == SubSeq(s, 1, Len(s))
           b == SubSeq(t, 1, Len(s))
           N == Len(s)
<1>3. /\ a \in Seq(S) /\ Len(a) = (IF 1 <= N THEN N - 1 + 1 ELSE 0)
      /\ \A i \in 1..(N - 1 + 1) : a[i] = s[1 + i - 1]
    BY <1>1, <1>2, SubSeqProperties
<1>4. /\ b \in Seq(S) /\ Len(b) = (IF 1 <= N THEN N - 1 + 1 ELSE 0)
      /\ \A i \in 1..(N - 1 + 1) : b[i] = t[1 + i - 1]
    BY <1>1, <1>2, SubSeqProperties
<1> HIDE DEF a, b, N
<1>5. N \in Nat /\ N - 1 + 1 = N /\ \A i \in 1..N : 1 + i - 1 = i
    BY <1>1 DEF N
<1>6. Len(a) = N /\ Len(b) = N /\ \A i \in 1..N : a[i] = b[i]
    BY <1>3, <1>4, <1>5 DEF N
<1>7. a = b
    BY <1>3, <1>4, <1>6, SeqEqual
<1> QED
    BY <1>7 DEF IsPrefix, a, b

(* A prefix agrees with the whole at every place it has.                   *)
LEMMA PrefixElements ==
    ASSUME NEW S, NEW s \in Seq(S), NEW t \in Seq(S), IsPrefix(s, t), NEW k \in 1..Len(s)
    PROVE  s[k] = t[k]
<1>1. Len(s) \in Nat /\ Len(t) \in Nat /\ Len(s) <= Len(t) /\ SubSeq(t, 1, Len(s)) = s
    BY LenProperties, SubSeqFull DEF IsPrefix
<1>2. \A i \in 1..Len(s) : t[i] \in S
    BY <1>1, LenProperties
<1>3. \A i \in 1..(Len(s) - 1 + 1) : SubSeq(t, 1, Len(s))[i] = t[1 + i - 1]
    BY <1>1, <1>2, SubSeqProperties
<1>4. k \in 1..(Len(s) - 1 + 1) /\ 1 + k - 1 = k
    BY <1>1
<1> QED
    BY <1>1, <1>3, <1>4

(* What is added at the end leaves the stretches before it as they were.   *)
LEMMA SubSeqOfAppend ==
    ASSUME NEW S, NEW s \in Seq(S), NEW x \in S, NEW n \in 0..Len(s)
    PROVE  SubSeq(Append(s, x), 1, n) = SubSeq(s, 1, n)
<1>1. Len(s) \in Nat
    BY LenProperties
<1>2. CASE n = 0
    BY <1>2, SubSeqEmpty
<1>3. CASE n # 0
    <2>1. Append(s, x) = s \o <<x>> /\ <<x>> \in Seq(S)
        BY AppendIsConcat
    <2>2. 1 \in 1..Len(s) /\ n \in 1..Len(s)
        BY <1>1, <1>3
    <2> QED
        BY <2>1, <2>2, SubSeqOfConcat1
<1> QED
    BY <1>2, <1>3

(* The last and the first element of a sequence one longer.                *)
LEMMA EndsOfAppend ==
    ASSUME NEW S, NEW u \in Seq(S), NEW x \in S
    PROVE  /\ Append(u, x) # <<>> /\ Last(Append(u, x)) = x
           /\ Head(Append(u, x)) = IF u = <<>> THEN x ELSE Head(u)
<1>1. /\ Len(u) \in Nat /\ Append(u, x) \in Seq(S) /\ Append(u, x) # <<>>
      /\ Len(Append(u, x)) = Len(u) + 1 /\ Append(u, x)[Len(u) + 1] = x
      /\ \A i \in 1..Len(u) : Append(u, x)[i] = u[i]
    BY AppendProperties, LenProperties
<1>2. Last(Append(u, x)) = x
    BY <1>1 DEF Last
<1>3. \A w \in Seq(S) : Head(w) = w[1]
    OBVIOUS
<1>4. CASE u = <<>>
    BY <1>1, <1>2, <1>3, <1>4, EmptySeq
<1>5. CASE u # <<>>
    <2>1. 1 \in 1..Len(u)
        BY <1>1, <1>5, EmptySeq
    <2> QED
        BY <1>1, <1>2, <1>3, <1>5, <2>1
<1> QED
    BY <1>4, <1>5

\* Every step of F leaves the sequence alone or adds one element.
Grows(F, N, S) ==
    \A n \in 1..N : F[n] = F[n - 1] \/ \E x \in S : F[n] = Append(F[n - 1], x)

(* So it extends what it began with.                                       *)
LEMMA GrowsByPrefix ==
    ASSUME NEW N \in Nat, NEW S, NEW F \in [0..N -> Seq(S)], Grows(F, N, S)
    PROVE  \A n \in 0..N : Len(F[0]) <= Len(F[n]) /\ \A i \in 1..Len(F[0]) : F[n][i] = F[0][i]
<1> DEFINE Ok(n) == Len(F[0]) <= Len(F[n]) /\ \A i \in 1..Len(F[0]) : F[n][i] = F[0][i]
           G == {n \in Nat : n <= N => Ok(n)}
<1>0. \A n \in 0..N : F[n] \in Seq(S) /\ Len(F[n]) \in Nat
    BY LenProperties
<1>1. 0 \in G
    BY <1>0
<1>2. ASSUME NEW n \in Nat, n \in G PROVE n + 1 \in G
    <2> SUFFICES ASSUME n + 1 <= N PROVE Ok(n + 1)
        OBVIOUS
    <2>1. n + 1 \in 1..N /\ (n + 1) - 1 = n /\ n \in 0..N /\ n + 1 \in 0..N /\ 0 \in 0..N
        OBVIOUS
    <2>2. Ok(n)
        BY <1>2, <2>1
    <2>5. F[n + 1] = F[n] \/ \E x \in S : F[n + 1] = Append(F[n], x)
        <3> HIDE DEF G, Ok
        <3>1. F[n + 1] = F[(n + 1) - 1] \/ \E x \in S : F[n + 1] = Append(F[(n + 1) - 1], x)
            BY <2>1 DEF Grows
        <3> QED
            BY <2>1, <3>1
    <2>3. CASE F[n + 1] = F[n]
        BY <2>2, <2>3
    <2>4. ASSUME NEW x \in S, F[n + 1] = Append(F[n], x) PROVE Ok(n + 1)
        <3>1. /\ Len(F[n + 1]) = Len(F[n]) + 1
              /\ \A i \in 1..Len(F[n]) : F[n + 1][i] = F[n][i]
            BY <1>0, <2>1, <2>4, AppendProperties
        <3>2. Len(F[0]) \in Nat /\ Len(F[n]) \in Nat
            BY <1>0, <2>1
        <3> QED
            BY <2>2, <3>1, <3>2
    <2> QED
        BY <2>3, <2>4, <2>5
<1>3. \A n \in Nat : n \in G
    <2> HIDE DEF G
    <2> QED
        BY <1>1, <1>2, NatSetInduction
<1> QED
    BY <1>3

-----------------------------------------------------------------------------
\* F follows Only along the sequence: what is kept of each of its prefixes.
Picks(F, s, K) ==
    /\ F[0] = <<>> /\ F[Len(s)] = Only(s, K)
    /\ \A n \in 1..Len(s) : F[n] = IF s[n] \in K THEN Append(F[n - 1], s[n]) ELSE F[n - 1]

(* Only decides element by element.                                        *)
LEMMA OnlySteps ==
    ASSUME NEW S, NEW s \in Seq(S), NEW K
    PROVE  \E F \in [0..Len(s) -> Seq(S)] : Picks(F, s, K)
<1> DEFINE N == Len(s)
           V == Seq(S)
           base == <<>>
           Take(out, x) == IF x \in K THEN Append(out, x) ELSE out
           step == [p \in V \X (1..N) |-> Take(p[1], s[p[2]])]
           IsFold(f) == f = [T \in SUBSET (1..N) |->
               IF T = {} THEN base ELSE Take(f[T \ {Max(T)}], s[Max(T)])]
           g == CHOOSE f : IsFold(f)
<1>1. N \in Nat /\ DOMAIN s = 1..N /\ \A n \in 1..N : s[n] \in S
    BY LenProperties
<1>2. base \in V /\ step \in [V \X (1..N) -> V]
    BY <1>1
<1>3. IsFold(g)
    <2>1. PICK f \in [SUBSET (1..N) -> V] : Table(f, N, base, step)
        <3> HIDE DEF step, N, V, base
        <3> QED
            BY <1>1, <1>2, FoldExists
    <2>2. ASSUME NEW T \in SUBSET (1..N), T # {}
          PROVE  step[<<f[T \ {Max(T)}], Max(T)>>] = Take(f[T \ {Max(T)}], s[Max(T)])
        <3>1. Max(T) \in T
            BY <1>1, <2>2, MaxIsMember
        <3> QED
            BY <2>1, <3>1
    <2>3. IsFold(f)
        BY <2>1, <2>2 DEF Table
    <2> HIDE DEF IsFold
    <2> QED
        BY <2>3
<1>4. Only(s, K) = g[1..N]
    BY <1>1, Zenon DEF Only, FoldLeft, MapThenFoldSet
<1>5. g[{}] = base
    BY <1>3
<1>6. ASSUME NEW n \in 1..N PROVE g[1..n] = Take(g[1..(n - 1)], s[n])
    <2>1. 1..n \in SUBSET (1..N) /\ 1..n # {} /\ Max(1..n) = n /\ (1..n) \ {n} = 1..(n - 1)
        BY <1>1, MaxOfRange
    <2> HIDE DEF g, Take, N
    <2> QED
        BY <1>3, <2>1
<1>7. ASSUME NEW n \in 1..N, NEW a \in V PROVE step[<<a, n>>] = Take(a, s[n])
    OBVIOUS
<1> HIDE DEF g, Take, N, step, V, base
<1>8. PICK F \in [0..N -> V] : F[N] = g[1..N] /\ Path(F, N, base, step)
    <2>1. \A n \in 1..N : g[1..(n - 1)] \in V => g[1..n] = step[<<g[1..(n - 1)], n>>]
        BY <1>6, <1>7
    <2>2. N \in Nat /\ base \in V /\ step \in [V \X (1..N) -> V] /\ g[{}] = base
        BY <1>1, <1>2, <1>5
    <2> QED
        BY <2>1, <2>2, FoldAlong, ZenonT(60)
<1>9. \A n \in 1..N : F[n] = Take(F[n - 1], s[n])
    <2> SUFFICES ASSUME NEW n \in 1..N PROVE F[n] = Take(F[n - 1], s[n])
        OBVIOUS
    <2>1. n - 1 \in 0..N
        BY <1>1
    <2>2. F[n - 1] \in V
        BY <2>1
    <2> QED
        BY <2>2, <1>7, <1>8 DEF Path
<1> QED
    BY <1>4, <1>8, <1>9 DEF Picks, Path, Take, N, V, base

(* The copy of an empty slice is empty; a copy has the elements of the     *)
(* slice; one more element is copied or not.                               *)
LEMMA OnlyOfNone ==
    ASSUME NEW K PROVE Only(<<>>, K) = <<>>
<1> DEFINE s == <<>>
<1>1. s \in Seq({}) /\ Len(s) = 0
    BY EmptySeq
<1> HIDE DEF s
<1>2. PICK F \in [0..Len(s) -> Seq({})] : Picks(F, s, K)
    BY <1>1, OnlySteps
<1> QED
    BY <1>1, <1>2 DEF Picks, s

(* Filtering keeps the type of a sequence.                                 *)
LEMMA OnlyType ==
    ASSUME NEW S, NEW s \in Seq(S), NEW K PROVE Only(s, K) \in Seq(S)
BY OnlySteps, LenProperties DEF Picks

(* Filtering a sequence with one more element.                             *)
LEMMA OnlyOfAppend ==
    ASSUME NEW S, NEW s \in Seq(S), NEW x \in S, NEW K
    PROVE  Only(Append(s, x), K) = IF x \in K THEN Append(Only(s, K), x) ELSE Only(s, K)
<1> DEFINE t == Append(s, x)
           N == Len(s)
<1>1. /\ t \in Seq(S) /\ N \in Nat /\ Len(t) = N + 1
      /\ t[N + 1] = x /\ \A n \in 1..N : t[n] = s[n]
    BY AppendProperties, LenProperties
<1> HIDE DEF t, N
<1>2. PICK F : Picks(F, s, K)
    BY OnlySteps
<1>3. PICK E : Picks(E, t, K)
    BY <1>1, OnlySteps
<1> USE DEF Picks
<1>4. E[N] = F[N]
    <2> DEFINE G == {n \in Nat : n <= N => E[n] = F[n]}
    <2>1. 0 \in G
        BY <1>2, <1>3
    <2>2. ASSUME NEW n \in Nat, n \in G PROVE n + 1 \in G
        <3> SUFFICES ASSUME n + 1 <= N PROVE E[n + 1] = F[n + 1]
            OBVIOUS
        <3>1. n + 1 \in 1..N /\ n + 1 \in 1..(N + 1) /\ (n + 1) - 1 = n /\ E[n] = F[n]
            BY <1>1, <2>2
        <3> QED
            BY <1>1, <1>2, <1>3, <3>1 DEF N
    <2>3. \A n \in Nat : n \in G
        <3> HIDE DEF G
        <3> QED
            BY <2>1, <2>2, NatSetInduction
    <2> QED
        BY <1>1, <2>3
<1>5. E[N + 1] = IF t[N + 1] \in K THEN Append(E[N], t[N + 1]) ELSE E[N]
    BY <1>1, <1>3, N + 1 \in 1..(N + 1), (N + 1) - 1 = N
<1> QED
    BY <1>1, <1>2, <1>3, <1>4, <1>5 DEF t, N

(* What is kept is what was there and is asked for.                        *)
LEMMA OnlySet ==
    ASSUME NEW S, NEW K
    PROVE  \A s \in Seq(S) : ToSet(Only(s, K)) = ToSet(s) \cap K
<1> DEFINE G == {s \in Seq(S) : ToSet(Only(s, K)) = ToSet(s) \cap K}
<1>1. <<>> \in G
    BY OnlyOfNone, EmptySeq DEF ToSet
<1>2. ASSUME NEW s \in Seq(S), NEW x \in S, s \in G PROVE Append(s, x) \in G
    <2>1. Only(s, K) \in Seq(S)
        BY OnlyType
    <2>2. ToSet(Append(s, x)) = ToSet(s) \cup {x}
        BY ToSetOfAppend
    <2>3. ToSet(Append(Only(s, K), x)) = ToSet(Only(s, K)) \cup {x}
        BY <2>1, ToSetOfAppend
    <2>4. Only(Append(s, x), K) = IF x \in K THEN Append(Only(s, K), x) ELSE Only(s, K)
        BY OnlyOfAppend
    <2>5. Append(s, x) \in Seq(S) /\ ToSet(Only(s, K)) = ToSet(s) \cap K
        BY <1>2, AppendProperties
    <2>6. ToSet(Only(Append(s, x), K)) = ToSet(Append(s, x)) \cap K
        BY <2>2, <2>3, <2>4, <2>5
    <2> QED
        BY <2>5, <2>6
<1> HIDE DEF G
<1>3. \A s \in Seq(S) : s \in G
    BY <1>1, <1>2, SeqSetInduction
<1> QED
    BY <1>3 DEF G

(* Only of two sequences in a row.                                         *)
LEMMA OnlyOfConcat ==
    ASSUME NEW S, NEW K, NEW s \in Seq(S)
    PROVE  \A t \in Seq(S) : Only(s \o t, K) = Only(s, K) \o Only(t, K)
<1> DEFINE G == {t \in Seq(S) : Only(s \o t, K) = Only(s, K) \o Only(t, K)}
<1>1. <<>> \in G
    BY OnlyOfNone, OnlyType, EmptySeq, ConcatEmptySeq
<1>2. ASSUME NEW t \in Seq(S), NEW x \in S, t \in G PROVE Append(t, x) \in G
    <2>1. s \o Append(t, x) = Append(s \o t, x) /\ s \o t \in Seq(S)
        BY ConcatAppend, ConcatProperties
    <2>2. Only(s, K) \in Seq(S) /\ Only(t, K) \in Seq(S)
        BY OnlyType
    <2>3. Only(s, K) \o Append(Only(t, K), x) = Append(Only(s, K) \o Only(t, K), x)
        BY <2>2, ConcatAppend
    <2>4. \A u \in Seq(S) :
              Only(Append(u, x), K) = IF x \in K THEN Append(Only(u, K), x) ELSE Only(u, K)
        BY OnlyOfAppend
    <2>5. Append(t, x) \in Seq(S) /\ Only(s \o t, K) = Only(s, K) \o Only(t, K)
        BY <1>2, AppendProperties
    <2>6. Only(s \o Append(t, x), K) = Only(s, K) \o Only(Append(t, x), K)
        BY <2>1, <2>3, <2>4, <2>5
    <2> QED
        BY <2>5, <2>6
<1> HIDE DEF G
<1>3. \A t \in Seq(S) : t \in G
    BY <1>1, <1>2, SeqSetInduction
<1> QED
    BY <1>3 DEF G

(* Only looks at no more than the elements of the sequence.                *)
LEMMA OnlySame ==
    ASSUME NEW S, NEW K, NEW L
    PROVE  \A s \in Seq(S) : ToSet(s) \cap K = ToSet(s) \cap L => Only(s, K) = Only(s, L)
<1> DEFINE G == {s \in Seq(S) : ToSet(s) \cap K = ToSet(s) \cap L => Only(s, K) = Only(s, L)}
<1>1. <<>> \in G
    BY OnlyOfNone, EmptySeq
<1>2. ASSUME NEW s \in Seq(S), NEW x \in S, s \in G PROVE Append(s, x) \in G
    <2> SUFFICES ASSUME ToSet(Append(s, x)) \cap K = ToSet(Append(s, x)) \cap L
                 PROVE  Only(Append(s, x), K) = Only(Append(s, x), L)
        BY AppendProperties
    <2>1. ToSet(Append(s, x)) = ToSet(s) \cup {x}
        BY ToSetOfAppend
    <2>2. ToSet(s) \cap K = ToSet(s) \cap L /\ (x \in K <=> x \in L)
        BY <2>1
    <2>3. Only(s, K) = Only(s, L)
        BY <1>2, <2>2
    <2>4. \A M : Only(Append(s, x), M) = IF x \in M THEN Append(Only(s, M), x) ELSE Only(s, M)
        BY OnlyOfAppend
    <2> QED
        BY <2>2, <2>3, <2>4
<1> HIDE DEF G
<1>3. \A s \in Seq(S) : s \in G
    BY <1>1, <1>2, SeqSetInduction
<1> QED
    BY <1>3 DEF G

(* Copying twice copies what both copies would.                            *)
LEMMA OnlyOfOnly ==
    ASSUME NEW S, NEW K, NEW L
    PROVE  \A s \in Seq(S) : Only(Only(s, K), L) = Only(s, K \cap L)
<1> DEFINE G == {s \in Seq(S) : Only(Only(s, K), L) = Only(s, K \cap L)}
<1>1. <<>> \in G
    BY OnlyOfNone, EmptySeq
<1>2. ASSUME NEW s \in Seq(S), NEW x \in S, s \in G PROVE Append(s, x) \in G
    <2>1. Only(s, K) \in Seq(S) /\ Append(s, x) \in Seq(S)
        BY OnlyType, AppendProperties
    <2>2. \A u \in Seq(S) : \A M :
              Only(Append(u, x), M) = IF x \in M THEN Append(Only(u, M), x) ELSE Only(u, M)
        BY OnlyOfAppend
    <2>3. Only(Append(Only(s, K), x), L) =
              IF x \in L THEN Append(Only(s, K \cap L), x) ELSE Only(s, K \cap L)
        BY <1>2, <2>1, <2>2
    <2>4. Only(Append(s, x), K) = IF x \in K THEN Append(Only(s, K), x) ELSE Only(s, K)
        BY <2>2
    <2>5. Only(Append(s, x), K \cap L) =
              IF x \in K \cap L THEN Append(Only(s, K \cap L), x) ELSE Only(s, K \cap L)
        BY <2>2
    <2>6. Only(Only(s, K), L) = Only(s, K \cap L)
        BY <1>2
    <2>7. Only(Only(Append(s, x), K), L) = Only(Append(s, x), K \cap L)
        <3>1. CASE x \in K
            <4>1. Only(Append(s, x), K) = Append(Only(s, K), x)
                BY <2>4, <3>1
            <4>2. x \in K \cap L <=> x \in L
                BY <3>1
            <4> QED
                BY <2>3, <2>5, <4>1, <4>2, Zenon
        <3>2. CASE x \notin K
            BY <2>4, <2>5, <2>6, <3>2
        <3> QED
            BY <3>1, <3>2
    <2> QED
        BY <2>1, <2>7
<1> HIDE DEF G
<1>3. \A s \in Seq(S) : s \in G
    BY <1>1, <1>2, SeqSetInduction
<1> QED
    BY <1>3 DEF G

(* A copy of everything is the slice, of nothing is empty.                 *)
LEMMA OnlyAll ==
    ASSUME NEW S, NEW K
    PROVE  \A s \in Seq(S) : ToSet(s) \subseteq K => Only(s, K) = s
<1> DEFINE G == {s \in Seq(S) : ToSet(s) \subseteq K => Only(s, K) = s}
<1>1. <<>> \in G
    BY OnlyOfNone, EmptySeq
<1>2. ASSUME NEW s \in Seq(S), NEW x \in S, s \in G PROVE Append(s, x) \in G
    <2>1. ToSet(Append(s, x)) = ToSet(s) \cup {x} /\ Append(s, x) \in Seq(S)
        BY ToSetOfAppend, AppendProperties
    <2>2. Only(Append(s, x), K) = IF x \in K THEN Append(Only(s, K), x) ELSE Only(s, K)
        BY OnlyOfAppend
    <2> QED
        BY <1>2, <2>1, <2>2
<1> HIDE DEF G
<1>3. \A s \in Seq(S) : s \in G
    BY <1>1, <1>2, SeqSetInduction
<1> QED
    BY <1>3 DEF G

(* Filtering for kinds a sequence does not have leaves nothing.            *)
LEMMA OnlyNothing ==
    ASSUME NEW S, NEW s \in Seq(S), NEW K, ToSet(s) \cap K = {}
    PROVE  Only(s, K) = <<>>
<1> DEFINE u == Only(s, K)
<1>1. ToSet(u) = {} /\ u \in Seq(S)
    BY OnlySet, OnlyType
<1> HIDE DEF u
<1>2. Len(u) \in Nat /\ DOMAIN u = 1..Len(u)
    BY <1>1, LenProperties
<1>3. 1 \notin DOMAIN u
    BY <1>1 DEF ToSet
<1> QED
    BY <1>1, <1>2, <1>3, EmptySeq DEF u

\* No element twice.
Distinct(s) == \A i, j \in DOMAIN s : s[i] = s[j] => i = j

(* A slice one longer repeats nothing if the shorter one did not and the   *)
(* element is new; nor does a copy of a slice that does not.               *)
LEMMA DistinctAppend ==
    ASSUME NEW S, NEW s \in Seq(S), NEW x \in S
    PROVE  Distinct(Append(s, x)) <=> Distinct(s) /\ x \notin ToSet(s)
<1>1. /\ Len(s) \in Nat /\ DOMAIN s = 1..Len(s) /\ DOMAIN Append(s, x) = 1..(Len(s) + 1)
      /\ Append(s, x)[Len(s) + 1] = x
      /\ \A i \in 1..Len(s) : Append(s, x)[i] = s[i]
    BY AppendProperties, LenProperties
<1> DEFINE t == Append(s, x)
           N == Len(s)
<1> HIDE DEF t, N
<1>2. ASSUME Distinct(t) PROVE Distinct(s) /\ x \notin ToSet(s)
    <2>1. \A i \in 1..N : i \in 1..(N + 1) /\ i # N + 1 /\ t[i] = s[i]
        BY <1>1 DEF t, N
    <2> QED
        BY <1>1, <1>2, <2>1 DEF Distinct, ToSet, t, N
<1>3. ASSUME Distinct(s), x \notin ToSet(s) PROVE Distinct(t)
    <2> SUFFICES ASSUME NEW i \in 1..(N + 1), NEW j \in 1..(N + 1), t[i] = t[j] PROVE i = j
        BY <1>1 DEF Distinct, t, N
    <2>1. \A m \in 1..N : t[m] = s[m] /\ t[m] # x
        BY <1>1, <1>3 DEF ToSet, t, N
    <2>2. t[N + 1] = x /\ N \in Nat
        BY <1>1 DEF t, N
    <2>3. CASE i \in 1..N /\ j \in 1..N
        BY <1>1, <1>3, <2>1, <2>3 DEF Distinct, N
    <2>4. CASE i = N + 1 \/ j = N + 1
        BY <2>1, <2>2, <2>4
    <2> QED
        BY <2>2, <2>3, <2>4
<1> QED
    BY <1>2, <1>3 DEF t

(* Filtering keeps the elements of a sequence distinct.                    *)
LEMMA DistinctOnly ==
    ASSUME NEW S, NEW K
    PROVE  \A s \in Seq(S) : Distinct(s) => Distinct(Only(s, K))
<1> DEFINE G == {s \in Seq(S) : Distinct(s) => Distinct(Only(s, K))}
<1>1. <<>> \in G
    BY OnlyOfNone, EmptySeq
<1>2. ASSUME NEW s \in Seq(S), NEW x \in S, s \in G PROVE Append(s, x) \in G
    <2> SUFFICES ASSUME Distinct(Append(s, x)) PROVE Distinct(Only(Append(s, x), K))
        BY AppendProperties
    <2>1. Distinct(s) /\ x \notin ToSet(s)
        BY DistinctAppend
    <2>2. Distinct(Only(s, K)) /\ x \notin ToSet(Only(s, K)) /\ Only(s, K) \in Seq(S)
        BY <1>2, <2>1, OnlySet, OnlyType
    <2>3. Distinct(Append(Only(s, K), x))
        BY <2>2, DistinctAppend
    <2> QED
        BY <2>2, <2>3, OnlyOfAppend
<1> HIDE DEF G
<1>3. \A s \in Seq(S) : s \in G
    BY <1>1, <1>2, SeqSetInduction
<1> QED
    BY <1>3 DEF G

(* Two slices that repeat nothing in a row have nothing in common.         *)
LEMMA DistinctConcat ==
    ASSUME NEW S, NEW s \in Seq(S), NEW t \in Seq(S), Distinct(s \o t)
    PROVE  ToSet(s) \cap ToSet(t) = {} /\ Distinct(s)
<1>1. /\ Len(s) \in Nat /\ Len(t) \in Nat /\ DOMAIN s = 1..Len(s) /\ DOMAIN t = 1..Len(t)
      /\ s \o t \in Seq(S) /\ Len(s \o t) = Len(s) + Len(t)
      /\ \A i \in 1..(Len(s) + Len(t)) :
             (s \o t)[i] = IF i <= Len(s) THEN s[i] ELSE t[i - Len(s)]
    BY ConcatProperties, LenProperties
<1>2. DOMAIN (s \o t) = 1..(Len(s) + Len(t))
    BY <1>1, LenProperties
<1>3. ASSUME NEW i \in 1..Len(s), NEW j \in 1..Len(t) PROVE s[i] # t[j]
    <2>1. i \in 1..(Len(s) + Len(t)) /\ Len(s) + j \in 1..(Len(s) + Len(t)) /\ i # Len(s) + j
        BY <1>1
    <2>2. (s \o t)[i] = s[i] /\ (s \o t)[Len(s) + j] = t[j]
        BY <1>1, <2>1
    <2> QED
        BY <1>2, <2>1, <2>2 DEF Distinct
<1>4. ASSUME NEW i \in 1..Len(s), NEW j \in 1..Len(s), s[i] = s[j] PROVE i = j
    <2>1. i \in 1..(Len(s) + Len(t)) /\ j \in 1..(Len(s) + Len(t))
        BY <1>1
    <2>2. (s \o t)[i] = s[i] /\ (s \o t)[j] = s[j]
        BY <1>1, <2>1
    <2> QED
        BY <1>2, <1>4, <2>1, <2>2 DEF Distinct
<1>5. Distinct(s)
    BY <1>1, <1>4 DEF Distinct
<1> QED
    BY <1>1, <1>3, <1>5 DEF ToSet

(* A list that only gets elements it does not have repeats nothing.        *)
LEMMA DistinctGrows ==
    ASSUME NEW N \in Nat, NEW S, NEW F \in [0..N -> Seq(S)], Distinct(F[0]),
           \A n \in 1..N : \/ F[n] = F[n - 1]
                           \/ \E x \in S : x \notin ToSet(F[n - 1]) /\ F[n] = Append(F[n - 1], x)
    PROVE  Distinct(F[N])
<1> DEFINE G == {n \in 0..N : Distinct(F[n])}
<1>1. 0 \in G
    OBVIOUS
<1>2. ASSUME NEW n \in 1..N, n - 1 \in G PROVE n \in G
    <2>1. F[n - 1] \in Seq(S) /\ Distinct(F[n - 1])
        BY <1>2
    <2>2. CASE F[n] = F[n - 1]
        BY <2>1, <2>2
    <2>3. ASSUME NEW x \in S, x \notin ToSet(F[n - 1]), F[n] = Append(F[n - 1], x)
          PROVE  Distinct(F[n])
        BY <2>1, <2>3, DistinctAppend
    <2> QED
        BY <2>2, <2>3
<1> HIDE DEF G
<1>3. \A n \in 0..N : n \in G
    BY <1>1, <1>2, AlongInduction
<1> QED
    BY <1>3 DEF G

(* Such a list is as long as it has elements.                              *)
LEMMA DistinctCount ==
    ASSUME NEW S
    PROVE  \A s \in Seq(S) : Distinct(s) => /\ IsFiniteSet(ToSet(s))
                                            /\ Cardinality(ToSet(s)) = Len(s)
<1> DEFINE Counted(s) == IsFiniteSet(ToSet(s)) /\ Cardinality(ToSet(s)) = Len(s)
           G == {s \in Seq(S) : Distinct(s) => Counted(s)}
<1>1. <<>> \in G
    <2>1. ToSet(<<>>) = {} /\ Len(<<>>) = 0
        BY DEF ToSet
    <2> QED
        BY <2>1, FS_EmptySet, EmptySeq
<1>2. ASSUME NEW s \in Seq(S), NEW x \in S, s \in G PROVE Append(s, x) \in G
    <2> SUFFICES ASSUME Distinct(Append(s, x)) PROVE Counted(Append(s, x))
        BY AppendProperties
    <2>1. Distinct(s) /\ x \notin ToSet(s)
        BY DistinctAppend
    <2>2. Counted(s)
        BY <1>2, <2>1
    <2>3. ToSet(Append(s, x)) = ToSet(s) \cup {x} /\ Len(Append(s, x)) = Len(s) + 1
        BY ToSetOfAppend, AppendProperties
    <2> QED
        BY <2>1, <2>2, <2>3, FS_AddElement
<1> HIDE DEF G
<1>3. \A s \in Seq(S) : s \in G
    BY <1>1, <1>2, SeqSetInduction
<1> QED
    BY <1>3 DEF G

-----------------------------------------------------------------------------
\* F follows Total along the sequence: the sum of each of its prefixes.
Sums(F, s) ==
    /\ F[0] = 0 /\ F[Len(s)] = Total(s)
    /\ \A n \in 1..Len(s) : F[n] = F[n - 1] + s[n]

(* Total adds element by element.                                          *)
LEMMA TotalSteps ==
    ASSUME NEW s \in Seq(Nat)
    PROVE  \E F \in [0..Len(s) -> Nat] : Sums(F, s)
<1> DEFINE N == Len(s)
           V == Nat
           base == 0
           Add(sum, n) == sum + n
           step == [p \in V \X (1..N) |-> Add(p[1], s[p[2]])]
           IsFold(f) == f = [T \in SUBSET (1..N) |->
               IF T = {} THEN base ELSE Add(f[T \ {Max(T)}], s[Max(T)])]
           g == CHOOSE f : IsFold(f)
<1>1. N \in Nat /\ DOMAIN s = 1..N /\ \A n \in 1..N : s[n] \in Nat
    BY LenProperties
<1>2. base \in V /\ step \in [V \X (1..N) -> V]
    BY <1>1
<1>3. IsFold(g)
    <2>1. PICK f \in [SUBSET (1..N) -> V] : Table(f, N, base, step)
        <3> HIDE DEF step, N, V, base
        <3> QED
            BY <1>1, <1>2, FoldExists
    <2>2. ASSUME NEW T \in SUBSET (1..N), T # {}
          PROVE  step[<<f[T \ {Max(T)}], Max(T)>>] = Add(f[T \ {Max(T)}], s[Max(T)])
        <3>1. Max(T) \in T
            BY <1>1, <2>2, MaxIsMember
        <3> QED
            BY <2>1, <3>1
    <2>3. IsFold(f)
        BY <2>1, <2>2 DEF Table
    <2> HIDE DEF IsFold
    <2> QED
        BY <2>3
<1>4. Total(s) = g[1..N]
    BY <1>1, Zenon DEF Total, FoldLeft, MapThenFoldSet
<1>5. g[{}] = base
    BY <1>3
<1>6. ASSUME NEW n \in 1..N PROVE g[1..n] = Add(g[1..(n - 1)], s[n])
    <2>1. 1..n \in SUBSET (1..N) /\ 1..n # {} /\ Max(1..n) = n /\ (1..n) \ {n} = 1..(n - 1)
        BY <1>1, MaxOfRange
    <2> HIDE DEF g, Add, N
    <2> QED
        BY <1>3, <2>1
<1>7. ASSUME NEW n \in 1..N, NEW a \in V PROVE step[<<a, n>>] = Add(a, s[n])
    OBVIOUS
<1> HIDE DEF g, Add, N, step, V, base
<1>8. PICK F \in [0..N -> V] : F[N] = g[1..N] /\ Path(F, N, base, step)
    <2>1. \A n \in 1..N : g[1..(n - 1)] \in V => g[1..n] = step[<<g[1..(n - 1)], n>>]
        BY <1>6, <1>7
    <2>2. N \in Nat /\ base \in V /\ step \in [V \X (1..N) -> V] /\ g[{}] = base
        BY <1>1, <1>2, <1>5
    <2> QED
        BY <2>1, <2>2, FoldAlong, ZenonT(60)
<1>9. \A n \in 1..N : F[n] = Add(F[n - 1], s[n])
    <2> SUFFICES ASSUME NEW n \in 1..N PROVE F[n] = Add(F[n - 1], s[n])
        OBVIOUS
    <2>1. n - 1 \in 0..N
        BY <1>1
    <2>2. F[n - 1] \in V
        BY <2>1
    <2> QED
        BY <2>2, <1>7, <1>8 DEF Path
<1> QED
    BY <1>4, <1>8, <1>9 DEF Sums, Path, Add, N, V, base

(* A sum of naturals is one; that of nothing is 0; one more is added.      *)
LEMMA TotalType ==
    ASSUME NEW s \in Seq(Nat) PROVE Total(s) \in Nat
BY TotalSteps, LenProperties DEF Sums

(* The sum of no numbers.                                                  *)
LEMMA TotalOfNone == Total(<<>>) = 0
<1> DEFINE s == <<>>
<1>1. s \in Seq(Nat) /\ Len(s) = 0
    BY EmptySeq
<1> HIDE DEF s
<1>2. PICK F \in [0..Len(s) -> Nat] : Sums(F, s)
    BY <1>1, TotalSteps
<1> QED
    BY <1>1, <1>2 DEF Sums, s

(* The sum of one number more.                                             *)
LEMMA TotalOfAppend ==
    ASSUME NEW s \in Seq(Nat), NEW x \in Nat
    PROVE  Total(Append(s, x)) = Total(s) + x
<1> DEFINE t == Append(s, x)
           N == Len(s)
<1>1. /\ t \in Seq(Nat) /\ N \in Nat /\ Len(t) = N + 1
      /\ t[N + 1] = x /\ \A n \in 1..N : t[n] = s[n]
    BY AppendProperties, LenProperties
<1> HIDE DEF t, N
<1>2. PICK F : Sums(F, s)
    BY TotalSteps
<1>3. PICK E : Sums(E, t)
    BY <1>1, TotalSteps
<1> USE DEF Sums
<1>4. E[N] = F[N]
    <2> DEFINE G == {n \in Nat : n <= N => E[n] = F[n]}
    <2>1. 0 \in G
        BY <1>2, <1>3
    <2>2. ASSUME NEW n \in Nat, n \in G PROVE n + 1 \in G
        <3> SUFFICES ASSUME n + 1 <= N PROVE E[n + 1] = F[n + 1]
            OBVIOUS
        <3>1. n + 1 \in 1..N /\ n + 1 \in 1..(N + 1) /\ (n + 1) - 1 = n /\ E[n] = F[n]
            BY <1>1, <2>2
        <3> QED
            BY <1>1, <1>2, <1>3, <3>1 DEF N
    <2>3. \A n \in Nat : n \in G
        <3> HIDE DEF G
        <3> QED
            BY <2>1, <2>2, NatSetInduction
    <2> QED
        BY <1>1, <2>3
<1>5. E[N + 1] = E[N] + t[N + 1]
    BY <1>1, <1>3, N + 1 \in 1..(N + 1), (N + 1) - 1 = N
<1> QED
    BY <1>1, <1>2, <1>3, <1>4, <1>5 DEF t, N

-----------------------------------------------------------------------------
\* Every element is related to those after it.
Ordered(s, R) == \A i, j \in DOMAIN s : i < j => <<s[i], s[j]>> \in R

(* An order holds along a slice one longer if it holds up to there and of  *)
(* the new element.                                                        *)
LEMMA OrderedAppend ==
    ASSUME NEW S, NEW s \in Seq(S), NEW x \in S, NEW R
    PROVE  Ordered(Append(s, x), R) <=> Ordered(s, R) /\ \A y \in ToSet(s) : <<y, x>> \in R
<1> DEFINE t == Append(s, x)
           N == Len(s)
<1>1. /\ N \in Nat /\ DOMAIN s = 1..N /\ DOMAIN t = 1..(N + 1) /\ t[N + 1] = x
      /\ \A i \in 1..N : t[i] = s[i]
    BY AppendProperties, LenProperties
<1> HIDE DEF t, N
<1>2. ASSUME Ordered(t, R) PROVE Ordered(s, R) /\ \A y \in ToSet(s) : <<y, x>> \in R
    <2>1. \A i, j \in 1..N : i < j => <<t[i], t[j]>> \in R
        BY <1>1, <1>2 DEF Ordered
    <2>2. \A i \in 1..N : <<t[i], t[N + 1]>> \in R
        BY <1>1, <1>2 DEF Ordered
    <2> QED
        BY <1>1, <2>1, <2>2 DEF Ordered, ToSet
<1>3. ASSUME Ordered(s, R), \A y \in ToSet(s) : <<y, x>> \in R PROVE Ordered(t, R)
    <2> SUFFICES ASSUME NEW i \in 1..(N + 1), NEW j \in 1..(N + 1), i < j
                 PROVE  <<t[i], t[j]>> \in R
        BY <1>1 DEF Ordered
    <2>1. i \in 1..N /\ s[i] \in ToSet(s)
        BY <1>1 DEF ToSet
    <2>2. CASE j = N + 1
        BY <1>1, <1>3, <2>1, <2>2
    <2>3. CASE j \in 1..N
        BY <1>1, <1>3, <2>1, <2>3 DEF Ordered
    <2> QED
        BY <1>1, <2>2, <2>3
<1> QED
    BY <1>2, <1>3 DEF t

(* It holds along what is kept of a slice.                                 *)
LEMMA OrderedOnly ==
    ASSUME NEW S, NEW K, NEW R
    PROVE  \A s \in Seq(S) : Ordered(s, R) => Ordered(Only(s, K), R)
<1> DEFINE G == {s \in Seq(S) : Ordered(s, R) => Ordered(Only(s, K), R)}
<1>1. <<>> \in G
    BY OnlyOfNone, EmptySeq DEF Ordered
<1>2. ASSUME NEW s \in Seq(S), NEW x \in S, s \in G PROVE Append(s, x) \in G
    <2> SUFFICES ASSUME Ordered(Append(s, x), R) PROVE Ordered(Only(Append(s, x), K), R)
        BY AppendProperties
    <2>1. Ordered(s, R) /\ \A y \in ToSet(s) : <<y, x>> \in R
        BY OrderedAppend
    <2>2. /\ Ordered(Only(s, K), R) /\ Only(s, K) \in Seq(S)
          /\ \A y \in ToSet(Only(s, K)) : <<y, x>> \in R
        BY <1>2, <2>1, OnlySet, OnlyType
    <2>3. Ordered(Append(Only(s, K), x), R)
        BY <2>2, OrderedAppend
    <2> QED
        BY <2>2, <2>3, OnlyOfAppend
<1> HIDE DEF G
<1>3. \A s \in Seq(S) : s \in G
    BY <1>1, <1>2, SeqSetInduction
<1> QED
    BY <1>3 DEF G

(* It holds along two slices in a row if along each and from one to the    *)
(* other.                                                                  *)
LEMMA OrderedConcat ==
    ASSUME NEW S, NEW R, NEW s \in Seq(S)
    PROVE  \A t \in Seq(S) :
               Ordered(s \o t, R) <=>
                   /\ Ordered(s, R) /\ Ordered(t, R)
                   /\ \A x \in ToSet(s), y \in ToSet(t) : <<x, y>> \in R
<1> DEFINE Cross(t) == \A x \in ToSet(s), y \in ToSet(t) : <<x, y>> \in R
           G == {t \in Seq(S) : Ordered(s \o t, R) <=> Ordered(s, R) /\ Ordered(t, R) /\ Cross(t)}
<1>1. <<>> \in G
    <2>1. s \o <<>> = s /\ <<>> \in Seq(S) /\ ToSet(<<>>) = {} /\ Ordered(<<>>, R)
        BY ConcatEmptySeq, EmptySeq DEF ToSet, Ordered
    <2> QED
        BY <2>1
<1>2. ASSUME NEW t \in Seq(S), NEW x \in S, t \in G PROVE Append(t, x) \in G
    <2>1. s \o Append(t, x) = Append(s \o t, x) /\ s \o t \in Seq(S) /\ Append(t, x) \in Seq(S)
        BY ConcatAppend, ConcatProperties, AppendProperties
    <2>2. ToSet(s \o t) = ToSet(s) \cup ToSet(t) /\ ToSet(Append(t, x)) = ToSet(t) \cup {x}
        BY ToSetOfConcat, ToSetOfAppend
    <2>3. Ordered(Append(s \o t, x), R) <=>
              Ordered(s \o t, R) /\ \A y \in ToSet(s) \cup ToSet(t) : <<y, x>> \in R
        BY <2>1, <2>2, OrderedAppend
    <2>4. Ordered(Append(t, x), R) <=> Ordered(t, R) /\ \A y \in ToSet(t) : <<y, x>> \in R
        BY OrderedAppend
    <2>5. Cross(Append(t, x)) <=> Cross(t) /\ \A y \in ToSet(s) : <<y, x>> \in R
        BY <2>2
    <2>6. Ordered(s \o t, R) <=> Ordered(s, R) /\ Ordered(t, R) /\ Cross(t)
        BY <1>2
    <2> HIDE DEF Cross
    <2>7. Ordered(s \o Append(t, x), R)
              <=> Ordered(s, R) /\ Ordered(Append(t, x), R) /\ Cross(Append(t, x))
        BY <2>1, <2>3, <2>4, <2>5, <2>6
    <2> QED
        BY <2>1, <2>7
<1> HIDE DEF G
<1>3. \A t \in Seq(S) : t \in G
    BY <1>1, <1>2, SeqSetInduction
<1> QED
    BY <1>3 DEF G

(* A slice in an order no element has with itself repeats nothing.         *)
LEMMA OrderedDistinct ==
    ASSUME NEW S, NEW s \in Seq(S), NEW R, Ordered(s, R), \A x \in S : <<x, x>> \notin R
    PROVE  Distinct(s)
<1>1. DOMAIN s = 1..Len(s) /\ Len(s) \in Nat /\ \A i \in DOMAIN s : s[i] \in S
    BY LenProperties
<1> SUFFICES ASSUME NEW i \in DOMAIN s, NEW j \in DOMAIN s, s[i] = s[j], i # j PROVE FALSE
    BY DEF Distinct
<1>2. CASE i < j
    BY <1>1, <1>2 DEF Ordered
<1>3. CASE j < i
    BY <1>1, <1>3 DEF Ordered
<1> QED
    BY <1>1, <1>2, <1>3

-----------------------------------------------------------------------------
\* F follows FlattenSeq along a sequence of sequences.
Joins(F, ss) ==
    /\ F[0] = <<>>
    /\ \A n \in 1..Len(ss) : F[n] = F[n - 1] \o ss[n]

(* FlattenSeq puts sequences in a row one by one.                          *)
LEMMA FlattenSteps ==
    ASSUME NEW S, NEW ss \in Seq(Seq(S))
    PROVE  \E F \in [0..Len(ss) -> Seq(S)] : Joins(F, ss) /\ F[Len(ss)] = FlattenSeq(ss)
<1> DEFINE N == Len(ss)
           Row(f, i) == IF i = 1 THEN ss[i] ELSE f[i - 1] \o ss[i]
           IsRow(f) == f = [i \in 1..N |-> Row(f, i)]
           g == CHOOSE f : IsRow(f)
           Has(n) == \E f \in [1..n -> Seq(S)] : \A i \in 1..n : f[i] = Row(f, i)
           G == {n \in Nat : n <= N => Has(n)}
<1>1. /\ N \in Nat /\ DOMAIN ss = 1..N /\ \A i \in 1..N : ss[i] \in Seq(S)
      /\ <<>> \in Seq(S)
    BY LenProperties, EmptySeq
<1>2. 0 \in G
    <2>1. \A i : i \notin 1..0
        OBVIOUS
    <2>2. PICK f : f \in [1..0 -> Seq(S)]
        <3> DEFINE e == [i \in 1..0 |-> <<>>]
        <3>1. e \in [1..0 -> Seq(S)]
            BY <2>1
        <3> QED
            BY <3>1
    <2>3. \A i \in 1..0 : f[i] = Row(f, i)
        BY <2>1, Zenon
    <2>4. Has(0)
        <3> HIDE DEF Row
        <3> QED
            BY <2>2, <2>3, Zenon
    <2> HIDE DEF Has, N
    <2> QED
        BY <2>4
<1>3. ASSUME NEW n \in Nat, n \in G PROVE n + 1 \in G
    <2> SUFFICES ASSUME n + 1 <= N PROVE Has(n + 1)
        <3> HIDE DEF Has, N
        <3> QED
            OBVIOUS
    <2>8. Has(n)
        <3> HIDE DEF Has, N
        <3> QED
            BY <1>1, <1>3
    <2>1. PICK f \in [1..n -> Seq(S)] : \A i \in 1..n : f[i] = Row(f, i)
        <3> HIDE DEF Row
        <3> QED
            BY <2>8
    <2> DEFINE x == Row(f, n + 1)
               h == [i \in 1..(n + 1) |-> IF i = n + 1 THEN x ELSE f[i]]
    <2>2. n + 1 \in 1..N /\ (n + 1 # 1 => n \in 1..n) /\ (n + 1) - 1 = n
        BY <1>1
    <2>3. x \in Seq(S)
        <3>1. ss[n + 1] \in Seq(S)
            BY <1>1, <2>2
        <3>2. CASE n + 1 = 1
            BY <3>1, <3>2
        <3>3. CASE n + 1 # 1
            <4>1. f[n] \in Seq(S) /\ x = f[n] \o ss[n + 1]
                BY <2>1, <2>2, <3>3
            <4> QED
                BY <3>1, <4>1, ConcatProperties
        <3> QED
            BY <3>2, <3>3
    <2>4. h \in [1..(n + 1) -> Seq(S)] /\ h[n + 1] = x /\ \A i \in 1..n : h[i] = f[i]
        <3> HIDE DEF x, Row
        <3> QED
            BY <2>1, <2>3
    <2> HIDE DEF h, x
    <2>5. ASSUME NEW i \in 1..n PROVE h[i] = Row(h, i)
        <3>1. i # 1 => i - 1 \in 1..n
            OBVIOUS
        <3> QED
            BY <2>1, <2>4, <3>1
    <2>6. h[n + 1] = Row(h, n + 1)
        BY <2>2, <2>4 DEF x
    <2> HIDE DEF Row
    <2>7. \A i \in 1..(n + 1) : h[i] = Row(h, i)
        BY <2>5, <2>6, Z3
    <2> QED
        BY <2>4, <2>7
<1>4. Has(N)
    <2>1. \A n \in Nat : n \in G
        <3> HIDE DEF G
        <3> QED
            BY <1>2, <1>3, NatSetInduction
    <2> HIDE DEF Has, N
    <2> QED
        BY <1>1, <2>1
<1>5. PICK f \in [1..N -> Seq(S)] : \A i \in 1..N : f[i] = Row(f, i)
    BY <1>4
<1>6. IsRow(g)
    <2>1. IsRow(f)
        <3> HIDE DEF Row
        <3> QED
            BY <1>5
    <2> HIDE DEF IsRow
    <2> QED
        BY <2>1
<1>7. N # 0 => FlattenSeq(ss) = g[N]
    BY DEF FlattenSeq
<1>8. N = 0 => FlattenSeq(ss) = <<>>
    BY EmptySeq DEF FlattenSeq
<1>9. ASSUME NEW i \in 1..N PROVE g[i] = Row(g, i)
    <2> HIDE DEF g, Row
    <2> QED
        BY <1>6
<1> HIDE DEF g, N
<1> DEFINE F == [n \in 0..N |-> IF n = 0 THEN <<>> ELSE g[n]]
<1>10. F[0] = <<>> /\ \A n \in 1..N : F[n] = g[n]
    BY <1>1
<1>11. ASSUME NEW n \in 1..N PROVE F[n] = F[n - 1] \o ss[n]
    <2>1. CASE n = 1
        BY <1>1, <1>9, <1>10, <2>1, ConcatEmptySeq
    <2>2. CASE n # 1
        <3>1. n - 1 \in 1..N
            BY <1>1, <2>2
        <3>2. g[n] = g[n - 1] \o ss[n]
            BY <1>9, <2>2
        <3> QED
            BY <1>10, <3>1, <3>2
    <2> QED
        BY <2>1, <2>2
<1>12. F \in [0..N -> Seq(S)]
    <2> DEFINE H == {n \in 0..N : F[n] \in Seq(S)}
    <2>1. 0 \in H
        BY <1>1, <1>10
    <2>2. ASSUME NEW n \in 1..N, n - 1 \in H PROVE n \in H
        <3>1. F[n - 1] \in Seq(S) /\ ss[n] \in Seq(S) /\ n \in 0..N
            BY <1>1, <2>2
        <3> HIDE DEF F
        <3>2. F[n] = F[n - 1] \o ss[n]
            BY <1>11
        <3>3. F[n] \in Seq(S)
            BY <3>1, <3>2, ConcatProperties
        <3> QED
            BY <3>1, <3>3
    <2>3. DOMAIN F = 0..N /\ F = [n \in 0..N |-> F[n]]
        OBVIOUS
    <2> HIDE DEF F
    <2>4. N \in Nat /\ 0 \in H /\ \A n \in 1..N : n - 1 \in H => n \in H
        BY <1>1, <2>1, <2>2
    <2> HIDE DEF H
    <2>5. \A n \in 0..N : n \in H
        BY <2>4, AlongInduction, Zenon
    <2>6. \A n \in 0..N : F[n] \in Seq(S)
        BY <2>5 DEF H
    <2> QED
        BY <2>3, <2>6
<1> HIDE DEF F
<1>13. F[N] = FlattenSeq(ss)
    <2>1. CASE N = 0
        BY <1>8, <1>10, <2>1
    <2>2. CASE N # 0
        BY <1>1, <1>7, <1>10, <2>2
    <2> QED
        BY <2>1, <2>2
<1> QED
    BY <1>10, <1>11, <1>12, <1>13 DEF Joins, N

(* The row of sequences, one more at the end, and none at all.             *)
LEMMA FlattenAppend ==
    ASSUME NEW S
    PROVE  /\ \A ss \in Seq(Seq(S)) : FlattenSeq(ss) \in Seq(S)
           /\ FlattenSeq(<<>>) = <<>>
           /\ \A ss \in Seq(Seq(S)), s \in Seq(S) :
                  FlattenSeq(Append(ss, s)) = FlattenSeq(ss) \o s
<1>1. ASSUME NEW ss \in Seq(Seq(S)) PROVE FlattenSeq(ss) \in Seq(S)
    <2>1. PICK F \in [0..Len(ss) -> Seq(S)] : Joins(F, ss) /\ F[Len(ss)] = FlattenSeq(ss)
        BY FlattenSteps
    <2>2. Len(ss) \in 0..Len(ss)
        BY LenProperties
    <2> QED
        BY <2>1, <2>2
<1>2. FlattenSeq(<<>>) = <<>>
    BY EmptySeq DEF FlattenSeq
<1>3. ASSUME NEW ss \in Seq(Seq(S)), NEW s \in Seq(S)
      PROVE  FlattenSeq(Append(ss, s)) = FlattenSeq(ss) \o s
    <2> DEFINE N == Len(ss)
               tt == Append(ss, s)
    <2>1. /\ N \in Nat /\ tt \in Seq(Seq(S)) /\ Len(tt) = N + 1 /\ tt[N + 1] = s
          /\ \A i \in 1..N : tt[i] = ss[i]
        BY LenProperties, AppendProperties
    <2>2. PICK F \in [0..N -> Seq(S)] : Joins(F, ss) /\ F[N] = FlattenSeq(ss)
        BY FlattenSteps
    <2> HIDE DEF tt
    <2>3. PICK E \in [0..(N + 1) -> Seq(S)] : Joins(E, tt) /\ E[N + 1] = FlattenSeq(tt)
        BY <2>1, FlattenSteps
    <2> HIDE DEF N
    <2> DEFINE H == {n \in 0..N : E[n] = F[n]}
    <2>4. 0 \in H
        BY <2>1, <2>2, <2>3 DEF Joins
    <2>5. ASSUME NEW n \in 1..N, n - 1 \in H PROVE n \in H
        <3>1. n \in 1..(N + 1) /\ n \in 0..N
            BY <2>1
        <3>2. E[n] = E[n - 1] \o tt[n] /\ F[n] = F[n - 1] \o ss[n]
            BY <2>1, <2>2, <2>3, <3>1 DEF Joins, N
        <3> QED
            BY <2>1, <2>5, <3>1, <3>2
    <2>6. N \in Nat /\ 0 \in H /\ \A n \in 1..N : n - 1 \in H => n \in H
        BY <2>1, <2>4, <2>5
    <2> HIDE DEF H
    <2>7. \A n \in 0..N : n \in H
        BY <2>6, AlongInduction, Zenon
    <2>8. E[N] = F[N]
        BY <2>1, <2>7 DEF H
    <2>9. N + 1 \in 1..(N + 1) /\ (N + 1) - 1 = N
        <3>1. N \in Nat
            BY <2>1
        <3> QED
            BY <3>1
    <2>10. E[N + 1] = E[N] \o tt[N + 1]
        BY <2>1, <2>3, <2>9 DEF Joins
    <2> QED
        BY <2>1, <2>2, <2>3, <2>8, <2>10 DEF tt
<1> QED
    BY <1>1, <1>2, <1>3

(* And one more at the front.                                              *)
LEMMA FlattenFirst ==
    ASSUME NEW S, NEW ss \in Seq(Seq(S)), ss # <<>>
    PROVE  FlattenSeq(ss) = ss[1] \o FlattenSeq(Tail(ss))
<1> DEFINE G == {tt \in Seq(Seq(S)) : tt # <<>> => FlattenSeq(tt) = tt[1] \o FlattenSeq(Tail(tt))}
<1>1. <<>> \in G
    BY EmptySeq
<1>2. ASSUME NEW tt \in Seq(Seq(S)), NEW s \in Seq(S), tt \in G PROVE Append(tt, s) \in G
    <2> DEFINE N == Len(tt)
               uu == Append(tt, s)
    <2>1. /\ N \in Nat /\ uu \in Seq(Seq(S)) /\ Len(uu) = N + 1 /\ uu[N + 1] = s
          /\ uu # <<>> /\ \A i \in 1..N : uu[i] = tt[i]
        <3>1. N \in Nat
            BY LenProperties
        <3>2. uu \in Seq(Seq(S)) /\ uu # <<>> /\ Len(uu) = N + 1
            BY AppendProperties, Z3
        <3>3. uu[N + 1] = s /\ \A i \in 1..N : uu[i] = tt[i]
            BY AppendProperties
        <3> QED
            BY <3>1, <3>2, <3>3
    <2>2. FlattenSeq(uu) = FlattenSeq(tt) \o s /\ FlattenSeq(tt) \in Seq(S)
        BY FlattenAppend
    <2>3. /\ Tail(uu) \in Seq(Seq(S)) /\ Len(Tail(uu)) = N
          /\ \A i \in 1..N : Tail(uu)[i] = uu[i + 1]
        <3> HIDE DEF uu, N
        <3>1. Tail(uu) \in Seq(Seq(S)) /\ Len(Tail(uu)) = (N + 1) - 1
              /\ \A i \in 1..Len(Tail(uu)) : Tail(uu)[i] = uu[i + 1]
            BY <2>1, HeadTailProperties
        <3>2. (N + 1) - 1 = N
            BY <2>1
        <3> QED
            BY <3>1, <3>2
    <2>4. uu[1] = IF tt = <<>> THEN s ELSE tt[1]
        <3>1. CASE tt = <<>>
            BY <2>1, <3>1, EmptySeq
        <3>2. CASE tt # <<>>
            BY <2>1, <3>2, EmptySeq
        <3> QED
            BY <3>1, <3>2
    <2> HIDE DEF uu
    <2>5. CASE tt = <<>>
        <3>1. N = 0 /\ FlattenSeq(tt) = <<>>
            BY <2>5, EmptySeq, FlattenAppend
        <3>2. Tail(uu) = <<>>
            BY <2>3, <3>1, EmptySeq
        <3>3. <<>> \o s = s /\ s \o <<>> = s
            BY ConcatEmptySeq
        <3>4. FlattenSeq(Tail(uu)) = <<>>
            BY <3>2, FlattenAppend
        <3>5. FlattenSeq(uu) = s /\ s \o FlattenSeq(Tail(uu)) = s
            BY <2>2, <3>1, <3>3, <3>4
        <3> QED
            BY <2>1, <2>4, <2>5, <3>5 DEF uu
    <2>6. CASE tt # <<>>
        <3>1. /\ Tail(tt) \in Seq(Seq(S)) /\ Len(Tail(tt)) = N - 1
              /\ \A i \in 1..(N - 1) : Tail(tt)[i] = tt[i + 1]
            BY <2>6, HeadTailProperties
        <3> DEFINE vv == Append(Tail(tt), s)
        <3>2. vv \in Seq(Seq(S)) /\ Len(vv) = N - 1 + 1 /\ vv[N - 1 + 1] = s
              /\ \A i \in 1..(N - 1) : vv[i] = Tail(tt)[i]
            BY <3>1, AppendProperties
        <3> HIDE DEF vv, N
        <3>3. Tail(uu) = vv
            <4>1. Len(vv) = N
                BY <2>1, <3>2
            <4>2. ASSUME NEW i \in 1..N PROVE Tail(uu)[i] = vv[i]
                <5>1. CASE i = N
                    BY <2>1, <2>3, <3>2, <5>1
                <5>2. CASE i # N
                    <6>1. i \in 1..(N - 1) /\ i + 1 \in 1..N
                        BY <2>1, <5>2
                    <6> QED
                        BY <2>1, <2>3, <3>1, <3>2, <6>1
                <5> QED
                    BY <5>1, <5>2
            <4> QED
                BY <2>3, <3>2, <4>1, <4>2, SeqEqual
        <3>4. FlattenSeq(vv) = FlattenSeq(Tail(tt)) \o s /\ FlattenSeq(Tail(tt)) \in Seq(S)
            BY <3>1, FlattenAppend DEF vv
        <3>5. FlattenSeq(tt) = tt[1] \o FlattenSeq(Tail(tt))
            BY <1>2, <2>6
        <3>6. tt[1] \in Seq(S)
            BY <2>6, EmptySeq, LenProperties
        <3>7. (tt[1] \o FlattenSeq(Tail(tt))) \o s = tt[1] \o (FlattenSeq(Tail(tt)) \o s)
            <4> DEFINE z == FlattenSeq(Tail(tt))
                       y == tt[1]
            <4>1. z \in Seq(S) /\ y \in Seq(S)
                BY <3>4, <3>6
            <4> HIDE DEF z, y
            <4>2. (y \o z) \o s = y \o (z \o s)
                BY <4>1, ConcatAssociative, Z3T(60)
            <4> QED
                BY <4>2 DEF z, y
        <3>8. FlattenSeq(uu) = uu[1] \o FlattenSeq(Tail(uu))
            BY <2>2, <2>4, <2>6, <3>3, <3>4, <3>5, <3>7
        <3> QED
            BY <2>1, <3>8 DEF uu
    <2> QED
        BY <2>5, <2>6
<1> HIDE DEF G
<1>3. \A tt \in Seq(Seq(S)) : tt \in G
    BY <1>1, <1>2, SeqSetInduction
<1> QED
    BY <1>3 DEF G

-----------------------------------------------------------------------------
\* At the offset off the data reads w.
At(data, off, w) ==
    off + Len(w) <= Len(data) /\ \A i \in 1..Len(w) : data[off + i] = w[i]

\* The data ends in a beginning of w, which starts at the offset off.
Cut(data, off, w) ==
    /\ off <= Len(data) /\ Len(data) < off + Len(w)
    /\ \A i \in 1..(Len(data) - off) : data[off + i] = w[i]

(* What reads as two sequences in a row reads as the first, then the other. *)
LEMMA AtConcat ==
    ASSUME NEW S, NEW v \in Seq(S), NEW w \in Seq(S), NEW data \in Seq(S), NEW off \in Nat
    PROVE  At(data, off, v \o w) <=> At(data, off, v) /\ At(data, off + Len(v), w)
<1> DEFINE m == Len(v)
           n == Len(w)
           u == v \o w
<1>1. /\ m \in Nat /\ n \in Nat /\ Len(data) \in Nat /\ Len(u) = m + n
      /\ \A i \in 1..(m + n) : u[i] = IF i <= m THEN v[i] ELSE w[i - m]
    BY LenProperties, ConcatProperties
<1> HIDE DEF m, n, u
<1>2. ASSUME At(data, off, u) PROVE At(data, off, v) /\ At(data, off + m, w)
    <2>1. \A i \in 1..m : i \in 1..(m + n) /\ i <= m
        BY <1>1
    <2>2. \A i \in 1..m : data[off + i] = v[i]
        BY <1>1, <1>2, <2>1 DEF At
    <2>3. ASSUME NEW i \in 1..n PROVE data[(off + m) + i] = w[i]
        <3>1. m + i \in 1..(m + n) /\ ~(m + i <= m) /\ (m + i) - m = i
              /\ off + (m + i) = (off + m) + i
            BY <1>1
        <3>2. data[off + (m + i)] = u[m + i]
            BY <1>1, <1>2, <3>1 DEF At
        <3> QED
            BY <1>1, <3>1, <3>2
    <2>4. off + (m + n) <= Len(data)
        BY <1>1, <1>2 DEF At
    <2>5. off + m <= Len(data) /\ (off + m) + n <= Len(data)
        BY <1>1, <2>4
    <2>6. At(data, off, v)
        BY <2>2, <2>5 DEF At, m
    <2>7. At(data, off + m, w)
        BY <2>3, <2>5 DEF At, n
    <2> QED
        BY <2>6, <2>7
<1>3. ASSUME At(data, off, v), At(data, off + m, w) PROVE At(data, off, u)
    <2>1. ASSUME NEW i \in 1..(m + n) PROVE data[off + i] = u[i]
        <3>1. CASE i <= m
            <4>1. i \in 1..m
                BY <1>1, <3>1
            <4> QED
                BY <1>1, <1>3, <3>1, <4>1 DEF At, m
        <3>2. CASE ~(i <= m)
            <4>1. i - m \in 1..n /\ (off + m) + (i - m) = off + i
                BY <1>1, <3>2
            <4>2. data[(off + m) + (i - m)] = w[i - m]
                BY <1>3, <4>1 DEF At, n
            <4> QED
                BY <1>1, <3>2, <4>1, <4>2
        <3> QED
            BY <3>1, <3>2
    <2>2. (off + m) + n <= Len(data)
        BY <1>3 DEF At, n
    <2> QED
        BY <1>1, <2>1, <2>2 DEF At
<1> QED
    BY <1>2, <1>3 DEF u, m

(* Data that ends within two sequences in a row ends within the first or   *)
(* within the other.                                                       *)
LEMMA CutConcat ==
    ASSUME NEW S, NEW v \in Seq(S), NEW w \in Seq(S), NEW data \in Seq(S), NEW off \in Nat,
           Cut(data, off, v \o w)
    PROVE  \/ Cut(data, off, v)
           \/ At(data, off, v) /\ Cut(data, off + Len(v), w)
<1> DEFINE m == Len(v)
           n == Len(w)
           u == v \o w
           L == Len(data)
<1>1. /\ m \in Nat /\ n \in Nat /\ L \in Nat /\ Len(u) = m + n
      /\ \A i \in 1..(m + n) : u[i] = IF i <= m THEN v[i] ELSE w[i - m]
    BY LenProperties, ConcatProperties
<1>2. off <= L /\ L < off + Len(u) /\ \A i \in 1..(L - off) : data[off + i] = u[i]
    BY DEF Cut
<1> HIDE DEF m, n, u, L
<1>3. CASE L < off + m
    <2>1. \A i \in 1..(L - off) : i \in 1..(m + n) /\ i <= m
        BY <1>1, <1>3
    <2>2. \A i \in 1..(L - off) : data[off + i] = v[i]
        BY <1>1, <1>2, <2>1
    <2> QED
        BY <1>2, <1>3, <2>2 DEF Cut, m, L
<1>4. CASE ~(L < off + m)
    <2>1. \A i \in 1..m : i \in 1..(L - off) /\ i \in 1..(m + n) /\ i <= m
        BY <1>1, <1>4
    <2>2. \A i \in 1..m : data[off + i] = v[i]
        BY <1>1, <1>2, <2>1
    <2>3. off + m <= L
        BY <1>1, <1>4
    <2>4. At(data, off, v)
        BY <2>2, <2>3 DEF At, m, L
    <2>5. ASSUME NEW i \in 1..(L - (off + m)) PROVE data[(off + m) + i] = w[i]
        <3>1. m + i \in 1..(L - off) /\ m + i \in 1..(m + n) /\ ~(m + i <= m) /\ (m + i) - m = i
              /\ off + (m + i) = (off + m) + i
            BY <1>1, <1>2, <2>3
        <3>2. data[off + (m + i)] = u[m + i]
            BY <1>2, <3>1
        <3> QED
            BY <1>1, <3>1, <3>2
    <2>6. L < (off + m) + n
        BY <1>1, <1>2
    <2>7. Cut(data, off + m, w)
        BY <2>3, <2>5, <2>6 DEF Cut, n, L
    <2> QED
        BY <2>4, <2>7 DEF m
<1> QED
    BY <1>3, <1>4

(* What reads as w is w when it is taken out.                              *)
LEMMA AtTaken ==
    ASSUME NEW S, NEW w \in Seq(S), NEW data \in Seq(S), NEW off \in Nat, At(data, off, w)
    PROVE  SubSeq(data, off + 1, off + Len(w)) = w
<1> DEFINE n == Len(w)
           t == SubSeq(data, off + 1, off + n)
<1>1. n \in Nat /\ Len(data) \in Nat /\ \A i \in 1..n : w[i] \in S
    BY LenProperties
<1>2. off + n <= Len(data) /\ \A i \in 1..n : data[off + i] = w[i]
    BY DEF At
<1> HIDE DEF n
<1>3. \A i \in (off + 1)..(off + n) : data[i] \in S
    <2> SUFFICES ASSUME NEW i \in (off + 1)..(off + n) PROVE data[i] \in S
        OBVIOUS
    <2>1. i - off \in 1..n /\ off + (i - off) = i
        BY <1>1
    <2> QED
        BY <1>1, <1>2, <2>1
<1>4. /\ t \in Seq(S) /\ Len(t) = IF off + 1 <= off + n THEN (off + n) - (off + 1) + 1 ELSE 0
      /\ \A i \in 1..((off + n) - (off + 1) + 1) : t[i] = data[(off + 1) + i - 1]
    <2>1. off + 1 \in Int /\ off + n \in Int
        BY <1>1
    <2> QED
        BY <1>3, <2>1, SubSeqProperties
<1> HIDE DEF t
<1>5. Len(t) = n
    BY <1>1, <1>4
<1>6. ASSUME NEW i \in 1..n PROVE t[i] = w[i]
    <2>1. i \in 1..((off + n) - (off + 1) + 1) /\ (off + 1) + i - 1 = off + i
        BY <1>1
    <2> QED
        BY <1>2, <1>4, <2>1
<1>7. t = w
    BY <1>4, <1>5, <1>6, SeqEqual DEF n
<1> QED
    BY <1>7 DEF t, n

(* A sequence begins with itself, whatever follows.                        *)
LEMMA AtStart ==
    ASSUME NEW S, NEW w \in Seq(S), NEW t \in Seq(S)
    PROVE  At(w \o t, 0, w)
<1>1. /\ Len(w) \in Nat /\ Len(t) \in Nat /\ Len(w \o t) = Len(w) + Len(t)
      /\ \A i \in 1..(Len(w) + Len(t)) : (w \o t)[i] = IF i <= Len(w) THEN w[i] ELSE t[i - Len(w)]
    BY LenProperties, ConcatProperties
<1>2. 0 + Len(w) <= Len(w \o t)
    BY <1>1
<1>3. ASSUME NEW i \in 1..Len(w) PROVE (w \o t)[0 + i] = w[i]
    <2>1. i \in 1..(Len(w) + Len(t)) /\ i <= Len(w) /\ 0 + i = i
        BY <1>1
    <2> QED
        BY <1>1, <2>1
<1> QED
    BY <1>2, <1>3 DEF At

(* A stretch at the beginning is cut short.                                *)
LEMMA CutStart ==
    ASSUME NEW S, NEW w \in Seq(S), NEW n \in 0..(Len(w) - 1)
    PROVE  SubSeq(w, 1, n) \in Seq(S) /\ Cut(SubSeq(w, 1, n), 0, w)
<1> DEFINE t == SubSeq(w, 1, n)
<1>1. Len(w) \in Nat /\ \A i \in 1..Len(w) : w[i] \in S
    BY LenProperties
<1>2. \A i \in 1..n : w[i] \in S
    BY <1>1
<1>3. t \in Seq(S) /\ Len(t) = (IF 1 <= n THEN n - 1 + 1 ELSE 0)
      /\ \A i \in 1..(n - 1 + 1) : t[i] = w[1 + i - 1]
    BY <1>2, n \in Int, SubSeqProperties
<1> HIDE DEF t
<1>4. Len(t) = n /\ \A i \in 1..n : i \in 1..(n - 1 + 1) /\ 1 + i - 1 = i
    BY <1>3
<1>5. ASSUME NEW i \in 1..(Len(t) - 0) PROVE t[0 + i] = w[i]
    BY <1>3, <1>4
<1>6. 0 <= Len(t) /\ Len(t) < 0 + Len(w)
    BY <1>1, <1>4
<1> QED
    BY <1>3, <1>5, <1>6 DEF Cut, t

-----------------------------------------------------------------------------
\* The row of what F makes of each element.
Laid(F, s) == FlattenSeq([i \in DOMAIN s |-> F[s[i]]])

\* It is a sequence over S, and begins with what F makes of the first.
LaidFirst(F, s, A, S) ==
    /\ Laid(F, s) \in Seq(S)
    /\ s = <<>> => Laid(F, s) = <<>>
    /\ s # <<>> =>
           /\ s[1] \in A /\ Tail(s) \in Seq(A) /\ Len(Tail(s)) = Len(s) - 1
           /\ Laid(F, s) = F[s[1]] \o Laid(F, Tail(s))

(* The row of what F makes of each element begins with that of the first.  *)
LEMMA FlattenMap ==
    ASSUME NEW A, NEW S, NEW F \in [A -> Seq(S)], NEW s \in Seq(A)
    PROVE  LaidFirst(F, s, A, S)
<1> DEFINE R(u) == [i \in DOMAIN u |-> F[u[i]]]
<1>1. ASSUME NEW u \in Seq(A)
      PROVE  /\ R(u) \in Seq(Seq(S)) /\ Len(R(u)) = Len(u) /\ Len(u) \in Nat
             /\ \A i \in 1..Len(u) : R(u)[i] = F[u[i]] /\ u[i] \in A
    <2>1. Len(u) \in Nat /\ DOMAIN u = 1..Len(u) /\ \A i \in 1..Len(u) : u[i] \in A
        BY LenProperties
    <2>2. R(u) \in [1..Len(u) -> Seq(S)]
        BY <2>1
    <2>3. \A i \in 1..Len(u) : R(u)[i] = F[u[i]]
        BY <2>1
    <2> HIDE DEF R
    <2> QED
        BY <2>1, <2>2, <2>3, FunctionIsSeq
<1> HIDE DEF R
<1>2. FlattenSeq(R(s)) \in Seq(S)
    BY <1>1, FlattenAppend
<1>3. ASSUME s = <<>> PROVE FlattenSeq(R(s)) = <<>>
    <2>1. R(s) \in Seq(Seq(S)) /\ Len(R(s)) = 0
        BY <1>1, <1>3, EmptySeq
    <2>2. R(s) = <<>>
        BY <2>1, EmptySeq
    <2> QED
        BY <2>2, FlattenAppend
<1>4. ASSUME s # <<>>
      PROVE  /\ s[1] \in A /\ Tail(s) \in Seq(A) /\ Len(Tail(s)) = Len(s) - 1
             /\ FlattenSeq(R(s)) = F[s[1]] \o FlattenSeq(R(Tail(s)))
    <2> DEFINE t == Tail(s)
               q == R(s)
               p == R(t)
               N == Len(s)
    <2>1. t \in Seq(A) /\ Len(t) = N - 1 /\ (\A i \in 1..Len(t) : t[i] = s[i + 1])
        BY <1>4, HeadTailProperties
    <2>2. N \in Nat /\ N # 0
        BY <1>4, EmptySeq, LenProperties
    <2> HIDE DEF t, N
    <2>3. q \in Seq(Seq(S)) /\ Len(q) = N /\ \A i \in 1..N : q[i] = F[s[i]] /\ s[i] \in A
        BY <1>1 DEF N
    <2>4. p \in Seq(Seq(S)) /\ Len(p) = N - 1 /\ \A i \in 1..(N - 1) : p[i] = F[t[i]]
        BY <1>1, <2>1
    <2> HIDE DEF q, p
    <2>5. q # <<>>
        BY <2>2, <2>3, EmptySeq
    <2>6. Tail(q) \in Seq(Seq(S)) /\ Len(Tail(q)) = N - 1
          /\ \A i \in 1..(N - 1) : Tail(q)[i] = q[i + 1]
        BY <2>3, <2>5, HeadTailProperties
    <2>7. ASSUME NEW i \in 1..(N - 1) PROVE Tail(q)[i] = p[i]
        <3>1. i + 1 \in 1..N
            BY <2>2
        <3> QED
            BY <2>1, <2>3, <2>4, <2>6, <3>1, ZenonT(60)
    <2>8. Tail(q) = p
        BY <2>4, <2>6, <2>7, SeqEqual
    <2>9. FlattenSeq(q) = q[1] \o FlattenSeq(p)
        BY <2>3, <2>5, <2>8, FlattenFirst
    <2>10. 1 \in 1..N
        BY <2>2
    <2> QED
        BY <2>1, <2>3, <2>9, <2>10 DEF t, q, p, N
<1> QED
    BY <1>2, <1>3, <1>4 DEF R, Laid, LaidFirst

\* Every argument but the last ones has one further on.
Ahead(next, L) == \A o \in 0..L : next[o] > o

\* f is what it is further on, and one step.
Recurs(f, L, base, next, step) ==
    \A o \in 0..L : f[o] = IF next[o] <= L THEN step[<<o, f[next[o]]>>] ELSE base[o]

(* A function may be defined by what it is further on: from its last       *)
(* argument back to the first.                                             *)
LEMMA Backwards ==
    ASSUME NEW L \in Nat, NEW V, NEW base \in [0..L -> V],
           NEW next \in [0..L -> Nat], Ahead(next, L),
           NEW step \in [(0..L) \X V -> V]
    PROVE  \E f \in [0..L -> V] : Recurs(f, L, base, next, step)
<1> DEFINE Row(f, o) == IF next[o] <= L THEN step[<<o, f[next[o]]>>] ELSE base[o]
           Has(k) == \E f \in [0..L -> V] : \A o \in 0..L : o + k > L => f[o] = Row(f, o)
           G == {k \in Nat : Has(k)}
<1>1. 0 \in G
    <2>1. \A o \in 0..L : ~(o + 0 > L)
        OBVIOUS
    <2>2. Has(0)
        <3> HIDE DEF Row
        <3> QED
            BY <2>1
    <2> HIDE DEF Has
    <2> QED
        BY <2>2
<1>2. ASSUME NEW k \in Nat, k \in G PROVE k + 1 \in G
    <2>1. Has(k)
        <3> HIDE DEF Has
        <3> QED
            BY <1>2
    <2>2. PICK f \in [0..L -> V] : \A o \in 0..L : o + k > L => f[o] = Row(f, o)
        <3> HIDE DEF Row
        <3> QED
            BY <2>1
    <2>3. Has(k + 1)
        <3>1. CASE k > L
            <4>1. \A o \in 0..L : o + k > L
                BY <3>1
            <4> HIDE DEF Row
            <4> QED
                BY <2>2, <4>1
        <3>2. CASE ~(k > L)
            <4> DEFINE c == L - k
                       x == Row(f, c)
                       h == [f EXCEPT ![c] = x]
            <4>1. c \in 0..L
                BY <3>2
            <4>2. x \in V
                <5>1. next[c] \in Nat /\ next[c] > c /\ base[c] \in V
                    BY <4>1 DEF Ahead
                <5>2. ASSUME next[c] <= L PROVE step[<<c, f[next[c]]>>] \in V
                    <6>1. next[c] \in 0..L
                        BY <5>1, <5>2
                    <6>2. <<c, f[next[c]]>> \in (0..L) \X V
                        BY <4>1, <6>1
                    <6> QED
                        BY <6>2
                <5> HIDE DEF c
                <5> QED
                    BY <5>1, <5>2
            <4> HIDE DEF x
            <4>3. h \in [0..L -> V] /\ h[c] = x /\ \A o \in 0..L : o # c => h[o] = f[o]
                BY <4>1, <4>2
            <4> HIDE DEF h
            <4>4. ASSUME NEW o \in 0..L, o + (k + 1) > L PROVE h[o] = Row(h, o)
                <5>1. o >= c /\ next[o] \in Nat /\ next[o] > o
                    BY <4>4 DEF Ahead
                <5>2. next[o] <= L => next[o] \in 0..L /\ next[o] # c
                    BY <4>1, <5>1
                <5>3. Row(h, o) = Row(f, o)
                    BY <4>3, <5>2
                <5>4. CASE o = c
                    BY <4>3, <5>3, <5>4 DEF x
                <5>5. CASE o # c
                    <6>1. o + k > L
                        BY <5>1, <5>5
                    <6> HIDE DEF Row
                    <6> QED
                        BY <2>2, <4>3, <5>3, <5>5, <6>1
                <5> QED
                    BY <5>4, <5>5
            <4> HIDE DEF Row
            <4> QED
                BY <4>3, <4>4
        <3> HIDE DEF Has
        <3> QED
            BY <3>1, <3>2
    <2> HIDE DEF Has
    <2> QED
        BY <2>3
<1>3. L + 1 \in G
    <2> HIDE DEF G
    <2> QED
        BY <1>1, <1>2, NatSetInduction
<1>4. Has(L + 1)
    <2> HIDE DEF Has
    <2> QED
        BY <1>3
<1>5. \A o \in 0..L : o + (L + 1) > L
    OBVIOUS
<1>6. \E f \in [0..L -> V] : \A o \in 0..L : f[o] = Row(f, o)
    <2> HIDE DEF Row
    <2> QED
        BY <1>4, <1>5
<1> QED
    BY <1>6 DEF Recurs

(* A sequence with one more before it, element by element.                 *)
LEMMA OneBefore ==
    ASSUME NEW S, NEW x \in S, NEW s \in Seq(S)
    PROVE  /\ <<x>> \o s \in Seq(S) /\ Len(<<x>> \o s) = 1 + Len(s)
           /\ \A i \in 1..(1 + Len(s)) : (<<x>> \o s)[i] = IF i = 1 THEN x ELSE s[i - 1]
<1> DEFINE z == <<x>>
           c == z \o s
<1>1. z \in Seq(S) /\ Len(z) = 1 /\ z[1] = x
    OBVIOUS
<1>2. z \in Seq(S)
    BY <1>1
<1> HIDE DEF z
<1>3. /\ c \in Seq(S) /\ Len(c) = Len(z) + Len(s)
      /\ \A i \in 1..(Len(z) + Len(s)) : c[i] = IF i <= Len(z) THEN z[i] ELSE s[i - Len(z)]
    BY <1>2, ConcatProperties
<1> HIDE DEF c
<1>4. Len(s) \in Nat
    BY LenProperties
<1>5. \A i \in 1..(1 + Len(s)) : c[i] = IF i = 1 THEN x ELSE s[i - 1]
    BY <1>1, <1>3, <1>4
<1> QED
    BY <1>1, <1>3, <1>5 DEF z, c

(* One more before both keeps a beginning of a sequence one.               *)
LEMMA PrefixMore ==
    ASSUME NEW S, NEW x \in S, NEW s \in Seq(S), NEW t \in Seq(S), IsPrefix(s, t)
    PROVE  IsPrefix(<<x>> \o s, <<x>> \o t)
<1> DEFINE a == <<x>> \o s
           b == <<x>> \o t
           m == Len(s)
           n == Len(t)
<1>1. m \in Nat /\ n \in Nat
    BY LenProperties
<1>2. m <= n /\ \A i \in 1..m : s[i] = t[i]
    BY PrefixElements DEF IsPrefix
<1>3. /\ a \in Seq(S) /\ Len(a) = 1 + m
      /\ \A i \in 1..(1 + m) : a[i] = IF i = 1 THEN x ELSE s[i - 1]
    BY OneBefore
<1>4. /\ b \in Seq(S) /\ Len(b) = 1 + n
      /\ \A i \in 1..(1 + n) : b[i] = IF i = 1 THEN x ELSE t[i - 1]
    BY OneBefore
<1> HIDE DEF a, b, m, n
<1>5. ASSUME NEW i \in 1..(1 + m) PROVE a[i] = b[i]
    <2>1. i \in 1..(1 + n) /\ (i # 1 => i - 1 \in 1..m)
        BY <1>1, <1>2
    <2> QED
        BY <1>2, <1>3, <1>4, <2>1
<1>6. a \in Seq(S) /\ b \in Seq(S) /\ Len(a) <= Len(b) /\ \A i \in 1..Len(a) : a[i] = b[i]
    BY <1>1, <1>2, <1>3, <1>4, <1>5
<1>7. IsPrefix(a, b)
    BY <1>6, PrefixByElement
<1> QED
    BY <1>7 DEF a, b

(* A beginning of a sequence is the one before it and an element.          *)
LEMMA SubSeqNext ==
    ASSUME NEW S, NEW s \in Seq(S), NEW n \in 1..Len(s)
    PROVE  /\ SubSeq(s, 1, n) = Append(SubSeq(s, 1, n - 1), s[n])
           /\ SubSeq(s, 1, n - 1) \in Seq(S) /\ Len(SubSeq(s, 1, n - 1)) = n - 1
           /\ SubSeq(s, 1, n) \in Seq(S) /\ Len(SubSeq(s, 1, n)) = n
<1> DEFINE a == SubSeq(s, 1, n)
           b == SubSeq(s, 1, n - 1)
           c == Append(b, s[n])
<1>1. Len(s) \in Nat /\ n \in Nat /\ n - 1 \in Nat /\ \A i \in 1..Len(s) : s[i] \in S
    BY LenProperties
<1>2. (\A i \in 1..n : s[i] \in S) /\ (\A i \in 1..(n - 1) : s[i] \in S)
    BY <1>1
<1>3. /\ a \in Seq(S) /\ Len(a) = (IF 1 <= n THEN n - 1 + 1 ELSE 0)
      /\ \A i \in 1..(n - 1 + 1) : a[i] = s[1 + i - 1]
    BY <1>1, <1>2, SubSeqProperties, 1 \in Int, n \in Int
<1>4. /\ b \in Seq(S) /\ Len(b) = (IF 1 <= n - 1 THEN (n - 1) - 1 + 1 ELSE 0)
      /\ \A i \in 1..((n - 1) - 1 + 1) : b[i] = s[1 + i - 1]
    BY <1>1, <1>2, SubSeqProperties, 1 \in Int, n - 1 \in Int
<1> HIDE DEF a, b
<1>5. Len(a) = n /\ (\A i \in 1..n : a[i] = s[i])
      /\ Len(b) = n - 1 /\ (\A i \in 1..(n - 1) : b[i] = s[i])
    BY <1>1, <1>3, <1>4
<1>6. s[n] \in S
    BY <1>1
<1>7. /\ c \in Seq(S) /\ Len(c) = Len(b) + 1
      /\ \A i \in 1..Len(b) : c[i] = b[i]
      /\ c[Len(b) + 1] = s[n]
    BY <1>4, <1>6, AppendProperties
<1> HIDE DEF c
<1>8. Len(a) = Len(c) /\ \A i \in 1..Len(a) : a[i] = c[i]
    BY <1>1, <1>5, <1>7
<1>9. a = c
    BY <1>3, <1>7, <1>8, SeqEqual
<1> QED
    BY <1>3, <1>4, <1>5, <1>9 DEF a, b, c

\* P grows row by row, from nothing.
Grown(P, W, N) == P[0] = <<>> /\ \A n \in 1..N : P[n] = P[n - 1] \o W[n]

(* What reads as all the rows reads as each of them at its offset; what is *)
(* cut short is cut in one of them, after the others.                      *)
LEMMA RowsAt ==
    ASSUME NEW S, NEW N \in Nat, NEW P \in [0..N -> Seq(S)], NEW W \in [1..N -> Seq(S)],
           Grown(P, W, N), NEW data \in Seq(S)
    PROVE  \A n \in 0..N :
               /\ At(data, 0, P[n]) => \A k \in 1..n : At(data, Len(P[k - 1]), W[k])
               /\ Cut(data, 0, P[n]) =>
                      \E m \in 1..n : /\ At(data, 0, P[m - 1])
                                      /\ Cut(data, Len(P[m - 1]), W[m])
<1> DEFINE Whole(n) == At(data, 0, P[n]) => \A k \in 1..n : At(data, Len(P[k - 1]), W[k])
           Short(n) == Cut(data, 0, P[n]) =>
                           \E m \in 1..n : /\ At(data, 0, P[m - 1])
                                           /\ Cut(data, Len(P[m - 1]), W[m])
           H == {n \in Nat : Whole(n) /\ Short(n)}
<1>1. 0 \in H
    <2>1. P[0] = <<>> /\ Len(<<>>) = 0 /\ Len(data) \in Nat
        BY EmptySeq, LenProperties DEF Grown
    <2>2. ~Cut(data, 0, P[0])
        BY <2>1 DEF Cut
    <2>3. Whole(0)
        OBVIOUS
    <2> QED
        BY <2>2, <2>3
<1>2. ASSUME NEW n \in 1..N, n - 1 \in H PROVE n \in H
    <2> DEFINE v == P[n - 1]
               w == W[n]
               o == Len(v)
    <2>1. n \in Nat /\ n - 1 \in 0..N /\ n - 1 \in Nat
        OBVIOUS
    <2>2. v \in Seq(S) /\ w \in Seq(S) /\ P[n] = v \o w
        BY <2>1 DEF Grown
    <2>3. Whole(n - 1) /\ Short(n - 1)
        <3> HIDE DEF Whole, Short
        <3> QED
            BY <1>2
    <2> HIDE DEF v, w, o
    <2>4. At(data, 0, v \o w) => At(data, 0, v) /\ At(data, 0 + Len(v), w)
        <3>1. 0 \in Nat
            OBVIOUS
        <3> QED
            BY <2>2, <3>1, AtConcat
    <2>5. Cut(data, 0, v \o w) => Cut(data, 0, v) \/ (At(data, 0, v) /\ Cut(data, 0 + Len(v), w))
        <3>1. 0 \in Nat
            OBVIOUS
        <3> QED
            BY <2>2, <3>1, CutConcat
    <2>6. 0 + Len(v) = o
        BY <2>2, LenProperties DEF o
    <2>7. ASSUME At(data, 0, P[n]) PROVE \A k \in 1..n : At(data, Len(P[k - 1]), W[k])
        <3>1. At(data, 0, v) /\ At(data, o, w)
            BY <2>2, <2>4, <2>6, <2>7
        <3>2. \A k \in 1..(n - 1) : At(data, Len(P[k - 1]), W[k])
            BY <2>3, <3>1 DEF v
        <3>3. \A k \in 1..n : k \in 1..(n - 1) \/ k = n
            BY <2>1
        <3> QED
            BY <3>1, <3>2, <3>3 DEF v, w, o
    <2>8. ASSUME Cut(data, 0, P[n])
          PROVE  \E m \in 1..n : At(data, 0, P[m - 1]) /\ Cut(data, Len(P[m - 1]), W[m])
        <3>1. Cut(data, 0, v) \/ (At(data, 0, v) /\ Cut(data, o, w))
            BY <2>2, <2>5, <2>6, <2>8
        <3>2. CASE Cut(data, 0, v)
            <4>1. PICK m \in 1..(n - 1) : At(data, 0, P[m - 1]) /\ Cut(data, Len(P[m - 1]), W[m])
                BY <2>3, <3>2 DEF v
            <4>2. m \in 1..n
                BY <2>1
            <4> QED
                BY <4>1, <4>2
        <3>3. CASE At(data, 0, v) /\ Cut(data, o, w)
            <4>1. n \in 1..n
                BY <2>1
            <4> QED
                BY <3>3, <4>1 DEF v, w, o
        <3> QED
            BY <3>1, <3>2, <3>3
    <2> QED
        BY <2>1, <2>7, <2>8
<1> HIDE DEF H
<1>3. \A n \in 0..N : n \in H
    BY <1>1, <1>2, AlongInduction
<1> QED
    BY <1>3 DEF H

(* What the last of a sequence is put after is its front.                  *)
LEMMA FrontOfAppend ==
    ASSUME NEW S, NEW u \in Seq(S), NEW x \in S
    PROVE  Front(Append(u, x)) = u /\ Last(Append(u, x)) = x
<1>1. Len(u) \in Nat /\ Len(Append(u, x)) = Len(u) + 1
    BY LenProperties, AppendProperties
<1>2. Len(u) + 1 - 1 = Len(u) /\ Len(u) \in 0..Len(u)
    BY <1>1
<1>3. SubSeq(Append(u, x), 1, Len(u)) = SubSeq(u, 1, Len(u))
    BY <1>2, SubSeqOfAppend
<1>4. SubSeq(u, 1, Len(u)) = u
    BY SubSeqFull
<1> QED
    BY <1>1, <1>2, <1>3, <1>4, EndsOfAppend DEF Front
=============================================================================
