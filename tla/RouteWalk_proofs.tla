-------------------------- MODULE RouteWalk_proofs --------------------------
(***************************************************************************)
(* Proofs about RouteWalk, for any missions whose loops have legs parallel *)
(* to an axis, any places the robot starts from and any tolerances.        *)
(*                                                                         *)
(* The route is built once from the parallel lists of the request          *)
(* (RouteInv).  While a loop is driven, the chunk                          *)
(* on its way ends at the next key waypoint (ChunkOk), and it starts at    *)
(* most one time round after the waypoint whose action ran last, with no   *)
(* other action in between (NotBeyond): what is skipped, blocked and tried *)
(* again cannot go past it.                                                *)
(***************************************************************************)
EXTENDS RouteWalk, SequenceTheorems, FiniteSetTheorems, WellFoundedInduction, TLAPS

----------------------------------------------------------------------------
(* The places of a loop: how far it is from one to another, what lies      *)
(* between.                                                                *)

(* Every set of numbers has a least one.                                   *)
LEMMA LeastNat ==
  ASSUME NEW S \in SUBSET Nat, S # {}
  PROVE  \E x \in S : \A y \in S : x <= y
  <1> DEFINE R == {p \in Nat \X Nat : p[1] < p[2]}
  <1>1. IsWellFoundedOn(R, Nat)
    BY NatLessThanWellFounded DEF OpToRel
  <1> HIDE DEF R
  <1>2. PICK x \in S : \A y \in S : ~(<<y, x>> \in R)
    BY <1>1, WFMin
  <1>3. \A y \in S : ~(y < x)
    BY <1>2 DEF R
  <1> QED BY <1>3

(* Min of such a set is its least number.                                  *)
LEMMA MinIs ==
  ASSUME NEW S \in SUBSET Nat, S # {}
  PROVE  Min(S) \in S /\ \A y \in S : Min(S) <= y
  BY LeastNat DEF Min

(* The remainder, for the numbers the routes need.                         *)
LEMMA ModIs ==
  ASSUME NEW n \in Nat \ {0}, NEW x \in Int
  PROVE  /\ x \in 0..n - 1 => x % n = x
         /\ x \in n..n + n - 1 => x % n = x - n
         /\ x \in 0 - n..0 - 1 => x % n = x + n
  OBVIOUS

(* k places after i, without the remainder.                                *)
LEMMA AheadIs ==
  ASSUME NEW n \in Nat \ {0}, NEW i \in 1..n, NEW k \in 0..n
  PROVE  /\ Ahead(i, k, n) = IF i + k <= n THEN i + k ELSE i + k - n
         /\ Ahead(i, k, n) \in 1..n
  <1>1. i - 1 + k \in Int /\ (i + k <= n => i - 1 + k \in 0..n - 1)
        /\ (~(i + k <= n) => i - 1 + k \in n..n + n - 1)
    OBVIOUS
  <1> DEFINE x == i - 1 + k
  <1>2. x = i - 1 + k
    OBVIOUS
  <1> HIDE DEF x
  <1>3. (x \in 0..n - 1 => x % n = x) /\ (x \in n..n + n - 1 => x % n = x - n)
    BY <1>1, <1>2, ModIs
  <1>4. Ahead(i, k, n) = (x % n) + 1
    BY <1>2 DEF Ahead
  <1> QED BY <1>1, <1>2, <1>3, <1>4

(* How far it is from i to j, going ahead.                                 *)
Gap(i, j, n) == (j - i) % n

LEMMA GapIs ==
  ASSUME NEW n \in Nat \ {0}, NEW i \in 1..n, NEW j \in 1..n
  PROVE  /\ Gap(i, j, n) = IF i <= j THEN j - i ELSE j - i + n
         /\ Gap(i, j, n) \in 0..n - 1
  <1> DEFINE x == j - i
  <1>1. x = j - i /\ x \in Int /\ (i <= j => x \in 0..n - 1) /\ (~(i <= j) => x \in 0 - n..0 - 1)
    OBVIOUS
  <1> HIDE DEF x
  <1>2. (x \in 0..n - 1 => x % n = x) /\ (x \in 0 - n..0 - 1 => x % n = x + n)
    BY <1>1, ModIs
  <1>3. Gap(i, j, n) = x % n
    BY <1>1 DEF Gap
  <1> QED BY <1>1, <1>2, <1>3

(* Ahead and Gap undo each other; going ahead twice is going ahead once.   *)
LEMMA AheadGap ==
  ASSUME NEW n \in Nat \ {0}, NEW i \in 1..n
  PROVE  /\ \A j \in 1..n : Ahead(i, Gap(i, j, n), n) = j
         /\ \A k \in 0..n - 1 : Gap(i, Ahead(i, k, n), n) = k
         /\ Ahead(i, 0, n) = i /\ Ahead(i, n, n) = i
         /\ \A k \in 0..n : \A d \in 0..n - k : Ahead(Ahead(i, k, n), d, n) = Ahead(i, k + d, n)
  <1>1. ASSUME NEW j \in 1..n
        PROVE  Ahead(i, Gap(i, j, n), n) = j
    <2> DEFINE g == Gap(i, j, n)
    <2>1. g = (IF i <= j THEN j - i ELSE j - i + n) /\ g \in 0..n
      BY GapIs
    <2> HIDE DEF g
    <2>2. Ahead(i, g, n) = IF i + g <= n THEN i + g ELSE i + g - n
      BY <2>1, AheadIs
    <2>3. Ahead(i, g, n) = j
      BY <2>1, <2>2
    <2> QED BY <2>3 DEF g
  <1>2. ASSUME NEW k \in 0..n - 1
        PROVE  Gap(i, Ahead(i, k, n), n) = k
    <2> DEFINE a == Ahead(i, k, n)
    <2>1. k \in 0..n
      OBVIOUS
    <2>2. a = (IF i + k <= n THEN i + k ELSE i + k - n) /\ a \in 1..n
      BY <2>1, AheadIs
    <2> HIDE DEF a
    <2>3. Gap(i, a, n) = IF i <= a THEN a - i ELSE a - i + n
      BY <2>2, GapIs
    <2>4. Gap(i, a, n) = k
      BY <2>2, <2>3
    <2> QED BY <2>4 DEF a
  <1>3. Ahead(i, 0, n) = i /\ Ahead(i, n, n) = i
    <2>1. 0 \in 0..n /\ n \in 0..n /\ i + 0 = i /\ i + n - n = i
      OBVIOUS
    <2> QED BY <2>1, AheadIs
  <1>4. ASSUME NEW k \in 0..n, NEW d \in 0..n - k
        PROVE  Ahead(Ahead(i, k, n), d, n) = Ahead(i, k + d, n)
    <2> DEFINE a == Ahead(i, k, n)
               e == k + d
    <2>1. a = (IF i + k <= n THEN i + k ELSE i + k - n) /\ a \in 1..n
      BY AheadIs
    <2>2. d \in 0..n /\ e \in 0..n /\ e = k + d
      OBVIOUS
    <2> HIDE DEF a, e
    <2>3. Ahead(a, d, n) = IF a + d <= n THEN a + d ELSE a + d - n
      BY <2>1, <2>2, AheadIs
    <2>4. Ahead(i, e, n) = IF i + e <= n THEN i + e ELSE i + e - n
      BY <2>2, AheadIs
    <2>5. Ahead(a, d, n) = Ahead(i, e, n)
      BY <2>1, <2>2, <2>3, <2>4
    <2> QED BY <2>5 DEF a, e
  <1> QED BY <1>1, <1>2, <1>3, <1>4

(* What lies between i and j is no further ahead of i than j.              *)
LEMMA BetweenIs ==
  ASSUME NEW n \in Nat \ {0}, NEW i \in 1..n, NEW j \in 1..n
  PROVE  /\ CyclicBetween(i, j, n) \in SUBSET (1..n)
         /\ \A x \in 1..n : x \in CyclicBetween(i, j, n) <=> Gap(i, x, n) <= Gap(i, j, n)
  <1>1. CyclicBetween(i, j, n) \in SUBSET (1..n)
    BY DEF CyclicBetween
  <1>2. ASSUME NEW x \in 1..n
        PROVE  x \in CyclicBetween(i, j, n) <=> Gap(i, x, n) <= Gap(i, j, n)
    <2>1. /\ Gap(i, x, n) = IF i <= x THEN x - i ELSE x - i + n
          /\ Gap(i, j, n) = IF i <= j THEN j - i ELSE j - i + n
      BY GapIs
    <2>2. x \in CyclicBetween(i, j, n) <=> IF i <= j THEN i <= x /\ x <= j ELSE i <= x \/ x <= j
      BY DEF CyclicBetween
    <2> QED BY <2>1, <2>2
  <1> QED BY <1>1, <1>2

(* FirstFrom finds the first member of S ahead of i, and passes none.      *)
LEMMA FirstFromIs ==
  ASSUME NEW n \in Nat \ {0}, NEW i \in 1..n, NEW S \in SUBSET (1..n), NEW loop \in BOOLEAN
  PROVE  \E d \in 0..Room(i, n, loop) :
            /\ FirstFrom(i, S, n, loop) = Ahead(i, d, n)
            /\ d = Room(i, n, loop) \/ Ahead(i, d, n) \in S
            /\ \A e \in 0..d - 1 : Ahead(i, e, n) \notin S
  <1> DEFINE r == Room(i, n, loop)
             D == {Gap(i, j, n) : j \in S} \cup {r}
             d == Min(D)
  <1>1. r \in 0..n - 1
    BY DEF Room
  <1>2. D \in SUBSET Nat /\ r \in D
    BY <1>1, GapIs
  <1>3. d \in D /\ \A y \in D : d <= y
    <2> HIDE DEF D
    <2> QED BY <1>2, MinIs
  <1>4. FirstFrom(i, S, n, loop) = Ahead(i, d, n)
    BY DEF FirstFrom, Gap
  <1>5. d \in 0..r /\ d \in 0..n - 1
    <2> HIDE DEF D, d, r
    <2>1. d \in Nat /\ d <= r
      BY <1>2, <1>3
    <2> QED BY <1>1, <2>1
  <1>6. d = r \/ Ahead(i, d, n) \in S
    <2> SUFFICES ASSUME d # r PROVE Ahead(i, d, n) \in S
      OBVIOUS
    <2>1. PICK j \in S : d = Gap(i, j, n)
      BY <1>3
    <2>2. Ahead(i, Gap(i, j, n), n) = j
      BY AheadGap
    <2> HIDE DEF d
    <2> QED BY <2>1, <2>2
  <1>7. ASSUME NEW e \in 0..d - 1
        PROVE  Ahead(i, e, n) \notin S
    <2> DEFINE j == Ahead(i, e, n)
    <2> SUFFICES ASSUME j \in S PROVE FALSE
      OBVIOUS
    <2>1. e \in 0..n - 1
      <3> HIDE DEF d
      <3> QED BY <1>5
    <2>2. Gap(i, j, n) = e
      BY <2>1, AheadGap
    <2> HIDE DEF j
    <2>3. e \in D
      BY <2>2
    <2>4. d <= e
      <3> HIDE DEF d, D
      <3> QED BY <1>3, <2>3
    <2> HIDE DEF d
    <2> QED BY <1>5, <2>4
  <1> HIDE DEF d, r
  <1> QED BY <1>4, <1>5, <1>6, <1>7 DEF r

(* FirstFrom in a loop.                                                    *)
LEMMA FirstFromLoop ==
  ASSUME NEW n \in Nat \ {0}, NEW i \in 1..n, NEW S \in SUBSET (1..n)
  PROVE  \E d \in 0..n - 1 :
            /\ FirstFrom(i, S, n, TRUE) = Ahead(i, d, n)
            /\ d = n - 1 \/ Ahead(i, d, n) \in S
            /\ \A e \in 0..d - 1 : Ahead(i, e, n) \notin S
  <1> DEFINE loop == TRUE
  <1>1. loop \in BOOLEAN /\ Room(i, n, loop) = n - 1
    BY DEF Room
  <1> HIDE DEF loop
  <1>2. \E d \in 0..n - 1 :
            /\ FirstFrom(i, S, n, loop) = Ahead(i, d, n)
            /\ d = n - 1 \/ Ahead(i, d, n) \in S
            /\ \A e \in 0..d - 1 : Ahead(i, e, n) \notin S
    BY <1>1, FirstFromIs
  <1> QED BY <1>2 DEF loop

----------------------------------------------------------------------------
(* Sequences put together: what FlattenSeq makes of the legs.              *)

(* What FlattenSeq computes on the way.                                    *)
Flattened(seqs) ==
    LET flatten[i \in 1..Len(seqs)] == IF i = 1 THEN seqs[i] ELSE flatten[i - 1] \o seqs[i]
    IN  flatten

(* The recursive function that FlattenSeq defines satisfies its equation.  *)
LEMMA FlattenedIs ==
  ASSUME NEW seqs, Len(seqs) \in Nat
  PROVE  \A i \in 1..Len(seqs) : Flattened(seqs)[i] =
            IF i = 1 THEN seqs[i] ELSE Flattened(seqs)[i - 1] \o seqs[i]
  <1> DEFINE N == Len(seqs)
             Solves(g, m) == \A i \in 1..m : g[i] = IF i = 1 THEN seqs[i] ELSE g[i - 1] \o seqs[i]
             Missing == {m \in 0..N : \A g : ~Solves(g, m)}
             F(g) == [i \in 1..N |-> IF i = 1 THEN seqs[i] ELSE g[i - 1] \o seqs[i]]
             f == Flattened(seqs)
  <1>1. Missing = {}
    <2> SUFFICES ASSUME Missing # {} PROVE FALSE
      OBVIOUS
    <2>1. PICK m \in Missing : \A j \in Missing : m <= j
      <3>1. Missing \in SUBSET Nat
        OBVIOUS
      <3> HIDE DEF Missing
      <3> QED BY <3>1, LeastNat
    <2>2. m \in 0..N /\ \A g : ~Solves(g, m)
      BY <2>1
    <2>3. m # 0
      <3>1. \A g : Solves(g, 0)
        OBVIOUS
      <3> HIDE DEF Solves
      <3> QED BY <2>2, <3>1
    <2>4. m - 1 \in 0..N /\ m - 1 \notin Missing /\ m \in 1..N
      <3>1. m - 1 \in 0..N /\ ~(m <= m - 1) /\ m \in 1..N
        BY <2>2, <2>3
      <3> HIDE DEF Missing
      <3> QED BY <2>1, <3>1
    <2>5. PICK g : Solves(g, m - 1)
      <3> HIDE DEF Solves
      <3> QED BY <2>4
    <2> DEFINE h == [i \in 1..m |-> IF i # m THEN g[i] ELSE
                        IF i = 1 THEN seqs[i] ELSE g[i - 1] \o seqs[i]]
    <2>6. ASSUME NEW i \in 1..m
          PROVE  h[i] = IF i = 1 THEN seqs[i] ELSE h[i - 1] \o seqs[i]
      <3>1. CASE i = m
        <4>1. i # 1 => i - 1 \in 1..m /\ i - 1 # m
          BY <3>1, <2>4
        <4>2. i # 1 => h[i - 1] = g[i - 1]
          BY <4>1
        <4>3. h[i] = IF i = 1 THEN seqs[i] ELSE g[i - 1] \o seqs[i]
          BY <3>1
        <4> HIDE DEF h
        <4> QED BY <4>2, <4>3
      <3>2. CASE i # m
        <4>1. i \in 1..m - 1 /\ (i # 1 => i - 1 \in 1..m /\ i - 1 # m)
          BY <3>2, <2>4
        <4>2. h[i] = g[i] /\ (i # 1 => h[i - 1] = g[i - 1])
          BY <4>1, <3>2
        <4>3. g[i] = IF i = 1 THEN seqs[i] ELSE g[i - 1] \o seqs[i]
          BY <2>5, <4>1
        <4> HIDE DEF h
        <4> QED BY <4>2, <4>3
      <3> QED BY <3>1, <3>2
    <2>7. Solves(h, m)
      <3> HIDE DEF h
      <3> QED BY <2>6
    <2> HIDE DEF Solves, h
    <2> QED BY <2>2, <2>7
  <1>2. PICK g : Solves(g, N)
    <2>1. N \in 0..N /\ N \notin Missing
      BY <1>1
    <2> HIDE DEF Solves
    <2> QED BY <2>1
  <1> DEFINE r == [i \in 1..N |-> g[i]]
  <1>3. r = F(r)
    <2>1. ASSUME NEW i \in 1..N
          PROVE  r[i] = IF i = 1 THEN seqs[i] ELSE r[i - 1] \o seqs[i]
      <3>1. i # 1 => i - 1 \in 1..N
        OBVIOUS
      <3>2. r[i] = g[i] /\ (i # 1 => r[i - 1] = g[i - 1])
        BY <3>1
      <3>3. g[i] = IF i = 1 THEN seqs[i] ELSE g[i - 1] \o seqs[i]
        BY <1>2
      <3> HIDE DEF r
      <3> QED BY <3>2, <3>3
    <2>2. r = [i \in 1..N |-> r[i]]
      OBVIOUS
    <2> HIDE DEF r
    <2> QED BY <2>1, <2>2
  <1>4. f = CHOOSE h : h = F(h)
    BY DEF Flattened
  <1>5. f = F(f)
    <2> HIDE DEF r, f, F
    <2> QED BY <1>3, <1>4
  <1> HIDE DEF f
  <1>6. \A i \in 1..N : f[i] = IF i = 1 THEN seqs[i] ELSE f[i - 1] \o seqs[i]
    BY <1>5
  <1> QED BY <1>6 DEF f

LEMMA FlattenSeqIs ==
  ASSUME NEW seqs, Len(seqs) \in Nat \ {0}
  PROVE  FlattenSeq(seqs) = Flattened(seqs)[Len(seqs)]
  BY DEF FlattenSeq, Flattened

(* Each element is followed by one that R relates it to.                   *)
Chain(s, R) == \A k \in 1..Len(s) - 1 : <<s[k], s[k + 1]>> \in R
Filled(T) == {s \in Seq(T) : Len(s) > 0}

(* Two chains, joined by a pair that R relates.                            *)
LEMMA JoinedChain ==
  ASSUME NEW T, NEW R, NEW u \in Filled(T), NEW v \in Filled(T),
         Chain(u, R), Chain(v, R), <<u[Len(u)], v[1]>> \in R
  PROVE  /\ u \o v \in Filled(T) /\ Chain(u \o v, R)
         /\ (u \o v)[1] = u[1] /\ (u \o v)[Len(u \o v)] = v[Len(v)]
         /\ \A k \in 1..Len(u) : k \in 1..Len(u \o v) /\ (u \o v)[k] = u[k]
         /\ Len(u) + 1 \in 1..Len(u \o v) /\ (u \o v)[Len(u) + 1] = v[1]
         /\ \A k \in 1..Len(u \o v) : k <= Len(u) \/ k = Len(u) + 1
                \/ \E j \in 2..Len(v) : (u \o v)[k] = v[j]
         /\ Len(u) \in Nat
  <1> DEFINE w == u \o v
             a == Len(u)
             b == Len(v)
  <1>1. a \in Nat /\ b \in Nat /\ a > 0 /\ b > 0
    BY LenProperties DEF Filled
  <1>2. /\ w \in Seq(T) /\ Len(w) = a + b
        /\ \A i \in 1..a + b : w[i] = IF i <= a THEN u[i] ELSE v[i - a]
    BY ConcatProperties DEF Filled
  <1>3. /\ \A k \in 1..a - 1 : <<u[k], u[k + 1]>> \in R
        /\ \A k \in 1..b - 1 : <<v[k], v[k + 1]>> \in R
        /\ <<u[a], v[1]>> \in R
    BY DEF Chain
  <1> HIDE DEF w, a, b
  <1>4. ASSUME NEW k \in 1..a + b - 1
        PROVE  <<w[k], w[k + 1]>> \in R
    <2> DEFINE j == k + 1
               h == k - a
    <2>1. j = k + 1 /\ j \in 1..a + b /\ k \in 1..a + b /\ h = k - a /\ j - a = h + 1
      BY <1>1
    <2> HIDE DEF j, h
    <2>2. /\ w[k] = IF k <= a THEN u[k] ELSE v[h]
          /\ w[j] = IF j <= a THEN u[j] ELSE v[h + 1]
      BY <1>2, <2>1
    <2>3. CASE k < a
      <3>1. k <= a /\ j <= a /\ k \in 1..a - 1
        BY <1>1, <2>1, <2>3
      <3>2. <<u[k], u[j]>> \in R
        BY <1>3, <2>1, <3>1
      <3> QED BY <2>1, <2>2, <3>1, <3>2
    <2>4. CASE k = a
      <3>1. k <= a /\ ~(j <= a) /\ h = 0
        BY <1>1, <2>1, <2>4
      <3> QED BY <1>3, <2>1, <2>2, <2>4, <3>1
    <2>5. CASE k > a
      <3>1. ~(k <= a) /\ ~(j <= a) /\ h \in 1..b - 1
        BY <1>1, <2>1, <2>5
      <3>2. <<v[h], v[h + 1]>> \in R
        BY <1>3, <3>1
      <3> QED BY <2>1, <2>2, <3>1, <3>2
    <2>6. a \in Int /\ k \in Int
      BY <1>1
    <2> QED BY <2>3, <2>4, <2>5, <2>6
  <1>5. Chain(w, R) /\ w \in Filled(T)
    BY <1>1, <1>2, <1>4 DEF Chain, Filled
  <1>6. w[1] = u[1] /\ w[Len(w)] = v[b]
    <2> DEFINE e == a + b
    <2>1. 1 \in 1..e /\ 1 <= a /\ e \in 1..e /\ ~(e <= a) /\ e - a = b
      BY <1>1
    <2>2. Len(w) = e /\ \A i \in 1..e : w[i] = IF i <= a THEN u[i] ELSE v[i - a]
      BY <1>2
    <2> HIDE DEF e
    <2>3. w[1] = u[1]
      BY <2>1, <2>2
    <2>4. w[e] = v[e - a]
      BY <2>1, <2>2
    <2> QED BY <2>1, <2>2, <2>3, <2>4
  <1>7. \A k \in 1..a : k \in 1..Len(w) /\ w[k] = u[k]
    BY <1>1, <1>2
  <1>8. a + 1 \in 1..Len(w) /\ w[a + 1] = v[1]
    <2> DEFINE e == a + 1
    <2>1. e = a + 1 /\ e \in 1..a + b /\ ~(e <= a) /\ e - a = 1
      BY <1>1
    <2> HIDE DEF e
    <2>2. w[e] = v[e - a]
      BY <1>2, <2>1
    <2> QED BY <1>2, <2>1, <2>2
  <1>9. ASSUME NEW k \in 1..Len(w), ~(k <= a), k # a + 1
        PROVE  \E j \in 2..b : w[k] = v[j]
    <2>1. k \in 1..a + b /\ k - a \in 2..b
      BY <1>1, <1>2, <1>9
    <2> QED BY <1>2, <1>9, <2>1
  <1> QED BY <1>1, <1>5, <1>6, <1>7, <1>8, <1>9 DEF w, a, b

(* The first n of b are in s, in their order, at pos; all else in s is a   *)
(* member of F.                                                            *)
Spread(b, n, s, pos, F) ==
    /\ pos \in [1..n -> 1..Len(s)]
    /\ \A i, j \in 1..n : i < j => pos[i] < pos[j]
    /\ \A i \in 1..n : s[pos[i]] = b[i]
    /\ \A k \in 1..Len(s) : (\E i \in 1..n : k = pos[i]) \/ s[k] \in F

(* The first n parts have been put together to s.                          *)
Assembled(seqs, n, s, T, R) ==
    /\ s \in Filled(T) /\ Chain(s, R)
    /\ s[1] = seqs[1][1] /\ s[Len(s)] = seqs[n][Len(seqs[n])]

(* FlattenSeq of chains that R joins is a chain, with their beginnings in  *)
(* their order.                                                            *)
LEMMA FlattenAssembles ==
  ASSUME NEW T, NEW R, NEW F, NEW seqs \in Seq(Filled(T)), Len(seqs) > 0,
         \A i \in 1..Len(seqs) : Chain(seqs[i], R),
         \A i \in 1..Len(seqs) - 1 : <<seqs[i][Len(seqs[i])], seqs[i + 1][1]>> \in R,
         NEW b, \A i \in 1..Len(seqs) : seqs[i][1] = b[i],
         \A i \in 1..Len(seqs) : \A j \in 2..Len(seqs[i]) : seqs[i][j] \in F
  PROVE  /\ Assembled(seqs, Len(seqs), FlattenSeq(seqs), T, R)
         /\ \E pos : Spread(b, Len(seqs), FlattenSeq(seqs), pos, F)
  <1> DEFINE N == Len(seqs)
             f == Flattened(seqs)
             Good(n) == Assembled(seqs, n, f[n], T, R) /\ \E pos : Spread(b, n, f[n], pos, F)
             Bad == {n \in 1..N : ~Good(n)}
  <1>1. N \in Nat \ {0} /\ \A i \in 1..N : seqs[i] \in Filled(T)
    BY LenProperties, ElementOfSeq
  <1>2. \A i \in 1..N : f[i] = IF i = 1 THEN seqs[i] ELSE f[i - 1] \o seqs[i]
    BY <1>1, FlattenedIs
  <1>3. FlattenSeq(seqs) = f[N]
    BY <1>1, FlattenSeqIs
  <1>4. /\ \A i \in 1..N : Chain(seqs[i], R)
        /\ \A i \in 1..N - 1 : <<seqs[i][Len(seqs[i])], seqs[i + 1][1]>> \in R
        /\ \A i \in 1..N : seqs[i][1] = b[i]
        /\ \A i \in 1..N : \A j \in 2..Len(seqs[i]) : seqs[i][j] \in F
    OBVIOUS
  <1> HIDE DEF N, f
  <1>5. Bad = {}
    <2> SUFFICES ASSUME Bad # {} PROVE FALSE
      OBVIOUS
    <2>1. PICK n \in Bad : \A j \in Bad : n <= j
      <3>1. Bad \in SUBSET Nat
        OBVIOUS
      <3> HIDE DEF Bad
      <3> QED BY <3>1, LeastNat
    <2>2. n \in 1..N /\ ~Good(n)
      BY <2>1
    <2>3. CASE n = 1
      <3> DEFINE s == seqs[1]
                 pos == [i \in 1..1 |-> 1]
      <3>1. f[n] = s /\ s \in Filled(T) /\ Chain(s, R) /\ s[1] = b[1]
            /\ \A j \in 2..Len(s) : s[j] \in F
        BY <1>1, <1>2, <1>4, <2>2, <2>3
      <3>2. Len(s) \in Nat /\ Len(s) > 0
        BY <3>1, LenProperties DEF Filled
      <3> HIDE DEF s
      <3>3. pos \in [1..1 -> 1..Len(s)] /\ pos[1] = 1
        BY <3>2
      <3>4. \A k \in 1..Len(s) : k = 1 \/ k \in 2..Len(s)
        BY <3>2
      <3> HIDE DEF pos
      <3>5. Spread(b, 1, s, pos, F)
        BY <3>1, <3>2, <3>3, <3>4 DEF Spread
      <3>6. Assembled(seqs, n, s, T, R)
        BY <2>3, <3>1 DEF Assembled, s
      <3> QED BY <2>2, <2>3, <3>1, <3>5, <3>6
    <2>4. CASE n # 1
      <3>1. n - 1 \in 1..N /\ n - 1 \notin Bad /\ n - 1 \in 1..N - 1 /\ n - 1 + 1 = n
        <4>1. n - 1 \in 1..N /\ ~(n <= n - 1) /\ n - 1 \in 1..N - 1 /\ n - 1 + 1 = n
          BY <1>1, <2>2, <2>4
        <4> HIDE DEF Bad
        <4> QED BY <2>1, <4>1
      <3> DEFINE u == f[n - 1]
                 v == seqs[n]
      <3>2. Assembled(seqs, n - 1, u, T, R) /\ \E pos : Spread(b, n - 1, u, pos, F)
        BY <3>1
      <3>3. v \in Filled(T) /\ Chain(v, R) /\ f[n] = u \o v /\ v[1] = b[n]
            /\ \A j \in 2..Len(v) : v[j] \in F
        BY <1>1, <1>2, <1>4, <2>2, <2>4
      <3>4. <<u[Len(u)], v[1]>> \in R
        <4>1. u[Len(u)] = seqs[n - 1][Len(seqs[n - 1])]
          BY <3>2 DEF Assembled
        <4> HIDE DEF u
        <4> QED BY <1>4, <3>1, <4>1
      <3>5. u \in Filled(T) /\ Chain(u, R)
        BY <3>2 DEF Assembled
      <3> HIDE DEF u
      <3> DEFINE w == u \o v
      <3>6. /\ w \in Filled(T) /\ Chain(w, R)
            /\ w[1] = u[1] /\ w[Len(w)] = v[Len(v)]
            /\ \A k \in 1..Len(u) : k \in 1..Len(w) /\ w[k] = u[k]
            /\ Len(u) + 1 \in 1..Len(w) /\ w[Len(u) + 1] = v[1]
            /\ \A k \in 1..Len(w) : k <= Len(u) \/ k = Len(u) + 1 \/ \E j \in 2..Len(v) : w[k] = v[j]
            /\ Len(u) \in Nat
        <4> HIDE DEF v
        <4> QED BY <3>3, <3>4, <3>5, JoinedChain
      <3>7. Assembled(seqs, n, w, T, R)
        <4> HIDE DEF w
        <4> QED BY <3>2, <3>6 DEF Assembled
      <3> HIDE DEF v, w
      <3>8. PICK pos : Spread(b, n - 1, u, pos, F)
        BY <3>2
      <3> DEFINE l == Len(u) + 1
                 next == [i \in 1..n |-> IF i = n THEN l ELSE pos[i]]
      <3>9. /\ \A i \in 1..n - 1 : pos[i] \in 1..Len(u) /\ u[pos[i]] = b[i]
            /\ \A i, j \in 1..n - 1 : i < j => pos[i] < pos[j]
            /\ \A k \in 1..Len(u) : (\E i \in 1..n - 1 : k = pos[i]) \/ u[k] \in F
        BY <3>8 DEF Spread
      <3>10. n \in Nat /\ \A i \in 1..n : i = n \/ i \in 1..n - 1
        BY <2>2
      <3>11. /\ next[n] = l /\ \A i \in 1..n - 1 : i \in 1..n /\ next[i] = pos[i]
             /\ next \in [1..n -> 1..Len(w)]
        <4>1. n \in 1..n /\ \A i \in 1..n - 1 : i \in 1..n /\ i # n
          BY <2>2
        <4>2. \A i \in 1..n - 1 : pos[i] \in 1..Len(w)
          BY <3>6, <3>9
        <4>3. l \in 1..Len(w)
          BY <3>6
        <4> QED BY <3>10, <4>1, <4>2, <4>3
      <3>12. \A i \in 1..n - 1 : pos[i] < l
        BY <3>6, <3>9
      <3> HIDE DEF next, l
      <3>13. \A i, j \in 1..n : i < j => next[i] < next[j]
        <4> TAKE i, j \in 1..n
        <4>1. i < j => i # n
          BY <3>10
        <4> QED BY <3>9, <3>10, <3>11, <3>12, <4>1
      <3>14. \A i \in 1..n : w[next[i]] = b[i]
        <4>1. w[l] = b[n]
          BY <3>3, <3>6 DEF l
        <4>2. \A i \in 1..n - 1 : w[pos[i]] = b[i]
          BY <3>6, <3>9
        <4> QED BY <3>10, <3>11, <4>1, <4>2
      <3>15. ASSUME NEW k \in 1..Len(w)
             PROVE  (\E i \in 1..n : k = next[i]) \/ w[k] \in F
        <4>1. CASE k <= Len(u)
          <5>1. k \in 1..Len(u) /\ w[k] = u[k]
            BY <3>6, <4>1
          <5>2. CASE \E i \in 1..n - 1 : k = pos[i]
            <6>1. PICK i \in 1..n - 1 : k = pos[i]
              BY <5>2
            <6>2. i \in 1..n /\ next[i] = k
              BY <3>11, <6>1
            <6> QED BY <6>2
          <5> QED BY <3>9, <5>1, <5>2
        <4>2. CASE k = l
          <5>1. n \in 1..n
            BY <2>2
          <5> QED BY <3>11, <4>2, <5>1
        <4>3. CASE \E j \in 2..Len(v) : w[k] = v[j]
          BY <3>3, <4>3
        <4> QED BY <3>6, <4>1, <4>2, <4>3 DEF l
      <3>16. Spread(b, n, w, next, F)
        BY <3>11, <3>13, <3>14, <3>15 DEF Spread
      <3> QED BY <2>2, <3>3, <3>7, <3>16 DEF w
    <2> QED BY <2>3, <2>4
  <1>6. N \in 1..N /\ N \notin Bad
    BY <1>1, <1>5
  <1> QED BY <1>3, <1>6 DEF N

----------------------------------------------------------------------------
(* Arithmetic of the points that fill a leg.                               *)

(* Division rounds down.                                                   *)
LEMMA DivIs ==
  ASSUME NEW p \in Nat \ {0}, NEW x \in Int
  PROVE  x \div p \in Int /\ p * (x \div p) <= x /\ x < p * (x \div p) + p
  OBVIOUS

(* A product with p, compared and split.                                   *)
LEMMA TimesIs ==
  ASSUME NEW p \in Nat \ {0}, NEW a \in Int, NEW b \in Int
  PROVE  /\ p * a \in Int /\ (p * a < p * b => a < b)
         /\ p * (a + b) = p * a + p * b /\ p * (a - b) = p * a - p * b
  <1>1. p * a \in Int /\ p * b \in Int
    OBVIOUS
  <1>2. p * (a + b) = p * a + p * b /\ p * (a - b) = p * a - p * b
    OBVIOUS
  <1>3. ASSUME p * a < p * b PROVE a < b
    <2> SUFFICES ASSUME ~(a < b) PROVE FALSE
      OBVIOUS
    <2>1. a - b \in Nat
      OBVIOUS
    <2>2. p * (a - b) \in Nat
      BY <2>1
    <2> QED BY <1>1, <1>2, <1>3, <2>2
  <1> QED BY <1>1, <1>2, <1>3

(* Squares compare as their roots do.                                      *)
LEMMA SquareIs ==
  ASSUME NEW a \in Int
  PROVE  /\ Sq(a) \in Nat
         /\ \A b \in Nat : Sq(a) <= Sq(b) <=> (a <= b /\ 0 - b <= a)
         /\ (Sq(a) = 0 <=> a = 0)
  <1>1. a * a \in Nat /\ (a * a = 0 <=> a = 0)
    OBVIOUS
  <1>2. ASSUME NEW b \in Nat
        PROVE  a * a <= b * b <=> (a <= b /\ 0 - b <= a)
    OBVIOUS
  <1> QED BY <1>1, <1>2 DEF Sq

(* One more d moves the quotient by no more than d / p, rounded up.        *)
LEMMA DivMoves ==
  ASSUME NEW p \in Nat \ {0}, NEW r \in Nat, NEW d \in Int, d <= p * r, 0 - (p * r) <= d,
         NEW k \in Nat
  PROVE  /\ (d * (k + 1)) \div p - (d * k) \div p <= r
         /\ 0 - r <= (d * (k + 1)) \div p - (d * k) \div p
         /\ (d * k) \div p \in Int
  <1> DEFINE x == d * k
             y == d * (k + 1)
             u == x \div p
             v == y \div p
             m == p * r
  <1>1. x \in Int /\ y \in Int /\ y = x + d
    OBVIOUS
  <1>2. m \in Int /\ d <= m /\ 0 - m <= d
    OBVIOUS
  <1>3. /\ u \in Int /\ p * u <= x /\ x < p * u + p
        /\ v \in Int /\ p * v <= y /\ y < p * v + p
    <2> HIDE DEF x, y
    <2> QED BY <1>1, DivIs
  <1> HIDE DEF x, y, u, v
  <1>4. p * u \in Int /\ p * v \in Int /\ v - u \in Int /\ r + 1 \in Int
        /\ p * (v - u) = p * v - p * u /\ p * (r + 1) = m + p
    <2>1. p * 1 = p /\ r \in Int /\ 1 \in Int
      OBVIOUS
    <2> QED BY <1>3, <2>1, TimesIs
  <1>5. p * (v - u) < p * (r + 1)
    <2> HIDE DEF m
    <2> QED BY <1>1, <1>2, <1>3, <1>4
  <1>6. v - u < r + 1
    BY <1>4, <1>5, TimesIs
  <1>7. p * (u - v) < p * (r + 1) /\ u - v \in Int
    <2>1. p * (u - v) = p * u - p * v
      BY <1>3, TimesIs
    <2> HIDE DEF m
    <2> QED BY <1>1, <1>2, <1>3, <1>4, <2>1
  <1>8. u - v < r + 1
    BY <1>4, <1>7, TimesIs
  <1>9. v - u <= r /\ 0 - r <= v - u /\ u \in Int
    BY <1>3, <1>6, <1>8
  <1> QED BY <1>9 DEF u, v, x, y

(* The first and the last of the points that fill a leg are its ends.      *)
LEMMA DivEnds ==
  ASSUME NEW p \in Nat \ {0}, NEW d \in Int
  PROVE  (d * p) \div p = d /\ (d * 0) \div p = 0
  <1>1. ASSUME NEW e \in Int PROVE (e * p) \div p = e
    <2> DEFINE x == e * p
               q == x \div p
    <2>1. x \in Int /\ x = p * e
      OBVIOUS
    <2>2. q \in Int /\ p * q <= x /\ x < p * q + p
      <3> HIDE DEF x
      <3> QED BY <2>1, DivIs
    <2> HIDE DEF x, q
    <2>3. p * (q + 1) = p * q + p /\ p * q \in Int /\ p * e \in Int
      <3>1. p * 1 = p
        OBVIOUS
      <3> QED BY <2>2, <3>1, TimesIs
    <2>4. p * e < p * (q + 1) /\ q + 1 \in Int
      BY <2>1, <2>2, <2>3
    <2>5. e < q + 1
      BY <2>4, TimesIs
    <2>6. p * (q - 1) = p * q - p /\ q - 1 \in Int
      <3>1. p * 1 = p
        OBVIOUS
      <3> QED BY <2>2, <3>1, TimesIs
    <2>7. p * (q - 1) < p * e
      BY <2>1, <2>2, <2>3, <2>6
    <2>8. q - 1 < e
      BY <2>6, <2>7, TimesIs
    <2>9. q = e
      BY <2>2, <2>5, <2>8
    <2> QED BY <2>9 DEF q, x
  <1>2. (d * 0) = 0 * p /\ 0 \in Int
    OBVIOUS
  <1> QED BY <1>1, <1>2

(* A squared distance is a number.                                         *)
LEMMA D2Is ==
  ASSUME NEW p \in Places, NEW q \in Places
  PROVE  /\ p[1] \in Int /\ p[2] \in Int /\ D2(p, q) \in Nat
         /\ D2(p, q) = Sq(p[1] - q[1]) + Sq(p[2] - q[2])
  <1>1. p[1] \in Int /\ p[2] \in Int /\ q[1] \in Int /\ q[2] \in Int
    BY DEF Places
  <1>2. p[1] - q[1] \in Int /\ p[2] - q[2] \in Int
    BY <1>1
  <1>3. Sq(p[1] - q[1]) \in Nat /\ Sq(p[2] - q[2]) \in Nat
    BY <1>2, SquareIs
  <1> QED BY <1>1, <1>3 DEF D2

(* A leg is cut into as many pieces as keep it within the spacing.         *)
LEMMA PiecesIs ==
  ASSUME NEW a \in Places, NEW b \in Places
  PROVE  Pieces(a, b) \in Nat \ {0} /\ D2(a, b) <= Sq(Pieces(a, b) * Spacing)
  <1> DEFINE d == D2(a, b)
             K == {k \in 1..1 + d : Sq(k * Spacing) >= d}
             m == Min(K)
  <1>1. d \in Nat
    BY D2Is
  <1> HIDE DEF d
  <1>2. Spacing \in Nat \ {0}
    BY SpacingAssumption
  <1>3. 1 + d \in K
    <2> DEFINE k == 1 + d
               l == k * Spacing
    <2>1. k \in Nat \ {0} /\ k \in 1..1 + d /\ d <= k
      BY <1>1
    <2>2. l \in Nat /\ k <= l
      BY <1>2, <2>1
    <2> HIDE DEF l, k
    <2>3. l <= l * l /\ l * l \in Nat
      BY <2>1, <2>2
    <2>4. l * l >= d
      BY <1>1, <2>1, <2>2, <2>3
    <2>5. Sq(l) >= d
      BY <2>4 DEF Sq
    <2> QED BY <2>1, <2>5 DEF l, k
  <1>4. K \in SUBSET Nat
    OBVIOUS
  <1>5. m \in K
    <2> HIDE DEF K
    <2> QED BY <1>3, <1>4, MinIs
  <1>6. m \in Nat \ {0} /\ d <= Sq(m * Spacing)
    <2> HIDE DEF m
    <2>1. m \in 1..1 + d /\ Sq(m * Spacing) >= d
      BY <1>5
    <2>2. m * Spacing \in Int
      BY <1>1, <1>2, <2>1
    <2>3. Sq(m * Spacing) \in Nat
      BY <2>2, SquareIs
    <2> QED BY <1>1, <2>1, <2>3
  <1>7. Max({1, m}) = m
    <2> HIDE DEF m
    <2>1. m \in {1, m} /\ \A x \in {1, m} : m >= x
      BY <1>6
    <2>2. \A y \in {1, m} : (\A x \in {1, m} : y >= x) => y = m
      BY <1>6
    <2> QED BY <2>1, <2>2 DEF Max
  <1>8. Pieces(a, b) = Max({1, m})
    BY DEF Pieces, d
  <1> HIDE DEF m
  <1> QED BY <1>6, <1>7, <1>8 DEF d

(* Where the pieces of a leg end.                                          *)
Piece(a, b, k) ==
    <<a[1] + ((b[1] - a[1]) * k) \div Pieces(a, b), a[2] + ((b[2] - a[2]) * k) \div Pieces(a, b)>>

(* Each piece of a leg parallel to an axis is within the spacing.          *)
LEMMA PieceIs ==
  ASSUME NEW a \in Places, NEW b \in Places
  PROVE  /\ Piece(a, b, 0) = a /\ Piece(a, b, Pieces(a, b)) = b
         /\ \A k \in Nat : Piece(a, b, k) \in Places
         /\ Parallel(a, b) => \A k \in Nat : D2(Piece(a, b, k), Piece(a, b, k + 1)) <= Sq(Spacing)
  <1> DEFINE p == Pieces(a, b)
             d == b[1] - a[1]
             e == b[2] - a[2]
  <1>1. p \in Nat \ {0} /\ D2(a, b) <= Sq(p * Spacing)
    BY PiecesIs
  <1>2. /\ a[1] \in Int /\ a[2] \in Int /\ b[1] \in Int /\ b[2] \in Int
        /\ a = <<a[1], a[2]>> /\ b = <<b[1], b[2]>>
    BY DEF Places
  <1>3. d \in Int /\ e \in Int /\ b[1] = a[1] + d /\ b[2] = a[2] + e
    BY <1>2
  <1>4. \A k : Piece(a, b, k) = <<a[1] + (d * k) \div p, a[2] + (e * k) \div p>>
    BY DEF Piece
  <1>5. Spacing \in Nat
    BY SpacingAssumption
  <1>6. D2(a, b) = Sq(0 - d) + Sq(0 - e)
    <2>1. a[1] - b[1] = 0 - d /\ a[2] - b[2] = 0 - e
      BY <1>2, <1>3
    <2> QED BY <2>1 DEF D2
  <1> DEFINE same == Parallel(a, b)
  <1>7. same <=> (d = 0 \/ e = 0)
    BY <1>2 DEF Parallel
  <1> HIDE DEF p, d, e, same
  <1>8. Piece(a, b, 0) = a /\ Piece(a, b, p) = b
    <2>1. (d * 0) \div p = 0 /\ (e * 0) \div p = 0 /\ (d * p) \div p = d /\ (e * p) \div p = e
      BY <1>1, <1>3, DivEnds
    <2>2. Piece(a, b, 0) = <<a[1] + 0, a[2] + 0>> /\ Piece(a, b, p) = <<a[1] + d, a[2] + e>>
      BY <1>4, <2>1
    <2>3. a[1] + 0 = a[1] /\ a[2] + 0 = a[2]
      BY <1>2
    <2> QED BY <1>2, <1>3, <2>2, <2>3
  <1>9. ASSUME NEW k \in Nat
        PROVE  (d * k) \div p \in Int /\ (e * k) \div p \in Int
    <2>1. d * k \in Int /\ e * k \in Int
      BY <1>3
    <2> QED BY <1>1, <2>1, DivIs
  <1>10. \A k \in Nat : Piece(a, b, k) \in Places
    BY <1>2, <1>4, <1>9 DEF Places
  <1>11. ASSUME same, NEW k \in Nat
         PROVE  D2(Piece(a, b, k), Piece(a, b, k + 1)) <= Sq(Spacing)
    <2> DEFINE r == p * Spacing
               x == (d * k) \div p
               y == (d * (k + 1)) \div p
               u == (e * k) \div p
               v == (e * (k + 1)) \div p
    <2>0. r \in Nat /\ k + 1 \in Nat
      BY <1>1, <1>5
    <2>1. x \in Int /\ y \in Int /\ u \in Int /\ v \in Int
      BY <1>9, <2>0
    <2>2. Sq(0 - d) + Sq(0 - e) <= Sq(r)
      BY <1>1, <1>6
    <2>3. Sq(0 - d) \in Nat /\ Sq(0 - e) \in Nat /\ Sq(r) \in Nat
      <3>1. 0 - d \in Int /\ 0 - e \in Int /\ r \in Int
        BY <1>3, <2>0
      <3> HIDE DEF r
      <3> QED BY <3>1, SquareIs
    <2>4. Sq(0 - d) <= Sq(r) /\ Sq(0 - e) <= Sq(r)
      <3> HIDE DEF r
      <3> QED BY <2>2, <2>3
    <2>5. d <= r /\ 0 - r <= d /\ e <= r /\ 0 - r <= e
      <3>1. 0 - d \in Int /\ 0 - e \in Int
        BY <1>3
      <3> HIDE DEF r
      <3>2. 0 - d <= r /\ 0 - r <= 0 - d /\ 0 - e <= r /\ 0 - r <= 0 - e
        BY <2>0, <2>4, <3>1, SquareIs
      <3> QED BY <1>3, <2>0, <3>2
    <2>6. y - x <= Spacing /\ 0 - Spacing <= y - x /\ v - u <= Spacing /\ 0 - Spacing <= v - u
      BY <1>1, <1>3, <1>5, <2>5, DivMoves
    <2>7. d = 0 => x = 0 /\ y = 0
      <3> SUFFICES ASSUME d = 0 PROVE x = 0 /\ y = 0
        OBVIOUS
      <3>1. d * k = 0 * p /\ d * (k + 1) = 0 * p
        BY <1>1, <2>0
      <3>2. (0 * p) \div p = 0
        BY <1>1, DivEnds
      <3> QED BY <3>1, <3>2
    <2>8. e = 0 => u = 0 /\ v = 0
      <3> SUFFICES ASSUME e = 0 PROVE u = 0 /\ v = 0
        OBVIOUS
      <3>1. e * k = 0 * p /\ e * (k + 1) = 0 * p
        BY <1>1, <2>0
      <3>2. (0 * p) \div p = 0
        BY <1>1, DivEnds
      <3> QED BY <3>1, <3>2
    <2> DEFINE s == (a[1] + x) - (a[1] + y)
               t == (a[2] + u) - (a[2] + v)
    <2>9. D2(Piece(a, b, k), Piece(a, b, k + 1)) = Sq(s) + Sq(t)
      BY <1>4 DEF D2
    <2> HIDE DEF x, y, u, v
    <2>10. s = x - y /\ t = u - v /\ s \in Int /\ t \in Int
      BY <1>2, <2>1
    <2>11. s <= Spacing /\ 0 - Spacing <= s /\ t <= Spacing /\ 0 - Spacing <= t
      <3> HIDE DEF s, t
      <3> QED BY <1>5, <2>1, <2>6, <2>10
    <2>12. s = 0 \/ t = 0
      <3> HIDE DEF s, t
      <3> QED BY <1>7, <1>11, <2>7, <2>8, <2>10
    <2> HIDE DEF s, t
    <2>13. Sq(s) <= Sq(Spacing) /\ Sq(t) <= Sq(Spacing) /\ Sq(s) \in Nat /\ Sq(t) \in Nat
      BY <1>5, <2>10, <2>11, SquareIs
    <2>14. Sq(Spacing) \in Nat
      <3>1. Spacing \in Int
        BY <1>5
      <3> QED BY <3>1, SquareIs
    <2>15. Sq(s) = 0 \/ Sq(t) = 0
      BY <2>10, <2>12, SquareIs
    <2> QED BY <2>9, <2>13, <2>14, <2>15
  <1> QED BY <1>8, <1>10, <1>11 DEF p, same

----------------------------------------------------------------------------
(* The route built from a mission (expand_route_waypoints_with_actions).   *)

Synthetic == {w \in Waypoints : w.act = FALSE /\ w.key = FALSE}
\* What a route made of base consists of, and how far one is from the next.
Kept(base) == {base[i] : i \in DOMAIN base} \cup Synthetic
Close(base, loop) ==
    {w \in Kept(base) \X Kept(base) : loop => D2(w[1].at, w[2].at) <= Sq(Spacing)}

(* A function on 1..n is a sequence of length n.                           *)
LEMMA SeqIs ==
  ASSUME NEW T, NEW n \in Nat, NEW f \in [1..n -> T]
  PROVE  f \in Seq(T) /\ Len(f) = n
  <1>1. f \in Seq(T)
    BY SeqDef
  <1>2. DOMAIN f = 1..Len(f) /\ Len(f) \in Nat
    BY <1>1, LenProperties
  <1>3. DOMAIN f = 1..n
    OBVIOUS
  <1> DEFINE l == Len(f)
  <1> HIDE DEF l
  <1>4. 1..l = 1..n /\ l \in Nat
    BY <1>2, <1>3 DEF l
  <1>5. l = n
    <2>1. n # 0 => n \in 1..l
      BY <1>4
    <2>2. l # 0 => l \in 1..n
      BY <1>4
    <2> QED BY <1>4, <2>1, <2>2
  <1> QED BY <1>1, <1>5 DEF l

(* What fills a leg is synthetic, and lies at the ends of its pieces.      *)
LEMMA FillIs ==
  ASSUME NEW a \in Places, NEW b \in Places
  PROVE  /\ Fill(a, b) \in Seq(Synthetic) /\ Len(Fill(a, b)) = Pieces(a, b) - 1
         /\ \A k \in 1..Pieces(a, b) - 1 : Fill(a, b)[k].at = Piece(a, b, k)
  <1> DEFINE n == Pieces(a, b) - 1
             W(k) == [at |-> Piece(a, b, k), act |-> FALSE, key |-> FALSE]
  <1>1. n \in Nat
    BY PiecesIs
  <1>2. Fill(a, b) = [k \in 1..n |-> W(k)]
    BY DEF Fill, Piece
  <1>3. ASSUME NEW k \in 1..n
        PROVE  W(k) \in Synthetic /\ W(k).at = Piece(a, b, k)
    <2>1. Piece(a, b, k) \in Places
      BY <1>1, PieceIs
    <2> QED BY <2>1 DEF Synthetic, Waypoints
  <1> DEFINE f == [k \in 1..n |-> W(k)]
  <1>4. f \in [1..n -> Synthetic]
    <2> HIDE DEF W, n
    <2> QED BY <1>3
  <1>5. \A k \in 1..n : f[k].at = Piece(a, b, k)
    <2> HIDE DEF W, n
    <2> QED BY <1>3
  <1> HIDE DEF f, n
  <1>6. f \in Seq(Synthetic) /\ Len(f) = n
    BY <1>1, <1>4, SeqIs
  <1>7. Fill(a, b) = f
    BY <1>2 DEF f
  <1> QED BY <1>5, <1>6, <1>7 DEF n

Leg(base, i, loop) ==
    <<base[i]>> \o IF i < Len(base) \/ loop
                   THEN Fill(base[i].at, base[Ahead(i, 1, Len(base))].at) ELSE <<>>

LEMMA ElementIs ==
  ASSUME NEW base \in Seq(Waypoints), NEW i \in 1..Len(base)
  PROVE  base[i] \in Waypoints /\ base[i].at \in Places /\ base[i] \in Kept(base)
  <1>1. base[i] \in Waypoints /\ i \in DOMAIN base
    BY ElementOfSeq, LenProperties
  <1> QED BY <1>1 DEF Kept, Waypoints

(* A leg: its waypoint and what fills the way to the next one.             *)
LEMMA LegIs ==
  ASSUME NEW base \in Seq(Waypoints), NEW loop \in BOOLEAN, NEW i \in 1..Len(base),
         loop => Straight(base)
  PROVE  /\ Leg(base, i, loop) \in Filled(Kept(base)) /\ Leg(base, i, loop)[1] = base[i]
         /\ Chain(Leg(base, i, loop), Close(base, loop))
         /\ <<Leg(base, i, loop)[Len(Leg(base, i, loop))], base[Ahead(i, 1, Len(base))]>>
                \in Close(base, loop)
         /\ \A j \in 2..Len(Leg(base, i, loop)) : Leg(base, i, loop)[j] \in Synthetic
  <1> DEFINE n == Len(base)
             next == Ahead(i, 1, n)
             w == base[i]
             z == base[next]
             one == <<w>>
             fill == IF i < n \/ loop THEN Fill(w.at, z.at) ELSE <<>>
             l == one \o fill
             T == Kept(base)
             R == Close(base, loop)
  <1>1. n \in Nat \ {0} /\ i \in 1..n /\ 1 \in 0..n
    BY LenProperties
  <1>2. next \in 1..n
    <2> HIDE DEF n
    <2> QED BY <1>1, AheadIs
  <1>3. w \in T /\ z \in T /\ w.at \in Places /\ z.at \in Places
    BY <1>2, ElementIs
  <1>4. loop => Parallel(w.at, z.at)
    BY LenProperties DEF Straight
  <1>5. /\ Synthetic \in SUBSET T
        /\ \A u \in T, v \in T : <<u, v>> \in R <=> (loop => D2(u.at, v.at) <= Sq(Spacing))
    BY DEF Kept, Close
  <1>6. one \in Seq(T) /\ Len(one) = 1 /\ one[1] = w
    BY <1>3
  <1>7. Leg(base, i, loop) = l
    BY DEF Leg
  <1> HIDE DEF n, next, w, z, T, R
  <1>8. CASE i < n \/ loop
    <2> DEFINE a == w.at
               b == z.at
               p == Pieces(a, b)
               f == Fill(a, b)
    <2>1. p \in Nat \ {0}
      BY <1>3, PiecesIs
    <2>2. f \in Seq(Synthetic) /\ Len(f) = p - 1 /\ \A k \in 1..p - 1 : f[k].at = Piece(a, b, k)
      BY <1>3, FillIs
    <2>3. Piece(a, b, 0) = a /\ Piece(a, b, p) = b
      BY <1>3, PieceIs
    <2>4. loop => \A k \in Nat : D2(Piece(a, b, k), Piece(a, b, k + 1)) <= Sq(Spacing)
      BY <1>3, <1>4, PieceIs
    <2> DEFINE s == one \o f
    <2>5. l = s
      BY <1>8
    <2>6. f \in Seq(T)
      <3> HIDE DEF f
      <3>1. \A k \in 1..Len(f) : f[k] \in T
        BY <1>5, <2>2, ElementOfSeq
      <3>2. f \in [1..Len(f) -> T] /\ Len(f) \in Nat
        BY <2>2, <3>1, LenProperties
      <3> QED BY <3>2, SeqDef
    <2> HIDE DEF a, b, p, f, one
    <2>7. /\ s \in Seq(T) /\ Len(s) = p
          /\ \A k \in 1..p : s[k] = IF k <= 1 THEN one[k] ELSE f[k - 1]
      <3> DEFINE x == Len(one)
                 y == Len(f)
      <3>1. s \in Seq(T) /\ Len(s) = x + y
            /\ \A k \in 1..x + y : s[k] = IF k <= x THEN one[k] ELSE f[k - x]
        BY <1>6, <2>6, ConcatProperties
      <3>2. x + y = p /\ x = 1
        BY <1>6, <2>1, <2>2
      <3> HIDE DEF x, y, s
      <3> QED BY <3>1, <3>2
    <2> HIDE DEF s
    <2>8. s[1] = w
      BY <1>6, <2>1, <2>7
    <2>9. ASSUME NEW k \in 1..p
          PROVE  s[k] \in T /\ s[k].at = Piece(a, b, k - 1)
      <3>1. s[k] \in T
        BY <2>7, ElementOfSeq
      <3>2. CASE k = 1
        BY <2>3, <2>8, <3>1, <3>2 DEF a
      <3>3. CASE k # 1
        <4>1. k - 1 \in 1..p - 1 /\ ~(k <= 1)
          BY <2>1, <3>3
        <4>2. s[k] = f[k - 1]
          BY <2>7, <4>1
        <4> QED BY <2>2, <3>1, <4>1, <4>2
      <3> QED BY <3>2, <3>3
    <2>10. Chain(s, R)
      <3> SUFFICES ASSUME NEW k \in 1..p - 1
                   PROVE  <<s[k], s[k + 1]>> \in R
        BY <2>7 DEF Chain
      <3> DEFINE j == k + 1
      <3>1. k \in 1..p /\ j \in 1..p /\ k - 1 \in Nat /\ j - 1 = (k - 1) + 1
        BY <2>1
      <3> HIDE DEF j
      <3>2. s[k] \in T /\ s[k].at = Piece(a, b, k - 1) /\ s[j] \in T /\ s[j].at = Piece(a, b, j - 1)
        BY <2>9, <3>1
      <3>3. loop => D2(s[k].at, s[j].at) <= Sq(Spacing)
        BY <2>4, <3>1, <3>2
      <3>4. <<s[k], s[j]>> \in R
        BY <1>5, <3>2, <3>3
      <3> QED BY <3>4 DEF j
    <2>11. <<s[p], z>> \in R
      <3>1. p \in 1..p /\ p - 1 \in Nat /\ (p - 1) + 1 = p
        BY <2>1
      <3>2. s[p] \in T /\ s[p].at = Piece(a, b, p - 1)
        BY <2>9, <3>1
      <3>3. loop => D2(s[p].at, b) <= Sq(Spacing)
        BY <2>3, <2>4, <3>1, <3>2
      <3> QED BY <1>3, <1>5, <3>2, <3>3 DEF b
    <2>12. s \in Filled(T)
      BY <2>1, <2>7 DEF Filled
    <2>13. \A k \in 2..p : s[k] \in Synthetic
      <3> TAKE k \in 2..p
      <3>1. k \in 1..p /\ ~(k <= 1) /\ k - 1 \in 1..p - 1
        BY <2>1
      <3>2. \A h \in 1..p - 1 : f[h] \in Synthetic
        BY <2>2, ElementOfSeq
      <3> QED BY <2>7, <3>1, <3>2
    <2> QED BY <1>7, <2>5, <2>7, <2>8, <2>10, <2>11, <2>12, <2>13 DEF T, R, w, z, next, n
  <1>9. CASE ~(i < n \/ loop)
    <2>1. l = one
      BY <1>6, <1>9, ConcatEmptySeq
    <2> HIDE DEF one, l
    <2>2. one \in Filled(T) /\ Chain(one, R)
      <3>1. one \in Filled(T)
        <4>1. one \in Seq(T) /\ Len(one) > 0
          BY <1>6
        <4> QED BY <4>1 DEF Filled
      <3>2. 1..Len(one) - 1 = {}
        BY <1>6
      <3> QED BY <3>1, <3>2 DEF Chain
    <2>3. <<one[1], z>> \in R
      BY <1>3, <1>5, <1>6, <1>9
    <2>4. 2..Len(one) = {}
      BY <1>6
    <2> QED BY <1>6, <1>7, <2>1, <2>2, <2>3, <2>4 DEF T, R, w, z, next, n
  <1> QED BY <1>8, <1>9

(* expand_route_waypoints_with_actions keeps what it is given in its       *)
(* order, adds nothing but synthetic points, and leaves no leg of a loop   *)
(* longer than the spacing.                                                *)
LEMMA ExpandIs ==
  ASSUME NEW base \in Seq(Waypoints), Len(base) > 0, NEW loop \in BOOLEAN,
         loop => Straight(base)
  PROVE  /\ Expand(base, loop) \in Filled(Kept(base))
         /\ \E pos : Spread(base, Len(base), Expand(base, loop), pos, Synthetic)
         /\ Expand(base, loop)[1] = base[1]
         /\ Len(base) = 1 => Expand(base, loop) = base
         /\ loop => \A k \in 1..Len(Expand(base, loop)) :
                D2(Expand(base, loop)[k].at,
                   Expand(base, loop)[Ahead(k, 1, Len(Expand(base, loop)))].at) <= Sq(Spacing)
  <1> DEFINE n == Len(base)
             T == Kept(base)
             R == Close(base, loop)
             seqs == [i \in 1..n |-> Leg(base, i, loop)]
             r == Expand(base, loop)
  <1>1. /\ n \in Nat \ {0}
        /\ \A i \in 1..n : base[i] \in Waypoints /\ base[i].at \in Places /\ base[i] \in T
    BY LenProperties, ElementIs
  <1>2. \A u \in T, v \in T : <<u, v>> \in R <=> (loop => D2(u.at, v.at) <= Sq(Spacing))
    BY DEF Close
  <1>3. r = IF n = 1 THEN base ELSE FlattenSeq(seqs)
    BY DEF Expand, Leg
  <1>4. \A i \in 1..n :
            /\ seqs[i] \in Filled(T) /\ seqs[i][1] = base[i] /\ Chain(seqs[i], R)
            /\ <<seqs[i][Len(seqs[i])], base[Ahead(i, 1, n)]>> \in R
            /\ \A j \in 2..Len(seqs[i]) : seqs[i][j] \in Synthetic
    BY LegIs
  <1>5. seqs \in [1..n -> Filled(T)]
    BY <1>4
  <1> HIDE DEF n, T, R, seqs, r
  <1>6. CASE n = 1
    <2>1. r = base
      BY <1>3, <1>6
    <2>2. base \in Filled(T)
      <3>1. base \in [1..n -> T]
        BY <1>1, LenProperties DEF n
      <3> QED BY <1>1, <3>1, SeqIs DEF Filled
    <2>3. \A k \in 1..n : k = 1 /\ Ahead(k, 1, n) = 1 /\ D2(base[1].at, base[1].at) <= Sq(Spacing)
      <3>1. 1 \in 1..n /\ \A k \in 1..n : k = 1
        BY <1>6
      <3>2. Ahead(1, 1, n) = 1
        BY <1>1, <1>6, AheadGap
      <3> DEFINE a == base[1].at
      <3>3. D2(a, a) = Sq(a[1] - a[1]) + Sq(a[2] - a[2]) /\ a[1] \in Int /\ a[2] \in Int
        BY <1>1, <3>1, D2Is
      <3>4. Sq(0) = 0
        BY DEF Sq
      <3>5. Sq(Spacing) \in Nat
        <4>1. Spacing \in Int
          BY SpacingAssumption
        <4> QED BY <4>1, SquareIs
      <3> HIDE DEF a
      <3>6. a[1] - a[1] = 0 /\ a[2] - a[2] = 0
        BY <3>3
      <3>7. D2(a, a) <= Sq(Spacing)
        BY <3>3, <3>4, <3>5, <3>6
      <3> QED BY <3>1, <3>2, <3>7 DEF a
    <2>4. Spread(base, n, r, [i \in 1..1 |-> 1], Synthetic)
      <3> DEFINE pos == [i \in 1..1 |-> 1]
      <3>1. pos[1] = 1 /\ pos \in [1..1 -> 1..1]
        OBVIOUS
      <3>2. Len(r) = 1 /\ r = base
        BY <1>6, <2>1 DEF n
      <3> HIDE DEF pos
      <3>3. Spread(base, 1, r, pos, Synthetic)
        BY <3>1, <3>2 DEF Spread
      <3> QED BY <1>6, <3>3 DEF pos
    <2> QED BY <2>1, <2>2, <2>3, <2>4 DEF n, T, R, r
  <1>7. CASE n # 1
    <2>1. seqs \in Seq(Filled(T)) /\ Len(seqs) = n
      BY <1>1, <1>5, SeqIs
    <2>2. \A i \in 1..n - 1 : <<seqs[i][Len(seqs[i])], seqs[i + 1][1]>> \in R
      <3> TAKE i \in 1..n - 1
      <3>1. i \in 1..n /\ i + 1 \in 1..n /\ 1 \in 0..n /\ i + 1 <= n
        BY <1>1
      <3>2. Ahead(i, 1, n) = i + 1
        BY <1>1, <3>1, AheadIs
      <3>3. <<seqs[i][Len(seqs[i])], base[Ahead(i, 1, n)]>> \in R
        BY <1>4, <3>1
      <3>4. seqs[i + 1][1] = base[i + 1]
        BY <1>4, <3>1
      <3> QED BY <3>2, <3>3, <3>4
    <2>3. Assembled(seqs, n, r, T, R) /\ \E pos : Spread(base, n, r, pos, Synthetic)
      <3>1. r = FlattenSeq(seqs)
        BY <1>3, <1>7
      <3>2. n > 0
        BY <1>1
      <3>3. /\ \A i \in 1..n : Chain(seqs[i], R) /\ seqs[i][1] = base[i]
            /\ \A i \in 1..n : \A j \in 2..Len(seqs[i]) : seqs[i][j] \in Synthetic
        BY <1>4
      <3> QED BY <2>1, <2>2, <3>1, <3>2, <3>3, FlattenAssembles
    <2> DEFINE l == Len(r)
    <2>4. /\ r \in Filled(T) /\ \A k \in 1..l - 1 : <<r[k], r[k + 1]>> \in R
          /\ r[1] = seqs[1][1] /\ r[l] = seqs[n][Len(seqs[n])]
      BY <2>3 DEF Assembled, Chain
    <2>5. l \in Nat \ {0} /\ \A k \in 1..l : r[k] \in T
      BY <2>4, LenProperties, ElementOfSeq DEF Filled
    <2> HIDE DEF l
    <2>7. <<r[l], r[1]>> \in R
      <3>1. n \in 1..n /\ 1 \in 1..n /\ 1 \in 0..n /\ ~(n + 1 <= n) /\ n + 1 - n = 1
        BY <1>1
      <3>2. Ahead(n, 1, n) = 1
        <4>1. Ahead(n, 1, n) = IF n + 1 <= n THEN n + 1 ELSE n + 1 - n
          BY <1>1, <3>1, AheadIs
        <4> QED BY <3>1, <4>1
      <3>3. <<seqs[n][Len(seqs[n])], base[1]>> \in R
        BY <1>4, <3>1, <3>2
      <3>4. r[1] = base[1]
        BY <1>4, <2>4, <3>1
      <3> QED BY <2>4, <3>3, <3>4
    <2>8. ASSUME loop, NEW k \in 1..l
          PROVE  D2(r[k].at, r[Ahead(k, 1, l)].at) <= Sq(Spacing)
      <3>1. 1 \in 0..l
        BY <2>5
      <3>2. Ahead(k, 1, l) = IF k + 1 <= l THEN k + 1 ELSE k + 1 - l
        BY <2>5, <3>1, AheadIs
      <3>3. <<r[k], r[Ahead(k, 1, l)]>> \in R /\ Ahead(k, 1, l) \in 1..l
        <4>1. CASE k = l
          <5>1. Ahead(k, 1, l) = 1 /\ 1 \in 1..l
            BY <2>5, <3>2, <4>1
          <5> QED BY <2>7, <4>1, <5>1
        <4>2. CASE k # l
          <5>1. k \in 1..l - 1 /\ Ahead(k, 1, l) = k + 1 /\ k + 1 \in 1..l
            BY <2>5, <3>2, <4>2
          <5> QED BY <2>4, <5>1
        <4> QED BY <4>1, <4>2
      <3> QED BY <1>2, <2>5, <2>8, <3>3
    <2>9. r[1] = base[1]
      <3>1. 1 \in 1..n
        BY <1>1
      <3> QED BY <1>4, <2>4, <3>1
    <2> QED BY <1>7, <2>3, <2>4, <2>8, <2>9 DEF n, T, R, r, l
  <1> QED BY <1>6, <1>7

(* The k-th key waypoint of a route has the k-th index                     *)
(* (expanded_input_indices).                                               *)
Numbered(b, n, r, pos, indices) ==
    /\ \A i \in 1..Len(r) : IsKey(r[i]) <=> \E k \in 1..n : i = pos[k]
    /\ \A k \in 1..n : /\ pos[k] \in 1..Len(r) /\ r[pos[k]] = b[k]
                       /\ ExpandedInputs(r, indices)[pos[k]] = Number(indices, k)
    /\ \A j, k \in 1..n : pos[j] < pos[k] => j < k

LEMMA NumbersAre ==
  ASSUME NEW b, NEW n \in Nat, \A k \in 1..n : b[k].key = TRUE,
         NEW r \in Seq(Waypoints), NEW pos, Spread(b, n, r, pos, Synthetic), NEW indices
  PROVE  Numbered(b, n, r, pos, indices)
  <1> DEFINE l == Len(r)
  <1>1. /\ l \in Nat /\ DOMAIN r = 1..l
        /\ \A k \in 1..n : pos[k] \in 1..l /\ r[pos[k]] = b[k]
        /\ \A j, k \in 1..n : j < k => pos[j] < pos[k]
        /\ \A i \in 1..l : (\E k \in 1..n : i = pos[k]) \/ r[i] \in Synthetic
    BY LenProperties DEF Spread
  <1> HIDE DEF l
  <1>2. \A j, k \in 1..n : /\ pos[j] < pos[k] => j < k
                           /\ pos[j] <= pos[k] => j <= k
                           /\ pos[j] = pos[k] => j = k
    BY <1>1
  <1>3. \A i \in 1..l : IsKey(r[i]) <=> \E k \in 1..n : i = pos[k]
    <2> TAKE i \in 1..l
    <2>1. ASSUME NEW k \in 1..n, i = pos[k]
          PROVE  IsKey(r[i])
      BY <1>1, <2>1 DEF IsKey
    <2>2. r[i] \in Synthetic => ~IsKey(r[i])
      BY DEF IsKey, Synthetic
    <2> QED BY <1>1, <2>1, <2>2
  <1>4. ASSUME NEW k \in 1..n
        PROVE  ExpandedInputs(r, indices)[pos[k]] = Number(indices, k)
    <2> DEFINE K == {j \in 1..pos[k] : IsKey(r[j])}
               f == [i \in 1..k |-> pos[i]]
    <2>1. pos[k] \in 1..l /\ IsKey(r[pos[k]]) /\ k \in Nat
      BY <1>1, <1>3
    <2>2. ASSUME NEW i \in 1..k
          PROVE  f[i] \in K
      <3>1. i \in 1..n /\ (i = k \/ i < k)
        BY <2>1
      <3>2. pos[i] \in 1..l /\ pos[i] <= pos[k] /\ IsKey(r[pos[i]])
        BY <1>1, <1>3, <2>1, <3>1
      <3>3. pos[i] \in 1..pos[k]
        BY <2>1, <3>2
      <3> QED BY <3>2, <3>3
    <2>3. ASSUME NEW j \in K
          PROVE  \E i \in 1..k : f[i] = j
      <3>1. j \in 1..l /\ IsKey(r[j]) /\ j <= pos[k]
        BY <2>1, <1>1
      <3>2. PICK i \in 1..n : j = pos[i]
        BY <1>3, <3>1
      <3>3. i \in 1..k
        BY <1>2, <2>1, <3>1, <3>2
      <3> QED BY <3>2, <3>3
    <2>4. f \in [1..k -> K]
      <3> HIDE DEF K
      <3> QED BY <2>2
    <2>5. \A h, i \in 1..k : f[h] = f[i] => h = i
      <3>1. \A i \in 1..k : i \in 1..n
        BY <2>1
      <3> QED BY <1>2, <3>1
    <2> HIDE DEF f, K
    <2>6. f \in Bijection(1..k, K)
      BY <2>3, <2>4, <2>5 DEF Bijection, Injection, Surjection, IsInjective
    <2>7. Cardinality(K) = k
      BY <2>1, <2>6, FS_CountingElements DEF ExistsBijection
    <2>8. ExpandedInputs(r, indices)[pos[k]] =
              IF IsKey(r[pos[k]]) THEN Number(indices, Cardinality(K)) ELSE 0
      BY <1>1, <2>1 DEF ExpandedInputs, K
    <2> QED BY <2>1, <2>7, <2>8
  <1> QED BY <1>1, <1>2, <1>3, <1>4 DEF l, Numbered

----------------------------------------------------------------------------
(* The mission turned to where the robot is (prepare_route_waypoints).     *)

LEMMA StopIs ==
  ASSUME NEW base \in Seq(Stops), NEW i \in 1..Len(base)
  PROVE  base[i] \in Stops /\ base[i].at \in Places
  <1>1. base[i] \in Stops
    BY ElementOfSeq
  <1> QED BY <1>1 DEF Stops

(* There is a waypoint that is closest to p.                               *)
LEMMA ClosestIs ==
  ASSUME NEW base \in Seq(Stops), Len(base) > 0, NEW p \in Places
  PROVE  Closest(base, p) \in 1..Len(base)
  <1> DEFINE n == Len(base)
             dist(i) == D2(p, base[i].at)
             All == {dist(i) : i \in 1..n}
             Best(i) == \A j \in 1..n : dist(i) < dist(j) \/ (dist(i) = dist(j) /\ i <= j)
  <1>1. n \in Nat \ {0} /\ DOMAIN base = 1..n
    BY LenProperties
  <1>2. \A i \in 1..n : dist(i) \in Nat
    BY StopIs, D2Is
  <1>3. Closest(base, p) = CHOOSE i \in 1..n : Best(i)
    BY <1>1 DEF Closest
  <1> HIDE DEF n, dist
  <1>4. PICK x \in All : \A y \in All : x <= y
    <2>1. All \in SUBSET Nat /\ All # {}
      BY <1>1, <1>2
    <2> HIDE DEF All
    <2> QED BY <2>1, LeastNat
  <1> DEFINE Least == {i \in 1..n : dist(i) = x}
  <1>5. PICK i \in Least : \A j \in Least : i <= j
    <2>1. Least \in SUBSET Nat /\ Least # {}
      BY <1>4
    <2> HIDE DEF Least
    <2> QED BY <2>1, LeastNat
  <1>6. i \in 1..n /\ dist(i) = x
    BY <1>5
  <1>7. ASSUME NEW j \in 1..n
        PROVE  dist(i) < dist(j) \/ (dist(i) = dist(j) /\ i <= j)
    <2>1. x <= dist(j) /\ x \in Nat /\ dist(j) \in Nat
      BY <1>2, <1>4, <1>6
    <2>2. dist(j) = x => i <= j
      BY <1>5
    <2> QED BY <1>6, <2>1, <2>2
  <1>8. \E h \in 1..n : Best(h)
    BY <1>6, <1>7
  <1> HIDE DEF Best
  <1> QED BY <1>3, <1>8 DEF n

(* A mission is joined at a waypoint of its own.                           *)
LEMMA JoinedIs ==
  ASSUME NEW base \in Seq(Stops), Len(base) > 0, NEW p, NEW loop \in BOOLEAN, NEW tol
  PROVE  Joined(base, p, loop, tol) \in SUBSET (1..Len(base))
  <1> DEFINE n == Len(base)
  <1>1. n \in Nat \ {0} /\ 1 \in 0..n
    BY LenProperties
  <1> HIDE DEF n
  <1>2. \A i \in 1..n : Ahead(i, 1, n) \in 1..n
    BY <1>1, AheadIs
  <1>3. Legs(base, loop) \in SUBSET (1..n)
    BY <1>1 DEF Legs, n
  <1> QED BY <1>2, <1>3 DEF Joined, n

(* A mission that is not refused has a first waypoint.                     *)
LEMMA FirstWaypointIs ==
  ASSUME NEW base \in Seq(Stops), Len(base) > 0, NEW p \in Places, NEW loop \in BOOLEAN,
         ~Refused(base, p, loop)
  PROVE  FirstWaypoint(base, p, loop) \in 1..Len(base)
  <1> DEFINE n == Len(base)
             joined == Joined(base, p, loop, Max({Reached, StartNear}))
             turn == IF joined = {} THEN 1 ELSE Min(joined)
             away == Away(base, p)
             near == DOMAIN base \ away
  <1>1. n \in Nat \ {0} /\ DOMAIN base = 1..n /\ n \in 1..n /\ 1 \in 1..n
    BY LenProperties
  <1>2. joined \in SUBSET (1..n)
    BY JoinedIs
  <1>3. away \in SUBSET (1..n)
    BY <1>1 DEF Away
  <1>4. ~loop => away # {}
    BY <1>1 DEF Refused, Away, Last
  <1>5. Closest(base, p) \in 1..n
    BY ClosestIs
  <1>6. FirstWaypoint(base, p, loop) =
            IF loop
            THEN IF n = 1 THEN 1
                 ELSE IF near = {} THEN turn
                 ELSE FirstFrom(Closest(base, p), away, n, TRUE)
            ELSE IF 1 \in near THEN Min(away) ELSE turn
    BY DEF FirstWaypoint
  <1> HIDE DEF n, joined, away, near
  <1>7. turn \in 1..n
    <2>1. joined # {} => Min(joined) \in joined
      <3>1. joined \in SUBSET Nat
        BY <1>2
      <3> QED BY <3>1, MinIs
    <2> QED BY <1>1, <1>2, <2>1
  <1>8. ~loop => Min(away) \in 1..n
    <2>1. away \in SUBSET Nat
      BY <1>3
    <2>2. away # {} => Min(away) \in away
      BY <2>1, MinIs
    <2> QED BY <1>3, <1>4, <2>2
  <1>9. FirstFrom(Closest(base, p), away, n, TRUE) \in 1..n
    <2> DEFINE i == Closest(base, p)
    <2>1. i \in 1..n
      BY <1>5
    <2> HIDE DEF i
    <2>2. PICK d \in 0..n - 1 : /\ FirstFrom(i, away, n, TRUE) = Ahead(i, d, n)
                                /\ d = n - 1 \/ Ahead(i, d, n) \in away
                                /\ \A e \in 0..d - 1 : Ahead(i, e, n) \notin away
      BY <1>1, <1>3, <2>1, FirstFromLoop
    <2>3. d \in 0..n
      BY <1>1, <2>2
    <2>4. Ahead(i, d, n) \in 1..n
      BY <1>1, <2>1, <2>3, AheadIs
    <2> QED BY <2>2, <2>4 DEF i
  <1> HIDE DEF turn
  <1> QED BY <1>1, <1>6, <1>7, <1>8, <1>9 DEF n

(* A list that is turned starts at the i-th element and goes on as before. *)
LEMMA TurnedIs ==
  ASSUME NEW T, NEW base \in Seq(T), Len(base) > 0, NEW i \in 1..Len(base)
  PROVE  /\ Turned(base, i) \in Seq(T) /\ Len(Turned(base, i)) = Len(base)
         /\ \A k \in 1..Len(base) : Turned(base, i)[k] = base[Ahead(i, k - 1, Len(base))]
  <1> DEFINE n == Len(base)
             u == SubSeq(base, i, n)
             v == SubSeq(base, 1, i - 1)
             t == u \o v
  <1>1. n \in Nat \ {0} /\ i \in 1..n /\ \A k \in 1..n : base[k] \in T
    BY LenProperties, ElementOfSeq
  <1>2. /\ u \in Seq(T) /\ Len(u) = n - i + 1
        /\ \A k \in 1..n - i + 1 : u[k] = base[i + k - 1]
    <2>1. i \in Int /\ n \in Int /\ i <= n
      BY <1>1
    <2>2. \A k \in i..n : base[k] \in T
      BY <1>1
    <2> HIDE DEF n
    <2> QED BY <2>1, <2>2, SubSeqProperties
  <1>3. /\ v \in Seq(T) /\ Len(v) = i - 1
        /\ \A k \in 1..i - 1 : v[k] = base[k]
    <2> DEFINE m == i - 1
    <2>1. m \in Nat /\ m = i - 1
      BY <1>1
    <2>2. \A k \in 1..m : base[k] \in T
      BY <1>1
    <2> HIDE DEF m, n
    <2>3. CASE m = 0
      <3>1. SubSeq(base, 1, m) = <<>>
        BY <2>3, SubSeqEmpty
      <3> QED BY <2>1, <2>3, <3>1 DEF m
    <2>4. CASE m # 0
      <3>1. /\ SubSeq(base, 1, m) \in Seq(T) /\ Len(SubSeq(base, 1, m)) = m - 1 + 1
            /\ \A k \in 1..m - 1 + 1 : SubSeq(base, 1, m)[k] = base[1 + k - 1]
        <4>1. 1 \in Int /\ m \in Int /\ 1 <= m
          BY <2>1, <2>4
        <4> QED BY <2>2, <4>1, SubSeqProperties
      <3>2. m - 1 + 1 = m /\ \A k \in 1..m : 1 + k - 1 = k
        BY <2>1
      <3> QED BY <3>1, <3>2 DEF m
    <2> QED BY <2>3, <2>4
  <1>4. Turned(base, i) = t
    BY DEF Turned
  <1> HIDE DEF u, v, n
  <1>5. t \in Seq(T) /\ Len(t) = n
        /\ \A k \in 1..n : t[k] = IF k <= Len(u) THEN u[k] ELSE v[k - Len(u)]
    <2> DEFINE x == Len(u)
               y == Len(v)
    <2>1. /\ t \in Seq(T) /\ Len(t) = x + y
          /\ \A k \in 1..x + y : t[k] = IF k <= x THEN u[k] ELSE v[k - x]
      BY <1>2, <1>3, ConcatProperties
    <2>2. x + y = n
      BY <1>1, <1>2, <1>3
    <2> HIDE DEF x, y, t
    <2> QED BY <2>1, <2>2 DEF x
  <1> HIDE DEF t
  <1>6. ASSUME NEW k \in 1..n
        PROVE  t[k] = base[Ahead(i, k - 1, n)]
    <2> DEFINE j == k - 1
               h == k - (n - i + 1)
    <2>1. j \in 0..n /\ j = k - 1 /\ h = k - (n - i + 1)
      BY <1>1
    <2>2. Ahead(i, j, n) = IF i + j <= n THEN i + j ELSE i + j - n
      <3> HIDE DEF j
      <3> QED BY <1>1, <2>1, AheadIs
    <2>3. t[k] = IF k <= n - i + 1 THEN u[k] ELSE v[h]
      BY <1>2, <1>5
    <2> HIDE DEF h
    <2>4. CASE k <= n - i + 1
      <3>1. k \in 1..n - i + 1 /\ i + j = i + k - 1 /\ i + j <= n
        BY <1>1, <2>4
      <3> HIDE DEF j
      <3>2. u[k] = base[i + k - 1]
        BY <1>2, <3>1
      <3>3. Ahead(i, j, n) = i + k - 1
        BY <2>2, <3>1
      <3>4. t[k] = base[Ahead(i, j, n)]
        BY <2>3, <2>4, <3>2, <3>3
      <3> QED BY <3>4 DEF j
    <2>5. CASE ~(k <= n - i + 1)
      <3>1. h \in 1..i - 1 /\ i + j - n = h /\ ~(i + j <= n)
        BY <1>1, <2>1, <2>5
      <3> HIDE DEF j
      <3>2. v[h] = base[h]
        BY <1>3, <3>1
      <3>3. Ahead(i, j, n) = h
        BY <2>2, <3>1
      <3>4. t[k] = base[Ahead(i, j, n)]
        BY <2>3, <2>5, <3>2, <3>3
      <3> QED BY <3>4 DEF j
    <2> QED BY <2>4, <2>5
  <1> QED BY <1>4, <1>5, <1>6 DEF n

(* Turned, a straight loop is still straight.                              *)
LEMMA TurnedStraight ==
  ASSUME NEW base \in Seq(Stops), Len(base) > 0, NEW i \in 1..Len(base), Straight(base)
  PROVE  Straight(Turned(base, i))
  <1> DEFINE n == Len(base)
             t == Turned(base, i)
  <1>1. n \in Nat \ {0} /\ i \in 1..n /\ 1 \in 0..n
    BY LenProperties
  <1>2. /\ t \in Seq(Stops) /\ Len(t) = n /\ DOMAIN t = 1..n /\ DOMAIN base = 1..n
        /\ \A k \in 1..n : t[k] = base[Ahead(i, k - 1, n)]
    BY TurnedIs, LenProperties
  <1>3. \A j \in 1..n : Parallel(base[j].at, base[Ahead(j, 1, n)].at)
    BY <1>2 DEF Straight
  <1> HIDE DEF n, t
  <1>4. ASSUME NEW k \in 1..n
        PROVE  Parallel(t[k].at, t[Ahead(k, 1, n)].at)
    <2> DEFINE h == k - 1
               m == Ahead(k, 1, n)
               j == Ahead(i, h, n)
    <2>1. h \in 0..n /\ 1 \in 0..n - h /\ h + 1 = k /\ h = k - 1 /\ k \in 0..n
      BY <1>1
    <2>2. m = (IF k + 1 <= n THEN k + 1 ELSE k + 1 - n) /\ m \in 1..n
      BY <1>1, AheadIs
    <2> HIDE DEF h, m
    <2>3. j \in 1..n
      BY <1>1, <2>1, AheadIs
    <2>4. Ahead(j, 1, n) = Ahead(i, k, n)
      <3>1. Ahead(j, 1, n) = Ahead(i, h + 1, n)
        BY <1>1, <2>1, AheadGap
      <3> QED BY <2>1, <3>1
    <2>5. Ahead(i, k, n) = Ahead(i, m - 1, n)
      <3>1. CASE k + 1 <= n
        <4>1. m - 1 = k
          BY <2>2, <3>1
        <4> QED BY <4>1
      <3>2. CASE ~(k + 1 <= n)
        <4>1. k = n /\ m - 1 = 0
          BY <1>1, <2>2, <3>2
        <4> QED BY <1>1, <4>1, AheadGap
      <3> QED BY <3>1, <3>2
    <2> HIDE DEF j
    <2>6. t[k] = base[j] /\ t[m] = base[Ahead(j, 1, n)]
      <3>1. t[k] = base[Ahead(i, k - 1, n)] /\ t[m] = base[Ahead(i, m - 1, n)]
        BY <1>2, <2>2
      <3> QED BY <2>1, <2>4, <2>5, <3>1 DEF j
    <2>7. Parallel(base[j].at, base[Ahead(j, 1, n)].at)
      BY <1>3, <2>3
    <2> QED BY <2>6, <2>7 DEF m
  <1> QED BY <1>2, <1>4 DEF Straight, t

----------------------------------------------------------------------------
(* The mission as it is sent (_split_home_waypoint,                        *)
(* drop_duplicate_loop_closure_with_actions).                              *)

(* A list without its h-th element.                                        *)
LEMMA RemovedIs ==
  ASSUME NEW T, NEW list \in Seq(T), NEW h \in 1..Len(list)
  PROVE  /\ RemoveAt(list, h) \in Seq(T) /\ Len(RemoveAt(list, h)) = Len(list) - 1
         /\ \A n \in 1..Len(list) - 1 :
                RemoveAt(list, h)[n] = list[IF h <= n THEN n + 1 ELSE n]
  <1> DEFINE l == Len(list)
             u == SubSeq(list, 1, h - 1)
             v == SubSeq(list, h + 1, l)
             w == u \o v
  <1>1. l \in Nat /\ h \in 1..l /\ h \in Nat /\ \A k \in 1..l : list[k] \in T
    BY LenProperties, ElementOfSeq
  <1>2. /\ u \in Seq(T) /\ Len(u) = h - 1
        /\ \A k \in 1..h - 1 : u[k] = list[k]
    <2> DEFINE m == h - 1
    <2>1. m \in Int /\ 1 \in Int /\ \A k \in 1..m : list[k] \in T /\ 1 + k - 1 = k
      BY <1>1
    <2>2. (IF 1 <= m THEN m - 1 + 1 ELSE 0) = m /\ m - 1 + 1 = m
      BY <1>1
    <2> HIDE DEF m
    <2>3. /\ SubSeq(list, 1, m) \in Seq(T) /\ Len(SubSeq(list, 1, m)) = (IF 1 <= m THEN m - 1 + 1 ELSE 0)
          /\ \A k \in 1..m - 1 + 1 : SubSeq(list, 1, m)[k] = list[1 + k - 1]
      BY <2>1, SubSeqProperties
    <2> QED BY <2>1, <2>2, <2>3 DEF m
  <1>3. /\ v \in Seq(T) /\ Len(v) = l - h
        /\ \A k \in 1..l - h : v[k] = list[h + k]
    <2> DEFINE m == h + 1
    <2>1. m \in Int /\ l \in Int /\ \A k \in m..l : list[k] \in T
      BY <1>1
    <2>2. (IF m <= l THEN l - m + 1 ELSE 0) = l - h /\ l - m + 1 = l - h
          /\ \A k \in 1..l - h : m + k - 1 = h + k
      BY <1>1
    <2> HIDE DEF m, l
    <2>3. /\ SubSeq(list, m, l) \in Seq(T) /\ Len(SubSeq(list, m, l)) = (IF m <= l THEN l - m + 1 ELSE 0)
          /\ \A k \in 1..l - m + 1 : SubSeq(list, m, l)[k] = list[m + k - 1]
      BY <2>1, SubSeqProperties
    <2> QED BY <2>2, <2>3 DEF m
  <1>4. RemoveAt(list, h) = w
    BY DEF RemoveAt
  <1> HIDE DEF u, v, l
  <1>5. /\ w \in Seq(T) /\ Len(w) = Len(u) + Len(v)
        /\ \A k \in 1..Len(u) + Len(v) : w[k] = IF k <= Len(u) THEN u[k] ELSE v[k - Len(u)]
    BY <1>2, <1>3, ConcatProperties
  <1> HIDE DEF w
  <1>6. Len(w) = l - 1 /\ \A k \in 1..l - 1 : w[k] = IF k <= h - 1 THEN u[k] ELSE v[k - (h - 1)]
    <2>1. Len(u) + Len(v) = l - 1
      BY <1>1, <1>2, <1>3
    <2> QED BY <1>2, <1>5, <2>1
  <1>7. ASSUME NEW n \in 1..l - 1
        PROVE  w[n] = list[IF h <= n THEN n + 1 ELSE n]
    <2>1. CASE h <= n
      <3> DEFINE k == n - (h - 1)
      <3>1. k \in 1..l - h /\ h + k = n + 1 /\ ~(n <= h - 1)
        BY <1>1, <2>1
      <3>2. w[n] = v[k]
        BY <1>6, <3>1
      <3> HIDE DEF k
      <3> QED BY <1>3, <2>1, <3>1, <3>2
    <2>2. CASE ~(h <= n)
      <3>1. n \in 1..h - 1 /\ n <= h - 1
        BY <1>1, <2>2
      <3> QED BY <1>2, <1>6, <2>2, <3>1
    <2> QED BY <2>1, <2>2
  <1> QED BY <1>4, <1>5, <1>6, <1>7 DEF l

(* What a mission is, and where HOME is.                                   *)
LEMMA MissionIs ==
  ASSUME mission \in Missions
  PROVE  /\ Loop \in BOOLEAN /\ mission.starts \in SUBSET Places /\ Home \in Places
         /\ mission.lists.points \in Seq(Stops) /\ Len(mission.lists.points) \in Nat \ {0}
         /\ mission.lists.acts \in Seq(BOOLEAN) /\ Len(mission.lists.acts) = Len(mission.lists.points)
         /\ mission.homes \in SUBSET (1..Len(mission.lists.points))
         /\ mission.entry \in 0..Len(mission.lists.points)
         /\ mission.entry # 0 => Loop /\ mission.homes = {}
         /\ Loop /\ Splits(mission.lists, mission.homes) =>
                \A i \in Entries(mission) :
                    Straight(DropClosure(TurnedLists(Sent(mission), i), TRUE).points)
  <1>1. /\ Loop \in BOOLEAN /\ mission.starts \in SUBSET Places /\ mission.home \in Places
        /\ mission.lists.points \in Seq(Stops) /\ mission.lists.points # <<>>
        /\ mission.lists.acts \in Seq(BOOLEAN) /\ Len(mission.lists.acts) = Len(mission.lists.points)
        /\ mission.homes \in SUBSET (DOMAIN mission.lists.points)
        /\ mission.entry \in 0..Len(mission.lists.points)
        /\ mission.entry # 0 => Loop /\ mission.homes = {}
        /\ Loop /\ Splits(mission.lists, mission.homes) =>
               \A i \in Entries(mission) :
                   Straight(DropClosure(TurnedLists(Sent(mission), i), TRUE).points)
    BY MissionsAssumption DEF Loop
  <1>2. Len(mission.lists.points) \in Nat \ {0} /\ DOMAIN mission.lists.points = 1..Len(mission.lists.points)
    BY <1>1, EmptySeq, LenProperties
  <1>3. Home \in Places
    <2>1. CASE mission.homes = {}
      BY <1>1, <2>1 DEF Home
    <2>2. CASE mission.homes # {}
      <3>1. mission.homes \in SUBSET Nat
        BY <1>1, <1>2
      <3>2. Min(mission.homes) \in mission.homes
        BY <2>2, <3>1, MinIs
      <3>3. mission.lists.points[Min(mission.homes)].at \in Places
        BY <1>1, <1>2, <3>2, StopIs
      <3> QED BY <2>2, <3>3 DEF Home
    <2> QED BY <2>1, <2>2
  <1> QED BY <1>1, <1>2, <1>3

(* Without HOME, the n-th waypoint is the one that n asks for.             *)
LEMMA SentIs ==
  ASSUME mission \in Missions, Splits(mission.lists, mission.homes)
  PROVE  /\ Count \in Nat \ {0}
         /\ Sent(mission).points \in Seq(Stops) /\ Len(Sent(mission).points) = Count
         /\ Sent(mission).acts \in Seq(BOOLEAN) /\ Len(Sent(mission).acts) = Count
         /\ \A n \in 1..Count : /\ Sent(mission).points[n] = mission.lists.points[InRequest(n)]
                                /\ Sent(mission).acts[n] = mission.lists.acts[InRequest(n)]
  <1> DEFINE P == mission.lists.points
             A == mission.lists.acts
             H == mission.homes
             N == Len(P)
  <1>1. /\ P \in Seq(Stops) /\ N \in Nat \ {0} /\ A \in Seq(BOOLEAN) /\ Len(A) = N
        /\ H \in SUBSET (1..N) /\ DOMAIN P = 1..N
    BY MissionIs, LenProperties
  <1>2. Cardinality(H) <= 1 /\ H # 1..N
    BY <1>1 DEF Splits
  <1>3. /\ Sent(mission).points = Without(P, H) /\ Sent(mission).acts = Without(A, H)
        /\ Count = N - Cardinality(H)
        /\ \A n : InRequest(n) = IF \E h \in H : h <= n THEN n + 1 ELSE n
    BY DEF Sent, Split, Count, InRequest
  <1> HIDE DEF P, A, H, N
  <1>4. IsFiniteSet(H) /\ Cardinality(H) \in Nat
    <2>1. IsFiniteSet(1..N)
      BY <1>1, FS_Interval
    <2>2. IsFiniteSet(H)
      BY <1>1, <2>1, FS_Subset
    <2> QED BY <2>2, FS_CardinalityType
  <1>5. CASE Cardinality(H) = 0
    <2>1. H = {}
      BY <1>4, <1>5, FS_EmptySet
    <2>2. /\ Without(P, H) = P /\ Without(A, H) = A /\ Count = N
          /\ \A n : InRequest(n) = n
      BY <1>1, <1>3, <1>5, <2>1 DEF Without
    <2> QED BY <1>1, <1>3, <2>2 DEF P, A, N
  <1>6. CASE Cardinality(H) = 1
    <2>1. PICK h : H = {h}
      BY <1>4, <1>6, FS_Singleton
    <2>2. h \in 1..N /\ Min(H) = h
      <3>1. H \in SUBSET Nat /\ H # {}
        BY <1>1, <2>1
      <3>2. Min(H) \in H
        BY <3>1, MinIs
      <3> QED BY <1>1, <2>1, <3>2
    <2>3. /\ Without(P, H) = RemoveAt(P, h) /\ Without(A, H) = RemoveAt(A, h)
          /\ Count = N - 1 /\ \A n : InRequest(n) = IF h <= n THEN n + 1 ELSE n
      BY <1>3, <1>6, <2>1, <2>2 DEF Without
    <2>4. N # 1
      <3> SUFFICES ASSUME N = 1 PROVE FALSE
        OBVIOUS
      <3>1. 1..N = {1} /\ h = 1
        BY <2>2
      <3> QED BY <1>2, <2>1, <3>1
    <2>5. Count \in Nat \ {0}
      BY <1>1, <2>3, <2>4
    <2>6. /\ RemoveAt(P, h) \in Seq(Stops) /\ Len(RemoveAt(P, h)) = N - 1
          /\ \A n \in 1..N - 1 : RemoveAt(P, h)[n] = P[IF h <= n THEN n + 1 ELSE n]
      BY <1>1, <2>2, RemovedIs DEF N
    <2>7. /\ RemoveAt(A, h) \in Seq(BOOLEAN) /\ Len(RemoveAt(A, h)) = N - 1
          /\ \A n \in 1..N - 1 : RemoveAt(A, h)[n] = A[IF h <= n THEN n + 1 ELSE n]
      <3>1. h \in 1..Len(A)
        BY <1>1, <2>2
      <3>2. /\ RemoveAt(A, h) \in Seq(BOOLEAN) /\ Len(RemoveAt(A, h)) = Len(A) - 1
            /\ \A n \in 1..Len(A) - 1 : RemoveAt(A, h)[n] = A[IF h <= n THEN n + 1 ELSE n]
        BY <1>1, <3>1, RemovedIs
      <3> QED BY <1>1, <3>2
    <2> QED BY <1>3, <2>3, <2>5, <2>6, <2>7 DEF P, A
  <1>7. Cardinality(H) = 0 \/ Cardinality(H) = 1
    BY <1>2, <1>4
  <1> QED BY <1>5, <1>6, <1>7

(* The last element dropped.                                               *)
LEMMA FrontIs ==
  ASSUME NEW T, NEW list \in Seq(T), NEW n \in Nat \ {0}, n <= Len(list)
  PROVE  /\ SubSeq(list, 1, n) \in Seq(T) /\ Len(SubSeq(list, 1, n)) = n
         /\ \A k \in 1..n : SubSeq(list, 1, n)[k] = list[k]
  <1>1. 1 \in Int /\ n \in Int /\ 1 <= n /\ \A k \in 1..n : k \in 1..Len(list)
    BY LenProperties
  <1>2. \A k \in 1..n : list[k] \in T
    BY <1>1, ElementOfSeq
  <1>3. /\ SubSeq(list, 1, n) \in Seq(T) /\ Len(SubSeq(list, 1, n)) = n - 1 + 1
        /\ \A k \in 1..n - 1 + 1 : SubSeq(list, 1, n)[k] = list[1 + k - 1]
    BY <1>1, <1>2, SubSeqProperties
  <1>4. n - 1 + 1 = n /\ \A k \in 1..n : 1 + k - 1 = k
    OBVIOUS
  <1> QED BY <1>3, <1>4

(* What the mission lists as its n-th waypoint.                            *)
PointOf(n) == mission.lists.points[InRequest(n)]
ActOf(n) == mission.lists.acts[InRequest(n)]

(* The lists from the i-th waypoint on are those of the mission, turned;   *)
(* they lack the last one at most, where it is beside the first.           *)
LEMMA ListsAre ==
  ASSUME mission \in Missions, Splits(mission.lists, mission.homes), NEW i \in 1..Count
  PROVE  /\ Len(Lists(i).points) \in Nat \ {0} /\ Len(Lists(i).points) <= Count
         /\ Lists(i).points \in Seq(Stops)
         /\ Lists(i).acts \in Seq(BOOLEAN) /\ Len(Lists(i).acts) = Len(Lists(i).points)
         /\ SourcesOf(i) \in Seq(Nat) /\ Len(SourcesOf(i)) = Len(Lists(i).points)
         /\ \A x \in 1..Len(Lists(i).points) :
                /\ Ahead(i, x - 1, Count) \in 1..Count
                /\ Lists(i).points[x] = PointOf(Ahead(i, x - 1, Count))
                /\ Lists(i).acts[x] = ActOf(Ahead(i, x - 1, Count))
                /\ SourcesOf(i)[x] = Ahead(i, x - 1, Count)
         /\ Len(Lists(i).points) # Count =>
                /\ Loop /\ Len(Lists(i).points) = Count - 1
                /\ Near(PointOf(i).at, PointOf(Ahead(i, Count - 1, Count)), Reached)
  <1> DEFINE C == Count
             P == Turned(Sent(mission).points, i)
             A == Turned(Sent(mission).acts, i)
             S == Turned(Numbers(C), i)
             L == Lists(i)
             n == Len(L.points)
             Drops == Loop /\ C > 2 /\ Near(P[1].at, Last(P), Reached)
  <1>1. /\ C \in Nat \ {0} /\ i \in 1..C
        /\ Sent(mission).points \in Seq(Stops) /\ Len(Sent(mission).points) = C
        /\ Sent(mission).acts \in Seq(BOOLEAN) /\ Len(Sent(mission).acts) = C
        /\ \A x \in 1..C : Sent(mission).points[x] = PointOf(x) /\ Sent(mission).acts[x] = ActOf(x)
    BY SentIs DEF PointOf, ActOf
  <1>2. Numbers(C) \in Seq(Nat) /\ Len(Numbers(C)) = C /\ \A x \in 1..C : Numbers(C)[x] = x
    <2> HIDE DEF C
    <2>1. Numbers(C) \in [1..C -> Nat] /\ \A x \in 1..C : Numbers(C)[x] = x
      BY <1>1 DEF Numbers
    <2> QED BY <1>1, <2>1, SeqIs
  <1>3. \A x \in 1..C : Ahead(i, x - 1, C) \in 1..C
    <2> HIDE DEF C
    <2> TAKE x \in 1..C
    <2>1. x - 1 \in 0..C
      BY <1>1
    <2> QED BY <1>1, <2>1, AheadIs
  <1>4. /\ P \in Seq(Stops) /\ Len(P) = C /\ A \in Seq(BOOLEAN) /\ Len(A) = C
        /\ S \in Seq(Nat) /\ Len(S) = C
        /\ \A x \in 1..C : /\ P[x] = PointOf(Ahead(i, x - 1, C)) /\ A[x] = ActOf(Ahead(i, x - 1, C))
                           /\ S[x] = Ahead(i, x - 1, C)
    <2> HIDE DEF C
    <2>0. ASSUME NEW T, NEW list \in Seq(T), Len(list) = C
          PROVE  /\ Turned(list, i) \in Seq(T) /\ Len(Turned(list, i)) = C
                 /\ \A x \in 1..C : Turned(list, i)[x] = list[Ahead(i, x - 1, C)]
      <3>1. Len(list) > 0 /\ i \in 1..Len(list)
        BY <1>1, <2>0
      <3>2. /\ Turned(list, i) \in Seq(T) /\ Len(Turned(list, i)) = Len(list)
            /\ \A x \in 1..Len(list) : Turned(list, i)[x] = list[Ahead(i, x - 1, Len(list))]
        BY <3>1, TurnedIs
      <3> QED BY <2>0, <3>2
    <2>1. /\ P \in Seq(Stops) /\ Len(P) = C
          /\ \A x \in 1..C : P[x] = Sent(mission).points[Ahead(i, x - 1, C)]
      <3> DEFINE list == Sent(mission).points
      <3>1. list \in Seq(Stops) /\ Len(list) = C
        BY <1>1
      <3> HIDE DEF list
      <3>2. /\ Turned(list, i) \in Seq(Stops) /\ Len(Turned(list, i)) = C
            /\ \A x \in 1..C : Turned(list, i)[x] = list[Ahead(i, x - 1, C)]
        BY <2>0, <3>1
      <3> QED BY <3>2 DEF list
    <2>2. /\ A \in Seq(BOOLEAN) /\ Len(A) = C
          /\ \A x \in 1..C : A[x] = Sent(mission).acts[Ahead(i, x - 1, C)]
      <3> DEFINE list == Sent(mission).acts
      <3>1. list \in Seq(BOOLEAN) /\ Len(list) = C
        BY <1>1
      <3> HIDE DEF list
      <3>2. /\ Turned(list, i) \in Seq(BOOLEAN) /\ Len(Turned(list, i)) = C
            /\ \A x \in 1..C : Turned(list, i)[x] = list[Ahead(i, x - 1, C)]
        BY <2>0, <3>1
      <3> QED BY <3>2 DEF list
    <2>3. /\ S \in Seq(Nat) /\ Len(S) = C
          /\ \A x \in 1..C : S[x] = Numbers(C)[Ahead(i, x - 1, C)]
      BY <1>2, <2>0
    <2> HIDE DEF P, A, S
    <2> QED BY <1>1, <1>2, <1>3, <2>1, <2>2, <2>3
  <1>5. L = IF Drops THEN [points |-> Front(P), acts |-> Front(A)] ELSE [points |-> P, acts |-> A]
    BY <1>4 DEF Lists, DropClosure, TurnedLists
  <1>6. SourcesOf(i) = SubSeq(S, 1, n)
    BY <1>1 DEF SourcesOf
  <1> HIDE DEF P, A, S, L, C
  <1>7. /\ n \in Nat \ {0} /\ n <= C
        /\ L.points \in Seq(Stops) /\ L.acts \in Seq(BOOLEAN) /\ Len(L.acts) = n
        /\ \A x \in 1..n : L.points[x] = P[x] /\ L.acts[x] = A[x]
        /\ n # C => Drops /\ n = C - 1
    <2>1. CASE Drops
      <3> DEFINE m == C - 1
      <3>1. m \in Nat \ {0} /\ m <= C /\ m = C - 1
        BY <1>1, <2>1
      <3>2. L.points = SubSeq(P, 1, m) /\ L.acts = SubSeq(A, 1, m)
        BY <1>4, <1>5, <2>1 DEF Front
      <3> HIDE DEF m
      <3>3. /\ SubSeq(P, 1, m) \in Seq(Stops) /\ Len(SubSeq(P, 1, m)) = m
            /\ \A k \in 1..m : SubSeq(P, 1, m)[k] = P[k]
        BY <1>4, <3>1, FrontIs
      <3>4. /\ SubSeq(A, 1, m) \in Seq(BOOLEAN) /\ Len(SubSeq(A, 1, m)) = m
            /\ \A k \in 1..m : SubSeq(A, 1, m)[k] = A[k]
        BY <1>4, <3>1, FrontIs
      <3> HIDE DEF Drops
      <3> QED BY <2>1, <3>1, <3>2, <3>3, <3>4
    <2>2. CASE ~Drops
      <3>1. L.points = P /\ L.acts = A /\ n = C
        BY <1>4, <1>5, <2>2
      <3> QED BY <1>1, <1>4, <3>1
    <2> QED BY <2>1, <2>2
  <1>8. /\ SourcesOf(i) \in Seq(Nat) /\ Len(SourcesOf(i)) = n
        /\ \A x \in 1..n : SourcesOf(i)[x] = S[x]
    <2>1. n \in Nat \ {0} /\ n <= Len(S)
      BY <1>4, <1>7
    <2> HIDE DEF n
    <2> QED BY <1>4, <1>6, <2>1, FrontIs
  <1>9. Drops => Loop /\ Near(PointOf(i).at, PointOf(Ahead(i, C - 1, C)), Reached)
    <2>1. P[1] = PointOf(i)
      <3>1. 1 \in 1..C /\ 1 - 1 = 0
        BY <1>1
      <3>2. Ahead(i, 0, C) = i
        BY <1>1, AheadGap
      <3>3. P[1] = PointOf(Ahead(i, 1 - 1, C))
        BY <1>4, <3>1
      <3> QED BY <3>1, <3>2, <3>3
    <2>2. Last(P) = PointOf(Ahead(i, C - 1, C))
      <3>1. C \in 1..C
        BY <1>1
      <3>2. Last(P) = P[C]
        BY <1>4 DEF Last
      <3> QED BY <1>4, <3>1, <3>2
    <2> QED BY <2>1, <2>2
  <1> HIDE DEF n, Drops
  <1>10. \A x \in 1..n : x \in 1..C
    BY <1>1, <1>7
  <1> QED BY <1>3, <1>4, <1>7, <1>8, <1>9, <1>10 DEF n, C, L

(* Where the elements of a list that is cut at j come from.                *)
CutLen(j, n, loop) == IF loop THEN n ELSE n - j + 1
CutFrom(j, k, n, loop) == IF loop THEN Ahead(j, k - 1, n) ELSE j + k - 1

CutAs(T, list, n, j, loop) ==
    /\ Cut(list, j, loop) \in Seq(T) /\ Len(Cut(list, j, loop)) = CutLen(j, n, loop)
    /\ CutLen(j, n, loop) \in 1..n
    /\ \A k \in 1..CutLen(j, n, loop) :
           /\ CutFrom(j, k, n, loop) \in 1..n
           /\ Cut(list, j, loop)[k] = list[CutFrom(j, k, n, loop)]
LEMMA CutIs ==
  ASSUME NEW T, NEW list \in Seq(T), NEW n \in Nat \ {0}, Len(list) = n,
         NEW j \in 1..n, NEW loop \in BOOLEAN
  PROVE  CutAs(T, list, n, j, loop)
  <1>1. CASE loop
    <2>1. Cut(list, j, loop) = Turned(list, j) /\ CutLen(j, n, loop) = n
          /\ \A k : CutFrom(j, k, n, loop) = Ahead(j, k - 1, n)
      BY <1>1 DEF Cut, CutLen, CutFrom
    <2>2. /\ Turned(list, j) \in Seq(T) /\ Len(Turned(list, j)) = n
          /\ \A k \in 1..n : Turned(list, j)[k] = list[Ahead(j, k - 1, n)]
      BY TurnedIs
    <2>3. ASSUME NEW k \in 1..n PROVE Ahead(j, k - 1, n) \in 1..n
      <3>1. k - 1 \in 0..n
        OBVIOUS
      <3> QED BY <3>1, AheadIs
    <2> QED BY <2>1, <2>2, <2>3 DEF CutAs
  <1>2. CASE ~loop
    <2> DEFINE m == n - j + 1
    <2>1. Cut(list, j, loop) = SubSeq(list, j, n) /\ CutLen(j, n, loop) = m
          /\ \A k : CutFrom(j, k, n, loop) = j + k - 1
      BY <1>2 DEF Cut, CutLen, CutFrom
    <2>2. j \in Int /\ n \in Int /\ j <= n /\ \A k \in j..n : list[k] \in T
      BY ElementOfSeq
    <2>3. /\ SubSeq(list, j, n) \in Seq(T) /\ Len(SubSeq(list, j, n)) = m
          /\ \A k \in 1..m : SubSeq(list, j, n)[k] = list[j + k - 1]
      BY <2>2, SubSeqProperties
    <2>4. m \in 1..n /\ \A k \in 1..m : j + k - 1 \in 1..n
      OBVIOUS
    <2> HIDE DEF m
    <2> QED BY <2>1, <2>3, <2>4 DEF CutAs
  <1> QED BY <1>1, <1>2

----------------------------------------------------------------------------
(* What is prepared (prepare_route_waypoints,                              *)
(* _map_prepared_input_indices).                                           *)

\* What the n-th waypoint of the mission is, when it is prepared from its f-th
\* on, and which one the k-th that is prepared is.
Meant(prep, f, n) == IF prep.inputs = <<>> THEN Ahead(f, n - 1, Count) ELSE n
Meaning(prep, f, k) == Meant(prep, f, Number(prep.inputs, k))

(* The indices of n waypoints that are cut at j.                           *)
LEMMA IndicesCut ==
  ASSUME NEW n \in Nat \ {0}, NEW j \in 1..n, NEW loop \in BOOLEAN
  PROVE  /\ CutLen(j, n, loop) \in 1..n
         /\ \A k \in 1..CutLen(j, n, loop) : CutFrom(j, k, n, loop) \in 1..n
         /\ DOMAIN Cut(Numbers(n), j, loop) = 1..CutLen(j, n, loop)
         /\ \A k \in 1..CutLen(j, n, loop) :
                Cut(Numbers(n), j, loop)[k] = CutFrom(j, k, n, loop)
  <1> DEFINE list == Numbers(n)
  <1>1. list \in [1..n -> Nat] /\ \A x \in 1..n : list[x] = x
    BY DEF Numbers
  <1> HIDE DEF list
  <1>2. PICK T : list \in Seq(T) /\ Len(list) = n
    BY <1>1, SeqIs
  <1>3. /\ Cut(list, j, loop) \in Seq(T) /\ Len(Cut(list, j, loop)) = CutLen(j, n, loop)
        /\ CutLen(j, n, loop) \in 1..n
        /\ \A k \in 1..CutLen(j, n, loop) :
              /\ CutFrom(j, k, n, loop) \in 1..n
              /\ Cut(list, j, loop)[k] = list[CutFrom(j, k, n, loop)]
    <2>1. CutAs(T, list, n, j, loop)
      BY <1>2, CutIs
    <2> QED BY <2>1 DEF CutAs
  <1>4. \A k \in 1..CutLen(j, n, loop) : Cut(list, j, loop)[k] = CutFrom(j, k, n, loop)
    BY <1>1, <1>3
  <1> QED BY <1>3, <1>4, LenProperties DEF list

(* The lists are cut at the same place, and the k-th index stands for the  *)
(* waypoint that the k-th point and the k-th action are of.                *)
LEMMA PlannedIs ==
  ASSUME mission \in Missions, robot \in Places, posed \in BOOLEAN,
         Splits(mission.lists, mission.homes), NEW i \in 1..Count,
         posed => ~Refused(Lists(i).points, robot, Loop)
  PROVE  \E j \in 1..Len(Lists(i).points) :
            /\ Planned(i).points = Cut(Lists(i).points, j, Loop)
            /\ Planned(i).acts = Cut(Lists(i).acts, j, Loop)
            /\ \A k \in 1..CutLen(j, Len(Lists(i).points), Loop) :
                  /\ Number(Planned(i).inputs, k) \in Nat
                  /\ Meaning(Planned(i), i, k) =
                        Ahead(i, CutFrom(j, k, Len(Lists(i).points), Loop) - 1, Count)
  <1> DEFINE C == Count
             L == Lists(i)
             n == Len(L.points)
             S == SourcesOf(i)
             loop == Loop
             j == IF posed THEN FirstWaypoint(L.points, robot, loop) ELSE 1
             m == CutLen(j, n, loop)
             bare == ~posed \/ (loop /\ j = 1)
             prep == Planned(i)
  <1>1. /\ C \in Nat \ {0} /\ i \in 1..C /\ loop \in BOOLEAN
        /\ n \in Nat \ {0} /\ n <= C /\ L.points \in Seq(Stops)
        /\ S \in Seq(Nat) /\ Len(S) = n /\ DOMAIN S = 1..n
        /\ \A x \in 1..n : Ahead(i, x - 1, C) \in 1..C /\ S[x] = Ahead(i, x - 1, C)
    BY SentIs, MissionIs, ListsAre, LenProperties
  <1>2. j \in 1..n
    <2>1. CASE posed
      <3> DEFINE b == L.points
      <3>1. b \in Seq(Stops) /\ Len(b) > 0 /\ ~Refused(b, robot, loop)
        BY <1>1, <2>1
      <3> HIDE DEF b
      <3>2. FirstWaypoint(b, robot, loop) \in 1..Len(b)
        BY <1>1, <3>1, FirstWaypointIs
      <3> QED BY <2>1, <3>2 DEF b
    <2>2. CASE ~posed
      BY <1>1, <2>2
    <2> QED BY <2>1, <2>2
  <1>3. Prepare(L, robot, posed, loop) =
            [points |-> Cut(L.points, j, loop), acts |-> Cut(L.acts, j, loop),
             inputs |-> IF bare THEN <<>> ELSE Cut(Numbers(n), j, loop)]
    BY DEF Prepare, NumbersCut
  <1> DEFINE raw == IF bare THEN <<>> ELSE Cut(Numbers(n), j, loop)
             Source(x) == IF x \in DOMAIN S THEN S[x] ELSE x
             mapped == [k \in DOMAIN raw |-> Source(raw[k])]
  <1>4. /\ prep.points = Cut(L.points, j, loop) /\ prep.acts = Cut(L.acts, j, loop)
        /\ prep.inputs = mapped
    <2> HIDE DEF j, n, S, bare
    <2>1. prep = MapInputs(Prepare(L, robot, posed, loop), S)
      BY DEF Planned, S
    <2> HIDE DEF prep, L, loop
    <2> QED BY <1>3, <2>1 DEF MapInputs
  <1> HIDE DEF prep, j, n, S, L, C, loop
  <1>6. /\ m \in 1..n /\ \A k \in 1..m : CutFrom(j, k, n, loop) \in 1..n
        /\ DOMAIN Cut(Numbers(n), j, loop) = 1..m
        /\ \A k \in 1..m : Cut(Numbers(n), j, loop)[k] = CutFrom(j, k, n, loop)
    <2>1. n \in Nat \ {0} /\ j \in 1..n /\ loop \in BOOLEAN
      BY <1>1, <1>2
    <2> QED BY <2>1, IndicesCut
  <1> HIDE DEF m
  <1>7. CASE bare
    <2>1. mapped = <<>>
      <3> DEFINE none == [k \in 1..0 |-> Source(raw[k])]
      <3>1. DOMAIN raw = 1..0
        BY <1>7
      <3>2. mapped = none
        BY <3>1
      <3>3. none \in [1..0 -> Nat]
        OBVIOUS
      <3> HIDE DEF none
      <3>4. none \in Seq(Nat) /\ Len(none) = 0
        BY <3>3, SeqIs
      <3>5. none = <<>>
        BY <3>4, EmptySeq
      <3> QED BY <3>2, <3>5
    <2>2. j = 1
      BY <1>7 DEF j
    <2> HIDE DEF mapped
    <2>3. \A k \in 1..m : CutFrom(j, k, n, loop) = k /\ Number(prep.inputs, k) = k
      <3>0. n \in Nat \ {0} /\ m \in 1..n
        BY <1>1, <1>6
      <3> TAKE k \in 1..m
      <3>1. k \in 1..n /\ k - 1 \in 0..n /\ 1 \in 1..n /\ 1 + (k - 1) = k /\ 1 + k - 1 = k
        BY <3>0
      <3>2. Ahead(1, k - 1, n) = k
        <4> DEFINE h == k - 1
        <4>1. h \in 0..n /\ 1 + h = k /\ k <= n
          BY <3>1
        <4> HIDE DEF h
        <4>2. Ahead(1, h, n) = k
          BY <1>1, <3>1, <4>1, AheadIs
        <4> QED BY <4>2 DEF h
      <3>3. Number(<<>>, k) = k
        BY <3>1 DEF Number
      <3> QED BY <1>4, <2>1, <2>2, <3>1, <3>2, <3>3 DEF CutFrom
    <2>4. \A k \in 1..m : Meaning(prep, i, k) = Ahead(i, CutFrom(j, k, n, loop) - 1, C)
      BY <1>4, <2>1, <2>3 DEF Meaning, Meant, C
    <2>5. \A k \in 1..m : Number(prep.inputs, k) \in Nat
      BY <2>3
    <2> QED BY <1>2, <1>4, <2>4, <2>5 DEF prep, j, n, S, L, C, m, loop
  <1>8. CASE ~bare
    <2>1. /\ DOMAIN raw = 1..m /\ \A k \in 1..m : raw[k] = CutFrom(j, k, n, loop)
      BY <1>6, <1>8
    <2>2. /\ \A k \in 1..m : mapped[k] = Ahead(i, CutFrom(j, k, n, loop) - 1, C)
          /\ \A k \in 1..m : mapped[k] \in Nat
          /\ DOMAIN mapped = 1..m
      <3> HIDE DEF raw
      <3>1. \A k \in 1..m : mapped[k] = S[CutFrom(j, k, n, loop)]
        BY <1>1, <1>6, <2>1
      <3> HIDE DEF mapped
      <3>2. \A k \in 1..m : mapped[k] = Ahead(i, CutFrom(j, k, n, loop) - 1, C)
        BY <1>1, <1>6, <3>1
      <3>3. \A k \in 1..m : mapped[k] \in Nat
        <4> TAKE k \in 1..m
        <4>1. CutFrom(j, k, n, loop) \in 1..n
          BY <1>6
        <4>2. Ahead(i, CutFrom(j, k, n, loop) - 1, C) \in 1..C
          BY <1>1, <4>1
        <4> QED BY <3>2, <4>2
      <3> QED BY <2>1, <3>2, <3>3 DEF mapped
    <2>3. mapped \in [1..m -> Nat]
      <3> HIDE DEF raw, Source
      <3> QED BY <2>2
    <2> HIDE DEF mapped
    <2>4. mapped \in Seq(Nat) /\ Len(mapped) = m /\ mapped # <<>>
      <3>1. mapped \in Seq(Nat) /\ Len(mapped) = m
        BY <1>6, <2>3, SeqIs
      <3>2. m # 0
        BY <1>6
      <3> QED BY <3>1, <3>2
    <2>5. \A k \in 1..m : Number(mapped, k) = mapped[k]
      BY <2>4 DEF Number
    <2>6. \A k \in 1..m : Meaning(prep, i, k) = mapped[k] /\ Number(prep.inputs, k) = mapped[k]
      BY <1>4, <2>4, <2>5 DEF Meaning, Meant
    <2> QED BY <1>2, <1>4, <2>2, <2>6 DEF prep, j, n, S, L, C, m, loop
  <1> QED BY <1>7, <1>8

(* How far it is between two places ahead of i does not depend on i.       *)
LEMMA GapShift ==
  ASSUME NEW n \in Nat \ {0}, NEW i \in 1..n, NEW a \in 0..n - 1, NEW b \in 0..n - 1
  PROVE  Gap(Ahead(i, a, n), Ahead(i, b, n), n) = IF a <= b THEN b - a ELSE b - a + n
  <1> DEFINE x == Ahead(i, a, n)
             y == Ahead(i, b, n)
  <1>1. a \in 0..n /\ b \in 0..n
    OBVIOUS
  <1>2. /\ x = (IF i + a <= n THEN i + a ELSE i + a - n) /\ x \in 1..n
        /\ y = (IF i + b <= n THEN i + b ELSE i + b - n) /\ y \in 1..n
    BY <1>1, AheadIs
  <1> HIDE DEF x, y
  <1>3. Gap(x, y, n) = IF x <= y THEN y - x ELSE y - x + n
    BY <1>2, GapIs
  <1>4. Gap(x, y, n) = IF a <= b THEN b - a ELSE b - a + n
    BY <1>2, <1>3
  <1> QED BY <1>4 DEF x, y

(* What is cut keeps its order, also in a list that has lost its end.      *)
LEMMA CutOrder ==
  ASSUME NEW n \in Nat \ {0}, NEW c \in Nat \ {0}, n <= c, NEW i \in 1..c,
         NEW j \in 1..n, NEW loop \in BOOLEAN,
         NEW a \in 1..CutLen(j, n, loop), NEW b \in 1..CutLen(j, n, loop), a < b
  PROVE  LET M(k) == Ahead(i, CutFrom(j, k, n, loop) - 1, c)
         IN  Gap(M(1), M(a), c) < Gap(M(1), M(b), c)
  <1> DEFINE q(k) == CutFrom(j, k, n, loop)
             l == CutLen(j, n, loop)
             x == q(1) - 1
             y == q(a) - 1
             z == q(b) - 1
  <1>1. l = (IF loop THEN n ELSE n - j + 1) /\ l \in 1..n /\ 1 \in 1..l /\ a \in 1..l /\ b \in 1..l
    BY DEF CutLen
  <1> HIDE DEF l
  <1>2. ASSUME NEW k \in 1..l
        PROVE  /\ q(k) = IF j + k - 1 <= n THEN j + k - 1 ELSE j + k - 1 - n
               /\ q(k) - 1 \in 0..c - 1
    <2>1. k - 1 \in 0..n /\ k \in 1..n
      BY <1>1
    <2>2. CASE loop
      <3> DEFINE h == k - 1
      <3>1. h \in 0..n /\ j + h = j + k - 1
        BY <2>1
      <3> HIDE DEF h
      <3>2. Ahead(j, h, n) = (IF j + h <= n THEN j + h ELSE j + h - n) /\ Ahead(j, h, n) \in 1..n
        BY <3>1, AheadIs
      <3>3. q(k) = Ahead(j, h, n)
        BY <2>2 DEF CutFrom, h
      <3> HIDE DEF q
      <3> QED BY <3>1, <3>2, <3>3
    <2>3. CASE ~loop
      <3>1. q(k) = j + k - 1
        BY <2>3 DEF CutFrom
      <3>2. j + k - 1 <= n /\ j + k - 1 - 1 \in 0..c - 1
        BY <1>1, <2>1, <2>3
      <3> HIDE DEF q
      <3> QED BY <3>1, <3>2
    <2> QED BY <2>2, <2>3
  <1>3. /\ q(1) = j /\ x \in 0..c - 1
        /\ q(a) = (IF j + a - 1 <= n THEN j + a - 1 ELSE j + a - 1 - n) /\ y \in 0..c - 1
        /\ q(b) = (IF j + b - 1 <= n THEN j + b - 1 ELSE j + b - 1 - n) /\ z \in 0..c - 1
    <2>1. j + 1 - 1 = j /\ j <= n
      OBVIOUS
    <2> HIDE DEF q
    <2> QED BY <1>1, <1>2, <2>1
  <1> HIDE DEF q
  <1>4. /\ x = j - 1
        /\ y = (IF j + a - 1 <= n THEN j + a - 2 ELSE j + a - 2 - n)
        /\ z = (IF j + b - 1 <= n THEN j + b - 2 ELSE j + b - 2 - n)
    BY <1>1, <1>3
  <1>5. x \in 0..c - 1 /\ y \in 0..c - 1 /\ z \in 0..c - 1
    BY <1>3
  <1> HIDE DEF x, y, z
  <1>6. /\ Gap(Ahead(i, x, c), Ahead(i, y, c), c) = IF x <= y THEN y - x ELSE y - x + c
        /\ Gap(Ahead(i, x, c), Ahead(i, z, c), c) = IF x <= z THEN z - x ELSE z - x + c
    BY <1>5, GapShift
  <1>7. (IF x <= y THEN y - x ELSE y - x + c) < (IF x <= z THEN z - x ELSE z - x + c)
    BY <1>1, <1>4
  <1>8. Gap(Ahead(i, x, c), Ahead(i, y, c), c) < Gap(Ahead(i, x, c), Ahead(i, z, c), c)
    BY <1>6, <1>7
  <1> QED BY <1>8 DEF x, y, z, q

(* A loop that is turned is whole.                                         *)
LEMMA CutWhole ==
  ASSUME NEW n \in Nat \ {0}, NEW j \in 1..n, NEW y \in 1..n
  PROVE  \E k \in 1..CutLen(j, n, TRUE) : CutFrom(j, k, n, TRUE) = y
  <1> DEFINE g == Gap(j, y, n)
             k == g + 1
  <1>1. g \in 0..n - 1 /\ Ahead(j, g, n) = y
    BY GapIs, AheadGap
  <1> HIDE DEF g
  <1>2. k \in 1..n /\ k - 1 = g
    BY <1>1
  <1> HIDE DEF k
  <1>3. CutLen(j, n, TRUE) = n /\ CutFrom(j, k, n, TRUE) = Ahead(j, k - 1, n)
    BY DEF CutLen, CutFrom
  <1> QED BY <1>1, <1>2, <1>3

(* What is prepared is the mission, from its f-th waypoint on: typed, each *)
(* waypoint what its index stands for, in their order, and none lost.      *)
PrepTyped(prep) ==
    /\ prep.points \in Seq(Stops) /\ Len(prep.points) > 0
    /\ prep.acts \in Seq(BOOLEAN) /\ Len(prep.acts) = Len(prep.points)
    /\ Loop => Straight(prep.points)
    /\ \A k \in 1..Len(prep.points) : Number(prep.inputs, k) \in Nat
PrepTrue(prep, f) ==
    \A k \in 1..Len(prep.points) :
        /\ Meaning(prep, f, k) \in 1..Count
        /\ prep.points[k] = PointOf(Meaning(prep, f, k))
        /\ prep.acts[k] = ActOf(Meaning(prep, f, k))
PrepOrdered(prep, f) ==
    \A j, k \in 1..Len(prep.points) : j < k =>
        Gap(Meaning(prep, f, 1), Meaning(prep, f, j), Count) <
            Gap(Meaning(prep, f, 1), Meaning(prep, f, k), Count)
Meanings(prep, f) == {Meaning(prep, f, k) : k \in 1..Len(prep.points)}
PrepWhole(prep, f) ==
    IF Loop THEN \A x \in (1..Count) \ Meanings(prep, f) :
                    /\ x = Ahead(f, Count - 1, Count)
                    /\ Near(PointOf(f).at, PointOf(x), Reached)
            ELSE Meanings(prep, f) = Meaning(prep, f, 1)..Count
PrepOk(prep, f) ==
    /\ f \in 1..Count /\ Count \in Nat \ {0}
    /\ PrepTyped(prep) /\ PrepTrue(prep, f) /\ PrepOrdered(prep, f) /\ PrepWhole(prep, f)

(* Points and actions are cut alike.                                        *)
BothAre(n, j, loop, points, acts) ==
    LET m == CutLen(j, n, loop)
    IN  /\ Cut(points, j, loop) \in Seq(Stops) /\ Len(Cut(points, j, loop)) = m
        /\ Cut(acts, j, loop) \in Seq(BOOLEAN) /\ Len(Cut(acts, j, loop)) = m
        /\ m \in 1..n
        /\ \A k \in 1..m : /\ CutFrom(j, k, n, loop) \in 1..n
                          /\ Cut(points, j, loop)[k] = points[CutFrom(j, k, n, loop)]
                          /\ Cut(acts, j, loop)[k] = acts[CutFrom(j, k, n, loop)]
LEMMA BothCut ==
  ASSUME NEW n \in Nat \ {0}, NEW j \in 1..n, NEW loop \in BOOLEAN,
         NEW points \in Seq(Stops), Len(points) = n, NEW acts \in Seq(BOOLEAN), Len(acts) = n
  PROVE  BothAre(n, j, loop, points, acts)
  <1>1. CutAs(Stops, points, n, j, loop) /\ CutAs(BOOLEAN, acts, n, j, loop)
    BY CutIs
  <1> QED BY <1>1 DEF CutAs, BothAre

LEMMA PreparedIs ==
  ASSUME mission \in Missions, robot \in Places, posed \in BOOLEAN,
         Splits(mission.lists, mission.homes), NEW i \in 1..Count,
         Loop => Straight(Lists(i).points), ~Loop => i = 1,
         posed => ~Refused(Lists(i).points, robot, Loop)
  PROVE  PrepOk(Planned(i), i)
  <1> DEFINE C == Count
             n == Len(Lists(i).points)
             points == Lists(i).points
             acts == Lists(i).acts
             prep == Planned(i)
             loop == Loop
  <1>1. /\ C \in Nat \ {0} /\ i \in 1..C /\ loop \in BOOLEAN
        /\ n \in Nat \ {0} /\ n <= C
        /\ points \in Seq(Stops) /\ Len(points) = n /\ acts \in Seq(BOOLEAN) /\ Len(acts) = n
        /\ n # C => /\ loop /\ n = C - 1
                    /\ Near(PointOf(i).at, PointOf(Ahead(i, C - 1, C)), Reached)
    BY SentIs, MissionIs, ListsAre
  <1>2. \A x \in 1..n : /\ Ahead(i, x - 1, C) \in 1..C
                        /\ points[x] = PointOf(Ahead(i, x - 1, C))
                        /\ acts[x] = ActOf(Ahead(i, x - 1, C))
    BY ListsAre
  <1>3. PICK j \in 1..n :
            /\ prep.points = Cut(points, j, loop) /\ prep.acts = Cut(acts, j, loop)
            /\ \A k \in 1..CutLen(j, n, loop) :
                  /\ Number(prep.inputs, k) \in Nat
                  /\ Meaning(prep, i, k) = Ahead(i, CutFrom(j, k, n, loop) - 1, C)
    BY PlannedIs
  <1>4. (loop => Straight(points)) /\ (~loop => i = 1)
    OBVIOUS
  <1> HIDE DEF C, n, points, acts, prep, loop
  <1> DEFINE m == CutLen(j, n, loop)
             q(k) == CutFrom(j, k, n, loop)
             M(k) == Ahead(i, q(k) - 1, C)
  <1>0. BothAre(n, j, loop, points, acts)
    BY <1>1, <1>3, BothCut
  <1>5. /\ prep.points \in Seq(Stops) /\ Len(prep.points) = m /\ m \in 1..n
        /\ \A k \in 1..m : q(k) \in 1..n /\ prep.points[k] = points[q(k)]
    BY <1>0, <1>3 DEF BothAre
  <1>6. /\ prep.acts \in Seq(BOOLEAN) /\ Len(prep.acts) = m
        /\ \A k \in 1..m : prep.acts[k] = acts[q(k)]
    BY <1>0, <1>3 DEF BothAre
  <1>7. \A k \in 1..m : Meaning(prep, i, k) = M(k) /\ Number(prep.inputs, k) \in Nat
    BY <1>3
  <1> HIDE DEF m, q, M
  <1>8. PrepTyped(prep)
    <2>1. Len(prep.points) > 0
      BY <1>1, <1>5
    <2>2. loop => Straight(prep.points)
      <3> SUFFICES ASSUME loop PROVE Straight(prep.points)
        OBVIOUS
      <3>1. prep.points = Turned(points, j)
        BY <1>3 DEF Cut
      <3>2. points \in Seq(Stops) /\ Len(points) > 0 /\ j \in 1..Len(points) /\ Straight(points)
        BY <1>1, <1>4
      <3> QED BY <3>1, <3>2, TurnedStraight
    <2> QED BY <1>5, <1>6, <1>7, <2>1, <2>2 DEF PrepTyped, loop
  <1>9. PrepTrue(prep, i)
    <2>1. ASSUME NEW k \in 1..m
          PROVE  /\ M(k) \in 1..C /\ prep.points[k] = PointOf(M(k)) /\ prep.acts[k] = ActOf(M(k))
      <3>1. q(k) \in 1..n
        BY <1>5
      <3> QED BY <1>2, <1>5, <1>6, <3>1 DEF M
    <2> QED BY <1>5, <1>7, <2>1 DEF PrepTrue, C
  <1>10. PrepOrdered(prep, i)
    <2>1. ASSUME NEW a \in 1..m, NEW b \in 1..m, a < b
          PROVE  Gap(M(1), M(a), C) < Gap(M(1), M(b), C)
      <3>1. /\ n \in Nat \ {0} /\ C \in Nat \ {0} /\ n <= C /\ i \in 1..C /\ j \in 1..n
            /\ loop \in BOOLEAN /\ a \in 1..CutLen(j, n, loop) /\ b \in 1..CutLen(j, n, loop)
        BY <1>1, <2>1 DEF m
      <3> QED BY <2>1, <3>1, CutOrder DEF M, q
    <2>2. 1 \in 1..m
      BY <1>1, <1>5
    <2> QED BY <1>5, <1>7, <2>1, <2>2 DEF PrepOrdered, C
  <1>11. PrepWhole(prep, i)
    <2>1. Meanings(prep, i) = {M(k) : k \in 1..m}
      BY <1>5, <1>7 DEF Meanings
    <2>2. CASE loop
      <3>1. ASSUME NEW x \in 1..C, x \notin {M(k) : k \in 1..m}
            PROVE  x = Ahead(i, C - 1, C) /\ Near(PointOf(i).at, PointOf(x), Reached)
        <4> DEFINE g == Gap(i, x, C)
                   y == g + 1
        <4>1. g \in 0..C - 1 /\ Ahead(i, g, C) = x
          BY <1>1, GapIs, AheadGap
        <4> HIDE DEF g
        <4>2. y \in 1..C /\ y - 1 = g
          BY <1>1, <4>1
        <4>3. y \notin 1..n
          <5> SUFFICES ASSUME y \in 1..n PROVE FALSE
            OBVIOUS
          <5> HIDE DEF y
          <5>1. PICK k \in 1..CutLen(j, n, TRUE) : CutFrom(j, k, n, TRUE) = y
            BY <1>1, CutWhole
          <5>2. loop = TRUE
            BY <1>1, <2>2
          <5>3. k \in 1..m /\ q(k) = y
            BY <5>1, <5>2 DEF m, q
          <5>4. M(k) = x
            BY <4>1, <4>2, <5>3 DEF M
          <5> QED BY <3>1, <5>3, <5>4
        <4>4. n = C - 1 /\ g = C - 1
          BY <1>1, <4>2, <4>3
        <4>5. n # C
          BY <1>1, <4>4
        <4> QED BY <1>1, <4>1, <4>4, <4>5
      <3> QED BY <2>1, <2>2, <3>1 DEF PrepWhole, C, loop
    <2>3. CASE ~loop
      <3>1. n = C /\ i = 1 /\ m = n - j + 1 /\ \A k : q(k) = j + k - 1
        BY <1>1, <1>4, <2>3 DEF m, q, CutLen, CutFrom
      <3>2. ASSUME NEW k \in 1..m
            PROVE  M(k) = j + k - 1
        <4> DEFINE h == j + k - 1 - 1
        <4>1. h \in 0..C /\ 1 + h = j + k - 1 /\ j + k - 1 <= C
          BY <1>1, <3>1
        <4> HIDE DEF h
        <4>2. Ahead(1, h, C) = IF 1 + h <= C THEN 1 + h ELSE 1 + h - C
          BY <1>1, <3>1, <4>1, AheadIs
        <4>3. M(k) = Ahead(1, h, C)
          BY <3>1 DEF M, h
        <4> QED BY <4>1, <4>2, <4>3
      <3>3. 1 \in 1..m /\ M(1) = j
        <4>1. 1 \in 1..m /\ j + 1 - 1 = j
          BY <1>1, <1>5
        <4> QED BY <3>2, <4>1
      <3>4. {M(k) : k \in 1..m} = j..C
        <4>1. ASSUME NEW k \in 1..m PROVE M(k) \in j..C
          <5>1. j + k - 1 \in j..C
            BY <1>1, <3>1
          <5> QED BY <3>2, <5>1
        <4>2. ASSUME NEW x \in j..C PROVE \E k \in 1..m : M(k) = x
          <5>1. x - j + 1 \in 1..m /\ j + (x - j + 1) - 1 = x
            BY <1>1, <3>1
          <5> QED BY <3>2, <5>1
        <4> QED BY <4>1, <4>2
      <3>5. Meaning(prep, i, 1) = j
        BY <1>7, <3>3
      <3> QED BY <2>1, <2>3, <3>4, <3>5 DEF PrepWhole, C, loop
    <2> QED BY <2>2, <2>3
  <1> QED BY <1>1, <1>8, <1>9, <1>10, <1>11 DEF PrepOk, C, prep

(* The route is built of what is prepared: all of it, in its order, with   *)
(* its indices, and synthetic points.                                      *)
RouteInv(prep, f, r, ins) ==
    /\ PrepOk(prep, f)
    /\ r \in Seq(Waypoints) /\ Len(r) > 0
    /\ ins = ExpandedInputs(r, prep.inputs)
    /\ \E pos : Spread(Marked(prep), Len(prep.points), r, pos, Synthetic)
    /\ r[1] = Marked(prep)[1]
    /\ Len(prep.points) = 1 => Len(r) = 1
    /\ Loop => \A k \in 1..Len(r) : D2(r[k].at, r[Ahead(k, 1, Len(r))].at) <= Sq(Spacing)

MarkedAs(prep) ==
    /\ Marked(prep) \in Seq(Waypoints) /\ Len(Marked(prep)) = Len(prep.points)
    /\ Len(prep.points) \in Nat \ {0}
    /\ Loop => Straight(Marked(prep))
    /\ \A k \in 1..Len(prep.points) : /\ Marked(prep)[k].at = prep.points[k].at
                                      /\ Marked(prep)[k].act = prep.acts[k]
                                      /\ Marked(prep)[k].key = TRUE
LEMMA MarkedIs ==
  ASSUME NEW prep, PrepTyped(prep)
  PROVE  MarkedAs(prep)
  <1> DEFINE n == Len(prep.points)
             b == Marked(prep)
             P == prep.points
             A == prep.acts
  <1>1. /\ P \in Seq(Stops) /\ n \in Nat \ {0} /\ DOMAIN P = 1..n
        /\ A \in Seq(BOOLEAN) /\ Len(A) = n /\ (Loop => Straight(P))
    BY LenProperties DEF PrepTyped
  <1>2. b = [k \in 1..n |-> [at |-> P[k].at, act |-> A[k], key |-> TRUE]]
    BY <1>1 DEF Marked
  <1> HIDE DEF b, n, P, A
  <1>3. ASSUME NEW k \in 1..n
        PROVE  P[k].at \in Places /\ A[k] \in BOOLEAN
    <2>1. k \in 1..Len(P) /\ k \in 1..Len(A)
      BY <1>1 DEF n, P
    <2> QED BY <1>1, <2>1, StopIs, ElementOfSeq
  <1>4. b \in [1..n -> Waypoints]
    BY <1>2, <1>3 DEF Waypoints
  <1>5. b \in Seq(Waypoints) /\ Len(b) = n /\ DOMAIN b = 1..n
    BY <1>1, <1>4, SeqIs
  <1>6. \A k \in 1..n : b[k].at = P[k].at /\ b[k].act = A[k] /\ b[k].key = TRUE
    BY <1>2
  <1>7. Loop => Straight(b)
    <2> SUFFICES ASSUME Loop, NEW i \in 1..n
                 PROVE  Parallel(b[i].at, b[Ahead(i, 1, n)].at)
      BY <1>5 DEF Straight
    <2>1. Ahead(i, 1, n) \in 1..n
      <3>1. 1 \in 0..n
        BY <1>1
      <3> QED BY <1>1, <3>1, AheadIs
    <2>2. Parallel(P[i].at, P[Ahead(i, 1, n)].at)
      <3>1. Len(P) = n
        BY DEF n, P
      <3> QED BY <1>1, <3>1 DEF Straight
    <2> QED BY <1>6, <2>1, <2>2
  <1> QED BY <1>1, <1>5, <1>6, <1>7 DEF MarkedAs, b, n, P, A

LEMMA RouteBuilt ==
  ASSUME NEW prep, NEW f, PrepOk(prep, f), Loop \in BOOLEAN
  PROVE  RouteInv(prep, f, Expand(Marked(prep), Loop),
                  ExpandedInputs(Expand(Marked(prep), Loop), prep.inputs))
  <1> DEFINE b == Marked(prep)
             n == Len(prep.points)
             loop == Loop
             r == Expand(b, loop)
  <1>1. /\ b \in Seq(Waypoints) /\ Len(b) = n /\ n \in Nat \ {0} /\ Len(b) > 0
        /\ loop \in BOOLEAN /\ (loop => Straight(b))
    <2>1. MarkedAs(prep)
      BY MarkedIs DEF PrepOk
    <2> QED BY <2>1 DEF MarkedAs
  <1> HIDE DEF b, n, loop
  <1>2. /\ r \in Filled(Kept(b))
        /\ \E pos : Spread(b, Len(b), r, pos, Synthetic)
        /\ r[1] = b[1]
        /\ Len(b) = 1 => r = b
        /\ loop => \A k \in 1..Len(r) : D2(r[k].at, r[Ahead(k, 1, Len(r))].at) <= Sq(Spacing)
    BY <1>1, ExpandIs
  <1> HIDE DEF r
  <1>3. Kept(b) \in SUBSET Waypoints
    <2>1. \A k \in DOMAIN b : b[k] \in Waypoints
      BY <1>1, ElementOfSeq, LenProperties
    <2> QED BY <2>1 DEF Kept, Synthetic
  <1>4. r \in Seq(Waypoints) /\ Len(r) > 0
    <2>1. r \in Seq(Kept(b)) /\ Len(r) > 0 /\ Len(r) \in Nat /\ DOMAIN r = 1..Len(r)
      BY <1>2, LenProperties DEF Filled
    <2>2. r \in [1..Len(r) -> Waypoints]
      BY <1>3, <2>1, ElementOfSeq, LenProperties
    <2> QED BY <2>1, <2>2, SeqDef
  <1>5. n = 1 => Len(r) = 1
    BY <1>1, <1>2
  <1> QED BY <1>1, <1>2, <1>4, <1>5 DEF RouteInv, b, n, r, loop

(* Where the key waypoints of the route are, and what they are.            *)
Placed(prep, r, ins, pos) ==
    /\ \A i \in 1..Len(r) : IsKey(r[i]) <=> \E k \in 1..Len(prep.points) : i = pos[k]
    /\ \A k \in 1..Len(prep.points) :
           /\ pos[k] \in 1..Len(r) /\ IsKey(r[pos[k]])
           /\ r[pos[k]].at = prep.points[k].at /\ r[pos[k]].act = prep.acts[k]
           /\ ins[pos[k]] = Number(prep.inputs, k)
    /\ \A j, k \in 1..Len(prep.points) : pos[j] < pos[k] <=> j < k
    /\ pos[1] = 1
    /\ \A i \in 1..Len(r) : r[i].act \in BOOLEAN /\ (r[i].act => IsKey(r[i]))

LEMMA PlacedIs ==
  ASSUME NEW prep, NEW f, NEW r, NEW ins, RouteInv(prep, f, r, ins)
  PROVE  \E pos : Placed(prep, r, ins, pos)
  <1> DEFINE n == Len(prep.points)
             b == Marked(prep)
             l == Len(r)
  <1>1. /\ n \in Nat \ {0} /\ r \in Seq(Waypoints) /\ l \in Nat \ {0}
        /\ ins = ExpandedInputs(r, prep.inputs) /\ r[1] = b[1]
        /\ \A k \in 1..n : /\ b[k].at = prep.points[k].at /\ b[k].act = prep.acts[k]
                           /\ b[k].key = TRUE
    <2>1. PrepTyped(prep) /\ r \in Seq(Waypoints) /\ Len(r) > 0
      BY DEF RouteInv, PrepOk
    <2>2. MarkedAs(prep)
      BY <2>1, MarkedIs
    <2>3. Len(r) \in Nat \ {0}
      BY <2>1, LenProperties
    <2>4. ins = ExpandedInputs(r, prep.inputs) /\ r[1] = b[1]
      BY DEF RouteInv
    <2> QED BY <2>1, <2>2, <2>3, <2>4 DEF MarkedAs
  <1>2. PICK pos : Spread(b, n, r, pos, Synthetic)
    BY DEF RouteInv
  <1> HIDE DEF b, n
  <1>3. \A k \in 1..n : b[k].key = TRUE
    BY <1>1
  <1>4. /\ \A i \in 1..Len(r) : IsKey(r[i]) <=> \E k \in 1..n : i = pos[k]
        /\ \A k \in 1..n : /\ pos[k] \in 1..Len(r) /\ r[pos[k]] = b[k]
                           /\ ExpandedInputs(r, prep.inputs)[pos[k]] = Number(prep.inputs, k)
        /\ \A j, k \in 1..n : pos[j] < pos[k] => j < k
    <2>1. Numbered(b, n, r, pos, prep.inputs)
      BY <1>1, <1>2, <1>3, NumbersAre
    <2> QED BY <2>1 DEF Numbered
  <1>5. /\ \A j, k \in 1..n : j < k => pos[j] < pos[k]
        /\ \A i \in 1..l : (\E k \in 1..n : i = pos[k]) \/ r[i] \in Synthetic
    BY <1>2 DEF Spread
  <1> HIDE DEF l
  <1>6. pos[1] = 1
    <2>1. 1 \in 1..n /\ 1 \in 1..l
      BY <1>1
    <2>2. IsKey(r[1])
      BY <1>1, <2>1 DEF IsKey
    <2>3. PICK k \in 1..n : 1 = pos[k]
      BY <1>4, <2>1, <2>2 DEF l
    <2>4. pos[1] \in 1..l /\ (k = 1 \/ pos[1] < pos[k])
      BY <1>4, <1>5, <2>1, <2>3 DEF l
    <2> QED BY <2>3, <2>4
  <1>7. ASSUME NEW i \in 1..l
        PROVE  r[i].act \in BOOLEAN /\ (r[i].act => IsKey(r[i]))
    <2>1. r[i] \in Waypoints
      BY <1>1, ElementOfSeq DEF l
    <2>2. r[i] \in Synthetic => ~r[i].act
      BY DEF Synthetic
    <2>3. r[i].act \in BOOLEAN
      BY <2>1 DEF Waypoints
    <2> QED BY <1>4, <1>5, <2>2, <2>3 DEF l
  <1>8. \A k \in 1..n : /\ r[pos[k]].at = prep.points[k].at /\ r[pos[k]].act = prep.acts[k]
                         /\ IsKey(r[pos[k]]) /\ ins[pos[k]] = Number(prep.inputs, k)
    BY <1>1, <1>4 DEF IsKey
  <1>9. Placed(prep, r, ins, pos)
    BY <1>4, <1>5, <1>6, <1>7, <1>8 DEF Placed, n, l
  <1> QED BY <1>9

(* What RouteIsMission says of the route follows.                          *)
LEMMA IndicesHold ==
  ASSUME RouteInv(prepared, from, route, inputs)
  PROVE  IndicesAreTrue /\ NoneIsLost /\ OrderIsKept
  <1> DEFINE n == Len(prepared.points)
             l == Len(route)
             M(k) == Meaning(prepared, from, k)
  <1>1. PICK pos : Placed(prepared, route, inputs, pos)
    BY PlacedIs
  <1>2. /\ PrepOk(prepared, from) /\ Count \in Nat \ {0} /\ n \in Nat \ {0}
        /\ Keys = {i \in 1..l : IsKey(route[i])}
    <2>1. PrepOk(prepared, from) /\ route \in Seq(Waypoints)
      BY DEF RouteInv
    <2>2. MarkedAs(prepared)
      BY <2>1, MarkedIs DEF PrepOk
    <2> QED BY <2>1, <2>2, LenProperties DEF PrepOk, MarkedAs, Keys
  <1>3. \A x : StandsFor(x) = Meant(prepared, from, x)
    BY DEF StandsFor, Meant
  <1>4. \A k \in 1..n :
            /\ pos[k] \in 1..l /\ IsKey(route[pos[k]])
            /\ route[pos[k]].at = prepared.points[k].at /\ route[pos[k]].act = prepared.acts[k]
            /\ StandsFor(inputs[pos[k]]) = M(k)
    BY <1>1, <1>3 DEF Placed, Meaning
  <1>5. /\ \A i \in Keys : \E k \in 1..n : i = pos[k]
        /\ \A j, k \in 1..n : pos[j] < pos[k] <=> j < k
        /\ pos[1] = 1
    BY <1>1, <1>2 DEF Placed
  <1>6. \A k \in 1..n : pos[k] \in Keys
    BY <1>2, <1>4
  <1>7. 1 \in 1..n /\ StandsFor(inputs[1]) = M(1)
    <2>1. 1 \in 1..n
      BY <1>2
    <2> QED BY <1>4, <1>5, <2>1
  <1> HIDE DEF n, l, M
  <1>8. IndicesAreTrue
    <2> SUFFICES ASSUME NEW i \in Keys
                 PROVE  \E x \in 1..Count : /\ x = StandsFor(inputs[i])
                                            /\ route[i].at = mission.lists.points[InRequest(x)].at
                                            /\ route[i].act = mission.lists.acts[InRequest(x)]
      BY DEF IndicesAreTrue
    <2>1. PICK k \in 1..n : i = pos[k]
      BY <1>5
    <2>2. /\ M(k) \in 1..Count /\ prepared.points[k] = mission.lists.points[InRequest(M(k))]
          /\ prepared.acts[k] = mission.lists.acts[InRequest(M(k))]
      BY <1>2 DEF PrepOk, PrepTrue, PointOf, ActOf, M, n
    <2> QED BY <1>4, <2>1, <2>2
  <1>9. Named = Meanings(prepared, from)
    <2>1. Meanings(prepared, from) = {M(k) : k \in 1..n}
      BY DEF Meanings, M, n
    <2>2. Named = {StandsFor(inputs[i]) : i \in Keys}
      BY DEF Named
    <2>3. ASSUME NEW i \in Keys PROVE \E k \in 1..n : StandsFor(inputs[i]) = M(k)
      BY <1>4, <1>5
    <2>4. ASSUME NEW k \in 1..n PROVE \E i \in Keys : M(k) = StandsFor(inputs[i])
      BY <1>4, <1>6
    <2> QED BY <2>1, <2>2, <2>3, <2>4
  <1>10. NoneIsLost
    <2>1. PrepWhole(prepared, from)
      BY <1>2 DEF PrepOk
    <2>2. CASE Loop
      BY <1>9, <2>1, <2>2 DEF PrepWhole, NoneIsLost, PointOf
    <2>3. CASE ~Loop
      <3>1. Named = Meaning(prepared, from, 1)..Count
        BY <1>9, <2>1, <2>3 DEF PrepWhole
      <3>2. StandsFor(inputs[1]) = Meaning(prepared, from, 1)
        BY <1>7 DEF M
      <3> QED BY <2>3, <3>1, <3>2 DEF NoneIsLost
    <2> QED BY <2>2, <2>3
  <1>11. OrderIsKept
    <2> DEFINE After(i) == (StandsFor(inputs[i]) - StandsFor(inputs[1])) % Count
    <2> SUFFICES ASSUME NEW i \in Keys, NEW j \in Keys, i < j
                 PROVE  After(i) < After(j)
      BY DEF OrderIsKept
    <2>1. PICK g \in 1..n : i = pos[g]
      BY <1>5
    <2>2. PICK h \in 1..n : j = pos[h]
      BY <1>5
    <2>3. g < h
      BY <1>5, <2>1, <2>2
    <2>4. Gap(M(1), M(g), Count) < Gap(M(1), M(h), Count)
      BY <1>2, <2>3 DEF PrepOk, PrepOrdered, M, n
    <2>5. /\ After(i) = Gap(M(1), M(g), Count)
          /\ After(j) = Gap(M(1), M(h), Count)
      BY <1>4, <1>7, <2>1, <2>2 DEF Gap
    <2> QED BY <2>4, <2>5
  <1> QED BY <1>8, <1>10, <1>11

(* The exit waypoint is found by its index.                                *)
LEMMA ExitHolds ==
  ASSUME mission \in Missions, RouteInv(prepared, from, route, inputs),
         Loop /\ lowBattery => exit = ExitInput(prepared, Home)
  PROVE  ExitIsOnRoute
  <1> SUFFICES ASSUME Loop, lowBattery
               PROVE  \E i \in Keys : /\ inputs[i] = exit
                                      /\ \A j \in Keys : D2(Home, route[i].at) <= D2(Home, route[j].at)
    BY DEF ExitIsOnRoute
  <1> DEFINE n == Len(prepared.points)
             l == Len(route)
             dist(k) == D2(Home, prepared.points[k].at)
             best == {k \in 1..n : \A h \in 1..n : dist(k) <= dist(h)}
             nums == {Number(prepared.inputs, k) : k \in best}
  <1>1. PICK pos : Placed(prepared, route, inputs, pos)
    BY PlacedIs
  <1>2. PrepTyped(prepared) /\ route \in Seq(Waypoints)
    BY DEF RouteInv, PrepOk
  <1>3. /\ n \in Nat \ {0} /\ prepared.points \in Seq(Stops) /\ DOMAIN prepared.points = 1..n
        /\ Keys = {i \in 1..l : IsKey(route[i])}
        /\ \A k \in 1..n : Number(prepared.inputs, k) \in Nat
    <2>1. MarkedAs(prepared)
      BY <1>2, MarkedIs
    <2> QED BY <1>2, <2>1, LenProperties DEF PrepTyped, MarkedAs, Keys
  <1>4. Home \in Places
    BY MissionIs
  <1>5. \A k \in 1..n : dist(k) \in Nat
    <2> TAKE k \in 1..n
    <2>1. prepared.points[k].at \in Places
      BY <1>3, StopIs
    <2> QED BY <1>4, <2>1, D2Is
  <1>6. exit = Min(nums)
    BY <1>3 DEF ExitInput
  <1>7. \A k \in 1..n : /\ pos[k] \in Keys /\ route[pos[k]].at = prepared.points[k].at
                        /\ inputs[pos[k]] = Number(prepared.inputs, k)
    BY <1>1, <1>3 DEF Placed
  <1>8. \A i \in Keys : \E k \in 1..n : i = pos[k]
    BY <1>1, <1>3 DEF Placed
  <1> HIDE DEF n, l, dist
  <1>9. PICK k \in best : exit = Number(prepared.inputs, k)
    <2> DEFINE dists == {dist(k) : k \in 1..n}
    <2>1. dists \in SUBSET Nat /\ dists # {}
      <3>1. 1 \in 1..n
        BY <1>3
      <3> QED BY <1>5, <3>1
    <2>2. \E x \in dists : \A y \in dists : x <= y
      <3> HIDE DEF dists
      <3> QED BY <2>1, LeastNat
    <2>3. best # {}
      BY <2>2
    <2>4. nums \in SUBSET Nat /\ nums # {}
      BY <1>3, <2>3
    <2>5. Min(nums) \in nums
      <3> HIDE DEF nums
      <3> QED BY <2>4, MinIs
    <2> QED BY <1>6, <2>5
  <1>10. k \in 1..n /\ \A h \in 1..n : dist(k) <= dist(h)
    BY <1>9
  <1>11. ASSUME NEW j \in Keys
         PROVE  D2(Home, route[pos[k]].at) <= D2(Home, route[j].at)
    <2>1. PICK h \in 1..n : j = pos[h]
      BY <1>8
    <2>2. D2(Home, route[pos[k]].at) = dist(k) /\ D2(Home, route[j].at) = dist(h)
      BY <1>7, <1>10, <2>1 DEF dist
    <2> QED BY <1>10, <2>2
  <1> QED BY <1>7, <1>9, <1>10, <1>11

(* A mission that stays says the same of its route.                        *)
LEMMA RouteStands ==
  ASSUME mission' = mission, RouteInv(prepared', from', route', inputs')
  PROVE  RouteInv(prepared, from, route, inputs)'
  BY DEF RouteInv, PrepOk, PrepTyped, PrepTrue, PrepOrdered, PrepWhole, Meanings, Meaning, Meant,
         PointOf, ActOf, Count, InRequest, Loop

LEMMA RouteRests ==
  ASSUME mission' = mission, UNCHANGED plan, RouteInv(prepared, from, route, inputs)
  PROVE  RouteInv(prepared, from, route, inputs)'
  <1>1. /\ prepared' = prepared /\ from' = from /\ route' = route /\ inputs' = inputs
    BY DEF plan
  <1> QED BY <1>1, RouteStands
----------------------------------------------------------------------------
(* Where a chunk starts and where it ends (_send_chunk).                   *)

(* A search that meets a member of S c places ahead goes no further.       *)
LEMMA FirstFromStops ==
  ASSUME NEW n \in Nat \ {0}, NEW i \in 1..n, NEW S \in SUBSET (1..n), NEW c \in 0..n - 1,
         Ahead(i, c, n) \in S
  PROVE  \E d \in 0..c : /\ FirstFrom(i, S, n, TRUE) = Ahead(i, d, n)
                         /\ \A e \in 0..d - 1 : Ahead(i, e, n) \notin S
  <1>1. PICK d \in 0..n - 1 : /\ FirstFrom(i, S, n, TRUE) = Ahead(i, d, n)
                              /\ d = n - 1 \/ Ahead(i, d, n) \in S
                              /\ \A e \in 0..d - 1 : Ahead(i, e, n) \notin S
    BY FirstFromLoop
  <1>2. d \in 0..c
    <2>1. ~(c \in 0..d - 1)
      BY <1>1
    <2> QED BY <2>1
  <1> QED BY <1>1, <1>2

(* What a loop's chunk may start with: from i on, nothing with an action is*)
(* passed, nor a key waypoint that is away or has one.                     *)
LEMMA SendFromIs ==
  ASSUME NEW r \in Seq(Waypoints), Len(r) > 0, NEW p, NEW i \in 1..Len(r)
  PROVE  SendFrom(r, i, p, TRUE) \in 1..Len(r)
  <1> DEFINE n == Len(r)
             S == Acts(r) \cup Away(r, p)
             N == NotPassed(r, p) \cup Acts(r)
             j == FirstFrom(i, S, n, TRUE)
  <1>1. n \in Nat \ {0} /\ DOMAIN r = 1..n
    BY LenProperties
  <1>2. S \in SUBSET (1..n) /\ N \in SUBSET (1..n)
    BY <1>1 DEF Acts, Away, NotPassed
  <1>3. SendFrom(r, i, p, TRUE) = FirstFrom(j, N, n, TRUE)
    BY DEF SendFrom, SkipPassed, SkipReached
  <1> HIDE DEF n, S, N
  <1>4. ASSUME NEW k \in 1..n, NEW M \in SUBSET (1..n)
        PROVE  FirstFrom(k, M, n, TRUE) \in 1..n
    <2>1. PICK d \in 0..n - 1 : /\ FirstFrom(k, M, n, TRUE) = Ahead(k, d, n)
                                /\ d = n - 1 \/ Ahead(k, d, n) \in M
                                /\ \A e \in 0..d - 1 : Ahead(k, e, n) \notin M
      BY <1>1, FirstFromLoop
    <2>2. d \in 0..n
      BY <1>1
    <2> QED BY <1>1, <2>1, <2>2, AheadIs
  <1>5. j \in 1..n
    BY <1>2, <1>4 DEF n
  <1> HIDE DEF j
  <1> QED BY <1>2, <1>3, <1>4, <1>5 DEF n

(* A chunk that is to start at i starts no further ahead than a waypoint   *)
(* that is neither reached nor passed, and skips no action.                *)
LEMMA SendStops ==
  ASSUME NEW r \in Seq(Waypoints), Len(r) > 0, NEW p, NEW i \in 1..Len(r), NEW c \in 0..Len(r) - 1,
         Ahead(i, c, Len(r)) \in Acts(r) \cup Away(r, p),
         Ahead(i, c, Len(r)) \in Acts(r) \cup NotPassed(r, p)
  PROVE  \E d \in 0..c : /\ SendFrom(r, i, p, TRUE) = Ahead(i, d, Len(r))
                         /\ \A e \in 0..d - 1 : Ahead(i, e, Len(r)) \notin Acts(r)
  <1> DEFINE n == Len(r)
             A == Acts(r)
             S == A \cup Away(r, p)
             N == NotPassed(r, p) \cup A
             j == FirstFrom(i, S, n, TRUE)
             x == Ahead(i, c, n)
  <1>1. n \in Nat \ {0} /\ DOMAIN r = 1..n
    BY LenProperties
  <1>2. S \in SUBSET (1..n) /\ N \in SUBSET (1..n) /\ A \in SUBSET S /\ A \in SUBSET N
    BY <1>1 DEF Acts, Away, NotPassed
  <1>3. SendFrom(r, i, p, TRUE) = FirstFrom(j, N, n, TRUE)
    BY DEF SendFrom, SkipPassed, SkipReached
  <1>4. i \in 1..n /\ c \in 0..n - 1 /\ x \in S /\ x \in N
    OBVIOUS
  <1> HIDE DEF n, A, S, N
  <1>5. PICK a \in 0..c : j = Ahead(i, a, n) /\ \A e \in 0..a - 1 : Ahead(i, e, n) \notin S
    <2>1. \E a \in 0..c : /\ FirstFrom(i, S, n, TRUE) = Ahead(i, a, n)
                          /\ \A e \in 0..a - 1 : Ahead(i, e, n) \notin S
      BY <1>1, <1>2, <1>4, FirstFromStops
    <2> QED BY <2>1
  <1> HIDE DEF j, x
  <1>6. a \in 0..n /\ c - a \in 0..n - 1 /\ c - a \in 0..n - a /\ a + (c - a) = c
    BY <1>1, <1>4
  <1>7. j \in 1..n
    BY <1>1, <1>4, <1>5, <1>6, AheadIs
  <1>8. Ahead(j, c - a, n) = x
    <2> DEFINE d == c - a
    <2>1. d \in 0..n - a /\ a + d = c
      BY <1>6
    <2> HIDE DEF d
    <2>2. Ahead(Ahead(i, a, n), d, n) = Ahead(i, a + d, n)
      BY <1>1, <1>4, <1>6, <2>1, AheadGap
    <2> QED BY <1>5, <2>1, <2>2 DEF d, x
  <1>9. PICK b \in 0..c - a : /\ FirstFrom(j, N, n, TRUE) = Ahead(j, b, n)
                              /\ \A e \in 0..b - 1 : Ahead(j, e, n) \notin N
    <2> DEFINE d == c - a
    <2>1. d \in 0..n - 1 /\ Ahead(j, d, n) \in N
      BY <1>4, <1>6, <1>8
    <2> HIDE DEF d
    <2>2. \E b \in 0..d : /\ FirstFrom(j, N, n, TRUE) = Ahead(j, b, n)
                          /\ \A e \in 0..b - 1 : Ahead(j, e, n) \notin N
      BY <1>1, <1>2, <1>7, <2>1, FirstFromStops
    <2> QED BY <2>2 DEF d
  <1>10. /\ a + b \in 0..c /\ b \in 0..n - a
         /\ \A e \in a..a + b - 1 : e - a \in 0..b - 1 /\ e - a \in 0..n - a /\ a + (e - a) = e
    BY <1>1, <1>4
  <1>11. Ahead(j, b, n) = Ahead(i, a + b, n)
    <2>1. Ahead(Ahead(i, a, n), b, n) = Ahead(i, a + b, n)
      BY <1>1, <1>4, <1>6, <1>10, AheadGap
    <2> QED BY <1>5, <2>1
  <1>12. ASSUME NEW e \in 0..a + b - 1
         PROVE  Ahead(i, e, n) \notin A
    <2>1. CASE e < a
      <3>1. e \in 0..a - 1
        BY <2>1
      <3> QED BY <1>2, <1>5, <3>1
    <2>2. CASE ~(e < a)
      <3> DEFINE h == e - a
      <3>1. h \in 0..b - 1 /\ h \in 0..n - a /\ a + h = e
        <4>1. e \in a..a + b - 1
          BY <2>2
        <4> QED BY <1>10, <4>1
      <3> HIDE DEF h
      <3>2. Ahead(Ahead(i, a, n), h, n) = Ahead(i, a + h, n)
        BY <1>1, <1>4, <1>6, <3>1, AheadGap
      <3>3. Ahead(j, h, n) \notin N
        BY <1>9, <3>1
      <3> QED BY <1>2, <1>5, <3>1, <3>2, <3>3
    <2> QED BY <2>1, <2>2
  <1>13. SendFrom(r, i, p, TRUE) = Ahead(i, a + b, n)
    BY <1>3, <1>9, <1>11
  <1> DEFINE d == a + b
  <1>14. /\ d \in 0..c /\ SendFrom(r, i, p, TRUE) = Ahead(i, d, n)
         /\ \A e \in 0..d - 1 : Ahead(i, e, n) \notin A
    <2>1. d \in 0..c
      BY <1>10
    <2>2. SendFrom(r, i, p, TRUE) = Ahead(i, d, n)
      BY <1>13
    <2>3. \A e \in 0..d - 1 : Ahead(i, e, n) \notin A
      BY <1>12
    <2> QED BY <2>1, <2>2, <2>3
  <1> HIDE DEF d
  <1> QED BY <1>14 DEF n, A

(* A chunk of a loop ends at a key waypoint, with none in between.         *)
LEMMA ChunkEndIs ==
  ASSUME NEW r, NEW i \in 1..Len(r), Len(r) \in Nat \ {0},
         \A j \in 1..Len(r) : r[j].act => IsKey(r[j]),
         Len(r) = 1 => IsKey(r[1]),
         Len(r) # 1 => \E j \in 1..Len(r) : j # i /\ IsKey(r[j])
  PROVE  /\ ChunkEnd(r, i, TRUE) \in 1..Len(r) /\ IsKey(r[ChunkEnd(r, i, TRUE)])
         /\ r[i].act => ChunkEnd(r, i, TRUE) = i
         /\ \A k \in 1..Gap(i, ChunkEnd(r, i, TRUE), Len(r)) - 1 : ~IsKey(r[Ahead(i, k, Len(r))])
  <1> DEFINE n == Len(r)
             t == ChunkEnd(r, i, TRUE)
             ends == {k \in 1..n - 1 : IsKey(r[Ahead(i, k, n)])}
             m == Min(ends \cup {n - 1})
  <1>1. n \in Nat \ {0} /\ i \in 1..n
    OBVIOUS
  <1>2. t = IF r[i].act \/ n - 1 = 0 THEN i ELSE Ahead(i, m, n)
    BY DEF ChunkEnd, Room
  <1> HIDE DEF t
  <1>3. CASE r[i].act \/ n - 1 = 0
    <2>1. t = i
      BY <1>2, <1>3
    <2>2. IsKey(r[i])
      BY <1>1, <1>3
    <2>3. 1..Gap(i, t, n) - 1 = {}
      <3>1. Gap(i, i, n) = 0
        <4>1. Gap(i, i, n) = i - i
          <5> HIDE DEF n
          <5> QED BY <1>1, GapIs
        <4> QED BY <1>1, <4>1
      <3> QED BY <2>1, <3>1
    <2> QED BY <1>1, <2>1, <2>2, <2>3 DEF t
  <1>4. CASE ~(r[i].act \/ n - 1 = 0)
    <2>1. PICK j \in 1..n : j # i /\ IsKey(r[j])
      BY <1>1, <1>4
    <2>2. Gap(i, j, n) \in ends
      <3> DEFINE g == Gap(i, j, n)
      <3>1. g = (IF i <= j THEN j - i ELSE j - i + n) /\ g \in 0..n - 1 /\ Ahead(i, g, n) = j
        <4> HIDE DEF n
        <4> QED BY <1>1, GapIs, AheadGap
      <3> HIDE DEF g
      <3>2. g # 0
        BY <2>1, <3>1
      <3>3. g \in 1..n - 1
        BY <3>1, <3>2
      <3> QED BY <2>1, <3>1, <3>3 DEF g
    <2>3. ends \cup {n - 1} \in SUBSET Nat /\ ends \cup {n - 1} # {}
      BY <1>1
    <2>4. m \in ends \cup {n - 1} /\ \A y \in ends \cup {n - 1} : m <= y
      <3> DEFINE E == ends \cup {n - 1}
      <3>1. E \in SUBSET Nat /\ E # {}
        BY <2>3
      <3> HIDE DEF E
      <3>2. Min(E) \in E /\ \A y \in E : Min(E) <= y
        BY <3>1, MinIs
      <3> QED BY <3>2 DEF E
    <2> HIDE DEF m
    <2>5. m \in ends
      <3> DEFINE g == Gap(i, j, n)
      <3>1. g \in ends /\ m <= g /\ g \in 1..n - 1
        BY <2>2, <2>4
      <3>2. CASE m = n - 1
        <4>1. g = n - 1
          <5> HIDE DEF g
          <5> QED BY <1>1, <3>1, <3>2
        <4> QED BY <3>1, <3>2, <4>1
      <3>3. CASE m # n - 1
        BY <2>4, <3>3
      <3> QED BY <3>2, <3>3
    <2>6. m \in 1..n - 1 /\ IsKey(r[Ahead(i, m, n)]) /\ m \in 0..n /\ m \in 0..n - 1
      BY <1>1, <2>5
    <2>7. t = Ahead(i, m, n)
      BY <1>2, <1>4
    <2>8. t \in 1..n /\ Gap(i, t, n) = m
      <3> HIDE DEF n
      <3> QED BY <1>1, <2>6, <2>7, AheadIs, AheadGap
    <2>9. ASSUME NEW k \in 1..m - 1
          PROVE  ~IsKey(r[Ahead(i, k, n)])
      <3>1. k \in 1..n - 1 /\ ~(m <= k)
        BY <1>1, <2>6
      <3>2. k \notin ends
        <4> HIDE DEF ends
        <4> QED BY <2>4, <3>1
      <3> QED BY <3>1, <3>2
    <2> QED BY <1>4, <2>6, <2>7, <2>8, <2>9 DEF t
  <1> QED BY <1>3, <1>4

(* A retry in a loop looks no further than the chunk it is of.             *)
LEMMA RetryFromIs ==
  ASSUME NEW r, Len(r) \in Nat \ {0}, NEW s \in 1..Len(r), NEW t \in 1..Len(r), NEW p
  PROVE  RetryFrom(r, s, t, p, TRUE) \in CyclicBetween(s, t, Len(r))
  <1> DEFINE n == Len(r)
             found == RetryCandidates(r, p, TRUE)
             C == CyclicBetween(s, t, n)
  <1>1. C \in SUBSET (1..n) /\ s \in C
    BY DEF CyclicBetween
  <1>2. ASSUME NEW F, F # {}, F \subseteq C
        PROVE  Min(F) \in F
    <2>1. F \in SUBSET Nat
      BY <1>1, <1>2
    <2> QED BY <1>2, <2>1, MinIs
  <1>3. RetryFrom(r, s, t, p, TRUE) =
            IF found = {} THEN s ELSE IF found \subseteq C THEN Min(found) ELSE s
    BY DEF RetryFrom
  <1> HIDE DEF found, C
  <1>4. found # {} /\ found \subseteq C => Min(found) \in C
    BY <1>2
  <1> QED BY <1>1, <1>3, <1>4 DEF C

----------------------------------------------------------------------------
(* Chunks of a loop, and how far ahead of the last action they are.        *)

(* A chunk of a loop: from s to the key waypoint t, with none in between;  *)
(* one that starts with an action is nothing else.                         *)
ChunkOk(r, s, t) ==
    /\ s \in 1..Len(r) /\ t \in 1..Len(r) /\ IsKey(r[t])
    /\ r[s].act => t = s
    /\ \A k \in 1..Gap(s, t, Len(r)) - 1 : ~IsKey(r[Ahead(s, k, Len(r))])

(* It starts g places after a, whose action ran last, with no action on    *)
(* the way, and does not go beyond a.                                      *)
BareTo(r, a, g) == \A e \in 1..g - 1 : Ahead(a, e, Len(r)) \notin Acts(r)
NotBeyond(r, a, s, t) ==
    \E g \in 1..Len(r) : /\ s = Ahead(a, g, Len(r)) /\ BareTo(r, a, g)
                         /\ g + Gap(s, t, Len(r)) <= Len(r)

(* What the code needs of the route of a loop.                             *)
LoopRoute(r) ==
    /\ r \in Seq(Waypoints) /\ Len(r) > 0
    /\ \A i \in 1..Len(r) : r[i].act => IsKey(r[i])
    /\ Len(r) = 1 => IsKey(r[1])
    /\ Len(r) # 1 => \A i \in 1..Len(r) : \E j \in 1..Len(r) : j # i /\ IsKey(r[j])

LEMMA LoopRouteIs ==
  ASSUME NEW prep, NEW f, NEW r, NEW ins, RouteInv(prep, f, r, ins)
  PROVE  LoopRoute(r)
  <1> DEFINE n == Len(prep.points)
             l == Len(r)
  <1>1. r \in Seq(Waypoints) /\ l > 0 /\ PrepTyped(prep) /\ (n = 1 => l = 1)
    BY DEF RouteInv, PrepOk
  <1>2. n \in Nat \ {0} /\ l \in Nat \ {0}
    <2>1. MarkedAs(prep)
      BY <1>1, MarkedIs
    <2> QED BY <1>1, <2>1, LenProperties DEF MarkedAs
  <1>3. PICK pos : Placed(prep, r, ins, pos)
    BY PlacedIs
  <1> HIDE DEF n, l
  <1>4. /\ \A i \in 1..l : r[i].act => IsKey(r[i])
        /\ \A k \in 1..n : pos[k] \in 1..l /\ IsKey(r[pos[k]])
        /\ \A j, k \in 1..n : pos[j] < pos[k] <=> j < k
        /\ pos[1] = 1
    BY <1>3 DEF Placed, n, l
  <1>5. 1 \in 1..n /\ IsKey(r[1])
    <2>1. 1 \in 1..n
      BY <1>2
    <2> QED BY <1>4, <2>1
  <1>6. ASSUME l # 1, NEW i \in 1..l
        PROVE  \E j \in 1..l : j # i /\ IsKey(r[j])
    <2>1. 1 \in 1..n /\ 2 \in 1..n
      BY <1>1, <1>2, <1>6
    <2>2. pos[1] \in 1..l /\ pos[2] \in 1..l /\ pos[1] < pos[2]
      BY <1>4, <2>1
    <2>3. pos[1] # pos[2]
      BY <2>2
    <2> QED BY <1>4, <2>1, <2>2, <2>3
  <1> QED BY <1>1, <1>4, <1>5, <1>6 DEF LoopRoute, l

(* Every chunk sent is one.                                                *)
LEMMA ChunkSent ==
  ASSUME NEW r, LoopRoute(r), NEW s \in 1..Len(r)
  PROVE  ChunkOk(r, s, ChunkEnd(r, s, TRUE))
  <1> DEFINE t == ChunkEnd(r, s, TRUE)
  <1>1. /\ r \in Seq(Waypoints) /\ Len(r) > 0 /\ Len(r) \in Nat \ {0}
        /\ \A j \in 1..Len(r) : r[j].act => IsKey(r[j])
        /\ Len(r) = 1 => IsKey(r[1])
        /\ Len(r) # 1 => \A k \in 1..Len(r) : \E j \in 1..Len(r) : j # k /\ IsKey(r[j])
    BY LenProperties DEF LoopRoute
  <1>2. /\ t \in 1..Len(r) /\ IsKey(r[t])
        /\ r[s].act => t = s
        /\ \A k \in 1..Gap(s, t, Len(r)) - 1 : ~IsKey(r[Ahead(s, k, Len(r))])
    <2>1. Len(r) # 1 => \E j \in 1..Len(r) : j # s /\ IsKey(r[j])
      BY <1>1
    <2> QED BY <1>1, <2>1, ChunkEndIs
  <1> HIDE DEF t
  <1> QED BY <1>2 DEF ChunkOk, t

(* Where the actions of a loop are.                                        *)
LEMMA ActsAre ==
  ASSUME NEW r, LoopRoute(r)
  PROVE  /\ Len(r) \in Nat \ {0}
         /\ \A x \in 1..Len(r) : x \in Acts(r) <=> r[x].act
         /\ Acts(r) \in SUBSET (1..Len(r))
         /\ \A x \in 1..Len(r) : r[x].act => IsKey(r[x])
  BY LenProperties DEF LoopRoute, Acts

(* No action waits between a and the end of the chunk.                     *)
LEMMA ChunkBare ==
  ASSUME NEW r, LoopRoute(r), NEW s, NEW t, ChunkOk(r, s, t), NEW a \in 1..Len(r),
         NEW g \in 1..Len(r), s = Ahead(a, g, Len(r)), BareTo(r, a, g),
         g + Gap(s, t, Len(r)) <= Len(r)
  PROVE  BareTo(r, a, g + Gap(s, t, Len(r))) /\ t = Ahead(a, g + Gap(s, t, Len(r)), Len(r))
  <1> DEFINE n == Len(r)
             q == Gap(s, t, n)
  <1>1. /\ n \in Nat \ {0} /\ a \in 1..n /\ g \in 0..n /\ g \in 1..n
        /\ \A x \in 1..n : x \in Acts(r) <=> r[x].act
        /\ \A x \in 1..n : r[x].act => IsKey(r[x])
    BY ActsAre
  <1>2. /\ s \in 1..n /\ t \in 1..n /\ (r[s].act => t = s)
        /\ \A k \in 1..q - 1 : ~IsKey(r[Ahead(s, k, n)])
    BY DEF ChunkOk
  <1>3. s = Ahead(a, g, n) /\ g + q <= n /\ \A e \in 1..g - 1 : Ahead(a, e, n) \notin Acts(r)
    BY DEF BareTo
  <1> HIDE DEF n
  <1>4. /\ q \in 0..n - 1 /\ Ahead(s, q, n) = t
        /\ t = s => q = 0
    <2>1. q \in 0..n - 1 /\ Ahead(s, q, n) = t
      BY <1>1, <1>2, GapIs, AheadGap
    <2>2. Gap(s, t, n) = IF s <= t THEN t - s ELSE t - s + n
      BY <1>1, <1>2, GapIs
    <2> QED BY <1>2, <2>1, <2>2
  <1> HIDE DEF q
  <1>5. \A d \in 0..n - g : Ahead(s, d, n) = Ahead(a, g + d, n)
    BY <1>1, <1>3, AheadGap
  <1>6. t = Ahead(a, g + q, n)
    <2>1. q \in 0..n - g
      BY <1>1, <1>3, <1>4
    <2> QED BY <1>4, <1>5, <2>1
  <1>7. ASSUME NEW e \in 1..(g + q) - 1
        PROVE  Ahead(a, e, n) \notin Acts(r)
    <2>1. CASE e < g
      <3>1. e \in 1..g - 1
        BY <1>1, <1>4, <2>1
      <3> QED BY <1>3, <3>1
    <2>2. CASE e = g
      <3>1. q # 0
        BY <1>1, <1>4, <2>2
      <3> QED BY <1>1, <1>2, <1>3, <1>4, <2>2, <3>1
    <2>3. CASE e > g
      <3> DEFINE d == e - g
      <3>1. d \in 1..q - 1 /\ d \in 0..n - g /\ g + d = e /\ d \in 0..n
        BY <1>1, <1>3, <1>4, <2>3
      <3> HIDE DEF d
      <3>2. Ahead(a, e, n) = Ahead(s, d, n)
        BY <1>5, <3>1
      <3>3. ~IsKey(r[Ahead(s, d, n)]) /\ Ahead(s, d, n) \in 1..n
        BY <1>1, <1>2, <3>1, AheadIs
      <3> QED BY <1>1, <3>2, <3>3
    <2>4. e \in Int /\ g \in Int
      BY <1>1
    <2> QED BY <2>1, <2>2, <2>3, <2>4
  <1>8. BareTo(r, a, g + q)
    <2> DEFINE x == g + q
    <2>1. \A e \in 1..x - 1 : Ahead(a, e, n) \notin Acts(r)
      BY <1>7
    <2> HIDE DEF x
    <2>2. BareTo(r, a, x)
      BY <2>1 DEF BareTo, n
    <2> QED BY <2>2 DEF x
  <1> QED BY <1>6, <1>8 DEF q, n

(* A chunk sent from h places after a, with no action on the way; it skips *)
(* nothing when the place of the robot is unknown.                         *)
LEMMA BehindSent ==
  ASSUME NEW r, LoopRoute(r), NEW p, NEW a \in Acts(r), NEW h \in 1..Len(r), BareTo(r, a, h),
         NEW s, s = Ahead(a, h, Len(r)) \/ s = SendFrom(r, Ahead(a, h, Len(r)), p, TRUE)
  PROVE  NotBeyond(r, a, s, ChunkEnd(r, s, TRUE))
  <1> DEFINE n == Len(r)
             i == Ahead(a, h, n)
             c == n - h
             t == ChunkEnd(r, s, TRUE)
             A == Acts(r)
  <1>1. /\ n \in Nat \ {0} /\ a \in 1..n /\ h \in 0..n /\ h \in 1..n /\ a \in A
        /\ r[a].act /\ IsKey(r[a])
        /\ r \in Seq(Waypoints) /\ n > 0
    <2>1. /\ n \in Nat \ {0} /\ A \in SUBSET (1..n)
          /\ \A x \in 1..n : x \in A <=> r[x].act
          /\ \A x \in 1..n : r[x].act => IsKey(r[x])
      BY ActsAre
    <2>2. a \in A /\ h \in 1..n
      OBVIOUS
    <2>3. r \in Seq(Waypoints) /\ n > 0
      BY DEF LoopRoute
    <2> HIDE DEF n, A
    <2>4. a \in 1..n
      BY <2>1, <2>2
    <2>5. r[a].act /\ IsKey(r[a])
      BY <2>1, <2>2, <2>4
    <2>6. h \in 0..n
      BY <2>1, <2>2
    <2> QED BY <2>1, <2>2, <2>3, <2>4, <2>5, <2>6
  <1>2. \A e \in 1..h - 1 : Ahead(a, e, n) \notin A
    BY DEF BareTo
  <1>3. i \in 1..n
    <2> HIDE DEF n
    <2> QED BY <1>1, AheadIs
  <1>4. ChunkOk(r, s, t)
    <2>1. s \in 1..n
      BY <1>1, <1>3, SendFromIs
    <2> QED BY <2>1, ChunkSent
  <1> HIDE DEF t
  <1>5. c \in 0..n - 1 /\ c \in 0..n - h /\ h + c = n
    BY <1>1
  <1>6. \A d \in 0..n - h : Ahead(i, d, n) = Ahead(a, h + d, n)
    <2> HIDE DEF n
    <2> QED BY <1>1, AheadGap
  <1>7. Ahead(i, c, n) = a
    <2>1. Ahead(a, n, n) = a
      <3> HIDE DEF n
      <3> QED BY <1>1, AheadGap
    <2> HIDE DEF i, n, c
    <2> QED BY <1>5, <1>6, <2>1
  <1>8. PICK d \in 0..c : /\ s = Ahead(i, d, n)
                          /\ \A e \in 0..d - 1 : Ahead(i, e, n) \notin A
    <2>0. s = i \/ s = SendFrom(r, i, p, TRUE)
      OBVIOUS
    <2> HIDE DEF i, c
    <2>1. /\ Ahead(i, c, n) \in Acts(r) \cup Away(r, p)
          /\ Ahead(i, c, n) \in Acts(r) \cup NotPassed(r, p)
      BY <1>1, <1>7
    <2>2. CASE s = SendFrom(r, i, p, TRUE)
      BY <1>1, <1>3, <1>5, <2>1, <2>2, SendStops
    <2>3. CASE s = i
      <3> HIDE DEF n
      <3>1. Ahead(i, 0, n) = i /\ 0 \in 0..c /\ 0..0 - 1 = {}
        BY <1>1, <1>3, <1>5, AheadGap
      <3> QED BY <2>3, <3>1
    <2> QED BY <2>0, <2>2, <2>3
  <1> DEFINE g == h + d
             q == Gap(s, t, n)
  <1> HIDE DEF i, c, n
  <1>9. g \in 1..n /\ d \in 0..n - h /\ g \in 0..n
    BY <1>1, <1>5, <1>8
  <1>10. s = Ahead(a, g, n)
    BY <1>6, <1>8, <1>9
  <1>11. ASSUME NEW e \in 1..g - 1
         PROVE  Ahead(a, e, n) \notin A
    <2>1. CASE e < h
      <3>1. e \in 1..h - 1
        BY <1>1, <2>1
      <3> QED BY <1>2, <3>1
    <2>2. CASE ~(e < h)
      <3> DEFINE x == e - h
      <3>1. x \in 0..d - 1 /\ x \in 0..n - h /\ h + x = e
        BY <1>1, <1>9, <2>2
      <3> HIDE DEF x
      <3> QED BY <1>6, <1>8, <3>1
    <2> QED BY <2>1, <2>2
  <1>12. /\ s \in 1..n /\ t \in 1..n /\ (r[s].act => t = s)
         /\ \A k \in 1..q - 1 : ~IsKey(r[Ahead(s, k, n)])
    BY <1>4 DEF ChunkOk, n
  <1>13. q \in 0..n - 1 /\ (t = s => q = 0)
    <2>1. Gap(s, t, n) = (IF s <= t THEN t - s ELSE t - s + n) /\ Gap(s, t, n) \in 0..n - 1
      BY <1>1, <1>12, GapIs
    <2> QED BY <1>12, <2>1
  <1> HIDE DEF g, q
  <1>14. g + q <= n
    <2> SUFFICES ASSUME ~(g + q <= n) PROVE FALSE
      OBVIOUS
    <2> DEFINE x == n - g
    <2>1. x \in 0..q - 1 /\ x \in 0..n - g /\ g + x = n
      <3>1. n \in Int /\ g \in 1..n /\ q \in Int /\ g + q > n
        <4>1. n \in Int /\ g \in 1..n /\ q \in Int
          BY <1>1, <1>9, <1>13
        <4> QED BY <4>1
      <3> QED BY <3>1
    <2> HIDE DEF x
    <2>2. Ahead(s, x, n) = a
      <3>1. Ahead(Ahead(a, g, n), x, n) = Ahead(a, g + x, n)
        BY <1>1, <1>9, <2>1, AheadGap
      <3>2. Ahead(a, n, n) = a
        BY <1>1, AheadGap
      <3> QED BY <1>10, <2>1, <3>1, <3>2
    <2>3. CASE x = 0
      <3>1. Ahead(s, 0, n) = s
        BY <1>1, <1>12, AheadGap
      <3>2. s = a
        BY <2>2, <2>3, <3>1
      <3>3. q = 0
        BY <1>1, <1>12, <1>13, <3>2
      <3> QED BY <2>1, <2>3, <3>3
    <2>4. CASE x # 0
      <3>1. x \in 1..q - 1
        BY <1>13, <2>1, <2>4
      <3> QED BY <1>1, <1>12, <2>2, <3>1
    <2> QED BY <2>3, <2>4
  <1>15. NotBeyond(r, a, s, t)
    <2>1. BareTo(r, a, g)
      BY <1>11 DEF BareTo, n
    <2> QED BY <1>9, <1>10, <1>14, <2>1 DEF NotBeyond, n, q
  <1> QED BY <1>15 DEF t, i, n

----------------------------------------------------------------------------
(* The next chunk, after one that ended, an action, or a blocked wait.     *)

(* The chunk after one that ends without an action.                        *)
LEMMA AfterChunk ==
  ASSUME NEW r, LoopRoute(r), NEW s, NEW t, ChunkOk(r, s, t), NEW a \in Acts(r),
         NotBeyond(r, a, s, t), t \notin Acts(r)
  PROVE  \E h \in 1..Len(r) : Ahead(t, 1, Len(r)) = Ahead(a, h, Len(r)) /\ BareTo(r, a, h)
  <1> DEFINE n == Len(r)
             q == Gap(s, t, n)
  <1>1. n \in Nat \ {0} /\ a \in 1..n
    BY ActsAre
  <1>2. PICK g \in 1..n : s = Ahead(a, g, n) /\ BareTo(r, a, g) /\ g + q <= n
    BY DEF NotBeyond
  <1>3. BareTo(r, a, g + q) /\ t = Ahead(a, g + q, n)
    BY <1>1, <1>2, ChunkBare
  <1>4. q \in 0..n - 1
    <2>1. s \in 1..n /\ t \in 1..n
      BY DEF ChunkOk
    <2> HIDE DEF n
    <2> QED BY <1>1, <2>1, GapIs
  <1> DEFINE x == g + q
  <1>5. x \in 1..n
    <2> HIDE DEF n, q
    <2> QED BY <1>1, <1>2, <1>4
  <1>6. t = Ahead(a, x, n) /\ \A e \in 1..x - 1 : Ahead(a, e, n) \notin Acts(r)
    <2>1. BareTo(r, a, x) /\ t = Ahead(a, x, n)
      BY <1>3
    <2> HIDE DEF x
    <2> QED BY <2>1 DEF BareTo
  <1> HIDE DEF n, q, x
  <1>7. x # n
    <2>1. Ahead(a, n, n) = a
      BY <1>1, AheadGap
    <2> QED BY <1>6, <2>1
  <1> DEFINE h == x + 1
  <1>8. h \in 1..n /\ x \in 0..n /\ 1 \in 0..n - x
    BY <1>1, <1>5, <1>7
  <1>9. Ahead(t, 1, n) = Ahead(a, h, n)
    BY <1>1, <1>6, <1>8, AheadGap
  <1>10. ASSUME NEW e \in 1..h - 1
         PROVE  Ahead(a, e, n) \notin Acts(r)
    <2>1. e = x \/ e \in 1..x - 1
      BY <1>5
    <2> QED BY <1>6, <2>1
  <1> HIDE DEF h
  <1>11. BareTo(r, a, h)
    BY <1>10 DEF BareTo, n
  <1> QED BY <1>8, <1>9, <1>11 DEF n

(* The chunk after an action.                                              *)
LEMMA AfterAction ==
  ASSUME NEW r, LoopRoute(r), NEW a \in Acts(r)
  PROVE  1 \in 1..Len(r) /\ BareTo(r, a, 1)
  <1>1. Len(r) \in Nat \ {0}
    BY ActsAre
  <1> QED BY <1>1 DEF BareTo

(* The chunk of a retry.                                                   *)
LEMMA AfterBlock ==
  ASSUME NEW r, LoopRoute(r), NEW s, NEW t, ChunkOk(r, s, t), NEW a \in Acts(r),
         NotBeyond(r, a, s, t), NEW i \in CyclicBetween(s, t, Len(r))
  PROVE  \E h \in 1..Len(r) : i = Ahead(a, h, Len(r)) /\ BareTo(r, a, h)
  <1> DEFINE n == Len(r)
             q == Gap(s, t, n)
             c == Gap(s, i, n)
  <1>1. n \in Nat \ {0} /\ a \in 1..n
    BY ActsAre
  <1>2. s \in 1..n /\ t \in 1..n
    BY DEF ChunkOk
  <1>3. PICK g \in 1..n : s = Ahead(a, g, n) /\ BareTo(r, a, g) /\ g + q <= n
    BY DEF NotBeyond
  <1>4. BareTo(r, a, g + q)
    BY <1>1, <1>3, ChunkBare
  <1>5. /\ i \in 1..n /\ q \in 0..n - 1 /\ c \in 0..n - 1
        /\ c <= q /\ Ahead(s, c, n) = i
    <2>1. i \in CyclicBetween(s, t, n)
      OBVIOUS
    <2> HIDE DEF n
    <2>2. i \in 1..n
      BY <1>1, <1>2, <2>1, BetweenIs
    <2>3. c <= q
      BY <1>1, <1>2, <2>1, <2>2, BetweenIs
    <2>4. c \in 0..n - 1 /\ q \in 0..n - 1
      BY <1>1, <1>2, <2>2, GapIs
    <2>5. Ahead(s, c, n) = i
      BY <1>1, <1>2, <2>2, AheadGap
    <2> QED BY <2>2, <2>3, <2>4, <2>5
  <1> DEFINE x == g + q
             h == g + c
  <1>6. \A e \in 1..x - 1 : Ahead(a, e, n) \notin Acts(r)
    <2>1. BareTo(r, a, x)
      BY <1>4
    <2> HIDE DEF x
    <2> QED BY <2>1 DEF BareTo
  <1> HIDE DEF n, q, c
  <1>7. h \in 1..n /\ x \in 1..n /\ h <= x /\ g \in 0..n /\ c \in 0..n - g
    BY <1>1, <1>3, <1>5
  <1>8. i = Ahead(a, h, n)
    <2>1. Ahead(Ahead(a, g, n), c, n) = Ahead(a, g + c, n)
      BY <1>1, <1>7, AheadGap
    <2> QED BY <1>3, <1>5, <2>1
  <1> HIDE DEF h, x
  <1>9. ASSUME NEW e \in 1..h - 1
        PROVE  Ahead(a, e, n) \notin Acts(r)
    <2>1. e \in 1..x - 1
      BY <1>7
    <2> QED BY <1>6, <2>1
  <1>10. BareTo(r, a, h)
    BY <1>9 DEF BareTo, n
  <1> QED BY <1>7, <1>8, <1>10 DEF n

(* A retry does not start beyond a target that is away or has an action.   *)
LEMMA RetryStays ==
  ASSUME NEW r, LoopRoute(r), NEW s, NEW t, ChunkOk(r, s, t), NEW p,
         NEW i \in CyclicBetween(s, t, Len(r)), t \in Away(r, p) \cup Acts(r)
  PROVE  SendFrom(r, i, p, TRUE) \in CyclicBetween(s, t, Len(r))
  <1> DEFINE n == Len(r)
             q == Gap(s, t, n)
             b == Gap(s, i, n)
             c == Gap(i, t, n)
             z == SendFrom(r, i, p, TRUE)
  <1>1. n \in Nat \ {0} /\ r \in Seq(Waypoints) /\ n > 0 /\ DOMAIN r = 1..n
    BY ActsAre, LenProperties DEF LoopRoute
  <1>2. s \in 1..n /\ t \in 1..n /\ IsKey(r[t])
    BY DEF ChunkOk
  <1>3. t \in Acts(r) \cup Away(r, p) /\ t \in Acts(r) \cup NotPassed(r, p)
    BY <1>1, <1>2 DEF NotPassed
  <1>4. i \in CyclicBetween(s, t, n)
    OBVIOUS
  <1>5. i \in 1..n /\ b <= q
    <2> HIDE DEF n
    <2>1. i \in 1..n
      BY <1>1, <1>2, <1>4, BetweenIs
    <2> QED BY <1>1, <1>2, <1>4, <2>1, BetweenIs
  <1>6. /\ b = IF s <= i THEN i - s ELSE i - s + n
        /\ c = IF i <= t THEN t - i ELSE t - i + n
        /\ q = IF s <= t THEN t - s ELSE t - s + n
        /\ b \in 0..n - 1 /\ c \in 0..n - 1 /\ q \in 0..n - 1
    <2> HIDE DEF n
    <2> QED BY <1>1, <1>2, <1>5, GapIs
  <1>7. Ahead(i, c, n) = t /\ Ahead(s, b, n) = i
    <2> HIDE DEF n
    <2> QED BY <1>1, <1>2, <1>5, AheadGap
  <1>8. \E d \in 0..c : z = Ahead(i, d, n)
    <2> HIDE DEF c
    <2>1. /\ Ahead(i, c, Len(r)) \in Acts(r) \cup Away(r, p)
          /\ Ahead(i, c, Len(r)) \in Acts(r) \cup NotPassed(r, p)
      BY <1>3, <1>7
    <2>2. \E d \in 0..c : /\ SendFrom(r, i, p, TRUE) = Ahead(i, d, Len(r))
                          /\ \A e \in 0..d - 1 : Ahead(i, e, Len(r)) \notin Acts(r)
      BY <1>1, <1>5, <1>6, <2>1, SendStops
    <2> QED BY <2>2
  <1> HIDE DEF n, q, b, c, z
  <1>9. PICK d \in 0..c : z = Ahead(i, d, n)
    BY <1>8
  <1> DEFINE x == b + d
  <1>10. b + c = q
    BY <1>1, <1>2, <1>5, <1>6
  <1>11. x \in 0..q /\ x \in 0..n - 1 /\ b \in 0..n /\ d \in 0..n - b /\ x \in 0..n
    BY <1>1, <1>6, <1>9, <1>10
  <1>12. z = Ahead(s, x, n)
    <2>1. Ahead(Ahead(s, b, n), d, n) = Ahead(s, b + d, n)
      BY <1>1, <1>2, <1>11, AheadGap
    <2> QED BY <1>7, <1>9, <2>1
  <1> HIDE DEF x
  <1>13. z \in 1..n /\ Gap(s, z, n) = x
    BY <1>1, <1>2, <1>11, <1>12, AheadIs, AheadGap
  <1>14. Gap(s, z, n) <= Gap(s, t, n)
    BY <1>6, <1>11, <1>13 DEF q
  <1>15. z \in CyclicBetween(s, t, n)
    BY <1>1, <1>2, <1>13, <1>14, BetweenIs
  <1> QED BY <1>15 DEF z, n

(* There is no action between a and a chunk's end, wherever that is.       *)
LEMMA InsideBare ==
  ASSUME NEW r, LoopRoute(r), NEW s, NEW t, ChunkOk(r, s, t), NEW a \in Acts(r),
         NotBeyond(r, a, s, t)
  PROVE  Inside(a, t, Len(r)) \cap Acts(r) = {}
  <1> DEFINE n == Len(r)
             q == Gap(s, t, n)
  <1>1. n \in Nat \ {0} /\ a \in 1..n
    BY ActsAre
  <1>2. PICK g \in 1..n : s = Ahead(a, g, n) /\ BareTo(r, a, g) /\ g + q <= n
    BY DEF NotBeyond
  <1>3. BareTo(r, a, g + q) /\ t = Ahead(a, g + q, n)
    BY <1>1, <1>2, ChunkBare
  <1>4. q \in 0..n - 1
    <2>1. s \in 1..n /\ t \in 1..n
      BY DEF ChunkOk
    <2> HIDE DEF n
    <2> QED BY <1>1, <2>1, GapIs
  <1> DEFINE x == g + q
  <1>5. x \in 1..n /\ x \in 0..n
    <2> HIDE DEF n, q
    <2> QED BY <1>1, <1>2, <1>4
  <1>6. t = Ahead(a, x, n) /\ \A e \in 1..x - 1 : Ahead(a, e, n) \notin Acts(r)
    <2>1. BareTo(r, a, x) /\ t = Ahead(a, x, n)
      BY <1>3
    <2> HIDE DEF x
    <2> QED BY <2>1 DEF BareTo
  <1> HIDE DEF n, q, x
  <1>7. t = IF a + x <= n THEN a + x ELSE a + x - n
    BY <1>1, <1>5, <1>6, AheadIs
  <1> DEFINE y == (t - a) - 1
  <1>8. y \in Int /\ (a + x <= n => y = x - 1) /\ (~(a + x <= n) => y = (x - 1) - n)
    BY <1>1, <1>5, <1>7
  <1>9. (y \in 0..n - 1 => y % n = y) /\ (y \in 0 - n..0 - 1 => y % n = y + n)
    <2> HIDE DEF y
    <2> QED BY <1>1, <1>8, ModIs
  <1> HIDE DEF y
  <1>10. y % n = x - 1
    BY <1>1, <1>5, <1>8, <1>9
  <1>11. Inside(a, t, n) = {Ahead(a, k, n) : k \in 1..(y % n)}
    BY DEF Inside, y
  <1>12. Inside(a, t, n) = {Ahead(a, k, n) : k \in 1..x - 1}
    BY <1>10, <1>11
  <1> QED BY <1>6, <1>12 DEF n

(* next_chunk_start_index in a loop: a loop of one waypoint ends.          *)
LEMMA NextStartIs ==
  ASSUME NEW n \in Nat \ {0}, NEW t \in 1..n
  PROVE  NextStart(t, n, TRUE) = IF n > 1 THEN Ahead(t, 1, n) ELSE 2
  <1>1. CASE n > 1
    BY <1>1 DEF NextStart
  <1>2. CASE ~(n > 1)
    <2>1. n = 1 /\ t = 1
      BY <1>2
    <2>2. NextStart(t, n, TRUE) = Min({t + 1, n + 1})
      BY <1>2 DEF NextStart
    <2>3. {t + 1, n + 1} = {2}
      BY <2>1
    <2>4. Min({2}) = 2
      <3>1. {2} \in SUBSET Nat /\ {2} # {}
        OBVIOUS
      <3> QED BY <3>1, MinIs
    <2> QED BY <1>2, <2>2, <2>3, <2>4
  <1> QED BY <1>1, <1>2

----------------------------------------------------------------------------
(* The inductive invariant, and the theorems.                              *)

OnRoute == phase \notin {"none", "refused"}
RouteWalked ==
    /\ mission \in Missions /\ robot \in Places /\ posed \in BOOLEAN
    /\ phase = "none" => acted = 0 /\ lowBattery = FALSE
    /\ IF OnRoute THEN RouteInv(prepared, from, route, inputs) ELSE route = <<>>
    /\ Loop /\ OnRoute /\ lowBattery => exit = ExitInput(prepared, Home)

ActionsWalked ==
    Loop /\ OnRoute =>
        /\ ChunkOk(route, start, target)
        /\ acted # 0 =>
               /\ acted \in Acts(route)
               /\ phase = "action" => target = acted
               /\ phase \in {"driving", "blocked"} => NotBeyond(route, acted, start, target)

WalkInv == RouteWalked /\ ActionsWalked

LEMMA WalkStart == WalkInit => WalkInv
  <1> SUFFICES ASSUME WalkInit PROVE WalkInv
    OBVIOUS
  <1>1. /\ mission \in Missions /\ robot \in mission.starts /\ posed \in BOOLEAN
        /\ route = <<>> /\ phase = "none" /\ acted = 0 /\ lowBattery = FALSE
    BY DEF WalkInit
  <1>2. robot \in Places
    BY <1>1, MissionsAssumption
  <1> QED BY <1>1, <1>2 DEF WalkInv, RouteWalked, ActionsWalked, OnRoute

(* A chunk of a loop that is sent h places after the last action.          *)
LEMMA ChunkStarts ==
  ASSUME NEW r, LoopRoute(r), NEW i \in 1..Len(r),
         start' = i \/ start' = SendFrom(r, i, robot, TRUE),
         target' = ChunkEnd(r, start', TRUE), phase' = "driving",
         acted # 0 => /\ acted \in Acts(r)
                      /\ \E h \in 1..Len(r) : i = Ahead(acted, h, Len(r)) /\ BareTo(r, acted, h)
  PROVE  /\ ChunkOk(r, start', target') /\ phase' = "driving"
         /\ acted # 0 => NotBeyond(r, acted, start', target')
  <1>1. /\ start' = i \/ start' = SendFrom(r, i, robot, TRUE)
        /\ target' = ChunkEnd(r, start', TRUE)
        /\ phase' = "driving"
    OBVIOUS
  <1>2. start' \in 1..Len(r)
    BY <1>1, SendFromIs DEF LoopRoute
  <1>3. ChunkOk(r, start', target')
    BY <1>1, <1>2, ChunkSent
  <1>4. ASSUME acted # 0
        PROVE  NotBeyond(r, acted, start', target')
    <2>1. acted \in Acts(r)
      BY <1>4
    <2>2. PICK h \in 1..Len(r) : i = Ahead(acted, h, Len(r)) /\ BareTo(r, acted, h)
      BY <1>4
    <2>3. PICK s : s = start'
      OBVIOUS
    <2>4. s = Ahead(acted, h, Len(r)) \/ s = SendFrom(r, Ahead(acted, h, Len(r)), robot, TRUE)
      BY <1>1, <2>2, <2>3
    <2>5. NotBeyond(r, acted, s, ChunkEnd(r, s, TRUE))
      BY <2>1, <2>2, <2>4, BehindSent
    <2> QED BY <1>1, <2>3, <2>5
  <1> QED BY <1>1, <1>3, <1>4

LEMMA ChunkIsSent ==
  ASSUME NEW r, LoopRoute(r), Loop = TRUE, NEW i \in 1..Len(r), Send(r, i),
         acted # 0 => /\ acted \in Acts(r)
                      /\ \E h \in 1..Len(r) : i = Ahead(acted, h, Len(r)) /\ BareTo(r, acted, h)
  PROVE  /\ ChunkOk(r, start', target') /\ phase' = "driving"
         /\ acted # 0 => NotBeyond(r, acted, start', target')
  <1>1. /\ start' = i \/ start' = SendFrom(r, i, robot, TRUE)
        /\ target' = ChunkEnd(r, start', TRUE)
        /\ phase' = "driving"
    BY DEF Send
  <1> QED BY <1>1, ChunkStarts

(* What GoOn does in a loop.                                               *)
LEMMA GoneOn ==
  ASSUME Loop = TRUE, LoopRoute(route), ChunkOk(route, start, target), GoOn,
         acted # 0 => /\ acted \in Acts(route)
                      /\ \/ target = acted
                         \/ target \notin Acts(route) /\ NotBeyond(route, acted, start, target)
  PROVE  /\ ChunkOk(route, start', target')
         /\ phase' \in {"home", "done", "driving"}
         /\ acted # 0 /\ phase' = "driving" => NotBeyond(route, acted, start', target')
  <1> DEFINE n == Len(route)
             next == NextStart(target, n, Loop)
  <1>1. LoopRoute(route)
    OBVIOUS
  <1>2. n \in Nat \ {0} /\ target \in 1..n
    BY <1>1, ActsAre DEF ChunkOk
  <1>3. Loop = TRUE
    OBVIOUS
  <1>4. next = IF n > 1 THEN Ahead(target, 1, n) ELSE 2
    <2>1. next = NextStart(target, n, TRUE)
      BY <1>3
    <2> HIDE DEF n, next
    <2> QED BY <1>2, <2>1, NextStartIs
  <1>5. \/ phase' = "home" /\ UNCHANGED <<start, target>>
        \/ next > n /\ phase' = "done" /\ UNCHANGED <<start, target>>
        \/ ~(next > n) /\ Send(route, next)
    BY DEF GoOn
  <1> HIDE DEF next
  <1>6. CASE phase' = "home" /\ UNCHANGED <<start, target>>
    BY <1>6
  <1>7. CASE next > n /\ phase' = "done" /\ UNCHANGED <<start, target>>
    BY <1>7
  <1>8. CASE ~(next > n) /\ Send(route, next)
    <2>1. n > 1 /\ next = Ahead(target, 1, n)
      BY <1>2, <1>4, <1>8
    <2>2. next \in 1..n
      <3> HIDE DEF n
      <3>1. 1 \in 0..n
        BY <1>2, <2>1
      <3> QED BY <1>2, <2>1, <3>1, AheadIs
    <2>3. ASSUME acted # 0
          PROVE  \E h \in 1..n : next = Ahead(acted, h, n) /\ BareTo(route, acted, h)
      <3>1. CASE target = acted
        <4>1. 1 \in 1..n /\ BareTo(route, acted, 1)
          BY <1>1, <2>3, AfterAction
        <4> QED BY <2>1, <3>1, <4>1
      <3>2. CASE target \notin Acts(route) /\ NotBeyond(route, acted, start, target)
        <4>1. acted \in Acts(route)
          BY <2>3
        <4>2. \E h \in 1..Len(route) : /\ Ahead(target, 1, Len(route)) = Ahead(acted, h, Len(route))
                                       /\ BareTo(route, acted, h)
          BY <1>1, <3>2, <4>1, AfterChunk
        <4> QED BY <2>1, <4>2
      <3> QED BY <2>3, <3>1, <3>2
    <2>4. acted # 0 => acted \in Acts(route)
      OBVIOUS
    <2>5. /\ ChunkOk(route, start', target') /\ phase' = "driving"
          /\ acted # 0 => NotBeyond(route, acted, start', target')
      BY <1>1, <1>3, <1>8, <2>2, <2>3, <2>4, ChunkIsSent
    <2> QED BY <2>5
  <1> QED BY <1>5, <1>6, <1>7, <1>8

(* A route is refused, or built of the mission, and sent from its first    *)
(* waypoint on (_on_set_route, _start_patrol_phase).                       *)
LEMMA RouteBegun ==
  ASSUME mission \in Missions, robot \in Places, posed \in BOOLEAN, SetRoute \/ StartPatrolLoop
  PROVE  /\ phase = "none"
         /\ UNCHANGED <<mission, posed, robot, lowBattery, exit, blocked, acted>>
         /\ \/ phase' = "refused" /\ UNCHANGED plan
            \/ RouteInv(prepared', from', route', inputs') /\ Send(route', 1)
  <1>1. /\ phase = "none"
        /\ UNCHANGED <<mission, posed, robot, lowBattery, exit, blocked, acted>>
    BY DEF SetRoute, StartPatrolLoop
  <1>2. \/ RefuseRoute
        \/ \E i \in 1..Count : /\ Splits(mission.lists, mission.homes)
                               /\ i \in Entries(mission) /\ (~Loop => i = 1)
                               /\ BeginRoute(i)
    <2>1. CASE SetRoute
      <3>1. CASE Splits(mission.lists, mission.homes)
        <4>1. 1 \in 1..Count
          <5>1. Count \in Nat \ {0}
            BY <3>1, SentIs
          <5> QED BY <5>1
        <4>2. BeginRoute(1)
          BY <2>1, <3>1 DEF SetRoute
        <4>3. 1 \in Entries(mission)
          BY DEF Entries
        <4> QED BY <3>1, <4>1, <4>2, <4>3
      <3>2. CASE ~Splits(mission.lists, mission.homes)
        BY <2>1, <3>2 DEF SetRoute
      <3> QED BY <3>1, <3>2
    <2>2. CASE StartPatrolLoop
      <3> DEFINE n == Len(mission.lists.points)
      <3>1. mission.entry # 0
        BY <2>2 DEF StartPatrolLoop
      <3>2. /\ Loop /\ mission.homes = {} /\ n \in Nat \ {0} /\ mission.entry \in 1..n
            /\ mission.lists.points \in Seq(Stops)
        <4>1. /\ Loop /\ mission.homes = {} /\ n \in Nat \ {0} /\ mission.entry \in 0..n
              /\ mission.lists.points \in Seq(Stops)
          BY <3>1, MissionIs
        <4> HIDE DEF n
        <4>2. mission.entry \in 1..n
          BY <3>1, <4>1
        <4> QED BY <4>1, <4>2
      <3>3. Cardinality(mission.homes) = 0
        BY <3>2, FS_EmptySet
      <3>4. Splits(mission.lists, mission.homes)
        <4>1. 1 \in DOMAIN mission.lists.points
          BY <3>2, LenProperties
        <4> QED BY <3>2, <3>3, <4>1 DEF Splits
      <3>5. Count = n
        BY <3>2, <3>3 DEF Count
      <3>6. 1 \in 1..Count /\ Ahead(mission.entry, 1, n) \in 1..Count
        <4> HIDE DEF n
        <4>1. 1 \in 0..n /\ 1 \in 1..n
          BY <3>2
        <4> QED BY <3>2, <3>5, <4>1, AheadIs
      <3>7. 1 \in Entries(mission) /\ Ahead(mission.entry, 1, n) \in Entries(mission)
        BY <3>1 DEF Entries
      <3>8. BeginRoute(Ahead(mission.entry, 1, n)) \/ BeginRoute(1)
        BY <2>2 DEF StartPatrolLoop
      <3> HIDE DEF n
      <3> QED BY <3>2, <3>4, <3>6, <3>7, <3>8
    <2> QED BY <2>1, <2>2
  <1>3. RefuseRoute => phase' = "refused" /\ UNCHANGED plan
    BY DEF RefuseRoute
  <1>4. ASSUME NEW i \in 1..Count, Splits(mission.lists, mission.homes), i \in Entries(mission),
               ~Loop => i = 1, BeginRoute(i), ~(posed /\ Refused(Lists(i).points, robot, Loop))
        PROVE  RouteInv(prepared', from', route', inputs') /\ Send(route', 1)
    <2>1. Loop \in BOOLEAN
      BY MissionIs
    <2>2. Loop => Straight(Lists(i).points)
      <3> SUFFICES ASSUME Loop PROVE Straight(Lists(i).points)
        OBVIOUS
      <3>1. Loop = TRUE
        BY <2>1
      <3>2. Straight(DropClosure(TurnedLists(Sent(mission), i), TRUE).points)
        BY <1>4, MissionIs
      <3> QED BY <3>1, <3>2 DEF Lists
    <2>3. PrepOk(Planned(i), i)
      BY <1>4, <2>2, PreparedIs
    <2>4. PICK prep : prep = Planned(i)
      OBVIOUS
    <2>5. PICK r : r = Expand(Marked(prep), Loop)
      OBVIOUS
    <2>6. /\ prepared' = prep /\ route' = r /\ from' = i
          /\ inputs' = ExpandedInputs(r, prep.inputs) /\ Send(r, 1)
      BY <1>4, <2>4, <2>5 DEF BeginRoute
    <2>7. PrepOk(prep, i)
      BY <2>3, <2>4
    <2>8. RouteInv(prep, i, r, ExpandedInputs(r, prep.inputs))
      BY <2>1, <2>5, <2>7, RouteBuilt
    <2> QED BY <2>6, <2>8
  <1>5. ASSUME NEW i \in 1..Count, BeginRoute(i), posed /\ Refused(Lists(i).points, robot, Loop)
        PROVE  RefuseRoute
    BY <1>5 DEF BeginRoute
  <1> QED BY <1>1, <1>2, <1>3, <1>4, <1>5

(* The route is built once, from the mission.                              *)
LEMMA RouteStays ==
  ASSUME WalkInv, [WalkNext]_walk
  PROVE  RouteWalked'
  <1>1. /\ mission \in Missions /\ robot \in Places /\ posed \in BOOLEAN
        /\ phase = "none" => acted = 0 /\ lowBattery = FALSE
        /\ IF OnRoute THEN RouteInv(prepared, from, route, inputs) ELSE route = <<>>
        /\ Loop /\ OnRoute /\ lowBattery => exit = ExitInput(prepared, Home)
    BY DEF WalkInv, RouteWalked
  <1>2. CASE SetRoute \/ StartPatrolLoop
    <2>1. /\ phase = "none"
          /\ UNCHANGED <<mission, posed, robot, lowBattery, exit, blocked, acted>>
          /\ \/ phase' = "refused" /\ UNCHANGED plan
             \/ RouteInv(prepared', from', route', inputs') /\ Send(route', 1)
      BY <1>1, <1>2, RouteBegun
    <2>2. CASE phase' = "refused" /\ UNCHANGED plan
      BY <1>1, <2>1, <2>2 DEF RouteWalked, OnRoute, plan
    <2>3. CASE RouteInv(prepared', from', route', inputs') /\ Send(route', 1)
      <3>1. phase' = "driving" /\ lowBattery' = FALSE
        BY <1>1, <2>1, <2>3 DEF Send
      <3>2. RouteInv(prepared, from, route, inputs)'
        BY <2>1, <2>3, RouteStands
      <3> QED BY <1>1, <2>1, <3>1, <3>2 DEF RouteWalked, OnRoute
    <2> QED BY <2>1, <2>2, <2>3
  <1>3. CASE ~(SetRoute \/ StartPatrolLoop)
    <2>1. /\ UNCHANGED <<mission, plan>>
          /\ phase' = "none" <=> phase = "none"
          /\ phase' = "refused" <=> phase = "refused"
      <3>1. CASE GoOn
        <4>1. phase' \in {"home", "done", "driving"}
          BY <3>1 DEF GoOn, Send
        <4> QED BY <1>3, <3>1, <4>1 DEF WalkNext, Pose, DriveOn, Arrive, ActionDone, Block, Retry,
                                        LowBattery, walk
      <3>2. CASE ~GoOn
        BY <1>3, <3>2 DEF WalkNext, Pose, DriveOn, Arrive, ActionDone, Block, Retry, LowBattery,
                          walk, Send
      <3> QED BY <3>1, <3>2
    <2>2. robot' \in Places
      <3>1. CASE DriveOn
        <4>1. robot[1] \in Int /\ robot[2] \in Int
          BY <1>1 DEF Places
        <4> QED BY <1>1, <3>1, <4>1 DEF DriveOn, Toward, Places
      <3>2. CASE ~DriveOn
        <4>1. robot' = robot
          BY <1>3, <3>2 DEF WalkNext, Pose, Arrive, ActionDone, Block, Retry, LowBattery, walk
        <4> QED BY <1>1, <4>1
      <3> QED BY <3>1, <3>2
    <2>3. posed' \in BOOLEAN
      BY <1>1, <1>3 DEF WalkNext, Pose, DriveOn, Arrive, ActionDone, Block, Retry, LowBattery, walk
    <2>4. phase' = "none" => acted' = 0 /\ lowBattery' = FALSE
      <3> SUFFICES ASSUME phase = "none" PROVE acted' = 0 /\ lowBattery' = FALSE
        BY <2>1
      <3> QED BY <1>1, <1>3 DEF WalkNext, Pose, DriveOn, Arrive, ActionDone, Block, Retry,
                                LowBattery, walk
    <2>5. IF OnRoute' THEN RouteInv(prepared, from, route, inputs)' ELSE route' = <<>>
      <3>1. OnRoute' = OnRoute /\ route' = route
        BY <2>1 DEF OnRoute, plan
      <3>2. CASE OnRoute
        BY <1>1, <2>1, <3>1, <3>2, RouteRests
      <3>3. CASE ~OnRoute
        BY <1>1, <3>1, <3>3
      <3> QED BY <3>2, <3>3
    <2>6. Loop' /\ OnRoute' /\ lowBattery' => exit' = ExitInput(prepared, Home)'
      <3>1. Loop' = Loop /\ OnRoute' = OnRoute /\ prepared' = prepared /\ Home' = Home
        BY <2>1 DEF Loop, OnRoute, plan, Home
      <3>2. ExitInput(prepared, Home)' = ExitInput(prepared, Home)
        BY <3>1 DEF ExitInput
      <3>3. CASE LowBattery
        BY <3>1, <3>2, <3>3 DEF LowBattery
      <3>4. CASE ~LowBattery
        <4>1. lowBattery' = lowBattery /\ exit' = exit
          BY <1>3, <3>4 DEF WalkNext, Pose, DriveOn, Arrive, ActionDone, Block, Retry, walk
        <4> QED BY <1>1, <3>1, <3>2, <4>1
      <3> QED BY <3>3, <3>4
    <2> QED BY <1>1, <2>1, <2>2, <2>3, <2>4, <2>5, <2>6 DEF RouteWalked
  <1> QED BY <1>2, <1>3

(* Where a retry in a loop starts.                                         *)
LEMMA RetryChoice ==
  ASSUME NEW r, LoopRoute(r), NEW s, NEW t, ChunkOk(r, s, t), NEW p,
         NEW i, i = s \/ i = RetryFrom(r, s, t, p, TRUE)
  PROVE  i \in CyclicBetween(s, t, Len(r)) /\ i \in 1..Len(r)
  <1>1. Len(r) \in Nat \ {0} /\ s \in 1..Len(r) /\ t \in 1..Len(r)
    BY ActsAre DEF ChunkOk
  <1>2. s \in CyclicBetween(s, t, Len(r))
    BY <1>1 DEF CyclicBetween
  <1> QED BY <1>1, <1>2, RetryFromIs, BetweenIs

(* Whatever is sent next does not go beyond the last action.               *)
LEMMA ActionsStay ==
  ASSUME WalkInv, [WalkNext]_walk
  PROVE  ActionsWalked'
  <1> SUFFICES ASSUME Loop', OnRoute'
               PROVE  /\ ChunkOk(route, start, target)'
                      /\ acted' # 0 =>
                           /\ acted' \in Acts(route)'
                           /\ phase' = "action" => target' = acted'
                           /\ phase' \in {"driving", "blocked"} =>
                                  NotBeyond(route', acted', start', target')
    BY DEF ActionsWalked, NotBeyond, BareTo, Acts
  <1>1. /\ mission \in Missions /\ robot \in Places /\ posed \in BOOLEAN
        /\ phase = "none" => acted = 0
        /\ OnRoute => LoopRoute(route)
    BY LoopRouteIs DEF WalkInv, RouteWalked
  <1>2. Loop = TRUE
    <2>1. mission' = mission
      BY DEF WalkNext, Pose, SetRoute, StartPatrolLoop, DriveOn, Arrive, ActionDone, Block, Retry,
             LowBattery, walk
    <2>2. Loop \in BOOLEAN
      BY <1>1, MissionIs
    <2> QED BY <2>1, <2>2 DEF Loop
  <1>3. OnRoute => /\ ChunkOk(route, start, target)
                   /\ acted # 0 =>
                        /\ acted \in Acts(route)
                        /\ phase = "action" => target = acted
                        /\ phase \in {"driving", "blocked"} => NotBeyond(route, acted, start, target)
    BY <1>2 DEF WalkInv, ActionsWalked
  <1>4. CASE SetRoute \/ StartPatrolLoop
    <2>1. /\ phase = "none" /\ acted' = acted /\ mission' = mission
          /\ \/ phase' = "refused"
             \/ RouteInv(prepared', from', route', inputs') /\ Send(route', 1)
      BY <1>1, <1>4, RouteBegun
    <2>2. RouteInv(prepared', from', route', inputs') /\ Send(route', 1)
      BY <2>1 DEF OnRoute
    <2>3. PICK r : r = route'
      OBVIOUS
    <2>4. LoopRoute(r)
      <3>1. PICK prep, f, ins : prep = prepared' /\ f = from' /\ ins = inputs'
        OBVIOUS
      <3>2. RouteInv(prep, f, r, ins)
        BY <2>2, <2>3, <3>1
      <3> QED BY <3>2, LoopRouteIs
    <2>5. 1 \in 1..Len(r)
      BY <2>4, LenProperties DEF LoopRoute
    <2>6. ChunkOk(r, start', target')
      BY <1>1, <1>2, <2>1, <2>2, <2>3, <2>4, <2>5, ChunkIsSent
    <2> QED BY <1>1, <2>1, <2>3, <2>6 DEF ChunkOk
  <1>5. CASE DriveOn
    <2>1. UNCHANGED <<route, start, target, phase, acted>> /\ OnRoute
      BY <1>5 DEF DriveOn, OnRoute, plan
    <2> QED BY <1>3, <2>1 DEF ChunkOk, NotBeyond, BareTo, Acts
  <1>6. CASE Arrive
    <2>1. UNCHANGED route /\ OnRoute /\ phase = "driving" /\ LoopRoute(route)
      BY <1>1, <1>6 DEF Arrive, OnRoute, plan
    <2>2. target \in 1..Len(route)
      BY <1>3, <2>1 DEF ChunkOk
    <2>3. CASE route[target].act
      <3>1. phase' = "action" /\ acted' = target /\ UNCHANGED <<start, target>>
        BY <1>6, <2>3 DEF Arrive
      <3>2. target \in Acts(route)
        BY <2>1, <2>2, <2>3, ActsAre
      <3> QED BY <1>3, <2>1, <3>1, <3>2 DEF ChunkOk, Acts
    <2>4. CASE ~route[target].act
      <3>1. GoOn /\ UNCHANGED acted
        BY <1>6, <2>4 DEF Arrive
      <3>2. target \notin Acts(route)
        BY <2>1, <2>2, <2>4, ActsAre
      <3>3. /\ ChunkOk(route, start', target')
            /\ phase' \in {"home", "done", "driving"}
            /\ acted # 0 /\ phase' = "driving" => NotBeyond(route, acted, start', target')
        BY <1>2, <1>3, <2>1, <3>1, <3>2, GoneOn
      <3> QED BY <1>3, <2>1, <3>1, <3>3 DEF ChunkOk, Acts
    <2> QED BY <2>3, <2>4
  <1>7. CASE ActionDone
    <2>1. UNCHANGED <<route, acted>> /\ OnRoute /\ phase = "action" /\ GoOn
      BY <1>7 DEF ActionDone, OnRoute, plan
    <2>2. /\ ChunkOk(route, start', target')
          /\ phase' \in {"home", "done", "driving"}
          /\ acted # 0 /\ phase' = "driving" => NotBeyond(route, acted, start', target')
      BY <1>1, <1>2, <1>3, <2>1, GoneOn
    <2> QED BY <1>3, <2>1, <2>2 DEF ChunkOk, Acts
  <1>8. CASE Block
    <2>1. /\ UNCHANGED <<route, start, target, acted>> /\ OnRoute
          /\ phase = "driving" /\ phase' = "blocked"
      BY <1>8 DEF Block, OnRoute, plan
    <2> QED BY <1>3, <2>1 DEF ChunkOk, NotBeyond, BareTo, Acts
  <1>9. CASE Retry
    <2>1. UNCHANGED <<route, acted>> /\ OnRoute /\ phase = "blocked" /\ LoopRoute(route)
      BY <1>1, <1>9 DEF Retry, OnRoute, plan
    <2>2. PICK i : /\ i = start \/ i = RetryFrom(route, start, target, robot, TRUE)
                   /\ start' = i \/ start' = SendFrom(route, i, robot, TRUE)
      BY <1>2, <1>9 DEF Retry, Send, Loop
    <2>6. target' = ChunkEnd(route, start', TRUE) /\ phase' = "driving"
      BY <1>2, <1>9 DEF Retry, Send, Loop
    <2>3. i \in CyclicBetween(start, target, Len(route)) /\ i \in 1..Len(route)
      BY <1>3, <2>1, <2>2, RetryChoice
    <2>4. acted # 0 => /\ acted \in Acts(route)
                       /\ \E h \in 1..Len(route) : /\ i = Ahead(acted, h, Len(route))
                                                   /\ BareTo(route, acted, h)
      BY <1>3, <2>1, <2>3, AfterBlock
    <2>5. /\ ChunkOk(route, start', target') /\ phase' = "driving"
          /\ acted # 0 => NotBeyond(route, acted, start', target')
      BY <2>1, <2>2, <2>3, <2>4, <2>6, ChunkStarts
    <2> QED BY <2>1, <2>4, <2>5 DEF ChunkOk, Acts
  <1>10. CASE LowBattery
    <2>1. UNCHANGED <<route, start, target, acted, phase>> /\ OnRoute
      BY <1>2, <1>10 DEF LowBattery, OnRoute, plan
    <2> QED BY <1>3, <2>1 DEF ChunkOk, NotBeyond, BareTo, Acts
  <1>11. CASE UNCHANGED walk
    <2>1. UNCHANGED <<route, start, target, acted, phase>> /\ OnRoute
      BY <1>11 DEF walk, OnRoute, plan
    <2> QED BY <1>3, <2>1 DEF ChunkOk, NotBeyond, BareTo, Acts
  <1>12. CASE Pose
    <2>1. UNCHANGED <<route, start, target, acted, phase>> /\ OnRoute
      BY <1>12 DEF Pose, OnRoute, plan
    <2> QED BY <1>3, <2>1 DEF ChunkOk, NotBeyond, BareTo, Acts
  <1> QED BY <1>4, <1>5, <1>6, <1>7, <1>8, <1>9, <1>10, <1>11, <1>12 DEF WalkNext

LEMMA WalkIsInv == WalkSpec => []WalkInv
  <1>1. WalkInv /\ [WalkNext]_walk => WalkInv'
    BY RouteStays, ActionsStay DEF WalkInv
  <1> QED BY WalkStart, <1>1, PTL DEF WalkSpec

(* Split, turned, cut, filled and mapped, the lists of the route are still *)
(* the mission of the operator: every key waypoint is the one its index    *)
(* stands for, in their order and none lost; the exit waypoint is found by *)
(* its index, and no leg of a loop is longer than leg_spacing_m            *)
(* (_split_home_waypoint, prepare_route_waypoints,                         *)
(* _map_prepared_input_indices, expanded_input_indices).                   *)
THEOREM RouteSafety == WalkSpec => []RouteIsMission
  <1>1. WalkInv => RouteIsMission
    <2> SUFFICES ASSUME WalkInv, route # <<>> PROVE RouteIsMission
      BY DEF RouteIsMission
    <2>1. /\ mission \in Missions /\ RouteInv(prepared, from, route, inputs)
          /\ Loop /\ lowBattery => exit = ExitInput(prepared, Home)
      BY DEF WalkInv, RouteWalked
    <2>2. IndicesAreTrue /\ NoneIsLost /\ OrderIsKept
      BY <2>1, IndicesHold
    <2>3. ExitIsOnRoute
      BY <2>1, ExitHolds
    <2>4. DOMAIN route = 1..Len(route)
      BY <2>1, LenProperties DEF RouteInv
    <2>5. Loop => \A k \in 1..Len(route) :
                      D2(route[k].at, route[Ahead(k, 1, Len(route))].at) <= Sq(Spacing)
      BY <2>1 DEF RouteInv
    <2> QED BY <2>2, <2>3, <2>4, <2>5 DEF RouteIsMission
  <1> QED BY WalkIsInv, <1>1, PTL

(* Between two actions of a loop there is no waypoint with an action,      *)
(* whatever is skipped, blocked and tried again                            *)
(* (skip_reached_chunk_start, resolve_blocked_retry_start).                *)
THEOREM ActionSafety == WalkSpec => LoopActionsInTurn
  <1> DEFINE InTurn == Loop /\ acted # 0 /\ phase # "action" /\ phase' = "action" =>
                          Inside(acted, target, Len(route)) \cap Acts(route) = {}
  <1>1. ASSUME WalkInv, [WalkNext]_walk
        PROVE  InTurn
    <2> SUFFICES ASSUME Loop, acted # 0, phase # "action", phase' = "action"
                 PROVE  Inside(acted, target, Len(route)) \cap Acts(route) = {}
      OBVIOUS
    <2>1. phase = "driving"
      BY <1>1 DEF WalkNext, Pose, SetRoute, StartPatrolLoop, BeginRoute, RefuseRoute, DriveOn,
                  Arrive, ActionDone, Block, Retry, LowBattery, walk, GoOn, Send
    <2>2. /\ ChunkOk(route, start, target) /\ acted \in Acts(route)
          /\ NotBeyond(route, acted, start, target)
          /\ RouteInv(prepared, from, route, inputs)
      BY <1>1, <2>1 DEF WalkInv, RouteWalked, ActionsWalked, OnRoute
    <2>3. LoopRoute(route)
      BY <2>2, LoopRouteIs
    <2> QED BY <2>2, <2>3, InsideBare
  <1>2. WalkInv /\ [WalkNext]_walk => [InTurn]_walk
    BY <1>1
  <1>3. LoopActionsInTurn <=> [][InTurn]_walk
    BY PTL DEF LoopActionsInTurn
  <1> HIDE DEF InTurn
  <1> QED BY WalkIsInv, <1>2, <1>3, PTL DEF WalkSpec

(* A retry in a loop starts inside the chunk that was blocked, unless its  *)
(* target is reached, too, and has no action                               *)
(* (resolve_blocked_retry_start).                                          *)
THEOREM RetrySafety == WalkSpec => LoopRetryStaysInChunk
  <1> DEFINE InChunk == Loop /\ phase = "blocked" /\ phase' = "driving" =>
                           \/ start' \in CyclicBetween(start, target, Len(route))
                           \/ target \notin Away(route, robot) \cup Acts(route)
  <1>1. ASSUME WalkInv, [WalkNext]_walk
        PROVE  InChunk
    <2> SUFFICES ASSUME Loop, phase = "blocked", phase' = "driving",
                        target \in Away(route, robot) \cup Acts(route)
                 PROVE  start' \in CyclicBetween(start, target, Len(route))
      OBVIOUS
    <2>1. Retry
      BY <1>1 DEF WalkNext, Pose, SetRoute, StartPatrolLoop, DriveOn, Arrive, ActionDone, Block,
                  LowBattery, walk
    <2>2. /\ ChunkOk(route, start, target) /\ mission \in Missions
          /\ RouteInv(prepared, from, route, inputs)
      BY <1>1 DEF WalkInv, RouteWalked, ActionsWalked, OnRoute
    <2>3. LoopRoute(route)
      BY <2>2, LoopRouteIs
    <2>4. Loop = TRUE
      BY <2>2, MissionIs
    <2>5. PICK i : /\ i = start \/ i = RetryFrom(route, start, target, robot, TRUE)
                   /\ start' = i \/ start' = SendFrom(route, i, robot, TRUE)
      BY <2>1, <2>4 DEF Retry, Send
    <2>6. i \in CyclicBetween(start, target, Len(route))
      BY <2>2, <2>3, <2>5, RetryChoice
    <2>7. SendFrom(route, i, robot, TRUE) \in CyclicBetween(start, target, Len(route))
      BY <2>2, <2>3, <2>6, RetryStays
    <2> QED BY <2>5, <2>6, <2>7
  <1>2. WalkInv /\ [WalkNext]_walk => [InChunk]_walk
    BY <1>1
  <1>3. LoopRetryStaysInChunk <=> [][InChunk]_walk
    BY PTL DEF LoopRetryStaysInChunk
  <1> HIDE DEF InChunk
  <1> QED BY WalkIsInv, <1>2, <1>3, PTL DEF WalkSpec
=============================================================================
