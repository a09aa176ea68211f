----------------------------- MODULE JwtProofs ------------------------------
(***************************************************************************)
(* Proofs about Jwt, for any bytes of any length, any users and any        *)
(* signature: base64 gives back what it was given, and a token what went   *)
(* into it. tlapm has no induction over sequences; the folds and recursive *)
(* functions of the model are opened here into their steps, which exist    *)
(* because the naturals are well-founded.                                  *)
(***************************************************************************)
EXTENDS Jwt, TLAPS, FiniteSetTheorems, WellFoundedInduction, NaturalsInduction,
        SequenceTheorems

-----------------------------------------------------------------------------
(* Induction, and folds, without operators as parameters: a fold over a    *)
(* sequence is a function on the sets of its indices, which exists by      *)
(* induction over their size.                                              *)

(* A set of naturals with a member has a least one.                        *)
LEMMA LeastOf ==
    ASSUME NEW T \in SUBSET Nat, T # {}
    PROVE  \E m \in T : \A k \in T : m <= k
  <1>1. PICK m \in T : \A k \in T : ~(<<k, m>> \in OpToRel(<, Nat))
    BY NatLessThanWellFounded, WFMin, Zenon
  <1>2. \A k \in T : ~(k < m)
    BY <1>1, Zenon DEF OpToRel
  <1> QED
    BY <1>2

(* Induction over the naturals, about a set of them.                       *)
LEMMA Induction ==
    ASSUME NEW T, 0 \in T, \A n \in Nat : n \in T => n + 1 \in T
    PROVE  \A n \in Nat : n \in T
  <1> DEFINE Missing == {n \in Nat : n \notin T}
  <1> SUFFICES ASSUME Missing # {} PROVE FALSE
    OBVIOUS
  <1>1. PICK m \in Missing : \A k \in Missing : m <= k
    BY LeastOf
  <1>2. m \in Nat /\ m # 0
    BY <1>1
  <1>3. m - 1 \in Nat /\ m - 1 \in T
    BY <1>1, <1>2
  <1> QED
    BY <1>1, <1>2, <1>3

(* Max of a set of indices is in it, and nothing in it is larger.          *)
LEMMA LargestOf ==
    ASSUME NEW n \in Nat, NEW T \in SUBSET (1 .. n), T # {}
    PROVE  Max(T) \in T /\ \A k \in T : k <= Max(T)
  <1> DEFINE U == {n - k : k \in T}
  <1>1. U \in SUBSET Nat /\ U # {}
    <2>1. \A k \in T : n - k \in Nat /\ n - k \in U
      OBVIOUS
    <2> QED
      BY <2>1
  <1>2. PICK m \in U : \A k \in U : m <= k
    BY <1>1, LeastOf
  <1>3. PICK x \in T : m = n - x
    BY <1>2
  <1>4. \A k \in T : n - k \in U
    OBVIOUS
  <1>5. \A k \in T : x >= k
    BY <1>2, <1>3, <1>4
  <1>6. Max(T) \in T /\ \A k \in T : Max(T) >= k
    BY <1>5 DEF Max
  <1> QED
    BY <1>6

(* What FoldFunction builds: h[s] folds the elements of s, a set of indices *)
(* of 1 .. n, from the smallest to the largest.                            *)
IsFold(h, n, T, base, O) ==
    /\ h \in [SUBSET (1 .. n) -> T]
    /\ \A s \in SUBSET (1 .. n) :
          h[s] = IF s = {} THEN base ELSE O[<<h[s \ {Max(s)}], Max(s)>>]

(* A fold over 1 .. n by a function O exists.                              *)
LEMMA FoldExists ==
    ASSUME NEW n \in Nat, NEW T, NEW base \in T, NEW O \in [T \X (1 .. n) -> T]
    PROVE  \E h : IsFold(h, n, T, base, O)
  <1> DEFINE I == 1 .. n
             Upto(k) == {s \in SUBSET I : Cardinality(s) <= k}
             Folds(h, s) == h[s] = IF s = {} THEN base ELSE O[<<h[s \ {Max(s)}], Max(s)>>]
             Good == {k \in Nat : \E h \in [Upto(k) -> T] : \A s \in Upto(k) : Folds(h, s)}
  <1>1. IsFiniteSet(I) /\ Cardinality(I) = n
    BY FS_Interval
  <1>2. \A s \in SUBSET I : IsFiniteSet(s) /\ Cardinality(s) \in Nat /\ Cardinality(s) <= n
    <2> SUFFICES ASSUME NEW s \in SUBSET I
                 PROVE  IsFiniteSet(s) /\ Cardinality(s) \in Nat /\ Cardinality(s) <= n
      OBVIOUS
    <2>1. IsFiniteSet(s) /\ Cardinality(s) <= Cardinality(I)
      BY <1>1, FS_Subset
    <2> QED
      BY <1>1, <2>1, FS_CardinalityType
  <1>3. ASSUME NEW s \in SUBSET I, s # {}
        PROVE  /\ Max(s) \in s /\ Max(s) \in I
               /\ s \ {Max(s)} \in SUBSET I
               /\ Cardinality(s \ {Max(s)}) = Cardinality(s) - 1
               /\ Cardinality(s) # 0
    <2>1. Max(s) \in s
      BY <1>3, LargestOf
    <2>2. Cardinality(s \ {Max(s)}) = Cardinality(s) - 1
      BY <1>2, <2>1, FS_RemoveElement
    <2>3. Cardinality(s) # 0
      BY <1>2, <1>3, FS_EmptySet
    <2> QED
      BY <2>1, <2>2, <2>3
  <1>4. 0 \in Good
    <2> DEFINE h == [s \in Upto(0) |-> base]
    <2>1. \A s \in Upto(0) : s = {}
      <3> SUFFICES ASSUME NEW s \in Upto(0), s # {} PROVE FALSE
        OBVIOUS
      <3>1. Cardinality(s) = 0
        BY <1>2
      <3> QED
        BY <1>3, <3>1
    <2>2. h \in [Upto(0) -> T] /\ \A s \in Upto(0) : Folds(h, s)
      BY <2>1
    <2> QED
      BY <2>2
  <1>5. ASSUME NEW k \in Nat, k \in Good PROVE k + 1 \in Good
    <2>1. PICK h \in [Upto(k) -> T] : \A s \in Upto(k) : Folds(h, s)
      BY <1>5
    <2> DEFINE g == [s \in Upto(k + 1) |->
                       IF s \in Upto(k) THEN h[s] ELSE O[<<h[s \ {Max(s)}], Max(s)>>]]
    <2>2. ASSUME NEW s \in Upto(k + 1), s # {}
          PROVE  s \ {Max(s)} \in Upto(k) /\ s \in SUBSET I /\ Max(s) \in I
      <3>1. s \in SUBSET I /\ Cardinality(s) <= k + 1 /\ Cardinality(s) \in Nat
        BY <1>2
      <3>2. Cardinality(s \ {Max(s)}) = Cardinality(s) - 1 /\ s \ {Max(s)} \in SUBSET I
            /\ Max(s) \in I
        BY <1>3, <2>2, <3>1
      <3>3. Cardinality(s \ {Max(s)}) <= k
        BY <3>1, <3>2
      <3> QED
        BY <3>1, <3>2, <3>3
    <2>3. \A s \in Upto(k) : s \in Upto(k + 1)
      BY <1>2
    <2>4. {} \in Upto(k)
      <3>1. {} \in SUBSET I
        OBVIOUS
      <3>2. Cardinality({}) = 0
        BY FS_EmptySet
      <3> QED
        BY <3>1, <3>2
    <2> HIDE DEF Upto
    <2>5. \A s \in Upto(k + 1) : s \notin Upto(k) => s # {}
      BY <2>4
    <2>6. g \in [Upto(k + 1) -> T]
      <3>1. ASSUME NEW s \in Upto(k + 1) PROVE g[s] \in T
        <4>1. CASE s \in Upto(k)
          BY <4>1
        <4>2. CASE s \notin Upto(k)
          <5>1. <<h[s \ {Max(s)}], Max(s)>> \in T \X I
            BY <2>2, <2>5, <4>2
          <5> QED
            BY <4>2, <5>1
        <4> QED
          BY <4>1, <4>2
      <3> QED
        BY <3>1
    <2>7. ASSUME NEW s \in Upto(k + 1) PROVE Folds(g, s)
      <3>1. CASE s = {}
        BY <2>1, <2>4, <3>1
      <3>2. CASE s # {}
        <4>1. s \ {Max(s)} \in Upto(k) /\ g[s \ {Max(s)}] = h[s \ {Max(s)}]
          BY <2>2, <2>3, <3>2
        <4>2. CASE s \in Upto(k)
          BY <2>1, <3>2, <4>1, <4>2
        <4>3. CASE s \notin Upto(k)
          BY <3>2, <4>1, <4>3
        <4> QED
          BY <4>2, <4>3
      <3> QED
        BY <3>1, <3>2
    <2> HIDE DEF g, Folds
    <2>8. \E f \in [Upto(k + 1) -> T] : \A s \in Upto(k + 1) : Folds(f, s)
      BY <2>6, <2>7
    <2> QED
      BY <2>8
  <1>6. n \in Good
    <2> HIDE DEF Good
    <2> QED
      BY <1>4, <1>5, Induction
  <1>7. Upto(n) = SUBSET I
    BY <1>2
  <1> QED
    BY <1>6, <1>7 DEF IsFold

-----------------------------------------------------------------------------
(* base64_decode_impl, one character after the other.                      *)

(* What base64_decode_impl has in hand between two characters.             *)
Collected == [buffer : Nat, bits : {0, 2, 4, 6}, output : Seq(0 .. 255)]

(* One more character, and the bytes put out are still bytes.              *)
LEMMA CollectType ==
    ASSUME NEW c \in Collected, NEW v \in 0 .. 63
    PROVE  Collect(c, v) \in Collected
  <1>1. c.buffer \in Nat /\ c.bits \in {0, 2, 4, 6} /\ c.output \in Seq(0 .. 255)
    BY DEF Collected
  <1>2. c.buffer * 64 + v \in Nat
    BY <1>1
  <1>3. CASE c.bits = 0
    <2>1. Collect(c, v) = [c EXCEPT !.buffer = c.buffer * 64 + v, !.bits = 6]
      BY <1>3 DEF Collect
    <2> QED
      BY <1>1, <1>2, <2>1 DEF Collected
  <1>4. ASSUME NEW k \in {0, 2, 4}, c.bits + 6 = 8 + k PROVE Collect(c, v) \in Collected
    <2> DEFINE b == c.buffer * 64 + v
               p == 2^k
    <2>1. p \in {1, 4, 16}
      <3>1. 2^0 = 1 /\ 2^2 = 4 /\ 2^4 = 16
        OBVIOUS
      <3> QED
        BY <3>1
    <2>2. c.bits + 6 >= 8 /\ (c.bits + 6) - 8 = k
      <3>1. k \in Nat /\ c.bits \in Nat
        BY <1>1
      <3> QED
        BY <1>4, <3>1
    <2>3. Collect(c, v) = [buffer |-> b % p, bits |-> k,
                           output |-> Append(c.output, (b \div p) % 256)]
      BY <2>2, Zenon DEF Collect
    <2> HIDE DEF p, b
    <2>4. b % p \in Nat /\ (b \div p) % 256 \in 0 .. 255
      <3>1. b \in Nat
        BY <1>2 DEF b
      <3> QED
        BY <2>1, <3>1
    <2>5. Append(c.output, (b \div p) % 256) \in Seq(0 .. 255)
      BY <1>1, <2>4
    <2> QED
      BY <2>3, <2>4, <2>5 DEF Collected
  <1> QED
    BY <1>1, <1>3, <1>4

(* The sets a fold goes down through.                                      *)
LEMMA Segments ==
    ASSUME NEW n \in Nat, NEW i \in 1 .. n
    PROVE  /\ 1 .. i \in SUBSET (1 .. n) /\ 1 .. i # {} /\ Max(1 .. i) = i
           /\ (1 .. i) \ {i} = 1 .. (i - 1)
  <1>1. 1 .. i \in SUBSET (1 .. n) /\ i \in 1 .. i
    OBVIOUS
  <1>2. Max(1 .. i) \in 1 .. i /\ \A k \in 1 .. i : k <= Max(1 .. i)
    BY <1>1, LargestOf
  <1> QED
    BY <1>1, <1>2

(* FoldLeft of Collect goes through a state for each character.            *)
LEMMA CollectSteps ==
    ASSUME NEW t \in Seq(0 .. 63)
    PROVE  \E g \in [0 .. Len(t) -> Collected] :
              /\ g[0] = Collector
              /\ \A i \in 1 .. Len(t) : g[i] = Collect(g[i - 1], t[i])
              /\ FoldLeft(Collect, Collector, t) = g[Len(t)]
  <1> DEFINE n == Len(t)
             O == [p \in Collected \X (1 .. n) |-> Collect(p[1], t[p[2]])]
             Is(f) == f = [s \in SUBSET (DOMAIN t) |->
                             IF s = {} THEN Collector
                             ELSE Collect(f[s \ {Max(s)}], t[Max(s)])]
             iter == CHOOSE f : Is(f)
             g == [i \in 0 .. n |-> iter[1 .. i]]
  <1>1. n \in Nat /\ DOMAIN t = 1 .. n /\ \A i \in 1 .. n : t[i] \in 0 .. 63
    BY LenProperties, ElementOfSeq
  <1>2. Collector \in Collected
    BY DEF Collector, Collected
  <1>3. O \in [Collected \X (1 .. n) -> Collected]
    BY <1>1, CollectType
  <1>4. PICK h : IsFold(h, n, Collected, Collector, O)
    <2> HIDE DEF O, n
    <2>1. n \in Nat
      BY <1>1
    <2> QED
      BY <2>1, <1>2, <1>3, FoldExists
  <1>5. ASSUME NEW s \in SUBSET (1 .. n), s # {}
        PROVE  h[s] = Collect(h[s \ {Max(s)}], t[Max(s)])
    <2>1. Max(s) \in 1 .. n
      BY <1>1, <1>5, LargestOf
    <2>2. <<h[s \ {Max(s)}], Max(s)>> \in Collected \X (1 .. n)
      <3>1. h[s \ {Max(s)}] \in Collected
        BY <1>4, <1>5 DEF IsFold
      <3> QED
        BY <2>1, <3>1
    <2> QED
      BY <1>4, <1>5, <2>2 DEF IsFold
  <1>6. Is(h)
    BY <1>1, <1>4, <1>5 DEF IsFold
  <1>7. Is(iter)
    <2> HIDE DEF Is
    <2> QED
      BY <1>6
  <1>8. FoldLeft(Collect, Collector, t) = iter[DOMAIN t]
    BY DEF FoldLeft, MapThenFoldSet
  <1> HIDE DEF iter
  <1>9. g[0] = Collector
    <2>1. 1 .. 0 = {} /\ {} \in SUBSET (DOMAIN t)
      OBVIOUS
    <2> QED
      BY <1>1, <1>7, <2>1
  <1>10. ASSUME NEW i \in 1 .. n PROVE g[i] = Collect(g[i - 1], t[i])
    <2>1. iter[1 .. i] = Collect(iter[(1 .. i) \ {Max(1 .. i)}], t[Max(1 .. i)])
      <3>1. 1 .. i \in SUBSET (1 .. n) /\ 1 .. i # {} /\ DOMAIN t = 1 .. n
        BY <1>1, Segments
      <3> QED
        BY <1>7, <3>1, Zenon
    <2>2. iter[1 .. i] = Collect(iter[1 .. (i - 1)], t[i])
      BY <1>1, <2>1, Segments
    <2> QED
      BY <1>1, <2>2
  <1>11. g[n] = FoldLeft(Collect, Collector, t)
    BY <1>1, <1>8
  <1> HIDE DEF g
  <1> HIDE DEF n
  <1>12. \A i \in Nat : i <= n => g[i] \in Collected
    <2> DEFINE Good == {k \in Nat : k <= n => g[k] \in Collected}
    <2>1. 0 \in Good
      BY <1>2, <1>9
    <2>2. ASSUME NEW k \in Nat, k \in Good PROVE k + 1 \in Good
      <3>1. CASE k + 1 <= n
        <4>1. g[k] \in Collected /\ k + 1 \in 1 .. n
          BY <1>1, <2>2, <3>1
        <4>2. g[k + 1] = Collect(g[k], t[k + 1])
          BY <1>1, <1>10, <2>2, <4>1
        <4>3. t[k + 1] \in 0 .. 63
          BY <1>1, <4>1
        <4>4. Collect(g[k], t[k + 1]) \in Collected
          BY <4>1, <4>3, CollectType
        <4> QED
          BY <4>2, <4>4
      <3> QED
        BY <3>1
    <2> HIDE DEF Good
    <2> QED
      <3>1. \A i \in Nat : i \in Good
        BY <2>1, <2>2, Induction
      <3> QED
        BY <3>1 DEF Good
  <1>13. g \in [0 .. n -> Collected]
    <2>1. \A i \in 0 .. n : i \in Nat /\ i <= n
      BY <1>1
    <2>2. \A i \in 0 .. n : g[i] \in Collected
      BY <1>12, <2>1
    <2> QED
      BY <2>2 DEF g
  <1> QED
    BY <1>9, <1>10, <1>11, <1>13 DEF n

(* g is the chain of n values that starts from base and goes on by O.      *)
IsChain(g, n, T, base, O) ==
    /\ g \in [0 .. n -> T]
    /\ g[0] = base
    /\ \A i \in 1 .. n : g[i] = O[<<g[i - 1], i>>]

(* There is a chain of any length.                                         *)
LEMMA ChainExists ==
    ASSUME NEW n \in Nat, NEW T, NEW base \in T, NEW O \in [T \X (1 .. n) -> T]
    PROVE  \E g : IsChain(g, n, T, base, O)
  <1>1. PICK h : IsFold(h, n, T, base, O)
    BY FoldExists
  <1> DEFINE g == [i \in 0 .. n |-> h[1 .. i]]
  <1>2. /\ h \in [SUBSET (1 .. n) -> T] /\ h[{}] = base
        /\ \A s \in SUBSET (1 .. n) :
             s # {} => h[s] = O[<<h[s \ {Max(s)}], Max(s)>>]
    BY <1>1 DEF IsFold
  <1>3. \A i \in 0 .. n : 1 .. i \in SUBSET (1 .. n)
    OBVIOUS
  <1>4. g \in [0 .. n -> T]
    BY <1>2, <1>3
  <1>5. g[0] = base
    <2>1. 1 .. 0 = {}
      OBVIOUS
    <2> QED
      BY <1>2, <2>1
  <1>6. ASSUME NEW i \in 1 .. n PROVE g[i] = O[<<g[i - 1], i>>]
    <2>1. h[1 .. i] = O[<<h[(1 .. i) \ {Max(1 .. i)}], Max(1 .. i)>>]
      BY <1>2, Segments
    <2>2. h[1 .. i] = O[<<h[1 .. (i - 1)], i>>]
      BY <2>1, Segments
    <2>3. i - 1 \in 0 .. n /\ i \in 0 .. n
      OBVIOUS
    <2>4. g[i - 1] = h[1 .. (i - 1)] /\ g[i] = h[1 .. i]
      BY <2>3
    <2> QED
      BY <2>2, <2>4
  <1> HIDE DEF g
  <1> QED
    BY <1>4, <1>5, <1>6 DEF IsChain

(* Collect takes c to d over the characters of t.                          *)
Collects(c, t, d) ==
    \E g \in [0 .. Len(t) -> Collected] :
       /\ g[0] = c /\ g[Len(t)] = d
       /\ \A i \in 1 .. Len(t) : g[i] = Collect(g[i - 1], t[i])

(* What Collects takes the first state to is what FoldLeft gives.          *)
LEMMA FoldCollects ==
    ASSUME NEW t \in Seq(0 .. 63), NEW d, Collects(Collector, t, d)
    PROVE  FoldLeft(Collect, Collector, t) = d
  <1>1. PICK g \in [0 .. Len(t) -> Collected] :
           /\ g[0] = Collector /\ g[Len(t)] = d
           /\ \A i \in 1 .. Len(t) : g[i] = Collect(g[i - 1], t[i])
    BY DEF Collects
  <1>2. PICK f \in [0 .. Len(t) -> Collected] :
           /\ f[0] = Collector
           /\ \A i \in 1 .. Len(t) : f[i] = Collect(f[i - 1], t[i])
           /\ FoldLeft(Collect, Collector, t) = f[Len(t)]
    BY CollectSteps
  <1>3. PICK n \in Nat : n = Len(t)
    BY LenProperties
  <1> DEFINE Same == {k \in Nat : k <= n => f[k] = g[k]}
  <1>4. 0 \in Same
    BY <1>1, <1>2
  <1>5. ASSUME NEW k \in Nat, k \in Same PROVE k + 1 \in Same
    <2>1. CASE k + 1 <= n
      <3>1. f[k] = g[k] /\ k + 1 \in 1 .. n /\ (k + 1) - 1 = k
        BY <1>5, <2>1
      <3>2. f[k + 1] = Collect(f[(k + 1) - 1], t[k + 1])
        BY <1>2, <1>3, <3>1
      <3>3. g[k + 1] = Collect(g[(k + 1) - 1], t[k + 1])
        BY <1>1, <1>3, <3>1
      <3> QED
        BY <3>1, <3>2, <3>3
    <2> QED
      BY <2>1
  <1>6. n \in Same
    <2> HIDE DEF Same
    <2> QED
      BY <1>4, <1>5, Induction
  <1> QED
    BY <1>1, <1>2, <1>3, <1>6

(* Any text can be collected from any state.                               *)
LEMMA CollectsExists ==
    ASSUME NEW c \in Collected, NEW t \in Seq(0 .. 63)
    PROVE  \E g \in [0 .. Len(t) -> Collected] :
              g[0] = c /\ \A i \in 1 .. Len(t) : g[i] = Collect(g[i - 1], t[i])
  <1>1. PICK n \in Nat : n = Len(t)
    BY LenProperties
  <1> DEFINE O == [p \in Collected \X (1 .. n) |-> Collect(p[1], t[p[2]])]
  <1>2. \A i \in 1 .. n : t[i] \in 0 .. 63
    BY <1>1, ElementOfSeq
  <1>3. O \in [Collected \X (1 .. n) -> Collected]
    BY <1>2, CollectType
  <1>4. PICK g : IsChain(g, n, Collected, c, O)
    <2> HIDE DEF O
    <2> QED
      BY <1>3, ChainExists
  <1>5. ASSUME NEW i \in 1 .. n PROVE g[i] = Collect(g[i - 1], t[i])
    <2>1. <<g[i - 1], i>> \in Collected \X (1 .. n)
      <3>1. i - 1 \in 0 .. n
        OBVIOUS
      <3> QED
        BY <1>4, <3>1 DEF IsChain
    <2> QED
      BY <1>4, <2>1 DEF IsChain
  <1> QED
    BY <1>1, <1>4, <1>5 DEF IsChain

(* Collecting a text and then another is collecting both.                  *)
LEMMA CollectsConcat ==
    ASSUME NEW s \in Seq(0 .. 63), NEW t \in Seq(0 .. 63), NEW c, NEW d, NEW e,
           Collects(c, s, d), Collects(d, t, e)
    PROVE  Collects(c, s \o t, e)
  <1>1. PICK f \in [0 .. Len(s) -> Collected] :
           /\ f[0] = c /\ f[Len(s)] = d
           /\ \A i \in 1 .. Len(s) : f[i] = Collect(f[i - 1], s[i])
    BY DEF Collects
  <1>2. PICK g \in [0 .. Len(t) -> Collected] :
           /\ g[0] = d /\ g[Len(t)] = e
           /\ \A i \in 1 .. Len(t) : g[i] = Collect(g[i - 1], t[i])
    BY DEF Collects
  <1>3. PICK m \in Nat : m = Len(s)
    BY LenProperties
  <1>4. PICK n \in Nat : n = Len(t)
    BY LenProperties
  <1>5. /\ Len(s \o t) = m + n
        /\ \A i \in 1 .. m + n : (s \o t)[i] = IF i <= m THEN s[i] ELSE t[i - m]
    BY <1>3, <1>4, ConcatProperties
  <1> DEFINE h == [i \in 0 .. m + n |-> IF i <= m THEN f[i] ELSE g[i - m]]
  <1>6. h \in [0 .. m + n -> Collected]
    <2>1. ASSUME NEW i \in 0 .. m + n, i <= m PROVE f[i] \in Collected
      <3>1. i \in 0 .. Len(s)
        BY <1>3, <2>1
      <3> QED
        BY <3>1
    <2>2. ASSUME NEW i \in 0 .. m + n, ~(i <= m) PROVE g[i - m] \in Collected
      <3>1. i - m \in 0 .. Len(t)
        BY <1>4, <2>2
      <3> QED
        BY <3>1
    <2> QED
      BY <2>1, <2>2
  <1>7. h[0] = c /\ h[m + n] = e
    <2>1. CASE n = 0
      BY <1>1, <1>2, <1>3, <1>4, <2>1
    <2>2. CASE n # 0
      BY <1>1, <1>2, <1>3, <1>4, <2>2
    <2> QED
      BY <2>1, <2>2
  <1>8. ASSUME NEW i \in 1 .. m + n PROVE h[i] = Collect(h[i - 1], (s \o t)[i])
    <2>1. CASE i <= m
      <3>1. h[i] = f[i] /\ h[i - 1] = f[i - 1] /\ i \in 1 .. m
        BY <2>1
      <3>2. (s \o t)[i] = s[i]
        BY <1>5, <2>1
      <3> QED
        BY <1>1, <1>3, <3>1, <3>2
    <2>2. CASE ~(i <= m)
      <3>1. PICK k \in 1 .. n : k = i - m
        BY <2>2
      <3>2. h[i] = g[k] /\ (s \o t)[i] = t[k]
        BY <1>5, <2>2, <3>1
      <3>3. h[i - 1] = g[k - 1]
        <4>1. CASE k = 1
          <5>1. i - 1 = m /\ m \in 0 .. m + n /\ m <= m /\ k - 1 = 0
            BY <3>1, <4>1
          <5>2. h[m] = f[m]
            BY <5>1
          <5> QED
            BY <1>1, <1>2, <1>3, <5>1, <5>2
        <4>2. CASE k # 1
          <5>1. i - 1 \in 0 .. m + n /\ ~(i - 1 <= m) /\ (i - 1) - m = k - 1
            BY <3>1, <4>2
          <5> QED
            BY <5>1
        <4> QED
          BY <4>1, <4>2
      <3> QED
        BY <1>2, <1>4, <3>2, <3>3
    <2> QED
      BY <2>1, <2>2
  <1> QED
    <2> HIDE DEF h
    <2> QED
      BY <1>5, <1>6, <1>7, <1>8 DEF Collects

-----------------------------------------------------------------------------
(* Arithmetic of the three bytes and four characters of a group.           *)

(* A state, the bits left in the buffer and what is put out of it.         *)
State(u, k, o) == [buffer |-> u, bits |-> k, output |-> o]

Rest(x, k) == x % k
PutByte(o, x, k) == Append(o, (x \div k) % 256)

(* One character, in each of the four numbers of bits there can be in the  *)
(* buffer.                                                                 *)
LEMMA CollectStep ==
    ASSUME NEW u \in Nat, NEW o, NEW v \in Nat, NEW x, x = u * 64 + v
    PROVE  /\ Collect(State(u, 0, o), v) = State(x, 6, o)
           /\ Collect(State(u, 6, o), v) = State(Rest(x, 16), 4, PutByte(o, x, 16))
           /\ Collect(State(u, 4, o), v) = State(Rest(x, 4), 2, PutByte(o, x, 4))
           /\ Collect(State(u, 2, o), v) = State(Rest(x, 1), 0, PutByte(o, x, 1))
  <1>1. /\ 2^0 = 1 /\ 2^2 = 4 /\ 2^4 = 16
        /\ (6 + 6) - 8 = 4 /\ (4 + 6) - 8 = 2 /\ (2 + 6) - 8 = 0
        /\ ~(0 + 6 >= 8) /\ 6 + 6 >= 8 /\ 4 + 6 >= 8 /\ 2 + 6 >= 8
    OBVIOUS
  <1>2. Collect(State(u, 0, o), v) = State(x, 6, o)
    <2>1. PICK c : c = State(u, 0, o)
      OBVIOUS
    <2>2. c.buffer = u /\ c.bits = 0 /\ c.output = o
      BY <2>1 DEF State
    <2>3. Collect(c, v) = [c EXCEPT !.buffer = c.buffer * 64 + v, !.bits = c.bits + 6]
      <3>1. ~(c.bits + 6 >= 8)
        BY <2>2
      <3> QED
        BY <3>1, Zenon DEF Collect
    <2>4. [c EXCEPT !.buffer = x, !.bits = 6] = State(x, 6, o)
      <3>1. [c EXCEPT !.buffer = x, !.bits = 6] = [[c EXCEPT !.buffer = x] EXCEPT !.bits = 6]
        BY <2>1 DEF State
      <3>2. [c EXCEPT !.buffer = x] = State(x, 0, o)
        BY <2>1 DEF State
      <3>3. [State(x, 0, o) EXCEPT !.bits = 6] = State(x, 6, o)
        BY DEF State
      <3> QED
        BY <3>1, <3>2, <3>3
    <2>5. c.bits + 6 = 6 /\ c.buffer * 64 + v = x
      BY <2>2
    <2> QED
      BY <2>1, <2>3, <2>4, <2>5
  <1>3. ASSUME NEW k \in {2, 4, 6}, NEW c, c = State(u, k, o)
        PROVE  Collect(c, v) = State(x % 2^((k + 6) - 8), (k + 6) - 8,
                       Append(o, (x \div 2^((k + 6) - 8)) % 256))
    <2>1. c.buffer = u /\ c.bits = k /\ c.output = o
      BY <1>3 DEF State
    <2>2. c.bits + 6 >= 8
      BY <2>1
    <2> QED
      BY <2>1, <2>2, Zenon DEF Collect, State
  <1>4. Collect(State(u, 6, o), v) = State(x % 2^((6 + 6) - 8), (6 + 6) - 8,
                       Append(o, (x \div 2^((6 + 6) - 8)) % 256))
    BY <1>3, ZenonT(30)
  <1>5. Collect(State(u, 4, o), v) = State(x % 2^((4 + 6) - 8), (4 + 6) - 8,
                       Append(o, (x \div 2^((4 + 6) - 8)) % 256))
    BY <1>3, ZenonT(30)
  <1>6. Collect(State(u, 2, o), v) = State(x % 2^((2 + 6) - 8), (2 + 6) - 8,
                       Append(o, (x \div 2^((2 + 6) - 8)) % 256))
    BY <1>3, ZenonT(30)
  <1>7. 2^((6 + 6) - 8) = 16 /\ 2^((4 + 6) - 8) = 4 /\ 2^((2 + 6) - 8) = 1
    BY <1>1
  <1>8. /\ Collect(State(u, 6, o), v) = State(x % 16, 4, Append(o, (x \div 16) % 256))
        /\ Collect(State(u, 4, o), v) = State(x % 4, 2, Append(o, (x \div 4) % 256))
        /\ Collect(State(u, 2, o), v) = State(x % 1, 0, Append(o, (x \div 1) % 256))
    BY <1>1, <1>4, <1>5, <1>6, <1>7
  <1> QED
    BY <1>2, <1>8 DEF Rest, PutByte

(* What std::string is made of.                                            *)
Byte == 0 .. 255

(* What the six-bit numbers p, q, r, s are to the bytes x, y, z.           *)
Carry(p, q, r, s, x, y, z) ==
    /\ p \in 0 .. 63 /\ q \in 0 .. 63 /\ r \in 0 .. 63 /\ s \in 0 .. 63
    /\ ((p * 64 + q) \div 16) % 256 = x
    /\ ((((p * 64 + q) % 16) * 64 + r) \div 4) % 256 = y
    /\ (((((((p * 64 + q) % 16) * 64 + r) % 4) * 64 + s) \div 1) % 256) = z
    /\ ((((((p * 64 + q) % 16) * 64 + r) % 4) * 64 + s) % 1) = 0

(* The four sixes of bits of three bytes, and the bytes back from them.    *)
LEMMA Sextets ==
    ASSUME NEW x \in Byte, NEW y \in Byte, NEW z \in Byte,
           NEW n, n = x * 65536 + y * 256 + z,
           NEW p, p = n \div 262144, NEW q, q = (n \div 4096) % 64,
           NEW r, r = (n \div 64) % 64, NEW s, s = n % 64
    PROVE  Carry(p, q, r, s, x, y, z)
  <1> USE DEF Byte
  <1>1. PICK h \in 0 .. 15, l \in 0 .. 15 : y = 16 * h + l
    <2>1. y \div 16 \in 0 .. 15 /\ y % 16 \in 0 .. 15 /\ y = 16 * (y \div 16) + (y % 16)
      OBVIOUS
    <2> QED
      BY <2>1
  <1>2. PICK j \in 0 .. 3, m \in 0 .. 63 : z = 64 * j + m
    <2>1. z \div 64 \in 0 .. 3 /\ z % 64 \in 0 .. 63 /\ z = 64 * (z \div 64) + (z % 64)
      OBVIOUS
    <2> QED
      BY <2>1
  <1>3. n \in Nat /\ n < 16777216
    OBVIOUS
  <1>4. n \div 4096 = 16 * x + h
    BY <1>1
  <1>5. n \div 64 = 64 * (16 * x + h) + (4 * l + j)
    BY <1>1, <1>2
  <1>6. n % 64 = m
    BY <1>1, <1>2
  <1>7. r = 4 * l + j
    BY <1>5
  <1>8. p * 64 + q = 16 * x + h /\ p \in 0 .. 63 /\ q \in 0 .. 63
    <2>1. n \div 262144 = (n \div 4096) \div 64
      BY <1>3
    <2>2. p * 64 + q = n \div 4096 /\ p \in 0 .. 63 /\ q \in 0 .. 63
      BY <1>3, <2>1
    <2> QED
      BY <1>4, <2>2
  <1>9. (p * 64 + q) \div 16 = x /\ (p * 64 + q) % 16 = h
    BY <1>8
  <1>10. h * 64 + r = 4 * y + j
    BY <1>1, <1>7
  <1>11. (h * 64 + r) \div 4 = y /\ (h * 64 + r) % 4 = j
    BY <1>10
  <1>12. j * 64 + s = z
    BY <1>2, <1>6
  <1>13. r \in 0 .. 63 /\ s \in 0 .. 63
    BY <1>6, <1>7
  <1>14. x % 256 = x /\ y % 256 = y /\ (z \div 1) % 256 = z /\ z % 1 = 0
    OBVIOUS
  <1> QED
    BY <1>8, <1>9, <1>11, <1>12, <1>13, <1>14 DEF Carry

-----------------------------------------------------------------------------
(* A group, encoded and decoded.                                           *)

(* The characters of a group are the four sixes of its bytes, or the first *)
(* of them where the bytes end.                                            *)
LEMMA GroupShape ==
    ASSUME NEW b \in Seq(Byte), NEW i \in 1 .. Len(b)
    PROVE  \E p, q, r, s :
              /\ Carry(p, q, r, s, ByteAt(b, i), ByteAt(b, i + 1), ByteAt(b, i + 2))
              /\ i + 2 <= Len(b) => EncodeGroup(b, i) = <<p, q, r, s>>
              /\ i + 1 = Len(b) => EncodeGroup(b, i) = <<p, q, r>>
              /\ i = Len(b) => EncodeGroup(b, i) = <<p, q>>
  <1>1. \A k \in Nat \ {0} : ByteAt(b, k) \in Byte
    BY ElementOfSeq, LenProperties DEF ByteAt, Byte
  <1>2. PICK m \in Nat : m = Len(b) /\ DOMAIN b = 1 .. m
    BY LenProperties
  <1>3. i \in Nat \ {0} /\ i + 1 \in Nat \ {0} /\ i + 2 \in Nat \ {0}
    BY <1>2
  <1>4. PICK x \in Byte, y \in Byte, z \in Byte :
           x = ByteAt(b, i) /\ y = ByteAt(b, i + 1) /\ z = ByteAt(b, i + 2)
    BY <1>1, <1>3
  <1>5. PICK n : n = x * 65536 + y * 256 + z
    OBVIOUS
  <1>6. PICK p, q, r, s : /\ p = n \div 262144 /\ q = (n \div 4096) % 64
                          /\ r = (n \div 64) % 64 /\ s = n % 64
    OBVIOUS
  <1>7. Carry(p, q, r, s, x, y, z)
    BY <1>5, <1>6, Sextets, SMTT(30)
  <1>8. EncodeGroup(b, i) =
           SubSeq(<<p, q, r, s>>, 1, 2 + Cardinality({i + 1, i + 2} \cap DOMAIN b))
    BY <1>4, <1>5, <1>6, SMT DEF EncodeGroup
  <1>9. Cardinality({}) = 0
    BY FS_EmptySet
  <1>10. Cardinality({i + 1}) = 1
    BY FS_Singleton
  <1>11. Cardinality({i + 1, i + 2}) = 2
    <2>1. IsFiniteSet({i + 1})
      BY FS_Singleton
    <2>2. Cardinality({i + 1} \cup {i + 2}) = 1 + 1
      <3>1. i + 2 \notin {i + 1}
        BY <1>3
      <3> QED
        BY <1>10, <2>1, <3>1, FS_AddElement
    <2>3. {i + 1} \cup {i + 2} = {i + 1, i + 2}
      OBVIOUS
    <2> QED
      BY <2>2, <2>3
  <1>12. PICK t : t = <<p, q, r, s>>
    OBVIOUS
  <1>13. /\ SubSeq(t, 1, 2 + 2) = <<p, q, r, s>>
         /\ SubSeq(t, 1, 2 + 1) = <<p, q, r>>
         /\ SubSeq(t, 1, 2 + 0) = <<p, q>>
    <2> DEFINE S == {p, q, r, s}
    <2>1. ASSUME NEW k \in 2 .. 4, NEW u \in Seq(S), Len(u) = k,
                 \A j \in 1 .. k : u[j] = t[j]
          PROVE  SubSeq(t, 1, k) = u
      <3>1. \A j \in 1 .. k : t[j] \in S
        BY <1>12
      <3>2. /\ SubSeq(t, 1, k) \in Seq(S) /\ Len(SubSeq(t, 1, k)) = k
            /\ \A j \in 1 .. k : SubSeq(t, 1, k)[j] = t[j]
        <4>1. /\ SubSeq(t, 1, k) \in Seq(S)
              /\ Len(SubSeq(t, 1, k)) = IF 1 <= k THEN k - 1 + 1 ELSE 0
              /\ \A j \in 1 .. k - 1 + 1 : SubSeq(t, 1, k)[j] = t[1 + j - 1]
          <5> HIDE DEF S
          <5> QED
            BY <3>1, SubSeqProperties
        <4> QED
          BY <4>1
      <3> HIDE DEF S
      <3> QED
        BY <2>1, <3>2, SeqEqual
    <2>2. 2 + 2 \in 2 .. 4 /\ 2 + 1 \in 2 .. 4 /\ 2 + 0 \in 2 .. 4
      OBVIOUS
    <2>3. /\ <<p, q, r, s>> \in Seq(S) /\ Len(<<p, q, r, s>>) = 2 + 2
          /\ \A j \in 1 .. 2 + 2 : <<p, q, r, s>>[j] = t[j]
      BY <1>12
    <2>4. /\ <<p, q, r>> \in Seq(S) /\ Len(<<p, q, r>>) = 2 + 1
          /\ \A j \in 1 .. 2 + 1 : <<p, q, r>>[j] = t[j]
      BY <1>12
    <2>5. /\ <<p, q>> \in Seq(S) /\ Len(<<p, q>>) = 2 + 0
          /\ \A j \in 1 .. 2 + 0 : <<p, q>>[j] = t[j]
      BY <1>12
    <2> HIDE DEF S
    <2>6. SubSeq(t, 1, 2 + 2) = <<p, q, r, s>>
      BY <2>1, <2>2, <2>3
    <2>7. SubSeq(t, 1, 2 + 1) = <<p, q, r>>
      BY <2>1, <2>2, <2>4
    <2>8. SubSeq(t, 1, 2 + 0) = <<p, q>>
      BY <2>1, <2>2, <2>5
    <2> QED
      BY <2>6, <2>7, <2>8
  <1>14. i + 2 <= m => EncodeGroup(b, i) = <<p, q, r, s>>
    <2> HAVE i + 2 <= m
    <2>1. {i + 1, i + 2} \cap DOMAIN b = {i + 1, i + 2}
      BY <1>2, <1>3
    <2> QED
      BY <1>8, <1>11, <1>13, <2>1, <1>12
  <1>15. i + 1 = m => EncodeGroup(b, i) = <<p, q, r>>
    <2> HAVE i + 1 = m
    <2>1. {i + 1, i + 2} \cap DOMAIN b = {i + 1}
      BY <1>2, <1>3
    <2> QED
      BY <1>8, <1>10, <1>13, <2>1, <1>12
  <1>16. i = m => EncodeGroup(b, i) = <<p, q>>
    <2> HAVE i = m
    <2>1. {i + 1, i + 2} \cap DOMAIN b = {}
      BY <1>2, <1>3
    <2> QED
      BY <1>8, <1>9, <1>13, <2>1, <1>12
  <1> QED
    BY <1>2, <1>4, <1>7, <1>14, <1>15, <1>16

(* The buffer after two, three and four numbers.                           *)
Two(p, q) == p * 64 + q
Three(p, q, r) == Rest(Two(p, q), 16) * 64 + r
Four(p, q, r, s) == Rest(Three(p, q, r), 4) * 64 + s

(* They are naturals.                                                      *)
LEMMA BufferTypes ==
    ASSUME NEW p \in Nat, NEW q \in Nat, NEW r \in Nat, NEW s \in Nat
    PROVE  /\ Two(p, q) \in Nat /\ Rest(Two(p, q), 16) \in Nat
           /\ Three(p, q, r) \in Nat /\ Rest(Three(p, q, r), 4) \in Nat
           /\ Four(p, q, r, s) \in Nat
  <1>1. PICK u \in Nat : u = Two(p, q)
    BY DEF Two
  <1>2. PICK a \in Nat : a = Rest(u, 16)
    BY DEF Rest
  <1>3. PICK v \in Nat : v = Three(p, q, r)
    BY <1>1, <1>2 DEF Three
  <1>4. PICK c \in Nat : c = Rest(v, 4)
    BY DEF Rest
  <1>5. PICK w \in Nat : w = Four(p, q, r, s)
    BY <1>3, <1>4 DEF Four
  <1> QED
    BY <1>1, <1>2, <1>3, <1>4, <1>5

(* Four characters collected from a state with no bits left.               *)
LEMMA CollectFour ==
    ASSUME NEW p \in Nat, NEW q \in Nat, NEW r \in Nat, NEW s \in Nat
    PROVE  \A l :
           /\ Collect(State(0, 0, l), p) = State(p, 6, l)
           /\ Collect(State(p, 6, l), q) = State(Rest(Two(p, q), 16), 4, PutByte(l, Two(p, q), 16))
           /\ Collect(State(Rest(Two(p, q), 16), 4, l), r) =
                State(Rest(Three(p, q, r), 4), 2, PutByte(l, Three(p, q, r), 4))
           /\ Collect(State(Rest(Three(p, q, r), 4), 2, l), s) =
                State(Rest(Four(p, q, r, s), 1), 0, PutByte(l, Four(p, q, r, s), 1))
  <1> SUFFICES ASSUME NEW l
               PROVE /\ Collect(State(0, 0, l), p) = State(p, 6, l)
           /\ Collect(State(p, 6, l), q) = State(Rest(Two(p, q), 16), 4, PutByte(l, Two(p, q), 16))
           /\ Collect(State(Rest(Two(p, q), 16), 4, l), r) =
                State(Rest(Three(p, q, r), 4), 2, PutByte(l, Three(p, q, r), 4))
           /\ Collect(State(Rest(Three(p, q, r), 4), 2, l), s) =
                State(Rest(Four(p, q, r, s), 1), 0, PutByte(l, Four(p, q, r, s), 1))
    OBVIOUS
  <1>1. Collect(State(0, 0, l), p) = State(p, 6, l)
    <2>1. p = 0 * 64 + p /\ 0 \in Nat
      OBVIOUS
    <2> QED
      BY <2>1, CollectStep
  <1>2. Collect(State(p, 6, l), q) = State(Rest(Two(p, q), 16), 4, PutByte(l, Two(p, q), 16))
    <2>1. Two(p, q) = p * 64 + q
      BY DEF Two
    <2> QED
      BY <2>1, CollectStep
  <1>3. PICK a \in Nat : a = Rest(Two(p, q), 16)
    BY BufferTypes
  <1>4. PICK c \in Nat : c = Rest(Three(p, q, r), 4)
    BY BufferTypes
  <1>5. Collect(State(a, 4, l), r) =
           State(Rest(Three(p, q, r), 4), 2, PutByte(l, Three(p, q, r), 4))
    <2>1. Three(p, q, r) = a * 64 + r
      BY <1>3 DEF Three
    <2> QED
      BY <2>1, CollectStep
  <1>6. Collect(State(c, 2, l), s) =
           State(Rest(Four(p, q, r, s), 1), 0, PutByte(l, Four(p, q, r, s), 1))
    <2>1. Four(p, q, r, s) = c * 64 + s
      BY <1>4 DEF Four
    <2> QED
      BY <2>1, CollectStep
  <1> QED
    BY <1>1, <1>2, <1>3, <1>4, <1>5, <1>6

(* Collecting p, q, r and s puts out x, y and z, with a and c in the       *)
(* buffer on the way.                                                      *)
Restores(a, c, p, q, r, s, x, y, z) ==
    \A l : /\ Collect(State(0, 0, l), p) = State(p, 6, l)
           /\ Collect(State(p, 6, l), q) = State(a, 4, Append(l, x))
           /\ Collect(State(a, 4, l), r) = State(c, 2, Append(l, y))
           /\ Collect(State(c, 2, l), s) = State(0, 0, Append(l, z))

(* Characters that carry three bytes restore them.                         *)
LEMMA CollectBytes ==
    ASSUME NEW p, NEW q, NEW r, NEW s, NEW x, NEW y, NEW z,
           Carry(p, q, r, s, x, y, z)
    PROVE  \E a, c : Restores(a, c, p, q, r, s, x, y, z)
  <1>1. p \in Nat /\ q \in Nat /\ r \in Nat /\ s \in Nat
    BY DEF Carry
  <1>2. \A l : /\ PutByte(l, Two(p, q), 16) = Append(l, x)
               /\ PutByte(l, Three(p, q, r), 4) = Append(l, y)
               /\ PutByte(l, Four(p, q, r, s), 1) = Append(l, z)
    BY DEF Carry, PutByte, Two, Three, Four, Rest
  <1>3. Rest(Four(p, q, r, s), 1) = 0
    BY DEF Carry, Two, Three, Four, Rest
  <1>4. \A l :
           /\ Collect(State(0, 0, l), p) = State(p, 6, l)
           /\ Collect(State(p, 6, l), q) = State(Rest(Two(p, q), 16), 4, PutByte(l, Two(p, q), 16))
           /\ Collect(State(Rest(Two(p, q), 16), 4, l), r) =
                State(Rest(Three(p, q, r), 4), 2, PutByte(l, Three(p, q, r), 4))
           /\ Collect(State(Rest(Three(p, q, r), 4), 2, l), s) =
                State(Rest(Four(p, q, r, s), 1), 0, PutByte(l, Four(p, q, r, s), 1))
    BY <1>1, CollectFour
  <1>5. PICK a : a = Rest(Two(p, q), 16)
    OBVIOUS
  <1>6. PICK c : c = Rest(Three(p, q, r), 4)
    OBVIOUS
  <1>7. Restores(a, c, p, q, r, s, x, y, z)
    BY <1>2, <1>3, <1>4, <1>5, <1>6 DEF Restores
  <1> QED
    BY <1>7, Zenon

(* Collecting t goes from the output o to d, which has two to four numbers *)
(* of the bytes x, y and z more.                                           *)
Walked(o, t, x, y, z, d) ==
    /\ Collects(State(0, 0, o), t, d)
    /\ Len(t) = 2 => d.output = Append(o, x)
    /\ Len(t) = 3 => d.output = Append(Append(o, x), y)
    /\ Len(t) = 4 => d = State(0, 0, Append(Append(Append(o, x), y), z))

(* Two to four characters that carry bytes, collected from no bits left.   *)
LEMMA CollectsWalk ==
    ASSUME NEW p, NEW q, NEW r, NEW s, NEW x, NEW y, NEW z,
           Carry(p, q, r, s, x, y, z),
           NEW o \in Seq(Byte), NEW t \in Seq(0 .. 63), Len(t) \in 2 .. 4,
           t[1] = p, t[2] = q, Len(t) >= 3 => t[3] = r, Len(t) = 4 => t[4] = s
    PROVE  \E d : Walked(o, t, x, y, z, d)
  <1>1. State(0, 0, o) \in Collected
    BY DEF State, Collected, Byte
  <1>2. PICK n \in 2 .. 4 : n = Len(t)
    OBVIOUS
  <1>3. PICK g \in [0 .. n -> Collected] :
          g[0] = State(0, 0, o) /\ \A i \in 1 .. n : g[i] = Collect(g[i - 1], t[i])
    BY <1>1, <1>2, CollectsExists
  <1>4. Collects(State(0, 0, o), t, g[n])
    BY <1>2, <1>3 DEF Collects
  <1>5. PICK a, c : Restores(a, c, p, q, r, s, x, y, z)
    BY CollectBytes, Zenon
  <1>10. g[1] = Collect(g[0], p) /\ g[2] = Collect(g[1], q)
    <2>1. 1 \in 1 .. n /\ 2 \in 1 .. n /\ 1 - 1 = 0 /\ 2 - 1 = 1
      OBVIOUS
    <2>2. g[1] = Collect(g[1 - 1], t[1]) /\ g[2] = Collect(g[2 - 1], t[2])
      BY <1>3, <2>1
    <2> QED
      BY <2>1, <2>2
  <1>11. n >= 3 => g[3] = Collect(g[2], r)
    <2> HAVE n >= 3
    <2>1. 3 \in 1 .. n /\ 3 - 1 = 2
      OBVIOUS
    <2>2. g[3] = Collect(g[3 - 1], t[3])
      BY <1>3, <2>1
    <2> QED
      BY <1>2, <2>1, <2>2
  <1>12. n = 4 => g[4] = Collect(g[3], s)
    <2> HAVE n = 4
    <2>1. 4 \in 1 .. n /\ 4 - 1 = 3
      OBVIOUS
    <2>2. g[4] = Collect(g[4 - 1], t[4])
      BY <1>3, <2>1
    <2> QED
      BY <1>2, <2>1, <2>2
  <1>13. g[1] = State(p, 6, o)
    BY <1>3, <1>5, <1>10 DEF Restores
  <1>14. g[2] = State(a, 4, Append(o, x))
    BY <1>5, <1>10, <1>13 DEF Restores
  <1>15. n >= 3 => g[3] = State(c, 2, Append(Append(o, x), y))
    BY <1>5, <1>11, <1>14 DEF Restores
  <1>16. n = 4 => g[4] = State(0, 0, Append(Append(Append(o, x), y), z))
    BY <1>5, <1>12, <1>15 DEF Restores
  <1>18. /\ n = 2 => g[n].output = Append(o, x)
         /\ n = 3 => g[n].output = Append(Append(o, x), y)
         /\ n = 4 => g[n] = State(0, 0, Append(Append(Append(o, x), y), z))
    <2>1. n = 2 => g[n] = State(a, 4, Append(o, x))
      BY <1>14
    <2>2. n = 3 => g[n] = State(c, 2, Append(Append(o, x), y))
      BY <1>15
    <2>3. n = 4 => g[n] = State(0, 0, Append(Append(Append(o, x), y), z))
      BY <1>16
    <2>4. ASSUME n = 2 PROVE g[n].output = Append(o, x)
      <3>1. g[n] = State(a, 4, Append(o, x))
        BY <2>1, <2>4
      <3> QED
        BY <3>1, SMTT(30) DEF State
    <2>5. ASSUME n = 3 PROVE g[n].output = Append(Append(o, x), y)
      <3>1. g[n] = State(c, 2, Append(Append(o, x), y))
        BY <2>2, <2>5
      <3> QED
        BY <3>1, SMTT(30) DEF State
    <2> QED
      BY <2>3, <2>4, <2>5
  <1>19. Walked(o, t, x, y, z, g[n])
    BY <1>2, <1>4, <1>18 DEF Walked
  <1> QED
    BY <1>19

(* A prefix and the next of a sequence are a prefix.                       *)
LEMMA PrefixGrows ==
    ASSUME NEW S, NEW b \in Seq(S), NEW k \in 1 .. Len(b)
    PROVE  Append(SubSeq(b, 1, k - 1), b[k]) = SubSeq(b, 1, k)
  <1>1. PICK m \in Nat : m = Len(b)
    BY LenProperties
  <1>2. \A i \in 1 .. k : b[i] \in S
    BY <1>1, ElementOfSeq
  <1>3. /\ SubSeq(b, 1, k) \in Seq(S)
        /\ Len(SubSeq(b, 1, k)) = IF 1 <= k THEN k - 1 + 1 ELSE 0
        /\ \A i \in 1 .. k - 1 + 1 : SubSeq(b, 1, k)[i] = b[1 + i - 1]
    BY <1>1, <1>2, SubSeqProperties
  <1>4. /\ SubSeq(b, 1, k - 1) \in Seq(S)
        /\ Len(SubSeq(b, 1, k - 1)) = IF 1 <= k - 1 THEN k - 1 - 1 + 1 ELSE 0
        /\ \A i \in 1 .. k - 1 - 1 + 1 : SubSeq(b, 1, k - 1)[i] = b[1 + i - 1]
    <2>1. k - 1 \in Int /\ 1 \in Int /\ \A i \in 1 .. k - 1 : b[i] \in S
      BY <1>1, <1>2
    <2> QED
      BY <2>1, SubSeqProperties
  <1>5. PICK s \in Seq(S) : s = SubSeq(b, 1, k - 1)
    BY <1>4
  <1>6. k \in Nat /\ k >= 1
    BY <1>1
  <1>7. Len(s) = k - 1 /\ \A i \in 1 .. k - 1 : s[i] = b[i]
    BY <1>4, <1>5, <1>6
  <1>8. Len(SubSeq(b, 1, k)) = k /\ \A i \in 1 .. k : SubSeq(b, 1, k)[i] = b[i]
    BY <1>3, <1>6
  <1>9. b[k] \in S
    BY <1>2, <1>6
  <1>10. /\ Append(s, b[k]) \in Seq(S) /\ Len(Append(s, b[k])) = k
         /\ \A i \in 1 .. k : Append(s, b[k])[i] = b[i]
    <2>1. /\ Append(s, b[k]) \in Seq(S)
          /\ Len(Append(s, b[k])) = Len(s) + 1
          /\ \A i \in 1 .. Len(s) : Append(s, b[k])[i] = s[i]
          /\ Append(s, b[k])[Len(s) + 1] = b[k]
      BY <1>9, AppendProperties
    <2> QED
      BY <1>6, <1>7, <2>1
  <1> QED
    BY <1>3, <1>5, <1>8, <1>10, SeqEqual

-----------------------------------------------------------------------------
(* All the groups of a text.                                               *)

(* f holds what FlattenSeq has put together of seqs.                       *)
IsFlattening(f, seqs, S) ==
    /\ f \in [1 .. Len(seqs) -> Seq(S)]
    /\ f[1] = seqs[1]
    /\ \A i \in 2 .. Len(seqs) : f[i] = f[i - 1] \o seqs[i]
    /\ FlattenSeq(seqs) = f[Len(seqs)]

(* FlattenSeq puts its sequences together one after the other.             *)
LEMMA FlattenSteps ==
    ASSUME NEW S, NEW seqs \in Seq(Seq(S)), Len(seqs) # 0
    PROVE  \E f : IsFlattening(f, seqs, S)
  <1> DEFINE Is(f) == f = [i \in 1 .. Len(seqs) |->
                             IF i = 1 THEN seqs[i] ELSE f[i - 1] \o seqs[i]]
             flatten == CHOOSE f : Is(f)
  <1>1. PICK n \in Nat : n = Len(seqs) /\ n >= 1
    BY LenProperties
  <1>2. \A i \in 1 .. n : seqs[i] \in Seq(S)
    BY <1>1, ElementOfSeq
  <1>3. \A x, y \in Seq(S) : x \o y \in Seq(S)
    BY ConcatProperties
  <1> DEFINE O == [p \in Seq(S) \X (1 .. n) |->
                     IF p[2] = 1 THEN seqs[1] ELSE p[1] \o seqs[p[2]]]
  <1>4. O \in [Seq(S) \X (1 .. n) -> Seq(S)]
    <2>1. ASSUME NEW p \in Seq(S) \X (1 .. n) PROVE O[p] \in Seq(S)
      <3>1. p[1] \in Seq(S) /\ p[2] \in 1 .. n /\ 1 \in 1 .. n
        BY <1>1
      <3>2. seqs[1] \in Seq(S) /\ p[1] \o seqs[p[2]] \in Seq(S)
        BY <1>2, <1>3, <3>1
      <3> QED
        BY <3>2
    <2> QED
      BY <2>1
  <1>5. PICK g : IsChain(g, n, Seq(S), <<>>, O)
    <2>1. <<>> \in Seq(S)
      BY EmptySeq
    <2> HIDE DEF O
    <2> QED
      BY <1>4, <2>1, ChainExists
  <1>6. PICK h : h = [i \in 1 .. n |-> g[i]]
    OBVIOUS
  <1>7. ASSUME NEW i \in 1 .. n
        PROVE  h[i] = IF i = 1 THEN seqs[i] ELSE h[i - 1] \o seqs[i]
    <2>1. i - 1 \in 0 .. n
      OBVIOUS
    <2>2. g[i - 1] \in Seq(S) /\ g[i] = O[<<g[i - 1], i>>]
      BY <1>5, <2>1 DEF IsChain
    <2>3. O[<<g[i - 1], i>>] = IF i = 1 THEN seqs[1] ELSE g[i - 1] \o seqs[i]
      BY <2>2
    <2>4. i # 1 => h[i - 1] = g[i - 1]
      BY <1>6
    <2> HIDE DEF O
    <2> QED
      BY <1>6, <2>2, <2>3, <2>4
  <1>8. Is(h)
    BY <1>1, <1>6, <1>7
  <1>9. Is(flatten)
    <2> HIDE DEF Is
    <2> QED
      BY <1>8
  <1>10. FlattenSeq(seqs) = flatten[Len(seqs)]
    BY DEF FlattenSeq
  <1> HIDE DEF flatten
  <1>11. flatten[1] = seqs[1] /\ \A i \in 2 .. n : flatten[i] = flatten[i - 1] \o seqs[i]
    <2>1. ASSUME NEW i \in 1 .. n
          PROVE  flatten[i] = IF i = 1 THEN seqs[i] ELSE flatten[i - 1] \o seqs[i]
      <3>1. i \in 1 .. Len(seqs)
        BY <1>1
      <3> QED
        BY <1>9, <3>1, Zenon
    <2>2. 1 \in 1 .. n /\ \A i \in 2 .. n : i \in 1 .. n /\ i # 1
      BY <1>1
    <2>3. flatten[1] = seqs[1]
      BY <2>1, <2>2
    <2>4. \A i \in 2 .. n : flatten[i] = flatten[i - 1] \o seqs[i]
      BY <2>1, <2>2
    <2> QED
      BY <2>3, <2>4
  <1>12. \A i \in Nat : i + 1 <= n => flatten[i + 1] \in Seq(S)
    <2> DEFINE Good == {k \in Nat : k + 1 <= n => flatten[k + 1] \in Seq(S)}
    <2>1. 0 \in Good
      BY <1>1, <1>2, <1>11
    <2>2. ASSUME NEW k \in Nat, k \in Good PROVE k + 1 \in Good
      <3>1. CASE (k + 1) + 1 <= n
        <4>1. flatten[k + 1] \in Seq(S) /\ (k + 1) + 1 \in 2 .. n /\ ((k + 1) + 1) - 1 = k + 1
          BY <1>1, <2>2, <3>1
        <4>2. flatten[(k + 1) + 1] = flatten[((k + 1) + 1) - 1] \o seqs[(k + 1) + 1]
          BY <1>11, <4>1
        <4>3. seqs[(k + 1) + 1] \in Seq(S)
          BY <1>2, <4>1
        <4>4. flatten[(k + 1) + 1] \in Seq(S)
          BY <1>3, <4>1, <4>2, <4>3
        <4> QED
          BY <4>4
      <3> QED
        BY <3>1
    <2> HIDE DEF Good
    <2>3. \A i \in Nat : i \in Good
      BY <2>1, <2>2, Induction
    <2> QED
      BY <2>3 DEF Good
  <1>13. \A i \in 1 .. n : flatten[i] \in Seq(S)
    <2> SUFFICES ASSUME NEW i \in 1 .. n PROVE flatten[i] \in Seq(S)
      OBVIOUS
    <2>1. i - 1 \in Nat /\ (i - 1) + 1 = i
      OBVIOUS
    <2>2. (i - 1) + 1 <= n => flatten[(i - 1) + 1] \in Seq(S)
      BY <1>12, <2>1
    <2> QED
      BY <2>1, <2>2
  <1>14. flatten \in [1 .. n -> Seq(S)]
    <2>1. flatten = [i \in 1 .. n |-> flatten[i]]
      BY <1>1, <1>9
    <2> QED
      BY <1>13, <2>1
  <1>15. IsFlattening(flatten, seqs, S)
    BY <1>1, <1>10, <1>11, <1>14 DEF IsFlattening
  <1> QED
    BY <1>15

(* What the group of the bytes i, i + 1 and i + 2 of b adds to the output. *)
GroupDone(b, i, d) ==
    /\ Collects(State(0, 0, SubSeq(b, 1, i - 1)), EncodeGroup(b, i), d)
    /\ i + 2 <= Len(b) => /\ Len(EncodeGroup(b, i)) = 4
                          /\ d = State(0, 0, SubSeq(b, 1, i + 2))
    /\ i + 2 > Len(b) => d.output = b /\ Len(EncodeGroup(b, i)) \in {2, 3}

(* Decoding the characters of a group adds its bytes to the output.        *)
LEMMA GroupCollects ==
    ASSUME NEW b \in Seq(Byte), NEW i \in 1 .. Len(b)
    PROVE  EncodeGroup(b, i) \in Seq(0 .. 63) /\ \E d : GroupDone(b, i, d)
  <1>1. PICK m \in Nat : m = Len(b)
    BY LenProperties
  <1>2. PICK p, q, r, s :
              /\ Carry(p, q, r, s, ByteAt(b, i), ByteAt(b, i + 1), ByteAt(b, i + 2))
              /\ i + 2 <= Len(b) => EncodeGroup(b, i) = <<p, q, r, s>>
              /\ i + 1 = Len(b) => EncodeGroup(b, i) = <<p, q, r>>
              /\ i = Len(b) => EncodeGroup(b, i) = <<p, q>>
    BY GroupShape
  <1>3. p \in 0 .. 63 /\ q \in 0 .. 63 /\ r \in 0 .. 63 /\ s \in 0 .. 63
    BY <1>2 DEF Carry
  <1>4. PICK x, y, z : x = ByteAt(b, i) /\ y = ByteAt(b, i + 1) /\ z = ByteAt(b, i + 2)
    OBVIOUS
  <1>5. PICK o : o = SubSeq(b, 1, i - 1)
    OBVIOUS
  <1>6. o \in Seq(Byte)
    <2>1. \A k \in 1 .. i - 1 : b[k] \in Byte
      BY <1>1, ElementOfSeq
    <2>2. i - 1 \in Int /\ 1 \in Int
      BY <1>1
    <2> QED
      BY <1>5, <2>1, <2>2, SubSeqProperties
  <1>7. PICK t : t = EncodeGroup(b, i)
    OBVIOUS
  <1>8. i + 2 <= m \/ i + 1 = m \/ i = m
    BY <1>1
  <1>9. /\ t \in Seq(0 .. 63) /\ Len(t) \in 2 .. 4
        /\ t[1] = p /\ t[2] = q /\ (Len(t) >= 3 => t[3] = r) /\ (Len(t) = 4 => t[4] = s)
        /\ i + 2 <= m => Len(t) = 4
        /\ i + 1 = m => Len(t) = 3
        /\ i = m => Len(t) = 2
    <2>1. CASE i + 2 <= m
      <3>1. t = <<p, q, r, s>> /\ i + 1 # m /\ i # m
        BY <1>1, <1>2, <1>7, <2>1
      <3> QED
        BY <1>3, <2>1, <3>1
    <2>2. CASE i + 1 = m
      <3>1. t = <<p, q, r>> /\ ~(i + 2 <= m) /\ i # m
        BY <1>1, <1>2, <1>7, <2>2
      <3> QED
        BY <1>3, <2>2, <3>1
    <2>3. CASE i = m
      <3>1. t = <<p, q>> /\ ~(i + 2 <= m) /\ i + 1 # m
        BY <1>1, <1>2, <1>7, <2>3
      <3> QED
        BY <1>3, <2>3, <3>1
    <2> QED
      BY <1>8, <2>1, <2>2, <2>3
  <1>18. PICK d : Walked(o, t, x, y, z, d)
    <2>1. Carry(p, q, r, s, x, y, z)
      BY <1>2, <1>4
    <2> QED
      BY <1>6, <1>9, <2>1, CollectsWalk
  <1>10. /\ Collects(State(0, 0, o), t, d)
         /\ Len(t) = 2 => d.output = Append(o, x)
         /\ Len(t) = 3 => d.output = Append(Append(o, x), y)
         /\ Len(t) = 4 => d = State(0, 0, Append(Append(Append(o, x), y), z))
    BY <1>18 DEF Walked
  <1>11. Append(o, x) = SubSeq(b, 1, i)
    <2>1. x = b[i]
      BY <1>1, <1>4 DEF ByteAt
    <2> QED
      BY <1>5, <2>1, PrefixGrows
  <1>12. i + 1 <= m => Append(Append(o, x), y) = SubSeq(b, 1, i + 1)
    <2> HAVE i + 1 <= m
    <2>1. y = b[i + 1] /\ i + 1 \in 1 .. Len(b) /\ (i + 1) - 1 = i
      BY <1>1, <1>4 DEF ByteAt
    <2>2. Append(SubSeq(b, 1, (i + 1) - 1), b[i + 1]) = SubSeq(b, 1, i + 1)
      BY <2>1, PrefixGrows
    <2> QED
      BY <1>11, <2>1, <2>2
  <1>13. i + 2 <= m => Append(Append(Append(o, x), y), z) = SubSeq(b, 1, i + 2)
    <2> HAVE i + 2 <= m
    <2>1. z = b[i + 2] /\ i + 2 \in 1 .. Len(b) /\ (i + 2) - 1 = i + 1 /\ i + 1 <= m
      BY <1>1, <1>4 DEF ByteAt
    <2>2. Append(SubSeq(b, 1, (i + 2) - 1), b[i + 2]) = SubSeq(b, 1, i + 2)
      BY <2>1, PrefixGrows
    <2> QED
      BY <1>12, <2>1, <2>2
  <1>14. SubSeq(b, 1, m) = b
    BY <1>1, SubSeqFull
  <1>15. i + 2 <= m => d = State(0, 0, SubSeq(b, 1, i + 2)) /\ Len(t) = 4
    BY <1>9, <1>10, <1>13
  <1>16. i + 2 > m => d.output = b /\ Len(t) \in {2, 3}
    <2> HAVE i + 2 > m
    <2>1. CASE i + 1 = m
      <3>1. i + 1 <= m
        BY <2>1
      <3>2. Append(Append(o, x), y) = b
        BY <1>12, <1>14, <2>1, <3>1
      <3>3. Len(t) = 3
        BY <1>9, <2>1
      <3> QED
        BY <1>10, <3>2, <3>3
    <2>2. CASE i = m
      BY <1>9, <1>10, <1>11, <1>14, <2>2
    <2>3. ~(i + 2 <= m)
      <3>1. i \in 1 .. m
        BY <1>1
      <3> QED
        BY <3>1
    <2>4. i + 1 = m \/ i = m
      BY <1>8, <2>3
    <2> QED
      BY <2>1, <2>2, <2>4
  <1>17. GroupDone(b, i, d)
    BY <1>1, <1>5, <1>7, <1>10, <1>15, <1>16 DEF GroupDone
  <1> QED
    BY <1>7, <1>9, <1>17

(* How far decoding has come after k groups of b, whose numbers are t.     *)
Decoded(b, t, k, d) ==
    /\ t \in Seq(0 .. 63) /\ Len(t) % 4 # 1
    /\ Collects(Collector, t, d)
    /\ 3 * k <= Len(b) => Len(t) % 4 = 0 /\ d = State(0, 0, SubSeq(b, 1, 3 * k))
    /\ 3 * k > Len(b) => d.output = b

(* base64_decode gives back what base64_encode was given, whatever bytes   *)
(* they are and however many.                                              *)
THEOREM Base64RoundTrip ==
    ASSUME NEW b \in Seq(Byte)
    PROVE  /\ Base64Encode(b) \in Seq(0 .. 63)
           /\ Base64Decode(Base64Encode(b)) = b
  <1>1. PICK m \in Nat : m = Len(b)
    BY LenProperties
  <1>2. PICK n \in Nat : n = (m + 2) \div 3 /\ 3 * n >= m /\ 3 * n < m + 3
    <2>1. (m + 2) \div 3 \in Nat /\ 3 * ((m + 2) \div 3) >= m /\ 3 * ((m + 2) \div 3) < m + 3
      OBVIOUS
    <2> QED
      BY <2>1
  <1>3. PICK seqs : seqs = [k \in 1 .. n |-> EncodeGroup(b, 3 * k - 2)]
    OBVIOUS
  <1>4. Base64Encode(b) = FlattenSeq(seqs)
    BY <1>1, <1>2, <1>3 DEF Base64Encode
  <1>5. ASSUME NEW k \in 1 .. n
        PROVE  /\ 3 * k - 2 \in 1 .. Len(b) /\ seqs[k] = EncodeGroup(b, 3 * k - 2)
               /\ seqs[k] \in Seq(0 .. 63)
    <2>1. 3 * k - 2 \in 1 .. m
      BY <1>2
    <2> QED
      BY <1>1, <1>3, <2>1, GroupCollects
  <1>6. seqs \in Seq(Seq(0 .. 63)) /\ Len(seqs) = n
    BY <1>3, <1>5
  <1>7. CASE n = 0
    <2>1. seqs = <<>>
      BY <1>6, <1>7, EmptySeq
    <2>2. FlattenSeq(seqs) = seqs
      BY <1>6, <1>7 DEF FlattenSeq
    <2>3. m = 0 /\ b = <<>>
      BY <1>1, <1>2, <1>7, EmptySeq
    <2>4. Collects(Collector, <<>>, Collector)
      <3>1. Collector \in Collected
        BY DEF Collector, Collected
      <3>2. PICK g : g = [i \in 0 .. 0 |-> Collector]
        OBVIOUS
      <3>3. Len(<<>>) = 0 /\ 1 .. 0 = {}
        BY EmptySeq
      <3>4. g \in [0 .. 0 -> Collected] /\ g[0] = Collector
        BY <3>1, <3>2
      <3> QED
        BY <3>3, <3>4 DEF Collects
    <2>5. <<>> \in Seq(0 .. 63) /\ Len(<<>>) = 0
      BY EmptySeq
    <2>6. FoldLeft(Collect, Collector, <<>>) = Collector
      BY <2>4, <2>5, FoldCollects
    <2>7. IsBase64(<<>>)
      <3>1. \A i \in DOMAIN <<>> : <<>>[i] \in 0 .. 63
        OBVIOUS
      <3>2. 0 % 4 # 1
        OBVIOUS
      <3> QED
        BY <2>5, <3>1, <3>2 DEF IsBase64
    <2>8. Base64Encode(b) = <<>>
      BY <1>4, <2>1, <2>2
    <2>9. Base64Decode(<<>>) = Collector.output
      BY <2>6, <2>7 DEF Base64Decode
    <2>10. Collector.output = <<>>
      BY DEF Collector
    <2> QED
      BY <2>3, <2>5, <2>8, <2>9, <2>10
  <1>8. CASE n # 0
    <2>1. PICK f : IsFlattening(f, seqs, 0 .. 63)
      BY <1>6, <1>8, FlattenSteps
    <2>2. /\ f[1] = seqs[1] /\ f \in [1 .. n -> Seq(0 .. 63)]
          /\ \A k \in 2 .. n : f[k] = f[k - 1] \o seqs[k]
          /\ FlattenSeq(seqs) = f[n]
      BY <1>6, <2>1 DEF IsFlattening
    <2> DEFINE Good == {k \in Nat : k + 1 <= n => \E d : Decoded(b, f[k + 1], k + 1, d)}
    <2>3. Collector = State(0, 0, SubSeq(b, 1, 0))
      <3>1. SubSeq(b, 1, 0) = <<>>
        BY SubSeqEmpty
      <3> QED
        BY <3>1 DEF Collector, State
    <2>4. 0 \in Good
      <3>1. 1 \in 1 .. n /\ 1 \in 1 .. Len(b) /\ seqs[1] = EncodeGroup(b, 1)
            /\ seqs[1] \in Seq(0 .. 63)
        <4>1. 1 \in 1 .. n /\ 3 * 1 - 2 = 1
          BY <1>8
        <4> QED
          BY <1>5, <4>1
      <3>2. PICK d : GroupDone(b, 1, d)
        BY <3>1, GroupCollects
      <3>3. Decoded(b, seqs[1], 1, d)
        <4>1. PICK l \in Nat : l = Len(seqs[1])
          BY <3>1, LenProperties
        <4>2. /\ Collects(State(0, 0, SubSeq(b, 1, 1 - 1)), seqs[1], d)
              /\ 1 + 2 <= Len(b) => l = 4 /\ d = State(0, 0, SubSeq(b, 1, 1 + 2))
              /\ 1 + 2 > Len(b) => d.output = b /\ l \in {2, 3}
          BY <3>1, <3>2, <4>1 DEF GroupDone
        <4>3. /\ 1 - 1 = 0 /\ 1 + 2 = 3 /\ 3 * 1 = 3 /\ 4 % 4 = 0 /\ 2 % 4 = 2 /\ 3 % 4 = 3
              /\ 3 <= m \/ 3 > m
          OBVIOUS
        <4>4. l % 4 # 1
          BY <1>1, <4>2, <4>3
        <4> QED
          BY <2>3, <3>1, <4>1, <4>2, <4>3, <4>4 DEF Decoded
      <3> QED
        BY <2>2, <3>3
    <2>5. ASSUME NEW k \in Nat, k \in Good PROVE k + 1 \in Good
      <3> SUFFICES ASSUME (k + 1) + 1 <= n
                   PROVE  \E d : Decoded(b, f[(k + 1) + 1], (k + 1) + 1, d)
        OBVIOUS
      <3>1. PICK j \in 2 .. n : j = (k + 1) + 1 /\ j - 1 = k + 1 /\ j \in 1 .. n /\ j - 1 \in 1 .. n
        BY <1>2
      <3>2. PICK d : Decoded(b, f[j - 1], j - 1, d)
        BY <2>5, <3>1
      <3>3. PICK i \in 1 .. Len(b) : i = 3 * j - 2 /\ seqs[j] = EncodeGroup(b, i)
                                    /\ seqs[j] \in Seq(0 .. 63)
        BY <1>5, <3>1
      <3>4. PICK e : GroupDone(b, i, e)
        BY <3>3, GroupCollects
      <3>5. i \in 1 .. m /\ i - 1 = 3 * (j - 1) /\ i + 2 = 3 * j /\ 3 * (j - 1) <= m
        BY <1>1, <3>1, <3>3
      <3>6. PICK l \in Nat, r \in Nat : l = Len(f[j - 1]) /\ r = Len(seqs[j])
        BY <2>2, <3>1, <3>3, LenProperties
      <3>7. /\ Collects(State(0, 0, SubSeq(b, 1, 3 * (j - 1))), seqs[j], e)
            /\ 3 * j <= m => r = 4 /\ e = State(0, 0, SubSeq(b, 1, 3 * j))
            /\ 3 * j > m => e.output = b /\ r \in {2, 3}
        BY <1>1, <3>3, <3>4, <3>5, <3>6 DEF GroupDone
      <3>8. /\ f[j - 1] \in Seq(0 .. 63) /\ l % 4 = 0
            /\ Collects(Collector, f[j - 1], State(0, 0, SubSeq(b, 1, 3 * (j - 1))))
        BY <1>1, <3>2, <3>5, <3>6 DEF Decoded
      <3>9. Collects(Collector, f[j - 1] \o seqs[j], e)
        BY <3>3, <3>7, <3>8, CollectsConcat
      <3>10. f[j] = f[j - 1] \o seqs[j] /\ f[j] \in Seq(0 .. 63) /\ Len(f[j]) = l + r
        <4>1. PICK x \in Seq(0 .. 63), y \in Seq(0 .. 63) : x = f[j - 1] /\ y = seqs[j]
          BY <3>3, <3>8
        <4>2. x \o y \in Seq(0 .. 63) /\ Len(x \o y) = Len(x) + Len(y)
          BY ConcatProperties
        <4> QED
          BY <2>2, <3>1, <3>6, <4>1, <4>2
      <3>11. /\ (l + r) % 4 # 1
             /\ 3 * j <= m => (l + r) % 4 = 0
        <4>1. CASE 3 * j <= m
          BY <3>7, <3>8, <4>1
        <4>2. CASE 3 * j > m
          BY <3>7, <3>8, <4>2, SMTT(30)
        <4> QED
          BY <3>1, <4>1, <4>2
      <3>12. Decoded(b, f[j], j, e)
        BY <1>1, <3>7, <3>9, <3>10, <3>11 DEF Decoded
      <3> QED
        BY <3>1, <3>12
    <2>6. PICK d : Decoded(b, f[n], n, d)
      <3>1. n - 1 \in Nat /\ (n - 1) + 1 = n
        BY <1>2, <1>8
      <3>2. n - 1 \in Good
        <4> HIDE DEF Good
        <4> QED
          BY <2>4, <2>5, <3>1, Induction
      <3>3. (n - 1) + 1 <= n => \E d : Decoded(b, f[(n - 1) + 1], (n - 1) + 1, d)
        BY <3>2
      <3> QED
        BY <3>1, <3>3
    <2>7. d.output = b
      <3>1. CASE 3 * n > m
        BY <1>1, <2>6, <3>1 DEF Decoded
      <3>2. CASE 3 * n = m
        <4>1. d = State(0, 0, SubSeq(b, 1, 3 * n))
          <5>1. 3 * n <= Len(b)
            BY <1>1, <3>2
          <5> QED
            BY <2>6, <5>1 DEF Decoded
        <4>2. SubSeq(b, 1, 3 * n) = b
          BY <1>1, <3>2, SubSeqFull
        <4> QED
          BY <4>1, <4>2 DEF State
      <3> QED
        BY <1>2, <3>1, <3>2
    <2>8. /\ f[n] \in Seq(0 .. 63) /\ Len(f[n]) % 4 # 1
          /\ FoldLeft(Collect, Collector, f[n]) = d
      BY <2>6, FoldCollects DEF Decoded
    <2>9. IsBase64(f[n])
      <3>1. \A i \in DOMAIN f[n] : f[n][i] \in 0 .. 63
        BY <2>8, LenProperties, ElementOfSeq
      <3> QED
        BY <2>8, <3>1 DEF IsBase64
    <2> QED
      BY <1>4, <2>2, <2>7, <2>8, <2>9 DEF Base64Decode
  <1> QED
    BY <1>7, <1>8

-----------------------------------------------------------------------------
(* std::views::split at one symbol.                                        *)

(* p holds the pieces of the ends of t: p[i] are those of t from i on.     *)
IsSplit(p, t, c, S) ==
    /\ p \in [1 .. Len(t) + 1 -> Seq(Seq(S)) \ {<<>>}]
    /\ p[Len(t) + 1] = << <<>> >>
    /\ \A i \in 1 .. Len(t) :
          p[i] = IF t[i] = c THEN Cons(<<>>, p[i + 1])
                 ELSE Cons(<<t[i]>> \o Head(p[i + 1]), Tail(p[i + 1]))
    /\ Split(t, <<c>>) = p[1]

(* A delimiter of one symbol occurs where that symbol is.                  *)
LEMMA OccursOne ==
    ASSUME NEW S, NEW t \in Seq(S), NEW c, NEW i \in 1 .. Len(t)
    PROVE  OccursAt(t, <<c>>, i) <=> t[i] = c
  <1>1. PICK n \in Nat : n = Len(t)
    BY LenProperties
  <1>2. Len(<<c>>) = 1 /\ i + 1 - 1 = i /\ i <= n
    BY <1>1
  <1>3. SubSeq(t, i, i) = <<t[i]>>
    <2>1. t[i] \in S
      BY ElementOfSeq
    <2>2. i \in Int /\ \A k \in i .. i : t[k] \in S
      BY <1>1, <2>1
    <2>3. /\ SubSeq(t, i, i) \in Seq(S)
          /\ Len(SubSeq(t, i, i)) = IF i <= i THEN i - i + 1 ELSE 0
          /\ \A k \in 1 .. i - i + 1 : SubSeq(t, i, i)[k] = t[i + k - 1]
      BY <2>2, SubSeqProperties
    <2>4. i - i + 1 = 1 /\ i <= i /\ i + 1 - 1 = i
      BY <1>1
    <2>5. Len(SubSeq(t, i, i)) = 1 /\ SubSeq(t, i, i)[1] = t[i]
      BY <2>3, <2>4
    <2>6. <<t[i]>> \in Seq(S) /\ Len(<<t[i]>>) = 1 /\ <<t[i]>>[1] = t[i]
      BY <2>1
    <2>7. \A k \in 1 .. 1 : SubSeq(t, i, i)[k] = <<t[i]>>[k]
      BY <2>5, <2>6
    <2> QED
      BY <2>3, <2>5, <2>6, <2>7, SeqEqual
  <1>4. <<t[i]>> = <<c>> <=> t[i] = c
    OBVIOUS
  <1> QED
    BY <1>1, <1>2, <1>3, <1>4 DEF OccursAt

(* Cons puts a piece before the others, where Head and Tail find them.     *)
LEMMA Joined ==
    ASSUME NEW S, NEW x \in Seq(S), NEW r \in Seq(Seq(S))
    PROVE  /\ Cons(x, r) \in Seq(Seq(S)) \ {<<>>}
           /\ Head(Cons(x, r)) = x /\ Tail(Cons(x, r)) = r
  <1>1. <<x>> \in Seq(Seq(S)) /\ Len(<<x>>) = 1 /\ <<x>>[1] = x
    OBVIOUS
  <1>2. PICK n \in Nat : n = Len(r)
    BY LenProperties
  <1>3. PICK u : u = <<x>> \o r
    OBVIOUS
  <1>4. /\ u \in Seq(Seq(S)) /\ Len(u) = 1 + n
        /\ \A i \in 1 .. 1 + n : u[i] = IF i <= 1 THEN <<x>>[i] ELSE r[i - 1]
    BY <1>1, <1>2, <1>3, ConcatProperties
  <1>5. u # <<>>
    BY <1>4, EmptySeq
  <1>6. u[1] = x
    BY <1>1, <1>4
  <1>7. Head(u) = x
    BY <1>4, <1>5, <1>6
  <1>8. /\ Tail(u) \in Seq(Seq(S)) /\ Len(Tail(u)) = Len(u) - 1
        /\ \A i \in 1 .. Len(Tail(u)) : Tail(u)[i] = u[i + 1]
    BY <1>4, <1>5, HeadTailProperties
  <1>9. Len(Tail(u)) = n
    BY <1>4, <1>8
  <1>10. \A i \in 1 .. n : Tail(u)[i] = r[i]
    <2> SUFFICES ASSUME NEW i \in 1 .. n PROVE Tail(u)[i] = r[i]
      OBVIOUS
    <2>1. i + 1 \in 1 .. 1 + n /\ ~(i + 1 <= 1) /\ (i + 1) - 1 = i
      OBVIOUS
    <2>2. u[i + 1] = r[(i + 1) - 1]
      BY <1>4, <2>1
    <2> QED
      BY <1>8, <1>9, <2>1, <2>2
  <1>11. Tail(u) = r
    BY <1>2, <1>8, <1>9, <1>10, SeqEqual
  <1> QED
    BY <1>3, <1>4, <1>5, <1>7, <1>11 DEF Cons

(* Split goes through the pieces of each end of the text.                  *)
LEMMA SplitSteps ==
    ASSUME NEW S, NEW t \in Seq(S), NEW c
    PROVE  \E p : IsSplit(p, t, c, S)
  <1> DEFINE T == Seq(Seq(S)) \ {<<>>}
             Grow(x, i) == IF t[i] = c THEN Cons(<<>>, x)
                           ELSE Cons(<<t[i]>> \o Head(x), Tail(x))
             Is(p) == p = [i \in 1 .. Len(t) + 1 |->
                             IF i > Len(t) THEN << <<>> >>
                             ELSE IF OccursAt(t, <<c>>, i)
                               THEN << <<>> >> \o p[i + Len(<<c>>)]
                             ELSE LET rest == p[i + 1]
                                  IN  << <<t[i]>> \o Head(rest) >> \o Tail(rest)]
             pieces == CHOOSE p : Is(p)
  <1>1. PICK n \in Nat : n = Len(t)
    BY LenProperties
  <1>2. << <<>> >> \in T
    OBVIOUS
  <1>3. ASSUME NEW x \in T, NEW i \in 1 .. n PROVE Grow(x, i) \in T
    <2>1. Head(x) \in Seq(S) /\ Tail(x) \in Seq(Seq(S))
      BY HeadTailProperties
    <2>2. <<>> \in Seq(S) /\ x \in Seq(Seq(S))
      OBVIOUS
    <2>3. <<t[i]>> \o Head(x) \in Seq(S)
      <3>1. <<t[i]>> \in Seq(S)
        BY <1>1, ElementOfSeq
      <3> QED
        BY <2>1, <3>1, ConcatProperties
    <2>4. Cons(<<>>, x) \in T
      BY <2>2, Joined
    <2>5. Cons(<<t[i]>> \o Head(x), Tail(x)) \in T
      BY <2>1, <2>3, Joined
    <2> QED
      BY <2>4, <2>5
  <1> DEFINE O == [q \in T \X (1 .. n) |-> Grow(q[1], n + 1 - q[2])]
  <1>4. O \in [T \X (1 .. n) -> T]
    <2>1. ASSUME NEW q \in T \X (1 .. n) PROVE O[q] \in T
      <3>1. q[1] \in T /\ n + 1 - q[2] \in 1 .. n
        OBVIOUS
      <3> HIDE DEF T, Grow
      <3> QED
        BY <1>3, <3>1
    <2> HIDE DEF T, Grow
    <2> QED
      BY <2>1
  <1>5. PICK g : IsChain(g, n, T, << <<>> >>, O)
    <2> HIDE DEF O, T
    <2> QED
      BY <1>2, <1>4, ChainExists
  <1>6. PICK h : h = [i \in 1 .. n + 1 |-> g[n + 1 - i]]
    OBVIOUS
  <1>7. h[n + 1] = << <<>> >>
    <2>1. n + 1 \in 1 .. n + 1 /\ n + 1 - (n + 1) = 0
      OBVIOUS
    <2> QED
      BY <1>5, <1>6, <2>1 DEF IsChain
  <1>8. ASSUME NEW i \in 1 .. n PROVE h[i] = Grow(h[i + 1], i)
    <2>1. PICK k \in 1 .. n : k = n + 1 - i /\ k - 1 = n + 1 - (i + 1) /\ n + 1 - k = i
                              /\ k - 1 \in 0 .. n
      OBVIOUS
    <2>2. h[i] = g[k] /\ h[i + 1] = g[k - 1]
      BY <1>6, <2>1
    <2>3. g[k - 1] \in T /\ g[k] = O[<<g[k - 1], k>>]
      BY <1>5, <2>1 DEF IsChain
    <2> HIDE DEF T, Grow
    <2>4. O[<<g[k - 1], k>>] = Grow(g[k - 1], n + 1 - k)
      BY <2>3
    <2> HIDE DEF O
    <2> QED
      BY <2>1, <2>2, <2>3, <2>4
  <1>9. \A i \in 1 .. n : OccursAt(t, <<c>>, i) <=> t[i] = c
    BY <1>1, OccursOne
  <1>10. Len(<<c>>) = 1
    OBVIOUS
  <1>11. Is(h)
    <2>1. ASSUME NEW i \in 1 .. n + 1
          PROVE  h[i] = IF i > Len(t) THEN << <<>> >>
                        ELSE IF OccursAt(t, <<c>>, i) THEN << <<>> >> \o h[i + Len(<<c>>)]
                        ELSE << <<t[i]>> \o Head(h[i + 1]) >> \o Tail(h[i + 1])
      <3>1. CASE i = n + 1
        <4>1. i > Len(t)
          BY <1>1, <3>1
        <4> QED
          BY <1>7, <3>1, <4>1
      <3>2. CASE i # n + 1
        <4>1. i \in 1 .. n /\ ~(i > Len(t))
          BY <1>1, <3>2
        <4> QED
          BY <1>8, <1>9, <1>10, <4>1 DEF Cons
      <3> QED
        BY <3>1, <3>2
    <2> QED
      BY <1>1, <1>6, <2>1
  <1>12. Is(pieces)
    <2> HIDE DEF Is
    <2> QED
      BY <1>11
  <1>13. Split(t, <<c>>) = pieces[1]
    BY DEF Split
  <1> HIDE DEF pieces
  <1>14. ASSUME NEW i \in 1 .. n + 1
         PROVE  pieces[i] = IF i > Len(t) THEN << <<>> >>
                        ELSE IF OccursAt(t, <<c>>, i) THEN << <<>> >> \o pieces[i + Len(<<c>>)]
                        ELSE << <<t[i]>> \o Head(pieces[i + 1]) >> \o Tail(pieces[i + 1])
    <2>1. i \in 1 .. Len(t) + 1
      BY <1>1
    <2> QED
      BY <1>12, <2>1, Zenon
  <1>15. pieces[n + 1] = << <<>> >>
    <2>1. n + 1 \in 1 .. n + 1 /\ n + 1 > Len(t)
      BY <1>1
    <2> QED
      BY <1>14, <2>1
  <1>16. ASSUME NEW i \in 1 .. n PROVE pieces[i] = Grow(pieces[i + 1], i)
    <2>1. i \in 1 .. n + 1 /\ ~(i > Len(t))
      BY <1>1
    <2> QED
      BY <1>9, <1>10, <1>14, <2>1 DEF Cons
  <1>17. \A k \in Nat : k <= n => pieces[n + 1 - k] \in T
    <2> DEFINE Good == {k \in Nat : k <= n => pieces[n + 1 - k] \in T}
    <2>1. 0 \in Good
      <3>1. n + 1 - 0 = n + 1
        OBVIOUS
      <3> QED
        BY <1>2, <1>15, <3>1
    <2>2. ASSUME NEW k \in Nat, k \in Good PROVE k + 1 \in Good
      <3>1. CASE k + 1 <= n
        <4>1. PICK i \in 1 .. n : i = n + 1 - (k + 1) /\ i + 1 = n + 1 - k
          BY <3>1
        <4>2. pieces[i + 1] \in T
          BY <2>2, <3>1, <4>1
        <4> HIDE DEF Grow, T
        <4>3. pieces[i] \in T
          BY <1>3, <1>16, <4>2
        <4> QED
          BY <4>1, <4>3
      <3> QED
        BY <3>1
    <2> HIDE DEF Good
    <2>3. \A k \in Nat : k \in Good
      BY <2>1, <2>2, Induction
    <2> QED
      BY <2>3 DEF Good
  <1>18. pieces \in [1 .. n + 1 -> T]
    <2>1. ASSUME NEW i \in 1 .. n + 1 PROVE pieces[i] \in T
      <3>1. PICK k \in Nat : k <= n /\ n + 1 - k = i
        <4>1. n + 1 - i \in Nat /\ n + 1 - i <= n /\ n + 1 - (n + 1 - i) = i
          OBVIOUS
        <4> QED
          BY <4>1
      <3>2. k <= n => pieces[n + 1 - k] \in T
        BY <1>17
      <3> QED
        BY <3>1, <3>2
    <2>2. pieces = [i \in 1 .. n + 1 |-> pieces[i]]
      BY <1>1, <1>12
    <2> HIDE DEF T
    <2> QED
      BY <2>1, <2>2
  <1>19. IsSplit(pieces, t, c, S)
    BY <1>1, <1>13, <1>15, <1>16, <1>18 DEF IsSplit
  <1> QED
    BY <1>19

(* A stretch of a sequence is its first and the rest of it.                *)
LEMMA PrefixShrinks ==
    ASSUME NEW S, NEW t \in Seq(S), NEW a \in 1 .. Len(t), NEW e \in a .. Len(t)
    PROVE  /\ SubSeq(t, a + 1, e) \in Seq(S)
           /\ <<t[a]>> \o SubSeq(t, a + 1, e) = SubSeq(t, a, e)
  <1>1. PICK n \in Nat : n = Len(t)
    BY LenProperties
  <1>2. a + 1 \in Int /\ e \in Int /\ \A k \in a + 1 .. e : t[k] \in S
    BY <1>1, ElementOfSeq
  <1>3. SubSeq(t, a + 1, e) \in Seq(S)
    BY <1>2, SubSeqProperties
  <1>4. SubSeq(t, a, e) = <<t[a]>> \o SubSeq(t, a + 1, e)
    BY SubSeqRecursiveFirst
  <1> QED
    BY <1>3, <1>4

(* c is not among the first e of t.                                        *)
RunFree(t, c, e) == \A i \in 1 .. e : t[i] # c

(* Where c does not occur, pieces only grow.                               *)
LEMMA SplitRun ==
    ASSUME NEW S, NEW t \in Seq(S), NEW c, NEW p, IsSplit(p, t, c, S),
           NEW e \in 0 .. Len(t), RunFree(t, c, e),
           NEW r \in Seq(Seq(S)), p[e + 1] = Cons(<<>>, r)
    PROVE  p[1] = Cons(SubSeq(t, 1, e), r)
  <1>1. PICK n \in Nat : n = Len(t)
    BY LenProperties
  <1>2. e \in Nat /\ e <= n
    BY <1>1
  <1> DEFINE Good == {k \in Nat : k <= e => p[e + 1 - k] = Cons(SubSeq(t, e + 1 - k, e), r)}
  <1>3. 0 \in Good
    <2>1. e + 1 - 0 = e + 1 /\ e < e + 1 /\ e \in Int /\ e + 1 \in Int
      BY <1>2
    <2>2. SubSeq(t, e + 1, e) = <<>>
      BY <2>1, SubSeqEmpty
    <2> QED
      BY <2>1, <2>2
  <1>4. ASSUME NEW k \in Nat, k \in Good PROVE k + 1 \in Good
    <2>7. k + 1 \in Nat
      OBVIOUS
    <2> SUFFICES ASSUME k + 1 <= e
                 PROVE  p[e + 1 - (k + 1)] = Cons(SubSeq(t, e + 1 - (k + 1), e), r)
      BY <2>7, Zenon
    <2>1. PICK i \in 1 .. n : /\ i = e + 1 - (k + 1) /\ i + 1 = e + 1 - k
                              /\ i \in 1 .. e /\ e \in i .. Len(t)
      BY <1>1, <1>2
    <2>8. t[i] # c
      BY <2>1 DEF RunFree
    <2>2. PICK w : w = SubSeq(t, i + 1, e)
      OBVIOUS
    <2>3. w \in Seq(S) /\ <<t[i]>> \o w = SubSeq(t, i, e)
      BY <1>1, <2>1, <2>2, PrefixShrinks
    <2>4. p[i + 1] = Cons(w, r)
      <3>1. k <= e
        BY <1>2
      <3>2. p[e + 1 - k] = Cons(SubSeq(t, e + 1 - k, e), r)
        BY <1>4, <3>1, Zenon
      <3> QED
        BY <2>1, <2>2, <3>2
    <2>5. Head(p[i + 1]) = w /\ Tail(p[i + 1]) = r
      <3>1. Head(Cons(w, r)) = w /\ Tail(Cons(w, r)) = r
        BY <2>3, Joined, SMT
      <3> QED
        BY <2>4, <3>1
    <2>6. p[i] = Cons(<<t[i]>> \o Head(p[i + 1]), Tail(p[i + 1]))
      BY <1>1, <2>1, <2>8 DEF IsSplit
    <2> QED
      BY <2>1, <2>3, <2>5, <2>6
  <1>5. e \in Good
    <2> HIDE DEF Good
    <2> QED
      BY <1>2, <1>3, <1>4, Induction
  <1>6. e + 1 - e = 1 /\ e <= e
    BY <1>2
  <1> QED
    BY <1>5, <1>6

(* A text the delimiter is not in is one piece.                            *)
LEMMA SplitPlain ==
    ASSUME NEW S, NEW t \in Seq(S), NEW c, RunFree(t, c, Len(t))
    PROVE  Split(t, <<c>>) = <<t>>
  <1>1. PICK p : IsSplit(p, t, c, S)
    BY SplitSteps
  <1>2. PICK n \in Nat : n = Len(t)
    BY LenProperties
  <1>3. p[n + 1] = Cons(<<>>, <<>>)
    <2>1. p[n + 1] = << <<>> >>
      BY <1>1, <1>2 DEF IsSplit
    <2>2. << <<>> >> \in Seq(Seq(S))
      OBVIOUS
    <2> QED
      BY <2>1, <2>2, ConcatEmptySeq DEF Cons
  <1>4. n \in 0 .. Len(t) /\ <<>> \in Seq(Seq(S)) /\ RunFree(t, c, n)
    BY <1>2 DEF RunFree
  <1>5. p[1] = Cons(SubSeq(t, 1, n), <<>>)
    <2>1. PICK r \in Seq(Seq(S)) : r = <<>>
      BY <1>4
    <2>2. p[1] = Cons(SubSeq(t, 1, n), r)
      <3>1. p[n + 1] = Cons(<<>>, r)
        BY <1>3, <2>1
      <3> QED
        BY <1>1, <1>4, <3>1, SplitRun
    <2> QED
      BY <2>1, <2>2
  <1>6. SubSeq(t, 1, n) = t
    BY <1>2, SubSeqFull
  <1>7. <<t>> \o <<>> = <<t>>
    <2>1. <<t>> \in Seq(Seq(S))
      OBVIOUS
    <2> QED
      BY <2>1, ConcatEmptySeq
  <1> QED
    BY <1>1, <1>5, <1>6, <1>7 DEF IsSplit, Cons

(* Two texts and the delimiter between them.                               *)
Cat(x, c, y) == (x \o <<c>>) \o y

(* The piece before the first delimiter comes off first.                   *)
LEMMA SplitAt ==
    ASSUME NEW S, NEW c \in S, NEW x \in Seq(S), NEW y \in Seq(S),
           RunFree(x, c, Len(x))
    PROVE  Split(Cat(x, c, y), <<c>>) = Cons(x, Split(y, <<c>>))
  <1>1. PICK t : t = (x \o <<c>>) \o y
    OBVIOUS
  <1>2. PICK m \in Nat, n \in Nat : m = Len(x) /\ n = Len(y)
    BY LenProperties
  <1>3. /\ t \in Seq(S) /\ Len(t) = m + 1 + n
        /\ \A i \in 1 .. m : t[i] = x[i]
        /\ t[m + 1] = c
        /\ \A i \in 1 .. n : t[m + 1 + i] = y[i]
    <2>1. <<c>> \in Seq(S) /\ Len(<<c>>) = 1 /\ <<c>>[1] = c
      OBVIOUS
    <2>2. PICK u : u = x \o <<c>>
      OBVIOUS
    <2>3. /\ u \in Seq(S) /\ Len(u) = m + 1
          /\ \A i \in 1 .. m + 1 : u[i] = IF i <= m THEN x[i] ELSE <<c>>[i - m]
      BY <1>2, <2>1, <2>2, ConcatProperties
    <2>4. /\ t \in Seq(S) /\ Len(t) = m + 1 + n
          /\ \A i \in 1 .. m + 1 + n : t[i] = IF i <= m + 1 THEN u[i] ELSE y[i - (m + 1)]
      BY <1>1, <1>2, <2>2, <2>3, ConcatProperties
    <2>5. \A i \in 1 .. m : t[i] = x[i]
      BY <2>3, <2>4
    <2>6. t[m + 1] = c
      <3>1. m + 1 \in 1 .. m + 1 /\ m + 1 \in 1 .. m + 1 + n /\ ~(m + 1 <= m) /\ m + 1 - m = 1
        OBVIOUS
      <3>2. t[m + 1] = u[m + 1] /\ u[m + 1] = <<c>>[m + 1 - m]
        BY <2>3, <2>4, <3>1
      <3> QED
        BY <2>1, <3>1, <3>2
    <2>7. ASSUME NEW i \in 1 .. n PROVE t[m + 1 + i] = y[i]
      <3>1. m + 1 + i \in 1 .. m + 1 + n /\ ~(m + 1 + i <= m + 1) /\ (m + 1 + i) - (m + 1) = i
        OBVIOUS
      <3>2. t[m + 1 + i] = y[(m + 1 + i) - (m + 1)]
        BY <2>4, <3>1
      <3> QED
        BY <3>1, <3>2
    <2> QED
      BY <2>4, <2>5, <2>6, <2>7
  <1>4. PICK p : IsSplit(p, t, c, S)
    BY <1>3, SplitSteps
  <1>5. PICK q : IsSplit(q, y, c, S)
    BY SplitSteps
  <1>6. /\ p[m + 1 + n + 1] = << <<>> >>
        /\ \A i \in 1 .. m + 1 + n :
            p[i] = IF t[i] = c THEN Cons(<<>>, p[i + 1])
                   ELSE Cons(<<t[i]>> \o Head(p[i + 1]), Tail(p[i + 1]))
        /\ Split(t, <<c>>) = p[1]
    BY <1>3, <1>4 DEF IsSplit
  <1>7. /\ q[n + 1] = << <<>> >>
        /\ \A i \in 1 .. n :
            q[i] = IF y[i] = c THEN Cons(<<>>, q[i + 1])
                   ELSE Cons(<<y[i]>> \o Head(q[i + 1]), Tail(q[i + 1]))
        /\ Split(y, <<c>>) = q[1]
        /\ q[1] \in Seq(Seq(S))
    <2>1. /\ q \in [1 .. n + 1 -> Seq(Seq(S)) \ {<<>>}]
          /\ q[n + 1] = << <<>> >>
          /\ \A i \in 1 .. n :
               q[i] = IF y[i] = c THEN Cons(<<>>, q[i + 1])
                      ELSE Cons(<<y[i]>> \o Head(q[i + 1]), Tail(q[i + 1]))
          /\ Split(y, <<c>>) = q[1]
      BY <1>2, <1>5, Zenon DEF IsSplit
    <2>2. 1 \in 1 .. n + 1
      OBVIOUS
    <2>3. q[1] \in Seq(Seq(S))
      BY <2>1, <2>2
    <2> QED
      BY <2>1, <2>3
  <1> DEFINE Good == {k \in Nat : k <= n => p[m + 1 + n + 1 - k] = q[n + 1 - k]}
  <1>8. 0 \in Good
    <2>1. m + 1 + n + 1 - 0 = m + 1 + n + 1 /\ n + 1 - 0 = n + 1
      OBVIOUS
    <2> QED
      BY <1>6, <1>7, <2>1
  <1>9. ASSUME NEW k \in Nat, k \in Good PROVE k + 1 \in Good
    <2> SUFFICES ASSUME k + 1 <= n
                 PROVE  p[m + 1 + n + 1 - (k + 1)] = q[n + 1 - (k + 1)]
      OBVIOUS
    <2>1. PICK i \in 1 .. n : i = n + 1 - (k + 1) /\ i + 1 = n + 1 - k
      OBVIOUS
    <2>2. PICK j \in 1 .. m + 1 + n : /\ j = m + 1 + n + 1 - (k + 1)
                                      /\ j + 1 = m + 1 + n + 1 - k /\ j = m + 1 + i
      BY <2>1
    <2>3. p[j + 1] = q[i + 1]
      BY <1>9, <2>1, <2>2
    <2>4. t[j] = y[i]
      BY <1>3, <2>1, <2>2
    <2>5. p[j] = q[i]
      BY <1>6, <1>7, <2>3, <2>4
    <2> QED
      BY <2>1, <2>2, <2>5
  <1>10. p[m + 1 + 1] = q[1]
    <2>1. n \in Good
      <3> HIDE DEF Good
      <3> QED
        BY <1>8, <1>9, Induction
    <2>2. m + 1 + n + 1 - n = m + 1 + 1 /\ n + 1 - n = 1 /\ n <= n
      OBVIOUS
    <2> QED
      BY <2>1, <2>2
  <1>11. p[m + 1] = Cons(<<>>, q[1])
    <2>1. m + 1 \in 1 .. m + 1 + n
      OBVIOUS
    <2> QED
      BY <1>3, <1>6, <1>10, <2>1
  <1>12. m \in 0 .. Len(t) /\ RunFree(t, c, m)
    <2>1. m \in 0 .. Len(t)
      BY <1>3
    <2>2. \A i \in 1 .. m : x[i] # c
      BY <1>2 DEF RunFree
    <2>3. RunFree(t, c, m)
      BY <1>3, <2>2 DEF RunFree
    <2> QED
      BY <2>1, <2>3
  <1>13. p[1] = Cons(SubSeq(t, 1, m), q[1])
    BY <1>3, <1>4, <1>7, <1>11, <1>12, SplitRun, SMTT(30)
  <1>14. SubSeq(t, 1, m) = x
    <2>1. m \in Int /\ 1 \in Int /\ \A i \in 1 .. m : t[i] \in S
      BY <1>2, <1>3, ElementOfSeq
    <2>2. /\ SubSeq(t, 1, m) \in Seq(S)
          /\ Len(SubSeq(t, 1, m)) = IF 1 <= m THEN m - 1 + 1 ELSE 0
          /\ \A i \in 1 .. m - 1 + 1 : SubSeq(t, 1, m)[i] = t[1 + i - 1]
      BY <2>1, SubSeqProperties
    <2>3. Len(SubSeq(t, 1, m)) = m /\ \A i \in 1 .. m : SubSeq(t, 1, m)[i] = x[i]
      BY <1>3, <2>2
    <2> QED
      BY <1>2, <2>2, <2>3, SeqEqual
  <1> QED
    BY <1>1, <1>6, <1>7, <1>13, <1>14 DEF Cat

-----------------------------------------------------------------------------
(* Pieces, and what they were joined by.                                   *)

(* Where the piece and the others are after Cons.                          *)
LEMMA ConsAt ==
    ASSUME NEW S, NEW x \in Seq(S), NEW r \in Seq(Seq(S))
    PROVE  /\ Cons(x, r) \in Seq(Seq(S)) /\ Len(Cons(x, r)) = Len(r) + 1
           /\ Cons(x, r)[1] = x
           /\ \A i \in 1 .. Len(r) : Cons(x, r)[i + 1] = r[i]
  <1>1. <<x>> \in Seq(Seq(S)) /\ Len(<<x>>) = 1 /\ <<x>>[1] = x
    OBVIOUS
  <1>2. PICK n \in Nat : n = Len(r)
    BY LenProperties
  <1>3. PICK u : u = Cons(x, r)
    OBVIOUS
  <1>4. /\ u \in Seq(Seq(S)) /\ Len(u) = 1 + n
        /\ \A i \in 1 .. 1 + n : u[i] = IF i <= 1 THEN <<x>>[i] ELSE r[i - 1]
    BY <1>1, <1>2, <1>3, ConcatProperties DEF Cons
  <1>5. u[1] = x
    <2>1. 1 \in 1 .. 1 + n /\ 1 <= 1
      OBVIOUS
    <2>2. u[1] = <<x>>[1]
      BY <1>4, <2>1
    <2> QED
      BY <1>1, <2>2
  <1>6. \A i \in 1 .. n : u[i + 1] = r[i]
    <2> SUFFICES ASSUME NEW i \in 1 .. n PROVE u[i + 1] = r[i]
      OBVIOUS
    <2>1. i + 1 \in 1 .. 1 + n /\ ~(i + 1 <= 1) /\ (i + 1) - 1 = i
      OBVIOUS
    <2>2. u[i + 1] = r[(i + 1) - 1]
      BY <1>4, <2>1
    <2> QED
      BY <2>1, <2>2
  <1>7. Len(u) = n + 1
    BY <1>4
  <1> QED
    BY <1>2, <1>3, <1>4, <1>5, <1>6, <1>7

-----------------------------------------------------------------------------
(* Symbols and their bytes.                                                *)

(* Symbols of their own bytes can be read back from them.                  *)
LEMMA BytesBack ==
    ASSUME NEW t \in Seq(DOMAIN Code)
    PROVE  Bytes(t) \in Seq(Byte) /\ Len(Bytes(t)) = Len(t) /\ Symbols(Bytes(t)) = t
  <1>1. PICK n \in Nat : n = Len(t) /\ DOMAIN t = 1 .. n
    BY LenProperties
  <1>2. \A i \in 1 .. n : t[i] \in DOMAIN Code /\ Code[t[i]] \in Byte
    <2>1. \A i \in 1 .. n : t[i] \in DOMAIN Code
      BY <1>1, ElementOfSeq
    <2>2. \A x \in DOMAIN Code : Code[x] \in 1 .. 255
      BY CodeAssumption
    <2>3. \A x \in DOMAIN Code : Code[x] \in Byte
      BY <2>2 DEF Byte
    <2> QED
      BY <2>1, <2>3
  <1>3. PICK b : b = Bytes(t)
    OBVIOUS
  <1>4. b = [i \in 1 .. n |-> Code[t[i]]]
    BY <1>1, <1>3 DEF Bytes
  <1>5. b \in Seq(Byte) /\ Len(b) = n /\ DOMAIN b = 1 .. n
    BY <1>2, <1>4
  <1>6. ASSUME NEW i \in 1 .. n
        PROVE  (CHOOSE x \in DOMAIN Code : Code[x] = b[i]) = t[i]
    <2>1. b[i] = Code[t[i]] /\ t[i] \in DOMAIN Code
      BY <1>2, <1>4
    <2>2. \A x \in DOMAIN Code : Code[x] = b[i] <=> x = t[i]
      BY <2>1, CodeAssumption
    <2> QED
      BY <2>1, <2>2
  <1>7. Symbols(b) = [i \in 1 .. n |-> t[i]]
    BY <1>5, <1>6 DEF Symbols
  <1>8. t = [i \in 1 .. n |-> t[i]]
    BY <1>1, LenProperties
  <1> QED
    BY <1>1, <1>3, <1>5, <1>7, <1>8

(* A text and one more symbol.                                             *)
Extended(x, c) == x \o <<c>>

(* Both are texts, as long as what they are made of.                       *)
LEMMA CatType ==
    ASSUME NEW S, NEW x \in Seq(S), NEW c \in S, NEW r \in Seq(S)
    PROVE  /\ Cat(x, c, r) \in Seq(S) /\ Len(Cat(x, c, r)) = Len(x) + 1 + Len(r)
           /\ Extended(x, c) \in Seq(S) /\ Len(Extended(x, c)) = Len(x) + 1
  <1>1. <<c>> \in Seq(S) /\ Len(<<c>>) = 1
    OBVIOUS
  <1>2. x \o <<c>> \in Seq(S) /\ Len(x \o <<c>>) = Len(x) + 1
    BY <1>1, ConcatProperties
  <1>3. (x \o <<c>>) \o r \in Seq(S) /\ Len((x \o <<c>>) \o r) = Len(x) + 1 + Len(r)
    BY <1>2, ConcatProperties
  <1> QED
    BY <1>2, <1>3 DEF Cat, Extended

(* Delimited texts are put together in any order.                          *)
LEMMA Regrouped ==
    ASSUME NEW S, NEW c \in S, NEW x \in Seq(S), NEW y \in Seq(S), NEW z \in Seq(S)
    PROVE  Cat(Cat(x, c, y), c, z) = Cat(x, c, Cat(y, c, z))
  <1>1. <<c>> \in Seq(S)
    OBVIOUS
  <1>2. PICK v \in Seq(S) : v = x \o <<c>>
    BY CatType DEF Extended
  <1>3. PICK u \in Seq(S) : u = y \o <<c>>
    BY CatType DEF Extended
  <1>4. (v \o y) \o <<c>> = v \o (y \o <<c>>)
    BY <1>1, ConcatAssociative, SMTT(30)
  <1>5. (v \o u) \o z = v \o (u \o z)
    BY ConcatAssociative, SMTT(30)
  <1>6. ((v \o y) \o <<c>>) \o z = v \o (u \o z)
    BY <1>3, <1>4, <1>5, Zenon
  <1> QED
    BY <1>2, <1>3, <1>6, Zenon DEF Cat

(* The pieces of a text, with what they were joined by.                    *)
LEMMA SplitThree ==
    ASSUME NEW S, NEW c \in S,
           NEW x \in Seq(S), NEW y \in Seq(S), NEW z \in Seq(S),
           RunFree(x, c, Len(x)), RunFree(y, c, Len(y)), RunFree(z, c, Len(z)),
           NEW t, t = Cat(Cat(x, c, y), c, z)
    PROVE  /\ Len(Split(t, <<c>>)) = 3
           /\ Split(t, <<c>>)[1] = x /\ Split(t, <<c>>)[2] = y
  <1>1. PICK v \in Seq(S) : v = Cat(y, c, z)
    BY CatType
  <1>2. t = Cat(x, c, v)
    BY <1>1, Regrouped
  <1>3. PICK w : w = <<z>>
    OBVIOUS
  <1>4. w \in Seq(Seq(S))
    BY <1>3
  <1>5. Split(z, <<c>>) = w
    BY <1>3, SplitPlain
  <1>6. PICK r : r = Cons(y, w)
    OBVIOUS
  <1>7. Split(v, <<c>>) = r
    BY <1>1, <1>5, <1>6, SplitAt
  <1>8. Split(t, <<c>>) = Cons(x, r)
    BY <1>2, <1>7, SplitAt
  <1>9. r \in Seq(Seq(S))
    BY <1>4, <1>6, ConsAt
  <1>10. Len(r) = 2 /\ r[1] = y
    <2>1. Len(Cons(y, w)) = Len(w) + 1 /\ Cons(y, w)[1] = y
      BY <1>4, ConsAt
    <2>2. Len(w) = 1
      BY <1>3
    <2> QED
      BY <1>6, <2>1, <2>2
  <1>11. Len(Cons(x, r)) = Len(r) + 1 /\ Cons(x, r)[1] = x
    BY <1>9, ConsAt
  <1>12. Cons(x, r)[1 + 1] = r[1]
    <2>1. 1 \in 1 .. Len(r)
      BY <1>10
    <2> QED
      BY <1>9, <2>1, ConsAt
  <1> QED
    BY <1>8, <1>10, <1>11, <1>12

(* The same of one of them.                                                *)
LEMMA ConsNext ==
    ASSUME NEW S, NEW x \in Seq(S), NEW r \in Seq(Seq(S)),
           NEW i \in 1 .. Len(r)
    PROVE  Cons(x, r)[i + 1] = r[i]
  <1>1. /\ Cons(x, r) \in Seq(Seq(S)) /\ Len(Cons(x, r)) = Len(r) + 1
        /\ Cons(x, r)[1] = x
        /\ \A k \in 1 .. Len(r) : Cons(x, r)[k + 1] = r[k]
    BY ConsAt
  <1> QED
    BY <1>1

(* Split finds five pieces in t.                                           *)
HasFive(t, v, w, x, y, z, c) ==
    /\ Len(t) # 0
    /\ Len(Split(t, <<c>>)) = 5
    /\ Split(t, <<c>>)[1] = v /\ Split(t, <<c>>)[2] = w
    /\ Split(t, <<c>>)[3] = x /\ Split(t, <<c>>)[4] = y
    /\ Split(t, <<c>>)[5] = z

(* Five texts with delimiters between them, as the claims of a payload,    *)
(* are found again.                                                        *)
LEMMA FiveParts ==
    ASSUME NEW S, NEW c \in S,
           NEW v \in Seq(S), NEW w \in Seq(S), NEW x \in Seq(S),
           NEW y \in Seq(S), NEW z \in Seq(S),
           RunFree(v, c, Len(v)), RunFree(w, c, Len(w)), RunFree(x, c, Len(x)),
           RunFree(y, c, Len(y)), RunFree(z, c, Len(z))
    PROVE  /\ Cat(Cat(Cat(Cat(v, c, w), c, x), c, y), c, z) \in Seq(S)
           /\ HasFive(Cat(Cat(Cat(Cat(v, c, w), c, x), c, y), c, z), v, w, x, y, z, c)
  <1>25. PICK t : t = Cat(Cat(Cat(Cat(v, c, w), c, x), c, y), c, z)
    OBVIOUS
  <1>1. PICK a1 \in Seq(S) : a1 = Cat(v, c, w)
    BY CatType
  <1>2. PICK a2 \in Seq(S) : a2 = Cat(a1, c, x)
    BY CatType
  <1>3. PICK b3 \in Seq(S) : b3 = Cat(y, c, z)
    BY CatType
  <1>4. PICK b2 \in Seq(S) : b2 = Cat(x, c, b3)
    BY CatType
  <1>5. PICK b1 \in Seq(S) : b1 = Cat(w, c, b2)
    BY CatType
  <1>6. t = Cat(a2, c, b3)
    BY <1>25, <1>1, <1>2, <1>3, Regrouped
  <1>7. t = Cat(a1, c, b2)
    BY <1>2, <1>4, <1>6, Regrouped
  <1>8. t = Cat(v, c, b1)
    BY <1>1, <1>5, <1>7, Regrouped
  <1>9. PICK r5 : r5 = <<z>>
    OBVIOUS
  <1>10. r5 \in Seq(Seq(S)) /\ Len(r5) = 1 /\ r5[1] = z
    BY <1>9
  <1>11. Split(z, <<c>>) = r5
    BY <1>9, SplitPlain
  <1>12. PICK r4 : r4 = Cons(y, r5)
    OBVIOUS
  <1>13. Split(b3, <<c>>) = r4
    BY <1>3, <1>11, <1>12, SplitAt
  <1>14. PICK r3 : r3 = Cons(x, r4)
    OBVIOUS
  <1>15. Split(b2, <<c>>) = r3
    BY <1>4, <1>13, <1>14, SplitAt
  <1>16. PICK r2 : r2 = Cons(w, r3)
    OBVIOUS
  <1>17. Split(b1, <<c>>) = r2
    BY <1>5, <1>15, <1>16, SplitAt
  <1>18. PICK r1 : r1 = Cons(v, r2)
    OBVIOUS
  <1>19. Split(t, <<c>>) = r1
    BY <1>8, <1>17, <1>18, SplitAt
  <1>20. /\ r4 \in Seq(Seq(S)) /\ Len(r4) = 2
         /\ r4[1] = y /\ r4[2] = z
    <2>1. r5 \in Seq(Seq(S))
      BY <1>10
    <2>2. r4 \in Seq(Seq(S))
      BY <2>1, <1>12, ConsAt
    <2>3. Len(r4) = Len(r5) + 1
      BY <2>1, <1>12, ConsAt
    <2>4. r4[1] = y
      BY <2>1, <1>12, ConsAt
    <2>5. \A i \in 1 .. Len(r5) : r4[i + 1] = r5[i]
      BY <2>1, <1>12, ConsNext
    <2>6. r4[1 + 1] = r5[1]
      BY <1>10, <2>5
    <2> QED
      BY <1>10, <2>2, <2>3, <2>4, <2>6
  <1>21. /\ r3 \in Seq(Seq(S)) /\ Len(r3) = 3
         /\ r3[1] = x /\ r3[2] = y /\ r3[3] = z
    <2>1. r4 \in Seq(Seq(S))
      BY <1>20
    <2>2. r3 \in Seq(Seq(S))
      BY <2>1, <1>14, ConsAt
    <2>3. Len(r3) = Len(r4) + 1
      BY <2>1, <1>14, ConsAt
    <2>4. r3[1] = x
      BY <2>1, <1>14, ConsAt
    <2>5. \A i \in 1 .. Len(r4) : r3[i + 1] = r4[i]
      BY <2>1, <1>14, ConsNext
    <2>6. r3[1 + 1] = r4[1] /\ r3[2 + 1] = r4[2]
      BY <1>20, <2>5
    <2> QED
      BY <1>20, <2>2, <2>3, <2>4, <2>6
  <1>22. /\ r2 \in Seq(Seq(S)) /\ Len(r2) = 4
         /\ r2[1] = w /\ r2[2] = x /\ r2[3] = y /\ r2[4] = z
    <2>1. r3 \in Seq(Seq(S))
      BY <1>21
    <2>2. r2 \in Seq(Seq(S))
      BY <2>1, <1>16, ConsAt
    <2>3. Len(r2) = Len(r3) + 1
      BY <2>1, <1>16, ConsAt
    <2>4. r2[1] = w
      BY <2>1, <1>16, ConsAt
    <2>5. \A i \in 1 .. Len(r3) : r2[i + 1] = r3[i]
      BY <2>1, <1>16, ConsNext
    <2>6. r2[1 + 1] = r3[1] /\ r2[2 + 1] = r3[2] /\ r2[3 + 1] = r3[3]
      BY <1>21, <2>5
    <2> QED
      BY <1>21, <2>2, <2>3, <2>4, <2>6
  <1>23. /\ r1 \in Seq(Seq(S)) /\ Len(r1) = 5
         /\ r1[1] = v /\ r1[2] = w /\ r1[3] = x /\ r1[4] = y /\ r1[5] = z
    <2>1. r2 \in Seq(Seq(S))
      BY <1>22
    <2>2. r1 \in Seq(Seq(S))
      BY <2>1, <1>18, ConsAt
    <2>3. Len(r1) = Len(r2) + 1
      BY <2>1, <1>18, ConsAt
    <2>4. r1[1] = v
      BY <2>1, <1>18, ConsAt
    <2>5. \A i \in 1 .. Len(r2) : r1[i + 1] = r2[i]
      BY <2>1, <1>18, ConsNext
    <2>6. r1[1 + 1] = r2[1] /\ r1[2 + 1] = r2[2] /\ r1[3 + 1] = r2[3] /\ r1[4 + 1] = r2[4]
      BY <1>22, <2>5
    <2> QED
      BY <1>22, <2>2, <2>3, <2>4, <2>6
  <1>24. t \in Seq(S) /\ Len(t) # 0
    <2>1. t \in Seq(S) /\ Len(t) = Len(v) + 1 + Len(b1)
      BY <1>8, CatType
    <2>2. Len(v) \in Nat /\ Len(b1) \in Nat
      BY LenProperties
    <2> QED
      BY <2>1, <2>2
  <1> QED
    BY <1>19, <1>23, <1>24, <1>25, Zenon DEF HasFive

-----------------------------------------------------------------------------
(* The payload and the parts of a token.                                   *)

(* A sequence over a set is one over a larger set.                         *)
LEMMA WiderSeq ==
    ASSUME NEW A, NEW B, A \subseteq B, NEW s \in Seq(A)
    PROVE  s \in Seq(B)
  OBVIOUS

(* What is not in the set does not occur in a sequence over it.            *)
LEMMA Unlike ==
    ASSUME NEW A, NEW c, c \notin A, NEW s \in Seq(A)
    PROVE  RunFree(s, c, Len(s))
  BY ElementOfSeq DEF RunFree

(* What SubSeq takes after the delimiter is the second text.               *)
EndsIn(x, c, y) == SubSeq(Cat(x, c, y), Len(x) + 2, Len(Cat(x, c, y))) = y

(* Whatever the texts.                                                     *)
LEMMA RestOfCat ==
    ASSUME NEW S, NEW c \in S, NEW x \in Seq(S), NEW y \in Seq(S)
    PROVE  EndsIn(x, c, y)
  <1>1. PICK m \in Nat : m = Len(x)
    BY LenProperties
  <1>2. PICK u \in Seq(S) : u = x \o <<c>> /\ Len(u) = m + 1
    BY <1>1, CatType DEF Extended
  <1>3. SubSeq(u \o y, Len(u) + 1, Len(u \o y)) = y
    BY SubSeqOfConcat2
  <1>4. Len(u) + 1 = Len(x) + 2
    BY <1>1, <1>2
  <1> QED
    BY <1>2, <1>3, <1>4 DEF Cat, EndsIn

(* Unescape goes through a state of the reader for each symbol.            *)
Unescaping(g, n, t) ==
    /\ g[0] = Tokener
    /\ \A i \in 1 .. n : g[i] = ReadSymbol(g[i - 1], t[i])
    /\ Unescape(t) = g[n]

LEMMA UnescapeSteps ==
    ASSUME NEW n \in Nat, NEW t, DOMAIN t = 1 .. n, NEW T, Tokener \in T,
           \A x \in T : \A i \in 1 .. n : ReadSymbol(x, t[i]) \in T
    PROVE  \E g : Unescaping(g, n, t)
  <1> DEFINE Next1(x, i) == ReadSymbol(x, t[i])
             O == [p \in T \X (1 .. n) |-> Next1(p[1], p[2])]
             Is(f) == f = [s \in SUBSET (DOMAIN t) |->
                             IF s = {} THEN Tokener ELSE Next1(f[s \ {Max(s)}], Max(s))]
             iter == CHOOSE f : Is(f)
             g == [i \in 0 .. n |-> iter[1 .. i]]
  <1>1. Unescape(t) = iter[DOMAIN t]
    BY DEF FoldLeft, MapThenFoldSet, Unescape
  <1>2. \A x \in T : \A i \in 1 .. n : Next1(x, i) \in T
    OBVIOUS
  <1>3. \A x, i : Next1(x, i) = ReadSymbol(x, t[i])
    OBVIOUS
  <1> HIDE DEF Next1
  <1>4. O \in [T \X (1 .. n) -> T]
    BY <1>2
  <1>5. PICK f : IsFold(f, n, T, Tokener, O)
    <2> HIDE DEF O
    <2> QED
      BY <1>4, FoldExists
  <1>6. Is(f)
    <2>1. ASSUME NEW s \in SUBSET (1 .. n), s # {}
          PROVE  f[s] = Next1(f[s \ {Max(s)}], Max(s))
      <3>1. Max(s) \in 1 .. n
        BY <2>1, LargestOf
      <3>2. <<f[s \ {Max(s)}], Max(s)>> \in T \X (1 .. n)
        <4>1. f[s \ {Max(s)}] \in T
          BY <1>5, <2>1 DEF IsFold
        <4> QED
          BY <3>1, <4>1
      <3> QED
        BY <1>5, <2>1, <3>2 DEF IsFold
    <2> QED
      BY <1>5, <2>1 DEF IsFold
  <1>7. Is(iter)
    <2> HIDE DEF Is
    <2> QED
      BY <1>6
  <1> HIDE DEF iter
  <1>8. g[0] = Tokener
    <2>1. 1 .. 0 = {} /\ {} \in SUBSET (DOMAIN t)
      OBVIOUS
    <2> QED
      BY <1>7, <2>1
  <1>9. ASSUME NEW i \in 1 .. n PROVE g[i] = ReadSymbol(g[i - 1], t[i])
    <2>1. iter[1 .. i] = Next1(iter[(1 .. i) \ {Max(1 .. i)}], Max(1 .. i))
      BY <1>7, Segments
    <2>2. iter[1 .. i] = Next1(iter[1 .. (i - 1)], i)
      BY <2>1, Segments
    <2> QED
      BY <1>3, <2>2
  <1>10. Unescape(t) = g[n]
    BY <1>1
  <1> HIDE DEF g
  <1>11. Unescaping(g, n, t)
    BY <1>8, <1>9, <1>10 DEF Unescaping
  <1> QED
    BY <1>11

(* A reader that has met no backslash.                                     *)
Reader(S) == [escape : {FALSE}, ok : {TRUE}, text : Seq(S)]

LEMMA PlainRead ==
    ASSUME NEW S, Backslash \notin S, NEW r \in Reader(S), NEW x \in S
    PROVE  ReadSymbol(r, x) \in Reader(S) /\ ReadSymbol(r, x).text = Append(r.text, x)
  <1>1. r.escape = FALSE /\ r.ok = TRUE /\ r.text \in Seq(S)
    BY DEF Reader
  <1>2. x # Backslash
    OBVIOUS
  <1>3. PICK u \in Seq(S) : u = Append(r.text, x)
    BY <1>1, AppendProperties
  <1>4. ReadSymbol(r, x) = [r EXCEPT !.text = u]
    BY <1>1, <1>2, <1>3 DEF ReadSymbol
  <1>5. [r EXCEPT !.text = u] \in Reader(S) /\ [r EXCEPT !.text = u].text = u
    BY DEF Reader
  <1> QED
    BY <1>3, <1>4, <1>5

(* Where there is no backslash, the reader changes nothing.                *)
LEMMA UnescapePlain ==
    ASSUME NEW S, Backslash \notin S, NEW t \in Seq(S)
    PROVE  Unescape(t).ok /\ Unescape(t).text = t
  <1>1. PICK n \in Nat : n = Len(t) /\ DOMAIN t = 1 .. n
    BY LenProperties
  <1>2. \A i \in 1 .. n : t[i] \in S
    BY <1>1, ElementOfSeq
  <1>3. Tokener \in Reader(S) /\ Tokener.text = <<>>
    BY DEF Tokener, Reader
  <1>4. \A r \in Reader(S) : \A i \in 1 .. n : ReadSymbol(r, t[i]) \in Reader(S)
    BY <1>2, PlainRead
  <1>5. PICK g : Unescaping(g, n, t)
    BY <1>1, <1>3, <1>4, UnescapeSteps
  <1> DEFINE Has(k) == /\ g[k] \in Reader(S)
                       /\ Len(g[k].text) = k
                       /\ \A i \in 1 .. k : g[k].text[i] = t[i]
             Good == {k \in Nat : k <= n => Has(k)}
  <1>6. 0 \in Good
    BY <1>3, <1>5 DEF Unescaping
  <1>7. ASSUME NEW k \in Nat, k \in Good PROVE k + 1 \in Good
    <2> SUFFICES ASSUME k + 1 <= n PROVE Has(k + 1)
      OBVIOUS
    <2>1. k + 1 \in 1 .. n /\ k + 1 - 1 = k
      OBVIOUS
    <2>2. PICK x \in S : x = t[k + 1]
      BY <1>2, <2>1
    <2>3. PICK r \in Reader(S) : r = g[k]
      BY <1>7
    <2>4. g[k + 1] = ReadSymbol(r, x)
      BY <1>5, <2>1, <2>2, <2>3 DEF Unescaping
    <2>5. ReadSymbol(r, x) \in Reader(S) /\ ReadSymbol(r, x).text = Append(r.text, x)
      BY PlainRead
    <2>6. PICK u : u = r.text
      OBVIOUS
    <2>11. k <= n
      OBVIOUS
    <2>12. Has(k)
      BY <1>7, <2>11
    <2>7. u \in Seq(S) /\ Len(u) = k /\ \A i \in 1 .. k : u[i] = t[i]
      <3>1. u \in Seq(S)
        BY <2>3, <2>6 DEF Reader
      <3>2. u = g[k].text
        BY <2>3, <2>6
      <3> QED
        BY <2>12, <3>1, <3>2
    <2>8. PICK w : w = Append(u, x)
      OBVIOUS
    <2>9. Len(w) = k + 1 /\ w[k + 1] = x /\ \A i \in 1 .. k : w[i] = u[i]
      BY <2>7, <2>8, AppendProperties
    <2>10. \A i \in 1 .. k + 1 : w[i] = t[i]
      BY <2>2, <2>7, <2>9
    <2> QED
      BY <2>4, <2>5, <2>6, <2>8, <2>9, <2>10
  <1>8. n \in Good
    <2> HIDE DEF Good
    <2> QED
      BY <1>6, <1>7, Induction
  <1>9. PICK r \in Reader(S) : r = g[n]
    BY <1>8
  <1>10. PICK u \in Seq(S) : u = r.text
    BY DEF Reader
  <1>11. Len(u) = Len(t) /\ \A i \in 1 .. Len(u) : u[i] = t[i]
    BY <1>1, <1>8, <1>9, <1>10
  <1>12. u = t
    BY <1>11, SeqEqual
  <1> QED
    BY <1>5, <1>9, <1>10, <1>12 DEF Reader, Unescaping

(* What is put into a payload is what its claims are.                      *)
LEMMA ClaimsBack ==
    ASSUME NEW user, NEW exp, Carries(user, exp), NEW b, b = Bytes(Payload(user, exp))
    PROVE  /\ b \in Seq(Byte) /\ b # <<>> /\ Readable(b)
           /\ ParseClaims(b) = [sid |-> user.sid, login |-> user.login, mail |-> user.mail,
                                roles |-> user.roles, exp |-> exp]
  <1>16. PICK S, c : c \in S /\ S = DOMAIN Code /\ c = Separator
    BY CodeAssumption DEF Separator
  <1>1. c \notin Plain /\ Plain \subseteq S
    BY <1>16 DEF Plain
  <1>17. PICK R : R = Plain \cup {c}
    OBVIOUS
  <1>18. c \in R /\ Plain \subseteq R /\ R \subseteq S /\ Backslash \notin R
    <2>1. Backslash # Separator
      BY DEF Backslash, Separator
    <2> QED
      BY <1>1, <1>16, <1>17, <2>1 DEF Plain
  <1>2. PICK num : num = Numeral(exp)
    OBVIOUS
  <1>3. num \in Seq(Plain)
    BY <1>2 DEF Carries, Written, Numeral
  <1>4. PICK t : t = Payload(user, exp)
    OBVIOUS
  <1>5. /\ user.sid \in Seq(Plain) /\ user.login \in Seq(Plain)
        /\ user.mail \in Seq(Plain) /\ user.roles \in Seq(Plain)
    BY DEF Carries, Users
  <1>6. PICK v \in Seq(Plain), w \in Seq(Plain), x \in Seq(Plain), y \in Seq(Plain) :
          v = user.sid /\ w = user.login /\ x = user.mail /\ y = user.roles
    BY <1>5
  <1>15. c \in S
    BY <1>16
  <1>7. t = Cat(Cat(Cat(Cat(v, c, w), c, x), c, y), c, num)
    BY <1>2, <1>4, <1>6, <1>16, Zenon DEF Payload, Cat
  <1>8. /\ v \in Seq(R) /\ w \in Seq(R) /\ x \in Seq(R) /\ y \in Seq(R) /\ num \in Seq(R)
    BY <1>3, <1>18, WiderSeq
  <1>9. /\ RunFree(v, c, Len(v)) /\ RunFree(w, c, Len(w))
        /\ RunFree(x, c, Len(x)) /\ RunFree(y, c, Len(y))
        /\ RunFree(num, c, Len(num))
    BY <1>1, <1>3, Unlike
  <1>10. /\ t \in Seq(R) /\ Len(t) # 0
         /\ Len(Split(t, <<c>>)) = 5
         /\ Split(t, <<c>>)[1] = v /\ Split(t, <<c>>)[2] = w
         /\ Split(t, <<c>>)[3] = x /\ Split(t, <<c>>)[4] = y
         /\ Split(t, <<c>>)[5] = num
    <2>1. HasFive(Cat(Cat(Cat(Cat(v, c, w), c, x), c, y), c, num), v, w, x, y, num, c)
      BY <1>8, <1>9, <1>18, FiveParts
    <2>2. Cat(Cat(Cat(Cat(v, c, w), c, x), c, y), c, num) \in Seq(R)
      BY <1>8, <1>9, <1>18, FiveParts
    <2> QED
      BY <1>7, <2>1, <2>2, Zenon DEF HasFive
  <1>11. b \in Seq(Byte) /\ Len(b) = Len(t) /\ Symbols(b) = t
    <2>1. t \in Seq(S)
      BY <1>10, <1>18, WiderSeq
    <2> QED
      BY <1>4, <2>1, <1>16, BytesBack
  <1>19. Unescape(Symbols(b)).ok /\ ReadFields(b) = Split(t, <<c>>)
    <2>1. Unescape(t).ok /\ Unescape(t).text = t
      BY <1>10, <1>18, UnescapePlain
    <2> QED
      BY <1>11, <1>16, <2>1, Zenon DEF ReadFields
  <1>20. Numeral(exp) = num /\ exp \in 0 .. MaxTime
    BY <1>2 DEF Carries, Written
  <1>21. Readable(b)
    <2>1. Len(ReadFields(b)) = 5 /\ ReadFields(b)[5] = num
      BY <1>10, <1>19, Zenon
    <2> QED
      BY <1>19, <1>20, <2>1, Zenon DEF Readable
  <1>12. b # <<>>
    BY <1>10, <1>11
  <1>13. (CHOOSE n \in 0 .. MaxTime : Numeral(n) = num) = exp
    BY <1>2 DEF Carries, Written
  <1>14. ParseClaims(b) = [sid |-> v, login |-> w, mail |-> x, roles |-> y, exp |-> exp]
    <2>1. /\ ReadFields(b)[1] = v /\ ReadFields(b)[2] = w
          /\ ReadFields(b)[3] = x /\ ReadFields(b)[4] = y
          /\ ReadFields(b)[5] = num
      BY <1>10, <1>19, Zenon
    <2> QED
      BY <1>13, <2>1 DEF ParseClaims
  <1> QED
    BY <1>6, <1>11, <1>12, <1>14, <1>21

(* t is cut into three, as parse() cuts a token.                           *)
HasThree(t, x, y, z, c) ==
    /\ t # <<>>
    /\ Len(Split(t, <<c>>)) = 3
    /\ Split(t, <<c>>)[1] = x /\ Split(t, <<c>>)[2] = y
    /\ SubSeq(t, Len(x) + Len(y) + 3, Len(t)) = z

(* Three texts with delimiters between them, as the parts of a token, are  *)
(* found again.                                                            *)
LEMMA ThreeParts ==
    ASSUME NEW S, NEW c \in S,
           NEW x \in Seq(S), NEW y \in Seq(S), NEW z \in Seq(S),
           RunFree(x, c, Len(x)), RunFree(y, c, Len(y)), RunFree(z, c, Len(z))
    PROVE  HasThree(Cat(Cat(x, c, y), c, z), x, y, z, c)
  <1>1. PICK t : t = Cat(Cat(x, c, y), c, z)
    OBVIOUS
  <1>2. Len(Split(t, <<c>>)) = 3
    BY <1>1, SplitThree
  <1>11. Split(t, <<c>>)[1] = x /\ Split(t, <<c>>)[2] = y
    BY <1>1, SplitThree
  <1>3. PICK m \in Nat, n \in Nat, k \in Nat : m = Len(x) /\ n = Len(y) /\ k = Len(z)
    BY LenProperties
  <1>4. PICK u \in Seq(S) : u = Cat(x, c, y)
    BY CatType
  <1>10. Len(Cat(x, c, y)) = Len(x) + 1 + Len(y)
    BY CatType
  <1>12. Len(u) = m + 1 + n
    BY <1>3, <1>4, <1>10
  <1>5. Len(Cat(u, c, z)) = Len(u) + 1 + Len(z)
    BY CatType
  <1>6. t # <<>>
    <2>1. Len(t) = m + 1 + n + 1 + k
      BY <1>1, <1>3, <1>4, <1>5, <1>12
    <2> QED
      BY <1>3, <2>1
  <1>7. PICK p : p = Len(u) + 2
    OBVIOUS
  <1>14. EndsIn(u, c, z)
    BY RestOfCat
  <1>8. SubSeq(Cat(u, c, z), p, Len(Cat(u, c, z))) = z
    BY <1>7, <1>14 DEF EndsIn
  <1>9. p = m + n + 3
    BY <1>3, <1>7, <1>12
  <1>13. SubSeq(t, Len(x) + Len(y) + 3, Len(t)) = z
    BY <1>1, <1>3, <1>4, <1>8, <1>9
  <1> QED
    BY <1>1, <1>2, <1>6, <1>11, <1>13 DEF HasThree

(* A token comes back as it was made: its four parts.                      *)
LEMMA PartsBack ==
    ASSUME NEW user, NEW now, Carries(user, now + Duration),
           NEW t, t = GetToken(user, now)
    PROVE  /\ t # <<>>
           /\ ParseToken(t).header # <<>>
           /\ ParseToken(t).payload = Bytes(Payload(user, now + Duration))
           /\ ParseToken(t).signature = Sign(ParseToken(t).message)
  <1>1. PICK h : h = Bytes(JsonHeader)
    OBVIOUS
  <1>2. h \in Seq(Byte) /\ h # <<>>
    <2>1. PICK j : j = JsonHeader
      OBVIOUS
    <2>3. "{" \in DOMAIN Code /\ "}" \in DOMAIN Code
      BY CodeAssumption
    <2>5. PICK x, y : x = "{" /\ y = "}"
      OBVIOUS
    <2>6. j = <<x, y>>
      BY <2>1, <2>5, Zenon DEF JsonHeader
    <2>7. x \in DOMAIN Code /\ y \in DOMAIN Code
      BY <2>3, <2>5, Zenon
    <2>4. j \in Seq(DOMAIN Code) /\ Len(j) = 2
      BY <2>6, <2>7
    <2>2. Bytes(j) \in Seq(Byte) /\ Len(Bytes(j)) = Len(j)
      BY <2>4, BytesBack
    <2>8. Bytes(j) # <<>>
      <3>1. PICK w : w = Bytes(j)
        OBVIOUS
      <3>2. Len(w) = 2
        BY <2>2, <2>4, <3>1, Zenon
      <3>3. w # <<>>
        BY <3>2
      <3> QED
        BY <3>1, <3>3, Zenon
    <2> QED
      BY <1>1, <2>1, <2>2, <2>8, Zenon
  <1>3. PICK b : b = Bytes(Payload(user, now + Duration))
    OBVIOUS
  <1>4. b \in Seq(Byte) /\ b # <<>>
    BY <1>3, ClaimsBack
  <1>5. PICK message : message = Message(user, now + Duration)
    OBVIOUS
  <1>6. PICK s : s = Hmac(message)
    OBVIOUS
  <1>7. s \in Seq(Byte)
    BY <1>5, <1>6 DEF Carries, Written, Byte
  <1>8. PICK x \in Seq(0 .. 63) : x = Base64Encode(h) /\ Base64Decode(x) = h
    BY <1>2, Base64RoundTrip
  <1>9. PICK y \in Seq(0 .. 63) : y = Base64Encode(b) /\ Base64Decode(y) = b
    BY <1>4, Base64RoundTrip
  <1>10. PICK z \in Seq(0 .. 63) : z = Base64Encode(s) /\ z = Sign(message)
    BY <1>6, <1>7, Base64RoundTrip DEF Sign
  <1>11. PICK S, c : c \in S /\ S = 0 .. 64 /\ c = Dot
    <2>1. Dot \in 0 .. 64
      BY DEF Dot
    <2> QED
      BY <2>1, Zenon
  <1>12. x \in Seq(S) /\ y \in Seq(S) /\ z \in Seq(S)
    <2>1. 0 .. 63 \subseteq S
      BY <1>11
    <2> QED
      BY <2>1, WiderSeq
  <1>13. RunFree(x, c, Len(x)) /\ RunFree(y, c, Len(y)) /\ RunFree(z, c, Len(z))
    <2>1. c \notin 0 .. 63
      BY <1>11 DEF Dot
    <2> QED
      BY <2>1, Unlike
  <1>17. c \in S
    BY <1>11
  <1>14. message = Cat(x, c, y)
    BY <1>1, <1>3, <1>5, <1>8, <1>9, <1>11, Zenon DEF Message, Cat
  <1>15. t = Cat(message, c, z)
    BY <1>5, <1>10, <1>11, Zenon DEF GetToken, Cat
  <1>16. /\ t # <<>>
         /\ Len(Split(t, <<c>>)) = 3
         /\ Split(t, <<c>>)[1] = x /\ Split(t, <<c>>)[2] = y
         /\ SubSeq(t, Len(x) + Len(y) + 3, Len(t)) = z
    <2>1. HasThree(Cat(Cat(x, c, y), c, z), x, y, z, c)
      BY <1>12, <1>13, <1>17, ThreeParts
    <2> QED
      BY <1>14, <1>15, <2>1, Zenon DEF HasThree
  <1>22. ParseToken(t) = [header |-> h, payload |-> b, message |-> message, signature |-> z]
    <2>5. PICK k : k = Len(Split(t, <<c>>))
      OBVIOUS
    <2>6. k = 3
      BY <1>16, <2>5, Zenon
    <2>7. ~(k < 3)
      BY <2>6
    <2>3. ~(Len(Split(t, <<c>>)) < 3)
      BY <2>5, <2>7, Zenon
    <2>1. ~(Len(Split(t, <<Dot>>)) < 3)
      BY <1>11, <2>3, Zenon
    <2>2. message = (x \o <<Dot>>) \o y
      BY <1>11, <1>14, Zenon DEF Cat
    <2> QED
      BY <1>8, <1>9, <1>11, <1>16, <2>1, <2>2, Zenon DEF ParseToken
  <1> QED
    BY <1>2, <1>3, <1>10, <1>16, <1>22

(* A token of any user whose names it can carry, those without a quote or  *)
(* a backslash, is read without an error and is good until it expires, for *)
(* that user and nobody else.                                              *)
THEOREM TokenRoundTrip ==
    ASSUME NEW user, NEW now, Carries(user, now + Duration), NEW clk,
           NEW t, t = GetToken(user, now)
    PROVE  /\ t # <<>>
           /\ Nobody # user
           /\ ~Throws(t)
           /\ IsValid(t, clk) = IF clk >= now + Duration THEN Nobody ELSE user
  <1>1. PICK p : p = ParseToken(t)
    OBVIOUS
  <1>2. PICK exp : exp = now + Duration
    OBVIOUS
  <1>3. /\ p.payload # <<>> /\ Readable(p.payload)
        /\ ParseClaims(p.payload) = [sid |-> user.sid, login |-> user.login,
                                     mail |-> user.mail, roles |-> user.roles, exp |-> exp]
    <2>1. p.payload = Bytes(Payload(user, exp))
      BY <1>1, <1>2, PartsBack
    <2> QED
      BY <1>2, <2>1, ClaimsBack
  <1>4. t # <<>> /\ p.header # <<>> /\ p.signature = Sign(p.message)
    BY <1>1, PartsBack
  <1>5. Expired(exp, clk) <=> clk >= exp
    BY DEF Expired
  <1>6. user = [sid |-> user.sid, login |-> user.login, mail |-> user.mail,
                roles |-> user.roles]
    BY DEF Carries, Users
  <1>9. Signed(p)
    BY <1>3, <1>4 DEF Signed
  <1>7. IsValid(t, clk) = IF Expired(exp, clk) THEN Nobody ELSE user
    BY <1>1, <1>3, <1>6, <1>9 DEF IsValid
  <1>10. ~Throws(t)
    BY <1>1, <1>3 DEF Throws
  <1>8. Nobody # user
    BY DEF Carries, Written
  <1> QED
    BY <1>2, <1>4, <1>5, <1>7, <1>8, <1>10

-----------------------------------------------------------------------------
(* Texts cut at a symbol.                                                  *)

(* A text is cut where a symbol occurs first.                              *)
LEMMA CutAt ==
    ASSUME NEW S, NEW c \in S, NEW x \in Seq(S), NEW y \in Seq(S), RunFree(x, c, Len(x)),
           NEW t, t = Cat(x, c, y)
    PROVE  /\ Occurs(t, <<c>>) # {} /\ First(t, <<c>>) = Len(x) + 1
           /\ Before(t, <<c>>) = x /\ After(t, <<c>>) = y
  <1>1. PICK k \in Nat : k = Len(x)
    BY LenProperties
  <1>2. PICK m \in Nat : m = Len(y)
    BY LenProperties
  <1>3. t \in Seq(S) /\ Len(t) = k + 1 + m
    BY <1>1, <1>2, CatType
  <1>4. PICK z : z = Extended(x, c)
    OBVIOUS
  <1>5. z \in Seq(S) /\ Len(z) = k + 1
    BY <1>1, <1>4, CatType
  <1>6. t = z \o y
    BY <1>4 DEF Cat, Extended
  <1>7. /\ \A i \in 1 .. k + 1 : t[i] = z[i]
        /\ \A i \in 1 .. m : t[k + 1 + i] = y[i]
    <2>1. \A i \in 1 .. Len(z) + Len(y) : t[i] = IF i <= Len(z) THEN z[i] ELSE y[i - Len(z)]
      BY <1>5, <1>6, ConcatProperties
    <2>2. \A i \in 1 .. k + 1 + m : t[i] = IF i <= k + 1 THEN z[i] ELSE y[i - (k + 1)]
      BY <1>2, <1>5, <2>1
    <2>3. ASSUME NEW i \in 1 .. m PROVE t[k + 1 + i] = y[i]
      <3>1. PICK j : j = k + 1 + i
        OBVIOUS
      <3>2. j \in 1 .. k + 1 + m /\ ~(j <= k + 1) /\ j - (k + 1) = i
        BY <3>1
      <3>3. t[j] = y[j - (k + 1)]
        BY <2>2, <3>2, Zenon
      <3> QED
        BY <3>1, <3>2, <3>3, Zenon
    <2>4. ASSUME NEW i \in 1 .. k + 1 PROVE t[i] = z[i]
      <3>1. i \in 1 .. k + 1 + m /\ i <= k + 1
        OBVIOUS
      <3> QED
        BY <2>2, <3>1
    <2> QED
      BY <2>3, <2>4
  <1>8. /\ \A i \in 1 .. k : z[i] = x[i]
        /\ z[k + 1] = c
    <2>1. PICK s \in Seq(S) : s = <<c>> /\ Len(s) = 1 /\ s[1] = c
      <3>1. <<c>> \in Seq(S) /\ Len(<<c>>) = 1 /\ <<c>>[1] = c
        OBVIOUS
      <3> QED
        BY <3>1, Zenon
    <2>2. z = x \o s
      BY <1>4, <2>1 DEF Extended
    <2>3. \A i \in 1 .. Len(x) + Len(s) : z[i] = IF i <= Len(x) THEN x[i] ELSE s[i - Len(x)]
      BY <2>2, ConcatProperties
    <2>4. \A i \in 1 .. k + 1 : z[i] = IF i <= k THEN x[i] ELSE s[i - k]
      BY <1>1, <2>1, <2>3
    <2>5. k + 1 \in 1 .. k + 1 /\ ~(k + 1 <= k) /\ k + 1 - k = 1
      OBVIOUS
    <2>6. z[k + 1] = c
      BY <2>1, <2>4, <2>5
    <2>7. ASSUME NEW i \in 1 .. k PROVE z[i] = x[i]
      <3>1. i \in 1 .. k + 1 /\ i <= k
        OBVIOUS
      <3> QED
        BY <2>4, <3>1
    <2> QED
      BY <2>6, <2>7
  <1>9. \A i \in 1 .. k : t[i] = x[i] /\ t[i] # c
    BY <1>1, <1>7, <1>8 DEF RunFree
  <1>10. t[k + 1] = c
    BY <1>7, <1>8
  <1>11. \A i \in 1 .. k + 1 + m : i \in Occurs(t, <<c>>) <=> t[i] = c
    BY <1>3, OccursOne DEF Occurs
  <1>12. Occurs(t, <<c>>) \subseteq Nat /\ Occurs(t, <<c>>) \subseteq 1 .. k + 1 + m
    BY <1>3 DEF Occurs
  <1>13. k + 1 \in Occurs(t, <<c>>) /\ \A i \in Occurs(t, <<c>>) : k + 1 <= i
    <2>1. \A i \in 1 .. k + 1 + m : i <= k => t[i] # c
      BY <1>9
    <2>2. k + 1 \in 1 .. k + 1 + m
      OBVIOUS
    <2>3. k + 1 \in Occurs(t, <<c>>)
      BY <1>10, <1>11, <2>2
    <2>4. ASSUME NEW i \in Occurs(t, <<c>>) PROVE k + 1 <= i
      <3>1. i \in Nat /\ i \in 1 .. k + 1 + m /\ t[i] = c
        BY <1>11, <1>12, Zenon
      <3>2. ~(i <= k)
        BY <2>1, <3>1, Zenon
      <3> QED
        BY <3>1, <3>2
    <2> QED
      BY <2>3, <2>4
  <1>14. First(t, <<c>>) = k + 1
    <2> DEFINE I == Occurs(t, <<c>>)
    <2>1. \A i \in I : i \in Nat
      BY <1>12
    <2> HIDE DEF I
    <2>2. k + 1 \in I /\ \A i \in I : k + 1 <= i
      BY <1>13 DEF I
    <2>3. \A i \in I : (\A j \in I : i <= j) => i = k + 1
      BY <2>1, <2>2
    <2>4. Min(I) = k + 1
      BY <2>2, <2>3, Zenon DEF Min
    <2> QED
      BY <2>4 DEF First, I
  <1>15. Before(t, <<c>>) = x
    <2>1. Before(t, <<c>>) = SubSeq(t, 1, k)
      BY <1>14 DEF Before
    <2>2. \A i \in 1 .. k : t[i] \in S
      BY <1>1, <1>9, ElementOfSeq
    <2>3. /\ SubSeq(t, 1, k) \in Seq(S)
          /\ Len(SubSeq(t, 1, k)) = IF 1 <= k THEN k - 1 + 1 ELSE 0
          /\ \A i \in 1 .. k - 1 + 1 : SubSeq(t, 1, k)[i] = t[1 + i - 1]
      BY <2>2, SubSeqProperties
    <2>4. PICK s : s = SubSeq(t, 1, k)
      OBVIOUS
    <2>5. s \in Seq(S) /\ Len(s) = k /\ \A i \in 1 .. k : s[i] = t[i]
      BY <2>3, <2>4
    <2>6. s = x
      BY <1>1, <1>9, <2>5, SeqEqual
    <2> QED
      BY <2>1, <2>4, <2>6
  <1>16. After(t, <<c>>) = y
    <2>1. EndsIn(x, c, y)
      BY RestOfCat
    <2>2. Len(<<c>>) = 1
      OBVIOUS
    <2>3. k + 1 + Len(<<c>>) = k + 2
      BY <2>2
    <2>4. After(t, <<c>>) = SubSeq(t, k + 2, Len(t))
      BY <1>14, <2>3 DEF After
    <2> QED
      BY <1>1, <2>1, <2>4, Zenon DEF EndsIn
  <1>17. Occurs(t, <<c>>) # {}
    BY <1>13
  <1>18. First(t, <<c>>) = Len(x) + 1
    BY <1>1, <1>14
  <1> QED
    BY <1>15, <1>16, <1>17, <1>18

(* A text without a symbol.                                                *)
LEMMA NoOccurrence ==
    ASSUME NEW S, NEW t \in Seq(S), NEW c
    PROVE  Occurs(t, <<c>>) = {} <=> RunFree(t, c, Len(t))
  BY OccursOne DEF Occurs, RunFree

-----------------------------------------------------------------------------
(* Texts put together, and what Split makes of them.                       *)

(* A piece of a sequence.                                                  *)
LEMMA Piece ==
    ASSUME NEW S, NEW s \in Seq(S), NEW a \in Nat, NEW k \in Nat, 0 < a, a <= k + 1, k <= Len(s)
    PROVE  /\ SubSeq(s, a, k) \in Seq(S) /\ Len(SubSeq(s, a, k)) = k + 1 - a
           /\ \A i \in 1 .. k + 1 - a : SubSeq(s, a, k)[i] = s[i + a - 1]
  <1>1. PICK n \in Nat : n = Len(s)
    BY LenProperties
  <1>2. \A i \in a .. k : s[i] \in S
    <2>1. \A i \in a .. k : i \in 1 .. n
      BY <1>1
    <2> QED
      BY <1>1, <2>1, ElementOfSeq
  <1>3. /\ SubSeq(s, a, k) \in Seq(S) /\ Len(SubSeq(s, a, k)) = IF a <= k THEN k - a + 1 ELSE 0
        /\ \A i \in 1 .. k - a + 1 : SubSeq(s, a, k)[i] = s[a + i - 1]
    BY <1>2, SubSeqProperties
  <1> QED
    BY <1>3

(* x and then y, as a term the provers do not look into.                   *)
Then(x, y) == x \o y

LEMMA ThenType ==
    ASSUME NEW S, NEW x \in Seq(S), NEW y \in Seq(S)
    PROVE  /\ Then(x, y) \in Seq(S) /\ Len(Then(x, y)) = Len(x) + Len(y)
           /\ \A i \in 1 .. Len(x) + Len(y) :
                 Then(x, y)[i] = IF i <= Len(x) THEN x[i] ELSE y[i - Len(x)]
  BY ConcatProperties DEF Then

LEMMA ThenThen ==
    ASSUME NEW S, NEW x \in Seq(S), NEW y \in Seq(S), NEW z \in Seq(S)
    PROVE  Then(Then(x, y), z) = Then(x, Then(y, z))
  BY ConcatAssociative DEF Then

(* p holds the pieces of the ends of t: p[i] are those of t from i on.     *)
Pieces(p, t, d, S) ==
    /\ p \in [1 .. Len(t) + 1 -> Seq(Seq(S)) \ {<<>>}]
    /\ p[Len(t) + 1] = << <<>> >>
    /\ \A i \in 1 .. Len(t) :
          p[i] = IF OccursAt(t, d, i) THEN Cons(<<>>, p[i + Len(d)])
                 ELSE Cons(<<t[i]>> \o Head(p[i + 1]), Tail(p[i + 1]))
    /\ Split(t, d) = p[1]

(* Split goes through the pieces of each end of the text.                  *)
LEMMA PiecesExist ==
    ASSUME NEW S, NEW t \in Seq(S), NEW d \in Seq(S), Len(d) > 0
    PROVE  \E p : Pieces(p, t, d, S)
  <1> DEFINE T == Seq(Seq(S)) \ {<<>>}
             Value(p, i) == IF i > Len(t) THEN << <<>> >>
                            ELSE IF OccursAt(t, d, i) THEN << <<>> >> \o p[i + Len(d)]
                            ELSE LET rest == p[i + 1]
                                 IN  << <<t[i]>> \o Head(rest) >> \o Tail(rest)
             Is(p) == p = [i \in 1 .. Len(t) + 1 |-> Value(p, i)]
             pieces == CHOOSE p : Is(p)
  <1>1. PICK n \in Nat : n = Len(t)
    BY LenProperties
  <1>2. PICK l \in Nat : l = Len(d) /\ l > 0
    BY LenProperties
  <1>3. << <<>> >> \in T
    OBVIOUS
  <1>4. ASSUME NEW x \in T, NEW y \in T, NEW i \in 1 .. n
        PROVE  Cons(<<>>, y) \in T /\ Cons(<<t[i]>> \o Head(x), Tail(x)) \in T
    <2>1. Head(x) \in Seq(S) /\ Tail(x) \in Seq(Seq(S))
      BY HeadTailProperties
    <2>2. <<>> \in Seq(S) /\ y \in Seq(Seq(S))
      OBVIOUS
    <2>3. <<t[i]>> \o Head(x) \in Seq(S)
      <3>1. <<t[i]>> \in Seq(S)
        BY <1>1, ElementOfSeq
      <3> QED
        BY <2>1, <3>1, ConcatProperties
    <2>4. Cons(<<>>, y) \in T
      BY <2>2, Joined
    <2>5. Cons(<<t[i]>> \o Head(x), Tail(x)) \in T
      BY <2>1, <2>3, Joined
    <2> QED
      BY <2>4, <2>5
  \* The pieces from i on are made of those that begin later.
  <1>5. ASSUME NEW p, NEW i \in 1 .. n + 1,
               \A j \in i + 1 .. n + 1 : p[j] \in T
        PROVE  Value(p, i) \in T
    <2>1. CASE i > n
      BY <1>1, <1>3, <2>1
    <2>2. CASE i <= n
      <3>1. i \in 1 .. n /\ ~(i > Len(t)) /\ i + 1 \in i + 1 .. n + 1
        BY <1>1, <2>2
      <3>2. CASE OccursAt(t, d, i)
        <4>1. i + l \in i + 1 .. n + 1
          BY <1>1, <1>2, <3>1, <3>2 DEF OccursAt
        <4>2. p[i + l] \in T
          BY <1>5, <4>1
        <4>3. Value(p, i) = Cons(<<>>, p[i + l])
          BY <1>2, <3>1, <3>2 DEF Cons
        <4> HIDE DEF T, Value
        <4> QED
          BY <1>4, <3>1, <4>2, <4>3
      <3>3. CASE ~OccursAt(t, d, i)
        <4>1. p[i + 1] \in T
          BY <1>5, <3>1
        <4>2. Value(p, i) = Cons(<<t[i]>> \o Head(p[i + 1]), Tail(p[i + 1]))
          BY <3>1, <3>3 DEF Cons
        <4> HIDE DEF T, Value
        <4> QED
          BY <1>4, <3>1, <4>1, <4>2
      <3> QED
        BY <3>2, <3>3
    <2> QED
      BY <2>1, <2>2
  <1>6. ASSUME NEW p, NEW q, NEW i \in 1 .. n + 1,
               \A j \in i + 1 .. n + 1 : p[j] = q[j]
        PROVE  Value(p, i) = Value(q, i)
    <2>1. CASE i > n
      BY <1>1, <2>1
    <2>2. CASE i <= n
      <3>1. i + 1 \in i + 1 .. n + 1
        BY <2>2
      <3>2. OccursAt(t, d, i) => i + l \in i + 1 .. n + 1
        BY <1>1, <1>2 DEF OccursAt
      <3>3. p[i + 1] = q[i + 1] /\ (OccursAt(t, d, i) => p[i + l] = q[i + l])
        BY <1>6, <3>1, <3>2
      <3> QED
        BY <1>2, <3>3
    <2> QED
      BY <2>1, <2>2
  <1> HIDE DEF T, Value
  <1> DEFINE Defines(h, j) == /\ h \in [j .. n + 1 -> T]
                              /\ \A i \in j .. n + 1 : h[i] = Value(h, i)
             Good == {k \in Nat : k <= n => \E h : Defines(h, n + 1 - k)}
  <1>7. 0 \in Good
    <2>1. PICK v : v = Value(<<>>, n + 1)
      OBVIOUS
    <2>2. PICK h : h = [i \in {n + 1} |-> v]
      OBVIOUS
    <2>3. \A j \in n + 1 + 1 .. n + 1 : FALSE
      OBVIOUS
    <2>4. Value(h, n + 1) = v
      BY <1>6, <2>1, <2>3
    <2>5. v \in T
      BY <1>5, <2>1, <2>3
    <2>6. n + 1 - 0 .. n + 1 = {n + 1}
      OBVIOUS
    <2>7. Defines(h, n + 1 - 0)
      BY <2>2, <2>4, <2>5, <2>6
    <2> QED
      BY <2>7
  <1>8. ASSUME NEW k \in Nat, k \in Good PROVE k + 1 \in Good
    <2>8. k + 1 \in Nat
      OBVIOUS
    <2> SUFFICES ASSUME k + 1 <= n PROVE \E h : Defines(h, n + 1 - (k + 1))
      BY <2>8, Zenon
    <2>1. PICK j \in 1 .. n : j = n + 1 - (k + 1) /\ j + 1 = n + 1 - k
      OBVIOUS
    <2>2. PICK h : Defines(h, j + 1)
      BY <1>8, <2>1
    <2>3. PICK v : v = Value(h, j)
      OBVIOUS
    <2>4. PICK g : g = [i \in j .. n + 1 |-> IF i = j THEN v ELSE h[i]]
      OBVIOUS
    <2>5. \A i \in j + 1 .. n + 1 : h[i] \in T /\ g[i] = h[i]
      BY <2>2, <2>4
    <2>6. v \in T
      BY <1>5, <2>3, <2>5
    <2>7. g \in [j .. n + 1 -> T]
      <3>1. \A i \in j .. n + 1 : i = j \/ i \in j + 1 .. n + 1
        OBVIOUS
      <3>2. \A i \in j .. n + 1 : g[i] \in T
        BY <2>4, <2>5, <2>6, <3>1
      <3> QED
        BY <2>4, <3>2
    <2>9. ASSUME NEW i \in j .. n + 1 PROVE g[i] = Value(g, i)
      <3>1. i \in 1 .. n + 1 /\ \A m \in i + 1 .. n + 1 : m \in j + 1 .. n + 1
        OBVIOUS
      <3>2. Value(g, i) = Value(h, i)
        BY <1>6, <2>5, <3>1
      <3>3. CASE i = j
        BY <2>3, <2>4, <3>2, <3>3
      <3>4. CASE i # j
        <4>1. i \in j + 1 .. n + 1
          BY <3>4
        <4>2. h[i] = Value(h, i)
          BY <2>2, <4>1
        <4> QED
          BY <2>5, <3>2, <4>1, <4>2
      <3> QED
        BY <3>3, <3>4
    <2>10. Defines(g, j)
      BY <2>7, <2>9
    <2> QED
      BY <2>1, <2>10
  <1>9. PICK h : Defines(h, 1)
    <2>1. n \in Good
      <3> HIDE DEF Good
      <3> QED
        BY <1>7, <1>8, Induction
    <2>2. n + 1 - n = 1 /\ n <= n
      OBVIOUS
    <2> QED
      BY <2>1, <2>2
  <1>10. Is(h)
    BY <1>1, <1>9
  <1>11. Is(pieces)
    <2> HIDE DEF Is
    <2> QED
      BY <1>10
  <1>12. Split(t, d) = pieces[1]
    BY DEF Split, Value
  <1> HIDE DEF pieces
  <1>13. \A i \in 1 .. n + 1 : pieces[i] = Value(pieces, i)
    <2> SUFFICES ASSUME NEW i \in 1 .. n + 1 PROVE pieces[i] = Value(pieces, i)
      OBVIOUS
    <2>1. i \in 1 .. Len(t) + 1
      BY <1>1
    <2> QED
      BY <1>11, <2>1, Zenon
  <1> DEFINE Typed == {k \in Nat : \A i \in 1 .. n + 1 : n + 1 - k <= i => pieces[i] \in T}
  <1>14. 0 \in Typed
    <2> SUFFICES ASSUME NEW i \in 1 .. n + 1, n + 1 - 0 <= i PROVE pieces[i] \in T
      OBVIOUS
    <2>1. \A j \in i + 1 .. n + 1 : FALSE
      OBVIOUS
    <2>2. Value(pieces, i) \in T
      BY <1>5, <2>1
    <2> QED
      BY <1>13, <2>2
  <1>15. ASSUME NEW k \in Nat, k \in Typed PROVE k + 1 \in Typed
    <2> SUFFICES ASSUME NEW i \in 1 .. n + 1, n + 1 - (k + 1) <= i PROVE pieces[i] \in T
      OBVIOUS
    <2>1. \A j \in i + 1 .. n + 1 : j \in 1 .. n + 1 /\ n + 1 - k <= j
      OBVIOUS
    <2>2. \A j \in i + 1 .. n + 1 : pieces[j] \in T
      BY <1>15, <2>1
    <2>3. Value(pieces, i) \in T
      BY <1>5, <2>2
    <2> QED
      BY <1>13, <2>3
  <1>16. \A i \in 1 .. n + 1 : pieces[i] \in T
    <2>1. n \in Typed
      <3> HIDE DEF Typed
      <3> QED
        BY <1>14, <1>15, Induction
    <2>2. \A i \in 1 .. n + 1 : n + 1 - n <= i
      OBVIOUS
    <2> QED
      BY <2>1, <2>2
  <1>17. pieces \in [1 .. n + 1 -> T]
    BY <1>1, <1>11, <1>13, <1>16
  <1>18. pieces[n + 1] = << <<>> >>
    <2>1. n + 1 \in 1 .. n + 1 /\ n + 1 > Len(t)
      BY <1>1
    <2> QED
      BY <1>13, <2>1 DEF Value
  <1>19. ASSUME NEW i \in 1 .. n
         PROVE  pieces[i] = IF OccursAt(t, d, i) THEN Cons(<<>>, pieces[i + Len(d)])
                            ELSE Cons(<<t[i]>> \o Head(pieces[i + 1]), Tail(pieces[i + 1]))
    <2>1. i \in 1 .. n + 1 /\ ~(i > Len(t))
      BY <1>1
    <2> QED
      BY <1>13, <2>1 DEF Value, Cons
  <1>20. Pieces(pieces, t, d, S)
    BY <1>1, <1>12, <1>17, <1>18, <1>19 DEF Pieces, T
  <1> QED
    BY <1>20

-----------------------------------------------------------------------------
(* Texts split at a longer delimiter.                                      *)

(* A delimiter occurs where its symbols are.                               *)
Matches(t, d, i) == /\ i + Len(d) - 1 <= Len(t)
                    /\ \A j \in 1 .. Len(d) : t[i + j - 1] = d[j]

LEMMA OccursMeans ==
    ASSUME NEW S, NEW t \in Seq(S), NEW d \in Seq(S), Len(d) > 0, NEW i \in 1 .. Len(t)
    PROVE  OccursAt(t, d, i) <=> Matches(t, d, i)
  <1>1. PICK n \in Nat : n = Len(t)
    BY LenProperties
  <1>2. PICK l \in Nat : l = Len(d) /\ l > 0
    BY LenProperties
  <1>3. CASE i + l - 1 <= n
    <2>1. PICK k \in Nat : k = i + l - 1 /\ i <= k + 1 /\ k <= n /\ k + 1 - i = l
      BY <1>2, <1>3
    <2>2. PICK s : s = SubSeq(t, i, k)
      OBVIOUS
    <2>3. i \in Nat /\ 0 < i
      OBVIOUS
    <2>4. s \in Seq(S) /\ Len(s) = l /\ \A j \in 1 .. l : s[j] = t[j + i - 1]
      BY <1>1, <2>1, <2>2, <2>3, Piece
    <2>5. \A j \in 1 .. l : j + i - 1 = i + j - 1
      OBVIOUS
    <2>6. s = d <=> \A j \in 1 .. l : s[j] = d[j]
      BY <1>2, <2>4, SeqEqual
    <2> QED
      BY <1>1, <1>2, <1>3, <2>1, <2>2, <2>4, <2>5, <2>6 DEF OccursAt, Matches
  <1>4. CASE ~(i + l - 1 <= n)
    BY <1>1, <1>2, <1>4 DEF OccursAt, Matches
  <1> QED
    BY <1>3, <1>4

(* A text the delimiter is not in is one piece.                            *)
LEMMA SplitWhole ==
    ASSUME NEW S, NEW t \in Seq(S), NEW d \in Seq(S), Len(d) > 0, Occurs(t, d) = {}
    PROVE  Split(t, d) = <<t>>
  <1>1. PICK p : Pieces(p, t, d, S)
    BY PiecesExist
  <1>2. PICK n \in Nat : n = Len(t)
    BY LenProperties
  <1>3. /\ p[n + 1] = << <<>> >> /\ Split(t, d) = p[1]
        /\ \A i \in 1 .. n : p[i] = Cons(<<t[i]>> \o Head(p[i + 1]), Tail(p[i + 1]))
    <2>1. \A i \in 1 .. n : ~OccursAt(t, d, i)
      BY <1>2 DEF Occurs
    <2>2. /\ p[n + 1] = << <<>> >> /\ Split(t, d) = p[1]
          /\ \A i \in 1 .. n :
               p[i] = IF OccursAt(t, d, i) THEN Cons(<<>>, p[i + Len(d)])
                      ELSE Cons(<<t[i]>> \o Head(p[i + 1]), Tail(p[i + 1]))
      BY <1>1, <1>2, Zenon DEF Pieces
    <2> QED
      BY <2>1, <2>2
  <1>4. PICK r \in Seq(Seq(S)) : r = <<>>
    <2>1. <<>> \in Seq(Seq(S))
      OBVIOUS
    <2> QED
      BY <2>1
  <1> DEFINE Good == {k \in Nat : k <= n => p[n + 1 - k] = Cons(SubSeq(t, n + 1 - k, n), r)}
  <1>5. 0 \in Good
    <2>1. n + 1 - 0 = n + 1 /\ n < n + 1 /\ n \in Int /\ n + 1 \in Int
      OBVIOUS
    <2>2. SubSeq(t, n + 1, n) = <<>>
      BY <2>1, SubSeqEmpty
    <2>3. << <<>> >> = Cons(<<>>, r)
      <3>1. << <<>> >> \in Seq(Seq(S))
        OBVIOUS
      <3> QED
        BY <1>4, <3>1, ConcatEmptySeq DEF Cons
    <2> QED
      BY <1>3, <2>1, <2>2, <2>3
  <1>6. ASSUME NEW k \in Nat, k \in Good PROVE k + 1 \in Good
    <2>7. k + 1 \in Nat
      OBVIOUS
    <2> SUFFICES ASSUME k + 1 <= n
                 PROVE  p[n + 1 - (k + 1)] = Cons(SubSeq(t, n + 1 - (k + 1), n), r)
      BY <2>7, Zenon
    <2>1. PICK i \in 1 .. n : i = n + 1 - (k + 1) /\ i + 1 = n + 1 - k /\ n \in i .. Len(t)
      BY <1>2
    <2>2. PICK w : w = SubSeq(t, i + 1, n)
      OBVIOUS
    <2>3. w \in Seq(S) /\ <<t[i]>> \o w = SubSeq(t, i, n)
      BY <1>2, <2>1, <2>2, PrefixShrinks
    <2>4. p[i + 1] = Cons(w, r)
      <3>1. k <= n
        OBVIOUS
      <3>2. p[n + 1 - k] = Cons(SubSeq(t, n + 1 - k, n), r)
        BY <1>6, <3>1, Zenon
      <3> QED
        BY <2>1, <2>2, <3>2
    <2>5. Head(p[i + 1]) = w /\ Tail(p[i + 1]) = r
      <3>1. Head(Cons(w, r)) = w /\ Tail(Cons(w, r)) = r
        BY <2>3, Joined, SMT
      <3> QED
        BY <2>4, <3>1
    <2>6. p[i] = Cons(<<t[i]>> \o Head(p[i + 1]), Tail(p[i + 1]))
      BY <1>3, <2>1
    <2> QED
      BY <2>1, <2>3, <2>5, <2>6
  <1>7. p[1] = Cons(SubSeq(t, 1, n), r)
    <2>1. n \in Good
      <3> HIDE DEF Good
      <3> QED
        BY <1>5, <1>6, Induction
    <2>2. n + 1 - n = 1 /\ n <= n
      OBVIOUS
    <2> QED
      BY <2>1, <2>2
  <1>8. SubSeq(t, 1, n) = t
    BY <1>2, SubSeqFull
  <1>9. Cons(t, r) = <<t>>
    <2>1. <<t>> \in Seq(Seq(S))
      OBVIOUS
    <2> QED
      BY <1>4, <2>1, ConcatEmptySeq DEF Cons
  <1> QED
    BY <1>3, <1>7, <1>8, <1>9

(* Pieces and more of them.                                                *)
LEMMA ConsThen ==
    ASSUME NEW S, NEW w \in Seq(Seq(S)), NEW r \in Seq(Seq(S)), NEW v \in Seq(S)
    PROVE  /\ Cons(v, Then(w, r)) = Then(Cons(v, w), r)
           /\ w # <<>> => /\ Head(Then(w, r)) = Head(w)
                          /\ Tail(Then(w, r)) = Then(Tail(w), r)
  <1>1. PICK x \in Seq(Seq(S)) : x = <<v>>
    <2>1. <<v>> \in Seq(Seq(S))
      OBVIOUS
    <2> QED
      BY <2>1, Zenon
  <1>2. Then(x, Then(w, r)) = Then(Then(x, w), r)
    BY ThenThen
  <1>3. Cons(v, Then(w, r)) = Then(Cons(v, w), r)
    BY <1>1, <1>2, Zenon DEF Cons, Then
  <1>4. ASSUME w # <<>>
        PROVE  Head(Then(w, r)) = Head(w) /\ Tail(Then(w, r)) = Then(Tail(w), r)
    <2>1. PICK h \in Seq(S) : h = Head(w)
      BY <1>4, HeadTailProperties
    <2>2. PICK u \in Seq(Seq(S)) : u = Tail(w)
      BY <1>4, HeadTailProperties
    <2>3. w = Cons(h, u)
      <3>1. w = <<Head(w)>> \o Tail(w)
        BY <1>4, HeadTailProperties
      <3> QED
        BY <2>1, <2>2, <3>1 DEF Cons
    <2>4. PICK z \in Seq(Seq(S)) : z = Then(u, r)
      BY ThenType
    <2>5. Then(w, r) = Cons(h, z)
      <3>1. PICK y \in Seq(Seq(S)) : y = <<h>>
        <4>1. <<h>> \in Seq(Seq(S))
          OBVIOUS
        <4> QED
          BY <4>1, Zenon
      <3>2. Then(Then(y, u), r) = Then(y, Then(u, r))
        BY ThenThen
      <3> QED
        BY <2>3, <2>4, <3>1, <3>2, Zenon DEF Cons, Then
    <2>6. Head(Cons(h, z)) = h /\ Tail(Cons(h, z)) = z
      BY Joined
    <2> QED
      BY <2>1, <2>2, <2>4, <2>5, <2>6
  <1> QED
    BY <1>3, <1>4

(* A text is split at a delimiter in it that no other straddles.           *)
LEMMA SplitAppend ==
    ASSUME NEW S, NEW x \in Seq(S), NEW d \in Seq(S), Len(d) > 0, NEW y \in Seq(S),
           NEW t, t = Then(Then(x, d), y),
           \A i \in 1 .. Len(x) : OccursAt(t, d, i) => i + Len(d) - 1 <= Len(x)
    PROVE  Split(t, d) = Then(Split(x, d), Split(y, d))
  <1>1. PICK m \in Nat : m = Len(x)
    BY LenProperties
  <1>2. PICK l \in Nat : l = Len(d) /\ l > 0
    BY LenProperties
  <1>3. PICK n \in Nat : n = Len(y)
    BY LenProperties
  <1>4. /\ t \in Seq(S) /\ Len(t) = m + l + n
        /\ \A i \in 1 .. m : t[i] = x[i]
        /\ \A i \in 1 .. l : t[m + i] = d[i]
        /\ \A i \in 1 .. n : t[m + l + i] = y[i]
    <2>1. PICK s : s = Then(x, d)
      OBVIOUS
    <2>2. /\ s \in Seq(S) /\ Len(s) = m + l
          /\ \A i \in 1 .. m + l : s[i] = IF i <= m THEN x[i] ELSE d[i - m]
      BY <1>1, <1>2, <2>1, ThenType
    <2>3. /\ t \in Seq(S) /\ Len(t) = m + l + n
          /\ \A i \in 1 .. m + l + n : t[i] = IF i <= m + l THEN s[i] ELSE y[i - (m + l)]
      <3>1. /\ t \in Seq(S) /\ Len(t) = Len(s) + Len(y)
            /\ \A i \in 1 .. Len(s) + Len(y) :
                  t[i] = IF i <= Len(s) THEN s[i] ELSE y[i - Len(s)]
        <4>1. s \in Seq(S) /\ t = Then(s, y)
          BY <2>1, <2>2
        <4>2. /\ Then(s, y) \in Seq(S) /\ Len(Then(s, y)) = Len(s) + Len(y)
              /\ \A i \in 1 .. Len(s) + Len(y) :
                    Then(s, y)[i] = IF i <= Len(s) THEN s[i] ELSE y[i - Len(s)]
          BY <4>1, ThenType
        <4> QED
          BY <4>1, <4>2
      <3> QED
        BY <1>3, <2>2, <3>1
    <2>4. \A i \in 1 .. m : i \in 1 .. m + l + n /\ i <= m + l /\ i \in 1 .. m + l /\ i <= m
      OBVIOUS
    <2>5. \A i \in 1 .. l : /\ m + i \in 1 .. m + l + n /\ m + i <= m + l
                            /\ m + i \in 1 .. m + l /\ ~(m + i <= m) /\ m + i - m = i
      OBVIOUS
    <2>6. \A i \in 1 .. n : /\ m + l + i \in 1 .. m + l + n /\ ~(m + l + i <= m + l)
                            /\ m + l + i - (m + l) = i
      OBVIOUS
    <2>7. \A i \in 1 .. m : t[i] = x[i]
      BY <2>2, <2>3, <2>4
    <2>8. \A i \in 1 .. l : t[m + i] = d[i]
      BY <2>2, <2>3, <2>5
    <2>9. \A i \in 1 .. n : t[m + l + i] = y[i]
      BY <2>3, <2>6
    <2> QED
      BY <2>3, <2>7, <2>8, <2>9
  <1>5. ASSUME NEW i \in 1 .. n
        PROVE  OccursAt(t, d, m + l + i) <=> OccursAt(y, d, i)
    <2>1. m + l + i \in 1 .. Len(t)
      BY <1>4
    <2>2. OccursAt(t, d, m + l + i) <=> /\ m + l + i + l - 1 <= m + l + n
                                        /\ \A j \in 1 .. l : t[m + l + i + j - 1] = d[j]
      <3>1. OccursAt(t, d, m + l + i) <=> Matches(t, d, m + l + i)
        BY <1>2, <1>4, <2>1, OccursMeans
      <3> QED
        BY <1>2, <1>4, <3>1 DEF Matches
    <2>3. OccursAt(y, d, i) <=> /\ i + l - 1 <= n
                                /\ \A j \in 1 .. l : y[i + j - 1] = d[j]
      <3>1. OccursAt(y, d, i) <=> Matches(y, d, i)
        BY <1>2, <1>3, OccursMeans
      <3> QED
        BY <1>2, <1>3, <3>1 DEF Matches
    <2>4. ASSUME i + l - 1 <= n, NEW j \in 1 .. l
          PROVE  t[m + l + i + j - 1] = y[i + j - 1]
      <3>1. PICK k \in 1 .. n : k = i + j - 1 /\ m + l + k = m + l + i + j - 1
        BY <2>4
      <3> QED
        BY <1>4, <3>1
    <2>5. m + l + i + l - 1 <= m + l + n <=> i + l - 1 <= n
      OBVIOUS
    <2> QED
      BY <2>2, <2>3, <2>4, <2>5
  <1>6. ASSUME NEW i \in 1 .. m
        PROVE  OccursAt(t, d, i) <=> OccursAt(x, d, i)
    <2>1. i \in 1 .. Len(t)
      BY <1>4
    <2>2. OccursAt(t, d, i) <=> /\ i + l - 1 <= m + l + n
                                /\ \A j \in 1 .. l : t[i + j - 1] = d[j]
      <3>1. OccursAt(t, d, i) <=> Matches(t, d, i)
        BY <1>2, <1>4, <2>1, OccursMeans
      <3> QED
        BY <1>2, <1>4, <3>1 DEF Matches
    <2>3. OccursAt(x, d, i) <=> /\ i + l - 1 <= m
                                /\ \A j \in 1 .. l : x[i + j - 1] = d[j]
      <3>1. OccursAt(x, d, i) <=> Matches(x, d, i)
        BY <1>1, <1>2, OccursMeans
      <3> QED
        BY <1>1, <1>2, <3>1 DEF Matches
    <2>4. OccursAt(t, d, i) => i + l - 1 <= m
      BY <1>1, <1>2
    <2>5. ASSUME i + l - 1 <= m, NEW j \in 1 .. l PROVE t[i + j - 1] = x[i + j - 1]
      <3>1. i + j - 1 \in 1 .. m
        BY <2>5
      <3> QED
        BY <1>4, <3>1
    <2>6. i + l - 1 <= m => i + l - 1 <= m + l + n
      OBVIOUS
    <2> QED
      BY <2>2, <2>3, <2>4, <2>5, <2>6
  <1>7. PICK p : Pieces(p, t, d, S)
    BY <1>4, PiecesExist
  <1>8. PICK q : Pieces(q, y, d, S)
    BY PiecesExist
  <1>9. PICK r : Pieces(r, x, d, S)
    BY PiecesExist
  <1>10. /\ p[m + l + n + 1] = << <<>> >> /\ Split(t, d) = p[1]
         /\ \A i \in 1 .. m + l + n :
               p[i] = IF OccursAt(t, d, i) THEN Cons(<<>>, p[i + l])
                      ELSE Cons(<<t[i]>> \o Head(p[i + 1]), Tail(p[i + 1]))
    BY <1>2, <1>4, <1>7, Zenon DEF Pieces
  <1>11. /\ q[n + 1] = << <<>> >> /\ Split(y, d) = q[1]
         /\ \A i \in 1 .. n :
               q[i] = IF OccursAt(y, d, i) THEN Cons(<<>>, q[i + l])
                      ELSE Cons(<<y[i]>> \o Head(q[i + 1]), Tail(q[i + 1]))
         /\ q \in [1 .. n + 1 -> Seq(Seq(S)) \ {<<>>}]
    BY <1>2, <1>3, <1>8, Zenon DEF Pieces
  <1>12. /\ r[m + 1] = << <<>> >> /\ Split(x, d) = r[1]
         /\ \A i \in 1 .. m :
               r[i] = IF OccursAt(x, d, i) THEN Cons(<<>>, r[i + l])
                      ELSE Cons(<<x[i]>> \o Head(r[i + 1]), Tail(r[i + 1]))
         /\ r \in [1 .. m + 1 -> Seq(Seq(S)) \ {<<>>}]
    BY <1>1, <1>2, <1>9, Zenon DEF Pieces
  \* After the delimiter, the pieces are those of y.
  <1> DEFINE Same == {k \in Nat : \A i \in 1 .. n + 1 : n + 1 - k <= i => p[m + l + i] = q[i]}
  <1>13. 0 \in Same
    <2>1. \A i \in 1 .. n + 1 : n + 1 - 0 <= i => i = n + 1 /\ m + l + i = m + l + n + 1
      OBVIOUS
    <2> QED
      BY <1>10, <1>11, <2>1
  <1>14. ASSUME NEW k \in Nat, k \in Same PROVE k + 1 \in Same
    <2> SUFFICES ASSUME NEW i \in 1 .. n + 1, n + 1 - (k + 1) <= i PROVE p[m + l + i] = q[i]
      OBVIOUS
    <2>1. CASE n + 1 - k <= i
      BY <1>14, <2>1
    <2>2. CASE ~(n + 1 - k <= i)
      <3>1. i \in 1 .. n /\ m + l + i \in 1 .. m + l + n
        BY <2>2
      <3>2. p[m + l + i + 1] = q[i + 1]
        <4>1. i + 1 \in 1 .. n + 1 /\ n + 1 - k <= i + 1 /\ m + l + (i + 1) = m + l + i + 1
          BY <3>1
        <4> QED
          BY <1>14, <4>1
      <3>3. OccursAt(y, d, i) => p[m + l + i + l] = q[i + l]
        <4> SUFFICES ASSUME OccursAt(y, d, i) PROVE p[m + l + i + l] = q[i + l]
          OBVIOUS
        <4>1. i + l - 1 <= n
          BY <1>2, <1>3 DEF OccursAt
        <4>2. i + l \in 1 .. n + 1 /\ n + 1 - k <= i + l /\ m + l + (i + l) = m + l + i + l
          BY <1>2, <2>2, <4>1
        <4> QED
          BY <1>14, <4>2
      <3>4. t[m + l + i] = y[i] /\ (OccursAt(t, d, m + l + i) <=> OccursAt(y, d, i))
        BY <1>4, <1>5, <3>1
      <3> QED
        BY <1>10, <1>11, <3>1, <3>2, <3>3, <3>4
    <2> QED
      BY <2>1, <2>2
  <1>15. p[m + l + 1] = q[1]
    <2>1. n \in Same
      <3> HIDE DEF Same
      <3> QED
        BY <1>13, <1>14, Induction
    <2>2. 1 \in 1 .. n + 1 /\ n + 1 - n <= 1
      OBVIOUS
    <2> QED
      BY <2>1, <2>2
  <1>16. PICK w \in Seq(Seq(S)) : w = q[1]
    <2>1. 1 \in 1 .. n + 1
      OBVIOUS
    <2> QED
      BY <1>11, <2>1
  <1>17. p[m + 1] = Cons(<<>>, w)
    <2>1. m + 1 \in 1 .. m + l + n /\ m + 1 + l = m + l + 1
      BY <1>2
    <2>2. OccursAt(t, d, m + 1)
      <3>1. m + 1 \in 1 .. Len(t) /\ m + 1 + l - 1 <= m + l + n
        BY <1>4, <2>1
      <3>2. \A j \in 1 .. l : m + 1 + j - 1 = m + j
        OBVIOUS
      <3>3. \A j \in 1 .. l : t[m + 1 + j - 1] = d[j]
        BY <1>4, <3>2
      <3> QED
        <4>1. Matches(t, d, m + 1)
          BY <1>2, <1>4, <3>1, <3>3 DEF Matches
        <4> QED
          BY <1>2, <1>4, <3>1, <4>1, OccursMeans
    <2> QED
      BY <1>10, <1>15, <1>16, <2>1, <2>2
  \* Before it, they are those of x and then those of y.
  <1> DEFINE More == {k \in Nat : \A i \in 1 .. m + 1 : m + 1 - k <= i => p[i] = Then(r[i], w)}
  <1>18. 0 \in More
    <2>1. \A i \in 1 .. m + 1 : m + 1 - 0 <= i => i = m + 1
      OBVIOUS
    <2>2. Then(<< <<>> >>, w) = Cons(<<>>, w)
      BY DEF Then, Cons
    <2> QED
      BY <1>12, <1>17, <2>1, <2>2
  <1>19. ASSUME NEW k \in Nat, k \in More PROVE k + 1 \in More
    <2>3. k + 1 \in Nat
      OBVIOUS
    <2> SUFFICES ASSUME NEW i \in 1 .. m + 1, m + 1 - (k + 1) <= i PROVE p[i] = Then(r[i], w)
      BY <2>3, Zenon
    <2>1. CASE m + 1 - k <= i
      BY <1>19, <2>1
    <2>2. CASE ~(m + 1 - k <= i)
      <3>1. i \in 1 .. m /\ i \in 1 .. m + l + n
        BY <2>2
      <3>2. /\ p[i + 1] = Then(r[i + 1], w) /\ r[i + 1] \in Seq(Seq(S)) \ {<<>>}
        <4>1. i + 1 \in 1 .. m + 1 /\ m + 1 - k <= i + 1
          BY <3>1
        <4> QED
          BY <1>12, <1>19, <4>1
      <3>3. PICK z \in Seq(Seq(S)) : z = r[i + 1] /\ z # <<>>
        BY <3>2
      <3>4. OccursAt(x, d, i) => p[i] = Then(r[i], w)
        <4> SUFFICES ASSUME OccursAt(x, d, i) PROVE p[i] = Then(r[i], w)
          OBVIOUS
        <4>1. i + l - 1 <= m
          BY <1>1, <1>2 DEF OccursAt
        <4>2. i + l \in 1 .. m + 1 /\ m + 1 - k <= i + l
          BY <1>2, <2>2, <4>1
        <4>3. PICK v \in Seq(Seq(S)) : v = r[i + l] /\ p[i + l] = Then(v, w)
          BY <1>12, <1>19, <4>2
        <4>4. p[i] = Cons(<<>>, Then(v, w)) /\ r[i] = Cons(<<>>, v)
          BY <1>6, <1>10, <1>12, <3>1, <4>3
        <4>5. PICK e \in Seq(S) : e = <<>>
          <5>1. <<>> \in Seq(S)
            OBVIOUS
          <5> QED
            BY <5>1
        <4>6. Cons(e, Then(v, w)) = Then(Cons(e, v), w)
          BY ConsThen
        <4> QED
          BY <4>4, <4>5, <4>6
      <3>5. ~OccursAt(x, d, i) => p[i] = Then(r[i], w)
        <4> SUFFICES ASSUME ~OccursAt(x, d, i) PROVE p[i] = Then(r[i], w)
          OBVIOUS
        <4>1. p[i] = Cons(<<t[i]>> \o Head(Then(z, w)), Tail(Then(z, w)))
          BY <1>6, <1>10, <3>1, <3>2, <3>3
        <4>2. r[i] = Cons(<<x[i]>> \o Head(z), Tail(z)) /\ t[i] = x[i]
          BY <1>4, <1>12, <3>1, <3>3
        <4>3. Head(Then(z, w)) = Head(z) /\ Tail(Then(z, w)) = Then(Tail(z), w)
          BY <3>3, ConsThen, <1>4
        <4>4. PICK v \in Seq(S) : v = <<x[i]>> \o Head(z)
          <5>1. <<x[i]>> \in Seq(S)
            <6>1. x[i] \in S
              BY <1>1, <3>1, ElementOfSeq
            <6> QED
              BY <6>1
          <5>2. Head(z) \in Seq(S)
            BY <3>3, HeadTailProperties
          <5>3. <<x[i]>> \o Head(z) \in Seq(S)
            BY <5>1, <5>2, ConcatProperties
          <5> QED
            BY <5>3
        <4>5. PICK u \in Seq(Seq(S)) : u = Tail(z)
          BY <3>3, HeadTailProperties
        <4>6. Cons(v, Then(u, w)) = Then(Cons(v, u), w)
          BY ConsThen
        <4> QED
          BY <4>1, <4>2, <4>3, <4>4, <4>5, <4>6
      <3> QED
        BY <3>4, <3>5
    <2> QED
      BY <2>1, <2>2
  <1>20. p[1] = Then(r[1], w)
    <2>1. m \in More
      <3> HIDE DEF More
      <3> QED
        BY <1>18, <1>19, Induction
    <2>2. 1 \in 1 .. m + 1 /\ m + 1 - m <= 1
      OBVIOUS
    <2> QED
      BY <2>1, <2>2
  <1> QED
    BY <1>10, <1>11, <1>12, <1>16, <1>20

-----------------------------------------------------------------------------
(* Sequences without the elements equal to one.                            *)

(* What is kept after y.                                                   *)
Spared(kept, y, e) == IF y = e THEN kept ELSE Append(kept, y)

(* Without goes through a sequence for each element.                       *)
Sparing(g, n, t, e) ==
    /\ g[0] = <<>>
    /\ \A i \in 1 .. n : g[i] = Spared(g[i - 1], t[i], e)
    /\ Without(t, e) = g[n]

LEMMA WithoutSteps ==
    ASSUME NEW e, NEW n \in Nat, NEW t, DOMAIN t = 1 .. n, NEW T, <<>> \in T,
           \A x \in T : \A i \in 1 .. n : Spared(x, t[i], e) \in T
    PROVE  \E g : Sparing(g, n, t, e)
  <1> DEFINE Next1(x, i) == Spared(x, t[i], e)
             O == [p \in T \X (1 .. n) |-> Next1(p[1], p[2])]
             Is(f) == f = [s \in SUBSET (DOMAIN t) |->
                             IF s = {} THEN <<>> ELSE Next1(f[s \ {Max(s)}], Max(s))]
             iter == CHOOSE f : Is(f)
             g == [i \in 0 .. n |-> iter[1 .. i]]
  <1>1. Without(t, e) = iter[DOMAIN t]
    BY DEF FoldLeft, MapThenFoldSet, Without, Spared
  <1>2. \A x \in T : \A i \in 1 .. n : Next1(x, i) \in T
    OBVIOUS
  <1>3. \A x, i : Next1(x, i) = Spared(x, t[i], e)
    OBVIOUS
  <1> HIDE DEF Next1
  <1>4. O \in [T \X (1 .. n) -> T]
    BY <1>2
  <1>5. PICK f : IsFold(f, n, T, <<>>, O)
    <2> HIDE DEF O
    <2> QED
      BY <1>4, FoldExists
  <1>6. Is(f)
    <2>1. ASSUME NEW s \in SUBSET (1 .. n), s # {}
          PROVE  f[s] = Next1(f[s \ {Max(s)}], Max(s))
      <3>1. Max(s) \in 1 .. n
        BY <2>1, LargestOf
      <3>2. <<f[s \ {Max(s)}], Max(s)>> \in T \X (1 .. n)
        <4>1. f[s \ {Max(s)}] \in T
          BY <1>5, <2>1 DEF IsFold
        <4> QED
          BY <3>1, <4>1
      <3> QED
        BY <1>5, <2>1, <3>2 DEF IsFold
    <2> QED
      BY <1>5, <2>1 DEF IsFold
  <1>7. Is(iter)
    <2> HIDE DEF Is
    <2> QED
      BY <1>6
  <1> HIDE DEF iter
  <1>8. g[0] = <<>>
    <2>1. 1 .. 0 = {} /\ {} \in SUBSET (DOMAIN t)
      OBVIOUS
    <2> QED
      BY <1>7, <2>1
  <1>9. ASSUME NEW i \in 1 .. n PROVE g[i] = Spared(g[i - 1], t[i], e)
    <2>1. iter[1 .. i] = Next1(iter[(1 .. i) \ {Max(1 .. i)}], Max(1 .. i))
      BY <1>7, Segments
    <2>2. iter[1 .. i] = Next1(iter[1 .. (i - 1)], i)
      BY <2>1, Segments
    <2> QED
      BY <1>3, <2>2
  <1>10. Without(t, e) = g[n]
    BY <1>1
  <1> HIDE DEF g
  <1>11. Sparing(g, n, t, e)
    BY <1>8, <1>9, <1>10 DEF Sparing
  <1> QED
    BY <1>11

(* Without, as it grows with the sequence.                                 *)
LEMMA WithoutGrows ==
    ASSUME NEW S, NEW s \in Seq(S), NEW e
    PROVE  /\ Without(s, e) \in Seq(S)
           /\ \E g : Sparing(g, Len(s), s, e)
  <1>1. PICK n \in Nat : n = Len(s) /\ DOMAIN s = 1 .. n
    BY LenProperties
  <1>2. <<>> \in Seq(S)
    OBVIOUS
  <1>3. \A i \in 1 .. n : s[i] \in S
    BY <1>1, ElementOfSeq
  <1>4. \A x \in Seq(S) : \A i \in 1 .. n :
           Spared(x, s[i], e) \in Seq(S)
    BY <1>3, AppendProperties DEF Spared
  <1>5. PICK g : Sparing(g, n, s, e)
    BY <1>1, <1>2, <1>4, WithoutSteps
  <1> DEFINE Good == {k \in Nat : k <= n => g[k] \in Seq(S)}
  <1>6. 0 \in Good
    BY <1>2, <1>5 DEF Sparing
  <1>7. ASSUME NEW k \in Nat, k \in Good PROVE k + 1 \in Good
    <2> SUFFICES ASSUME k + 1 <= n PROVE g[k + 1] \in Seq(S)
      OBVIOUS
    <2>1. k + 1 \in 1 .. n /\ k + 1 - 1 = k
      OBVIOUS
    <2>2. g[k + 1] = Spared(g[k], s[k + 1], e)
      BY <1>5, <2>1 DEF Sparing
    <2>3. g[k] \in Seq(S)
      BY <1>7
    <2> QED
      BY <1>4, <2>1, <2>2, <2>3
  <1>8. n \in Good
    <2> HIDE DEF Good
    <2> QED
      BY <1>6, <1>7, Induction
  <1>9. Without(s, e) = g[n]
    BY <1>5 DEF Sparing
  <1> QED
    BY <1>1, <1>5, <1>8, <1>9

(* One element more.                                                       *)
LEMMA WithoutAppend ==
    ASSUME NEW S, NEW s \in Seq(S), NEW y \in S, NEW e
    PROVE  Without(Append(s, y), e) = IF y = e THEN Without(s, e) ELSE Append(Without(s, e), y)
  <1>1. PICK n \in Nat : n = Len(s)
    BY LenProperties
  <1>2. PICK t \in Seq(S) : t = Append(s, y)
    BY AppendProperties
  <1>3. Len(t) = n + 1 /\ t[n + 1] = y /\ \A i \in 1 .. n : t[i] = s[i]
    BY <1>1, <1>2, AppendProperties
  <1>4. PICK g : Sparing(g, n, s, e)
    BY <1>1, WithoutGrows
  <1>5. PICK h : Sparing(h, n + 1, t, e)
    BY <1>3, WithoutGrows
  <1> DEFINE Good == {k \in Nat : k <= n => g[k] = h[k]}
  <1>6. 0 \in Good
    BY <1>4, <1>5 DEF Sparing
  <1>7. ASSUME NEW k \in Nat, k \in Good PROVE k + 1 \in Good
    <2> SUFFICES ASSUME k + 1 <= n PROVE g[k + 1] = h[k + 1]
      OBVIOUS
    <2>1. k + 1 \in 1 .. n /\ k + 1 \in 1 .. n + 1 /\ k + 1 - 1 = k
      OBVIOUS
    <2>2. g[k + 1] = Spared(g[k], s[k + 1], e)
      BY <1>4, <2>1 DEF Sparing
    <2>3. h[k + 1] = Spared(h[k], t[k + 1], e)
      BY <1>5, <2>1 DEF Sparing
    <2>4. g[k] = h[k]
      BY <1>7
    <2> QED
      BY <1>3, <2>1, <2>2, <2>3, <2>4
  <1>8. n \in Good
    <2> HIDE DEF Good
    <2> QED
      BY <1>6, <1>7, Induction
  <1>9. Without(s, e) = g[n]
    BY <1>4 DEF Sparing
  <1>10. Without(t, e) = h[n + 1]
    BY <1>5 DEF Sparing
  <1>11. h[n + 1] = Spared(h[n], y, e)
    <2>1. n + 1 \in 1 .. n + 1 /\ n + 1 - 1 = n
      OBVIOUS
    <2>2. h[n + 1] = Spared(h[n], t[n + 1], e)
      BY <1>5, <2>1 DEF Sparing
    <2> QED
      BY <1>3, <2>2
  <1> QED
    BY <1>2, <1>8, <1>9, <1>10, <1>11 DEF Spared

LEMMA WithoutNone ==
    ASSUME NEW e
    PROVE  Without(<<>>, e) = <<>>
  <1>1. PICK s \in Seq({}) : s = <<>> /\ Len(s) = 0
    BY EmptySeq
  <1>2. PICK g : Sparing(g, 0, s, e)
    BY <1>1, WithoutGrows
  <1> QED
    BY <1>1, <1>2 DEF Sparing

(* One after the other.                                                    *)
LEMMA WithoutThen ==
    ASSUME NEW S, NEW s \in Seq(S), NEW r \in Seq(S), NEW e
    PROVE  Without(Then(s, r), e) = Then(Without(s, e), Without(r, e))
  <1>1. PICK n \in Nat : n = Len(r)
    BY LenProperties
  <1>2. PICK v \in Seq(S) : v = Without(s, e)
    BY WithoutGrows
  <1> DEFINE R(k) == SubSeq(r, 1, k)
             Good == {k \in Nat : k <= n =>
                         Without(Then(s, R(k)), e) = Then(v, Without(R(k), e))}
  <1>3. 0 \in Good
    <2>1. R(0) = <<>>
      BY SubSeqEmpty
    <2>2. PICK z \in Seq(S) : z = <<>>
      <3>1. <<>> \in Seq(S)
        OBVIOUS
      <3> QED
        BY <3>1
    <2>3. Then(s, z) = s /\ Then(v, z) = v /\ Without(z, e) = z
      BY <2>2, ConcatEmptySeq, WithoutNone DEF Then
    <2> QED
      BY <1>2, <2>1, <2>2, <2>3
  <1>4. ASSUME NEW k \in Nat, k \in Good PROVE k + 1 \in Good
    <2>1. k + 1 \in Nat
      OBVIOUS
    <2> SUFFICES ASSUME k + 1 <= n
                 PROVE  Without(Then(s, R(k + 1)), e) = Then(v, Without(R(k + 1), e))
      BY <2>1, Zenon
    <2>2. PICK q \in Seq(S) : q = R(k)
      <3>1. 0 < 1 /\ 1 <= k + 1 /\ k <= Len(r) /\ 1 \in Nat
        BY <1>1
      <3>2. R(k) \in Seq(S)
        BY <3>1, Piece
      <3> QED
        BY <3>2
    <2>3. PICK y \in S : y = r[k + 1]
      <3>1. k + 1 \in 1 .. Len(r)
        BY <1>1
      <3> QED
        BY <3>1, ElementOfSeq
    <2>4. PICK a \in Seq(S) : a = <<y>>
      <3>1. <<y>> \in Seq(S)
        BY <2>3
      <3> QED
        BY <3>1
    <2>5. R(k + 1) = Then(q, a)
      <3>1. k + 1 \in 1 .. Len(r)
        BY <1>1
      <3>2. SubSeq(r, 1, k + 1) = Append(SubSeq(r, 1, k), r[k + 1])
        BY <3>1, PrefixGrows
      <3> QED
        BY <2>2, <2>3, <2>4, <3>2, AppendIsConcat DEF Then
    <2>6. PICK u \in Seq(S) : u = Then(s, q)
      BY ThenType
    <2>7. PICK w \in Seq(S) : w = Without(q, e)
      BY WithoutGrows
    <2>8. Then(s, Then(q, a)) = Then(u, a)
      BY <2>6, ThenThen
    <2>9. Then(u, a) = Append(u, y) /\ Then(q, a) = Append(q, y)
      BY <2>4, AppendIsConcat DEF Then
    <2>10. /\ Without(Append(u, y), e) = IF y = e THEN Without(u, e) ELSE Append(Without(u, e), y)
           /\ Without(Append(q, y), e) = IF y = e THEN w ELSE Append(w, y)
      BY <2>7, WithoutAppend
    <2>11. Without(u, e) = Then(v, w)
      <3>1. k <= n
        OBVIOUS
      <3> QED
        BY <1>4, <2>2, <2>6, <2>7, <3>1
    <2>12. Append(Then(v, w), y) = Then(v, Append(w, y))
      <3>1. Then(Then(v, w), a) = Then(v, Then(w, a))
        BY ThenThen
      <3>2. Then(v, w) \in Seq(S)
        BY ThenType
      <3>3. Then(Then(v, w), a) = Append(Then(v, w), y) /\ Then(w, a) = Append(w, y)
        BY <2>4, <3>2, AppendIsConcat DEF Then
      <3> QED
        BY <3>1, <3>3
    <2> QED
      BY <2>5, <2>8, <2>9, <2>10, <2>11, <2>12
  <1>5. n \in Good
    <2> HIDE DEF Good
    <2> QED
      BY <1>3, <1>4, Induction
  <1>6. R(n) = r
    BY <1>1, SubSeqFull
  <1>7. n <= n /\ Without(Then(s, R(n)), e) = Then(v, Without(R(n), e))
    BY <1>5
  <1> QED
    BY <1>2, <1>6, <1>7

-----------------------------------------------------------------------------
(* Suffixes, and texts made of others.                                     *)

(* A suffix is where its symbols are.                                      *)
EndsAs(t, d) == /\ Len(d) <= Len(t)
                /\ \A j \in 1 .. Len(d) : t[Len(t) - Len(d) + j] = d[j]

LEMMA SuffixMeans ==
    ASSUME NEW S, NEW t \in Seq(S), NEW d \in Seq(S)
    PROVE  IsSuffix(d, t) <=> EndsAs(t, d)
  <1>1. PICK n \in Nat : n = Len(t)
    BY LenProperties
  <1>2. PICK l \in Nat : l = Len(d)
    BY LenProperties
  <1>3. PICK u : u = Reverse(t)
    OBVIOUS
  <1>4. PICK e : e = Reverse(d)
    OBVIOUS
  <1>5. u \in Seq(S) /\ Len(u) = n /\ \A i \in 1 .. n : u[i] = t[n - i + 1]
    <2>1. \A i \in 1 .. n : n - i + 1 \in 1 .. n
      OBVIOUS
    <2>2. \A i \in 1 .. n : t[n - i + 1] \in S
      BY <1>1, <2>1, ElementOfSeq
    <2>3. u = [i \in 1 .. n |-> t[n - i + 1]]
      BY <1>1, <1>3 DEF Reverse
    <2> QED
      BY <2>2, <2>3, IsASeq
  <1>6. e \in Seq(S) /\ Len(e) = l /\ \A i \in 1 .. l : e[i] = d[l - i + 1]
    <2>1. \A i \in 1 .. l : l - i + 1 \in 1 .. l
      OBVIOUS
    <2>2. \A i \in 1 .. l : d[l - i + 1] \in S
      BY <1>2, <2>1, ElementOfSeq
    <2>3. e = [i \in 1 .. l |-> d[l - i + 1]]
      BY <1>2, <1>4 DEF Reverse
    <2> QED
      BY <2>2, <2>3, IsASeq
  <1>7. IsSuffix(d, t) <=> l <= n /\ SubSeq(e, 1, l) = SubSeq(u, 1, l)
    BY <1>3, <1>4, <1>5, <1>6 DEF IsSuffix, IsPrefix
  <1>8. CASE l <= n
    <2>1. SubSeq(e, 1, l) = e
      BY <1>6, SubSeqFull
    <2>2. PICK w : w = SubSeq(u, 1, l)
      OBVIOUS
    <2>3. w \in Seq(S) /\ Len(w) = l /\ \A i \in 1 .. l : w[i] = u[i]
      <3>1. 0 < 1 /\ 1 <= l + 1 /\ l <= Len(u) /\ 1 \in Nat /\ l + 1 - 1 = l
        BY <1>5, <1>8
      <3>2. /\ w \in Seq(S) /\ Len(w) = l + 1 - 1
            /\ \A i \in 1 .. l + 1 - 1 : w[i] = u[i + 1 - 1]
        BY <1>5, <2>2, <3>1, Piece
      <3>3. \A i \in 1 .. l : i + 1 - 1 = i
        OBVIOUS
      <3> QED
        BY <3>1, <3>2, <3>3
    <2>4. e = w <=> \A i \in 1 .. l : e[i] = w[i]
      BY <1>6, <2>3, SeqEqual
    <2>5. \A i \in 1 .. l : e[i] = w[i] <=> d[l - i + 1] = t[n - i + 1]
      <3>1. \A i \in 1 .. l : i \in 1 .. n
        BY <1>8
      <3> QED
        BY <1>5, <1>6, <2>3, <3>1
    <2>6. (\A i \in 1 .. l : d[l - i + 1] = t[n - i + 1])
             <=> \A j \in 1 .. l : t[n - l + j] = d[j]
      <3>1. ASSUME \A i \in 1 .. l : d[l - i + 1] = t[n - i + 1], NEW j \in 1 .. l
            PROVE  t[n - l + j] = d[j]
        <4>1. PICK i \in 1 .. l : i = l - j + 1
          OBVIOUS
        <4>2. l - i + 1 = j /\ n - i + 1 = n - l + j
          BY <4>1
        <4> QED
          BY <3>1, <4>2
      <3>2. ASSUME \A j \in 1 .. l : t[n - l + j] = d[j], NEW i \in 1 .. l
            PROVE  d[l - i + 1] = t[n - i + 1]
        <4>1. PICK j \in 1 .. l : j = l - i + 1
          OBVIOUS
        <4>2. n - l + j = n - i + 1
          BY <4>1
        <4> QED
          BY <3>2, <4>1, <4>2
      <3> QED
        BY <3>1, <3>2
    <2> QED
      BY <1>1, <1>2, <1>7, <1>8, <2>1, <2>2, <2>4, <2>5, <2>6 DEF EndsAs
  <1>9. CASE ~(l <= n)
    BY <1>1, <1>2, <1>7, <1>9 DEF EndsAs
  <1> QED
    BY <1>8, <1>9

(* One sequence more.                                                      *)
LEMMA FlatAppend ==
    ASSUME NEW S, NEW seqs \in Seq(Seq(S)), NEW x \in Seq(S)
    PROVE  /\ FlattenSeq(Append(seqs, x)) = Then(FlattenSeq(seqs), x)
           /\ FlattenSeq(seqs) \in Seq(S)
  <1>1. PICK n \in Nat : n = Len(seqs)
    BY LenProperties
  <1>2. PICK t \in Seq(Seq(S)) : t = Append(seqs, x)
    BY AppendProperties
  <1>3. Len(t) = n + 1 /\ t[n + 1] = x /\ \A i \in 1 .. n : t[i] = seqs[i]
    BY <1>1, <1>2, AppendProperties
  <1>4. PICK g : IsFlattening(g, t, S)
    BY <1>3, FlattenSteps
  <1>5. g[1] = t[1] /\ FlattenSeq(t) = g[n + 1]
        /\ \A i \in 2 .. n + 1 : g[i] = g[i - 1] \o t[i]
    BY <1>3, <1>4 DEF IsFlattening
  <1>6. CASE n = 0
    <2>1. seqs = <<>>
      BY <1>1, <1>6, EmptySeq
    <2>2. FlattenSeq(seqs) = <<>>
      BY <1>1, <1>6, <2>1 DEF FlattenSeq
    <2>3. FlattenSeq(t) = x
      BY <1>3, <1>5, <1>6
    <2>4. Then(<<>>, x) = x
      BY ConcatEmptySeq DEF Then
    <2>5. <<>> \in Seq(S)
      OBVIOUS
    <2> QED
      BY <1>2, <2>2, <2>3, <2>4, <2>5
  <1>7. CASE n # 0
    <2>1. PICK f : IsFlattening(f, seqs, S)
      BY <1>1, <1>7, FlattenSteps
    <2>2. /\ f[1] = seqs[1] /\ FlattenSeq(seqs) = f[n] /\ f \in [1 .. n -> Seq(S)]
          /\ \A i \in 2 .. n : f[i] = f[i - 1] \o seqs[i]
      BY <1>1, <2>1 DEF IsFlattening
    <2> DEFINE Good == {k \in Nat : k + 1 <= n => f[k + 1] = g[k + 1]}
    <2>3. 0 \in Good
      BY <1>3, <1>5, <1>7, <2>2
    <2>4. ASSUME NEW k \in Nat, k \in Good PROVE k + 1 \in Good
      <3>1. k + 1 \in Nat
        OBVIOUS
      <3> SUFFICES ASSUME k + 1 + 1 <= n PROVE f[k + 1 + 1] = g[k + 1 + 1]
        BY <3>1, Zenon
      <3>2. PICK i \in 2 .. n : i = k + 1 + 1 /\ i - 1 = k + 1
        OBVIOUS
      <3>3. i \in 2 .. n + 1 /\ i \in 1 .. n
        OBVIOUS
      <3>4. f[i - 1] = g[i - 1]
        BY <2>4, <3>2
      <3>5. f[i] = f[i - 1] \o seqs[i] /\ g[i] = g[i - 1] \o t[i] /\ t[i] = seqs[i]
        BY <1>3, <1>5, <2>2, <3>3
      <3> QED
        BY <3>2, <3>4, <3>5
    <2>5. f[n] = g[n]
      <3>1. PICK k \in Nat : k + 1 = n
        BY <1>7
      <3>2. k \in Good
        <4> HIDE DEF Good
        <4> QED
          BY <2>3, <2>4, Induction
      <3> QED
        BY <3>1, <3>2
    <2>6. g[n + 1] = g[n] \o x
      <3>1. PICK m \in 2 .. n + 1 : m = n + 1 /\ m - 1 = n
        BY <1>7
      <3>2. g[m] = g[m - 1] \o t[m]
        BY <1>5
      <3> QED
        BY <1>3, <3>1, <3>2
    <2>7. f[n] \in Seq(S)
      BY <1>7, <2>2
    <2> QED
      BY <1>2, <1>5, <2>2, <2>5, <2>6, <2>7 DEF Then
  <1> QED
    BY <1>6, <1>7

LEMMA FlatNone == FlattenSeq(<<>>) = <<>>
  <1>1. Len(<<>>) = 0
    OBVIOUS
  <1> QED
    BY <1>1 DEF FlattenSeq

-----------------------------------------------------------------------------
(* Texts made of texts, and short ones.                                    *)

(* Texts put together are a text.                                          *)
LEMMA FlatText ==
    ASSUME NEW S, NEW n \in Nat, NEW s, s \in [1 .. n -> Seq(S)]
    PROVE  s \in Seq(Seq(S)) /\ Len(s) = n /\ FlattenSeq(s) \in Seq(S)
  <1>1. s \in Seq(Seq(S)) /\ Len(s) = n
    BY IsASeq
  <1>2. CASE n = 0
    <2>1. FlattenSeq(s) = s /\ s = <<>>
      BY <1>1, <1>2, EmptySeq DEF FlattenSeq
    <2> QED
      BY <1>1, <2>1
  <1>3. CASE n # 0
    <2>1. PICK f : IsFlattening(f, s, S)
      BY <1>1, <1>3, FlattenSteps
    <2>2. n \in 1 .. Len(s)
      BY <1>1, <1>3
    <2>3. FlattenSeq(s) = f[n] /\ f[n] \in Seq(S)
      BY <1>1, <2>1, <2>2 DEF IsFlattening
    <2> QED
      BY <1>1, <2>3
  <1> QED
    BY <1>2, <1>3

(* A longer beginning.                                                     *)
LEMMA BeginningGrows ==
    ASSUME NEW S, NEW s \in Seq(S), NEW k \in Nat, k + 1 <= Len(s)
    PROVE  /\ SubSeq(s, 1, k) \in Seq(S) /\ s[k + 1] \in S
           /\ SubSeq(s, 1, k + 1) = Append(SubSeq(s, 1, k), s[k + 1])
           /\ SubSeq(s, 1, k + 1) = Then(SubSeq(s, 1, k), <<s[k + 1]>>)
  <1>1. PICK n \in Nat : n = Len(s)
    BY LenProperties
  <1>2. PICK i \in 1 .. n : i = k + 1 /\ i - 1 = k
    BY <1>1
  <1>3. SubSeq(s, 1, k) \in Seq(S)
    <2>1. 0 < 1 /\ 1 <= k + 1 /\ k <= Len(s) /\ 1 \in Nat
      BY <1>1
    <2> QED
      BY <2>1, Piece
  <1>4. s[i] \in S
    BY <1>1, ElementOfSeq
  <1>5. Append(SubSeq(s, 1, i - 1), s[i]) = SubSeq(s, 1, i)
    BY <1>1, PrefixGrows
  <1>6. Append(SubSeq(s, 1, k), s[i]) = Then(SubSeq(s, 1, k), <<s[i]>>)
    BY <1>3, <1>4, AppendIsConcat DEF Then
  <1> QED
    BY <1>2, <1>3, <1>4, <1>5, <1>6

(* Words as texts.                                                         *)
LEMMA Words ==
    ASSUME NEW S, NEW w \in S, NEW x \in S, NEW y \in S, NEW z \in S
    PROVE  /\ <<>> \in Seq(S) /\ <<w>> \in Seq(S) /\ <<w, x>> \in Seq(S)
           /\ <<w, x, y>> \in Seq(S) /\ <<w, x, y, z>> \in Seq(S)
  OBVIOUS

(* Texts of texts, one after the other.                                    *)
LEMMA FlatThen ==
    ASSUME NEW S, NEW s \in Seq(Seq(S)), NEW r \in Seq(Seq(S))
    PROVE  FlattenSeq(Then(s, r)) = Then(FlattenSeq(s), FlattenSeq(r))
  <1>1. PICK n \in Nat : n = Len(r)
    BY LenProperties
  <1>2. PICK v \in Seq(S) : v = FlattenSeq(s)
    <2>1. PICK x \in Seq(S) : x = <<>>
      BY EmptySeq
    <2>2. FlattenSeq(s) \in Seq(S)
      BY <2>1, FlatAppend
    <2> QED
      BY <2>2
  <1> DEFINE R(k) == SubSeq(r, 1, k)
             Good == {k \in Nat : k <= n =>
                         FlattenSeq(Then(s, R(k))) = Then(v, FlattenSeq(R(k)))}
  <1>3. 0 \in Good
    <2>1. R(0) = <<>>
      BY SubSeqEmpty
    <2>2. PICK z \in Seq(Seq(S)) : z = <<>>
      BY EmptySeq
    <2>3. Then(s, z) = s
      BY <2>2, ConcatEmptySeq DEF Then
    <2>4. FlattenSeq(z) = <<>> /\ Then(v, <<>>) = v
      BY <2>2, FlatNone, ConcatEmptySeq DEF Then
    <2> QED
      BY <1>2, <2>1, <2>2, <2>3, <2>4
  <1>4. ASSUME NEW k \in Nat, k \in Good PROVE k + 1 \in Good
    <2>1. k + 1 \in Nat
      OBVIOUS
    <2> SUFFICES ASSUME k + 1 <= n
                 PROVE  FlattenSeq(Then(s, R(k + 1))) = Then(v, FlattenSeq(R(k + 1)))
      BY <2>1, Zenon
    <2>2. PICK q \in Seq(Seq(S)) : q = R(k)
      <3>1. 0 < 1 /\ 1 <= k + 1 /\ k <= Len(r) /\ 1 \in Nat
        BY <1>1
      <3>2. R(k) \in Seq(Seq(S))
        BY <3>1, Piece
      <3> QED
        BY <3>2
    <2>3. PICK y \in Seq(S) : y = r[k + 1]
      <3>1. k + 1 \in 1 .. Len(r)
        BY <1>1
      <3> QED
        BY <3>1, ElementOfSeq
    <2>4. PICK a \in Seq(Seq(S)) : a = <<y>>
      <3>1. <<y>> \in Seq(Seq(S))
        BY <2>3
      <3> QED
        BY <3>1
    <2>5. R(k + 1) = Append(q, y)
      <3>1. k + 1 \in 1 .. Len(r)
        BY <1>1
      <3>2. SubSeq(r, 1, k + 1) = Append(SubSeq(r, 1, k), r[k + 1])
        BY <3>1, PrefixGrows
      <3> QED
        BY <2>2, <2>3, <3>2
    <2>6. PICK u \in Seq(Seq(S)) : u = Then(s, q)
      BY ThenType
    <2>7. Then(s, Then(q, a)) = Then(u, a)
      BY <2>6, ThenThen
    <2>8. Then(u, a) = Append(u, y) /\ Then(q, a) = Append(q, y)
      BY <2>4, AppendIsConcat DEF Then
    <2>9. PICK w \in Seq(S) : w = FlattenSeq(q)
      BY FlatAppend
    <2>10. /\ FlattenSeq(Append(u, y)) = Then(FlattenSeq(u), y)
           /\ FlattenSeq(Append(q, y)) = Then(w, y)
      BY <2>9, FlatAppend
    <2>11. FlattenSeq(u) = Then(v, w)
      <3>1. k <= n
        OBVIOUS
      <3> QED
        BY <1>4, <2>2, <2>6, <2>9, <3>1
    <2>12. Then(Then(v, w), y) = Then(v, Then(w, y))
      BY ThenThen
    <2> QED
      BY <2>5, <2>7, <2>8, <2>10, <2>11, <2>12
  <1>5. n \in Good
    <2> HIDE DEF Good
    <2> QED
      BY <1>3, <1>4, Induction
  <1>6. R(n) = r
    BY <1>1, SubSeqFull
  <1>7. n <= n /\ FlattenSeq(Then(s, R(n))) = Then(v, FlattenSeq(R(n)))
    BY <1>5
  <1> QED
    BY <1>2, <1>6, <1>7

LEMMA FlatCons ==
    ASSUME NEW S, NEW x \in Seq(S), NEW r \in Seq(Seq(S))
    PROVE  /\ FlattenSeq(Cons(x, r)) = Then(x, FlattenSeq(r))
           /\ FlattenSeq(<<x>>) = x /\ FlattenSeq(r) \in Seq(S)
  <1>1. PICK a \in Seq(Seq(S)) : a = <<x>>
    <2>1. <<x>> \in Seq(Seq(S))
      OBVIOUS
    <2> QED
      BY <2>1
  <1>2. PICK e \in Seq(Seq(S)) : e = <<>>
    BY EmptySeq
  <1>3. Append(e, x) = a
    <2>1. Append(e, x) = e \o <<x>>
      BY AppendIsConcat
    <2> QED
      BY <1>1, <1>2, <2>1, ConcatEmptySeq
  <1>4. FlattenSeq(a) = x
    <2>1. FlattenSeq(Append(e, x)) = Then(FlattenSeq(e), x)
      BY FlatAppend
    <2>2. FlattenSeq(e) = <<>>
      BY <1>2, FlatNone
    <2>3. Then(<<>>, x) = x
      BY ConcatEmptySeq DEF Then
    <2> QED
      BY <1>3, <2>1, <2>2, <2>3
  <1>5. FlattenSeq(Then(a, r)) = Then(FlattenSeq(a), FlattenSeq(r))
    BY FlatThen
  <1>6. Cons(x, r) = Then(a, r)
    BY <1>1 DEF Cons, Then
  <1>7. FlattenSeq(r) \in Seq(S)
    BY FlatAppend
  <1> QED
    BY <1>1, <1>4, <1>5, <1>6, <1>7

(* A sequence from its k-th element on.                                    *)
LEMMA EndShrinks ==
    ASSUME NEW S, NEW s \in Seq(S), NEW k \in 1 .. Len(s)
    PROVE  SubSeq(s, k + 1, Len(s)) \in Seq(S) /\ s[k] \in S
              /\ SubSeq(s, k, Len(s)) = Cons(s[k], SubSeq(s, k + 1, Len(s)))
  <1>1. PICK n \in Nat : n = Len(s)
    BY LenProperties
  <1>2. n \in k .. Len(s)
    BY <1>1
  <1>3. /\ SubSeq(s, k + 1, n) \in Seq(S)
        /\ <<s[k]>> \o SubSeq(s, k + 1, n) = SubSeq(s, k, n)
    BY <1>2, PrefixShrinks
  <1>4. s[k] \in S
    BY ElementOfSeq
  <1> QED
    BY <1>1, <1>3, <1>4 DEF Cons

LEMMA Triple ==
    ASSUME NEW a, NEW p, NEW q
    PROVE  <<a>> \o <<p, q>> = <<a, p, q>>
  <1>1. PICK x \in Seq({a, p, q}) : x = <<a>> /\ Len(x) = 1 /\ x[1] = a
    <2>1. <<a>> \in Seq({a, p, q}) /\ Len(<<a>>) = 1 /\ <<a>>[1] = a
      OBVIOUS
    <2> QED
      BY <2>1
  <1>2. PICK y \in Seq({a, p, q}) : y = <<p, q>> /\ Len(y) = 2 /\ y[1] = p /\ y[2] = q
    <2>1. <<p, q>> \in Seq({a, p, q}) /\ Len(<<p, q>>) = 2
          /\ <<p, q>>[1] = p /\ <<p, q>>[2] = q
      OBVIOUS
    <2> QED
      BY <2>1
  <1>3. PICK z \in Seq({a, p, q}) : z = <<a, p, q>> /\ Len(z) = 3
                                   /\ z[1] = a /\ z[2] = p /\ z[3] = q
    <2>1. <<a, p, q>> \in Seq({a, p, q}) /\ Len(<<a, p, q>>) = 3
          /\ <<a, p, q>>[1] = a /\ <<a, p, q>>[2] = p /\ <<a, p, q>>[3] = q
      OBVIOUS
    <2> QED
      BY <2>1
  <1>4. PICK w \in Seq({a, p, q}) : /\ w = Then(x, y) /\ Len(w) = 3
                                   /\ w[1] = a /\ w[2] = p /\ w[3] = q
    <2>1. /\ Then(x, y) \in Seq({a, p, q}) /\ Len(Then(x, y)) = Len(x) + Len(y)
          /\ \A i \in 1 .. Len(x) + Len(y) :
                Then(x, y)[i] = IF i <= Len(x) THEN x[i] ELSE y[i - Len(x)]
      BY ThenType
    <2>2. PICK w \in Seq({a, p, q}) : w = Then(x, y)
      BY <2>1
    <2>3. /\ Len(w) = 3
          /\ \A i \in 1 .. 3 : w[i] = IF i <= 1 THEN x[i] ELSE y[i - 1]
      BY <1>1, <1>2, <2>1, <2>2
    <2>4. w[1] = x[1] /\ w[2] = y[1] /\ w[3] = y[2]
      BY <2>3
    <2> QED
      BY <1>1, <1>2, <2>2, <2>3, <2>4
  <1>5. w = z
    <2>1. \A i \in 1 .. 3 : i = 1 \/ i = 2 \/ i = 3
      OBVIOUS
    <2>2. \A i \in 1 .. 3 : w[i] = z[i]
      BY <1>3, <1>4, <2>1
    <2> QED
      BY <1>3, <1>4, <2>2, SeqEqual
  <1> QED
    BY <1>1, <1>2, <1>3, <1>4, <1>5 DEF Then

(* Nothing is left to leave out.                                           *)
LEMMA WithoutTwice ==
    ASSUME NEW S, NEW s \in Seq(S), NEW e
    PROVE  Without(Without(s, e), e) = Without(s, e)
  <1>1. PICK n \in Nat : n = Len(s)
    BY LenProperties
  <1> DEFINE Good == {k \in Nat : k <= n =>
                 Without(Without(SubSeq(s, 1, k), e), e) = Without(SubSeq(s, 1, k), e)}
  <1>2. 0 \in Good
    <2>1. SubSeq(s, 1, 0) = <<>>
      BY SubSeqEmpty
    <2> QED
      BY <2>1, WithoutNone
  <1>3. ASSUME NEW k \in Nat, k \in Good PROVE k + 1 \in Good
    <2>1. k + 1 \in Nat
      OBVIOUS
    <2> SUFFICES ASSUME k + 1 <= n
                 PROVE  Without(Without(SubSeq(s, 1, k + 1), e), e)
                           = Without(SubSeq(s, 1, k + 1), e)
      BY <2>1, Zenon
    <2>2. /\ SubSeq(s, 1, k) \in Seq(S) /\ s[k + 1] \in S
          /\ SubSeq(s, 1, k + 1) = Append(SubSeq(s, 1, k), s[k + 1])
      BY <1>1, BeginningGrows
    <2>3. PICK q \in Seq(S) : q = SubSeq(s, 1, k)
      BY <2>2
    <2>4. PICK y \in S : y = s[k + 1]
      BY <2>2
    <2>5. Without(Without(q, e), e) = Without(q, e)
      <3>1. k <= n
        OBVIOUS
      <3> QED
        BY <1>3, <2>3, <3>1
    <2>6. PICK w \in Seq(S) : w = Without(q, e)
      BY WithoutGrows
    <2>7. Without(Append(q, y), e) = IF y = e THEN w ELSE Append(w, y)
      BY <2>6, WithoutAppend
    <2>8. Without(Append(w, y), e) = IF y = e THEN Without(w, e) ELSE Append(Without(w, e), y)
      BY WithoutAppend
    <2> QED
      BY <2>2, <2>3, <2>4, <2>5, <2>6, <2>7, <2>8
  <1>4. n \in Good
    <2> HIDE DEF Good
    <2> QED
      BY <1>2, <1>3, Induction
  <1>5. SubSeq(s, 1, n) = s
    BY <1>1, SubSeqFull
  <1>6. n <= n /\ Without(Without(SubSeq(s, 1, n), e), e) = Without(SubSeq(s, 1, n), e)
    BY <1>4
  <1> QED
    BY <1>5, <1>6

(* Empty texts add nothing.                                               *)
LEMMA FlatNonEmpty ==
    ASSUME NEW S, NEW s \in Seq(Seq(S))
    PROVE  FlattenSeq(NonEmpty(s)) = FlattenSeq(s)
  <1>1. PICK n \in Nat : n = Len(s)
    BY LenProperties
  <1> DEFINE Good == {k \in Nat : k <= n =>
                 FlattenSeq(NonEmpty(SubSeq(s, 1, k))) = FlattenSeq(SubSeq(s, 1, k))}
  <1>2. 0 \in Good
    <2>1. SubSeq(s, 1, 0) = <<>>
      BY SubSeqEmpty
    <2>2. NonEmpty(<<>>) = <<>>
      BY WithoutNone DEF NonEmpty
    <2> QED
      BY <2>1, <2>2
  <1>3. ASSUME NEW k \in Nat, k \in Good PROVE k + 1 \in Good
    <2>1. k + 1 \in Nat
      OBVIOUS
    <2> SUFFICES ASSUME k + 1 <= n
                 PROVE  FlattenSeq(NonEmpty(SubSeq(s, 1, k + 1))) = FlattenSeq(SubSeq(s, 1, k + 1))
      BY <2>1, Zenon
    <2>2. /\ SubSeq(s, 1, k) \in Seq(Seq(S)) /\ s[k + 1] \in Seq(S)
          /\ SubSeq(s, 1, k + 1) = Append(SubSeq(s, 1, k), s[k + 1])
      BY <1>1, BeginningGrows
    <2>3. PICK q \in Seq(Seq(S)) : q = SubSeq(s, 1, k)
      BY <2>2
    <2>4. PICK y \in Seq(S) : y = s[k + 1]
      BY <2>2
    <2>5. FlattenSeq(NonEmpty(q)) = FlattenSeq(q)
      <3>1. k <= n
        OBVIOUS
      <3> QED
        BY <1>3, <2>3, <3>1
    <2>6. PICK w \in Seq(Seq(S)) : w = NonEmpty(q)
      <3>1. Without(q, <<>>) \in Seq(Seq(S))
        BY WithoutGrows
      <3> QED
        BY <3>1 DEF NonEmpty
    <2>7. NonEmpty(Append(q, y)) = IF y = <<>> THEN w ELSE Append(w, y)
      BY <2>6, WithoutAppend DEF NonEmpty
    <2>8. /\ FlattenSeq(Append(w, y)) = Then(FlattenSeq(w), y)
          /\ FlattenSeq(Append(q, y)) = Then(FlattenSeq(q), y) /\ FlattenSeq(q) \in Seq(S)
      BY FlatAppend
    <2>9. y = <<>> => Then(FlattenSeq(q), y) = FlattenSeq(q)
      BY <2>8, ConcatEmptySeq DEF Then
    <2> QED
      BY <2>2, <2>3, <2>4, <2>5, <2>6, <2>7, <2>8, <2>9
  <1>4. n \in Good
    <2> HIDE DEF Good
    <2> QED
      BY <1>2, <1>3, Induction
  <1>5. SubSeq(s, 1, n) = s
    BY <1>1, SubSeqFull
  <1>6. n <= n /\ FlattenSeq(NonEmpty(SubSeq(s, 1, n))) = FlattenSeq(SubSeq(s, 1, n))
    BY <1>4
  <1> QED
    BY <1>5, <1>6

(* Texts with z at the end of each.                                        *)
Ended(texts, z) == [i \in DOMAIN texts |-> texts[i] \o z]

LEMMA EndedAppend ==
    ASSUME NEW S, NEW q \in Seq(Seq(S)), NEW y \in Seq(S), NEW z \in Seq(S)
    PROVE  /\ Ended(Append(q, y), z) = Append(Ended(q, z), Then(y, z))
           /\ Ended(q, z) \in Seq(Seq(S)) /\ Len(Ended(q, z)) = Len(q)
  <1>1. PICK n \in Nat : n = Len(q) /\ DOMAIN q = 1 .. n
    BY LenProperties
  <1>2. \A i \in 1 .. n : q[i] \o z \in Seq(S)
    <2>1. \A i \in 1 .. n : q[i] \in Seq(S)
      BY <1>1, ElementOfSeq
    <2> QED
      BY <2>1, ConcatProperties
  <1>3. PICK r : r = Ended(q, z)
    OBVIOUS
  <1>4. r = [i \in 1 .. n |-> q[i] \o z]
    BY <1>1, <1>3 DEF Ended
  <1>5. r \in [1 .. n -> Seq(S)]
    BY <1>2, <1>4
  <1>6. r \in Seq(Seq(S)) /\ Len(r) = n
    BY <1>5, FlatText
  <1>7. PICK x \in Seq(S) : x = Then(y, z)
    BY ThenType
  <1>8. PICK a : a = Append(q, y)
    OBVIOUS
  <1>9. a \in Seq(Seq(S)) /\ Len(a) = n + 1 /\ a[n + 1] = y /\ \A i \in 1 .. n : a[i] = q[i]
    BY <1>1, <1>8, AppendProperties
  <1>10. PICK b : b = Append(r, x)
    OBVIOUS
  <1>11. b \in Seq(Seq(S)) /\ Len(b) = n + 1 /\ b[n + 1] = x /\ \A i \in 1 .. n : b[i] = r[i]
    BY <1>6, <1>10, AppendProperties
  <1>12. DOMAIN a = 1 .. n + 1 /\ DOMAIN b = 1 .. n + 1
    BY <1>9, <1>11, LenProperties
  <1>13. \A i \in 1 .. n + 1 : a[i] \o z = b[i]
    <2>1. \A i \in 1 .. n + 1 : i \in 1 .. n \/ i = n + 1
      OBVIOUS
    <2>2. \A i \in 1 .. n : a[i] \o z = b[i]
      BY <1>4, <1>9, <1>11
    <2>3. a[n + 1] \o z = b[n + 1]
      BY <1>7, <1>9, <1>11 DEF Then
    <2> QED
      BY <2>1, <2>2, <2>3
  <1>14. Ended(a, z) = b
    <2>1. Ended(a, z) = [i \in 1 .. n + 1 |-> a[i] \o z]
      BY <1>12 DEF Ended
    <2>2. b = [i \in 1 .. n + 1 |-> b[i]]
      BY <1>11, <1>12
    <2> QED
      BY <1>13, <2>1, <2>2
  <1> QED
    BY <1>1, <1>3, <1>6, <1>7, <1>8, <1>10, <1>14

(* What is left out anyway may end each of the texts.                      *)
LEMMA EndedWithout ==
    ASSUME NEW S, NEW s \in Seq(Seq(S)), NEW z \in Seq(S), NEW c, Without(z, c) = <<>>
    PROVE  Without(FlattenSeq(Ended(s, z)), c) = Without(FlattenSeq(s), c)
  <1>1. PICK n \in Nat : n = Len(s)
    BY LenProperties
  <1> DEFINE Good == {k \in Nat : k <= n =>
                 Without(FlattenSeq(Ended(SubSeq(s, 1, k), z)), c)
                    = Without(FlattenSeq(SubSeq(s, 1, k)), c)}
  <1>2. 0 \in Good
    <2>1. SubSeq(s, 1, 0) = <<>>
      BY SubSeqEmpty
    <2>2. Ended(<<>>, z) = <<>>
      BY DEF Ended
    <2> QED
      BY <2>1, <2>2
  <1>3. ASSUME NEW k \in Nat, k \in Good PROVE k + 1 \in Good
    <2>1. k + 1 \in Nat
      OBVIOUS
    <2> SUFFICES ASSUME k + 1 <= n
                 PROVE  Without(FlattenSeq(Ended(SubSeq(s, 1, k + 1), z)), c)
                           = Without(FlattenSeq(SubSeq(s, 1, k + 1)), c)
      BY <2>1, Zenon
    <2>2. /\ SubSeq(s, 1, k) \in Seq(Seq(S)) /\ s[k + 1] \in Seq(S)
          /\ SubSeq(s, 1, k + 1) = Append(SubSeq(s, 1, k), s[k + 1])
      BY <1>1, BeginningGrows
    <2>3. PICK q \in Seq(Seq(S)) : q = SubSeq(s, 1, k)
      BY <2>2
    <2>4. PICK y \in Seq(S) : y = s[k + 1]
      BY <2>2
    <2>5. Without(FlattenSeq(Ended(q, z)), c) = Without(FlattenSeq(q), c)
      <3>1. k <= n
        OBVIOUS
      <3> QED
        BY <1>3, <2>3, <3>1
    <2>6. PICK w \in Seq(Seq(S)) : w = Ended(q, z)
      BY EndedAppend
    <2>7. Ended(Append(q, y), z) = Append(w, Then(y, z))
      BY <2>6, EndedAppend, ZenonT(60)
    <2>8. PICK x \in Seq(S) : x = Then(y, z)
      BY ThenType
    <2>9. PICK u \in Seq(S) : u = FlattenSeq(w)
      BY FlatAppend
    <2>10. PICK v \in Seq(S) : v = FlattenSeq(q)
      BY FlatAppend
    <2>11. FlattenSeq(Append(w, x)) = Then(u, x) /\ FlattenSeq(Append(q, y)) = Then(v, y)
      BY <2>9, <2>10, FlatAppend
    <2>12. /\ Without(Then(u, x), c) = Then(Without(u, c), Without(x, c))
           /\ Without(Then(v, y), c) = Then(Without(v, c), Without(y, c))
           /\ Without(Then(y, z), c) = Then(Without(y, c), Without(z, c))
      BY WithoutThen
    <2>13. Then(Without(y, c), <<>>) = Without(y, c)
      <3>1. Without(y, c) \in Seq(S)
        BY WithoutGrows
      <3> QED
        BY <3>1, ConcatEmptySeq DEF Then
    <2> QED
      BY <2>2, <2>3, <2>4, <2>5, <2>6, <2>7, <2>8, <2>9, <2>10, <2>11, <2>12, <2>13,
         ZenonT(60)
  <1>4. n \in Good
    <2> HIDE DEF Good
    <2> QED
      BY <1>2, <1>3, Induction
  <1>5. SubSeq(s, 1, n) = s
    BY <1>1, SubSeqFull
  <1>6. /\ n <= n
        /\ Without(FlattenSeq(Ended(SubSeq(s, 1, n), z)), c)
             = Without(FlattenSeq(SubSeq(s, 1, n)), c)
    BY <1>4
  <1> QED
    BY <1>5, <1>6

(* A sequence as its head and its tail.                                    *)
LEMMA ConsHead ==
    ASSUME NEW S, NEW s \in Seq(S), s # <<>>
    PROVE  Head(s) \in S /\ Tail(s) \in Seq(S) /\ s = Cons(Head(s), Tail(s))
  <1>1. PICK n \in Nat \ {0} : n = Len(s)
    BY EmptySeq
  <1>2. 1 \in 1 .. Len(s) /\ 1 + 1 = 2
    BY <1>1
  <1>3. SubSeq(s, 1, Len(s)) = Cons(s[1], SubSeq(s, 1 + 1, Len(s)))
    BY <1>2, EndShrinks
  <1>4. SubSeq(s, 1, Len(s)) = s
    BY SubSeqFull
  <1>5. Tail(s) = SubSeq(s, 2, Len(s)) /\ Head(s) \in S /\ Tail(s) \in Seq(S)
    BY TailIsSubSeq, HeadTailProperties
  <1>6. Head(s) = s[1]
    OBVIOUS
  <1> QED
    BY <1>2, <1>3, <1>4, <1>5, <1>6

LEMMA WithoutCons ==
    ASSUME NEW S, NEW y \in S, NEW s \in Seq(S), NEW e
    PROVE  Without(Cons(y, s), e) = IF y = e THEN Without(s, e) ELSE Cons(y, Without(s, e))
  <1>1. PICK a \in Seq(S) : a = <<y>>
    <2>1. <<y>> \in Seq(S)
      OBVIOUS
    <2> QED
      BY <2>1
  <1>2. PICK w \in Seq(S) : w = <<>>
    BY EmptySeq
  <1>3. Append(w, y) = a
    <2>1. Append(w, y) = w \o <<y>>
      BY AppendIsConcat
    <2> QED
      BY <1>1, <1>2, <2>1, ConcatEmptySeq
  <1>4. Without(a, e) = IF y = e THEN <<>> ELSE a
    <2>1. Without(Append(w, y), e) = IF y = e THEN Without(w, e) ELSE Append(Without(w, e), y)
      BY WithoutAppend
    <2>2. Without(w, e) = w
      BY <1>2, WithoutNone
    <2> QED
      BY <1>2, <1>3, <2>1, <2>2
  <1>5. Without(Then(a, s), e) = Then(Without(a, e), Without(s, e))
    BY WithoutThen
  <1>6. Then(<<>>, Without(s, e)) = Without(s, e)
    <2>1. Without(s, e) \in Seq(S)
      BY WithoutGrows
    <2> QED
      BY <2>1, ConcatEmptySeq DEF Then
  <1>7. Cons(y, s) = Then(a, s) /\ Cons(y, Without(s, e)) = Then(a, Without(s, e))
    BY <1>1 DEF Cons, Then
  <1> QED
    BY <1>4, <1>5, <1>6, <1>7

(* The pieces of a text make it, without what it was split at.             *)
LEMMA FlatSplit ==
    ASSUME NEW S, NEW c \in S, NEW t \in Seq(S)
    PROVE  /\ FlattenSeq(Split(t, <<c>>)) = Without(t, c)
           /\ Split(t, <<c>>) \in Seq(Seq(S))
  <1>1. PICK n \in Nat : n = Len(t)
    BY LenProperties
  <1>2. PICK d \in Seq(S) : d = <<c>> /\ Len(d) = 1 /\ d[1] = c
    <2>1. <<c>> \in Seq(S) /\ Len(<<c>>) = 1 /\ <<c>>[1] = c
      OBVIOUS
    <2> QED
      BY <2>1
  <1>3. PICK p : Pieces(p, t, d, S)
    <2>1. Len(d) > 0
      BY <1>2
    <2> QED
      BY <2>1, PiecesExist
  <1>4. \A i \in 1 .. n + 1 : p[i] \in Seq(Seq(S)) /\ p[i] # <<>>
    BY <1>1, <1>3 DEF Pieces
  <1> DEFINE Onwards(i) == SubSeq(t, i, n)
             Good == {m \in Nat : m <= n =>
                          FlattenSeq(p[n + 1 - m]) = Without(Onwards(n + 1 - m), c)}
  <1>5. 0 \in Good
    <2>1. n + 1 - 0 = n + 1 /\ Onwards(n + 1) = <<>>
      BY SubSeqEmpty
    <2>2. p[n + 1] = << <<>> >>
      BY <1>1, <1>3 DEF Pieces
    <2>3. FlattenSeq(<< <<>> >>) = <<>>
      <3>1. PICK e \in Seq(S) : e = <<>>
        BY EmptySeq
      <3>2. PICK r \in Seq(Seq(S)) : r = <<>>
        BY EmptySeq
      <3>3. FlattenSeq(<<e>>) = e
        BY <3>2, FlatCons
      <3> QED
        BY <3>1, <3>3
    <2> QED
      BY <2>1, <2>2, <2>3, WithoutNone
  <1>6. ASSUME NEW m \in Nat, m \in Good PROVE m + 1 \in Good
    <2>1. m + 1 \in Nat
      OBVIOUS
    <2> SUFFICES ASSUME m + 1 <= n
                 PROVE  FlattenSeq(p[n + 1 - (m + 1)]) = Without(Onwards(n + 1 - (m + 1)), c)
      BY <2>1, Zenon
    <2>2. PICK k \in 1 .. n : k = n + 1 - (m + 1) /\ k + 1 = n + 1 - m
      OBVIOUS
    <2>3. PICK q \in Seq(Seq(S)) : q = p[k + 1] /\ q # <<>>
      <3>1. k + 1 \in 1 .. n + 1
        OBVIOUS
      <3> QED
        BY <1>4, <3>1
    <2>4. PICK s \in Seq(S) : s = Onwards(k + 1)
      BY <1>1, EndShrinks
    <2>5. PICK y \in S : y = t[k] /\ Onwards(k) = Cons(y, s)
      BY <1>1, <2>4, EndShrinks
    <2>6. FlattenSeq(q) = Without(s, c)
      <3>1. m <= n
        OBVIOUS
      <3> QED
        BY <1>6, <2>2, <2>3, <2>4, <3>1
    <2>7. OccursAt(t, d, k) <=> y = c
      <3>1. k \in 1 .. Len(t) /\ Len(d) > 0
        BY <1>1, <1>2
      <3>2. OccursAt(t, d, k) <=> Matches(t, d, k)
        BY <3>1, OccursMeans
      <3>3. Matches(t, d, k) <=> y = c
        <4>1. k + Len(d) - 1 <= Len(t) /\ 1 .. Len(d) = {1} /\ k + 1 - 1 = k
          BY <1>1, <1>2
        <4> QED
          BY <1>2, <2>5, <4>1 DEF Matches
      <3> QED
        BY <3>2, <3>3
    <2>8. p[k] = IF y = c THEN Cons(<<>>, q) ELSE Cons(<<y>> \o Head(q), Tail(q))
      <3>1. p[k] = IF OccursAt(t, d, k) THEN Cons(<<>>, p[k + Len(d)])
                   ELSE Cons(<<t[k]>> \o Head(p[k + 1]), Tail(p[k + 1]))
        BY <1>1, <1>3 DEF Pieces
      <3> QED
        BY <1>2, <2>3, <2>5, <2>7, <3>1
    <2>9. Without(Cons(y, s), c) = IF y = c THEN Without(s, c) ELSE Cons(y, Without(s, c))
      BY WithoutCons
    <2>10. PICK u \in Seq(S) : u = FlattenSeq(q)
      BY FlatAppend
    <2>11. CASE y = c
      <3>1. PICK e \in Seq(S) : e = <<>>
        BY EmptySeq
      <3>2. FlattenSeq(Cons(e, q)) = Then(e, FlattenSeq(q))
        BY FlatCons
      <3>3. Then(e, u) = u
        BY <3>1, ConcatEmptySeq DEF Then
      <3> QED
        BY <2>2, <2>5, <2>6, <2>8, <2>9, <2>10, <2>11, <3>1, <3>2, <3>3
    <2>12. CASE y # c
      <3>1. PICK h \in Seq(S) : h = Head(q)
        BY <2>3, ConsHead
      <3>2. PICK l \in Seq(Seq(S)) : l = Tail(q) /\ q = Cons(h, l)
        BY <2>3, <3>1, ConsHead
      <3>3. PICK a \in Seq(S) : a = <<y>>
        <4>1. <<y>> \in Seq(S)
          OBVIOUS
        <4> QED
          BY <4>1
      <3>4. PICK f \in Seq(S) : f = FlattenSeq(l)
        BY FlatAppend
      <3>5. PICK x \in Seq(S) : x = Then(a, h)
        BY ThenType
      <3>6. FlattenSeq(Cons(x, l)) = Then(x, FlattenSeq(l))
        BY FlatCons
      <3>7. FlattenSeq(Cons(h, l)) = Then(h, FlattenSeq(l))
        BY FlatCons
      <3>8. Then(Then(a, h), f) = Then(a, Then(h, f))
        BY ThenThen
      <3>9. p[k] = Cons(x, l)
        BY <2>8, <2>12, <3>1, <3>2, <3>3, <3>5 DEF Then
      <3>10. FlattenSeq(p[k]) = Then(a, u)
        BY <2>10, <3>2, <3>4, <3>5, <3>6, <3>7, <3>8, <3>9
      <3>11. Then(a, u) = Cons(y, u)
        BY <3>3 DEF Then, Cons
      <3> QED
        BY <2>2, <2>5, <2>6, <2>9, <2>10, <2>12, <3>10, <3>11
    <2> QED
      BY <2>11, <2>12
  <1>7. n \in Good
    <2> HIDE DEF Good
    <2> QED
      BY <1>5, <1>6, Induction
  <1>8. n <= n /\ n + 1 - n = 1 /\ 1 \in 1 .. n + 1
    OBVIOUS
  <1>9. FlattenSeq(p[1]) = Without(Onwards(1), c)
    BY <1>7, <1>8
  <1>10. Onwards(1) = t
    BY <1>1, SubSeqFull
  <1>11. Split(t, d) = p[1]
    BY <1>3 DEF Pieces
  <1> QED
    BY <1>2, <1>4, <1>8, <1>9, <1>10, <1>11

(* Short texts, one after the other.                                       *)
LEMMA Double ==
    ASSUME NEW a, NEW p
    PROVE  <<a>> \o <<p>> = <<a, p>>
  <1>1. PICK S : S = {a, p}
    OBVIOUS
  <1>2. a \in S /\ p \in S
    BY <1>1
  <1>3. PICK x \in Seq(S) : x = <<a>> /\ Len(x) = 1 /\ x[1] = a
    <2>1. <<a>> \in Seq(S) /\ Len(<<a>>) = 1 /\ <<a>>[1] = a
      BY <1>2
    <2> QED
      BY <2>1
  <1>4. PICK y \in Seq(S) : y = <<p>> /\ Len(y) = 1 /\ y[1] = p
    <2>1. <<p>> \in Seq(S) /\ Len(<<p>>) = 1
          /\ <<p>>[1] = p
      BY <1>2
    <2> QED
      BY <2>1
  <1>5. PICK z \in Seq(S) : z = <<a, p>> /\ Len(z) = 2 /\ z[1] = a /\ z[2] = p
    <2>1. <<a, p>> \in Seq(S) /\ Len(<<a, p>>) = 2
          /\ <<a, p>>[1] = a /\ <<a, p>>[2] = p
      BY <1>2
    <2> QED
      BY <2>1
  <1>6. PICK w \in Seq(S) : /\ w = Then(x, y) /\ Len(w) = 2
                           /\ w[1] = a /\ w[2] = p
    <2>1. /\ Then(x, y) \in Seq(S) /\ Len(Then(x, y)) = Len(x) + Len(y)
          /\ \A i \in 1 .. Len(x) + Len(y) :
                Then(x, y)[i] = IF i <= Len(x) THEN x[i] ELSE y[i - Len(x)]
      BY ThenType
    <2>2. Len(x) + Len(y) = 2
      BY <1>3, <1>4
    <2>3. \A i \in 1 .. 2 : Then(x, y)[i] = IF i <= 1 THEN x[i] ELSE y[i - 1]
      BY <1>3, <2>1, <2>2
    <2>4. Then(x, y)[1] = a /\ Then(x, y)[2] = p
      BY <1>3, <1>4, <2>3
    <2> QED
      BY <2>1, <2>2, <2>4
  <1>7. w = z
    <2>1. \A i \in 1 .. 2 : w[i] = z[i]
      <3>1. \A i \in 1 .. 2 : i = 1 \/ i = 2
        OBVIOUS
      <3> QED
        BY <1>5, <1>6, <3>1
    <2> QED
      BY <1>5, <1>6, <2>1, SeqEqual
  <1> QED
    BY <1>3, <1>4, <1>5, <1>6, <1>7 DEF Then

LEMMA Quadruple ==
    ASSUME NEW a, NEW p, NEW q, NEW r
    PROVE  <<a>> \o <<p, q, r>> = <<a, p, q, r>>
  <1>1. PICK S : S = {a, p, q, r}
    OBVIOUS
  <1>2. a \in S /\ p \in S /\ q \in S /\ r \in S
    BY <1>1
  <1>3. PICK x \in Seq(S) : x = <<a>> /\ Len(x) = 1 /\ x[1] = a
    <2>1. <<a>> \in Seq(S) /\ Len(<<a>>) = 1 /\ <<a>>[1] = a
      BY <1>2
    <2> QED
      BY <2>1
  <1>4. PICK y \in Seq(S) : y = <<p, q, r>> /\ Len(y) = 3 /\ y[1] = p /\ y[2] = q /\ y[3] = r
    <2>1. <<p, q, r>> \in Seq(S) /\ Len(<<p, q, r>>) = 3
          /\ <<p, q, r>>[1] = p /\ <<p, q, r>>[2] = q /\ <<p, q, r>>[3] = r
      BY <1>2
    <2> QED
      BY <2>1
  <1>5. PICK z \in Seq(S) :
          /\ z = <<a, p, q, r>> /\ Len(z) = 4 /\ z[1] = a /\ z[2] = p /\ z[3] = q /\ z[4] = r
    <2>1. <<a, p, q, r>> \in Seq(S) /\ Len(<<a, p, q, r>>) = 4
          /\ <<a, p, q, r>>[1] = a /\ <<a, p, q, r>>[2] = p
          /\ <<a, p, q, r>>[3] = q /\ <<a, p, q, r>>[4] = r
      BY <1>2
    <2> QED
      BY <2>1
  <1>6. PICK w \in Seq(S) : /\ w = Then(x, y) /\ Len(w) = 4
                           /\ w[1] = a /\ w[2] = p /\ w[3] = q /\ w[4] = r
    <2>1. /\ Then(x, y) \in Seq(S) /\ Len(Then(x, y)) = Len(x) + Len(y)
          /\ \A i \in 1 .. Len(x) + Len(y) :
                Then(x, y)[i] = IF i <= Len(x) THEN x[i] ELSE y[i - Len(x)]
      BY ThenType
    <2>2. Len(x) + Len(y) = 4
      BY <1>3, <1>4
    <2>3. \A i \in 1 .. 4 : Then(x, y)[i] = IF i <= 1 THEN x[i] ELSE y[i - 1]
      BY <1>3, <2>1, <2>2
    <2>4. Then(x, y)[1] = a /\ Then(x, y)[2] = p /\ Then(x, y)[3] = q /\ Then(x, y)[4] = r
      BY <1>3, <1>4, <2>3
    <2> QED
      BY <2>1, <2>2, <2>4
  <1>7. w = z
    <2>1. \A i \in 1 .. 4 : w[i] = z[i]
      <3>1. \A i \in 1 .. 4 : i = 1 \/ i = 2 \/ i = 3 \/ i = 4
        OBVIOUS
      <3> QED
        BY <1>5, <1>6, <3>1
    <2> QED
      BY <1>5, <1>6, <2>1, SeqEqual
  <1> QED
    BY <1>3, <1>4, <1>5, <1>6, <1>7 DEF Then

(* What follows the first pieces.                                          *)
LEMMA AfterFirst ==
    ASSUME NEW S, NEW x \in Seq(S), NEW r \in Seq(Seq(S))
    PROVE  SubSeq(Cons(x, r), 2, Len(Cons(x, r))) = r
  <1>1. PICK n \in Nat : n = Len(r)
    BY LenProperties
  <1>2. PICK l \in Seq(Seq(S)) : l = Cons(x, r) /\ Len(l) = n + 1
                                /\ \A i \in 1 .. n : l[i + 1] = r[i]
    <2>1. /\ Cons(x, r) \in Seq(Seq(S)) /\ Len(Cons(x, r)) = Len(r) + 1
          /\ \A i \in 1 .. Len(r) : Cons(x, r)[i + 1] = r[i]
      BY ConsAt
    <2> QED
      BY <1>1, <2>1
  <1>3. PICK m \in Nat : m = n + 1 /\ 0 < 2 /\ 2 <= m + 1 /\ m <= Len(l) /\ 2 \in Nat
    BY <1>2
  <1>4. PICK two \in Nat : two = 2
    OBVIOUS
  <1>5. PICK t \in Seq(Seq(S)) : t = SubSeq(l, two, m) /\ Len(t) = m + 1 - two
                                /\ \A i \in 1 .. m + 1 - two : t[i] = l[i + two - 1]
    <2>1. 0 < two /\ two <= m + 1 /\ m <= Len(l)
      BY <1>3, <1>4
    <2>2. /\ SubSeq(l, two, m) \in Seq(Seq(S)) /\ Len(SubSeq(l, two, m)) = m + 1 - two
          /\ \A i \in 1 .. m + 1 - two : SubSeq(l, two, m)[i] = l[i + two - 1]
      BY <2>1, Piece
    <2> QED
      BY <2>2
  <1>6. Len(t) = n /\ \A i \in 1 .. n : t[i] = r[i]
    <2>1. \A i \in 1 .. n : i + two - 1 = i + 1
      BY <1>4
    <2> QED
      BY <1>2, <1>3, <1>4, <1>5, <2>1
  <1>7. t = r
    BY <1>1, <1>6, SeqEqual
  <1> QED
    BY <1>2, <1>3, <1>4, <1>5, <1>7

LEMMA AfterSecond ==
    ASSUME NEW S, NEW x \in Seq(S), NEW y \in Seq(S), NEW r \in Seq(Seq(S))
    PROVE  SubSeq(Cons(x, Cons(y, r)), 3, Len(Cons(x, Cons(y, r)))) = r
  <1>1. PICK n \in Nat : n = Len(r)
    BY LenProperties
  <1>2. PICK k \in Seq(Seq(S)) : k = Cons(y, r) /\ Len(k) = n + 1
                                /\ \A i \in 1 .. n : k[i + 1] = r[i]
    <2>1. /\ Cons(y, r) \in Seq(Seq(S)) /\ Len(Cons(y, r)) = Len(r) + 1
          /\ \A i \in 1 .. Len(r) : Cons(y, r)[i + 1] = r[i]
      BY ConsAt
    <2> QED
      BY <1>1, <2>1
  <1>3. PICK l \in Seq(Seq(S)) : l = Cons(x, k) /\ Len(l) = n + 1 + 1
                                /\ \A i \in 1 .. n + 1 : l[i + 1] = k[i]
    <2>1. /\ Cons(x, k) \in Seq(Seq(S)) /\ Len(Cons(x, k)) = Len(k) + 1
          /\ \A i \in 1 .. Len(k) : Cons(x, k)[i + 1] = k[i]
      BY ConsAt
    <2> QED
      BY <1>2, <2>1
  <1>4. PICK m \in Nat : m = n + 2 /\ 0 < 3 /\ 3 <= m + 1 /\ m <= Len(l) /\ 3 \in Nat
    BY <1>3
  <1>5. PICK three \in Nat : three = 3
    OBVIOUS
  <1>6. PICK t \in Seq(Seq(S)) : t = SubSeq(l, three, m) /\ Len(t) = m + 1 - three
                                /\ \A i \in 1 .. m + 1 - three : t[i] = l[i + three - 1]
    <2>1. 0 < three /\ three <= m + 1 /\ m <= Len(l)
      BY <1>4, <1>5
    <2>2. /\ SubSeq(l, three, m) \in Seq(Seq(S)) /\ Len(SubSeq(l, three, m)) = m + 1 - three
          /\ \A i \in 1 .. m + 1 - three : SubSeq(l, three, m)[i] = l[i + three - 1]
      BY <2>1, Piece
    <2> QED
      BY <2>2
  <1>7. Len(t) = n /\ \A i \in 1 .. n : t[i] = r[i]
    <2>1. \A i \in 1 .. n : i + three - 1 = (i + 1) + 1 /\ i + 1 \in 1 .. n + 1
      BY <1>5
    <2>2. \A i \in 1 .. n : l[i + three - 1] = r[i]
      BY <1>2, <1>3, <2>1
    <2> QED
      BY <1>4, <1>5, <1>6, <2>2
  <1>8. t = r
    BY <1>1, <1>7, SeqEqual
  <1> QED
    BY <1>2, <1>3, <1>4, <1>5, <1>6, <1>8

(* Pieces that do not end in anything.                                     *)
LEMMA EndedNone ==
    ASSUME NEW S, NEW q \in Seq(Seq(S))
    PROVE  Ended(q, <<>>) = q
  <1>1. PICK n \in Nat : n = Len(q) /\ DOMAIN q = 1 .. n
    BY LenProperties
  <1>2. \A i \in 1 .. n : q[i] \o <<>> = q[i]
    <2>1. \A i \in 1 .. n : q[i] \in Seq(S)
      BY <1>1, ElementOfSeq
    <2> QED
      BY <2>1, ConcatEmptySeq
  <1>3. q = [i \in 1 .. n |-> q[i]]
    BY <1>1
  <1> QED
    BY <1>1, <1>2, <1>3 DEF Ended
=============================================================================
