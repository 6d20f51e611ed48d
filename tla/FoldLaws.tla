------------------------------ MODULE FoldLaws ------------------------------
(***************************************************************************)
(* What FoldLeft computes, for every operator and every sequence.  A proof *)
(* about a fold of a component instantiates this module with the operator  *)
(* that is folded, since no prover here can instantiate a theorem about    *)
(* an operator.  Predicates are sets for the same reason: SetInduction is  *)
(* the induction over the naturals from which all else follows.            *)
(***************************************************************************)
EXTENDS SequencesExt, SequenceTheorems, WellFoundedInduction, TLAPS

CONSTANT Op(_, _)

Fold(base, seq) == FoldLeft(Op, base, seq)

\* h[k] is what the first k elements fold to.
Chain(h, base, seq) ==
  /\ h[0] = base
  /\ \A k \in 1..Len(seq) : h[k] = Op(h[k - 1], seq[k])

-----------------------------------------------------------------------------
(* Induction.                                                              *)

\* Every set of naturals that is not empty has a smallest one.
LEMMA Smallest ==
  ASSUME NEW T, T \subseteq Nat, T # {}
  PROVE  \E n \in T : \A m \in T : n <= m
<1> DEFINE R == OpToRel(<, Nat)
<1>1. IsWellFoundedOn(R, Nat)
  BY NatLessThanWellFounded
<1>2. \A x, y \in Nat : y < x => <<y, x>> \in R
  BY DEF OpToRel
<1> HIDE DEF R
<1>3. PICK n \in T : \A m \in T : ~(<<m, n>> \in R)
  BY <1>1, WFMin
<1>4. \A m \in T : m \in Nat /\ ~(m < n)
  BY <1>2, <1>3
<1> QED
  BY <1>3, <1>4

\* Induction over the naturals, for a set.
LEMMA SetInduction ==
  ASSUME NEW S, 0 \in S, \A n \in Nat : n \in S => n + 1 \in S
  PROVE  Nat \subseteq S
<1> SUFFICES ASSUME Nat \ S # {} PROVE FALSE
  OBVIOUS
<1>1. PICK n \in Nat \ S : \A m \in Nat \ S : n <= m
  BY Smallest
<1>2. n - 1 \in Nat /\ (n - 1) + 1 = n
  BY <1>1
<1>3. n - 1 \in S
  BY <1>1, <1>2
<1> QED
  BY <1>1, <1>2, <1>3

\* The largest of some of the first n numbers.
LEMMA Largest ==
  ASSUME NEW n \in Nat, NEW s \in SUBSET (1..n), s # {}
  PROVE  Max(s) \in s /\ \A k \in s : k <= Max(s)
<1> DEFINE T == {m \in Nat : n - m \in s}
<1>1. PICK k \in s : TRUE
  OBVIOUS
<1>2. n - k \in T
  OBVIOUS
<1>3. PICK m \in T : \A x \in T : m <= x
  <2> HIDE DEF T
  <2>1. T \subseteq Nat
    BY DEF T
  <2> QED
    BY <1>2, <2>1, Smallest
<1>4. ASSUME NEW x \in s PROVE x <= n - m
  <2>1. n - x \in T
    OBVIOUS
  <2>2. m <= n - x
    BY <1>3, <2>1
  <2> QED
    BY <2>2
<1>5. n - m \in s
  OBVIOUS
<1>6. \E x \in s : \A y \in s : x >= y
  BY <1>4, <1>5
<1> QED
  BY <1>6 DEF Max

-----------------------------------------------------------------------------
(* A fold runs along its sequence.                                         *)

Folds(it, S, base, seq) ==
  it = [s \in SUBSET S |-> IF s = {} THEN base ELSE Op(it[s \ {Max(s)}], seq[Max(s)])]

\* The recursion of FoldLeft has a solution.
LEMMA FoldExists ==
  ASSUME NEW A, NEW B, NEW base \in A, NEW seq \in Seq(B),
         \A a \in A, b \in B : Op(a, b) \in A
  PROVE  \E it : Folds(it, 1..Len(seq), base, seq)
<1> DEFINE Solution(it, n) == it \in [SUBSET (1..n) -> A] /\ Folds(it, 1..n, base, seq)
           Solvable(n) == n <= Len(seq) => \E it : Solution(it, n)
<1>0. Len(seq) \in Nat /\ \A k \in 1..Len(seq) : seq[k] \in B
  OBVIOUS
<1>1. Solvable(0)
  <2>1. 1..0 = {}
    OBVIOUS
  <2>2. Solution([s \in SUBSET (1..0) |-> base], 0)
    BY <2>1 DEF Folds
  <2> QED
    BY <2>2
<1>2. ASSUME NEW n \in Nat, Solvable(n) PROVE Solvable(n + 1)
  <2> SUFFICES ASSUME n + 1 <= Len(seq) PROVE \E it : Solution(it, n + 1)
    OBVIOUS
  <2>1. PICK it : Solution(it, n)
    <3>1. n <= Len(seq)
      BY <1>0
    <3> HIDE DEF Solution
    <3> QED
      BY <1>2, <3>1
  <2> DEFINE next == [s \in SUBSET (1..n+1) |->
                        IF n + 1 \in s THEN Op(it[s \ {n + 1}], seq[n + 1]) ELSE it[s]]
  <2>2. seq[n + 1] \in B
    BY <1>0
  <2>3. ASSUME NEW s \in SUBSET (1..n+1)
        PROVE  /\ next[s] \in A
               /\ next[s] = IF s = {} THEN base ELSE Op(next[s \ {Max(s)}], seq[Max(s)])
    <3>1. s # {} => Max(s) \in s /\ \A k \in s : k <= Max(s)
      BY Largest, n + 1 \in Nat
    <3>2. CASE n + 1 \in s
      <4>1. Max(s) = n + 1
        <5>1. Max(s) \in 1..n+1 /\ n + 1 <= Max(s)
          BY <3>1, <3>2
        <5> QED
          BY <5>1
      <4>2. s \ {n + 1} \in SUBSET (1..n) /\ s \ {n + 1} \in SUBSET (1..n+1)
        OBVIOUS
      <4>3. next[s \ {n + 1}] = it[s \ {n + 1}] /\ it[s \ {n + 1}] \in A
        BY <2>1, <4>2
      <4>4. next[s] = Op(it[s \ {n + 1}], seq[n + 1])
        BY <3>2
      <4> HIDE DEF next
      <4> QED
        BY <2>2, <3>2, <4>1, <4>3, <4>4
    <3>3. CASE n + 1 \notin s
      <4>1. s \in SUBSET (1..n)
        BY <3>3
      <4>2. it[s] \in A /\ it[s] = IF s = {} THEN base ELSE Op(it[s \ {Max(s)}], seq[Max(s)])
        BY <2>1, <4>1 DEF Folds
      <4>3. s \ {Max(s)} \in SUBSET (1..n+1) /\ n + 1 \notin s \ {Max(s)}
        BY <3>3
      <4>4. next[s] = it[s] /\ next[s \ {Max(s)}] = it[s \ {Max(s)}]
        BY <3>3, <4>3
      <4> QED
        BY <4>2, <4>4
    <3> QED
      BY <3>2, <3>3
  <2>4. next \in [SUBSET (1..n+1) -> A]
    <3>1. \A s \in SUBSET (1..n+1) : next[s] \in A
      BY <2>3
    <3> QED
      BY <3>1
  <2>5. Folds(next, 1..n+1, base, seq)
    <3>1. \A s \in SUBSET (1..n+1) :
            next[s] = IF s = {} THEN base ELSE Op(next[s \ {Max(s)}], seq[Max(s)])
      BY <2>3
    <3> HIDE DEF next
    <3> QED
      BY <2>4, <3>1 DEF Folds
  <2> HIDE DEF next
  <2> QED
    BY <2>4, <2>5
<1>3. Solvable(Len(seq))
  <2> DEFINE S == {n \in Nat : Solvable(n)}
  <2> HIDE DEF Solvable
  <2>1. 0 \in S /\ \A n \in Nat : n \in S => n + 1 \in S
    BY <1>1, <1>2
  <2>2. Nat \subseteq S
    <3> HIDE DEF S
    <3> QED
      BY <2>1, SetInduction
  <2> QED
    BY <1>0, <2>2
<1> QED
  BY <1>0, <1>3

\* The fold of a sequence is the end of a chain.
LEMMA FoldChain ==
  ASSUME NEW A, NEW B, NEW base \in A, NEW seq \in Seq(B),
         \A a \in A, b \in B : Op(a, b) \in A
  PROVE  \E h \in [0..Len(seq) -> A] : Chain(h, base, seq) /\ Fold(base, seq) = h[Len(seq)]
<1> DEFINE it == CHOOSE it : Folds(it, 1..Len(seq), base, seq)
           h == [k \in 0..Len(seq) |-> it[1..k]]
<1>0. Len(seq) \in Nat /\ \A k \in 1..Len(seq) : seq[k] \in B
  OBVIOUS
<1>1. Folds(it, 1..Len(seq), base, seq)
  BY FoldExists
<1>2. DOMAIN seq = 1..Len(seq)
  OBVIOUS
<1>3. Fold(base, seq) = it[1..Len(seq)]
  BY <1>2 DEF Fold, FoldLeft, MapThenFoldSet, Folds
<1> HIDE DEF it
<1>4. it[{}] = base
  BY <1>1 DEF Folds
<1>5. ASSUME NEW k \in 1..Len(seq) PROVE it[1..k] = Op(it[1..k-1], seq[k])
  <2>1. 1..k \in SUBSET (1..Len(seq)) /\ 1..k \in SUBSET (1..k) /\ k \in 1..k
    OBVIOUS
  <2>2. Max(1..k) \in 1..k /\ k <= Max(1..k)
    BY <2>1, Largest, k \in Nat
  <2>3. Max(1..k) = k /\ (1..k) \ {k} = 1..k-1
    BY <2>2
  <2> QED
    BY <1>1, <2>1, <2>3 DEF Folds
<1>6. 1..0 = {}
  OBVIOUS
<1>7. Chain(h, base, seq)
  BY <1>4, <1>5, <1>6 DEF Chain
<1>8. \A k \in 0..Len(seq) : h[k] \in A
  <2> DEFINE S == {k \in Nat : k <= Len(seq) => h[k] \in A}
  <2> HIDE DEF h
  <2>1. 0 \in S
    BY <1>7 DEF Chain
  <2>2. ASSUME NEW k \in Nat, k \in S PROVE k + 1 \in S
    <3>1. CASE k + 1 <= Len(seq)
      <4>1. k + 1 \in 1..Len(seq) /\ (k + 1) - 1 = k
        BY <1>0, <3>1
      <4>2. h[k + 1] = Op(h[k], seq[k + 1])
        BY <1>7, <4>1 DEF Chain
      <4>3. h[k] \in A /\ seq[k + 1] \in B
        BY <1>0, <2>2, <4>1
      <4> QED
        BY <4>2, <4>3
    <3> QED
      BY <3>1
  <2>3. Nat \subseteq S
    <3> HIDE DEF S
    <3> QED
      BY <2>1, <2>2, SetInduction
  <2> QED
    BY <1>0, <2>3
<1>9. h \in [0..Len(seq) -> A]
  BY <1>8
<1> QED
  BY <1>3, <1>7, <1>9

\* All chains along a sequence are one.
LEMMA ChainsAgree ==
  ASSUME NEW base, NEW seq, Len(seq) \in Nat,
         NEW g, NEW h, Chain(g, base, seq), Chain(h, base, seq)
  PROVE  g[Len(seq)] = h[Len(seq)]
<1> DEFINE S == {k \in Nat : k <= Len(seq) => g[k] = h[k]}
<1>1. 0 \in S
  BY DEF Chain
<1>2. ASSUME NEW k \in Nat, k \in S PROVE k + 1 \in S
  <2>1. CASE k + 1 <= Len(seq)
    <3>1. k + 1 \in 1..Len(seq) /\ (k + 1) - 1 = k
      BY <2>1
    <3>2. g[k + 1] = Op(g[k], seq[k + 1]) /\ h[k + 1] = Op(h[k], seq[k + 1])
      BY <3>1 DEF Chain
    <3> QED
      BY <1>2, <3>1, <3>2
  <2> QED
    BY <2>1
<1>3. Nat \subseteq S
  <2> HIDE DEF S
  <2> QED
    BY <1>1, <1>2, SetInduction
<1> QED
  BY <1>3

-----------------------------------------------------------------------------
(* The laws.                                                               *)

\* Whatever chain runs along a sequence ends in its fold.
LEMMA FoldEnds ==
  ASSUME NEW A, NEW B, NEW base \in A, NEW seq \in Seq(B),
         \A a \in A, b \in B : Op(a, b) \in A,
         NEW h, Chain(h, base, seq)
  PROVE  Fold(base, seq) = h[Len(seq)]
<1>1. PICK g \in [0..Len(seq) -> A] : Chain(g, base, seq) /\ Fold(base, seq) = g[Len(seq)]
  BY FoldChain
<1>2. Len(seq) \in Nat
  OBVIOUS
<1> QED
  BY <1>1, <1>2, ChainsAgree

\* Induction along a sequence: what holds of the base, and is kept from each
\* prefix to the next, holds of the fold.
LEMMA FoldInvariant ==
  ASSUME NEW A, NEW B, NEW base \in A, NEW seq \in Seq(B),
         \A a \in A, b \in B : Op(a, b) \in A,
         NEW I, <<0, base>> \in I,
         \A k \in 1..Len(seq), a \in A : <<k - 1, a>> \in I => <<k, Op(a, seq[k])>> \in I
  PROVE  Fold(base, seq) \in A /\ <<Len(seq), Fold(base, seq)>> \in I
<1>0. Len(seq) \in Nat
  OBVIOUS
<1>1. PICK h \in [0..Len(seq) -> A] : Chain(h, base, seq) /\ Fold(base, seq) = h[Len(seq)]
  BY FoldChain
<1> DEFINE S == {k \in Nat : k <= Len(seq) => <<k, h[k]>> \in I}
<1>2. 0 \in S
  BY <1>1 DEF Chain
<1>3. ASSUME NEW k \in Nat, k \in S PROVE k + 1 \in S
  <2>1. CASE k + 1 <= Len(seq)
    <3>1. k + 1 \in 1..Len(seq) /\ (k + 1) - 1 = k /\ k \in 0..Len(seq) /\ k <= Len(seq)
      BY <1>0, <2>1
    <3>2. h[k + 1] = Op(h[k], seq[k + 1])
      BY <1>1, <3>1 DEF Chain
    <3>3. h[k] \in A /\ <<k, h[k]>> \in I
      BY <1>3, <3>1
    <3>4. <<k + 1, Op(h[k], seq[k + 1])>> \in I
      BY <3>1, <3>3
    <3> QED
      BY <3>2, <3>4
  <2> QED
    BY <2>1
<1>4. Nat \subseteq S
  <2> HIDE DEF S
  <2> QED
    BY <1>2, <1>3, SetInduction
<1> QED
  BY <1>0, <1>1, <1>4

\* Nothing to fold, and one element.
LEMMA FoldFew ==
  ASSUME NEW A, NEW B, NEW base \in A, NEW x \in B,
         \A a \in A, b \in B : Op(a, b) \in A
  PROVE  Fold(base, <<>>) = base /\ Fold(base, <<x>>) = Op(base, x)
<1> DEFINE nil == <<>>
           one == <<x>>
           h == [k \in 0..1 |-> IF k = 0 THEN base ELSE Op(base, x)]
<1>1. nil \in Seq(B) /\ Len(nil) = 0 /\ one \in Seq(B) /\ Len(one) = 1 /\ one[1] = x
  OBVIOUS
<1> HIDE DEF nil, one
<1>2. Chain(h, base, nil) /\ Chain(h, base, one) /\ h[0] = base /\ h[1] = Op(base, x)
  BY <1>1 DEF Chain
<1> HIDE DEF h
<1>3. ASSUME NEW s \in Seq(B), Chain(h, base, s) PROVE Fold(base, s) = h[Len(s)]
  BY <1>3, FoldEnds
<1>4. Fold(base, nil) = h[Len(nil)] /\ Fold(base, one) = h[Len(one)]
  BY <1>1, <1>2, <1>3
<1>5. Fold(base, nil) = base /\ Fold(base, one) = Op(base, x)
  BY <1>1, <1>2, <1>4
<1> QED
  BY <1>5 DEF nil, one

\* To fold one sequence and then another is to fold both as one.
LEMMA FoldConcat ==
  ASSUME NEW A, NEW B, NEW base \in A, NEW s \in Seq(B), NEW t \in Seq(B),
         \A a \in A, b \in B : Op(a, b) \in A
  PROVE  Fold(base, s \o t) = Fold(Fold(base, s), t)
<1>0. Len(s) \in Nat /\ Len(t) \in Nat /\ s \o t \in Seq(B) /\ Len(s \o t) = Len(s) + Len(t)
  OBVIOUS
<1>1. PICK g \in [0..Len(s) -> A] : Chain(g, base, s) /\ Fold(base, s) = g[Len(s)]
  BY FoldChain
<1>2. Fold(base, s) \in A
  BY <1>0, <1>1
<1>3. PICK h \in [0..Len(t) -> A] :
        Chain(h, Fold(base, s), t) /\ Fold(Fold(base, s), t) = h[Len(t)]
  BY <1>2, FoldChain
<1> DEFINE both == [k \in 0..Len(s \o t) |-> IF k <= Len(s) THEN g[k] ELSE h[k - Len(s)]]
<1>4. both[0] = base
  BY <1>0, <1>1 DEF Chain
<1>5. ASSUME NEW k \in 1..Len(s \o t) PROVE both[k] = Op(both[k - 1], (s \o t)[k])
  <2>1. CASE k <= Len(s)
    <3>1. k \in 1..Len(s) /\ k - 1 \in 0..Len(s \o t) /\ k - 1 <= Len(s) /\ k \in 0..Len(s \o t)
      BY <1>0, <2>1
    <3>2. both[k] = g[k] /\ both[k - 1] = g[k - 1]
      BY <2>1, <3>1
    <3>3. (s \o t)[k] = s[k]
      BY <3>1
    <3> QED
      BY <1>1, <3>1, <3>2, <3>3 DEF Chain
  <2>2. CASE k > Len(s)
    <3>1. /\ k - Len(s) \in 1..Len(t) /\ k \in 0..Len(s \o t) /\ k - 1 \in 0..Len(s \o t)
          /\ ~(k <= Len(s)) /\ (k - 1) - Len(s) = (k - Len(s)) - 1
      BY <1>0, <2>2
    <3>2. (s \o t)[k] = t[k - Len(s)]
      BY <1>0, <2>2
    <3>3. h[0] = g[Len(s)]
      BY <1>1, <1>3 DEF Chain
    <3>4. both[k] = h[k - Len(s)]
      BY <3>1
    <3>5. both[k - 1] = h[(k - Len(s)) - 1]
      <4>1. CASE k - 1 <= Len(s)
        <5>1. k - 1 = Len(s) /\ (k - Len(s)) - 1 = 0
          BY <1>0, <2>2, <4>1
        <5> QED
          BY <3>1, <3>3, <5>1
      <4>2. CASE ~(k - 1 <= Len(s))
        BY <3>1, <4>2
      <4> QED
        BY <4>1, <4>2
    <3>6. h[k - Len(s)] = Op(h[(k - Len(s)) - 1], t[k - Len(s)])
      BY <1>3, <3>1 DEF Chain
    <3> QED
      BY <3>2, <3>4, <3>5, <3>6
  <2> QED
    BY <1>0, <2>1, <2>2
<1>6. both[Len(s \o t)] = h[Len(t)]
  <2>1. CASE Len(t) = 0
    <3>1. h[0] = g[Len(s)] /\ Len(s \o t) = Len(s)
      BY <1>0, <1>1, <1>3, <2>1 DEF Chain
    <3> QED
      BY <1>0, <2>1, <3>1
  <2>2. CASE Len(t) # 0
    <3>1. ~(Len(s \o t) <= Len(s)) /\ Len(s \o t) - Len(s) = Len(t)
      BY <1>0, <2>2
    <3> QED
      BY <1>0, <3>1
  <2> QED
    BY <2>1, <2>2
<1>7. Chain(both, base, s \o t)
  <2> HIDE DEF both
  <2> QED
    BY <1>4, <1>5 DEF Chain
<1> HIDE DEF both
<1>8. Fold(base, s \o t) = both[Len(s \o t)]
  BY <1>0, <1>7, FoldEnds
<1> QED
  BY <1>3, <1>6, <1>8

-----------------------------------------------------------------------------
(* An operator that appends what is not there yet.                         *)

Elements(s) == {s[i] : i \in 1..Len(s)}
NoneTwice(s) == \A i, j \in 1..Len(s) : s[i] = s[j] => i = j

AppendsNew(B) ==
  \A seen \in Seq(B), x \in B :
    Op(seen, x) = IF x \in Elements(seen) THEN seen ELSE Append(seen, x)

LEMMA AppendElements ==
  ASSUME NEW B, NEW s \in Seq(B), NEW x \in B
  PROVE  /\ Append(s, x) \in Seq(B)
         /\ Elements(Append(s, x)) = Elements(s) \cup {x}
         /\ NoneTwice(s) /\ x \notin Elements(s) => NoneTwice(Append(s, x))
<1>1. /\ Append(s, x) \in Seq(B) /\ Len(Append(s, x)) = Len(s) + 1 /\ Len(s) \in Nat
      /\ Append(s, x)[Len(s) + 1] = x
      /\ \A i \in 1..Len(s) : Append(s, x)[i] = s[i]
  OBVIOUS
<1>2. 1..Len(s) + 1 = (1..Len(s)) \cup {Len(s) + 1}
  BY <1>1
<1> QED
  BY <1>1, <1>2 DEF Elements, NoneTwice

LEMMA ConcatElements ==
  ASSUME NEW B, NEW s \in Seq(B), NEW t \in Seq(B)
  PROVE  Elements(s \o t) = Elements(s) \cup Elements(t)
<1>1. /\ Len(s) \in Nat /\ Len(t) \in Nat /\ Len(s \o t) = Len(s) + Len(t)
      /\ \A k \in 1..Len(s) : (s \o t)[k] = s[k]
  OBVIOUS
<1>2. ASSUME NEW k \in 1..Len(t)
      PROVE  (s \o t)[Len(s) + k] = t[k] /\ Len(s) + k \in 1..Len(s \o t)
  BY <1>1
<1>3. ASSUME NEW k \in 1..Len(s \o t), k \notin 1..Len(s) PROVE k - Len(s) \in 1..Len(t)
  BY <1>1, <1>3
<1>4. ASSUME NEW k \in 1..Len(s \o t) PROVE (s \o t)[k] \in Elements(s) \cup Elements(t)
  <2>1. CASE k \in 1..Len(s)
    BY <1>1, <2>1 DEF Elements
  <2>2. CASE k \notin 1..Len(s)
    <3>1. k - Len(s) \in 1..Len(t) /\ Len(s) + (k - Len(s)) = k
      BY <1>1, <1>3, <2>2
    <3>2. (s \o t)[k] = t[k - Len(s)]
      BY <1>2, <3>1
    <3> QED
      BY <3>1, <3>2 DEF Elements
  <2> QED
    BY <2>1, <2>2
<1>5. ASSUME NEW k \in 1..Len(s) PROVE s[k] \in Elements(s \o t)
  <2>1. k \in 1..Len(s \o t)
    BY <1>1
  <2> QED
    BY <1>1, <2>1 DEF Elements
<1>6. ASSUME NEW k \in 1..Len(t) PROVE t[k] \in Elements(s \o t)
  BY <1>2 DEF Elements
<1>7. Elements(s \o t) \subseteq Elements(s) \cup Elements(t)
  BY <1>4 DEF Elements
<1>8. Elements(s) \subseteq Elements(s \o t) /\ Elements(t) \subseteq Elements(s \o t)
  BY <1>5, <1>6 DEF Elements
<1> QED
  BY <1>7, <1>8

\* The fold has everything once.
LEMMA FoldOnce ==
  ASSUME NEW B, NEW base \in Seq(B), NoneTwice(base), NEW seq \in Seq(B), AppendsNew(B)
  PROVE  /\ Fold(base, seq) \in Seq(B)
         /\ NoneTwice(Fold(base, seq))
         /\ Elements(Fold(base, seq)) = Elements(base) \cup Elements(seq)
<1> DEFINE First(k) == {seq[i] : i \in 1..k}
           I == {p \in Nat \X Seq(B) : NoneTwice(p[2]) /\ Elements(p[2]) = Elements(base) \cup First(p[1])}
<1>0. Len(seq) \in Nat /\ \A k \in 1..Len(seq) : seq[k] \in B
  OBVIOUS
<1>1. \A a \in Seq(B), b \in B : Op(a, b) \in Seq(B)
  BY AppendElements DEF AppendsNew
<1>2. <<0, base>> \in I
  OBVIOUS
<1>3. ASSUME NEW k \in 1..Len(seq), NEW a \in Seq(B), <<k - 1, a>> \in I
      PROVE  <<k, Op(a, seq[k])>> \in I
  <2>1. seq[k] \in B /\ First(k) = First(k - 1) \cup {seq[k]}
    <3>1. 1..k = (1..k-1) \cup {k}
      BY <1>0
    <3> QED
      BY <1>0, <3>1
  <2>2. NoneTwice(a) /\ Elements(a) = Elements(base) \cup First(k - 1)
    BY <1>3
  <2>3. seq[k] \in B /\ k \in Nat
    BY <2>1
  <2>4. Op(a, seq[k]) = IF seq[k] \in Elements(a) THEN a ELSE Append(a, seq[k])
    BY <2>3 DEF AppendsNew
  <2>5. Op(a, seq[k]) \in Seq(B)
    BY <1>1, <2>3
  <2>6. NoneTwice(Op(a, seq[k])) /\ Elements(Op(a, seq[k])) = Elements(a) \cup {seq[k]}
    BY <2>2, <2>3, <2>4, AppendElements
  <2> HIDE DEF First
  <2> QED
    BY <2>1, <2>2, <2>3, <2>5, <2>6
<1>4. Fold(base, seq) \in Seq(B) /\ <<Len(seq), Fold(base, seq)>> \in I
  <2> HIDE DEF I
  <2> QED
    BY <1>1, <1>2, <1>3, FoldInvariant
<1> QED
  BY <1>4 DEF Elements

\* What has nothing twice stays as it is.
LEMMA FoldOfNew ==
  ASSUME NEW B, NEW seq \in Seq(B), NoneTwice(seq), AppendsNew(B)
  PROVE  Fold(<<>>, seq) = seq
<1> DEFINE h == [k \in 0..Len(seq) |-> SubSeq(seq, 1, k)]
<1>0. Len(seq) \in Nat /\ \A k \in 1..Len(seq) : seq[k] \in B
  OBVIOUS
<1>1. \A a \in Seq(B), b \in B : Op(a, b) \in Seq(B)
  BY AppendElements DEF AppendsNew
<1>2. h[0] = <<>> /\ h[Len(seq)] = seq
  BY <1>0
<1>3. ASSUME NEW k \in 1..Len(seq) PROVE h[k] = Op(h[k - 1], seq[k])
  <2>1. k - 1 \in 0..Len(seq) /\ k \in 0..Len(seq) /\ seq[k] \in B
    BY <1>0
  <2>2. /\ SubSeq(seq, 1, k - 1) \in Seq(B) /\ Len(SubSeq(seq, 1, k - 1)) = k - 1
        /\ \A i \in 1..k-1 : SubSeq(seq, 1, k - 1)[i] = seq[i]
    BY <1>0, <2>1
  <2>3. seq[k] \notin Elements(SubSeq(seq, 1, k - 1))
    BY <1>0, <2>2 DEF Elements, NoneTwice
  <2>4. Op(h[k - 1], seq[k]) = Append(SubSeq(seq, 1, k - 1), seq[k])
    BY <2>1, <2>2, <2>3 DEF AppendsNew
  <2>5. SubSeq(seq, 1, k) = Append(SubSeq(seq, 1, k - 1), seq[k])
    BY <1>0, <2>1
  <2> QED
    BY <2>1, <2>4, <2>5
<1>4. Chain(h, <<>>, seq)
  <2> HIDE DEF h
  <2> QED
    BY <1>2, <1>3 DEF Chain
<1>5. <<>> \in Seq(B)
  OBVIOUS
<1>6. Fold(<<>>, seq) = h[Len(seq)]
  <2> HIDE DEF h
  <2> QED
    BY <1>1, <1>4, <1>5, FoldEnds
<1> QED
  BY <1>2, <1>6
=============================================================================
