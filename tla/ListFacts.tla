----------------------------- MODULE ListFacts ------------------------------
(* Facts about numbers and sequences that the proofs of several modules     *)
(* use.  Induction is over a set, the numbers that have the property, as    *)
(* no prover here instantiates a theorem about an operator.                 *)
EXTENDS Integers, SequencesExt, SequenceTheorems, FiniteSetTheorems,
        WellFoundedInduction, TLAPS

LEMMA LeastNat ==
  ASSUME NEW T, T \subseteq Nat, T # {}
  PROVE  \E m \in T : \A k \in T : m <= k
<1>1. PICK m \in T : \A k \in T : ~(<<k, m>> \in OpToRel(<, Nat))
  BY NatLessThanWellFounded, WFMin
<1>2. \A k \in T : ~(k < m)
  BY <1>1 DEF OpToRel
<1> QED BY <1>2

LEMMA NatInductionOnSet ==
  ASSUME NEW T, 0 \in T, \A n \in Nat : n \in T => n + 1 \in T
  PROVE  Nat \subseteq T
<1>1. ASSUME Nat \ T # {} PROVE FALSE
  <2>1. PICK m \in Nat \ T : \A k \in Nat \ T : m <= k
    BY <1>1, LeastNat
  <2>2. m # 0 /\ m - 1 \in Nat /\ m - 1 \in T
    BY <2>1
  <2> QED BY <2>1, <2>2
<1> QED BY <1>1

LEMMA GreatestBelow ==
  ASSUME NEW n \in Nat, NEW T, T \subseteq 0..n, T # {}
  PROVE  \E m \in T : \A k \in T : k <= m
<1> DEFINE U == {n - k : k \in T}
<1>1. U \subseteq Nat /\ U # {}
  <2>1. ASSUME NEW k \in T PROVE n - k \in Nat
    BY k \in 0..n
  <2> QED BY <2>1
<1>2. PICK u \in U : \A k \in U : u <= k
  BY <1>1, LeastNat
<1>3. PICK m \in T : u = n - m
  BY <1>2
<1>4. \A k \in T : k <= m
  <2>1. TAKE k \in T
  <2>2. n - m <= n - k
    BY <1>2, <1>3
  <2>3. n \in Int /\ k \in Int /\ m \in Int
    BY k \in 0..n, m \in 0..n
  <2> QED BY <2>2, <2>3
<1> QED BY <1>4

-----------------------------------------------------------------------------
(* Recursion on numbers: `step` is a function of the number and the value   *)
(* before.                                                                  *)
Steps(n, A) == [(1..n) \X A -> A]
Recurs(n, base, step, f) == f[0] = base /\ \A i \in 1..n : f[i] = step[<<i, f[i - 1]>>]

LEMMA Recursion ==
  ASSUME NEW n \in Nat, NEW A, NEW base \in A, NEW step \in Steps(n, A)
  PROVE  \E f \in [0..n -> A] : Recurs(n, base, step, f)
<1> USE DEF Steps
<1> DEFINE Upto(k, f) == f[0] = base /\ \A i \in 1..k : f[i] = step[<<i, f[i - 1]>>]
           Good == {k \in Nat : k <= n => \E f \in [0..k -> A] : Upto(k, f)}
<1>1. 0 \in Good
  <2> DEFINE f == [i \in 0..0 |-> base]
  <2>1. f \in [0..0 -> A] /\ f[0] = base
    OBVIOUS
  <2>2. Upto(0, f)
    BY <2>1
  <2>3. \E g \in [0..0 -> A] : Upto(0, g)
    BY <2>1, <2>2
  <2> HIDE DEF Upto
  <2> QED BY <2>3
<1>2. ASSUME NEW k \in Nat, k \in Good PROVE k + 1 \in Good
  <2>1. ASSUME k + 1 <= n PROVE \E g \in [0..k + 1 -> A] : Upto(k + 1, g)
    <3>1. \E f \in [0..k -> A] : Upto(k, f)
      <4> HIDE DEF Upto
      <4> QED BY <1>2, <2>1
    <3>2. PICK f \in [0..k -> A] : Upto(k, f)
      <4> HIDE DEF Upto
      <4> QED BY <3>1
    <3> DEFINE g == [i \in 0..k + 1 |-> IF i <= k THEN f[i] ELSE step[<<k + 1, f[k]>>]]
    <3>3. f[k] \in A /\ step[<<k + 1, f[k]>>] \in A
      BY <2>1
    <3>4. g \in [0..k + 1 -> A]
      BY <3>3
    <3>5. g[0] = base
      BY <3>2
    <3>6. ASSUME NEW i \in 1..k + 1 PROVE g[i] = step[<<i, g[i - 1]>>]
      <4>1. g[i - 1] = f[i - 1]
        OBVIOUS
      <4>2. CASE i <= k
        BY <3>2, <4>1, <4>2
      <4>3. CASE i = k + 1
        <5>1. g[k + 1] = step[<<k + 1, f[k]>>] /\ i - 1 = k
          BY <4>3
        <5> QED BY <4>1, <4>3, <5>1
      <4> QED BY <4>2, <4>3
    <3> HIDE DEF g
    <3> QED BY <3>4, <3>5, <3>6
  <2> HIDE DEF Upto
  <2> QED BY <2>1
<1>3. n \in Good
  <2> HIDE DEF Good
  <2> QED BY <1>1, <1>2, NatInductionOnSet
<1>4. \E f \in [0..n -> A] : Upto(n, f)
  <2> HIDE DEF Upto
  <2> QED BY <1>3
<1> QED BY <1>4 DEF Recurs

(* What FlattenSeq puts together: one sequence after the other.             *)
Joining(seqs, f) ==
  f = [i \in 1..Len(seqs) |-> IF i = 1 THEN seqs[i] ELSE f[i - 1] \o seqs[i]]

LEMMA FlattenIs ==
  ASSUME NEW seqs, Len(seqs) # 0
  PROVE  FlattenSeq(seqs) = (CHOOSE f : Joining(seqs, f))[Len(seqs)]
BY DEF FlattenSeq, Joining

LEMMA JoiningExists ==
  ASSUME NEW T, NEW seqs \in Seq(Seq(T))
  PROVE  \E f : Joining(seqs, f)
<1> DEFINE n == Len(seqs)
           A == Seq(T)
           base == <<>>
           step == [p \in (1..n) \X A |-> IF p[1] = 1 THEN seqs[p[1]] ELSE p[2] \o seqs[p[1]]]
<1>1. n \in Nat /\ base \in A
  OBVIOUS
<1>2. ASSUME NEW i \in 1..n, NEW a \in A
      PROVE  (IF i = 1 THEN seqs[i] ELSE a \o seqs[i]) \in A
  <2>1. seqs[i] \in Seq(T)
    OBVIOUS
  <2>2. a \o seqs[i] \in Seq(T)
    BY <2>1
  <2> QED BY <2>1, <2>2
<1> HIDE DEF n, A, base
<1>3. step \in Steps(n, A)
  BY <1>2 DEF Steps
<1>4. \A i \in 1..n : \A a \in A : step[<<i, a>>] = IF i = 1 THEN seqs[i] ELSE a \o seqs[i]
  OBVIOUS
<1> HIDE DEF step
<1>5. PICK g \in [0..n -> A] : Recurs(n, base, step, g)
  BY <1>1, <1>3, Recursion
<1>6. \A i \in 1..n : g[i] = IF i = 1 THEN seqs[i] ELSE g[i - 1] \o seqs[i]
  <2>1. \A i \in 1..n : g[i - 1] \in A
    BY <1>1
  <2> QED BY <1>4, <1>5, <2>1 DEF Recurs
<1> DEFINE f == [i \in 1..n |-> g[i]]
<1>7. \A i \in 1..n : i # 1 => f[i - 1] = g[i - 1]
  BY <1>1
<1>8. f = [i \in 1..n |-> IF i = 1 THEN seqs[i] ELSE f[i - 1] \o seqs[i]]
  BY <1>6, <1>7
<1> HIDE DEF f
<1> QED BY <1>8 DEF Joining, n

Flattening(seqs) == CHOOSE f : Joining(seqs, f)

LEMMA FlatteningFacts ==
  ASSUME NEW T, NEW seqs \in Seq(Seq(T))
  PROVE  \A i \in 1..Len(seqs) :
           /\ Flattening(seqs)[i] \in Seq(T)
           /\ Flattening(seqs)[i] = IF i = 1 THEN seqs[i] ELSE Flattening(seqs)[i - 1] \o seqs[i]
<1> DEFINE n == Len(seqs)
           f == Flattening(seqs)
           Good == {k \in Nat : k \in 1..n => f[k] \in Seq(T)}
<1>1. n \in Nat /\ \A i \in 1..n : seqs[i] \in Seq(T)
  OBVIOUS
<1>2. Joining(seqs, f)
  BY JoiningExists DEF Flattening
<1>3. \A i \in 1..n : f[i] = IF i = 1 THEN seqs[i] ELSE f[i - 1] \o seqs[i]
  <2> DEFINE e(i) == IF i = 1 THEN seqs[i] ELSE f[i - 1] \o seqs[i]
  <2>1. f = [i \in 1..n |-> e(i)]
    BY <1>2 DEF Joining
  <2> HIDE DEF e, f
  <2>2. \A i \in 1..n : f[i] = e(i)
    BY <2>1
  <2> QED BY <2>2 DEF e
<1> HIDE DEF f, n
<1>4. ASSUME NEW k \in Nat, k \in Good PROVE k + 1 \in Good
  <2>1. ASSUME k + 1 \in 1..n PROVE f[k + 1] \in Seq(T)
    <3>1. seqs[k + 1] \in Seq(T)
      BY <1>1, <2>1
    <3>2. CASE k = 0
      BY <1>3, <2>1, <3>1, <3>2
    <3>3. CASE k # 0
      <4>1. k \in 1..n /\ (k + 1) - 1 = k /\ k + 1 # 1
        BY <1>1, <2>1, <3>3
      <4>2. f[k] \in Seq(T)
        BY <1>4, <4>1
      <4>3. f[k + 1] = f[k] \o seqs[k + 1]
        BY <1>3, <2>1, <4>1
      <4>4. f[k] \o seqs[k + 1] \in Seq(T)
        BY <3>1, <4>2
      <4> QED BY <4>3, <4>4
    <3> QED BY <3>2, <3>3
  <2> QED BY <2>1
<1>5. 0 \in Good
  OBVIOUS
<1>6. Nat \subseteq Good
  <2> HIDE DEF Good
  <2> QED BY <1>4, <1>5, NatInductionOnSet
<1>7. \A i \in 1..n : f[i] \in Seq(T)
  BY <1>1, <1>6
<1> QED BY <1>3, <1>7 DEF f, n

(* The sequences one after the other.                                       *)
LEMMA FlattenFacts ==
  ASSUME NEW T, NEW seqs \in Seq(Seq(T)), NEW s \in Seq(T)
  PROVE  /\ FlattenSeq(seqs) \in Seq(T) /\ FlattenSeq(<<>>) = <<>>
         /\ FlattenSeq(Append(seqs, s)) = FlattenSeq(seqs) \o s
<1> DEFINE n == Len(seqs)
           more == Append(seqs, s)
           f == Flattening(seqs)
           g == Flattening(more)
           Good == {k \in Nat : k \in 1..n => g[k] = f[k]}
<1>1. /\ n \in Nat /\ more \in Seq(Seq(T)) /\ Len(more) = n + 1 /\ more[n + 1] = s
      /\ \A i \in 1..n : more[i] = seqs[i]
  OBVIOUS
<1>2. \A i \in 1..n : f[i] \in Seq(T) /\ f[i] = IF i = 1 THEN seqs[i] ELSE f[i - 1] \o seqs[i]
  <2> HIDE DEF f
  <2> QED BY FlatteningFacts DEF f
<1>3. \A i \in 1..n + 1 : g[i] = IF i = 1 THEN more[i] ELSE g[i - 1] \o more[i]
  <2> HIDE DEF g, more
  <2>1. \A i \in 1..Len(more) : g[i] = IF i = 1 THEN more[i] ELSE g[i - 1] \o more[i]
    BY <1>1, FlatteningFacts DEF g
  <2> QED BY <1>1, <2>1
<1>4. /\ FlattenSeq(<<>>) = <<>>
      /\ FlattenSeq(seqs) = IF n = 0 THEN <<>> ELSE f[n]
  <2>1. FlattenSeq(<<>>) = <<>>
    BY DEF FlattenSeq
  <2>2. n = 0 => seqs = <<>>
    OBVIOUS
  <2>3. n # 0 => FlattenSeq(seqs) = f[n]
    BY FlattenIs DEF Flattening
  <2> QED BY <2>1, <2>2, <2>3
<1>5. FlattenSeq(more) = g[n + 1]
  <2>1. Len(more) # 0
    BY <1>1
  <2> HIDE DEF more
  <2> QED BY <1>1, <2>1, FlattenIs DEF Flattening
<1> HIDE DEF f, g, n, more
<1>6. ASSUME NEW k \in Nat, k \in Good PROVE k + 1 \in Good
  <2>1. ASSUME k + 1 \in 1..n PROVE g[k + 1] = f[k + 1]
    <3>1. more[k + 1] = seqs[k + 1] /\ k + 1 \in 1..n + 1
      BY <1>1, <2>1
    <3>2. CASE k = 0
      BY <1>2, <1>3, <2>1, <3>1, <3>2
    <3>3. CASE k # 0
      <4>1. k \in 1..n /\ (k + 1) - 1 = k /\ k + 1 # 1
        BY <1>1, <2>1, <3>3
      <4>2. g[k] = f[k]
        BY <1>6, <4>1
      <4>3. f[k + 1] = f[k] \o seqs[k + 1] /\ g[k + 1] = g[k] \o more[k + 1]
        BY <1>2, <1>3, <2>1, <3>1, <4>1
      <4> QED BY <3>1, <4>2, <4>3
    <3> QED BY <3>2, <3>3
  <2> QED BY <2>1
<1>7. 0 \in Good
  OBVIOUS
<1>8. Nat \subseteq Good
  <2> HIDE DEF Good
  <2> QED BY <1>6, <1>7, NatInductionOnSet
<1>9. FlattenSeq(seqs) \in Seq(T)
  BY <1>1, <1>2, <1>4
<1>10. FlattenSeq(more) = FlattenSeq(seqs) \o s
  <2>1. CASE n = 0
    <3>1. g[n + 1] = s
      BY <1>1, <1>3, <2>1
    <3> QED BY <1>4, <1>5, <2>1, <3>1
  <2>2. CASE n # 0
    <3>1. n \in 1..n /\ n + 1 \in 1..n + 1 /\ (n + 1) - 1 = n /\ n + 1 # 1
      BY <1>1, <2>2
    <3>2. g[n + 1] = g[n] \o more[n + 1]
      BY <1>3, <3>1
    <3>3. g[n] = f[n]
      BY <1>1, <1>8, <3>1
    <3> QED BY <1>1, <1>4, <1>5, <2>2, <3>2, <3>3
  <2> QED BY <2>1, <2>2
<1> QED BY <1>4, <1>9, <1>10 DEF more

-----------------------------------------------------------------------------
(* What FoldLeft computes: a value for every set of places of a sequence,   *)
(* from that of the set without its last place.                             *)
Folding(n, base, step, g) ==
  \A D \in SUBSET (1..n) :
    g[D] = IF D = {} THEN base ELSE step[<<Max(D), g[D \ {Max(D)}]>>]

LEMMA LastPlace ==
  ASSUME NEW n \in Nat, NEW D, D \subseteq 1..n, D # {}
  PROVE  /\ Max(D) \in D /\ \A x \in D : x <= Max(D)
         /\ D \subseteq 1..Max(D) /\ D \ {Max(D)} \subseteq 1..Max(D) - 1
<1>1. \E m \in D : \A x \in D : x <= m
  BY D \subseteq 0..n, GreatestBelow
<1>2. \E m \in D : \A x \in D : m >= x
  BY <1>1
<1>3. Max(D) \in D /\ \A x \in D : Max(D) >= x
  BY <1>2 DEF Max
<1>4. \A x \in D : x <= Max(D)
  BY <1>3
<1>5. D \subseteq 1..Max(D)
  BY <1>3, <1>4
<1>6. ASSUME NEW x \in D \ {Max(D)} PROVE x \in 1..Max(D) - 1
  <2> DEFINE m == Max(D)
  <2>1. m \in D /\ D \subseteq 1..m /\ x \in D /\ x # m
    BY <1>3, <1>5
  <2> HIDE DEF m
  <2>2. x \in 1..m /\ m \in 1..n
    BY <2>1
  <2>3. x \in 1..m - 1
    BY <2>1, <2>2
  <2> QED BY <2>3 DEF m
<1> QED BY <1>3, <1>4, <1>5, <1>6

LEMMA FirstPlaces ==
  ASSUME NEW n \in Nat, NEW k \in 1..n
  PROVE  /\ 1..k \in SUBSET (1..n) /\ 1..k # {} /\ Max(1..k) = k
         /\ (1..k) \ {Max(1..k)} = 1..k - 1
<1>1. 1..k \subseteq 1..n /\ 1..k # {} /\ k \in 1..k
  OBVIOUS
<1>2. Max(1..k) \in 1..k /\ \A x \in 1..k : x <= Max(1..k)
  BY <1>1, LastPlace
<1>3. Max(1..k) = k
  BY <1>1, <1>2
<1> QED BY <1>1, <1>3

LEMMA FoldingExists ==
  ASSUME NEW n \in Nat, NEW A, NEW base \in A, NEW step \in Steps(n, A)
  PROVE  \E g \in [SUBSET (1..n) -> A] : Folding(n, base, step, g)
<1> DEFINE Places == SUBSET (1..n)
           B == [Places -> A]
           start == [D \in Places |-> base]
           next(i, g) == [D \in Places |-> IF i \in D THEN step[<<i, g[D \ {i}]>>] ELSE g[D]]
           more == [p \in (1..n) \X B |-> next(p[1], p[2])]
<1>1. start \in B
  OBVIOUS
<1>2. ASSUME NEW i \in 1..n, NEW g \in B PROVE next(i, g) \in B
  <2>1. ASSUME NEW D \in Places
        PROVE  (IF i \in D THEN step[<<i, g[D \ {i}]>>] ELSE g[D]) \in A
    <3>1. g[D \ {i}] \in A /\ g[D] \in A
      OBVIOUS
    <3> QED BY <3>1 DEF Steps
  <2> QED BY <2>1
<1>3. more \in Steps(n, B)
  <2> HIDE DEF next, B
  <2> QED BY <1>2 DEF Steps
<1>4. \A i \in 1..n : \A g \in B : more[<<i, g>>] = next(i, g)
  <2> HIDE DEF next, B
  <2> QED OBVIOUS
<1> HIDE DEF more, start
<1>5. PICK f \in [0..n -> B] : Recurs(n, start, more, f)
  <2> HIDE DEF B
  <2> QED BY <1>1, <1>3, Recursion
<1>6. /\ f[0] = start
      /\ \A i \in 1..n : f[i] = next(i, f[i - 1])
  <2>1. \A i \in 1..n : i - 1 \in 0..n
    OBVIOUS
  <2> HIDE DEF B, next
  <2>2. \A i \in 1..n : f[i - 1] \in B
    BY <2>1
  <2> QED BY <1>4, <1>5, <2>2 DEF Recurs
<1>7. ASSUME NEW i \in 1..n, NEW D \in Places
      PROVE  f[i][D] = IF i \in D THEN step[<<i, f[i - 1][D \ {i}]>>] ELSE f[i - 1][D]
  <2>1. f[i] = next(i, f[i - 1])
    <3> HIDE DEF next
    <3> QED BY <1>6
  <2>2. next(i, f[i - 1])[D] = IF i \in D THEN step[<<i, f[i - 1][D \ {i}]>>] ELSE f[i - 1][D]
    OBVIOUS
  <2> HIDE DEF next
  <2> QED BY <2>1, <2>2
<1>8. ASSUME NEW k \in 0..n, NEW D \in SUBSET (1..k) PROVE f[n][D] = f[k][D]
  <2> DEFINE Same == {j \in Nat : j \in k..n => f[j][D] = f[k][D]}
  <2>1. 0 \in Same
    OBVIOUS
  <2>2. ASSUME NEW j \in Nat, j \in Same PROVE j + 1 \in Same
    <3>1. ASSUME j + 1 \in k..n, j + 1 # k PROVE f[j + 1][D] = f[k][D]
      <4>1. j \in k..n /\ j + 1 \in 1..n /\ D \in Places /\ j + 1 \notin D /\ (j + 1) - 1 = j
        BY <3>1
      <4>2. f[j + 1][D] = f[(j + 1) - 1][D]
        <5> HIDE DEF Places
        <5> QED BY <1>7, <4>1
      <4> QED BY <2>2, <4>1, <4>2
    <3> QED BY <3>1
  <2>3. n \in Same
    <3> HIDE DEF Same
    <3> QED BY <2>1, <2>2, NatInductionOnSet
  <2> QED BY <2>3
<1> DEFINE g == f[n]
<1>9. g \in B
  <2> HIDE DEF B
  <2> QED BY n \in 0..n
<1>10. ASSUME NEW D \in Places, D = {} PROVE g[D] = base
  <2>1. f[n][D] = f[0][D]
    BY <1>8, <1>10
  <2> QED BY <1>6, <2>1 DEF start
<1>11. ASSUME NEW D \in Places, D # {} PROVE g[D] = step[<<Max(D), g[D \ {Max(D)}]>>]
  <2> DEFINE m == Max(D)
  <2>1. m \in D /\ D \subseteq 1..m /\ D \ {m} \subseteq 1..m - 1
    BY <1>11, LastPlace
  <2> HIDE DEF m
  <2>2. m \in 1..n /\ m - 1 \in 0..n /\ m \in 0..n
    BY <2>1
  <2>3. f[n][D] = f[m][D] /\ f[n][D \ {m}] = f[m - 1][D \ {m}]
    BY <1>8, <2>1, <2>2
  <2>4. f[m][D] = step[<<m, f[m - 1][D \ {m}]>>]
    BY <1>7, <2>1, <2>2
  <2>5. g[D] = step[<<m, g[D \ {m}]>>]
    BY <2>3, <2>4
  <2> QED BY <2>5 DEF m
<1> HIDE DEF g
<1>12. Folding(n, base, step, g)
  BY <1>10, <1>11 DEF Folding
<1> QED BY <1>9, <1>12

(* What holds of the first value and of each one that follows such a value. *)
LEMMA RunTyped ==
  ASSUME NEW n \in Nat, NEW A, NEW h, h[0] \in A,
         \A i \in 1..n : h[i - 1] \in A => h[i] \in A
  PROVE  \A i \in 0..n : h[i] \in A
<1> DEFINE Good == {k \in Nat : k <= n => h[k] \in A}
<1>1. 0 \in Good
  OBVIOUS
<1>2. ASSUME NEW k \in Nat, k \in Good PROVE k + 1 \in Good
  <2>1. ASSUME k + 1 <= n PROVE h[k + 1] \in A
    <3>1. k + 1 \in 1..n /\ (k + 1) - 1 = k /\ h[k] \in A
      BY <1>2, <2>1
    <3> QED BY <3>1
  <2> QED BY <2>1
<1>3. Nat \subseteq Good
  <2> HIDE DEF Good
  <2> QED BY <1>1, <1>2, NatInductionOnSet
<1> QED BY <1>3

(* Two runs that go on alike from the same value reach the same one.        *)
LEMMA RunsAgree ==
  ASSUME NEW n \in Nat, NEW g, NEW h, g[0] = h[0],
         \A i \in 1..n : g[i - 1] = h[i - 1] => g[i] = h[i]
  PROVE  g[n] = h[n]
<1> DEFINE Good == {k \in Nat : k <= n => g[k] = h[k]}
<1>1. 0 \in Good
  OBVIOUS
<1>2. ASSUME NEW k \in Nat, k \in Good PROVE k + 1 \in Good
  <2>1. ASSUME k + 1 <= n PROVE g[k + 1] = h[k + 1]
    <3>1. k + 1 \in 1..n /\ (k + 1) - 1 = k /\ g[k] = h[k]
      BY <1>2, <2>1
    <3> QED BY <3>1
  <2> QED BY <2>1
<1>3. Nat \subseteq Good
  <2> HIDE DEF Good
  <2> QED BY <1>1, <1>2, NatInductionOnSet
<1> QED BY <1>3
=============================================================================
