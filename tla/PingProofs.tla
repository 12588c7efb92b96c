----------------------------- MODULE PingProofs -----------------------------
(* Theorems about Ping, for any hosts, groups, latencies and counts.        *)
EXTENDS Ping, ListFacts

Answer == Time \cup {Lost}
Group == [name : STRING, hosts : Seq(Host)]

LEMMA SetGroupTyped ==
  ASSUME NEW groups \in Seq(Group), NEW group \in Group
  PROVE  SetGroup(groups, group) \in Seq(Group)
<1> DEFINE instead == [i \in 1..Len(groups) |-> IF groups[i].name = group.name THEN group ELSE groups[i]]
<1>1. instead \in Seq(Group)
  <2> HIDE DEF Group
  <2>1. \A i \in 1..Len(groups) : (IF groups[i].name = group.name THEN group ELSE groups[i]) \in Group
    OBVIOUS
  <2> QED BY <2>1
<1> HIDE DEF instead, Group
<1>2. Append(groups, group) \in Seq(Group)
  OBVIOUS
<1> QED BY <1>1, <1>2 DEF SetGroup, instead

-----------------------------------------------------------------------------
(* The loops.  Each is a run of values, one per element of the list.        *)

LEMMA TimesInRuns ==
  ASSUME NEW log \in Seq(Answer)
  PROVE  \E h : /\ h[0] = <<>> /\ TimesIn(log) = h[Len(log)]
                /\ \A i \in 1..Len(log) : h[i] = IF log[i] = Lost THEN h[i - 1] ELSE Append(h[i - 1], log[i])
<1> DEFINE n == Len(log)
           A == Seq(Answer)
           base == <<>>
           next(i, a) == IF log[i] = Lost THEN a ELSE Append(a, log[i])
           step == [p \in (1..n) \X A |-> next(p[1], p[2])]
           Folds(g) == g = [D \in SUBSET (DOMAIN log) |->
                              IF D = {} THEN base ELSE next(Max(D), g[D \ {Max(D)}])]
<1>1. n \in Nat /\ DOMAIN log = 1..n /\ base \in A /\ \A i \in 1..n : log[i] \in Answer
  OBVIOUS
<1>2. TimesIn(log) = (CHOOSE g : Folds(g))[1..n]
  BY <1>1 DEF TimesIn, FoldLeft, MapThenFoldSet
<1>3. \A i \in 1..n : \A a \in A : next(i, a) \in A
  BY <1>1
<1> HIDE DEF A, next, base, n
<1>4. step \in Steps(n, A) /\ \A i \in 1..n : \A a \in A : step[<<i, a>>] = next(i, a)
  BY <1>3 DEF Steps
<1> HIDE DEF step
<1>5. PICK g \in [SUBSET (1..n) -> A] : Folding(n, base, step, g)
  BY <1>1, <1>4, FoldingExists
<1>6. \A D \in SUBSET (1..n) : g[D] = IF D = {} THEN base ELSE next(Max(D), g[D \ {Max(D)}])
  <2>1. ASSUME NEW D \in SUBSET (1..n), D # {} PROVE Max(D) \in 1..n /\ g[D \ {Max(D)}] \in A
    BY <1>1, <2>1, LastPlace
  <2> QED BY <1>4, <1>5, <2>1 DEF Folding
<1>7. Folds(g)
  BY <1>1, <1>6
<1>8. PICK f : Folds(f) /\ TimesIn(log) = f[1..n]
  <2> HIDE DEF Folds
  <2> QED BY <1>2, <1>7
<1>9. /\ f[{}] = base
      /\ \A k \in 1..n : f[1..k] = next(k, f[1..k - 1])
  <2>1. \A k \in 1..n : /\ 1..k \in SUBSET (1..n) /\ 1..k # {} /\ Max(1..k) = k
                        /\ (1..k) \ {Max(1..k)} = 1..k - 1
    BY <1>1, FirstPlaces
  <2> QED BY <1>1, <1>8, <2>1
<1> HIDE DEF Folds
<1> DEFINE h == [k \in 0..n |-> f[1..k]]
<1>10. h[0] = base /\ TimesIn(log) = h[n] /\ \A i \in 1..n : h[i] = next(i, h[i - 1])
  BY <1>1, <1>8, <1>9, 1..0 = {}
<1> HIDE DEF h
<1> QED BY <1>10 DEF n, next, base

LEMMA FastestRuns ==
  ASSUME NEW times \in Seq(Time), times # <<>>
  PROVE  \E h : /\ h[0] = times[1] /\ Fastest(times) = h[Len(times)]
                /\ \A i \in 1..Len(times) : h[i] = IF times[i] < h[i - 1] THEN times[i] ELSE h[i - 1]
<1> DEFINE n == Len(times)
           A == Time
           base == times[1]
           next(i, a) == IF times[i] < a THEN times[i] ELSE a
           step == [p \in (1..n) \X A |-> next(p[1], p[2])]
           Folds(g) == g = [D \in SUBSET (DOMAIN times) |->
                              IF D = {} THEN base ELSE next(Max(D), g[D \ {Max(D)}])]
<1>1. n \in Nat /\ DOMAIN times = 1..n /\ base \in A /\ \A i \in 1..n : times[i] \in Time
  OBVIOUS
<1>2. Fastest(times) = (CHOOSE g : Folds(g))[1..n]
  BY <1>1 DEF Fastest, FoldLeft, MapThenFoldSet
<1>3. \A i \in 1..n : \A a \in A : next(i, a) \in A
  BY <1>1
<1> HIDE DEF A, next, base, n
<1>4. step \in Steps(n, A) /\ \A i \in 1..n : \A a \in A : step[<<i, a>>] = next(i, a)
  BY <1>3 DEF Steps
<1> HIDE DEF step
<1>5. PICK g \in [SUBSET (1..n) -> A] : Folding(n, base, step, g)
  BY <1>1, <1>4, FoldingExists
<1>6. \A D \in SUBSET (1..n) : g[D] = IF D = {} THEN base ELSE next(Max(D), g[D \ {Max(D)}])
  <2>1. ASSUME NEW D \in SUBSET (1..n), D # {} PROVE Max(D) \in 1..n /\ g[D \ {Max(D)}] \in A
    BY <1>1, <2>1, LastPlace
  <2> QED BY <1>4, <1>5, <2>1 DEF Folding
<1>7. Folds(g)
  BY <1>1, <1>6
<1>8. PICK f : Folds(f) /\ Fastest(times) = f[1..n]
  <2> HIDE DEF Folds
  <2> QED BY <1>2, <1>7
<1>9. /\ f[{}] = base
      /\ \A k \in 1..n : f[1..k] = next(k, f[1..k - 1])
  <2>1. \A k \in 1..n : /\ 1..k \in SUBSET (1..n) /\ 1..k # {} /\ Max(1..k) = k
                        /\ (1..k) \ {Max(1..k)} = 1..k - 1
    BY <1>1, FirstPlaces
  <2> QED BY <1>1, <1>8, <2>1
<1> HIDE DEF Folds
<1> DEFINE h == [k \in 0..n |-> f[1..k]]
<1>10. h[0] = base /\ Fastest(times) = h[n] /\ \A i \in 1..n : h[i] = next(i, h[i - 1])
  BY <1>1, <1>8, <1>9, 1..0 = {}
<1> HIDE DEF h
<1> QED BY <1>10 DEF n, next, base

LEMMA SlowestRuns ==
  ASSUME NEW times \in Seq(Time), times # <<>>
  PROVE  \E h : /\ h[0] = times[1] /\ Slowest(times) = h[Len(times)]
                /\ \A i \in 1..Len(times) : h[i] = IF times[i] > h[i - 1] THEN times[i] ELSE h[i - 1]
<1> DEFINE n == Len(times)
           A == Time
           base == times[1]
           next(i, a) == IF times[i] > a THEN times[i] ELSE a
           step == [p \in (1..n) \X A |-> next(p[1], p[2])]
           Folds(g) == g = [D \in SUBSET (DOMAIN times) |->
                              IF D = {} THEN base ELSE next(Max(D), g[D \ {Max(D)}])]
<1>1. n \in Nat /\ DOMAIN times = 1..n /\ base \in A /\ \A i \in 1..n : times[i] \in Time
  OBVIOUS
<1>2. Slowest(times) = (CHOOSE g : Folds(g))[1..n]
  BY <1>1 DEF Slowest, FoldLeft, MapThenFoldSet
<1>3. \A i \in 1..n : \A a \in A : next(i, a) \in A
  BY <1>1
<1> HIDE DEF A, next, base, n
<1>4. step \in Steps(n, A) /\ \A i \in 1..n : \A a \in A : step[<<i, a>>] = next(i, a)
  BY <1>3 DEF Steps
<1> HIDE DEF step
<1>5. PICK g \in [SUBSET (1..n) -> A] : Folding(n, base, step, g)
  BY <1>1, <1>4, FoldingExists
<1>6. \A D \in SUBSET (1..n) : g[D] = IF D = {} THEN base ELSE next(Max(D), g[D \ {Max(D)}])
  <2>1. ASSUME NEW D \in SUBSET (1..n), D # {} PROVE Max(D) \in 1..n /\ g[D \ {Max(D)}] \in A
    BY <1>1, <2>1, LastPlace
  <2> QED BY <1>4, <1>5, <2>1 DEF Folding
<1>7. Folds(g)
  BY <1>1, <1>6
<1>8. PICK f : Folds(f) /\ Slowest(times) = f[1..n]
  <2> HIDE DEF Folds
  <2> QED BY <1>2, <1>7
<1>9. /\ f[{}] = base
      /\ \A k \in 1..n : f[1..k] = next(k, f[1..k - 1])
  <2>1. \A k \in 1..n : /\ 1..k \in SUBSET (1..n) /\ 1..k # {} /\ Max(1..k) = k
                        /\ (1..k) \ {Max(1..k)} = 1..k - 1
    BY <1>1, FirstPlaces
  <2> QED BY <1>1, <1>8, <2>1
<1> HIDE DEF Folds
<1> DEFINE h == [k \in 0..n |-> f[1..k]]
<1>10. h[0] = base /\ Slowest(times) = h[n] /\ \A i \in 1..n : h[i] = next(i, h[i - 1])
  BY <1>1, <1>8, <1>9, 1..0 = {}
<1> HIDE DEF h
<1> QED BY <1>10 DEF n, next, base

LEMMA SumRuns ==
  ASSUME NEW times \in Seq(Nat)
  PROVE  \E h : /\ h[0] = 0 /\ Sum(times) = h[Len(times)]
                /\ \A i \in 1..Len(times) : h[i] = h[i - 1] + times[i]
<1> DEFINE n == Len(times)
           A == Nat
           base == 0
           next(i, a) == a + times[i]
           step == [p \in (1..n) \X A |-> next(p[1], p[2])]
           Folds(g) == g = [D \in SUBSET (DOMAIN times) |->
                              IF D = {} THEN base ELSE next(Max(D), g[D \ {Max(D)}])]
<1>1. n \in Nat /\ DOMAIN times = 1..n /\ base \in A /\ \A i \in 1..n : times[i] \in Nat
  OBVIOUS
<1>2. Sum(times) = (CHOOSE g : Folds(g))[1..n]
  BY <1>1 DEF Sum, FoldLeft, MapThenFoldSet
<1>3. \A i \in 1..n : \A a \in A : next(i, a) \in A
  BY <1>1
<1> HIDE DEF A, next, base, n
<1>4. step \in Steps(n, A) /\ \A i \in 1..n : \A a \in A : step[<<i, a>>] = next(i, a)
  BY <1>3 DEF Steps
<1> HIDE DEF step
<1>5. PICK g \in [SUBSET (1..n) -> A] : Folding(n, base, step, g)
  BY <1>1, <1>4, FoldingExists
<1>6. \A D \in SUBSET (1..n) : g[D] = IF D = {} THEN base ELSE next(Max(D), g[D \ {Max(D)}])
  <2>1. ASSUME NEW D \in SUBSET (1..n), D # {} PROVE Max(D) \in 1..n /\ g[D \ {Max(D)}] \in A
    BY <1>1, <2>1, LastPlace
  <2> QED BY <1>4, <1>5, <2>1 DEF Folding
<1>7. Folds(g)
  BY <1>1, <1>6
<1>8. PICK f : Folds(f) /\ Sum(times) = f[1..n]
  <2> HIDE DEF Folds
  <2> QED BY <1>2, <1>7
<1>9. /\ f[{}] = base
      /\ \A k \in 1..n : f[1..k] = next(k, f[1..k - 1])
  <2>1. \A k \in 1..n : /\ 1..k \in SUBSET (1..n) /\ 1..k # {} /\ Max(1..k) = k
                        /\ (1..k) \ {Max(1..k)} = 1..k - 1
    BY <1>1, FirstPlaces
  <2> QED BY <1>1, <1>8, <2>1
<1> HIDE DEF Folds
<1> DEFINE h == [k \in 0..n |-> f[1..k]]
<1>10. h[0] = base /\ Sum(times) = h[n] /\ \A i \in 1..n : h[i] = next(i, h[i - 1])
  BY <1>1, <1>8, <1>9, 1..0 = {}
<1> HIDE DEF h
<1> QED BY <1>10 DEF n, next, base

LEMMA AnswersSumRuns ==
  ASSUME NEW log \in Seq(Answer)
  PROVE  \E h : /\ h[0] = 0 /\ AnswersSum(log) = h[Len(log)]
                /\ \A i \in 1..Len(log) : h[i] = IF log[i] = Lost THEN h[i - 1] ELSE h[i - 1] + log[i]
<1> DEFINE n == Len(log)
           A == Nat
           base == 0
           next(i, a) == IF log[i] = Lost THEN a ELSE a + log[i]
           step == [p \in (1..n) \X A |-> next(p[1], p[2])]
           Folds(g) == g = [D \in SUBSET (DOMAIN log) |->
                              IF D = {} THEN base ELSE next(Max(D), g[D \ {Max(D)}])]
<1>1. n \in Nat /\ DOMAIN log = 1..n /\ base \in A /\ \A i \in 1..n : log[i] \in Nat
  <2>1. n \in Nat /\ DOMAIN log = 1..n /\ \A i \in 1..n : log[i] \in Answer
    OBVIOUS
  <2>2. Answer \subseteq Nat
    BY PingAssumption DEF Answer, Lost
  <2> QED BY <2>1, <2>2
<1>2. AnswersSum(log) = (CHOOSE g : Folds(g))[1..n]
  BY <1>1 DEF AnswersSum, FoldLeft, MapThenFoldSet
<1>3. \A i \in 1..n : \A a \in A : next(i, a) \in A
  BY <1>1
<1> HIDE DEF A, next, base, n
<1>4. step \in Steps(n, A) /\ \A i \in 1..n : \A a \in A : step[<<i, a>>] = next(i, a)
  BY <1>3 DEF Steps
<1> HIDE DEF step
<1>5. PICK g \in [SUBSET (1..n) -> A] : Folding(n, base, step, g)
  BY <1>1, <1>4, FoldingExists
<1>6. \A D \in SUBSET (1..n) : g[D] = IF D = {} THEN base ELSE next(Max(D), g[D \ {Max(D)}])
  <2>1. ASSUME NEW D \in SUBSET (1..n), D # {} PROVE Max(D) \in 1..n /\ g[D \ {Max(D)}] \in A
    BY <1>1, <2>1, LastPlace
  <2> QED BY <1>4, <1>5, <2>1 DEF Folding
<1>7. Folds(g)
  BY <1>1, <1>6
<1>8. PICK f : Folds(f) /\ AnswersSum(log) = f[1..n]
  <2> HIDE DEF Folds
  <2> QED BY <1>2, <1>7
<1>9. /\ f[{}] = base
      /\ \A k \in 1..n : f[1..k] = next(k, f[1..k - 1])
  <2>1. \A k \in 1..n : /\ 1..k \in SUBSET (1..n) /\ 1..k # {} /\ Max(1..k) = k
                        /\ (1..k) \ {Max(1..k)} = 1..k - 1
    BY <1>1, FirstPlaces
  <2> QED BY <1>1, <1>8, <2>1
<1> HIDE DEF Folds
<1> DEFINE h == [k \in 0..n |-> f[1..k]]
<1>10. h[0] = base /\ AnswersSum(log) = h[n] /\ \A i \in 1..n : h[i] = next(i, h[i - 1])
  BY <1>1, <1>8, <1>9, 1..0 = {}
<1> HIDE DEF h
<1> QED BY <1>10 DEF n, next, base

LEMMA DedupeRuns ==
  ASSUME NEW list \in Seq(Host)
  PROVE  \E h : /\ h[0] = <<>> /\ Dedupe(list) = h[Len(list)]
                /\ \A i \in 1..Len(list) :
                     h[i] = IF Contains(h[i - 1], list[i]) THEN h[i - 1] ELSE Append(h[i - 1], list[i])
<1> DEFINE n == Len(list)
           A == Seq(Host)
           base == <<>>
           next(i, a) == IF Contains(a, list[i]) THEN a ELSE Append(a, list[i])
           step == [p \in (1..n) \X A |-> next(p[1], p[2])]
           Folds(g) == g = [D \in SUBSET (DOMAIN list) |->
                              IF D = {} THEN base ELSE next(Max(D), g[D \ {Max(D)}])]
<1>1. n \in Nat /\ DOMAIN list = 1..n /\ base \in A /\ \A i \in 1..n : list[i] \in Host
  OBVIOUS
<1>2. Dedupe(list) = (CHOOSE g : Folds(g))[1..n]
  BY <1>1 DEF Dedupe, FoldLeft, MapThenFoldSet
<1>3. \A i \in 1..n : \A a \in A : next(i, a) \in A
  BY <1>1
<1> HIDE DEF A, next, base, n
<1>4. step \in Steps(n, A) /\ \A i \in 1..n : \A a \in A : step[<<i, a>>] = next(i, a)
  BY <1>3 DEF Steps
<1> HIDE DEF step
<1>5. PICK g \in [SUBSET (1..n) -> A] : Folding(n, base, step, g)
  BY <1>1, <1>4, FoldingExists
<1>6. \A D \in SUBSET (1..n) : g[D] = IF D = {} THEN base ELSE next(Max(D), g[D \ {Max(D)}])
  <2>1. ASSUME NEW D \in SUBSET (1..n), D # {} PROVE Max(D) \in 1..n /\ g[D \ {Max(D)}] \in A
    BY <1>1, <2>1, LastPlace
  <2> QED BY <1>4, <1>5, <2>1 DEF Folding
<1>7. Folds(g)
  BY <1>1, <1>6
<1>8. PICK f : Folds(f) /\ Dedupe(list) = f[1..n]
  <2> HIDE DEF Folds
  <2> QED BY <1>2, <1>7
<1>9. /\ f[{}] = base
      /\ \A k \in 1..n : f[1..k] = next(k, f[1..k - 1])
  <2>1. \A k \in 1..n : /\ 1..k \in SUBSET (1..n) /\ 1..k # {} /\ Max(1..k) = k
                        /\ (1..k) \ {Max(1..k)} = 1..k - 1
    BY <1>1, FirstPlaces
  <2> QED BY <1>1, <1>8, <2>1
<1> HIDE DEF Folds
<1> DEFINE h == [k \in 0..n |-> f[1..k]]
<1>10. h[0] = base /\ Dedupe(list) = h[n] /\ \A i \in 1..n : h[i] = next(i, h[i - 1])
  BY <1>1, <1>8, <1>9, 1..0 = {}
<1> HIDE DEF h
<1> QED BY <1>10 DEF n, next, base

LEMMA HopsInRuns ==
  ASSUME NEW route \in Seq(Host \cup {Star})
  PROVE  \E h : /\ h[0] = <<>> /\ HopsIn(route) = h[Len(route)]
                /\ \A i \in 1..Len(route) :
                     h[i] = IF route[i] = Star \/ Contains(h[i - 1], route[i]) THEN h[i - 1]
                            ELSE Append(h[i - 1], route[i])
<1> DEFINE n == Len(route)
           A == Seq(Host \cup {Star})
           base == <<>>
           next(i, a) == IF route[i] = Star \/ Contains(a, route[i]) THEN a ELSE Append(a, route[i])
           step == [p \in (1..n) \X A |-> next(p[1], p[2])]
           Folds(g) == g = [D \in SUBSET (DOMAIN route) |->
                              IF D = {} THEN base ELSE next(Max(D), g[D \ {Max(D)}])]
<1>1. n \in Nat /\ DOMAIN route = 1..n /\ base \in A /\ \A i \in 1..n : route[i] \in Host \cup {Star}
  OBVIOUS
<1>2. HopsIn(route) = (CHOOSE g : Folds(g))[1..n]
  BY <1>1 DEF HopsIn, FoldLeft, MapThenFoldSet
<1>3. \A i \in 1..n : \A a \in A : next(i, a) \in A
  BY <1>1
<1> HIDE DEF A, next, base, n
<1>4. step \in Steps(n, A) /\ \A i \in 1..n : \A a \in A : step[<<i, a>>] = next(i, a)
  BY <1>3 DEF Steps
<1> HIDE DEF step
<1>5. PICK g \in [SUBSET (1..n) -> A] : Folding(n, base, step, g)
  BY <1>1, <1>4, FoldingExists
<1>6. \A D \in SUBSET (1..n) : g[D] = IF D = {} THEN base ELSE next(Max(D), g[D \ {Max(D)}])
  <2>1. ASSUME NEW D \in SUBSET (1..n), D # {} PROVE Max(D) \in 1..n /\ g[D \ {Max(D)}] \in A
    BY <1>1, <2>1, LastPlace
  <2> QED BY <1>4, <1>5, <2>1 DEF Folding
<1>7. Folds(g)
  BY <1>1, <1>6
<1>8. PICK f : Folds(f) /\ HopsIn(route) = f[1..n]
  <2> HIDE DEF Folds
  <2> QED BY <1>2, <1>7
<1>9. /\ f[{}] = base
      /\ \A k \in 1..n : f[1..k] = next(k, f[1..k - 1])
  <2>1. \A k \in 1..n : /\ 1..k \in SUBSET (1..n) /\ 1..k # {} /\ Max(1..k) = k
                        /\ (1..k) \ {Max(1..k)} = 1..k - 1
    BY <1>1, FirstPlaces
  <2> QED BY <1>1, <1>8, <2>1
<1> HIDE DEF Folds
<1> DEFINE h == [k \in 0..n |-> f[1..k]]
<1>10. h[0] = base /\ HopsIn(route) = h[n] /\ \A i \in 1..n : h[i] = next(i, h[i - 1])
  BY <1>1, <1>8, <1>9, 1..0 = {}
<1> HIDE DEF h
<1> QED BY <1>10 DEF n, next, base

LEMMA GroupsRuns ==
  ASSUME NEW list \in Seq(Group)
  PROVE  \E h : /\ h[0] = <<>> /\ FoldLeft(SetGroup, <<>>, list) = h[Len(list)]
                /\ \A i \in 1..Len(list) : h[i] = SetGroup(h[i - 1], list[i])
<1> DEFINE n == Len(list)
           A == Seq(Group)
           base == <<>>
           next(i, a) == SetGroup(a, list[i])
           step == [p \in (1..n) \X A |-> next(p[1], p[2])]
           Folds(g) == g = [D \in SUBSET (DOMAIN list) |->
                              IF D = {} THEN base ELSE next(Max(D), g[D \ {Max(D)}])]
<1>1. n \in Nat /\ DOMAIN list = 1..n /\ base \in A /\ \A i \in 1..n : list[i] \in Group
  OBVIOUS
<1>2. FoldLeft(SetGroup, <<>>, list) = (CHOOSE g : Folds(g))[1..n]
  BY <1>1 DEF Groups, FoldLeft, MapThenFoldSet
<1>3. \A i \in 1..n : \A a \in A : next(i, a) \in A
  BY <1>1, SetGroupTyped
<1> HIDE DEF A, next, base, n
<1>4. step \in Steps(n, A) /\ \A i \in 1..n : \A a \in A : step[<<i, a>>] = next(i, a)
  BY <1>3 DEF Steps
<1> HIDE DEF step
<1>5. PICK g \in [SUBSET (1..n) -> A] : Folding(n, base, step, g)
  BY <1>1, <1>4, FoldingExists
<1>6. \A D \in SUBSET (1..n) : g[D] = IF D = {} THEN base ELSE next(Max(D), g[D \ {Max(D)}])
  <2>1. ASSUME NEW D \in SUBSET (1..n), D # {} PROVE Max(D) \in 1..n /\ g[D \ {Max(D)}] \in A
    BY <1>1, <2>1, LastPlace
  <2> QED BY <1>4, <1>5, <2>1 DEF Folding
<1>7. Folds(g)
  BY <1>1, <1>6
<1>8. PICK f : Folds(f) /\ FoldLeft(SetGroup, <<>>, list) = f[1..n]
  <2> HIDE DEF Folds
  <2> QED BY <1>2, <1>7
<1>9. /\ f[{}] = base
      /\ \A k \in 1..n : f[1..k] = next(k, f[1..k - 1])
  <2>1. \A k \in 1..n : /\ 1..k \in SUBSET (1..n) /\ 1..k # {} /\ Max(1..k) = k
                        /\ (1..k) \ {Max(1..k)} = 1..k - 1
    BY <1>1, FirstPlaces
  <2> QED BY <1>1, <1>8, <2>1
<1> HIDE DEF Folds
<1> DEFINE h == [k \in 0..n |-> f[1..k]]
<1>10. h[0] = base /\ FoldLeft(SetGroup, <<>>, list) = h[n] /\ \A i \in 1..n : h[i] = next(i, h[i - 1])
  BY <1>1, <1>8, <1>9, 1..0 = {}
<1> HIDE DEF h
<1> QED BY <1>10 DEF n, next, base

-----------------------------------------------------------------------------
(* The rows of a message, one after the other.                              *)
Result == Row \cup {NoRow}
HopTable == UNION {[reported -> Row] : reported \in SUBSET Host}
Exported == [Host -> [sent : Nat, loss : Fraction, observed : Nat]]

LEMMA RowFacts ==
  ASSUME NEW row \in Result
  PROVE  /\ NoRow.host = "none" /\ "none" \notin Host
         /\ row # NoRow => row \in Row /\ row.host \in Host /\ row.cnt \in Nat /\ row.loss \in Fraction
         /\ row.host \in Host => row # NoRow
<1>1. NoRow.host = "none" /\ "none" \notin Host
  BY PingAssumption DEF NoRow
<1>2. ASSUME row # NoRow
      PROVE  row \in Row /\ row.host \in Host /\ row.cnt \in Nat /\ row.loss \in Fraction
  BY <1>2 DEF Result, Row
<1> QED BY <1>1, <1>2

LEMMA NoHops == <<>> \in HopTable
<1>1. <<>> \in [{} -> Row]
  OBVIOUS
<1> QED BY <1>1 DEF HopTable

LEMMA AddRowTyped ==
  ASSUME NEW data \in HopTable, NEW row \in Result
  PROVE  AddRow(data, row) \in HopTable
<1>1. PICK reported \in SUBSET Host : data \in [reported -> Row]
  BY DEF HopTable
<1>2. CASE row = NoRow \/ ~Contains(hosts, row.host)
  BY <1>2 DEF AddRow
<1>3. CASE ~(row = NoRow \/ ~Contains(hosts, row.host))
  <2>1. row \in Row /\ row.host \in Host
    BY <1>3, RowFacts
  <2> DEFINE more == DOMAIN data \cup {row.host}
  <2>2. AddRow(data, row) = [h \in more |-> IF h = row.host THEN row ELSE data[h]]
    BY <1>3 DEF AddRow
  <2>3. more \in SUBSET Host /\ DOMAIN data = reported
    BY <1>1, <2>1
  <2>4. \A h \in more : (IF h = row.host THEN row ELSE data[h]) \in Row
    BY <1>1, <2>1, <2>3
  <2>5. AddRow(data, row) \in [more -> Row]
    <3> HIDE DEF more
    <3> QED BY <2>2, <2>4
  <2> HIDE DEF more
  <2> QED BY <2>3, <2>5 DEF HopTable
<1> QED BY <1>2, <1>3

LEMMA ObserveTyped ==
  ASSUME NEW m \in Exported, NEW row \in Result
  PROVE  Observe(m, row) \in Exported
<1>1. CASE row = NoRow
  BY <1>1 DEF Observe
<1>2. CASE row # NoRow
  <2>1. row.host \in Host /\ row.cnt \in Nat /\ row.loss \in Fraction
    BY <1>2, RowFacts
  <2> DEFINE new == [sent |-> m[row.host].sent + row.cnt, loss |-> row.loss,
                     observed |-> m[row.host].observed + (IF row.summary = <<>> THEN 0 ELSE 1)]
  <2>2. m[row.host].sent \in Nat /\ m[row.host].observed \in Nat
    BY <2>1 DEF Exported
  <2>3. new \in [sent : Nat, loss : Fraction, observed : Nat]
    BY <2>1, <2>2
  <2>4. Observe(m, row) = [m EXCEPT ![row.host] = new]
    BY <1>2 DEF Observe
  <2> HIDE DEF new
  <2> QED BY <2>1, <2>3, <2>4 DEF Exported
<1> QED BY <1>1, <1>2

LEMMA HopsOfRuns ==
  ASSUME NEW results \in Seq(Result)
  PROVE  \E h : /\ h[0] = <<>> /\ HopsOf(results) = h[Len(results)]
                /\ \A i \in 1..Len(results) : h[i] = AddRow(h[i - 1], results[i])
<1> DEFINE n == Len(results)
           A == HopTable
           base == <<>>
           next(i, a) == AddRow(a, results[i])
           step == [p \in (1..n) \X A |-> next(p[1], p[2])]
           Folds(g) == g = [D \in SUBSET (DOMAIN results) |->
                              IF D = {} THEN base ELSE next(Max(D), g[D \ {Max(D)}])]
<1>1. n \in Nat /\ DOMAIN results = 1..n /\ base \in A /\ \A i \in 1..n : results[i] \in Result
  BY NoHops
<1>2. HopsOf(results) = (CHOOSE g : Folds(g))[1..n]
  BY <1>1 DEF HopsOf, FoldLeft, MapThenFoldSet
<1>3. \A i \in 1..n : \A a \in A : next(i, a) \in A
  BY <1>1, AddRowTyped
<1> HIDE DEF A, next, base, n
<1>4. step \in Steps(n, A) /\ \A i \in 1..n : \A a \in A : step[<<i, a>>] = next(i, a)
  BY <1>3 DEF Steps
<1> HIDE DEF step
<1>5. PICK g \in [SUBSET (1..n) -> A] : Folding(n, base, step, g)
  BY <1>1, <1>4, FoldingExists
<1>6. \A D \in SUBSET (1..n) : g[D] = IF D = {} THEN base ELSE next(Max(D), g[D \ {Max(D)}])
  <2>1. ASSUME NEW D \in SUBSET (1..n), D # {} PROVE Max(D) \in 1..n /\ g[D \ {Max(D)}] \in A
    BY <1>1, <2>1, LastPlace
  <2> QED BY <1>4, <1>5, <2>1 DEF Folding
<1>7. Folds(g)
  BY <1>1, <1>6
<1>8. PICK f : Folds(f) /\ HopsOf(results) = f[1..n]
  <2> HIDE DEF Folds
  <2> QED BY <1>2, <1>7
<1>9. /\ f[{}] = base
      /\ \A k \in 1..n : f[1..k] = next(k, f[1..k - 1])
  <2>1. \A k \in 1..n : /\ 1..k \in SUBSET (1..n) /\ 1..k # {} /\ Max(1..k) = k
                        /\ (1..k) \ {Max(1..k)} = 1..k - 1
    BY <1>1, FirstPlaces
  <2> QED BY <1>1, <1>8, <2>1
<1> HIDE DEF Folds
<1> DEFINE h == [k \in 0..n |-> f[1..k]]
<1>10. h[0] = base /\ HopsOf(results) = h[n] /\ \A i \in 1..n : h[i] = next(i, h[i - 1])
  BY <1>1, <1>8, <1>9, 1..0 = {}
<1> HIDE DEF h
<1> QED BY <1>10 DEF n, next, base

LEMMA ObserveRuns ==
  ASSUME NEW m \in Exported, NEW results \in Seq(Result)
  PROVE  \E h : /\ h[0] = m /\ FoldLeft(Observe, m, results) = h[Len(results)]
                /\ \A i \in 1..Len(results) : h[i] = Observe(h[i - 1], results[i])
<1> DEFINE n == Len(results)
           A == Exported
           base == m
           next(i, a) == Observe(a, results[i])
           step == [p \in (1..n) \X A |-> next(p[1], p[2])]
           Folds(g) == g = [D \in SUBSET (DOMAIN results) |->
                              IF D = {} THEN base ELSE next(Max(D), g[D \ {Max(D)}])]
<1>1. n \in Nat /\ DOMAIN results = 1..n /\ base \in A /\ \A i \in 1..n : results[i] \in Result
  OBVIOUS
<1>2. FoldLeft(Observe, m, results) = (CHOOSE g : Folds(g))[1..n]
  BY <1>1 DEF Result, FoldLeft, MapThenFoldSet
<1>3. \A i \in 1..n : \A a \in A : next(i, a) \in A
  BY <1>1, ObserveTyped
<1> HIDE DEF A, next, base, n
<1>4. step \in Steps(n, A) /\ \A i \in 1..n : \A a \in A : step[<<i, a>>] = next(i, a)
  BY <1>3 DEF Steps
<1> HIDE DEF step
<1>5. PICK g \in [SUBSET (1..n) -> A] : Folding(n, base, step, g)
  BY <1>1, <1>4, FoldingExists
<1>6. \A D \in SUBSET (1..n) : g[D] = IF D = {} THEN base ELSE next(Max(D), g[D \ {Max(D)}])
  <2>1. ASSUME NEW D \in SUBSET (1..n), D # {} PROVE Max(D) \in 1..n /\ g[D \ {Max(D)}] \in A
    BY <1>1, <2>1, LastPlace
  <2> QED BY <1>4, <1>5, <2>1 DEF Folding
<1>7. Folds(g)
  BY <1>1, <1>6
<1>8. PICK f : Folds(f) /\ FoldLeft(Observe, m, results) = f[1..n]
  <2> HIDE DEF Folds
  <2> QED BY <1>2, <1>7
<1>9. /\ f[{}] = base
      /\ \A k \in 1..n : f[1..k] = next(k, f[1..k - 1])
  <2>1. \A k \in 1..n : /\ 1..k \in SUBSET (1..n) /\ 1..k # {} /\ Max(1..k) = k
                        /\ (1..k) \ {Max(1..k)} = 1..k - 1
    BY <1>1, FirstPlaces
  <2> QED BY <1>1, <1>8, <2>1
<1> HIDE DEF Folds
<1> DEFINE h == [k \in 0..n |-> f[1..k]]
<1>10. h[0] = base /\ FoldLeft(Observe, m, results) = h[n] /\ \A i \in 1..n : h[i] = next(i, h[i - 1])
  BY <1>1, <1>8, <1>9, 1..0 = {}
<1> HIDE DEF h
<1> QED BY <1>10 DEF n, next, base

-----------------------------------------------------------------------------
(* A list of hosts without repetition.                                      *)
Distinct(s) == \A i, j \in 1..Len(s) : s[i] = s[j] => i = j

LEMMA AppendUnseen ==
  ASSUME NEW T, NEW s \in Seq(T), Distinct(s), NEW h \in T, ~Contains(s, h)
  PROVE  Append(s, h) \in Seq(T) /\ Distinct(Append(s, h))
<1> DEFINE t == Append(s, h)
<1>1. /\ t \in Seq(T) /\ Len(t) = Len(s) + 1 /\ t[Len(s) + 1] = h /\ Len(s) \in Nat
      /\ \A i \in 1..Len(s) : t[i] = s[i]
  OBVIOUS
<1>2. \A i \in 1..Len(s) : s[i] # h
  BY DEF Contains
<1> HIDE DEF t
<1>3. \A i \in 1..Len(t) : i \in 1..Len(s) \/ i = Len(s) + 1
  BY <1>1
<1>4. Distinct(t)
  BY <1>1, <1>2, <1>3 DEF Distinct
<1> QED BY <1>1, <1>4 DEF t

LEMMA DedupeFacts ==
  ASSUME NEW list \in Seq(Host)
  PROVE  Dedupe(list) \in Seq(Host) /\ Distinct(Dedupe(list))
<1> DEFINE n == Len(list)
           A == {s \in Seq(Host) : Distinct(s)}
<1>1. n \in Nat /\ \A i \in 1..n : list[i] \in Host
  OBVIOUS
<1>2. PICK h : /\ h[0] = <<>> /\ Dedupe(list) = h[n]
               /\ \A i \in 1..n : h[i] = IF Contains(h[i - 1], list[i]) THEN h[i - 1]
                                         ELSE Append(h[i - 1], list[i])
  BY DedupeRuns
<1>3. h[0] \in A
  BY <1>2 DEF Distinct
<1>4. ASSUME NEW i \in 1..n, h[i - 1] \in A PROVE h[i] \in A
  <2>1. CASE Contains(h[i - 1], list[i])
    BY <1>2, <1>4, <2>1
  <2>2. CASE ~Contains(h[i - 1], list[i])
    <3>1. h[i] = Append(h[i - 1], list[i])
      BY <1>2, <2>2
    <3>2. h[i - 1] \in Seq(Host) /\ Distinct(h[i - 1]) /\ list[i] \in Host
      BY <1>1, <1>4
    <3> QED BY <2>2, <3>1, <3>2, AppendUnseen
  <2> QED BY <2>1, <2>2
<1>5. h[n] \in A
  <2>1. \A i \in 0..n : h[i] \in A
    <3> HIDE DEF A, n
    <3> QED BY <1>1, <1>3, <1>4, RunTyped
  <2> QED BY <1>1, <2>1
<1> QED BY <1>2, <1>5

LEMMA HopsInFacts ==
  ASSUME NEW route \in Seq(Host \cup {Star})
  PROVE  HopsIn(route) \in Seq(Host)
<1> DEFINE n == Len(route)
           A == Seq(Host)
<1>1. n \in Nat /\ \A i \in 1..n : route[i] \in Host \cup {Star}
  OBVIOUS
<1>2. PICK h : /\ h[0] = <<>> /\ HopsIn(route) = h[n]
               /\ \A i \in 1..n : h[i] = IF route[i] = Star \/ Contains(h[i - 1], route[i])
                                         THEN h[i - 1] ELSE Append(h[i - 1], route[i])
  BY HopsInRuns
<1>3. h[0] \in A
  BY <1>2
<1>4. ASSUME NEW i \in 1..n, h[i - 1] \in A PROVE h[i] \in A
  <2>1. CASE route[i] = Star \/ Contains(h[i - 1], route[i])
    BY <1>2, <1>4, <2>1
  <2>2. CASE ~(route[i] = Star \/ Contains(h[i - 1], route[i]))
    <3>1. h[i] = Append(h[i - 1], route[i]) /\ route[i] \in Host
      BY <1>1, <1>2, <2>2
    <3> QED BY <1>4, <3>1
  <2> QED BY <2>1, <2>2
<1>5. h[n] \in A
  <2>1. \A i \in 0..n : h[i] \in A
    <3> HIDE DEF A, n
    <3> QED BY <1>1, <1>3, <1>4, RunTyped
  <2> QED BY <1>1, <2>1
<1> QED BY <1>2, <1>5

LEMMA GroupHostsTyped == GroupHosts \in Seq(Host)
<1> DEFINE n == Len(GroupList)
           A == Seq(Group)
<1>1. GroupList \in A
  BY PingAssumption DEF Group
<1>2. n \in Nat /\ \A i \in 1..n : GroupList[i] \in Group
  <2> HIDE DEF Group
  <2> QED BY <1>1
<1>3. PICK h : /\ h[0] = <<>> /\ Groups = h[n]
               /\ \A i \in 1..n : h[i] = SetGroup(h[i - 1], GroupList[i])
  BY <1>1, GroupsRuns DEF Groups
<1>4. h[0] \in A
  BY <1>3
<1>5. ASSUME NEW i \in 1..n, h[i - 1] \in A PROVE h[i] \in A
  BY <1>2, <1>3, <1>5, SetGroupTyped
<1>6. Groups \in Seq(Group)
  <2>1. \A i \in 0..n : h[i] \in A
    <3> HIDE DEF A, n
    <3> QED BY <1>2, <1>4, <1>5, RunTyped
  <2> QED BY <1>2, <1>3, <2>1
<1> DEFINE lists == [i \in 1..Len(Groups) |-> Groups[i].hosts]
<1>7. \A i \in 1..Len(Groups) : Groups[i].hosts \in Seq(Host)
  <2>1. \A i \in 1..Len(Groups) : Groups[i] \in Group
    <3> HIDE DEF Group
    <3> QED BY <1>6
  <2> QED BY <2>1 DEF Group
<1>8. lists \in Seq(Seq(Host)) /\ <<>> \in Seq(Host)
  BY <1>6, <1>7
<1> HIDE DEF lists
<1>9. FlattenSeq(lists) \in Seq(Host)
  BY <1>8, FlattenFacts
<1> QED BY <1>9 DEF GroupHosts, lists

-----------------------------------------------------------------------------
(* Latencies.                                                               *)

LEMMA TimeFacts == Time \subseteq Nat /\ Lost \notin Time /\ Lost = 0 /\ Count \in Nat
<1>1. Time \subseteq Nat \ {Lost} /\ Count \in Nat
  BY PingAssumption
<1> QED BY <1>1 DEF Lost

LEMMA FastestFacts ==
  ASSUME NEW times \in Seq(Time), times # <<>>
  PROVE  /\ \E k \in 1..Len(times) : Fastest(times) = times[k]
         /\ \A k \in 1..Len(times) : Fastest(times) <= times[k]
<1> DEFINE n == Len(times)
<1>1. n \in Nat /\ 1 \in 1..n /\ \A k \in 1..n : times[k] \in Nat
  <2>1. \A k \in 1..n : times[k] \in Time
    OBVIOUS
  <2>2. Len(times) \in Nat /\ Len(times) # 0
    OBVIOUS
  <2> HIDE DEF n
  <2>3. n \in Nat /\ n # 0
    BY <2>2 DEF n
  <2>4. \A k \in 1..n : times[k] \in Nat
    BY <2>1, TimeFacts
  <2> QED BY <2>3, <2>4
<1>2. PICK h : /\ h[0] = times[1] /\ Fastest(times) = h[n]
               /\ \A i \in 1..n : h[i] = IF times[i] < h[i - 1] THEN times[i] ELSE h[i - 1]
  BY FastestRuns
<1> HIDE DEF n
<1> DEFINE Low(i) == /\ \E k \in 1..n : h[i] = times[k]
                     /\ \A k \in 1..i : h[i] <= times[k]
           Good == {i \in Nat : i <= n => Low(i)}
<1>3. 0 \in Good
  BY <1>1, <1>2
<1>4. ASSUME NEW i \in Nat, i \in Good PROVE i + 1 \in Good
  <2>1. ASSUME i + 1 <= n PROVE Low(i + 1)
    <3>1. Low(i) /\ i + 1 \in 1..n /\ (i + 1) - 1 = i
      BY <1>1, <1>4, <2>1
    <3>2. h[i + 1] = IF times[i + 1] < h[i] THEN times[i + 1] ELSE h[i]
      BY <1>2, <3>1
    <3>3. h[i] \in Nat /\ times[i + 1] \in Nat
      BY <1>1, <3>1
    <3>4. h[i + 1] <= h[i] /\ h[i + 1] <= times[i + 1] /\ h[i + 1] \in {h[i], times[i + 1]}
      BY <3>2, <3>3
    <3>5. \E k \in 1..n : h[i + 1] = times[k]
      BY <3>1, <3>4
    <3>6. ASSUME NEW k \in 1..i + 1 PROVE h[i + 1] <= times[k]
      <4>1. CASE k = i + 1
        BY <3>4, <4>1
      <4>2. CASE k \in 1..i
        <5>1. h[i] <= times[k] /\ times[k] \in Nat /\ h[i + 1] \in Nat
          BY <1>1, <3>1, <3>3, <3>4, <4>2
        <5> QED BY <3>3, <3>4, <5>1
      <4> QED BY <4>1, <4>2
    <3> QED BY <3>5, <3>6
  <2> QED BY <2>1
<1>5. Low(n)
  <2> HIDE DEF Low
  <2>1. Nat \subseteq Good
    <3> HIDE DEF Good
    <3> QED BY <1>3, <1>4, NatInductionOnSet
  <2> QED BY <1>1, <2>1
<1> QED BY <1>2, <1>5 DEF n

LEMMA SlowestFacts ==
  ASSUME NEW times \in Seq(Time), times # <<>>
  PROVE  /\ \E k \in 1..Len(times) : Slowest(times) = times[k]
         /\ \A k \in 1..Len(times) : times[k] <= Slowest(times)
<1> DEFINE n == Len(times)
<1>1. n \in Nat /\ 1 \in 1..n /\ \A k \in 1..n : times[k] \in Nat
  <2>1. \A k \in 1..n : times[k] \in Time
    OBVIOUS
  <2>2. Len(times) \in Nat /\ Len(times) # 0
    OBVIOUS
  <2> HIDE DEF n
  <2>3. n \in Nat /\ n # 0
    BY <2>2 DEF n
  <2>4. \A k \in 1..n : times[k] \in Nat
    BY <2>1, TimeFacts
  <2> QED BY <2>3, <2>4
<1>2. PICK h : /\ h[0] = times[1] /\ Slowest(times) = h[n]
               /\ \A i \in 1..n : h[i] = IF times[i] > h[i - 1] THEN times[i] ELSE h[i - 1]
  BY SlowestRuns
<1> HIDE DEF n
<1> DEFINE High(i) == /\ \E k \in 1..n : h[i] = times[k]
                     /\ \A k \in 1..i : times[k] <= h[i]
           Good == {i \in Nat : i <= n => High(i)}
<1>3. 0 \in Good
  BY <1>1, <1>2
<1>4. ASSUME NEW i \in Nat, i \in Good PROVE i + 1 \in Good
  <2>1. ASSUME i + 1 <= n PROVE High(i + 1)
    <3>1. High(i) /\ i + 1 \in 1..n /\ (i + 1) - 1 = i
      BY <1>1, <1>4, <2>1
    <3>2. h[i + 1] = IF times[i + 1] > h[i] THEN times[i + 1] ELSE h[i]
      BY <1>2, <3>1
    <3>3. h[i] \in Nat /\ times[i + 1] \in Nat
      BY <1>1, <3>1
    <3>4. h[i] <= h[i + 1] /\ times[i + 1] <= h[i + 1] /\ h[i + 1] \in {h[i], times[i + 1]}
      BY <3>2, <3>3
    <3>5. \E k \in 1..n : h[i + 1] = times[k]
      BY <3>1, <3>4
    <3>6. ASSUME NEW k \in 1..i + 1 PROVE times[k] <= h[i + 1]
      <4>1. CASE k = i + 1
        BY <3>4, <4>1
      <4>2. CASE k \in 1..i
        <5>1. times[k] <= h[i] /\ times[k] \in Nat /\ h[i + 1] \in Nat
          BY <1>1, <3>1, <3>3, <3>4, <4>2
        <5> QED BY <3>3, <3>4, <5>1
      <4> QED BY <4>1, <4>2
    <3> QED BY <3>5, <3>6
  <2> QED BY <2>1
<1>5. High(n)
  <2> HIDE DEF High
  <2>1. Nat \subseteq Good
    <3> HIDE DEF Good
    <3> QED BY <1>3, <1>4, NatInductionOnSet
  <2> QED BY <1>1, <2>1
<1> QED BY <1>2, <1>5 DEF n

LEMMA SumTyped == ASSUME NEW times \in Seq(Nat) PROVE Sum(times) \in Nat
<1> DEFINE n == Len(times)
<1>1. n \in Nat /\ \A i \in 1..n : times[i] \in Nat
  OBVIOUS
<1>2. PICK h : /\ h[0] = 0 /\ Sum(times) = h[n] /\ \A i \in 1..n : h[i] = h[i - 1] + times[i]
  BY SumRuns
<1> HIDE DEF n
<1>3. ASSUME NEW i \in 1..n, h[i - 1] \in Nat PROVE h[i] \in Nat
  <2>1. h[i] = h[i - 1] + times[i] /\ times[i] \in Nat
    BY <1>1, <1>2
  <2> QED BY <1>3, <2>1
<1>4. h[n] \in Nat
  <2>1. h[0] \in Nat
    BY <1>2
  <2>2. \A i \in 0..n : h[i] \in Nat
    BY <1>1, <1>3, <2>1, RunTyped
  <2> QED BY <1>1, <2>2
<1> QED BY <1>2, <1>4

LEMMA TimesAreNat == ASSUME NEW times \in Seq(Time) PROVE times \in Seq(Nat)
<1>1. Len(times) \in Nat /\ \A k \in 1..Len(times) : times[k] \in Time
  OBVIOUS
<1>2. \A k \in 1..Len(times) : times[k] \in Nat
  BY <1>1, TimeFacts
<1> QED BY <1>1, <1>2

(* One more time adds up to the sum, one more answer to that of the log.    *)
LEMMA SumMore ==
  ASSUME NEW times \in Seq(Nat), NEW t \in Nat
  PROVE  Sum(Append(times, t)) = Sum(times) + t /\ Sum(<<>>) = 0
<1> DEFINE n == Len(times)
           more == Append(times, t)
<1>1. /\ n \in Nat /\ more \in Seq(Nat) /\ Len(more) = n + 1 /\ more[n + 1] = t
      /\ \A i \in 1..n : more[i] = times[i]
  OBVIOUS
<1>2. PICK h : h[0] = 0 /\ Sum(times) = h[n] /\ \A i \in 1..n : h[i] = h[i - 1] + times[i]
  BY SumRuns
<1> HIDE DEF n, more
<1>3. PICK g : g[0] = 0 /\ Sum(more) = g[n + 1] /\ \A i \in 1..n + 1 : g[i] = g[i - 1] + more[i]
  <2>1. \E g : g[0] = 0 /\ Sum(more) = g[Len(more)] /\ \A i \in 1..Len(more) : g[i] = g[i - 1] + more[i]
    BY <1>1, SumRuns
  <2> QED BY <1>1, <2>1
<1>4. \A i \in 1..n : i \in 1..n + 1
  BY <1>1
<1>5. g[n] = h[n]
  <2>1. \A i \in 1..n : g[i - 1] = h[i - 1] => g[i] = h[i]
    BY <1>1, <1>2, <1>3, <1>4
  <2> QED BY <1>1, <1>2, <1>3, <2>1, RunsAgree
<1>6. n + 1 \in 1..n + 1 /\ (n + 1) - 1 = n
  BY <1>1
<1>7. g[n + 1] = g[n] + t
  BY <1>1, <1>3, <1>6
<1>8. Sum(<<>>) = 0
  <2>1. <<>> \in Seq(Nat) /\ Len(<<>>) = 0
    OBVIOUS
  <2> QED BY <2>1, SumRuns
<1> QED BY <1>2, <1>3, <1>5, <1>7, <1>8 DEF more

LEMMA AnswersSumMore ==
  ASSUME NEW log \in Seq(Answer), NEW t \in Answer
  PROVE  /\ AnswersSum(Append(log, t)) = IF t = Lost THEN AnswersSum(log) ELSE AnswersSum(log) + t
         /\ AnswersSum(<<>>) = 0
<1> DEFINE n == Len(log)
           more == Append(log, t)
           plus(a, x) == IF x = Lost THEN a ELSE a + x
<1>1. /\ n \in Nat /\ more \in Seq(Answer) /\ Len(more) = n + 1 /\ more[n + 1] = t
      /\ \A i \in 1..n : more[i] = log[i]
  OBVIOUS
<1>2. PICK h : /\ h[0] = 0 /\ AnswersSum(log) = h[n]
               /\ \A i \in 1..n : h[i] = plus(h[i - 1], log[i])
  BY AnswersSumRuns
<1> HIDE DEF n, more
<1>3. PICK g : /\ g[0] = 0 /\ AnswersSum(more) = g[n + 1]
               /\ \A i \in 1..n + 1 : g[i] = plus(g[i - 1], more[i])
  <2>1. \E g : /\ g[0] = 0 /\ AnswersSum(more) = g[Len(more)]
               /\ \A i \in 1..Len(more) : g[i] = plus(g[i - 1], more[i])
    BY <1>1, AnswersSumRuns
  <2> QED BY <1>1, <2>1
<1> HIDE DEF plus
<1>4. \A i \in 1..n : i \in 1..n + 1
  BY <1>1
<1>5. g[n] = h[n]
  <2>1. \A i \in 1..n : g[i - 1] = h[i - 1] => g[i] = h[i]
    BY <1>1, <1>2, <1>3, <1>4
  <2> QED BY <1>1, <1>2, <1>3, <2>1, RunsAgree
<1>6. n + 1 \in 1..n + 1 /\ (n + 1) - 1 = n
  BY <1>1
<1>7. g[n + 1] = plus(g[n], t)
  BY <1>1, <1>3, <1>6
<1>8. AnswersSum(<<>>) = 0
  <2>1. <<>> \in Seq(Answer) /\ Len(<<>>) = 0
    OBVIOUS
  <2> QED BY <2>1, AnswersSumRuns
<1> QED BY <1>2, <1>3, <1>5, <1>7, <1>8 DEF more, plus

LEMMA SummaryFacts ==
  ASSUME NEW times \in Seq(Time), times # <<>>
  PROVE  LET s == Summarise(times)
         IN /\ s \in Summary /\ s # <<>>
            /\ \A k \in 1..Len(times) : s.min <= times[k] /\ times[k] <= s.max
            /\ \E k \in 1..Len(times) : s.min = times[k]
            /\ \E k \in 1..Len(times) : s.max = times[k]
            /\ s.avg = <<Sum(times), Len(times)>> /\ s.last = times[Len(times)]
<1>1. Len(times) \in Nat \ {0} /\ \A k \in 1..Len(times) : times[k] \in Time
  BY EmptySeq
<1>2. times \in Seq(Nat)
  BY TimesAreNat
<1>3. <<Sum(times), Len(times)>> \in Fraction
  BY <1>1, <1>2, SumTyped DEF Fraction
<1>4. Last(times) = times[Len(times)] /\ times[Len(times)] \in Time
  BY <1>1 DEF Last
<1>5. Fastest(times) \in Time /\ Slowest(times) \in Time
  BY <1>1, FastestFacts, SlowestFacts
<1> DEFINE s == Summarise(times)
<1>6. /\ s = [min |-> Fastest(times), max |-> Slowest(times),
              avg |-> <<Sum(times), Len(times)>>, last |-> Last(times)]
      /\ s.min = Fastest(times) /\ s.max = Slowest(times)
      /\ s.avg = <<Sum(times), Len(times)>>
      /\ s.last = Last(times)
  BY DEF Summarise
<1>7. s \in Summary
  BY <1>3, <1>4, <1>5, <1>6 DEF Summary
<1>8. s # <<>>
  <2>1. "min" \in DOMAIN s
    BY <1>6
  <2> HIDE DEF s
  <2> QED BY <2>1
<1> HIDE DEF s
<1>9. /\ \A k \in 1..Len(times) : s.min <= times[k] /\ times[k] <= s.max
      /\ \E k \in 1..Len(times) : s.min = times[k]
      /\ \E k \in 1..Len(times) : s.max = times[k]
  BY <1>6, FastestFacts, SlowestFacts
<1> QED BY <1>4, <1>6, <1>7, <1>8, <1>9 DEF s

-----------------------------------------------------------------------------
(* A log of pings, and the latencies of those that were answered.           *)
Tally(times, log) ==
  /\ times \in Seq(Time) /\ log \in Seq(Answer)
  /\ Cardinality(Answers(log)) = Len(times) /\ AnswersSum(log) = Sum(times)
  /\ \A k \in 1..Len(times) : \E i \in Answers(log) : times[k] = log[i]
  /\ \A i \in Answers(log) : \E k \in 1..Len(times) : log[i] = times[k]
  /\ times # <<>> =>
       \E i \in Answers(log) : log[i] = times[Len(times)] /\ \A j \in Answers(log) : j <= i

LEMMA AnswersFinite ==
  ASSUME NEW log \in Seq(Answer)
  PROVE  Answers(log) \subseteq 1..Len(log) /\ IsFiniteSet(Answers(log))
<1>1. Answers(log) \subseteq 1..Len(log) /\ Len(log) \in Nat
  BY DEF Answers
<1>2. IsFiniteSet(1..Len(log))
  BY <1>1, FS_Interval
<1> QED BY <1>1, <1>2, FS_Subset

LEMMA TallyNone == Tally(<<>>, <<>>)
<1>1. Answers(<<>>) = {}
  BY DEF Answers
<1>2. Cardinality(Answers(<<>>)) = Len(<<>>)
  BY <1>1, FS_EmptySet
<1>3. AnswersSum(<<>>) = Sum(<<>>)
  <2>1. <<>> \in Seq(Answer) /\ <<>> \in Seq(Nat) /\ Lost \in Answer /\ 0 \in Nat
    BY DEF Answer
  <2>2. Sum(<<>>) = 0
    BY <2>1, SumMore
  <2>3. AnswersSum(<<>>) = 0
    BY <2>1, AnswersSumMore
  <2> QED BY <2>2, <2>3
<1>4. <<>> \in Seq(Time) /\ <<>> \in Seq(Answer) /\ 1..Len(<<>>) = {}
  OBVIOUS
<1> QED BY <1>1, <1>2, <1>3, <1>4 DEF Tally

LEMMA TallyMore ==
  ASSUME NEW times, NEW log, Tally(times, log), NEW t \in Answer
  PROVE  Tally(IF t = Lost THEN times ELSE Append(times, t), Append(log, t))
<1> DEFINE more == Append(log, t)
           n == Len(log)
<1>1. /\ log \in Seq(Answer) /\ n \in Nat /\ more \in Seq(Answer) /\ Len(more) = n + 1
      /\ more[n + 1] = t /\ \A i \in 1..n : more[i] = log[i]
  BY DEF Tally
<1>2. /\ times \in Seq(Time) /\ Len(times) \in Nat
      /\ Cardinality(Answers(log)) = Len(times)
      /\ \A k \in 1..Len(times) : \E i \in Answers(log) : times[k] = log[i]
      /\ \A i \in Answers(log) : \E k \in 1..Len(times) : log[i] = times[k]
      /\ times # <<>> =>
           \E i \in Answers(log) : log[i] = times[Len(times)] /\ \A j \in Answers(log) : j <= i
  BY DEF Tally
<1> HIDE DEF more, n
<1>3. Answers(log) \subseteq 1..n /\ IsFiniteSet(Answers(log))
  BY <1>1, AnswersFinite DEF n
<1>4. Answers(more) = IF t = Lost THEN Answers(log) ELSE Answers(log) \cup {n + 1}
  <2>1. \A i \in 1..n + 1 : i \in 1..n \/ i = n + 1
    BY <1>1
  <2>2. Answers(log) = {i \in 1..n : log[i] # Lost} /\ Answers(more) = {i \in 1..n + 1 : more[i] # Lost}
    BY <1>1 DEF Answers, n
  <2>3. \A i \in 1..n : i \in 1..n + 1 /\ more[i] = log[i]
    BY <1>1
  <2>4. n + 1 \in 1..n + 1 /\ n + 1 \notin 1..n
    BY <1>1
  <2> QED BY <1>1, <2>1, <2>2, <2>3, <2>4
<1>5. \A i \in Answers(log) : more[i] = log[i]
  BY <1>1, <1>3
<1>6. AnswersSum(more) = IF t = Lost THEN Sum(times) ELSE Sum(times) + t
  <2>1. AnswersSum(log) = Sum(times)
    BY DEF Tally
  <2> QED BY <1>1, <2>1, AnswersSumMore DEF more
<1>7. CASE t = Lost
  <2>1. Answers(more) = Answers(log)
    BY <1>4, <1>7
  <2>2. Tally(times, more)
    BY <1>1, <1>2, <1>5, <1>7, <1>6, <2>1 DEF Tally
  <2> QED BY <1>7, <2>2 DEF more
<1>8. CASE t # Lost
  <2> DEFINE late == Append(times, t)
  <2>1. t \in Time
    BY <1>8 DEF Answer
  <2>2. /\ late \in Seq(Time) /\ Len(late) = Len(times) + 1 /\ late[Len(times) + 1] = t
        /\ (\A k \in 1..Len(times) : late[k] = times[k])
        /\ Sum(late) = Sum(times) + t
    <3>1. times \in Seq(Nat) /\ t \in Nat
      BY <1>2, <2>1, TimesAreNat, TimeFacts
    <3> QED BY <1>2, <2>1, <3>1, SumMore
  <2> HIDE DEF late
  <2>3. Answers(more) = Answers(log) \cup {n + 1} /\ n + 1 \notin Answers(log)
    BY <1>1, <1>3, <1>4, <1>8
  <2>4. Cardinality(Answers(more)) = Len(late)
    <3>1. Cardinality(Answers(log) \cup {n + 1}) = Cardinality(Answers(log)) + 1
      BY <1>3, <2>3, FS_AddElement
    <3> QED BY <1>2, <2>2, <2>3, <3>1
  <2>5. ASSUME NEW k \in 1..Len(late) PROVE \E i \in Answers(more) : late[k] = more[i]
    <3>1. CASE k \in 1..Len(times)
      <4>1. PICK i \in Answers(log) : times[k] = log[i]
        BY <1>2, <3>1
      <4> QED BY <1>5, <2>2, <2>3, <3>1, <4>1
    <3>2. CASE k = Len(times) + 1
      BY <1>1, <2>2, <2>3, <3>2
    <3> QED BY <1>2, <2>2, <3>1, <3>2
  <2>6. ASSUME NEW i \in Answers(more) PROVE \E k \in 1..Len(late) : more[i] = late[k]
    <3>1. CASE i \in Answers(log)
      <4>1. PICK k \in 1..Len(times) : log[i] = times[k]
        BY <1>2, <3>1
      <4>2. k \in 1..Len(late)
        BY <1>2, <2>2
      <4> QED BY <1>5, <2>2, <3>1, <4>1, <4>2
    <3>2. CASE i = n + 1
      <4>1. Len(times) + 1 \in 1..Len(late)
        BY <1>2, <2>2
      <4> QED BY <1>1, <2>2, <3>2, <4>1
    <3> QED BY <2>3, <3>1, <3>2
  <2>7. \E i \in Answers(more) : more[i] = late[Len(late)] /\ \A j \in Answers(more) : j <= i
    <3>1. \A j \in Answers(more) : j <= n + 1
      BY <1>1, <1>3, <2>3
    <3> QED BY <1>1, <2>2, <2>3, <3>1
  <2>8. Tally(late, more)
    BY <1>1, <1>8, <1>6, <2>2, <2>4, <2>5, <2>6, <2>7 DEF Tally
  <2> QED BY <1>8, <2>8 DEF late, more
<1> QED BY <1>7, <1>8

LEMMA TimesInTally ==
  ASSUME NEW log \in Seq(Answer)
  PROVE  Tally(TimesIn(log), log)
<1> DEFINE n == Len(log)
           first(k) == SubSeq(log, 1, k)
<1>1. n \in Nat /\ \A i \in 1..n : log[i] \in Answer
  OBVIOUS
<1>2. PICK h : /\ h[0] = <<>> /\ TimesIn(log) = h[n]
               /\ \A i \in 1..n : h[i] = IF log[i] = Lost THEN h[i - 1] ELSE Append(h[i - 1], log[i])
  BY TimesInRuns
<1>3. first(0) = <<>> /\ first(n) = log
  OBVIOUS
<1>4. ASSUME NEW k \in Nat, k + 1 \in 1..n PROVE first(k + 1) = Append(first(k), log[k + 1])
  BY <1>1, <1>4
<1> HIDE DEF first, n
<1> DEFINE Good == {k \in Nat : k <= n => Tally(h[k], first(k))}
<1>5. 0 \in Good
  BY <1>2, <1>3, TallyNone
<1>6. ASSUME NEW k \in Nat, k \in Good PROVE k + 1 \in Good
  <2>1. ASSUME k + 1 <= n PROVE Tally(h[k + 1], first(k + 1))
    <3>1. k + 1 \in 1..n /\ (k + 1) - 1 = k /\ Tally(h[k], first(k)) /\ log[k + 1] \in Answer
      BY <1>1, <1>6, <2>1
    <3>2. h[k + 1] = IF log[k + 1] = Lost THEN h[k] ELSE Append(h[k], log[k + 1])
      BY <1>2, <3>1
    <3> QED BY <1>4, <3>1, <3>2, TallyMore
  <2> QED BY <2>1
<1>7. Tally(h[n], first(n))
  <2>1. Nat \subseteq Good
    <3> HIDE DEF Good
    <3> QED BY <1>5, <1>6, NatInductionOnSet
  <2> QED BY <1>1, <2>1
<1> QED BY <1>2, <1>3, <1>7

-----------------------------------------------------------------------------
(* The invariant.                                                           *)

(* The ping that is being built says of its log what a row will say.        *)
PingAgrees ==
  /\ Tally(ping.times, ping.log) /\ ping.sent = Len(ping.log) /\ Len(ping.log) <= Count
  /\ ping.summary = IF ping.times = <<>> THEN <<>> ELSE Summarise(ping.times)

(* Rows are about hosts of this cycle, each about another one; the Rust     *)
(* loop goes through the hosts in order.                                    *)
RowsOfHosts ==
  /\ Distinct(hosts) /\ Len(pings) = Len(rows)
  /\ \A i, j \in 1..Len(rows) : rows[i] # NoRow /\ rows[i].host = rows[j].host => i = j
  /\ \A i \in 1..Len(rows) : rows[i] # NoRow => Contains(hosts, rows[i].host)
  /\ plugin.use_rust =>
       /\ Len(rows) <= Len(hosts) /\ \A i \in 1..Len(rows) : rows[i].host = hosts[i]
       /\ pc = "idle" => Len(rows) = Len(hosts)

(* All pings of a host are counted in the metrics or in a row, or are those *)
(* of the host that the loop is at.                                         *)
Counted(h) ==
  \/ \E i \in 1..Len(rows) :
       rows[i].host = h /\ pinged[h] = metrics[h].sent + rows[i].cnt
  \/ /\ \A i \in 1..Len(rows) : rows[i].host # h
     /\ pinged[h] = metrics[h].sent + (IF AtHost(h) THEN ping.sent ELSE 0)

Messages ==
  /\ StatisticsAgree /\ OneRowPerHost /\ PingAgrees /\ RowsOfHosts
  /\ ~plugin.mtr => \A h \in Host : Counted(h)

(* What a row says of a host with such a log.                               *)
Says(row, host, times, log) ==
  /\ row.host = host /\ row.cnt = Len(log) /\ row.data = times
  /\ row.loss = FractionOf(Len(log) - Len(times), Len(log))
  /\ row.summary = IF times = <<>> THEN <<>> ELSE Summarise(times)

LEMMA TallyCounts ==
  ASSUME NEW times, NEW log, Tally(times, log)
  PROVE  /\ Len(log) \in Nat /\ Len(times) \in Nat /\ Len(times) <= Len(log)
         /\ Cardinality(1..Len(log) \ Answers(log)) = Len(log) - Len(times)
         /\ FractionOf(Len(log) - Len(times), Len(log)) \in Fraction
<1>1. /\ Len(log) \in Nat /\ Len(times) \in Nat /\ Cardinality(Answers(log)) = Len(times)
      /\ Answers(log) \subseteq 1..Len(log)
  BY AnswersFinite DEF Tally
<1>2. IsFiniteSet(1..Len(log)) /\ Cardinality(1..Len(log)) = Len(log)
  <2> DEFINE n == Len(log)
  <2>1. n \in Nat
    BY <1>1
  <2> HIDE DEF n
  <2>2. IsFiniteSet(1..n) /\ Cardinality(1..n) = IF 1 > n THEN 0 ELSE n - 1 + 1
    BY <2>1, FS_Interval
  <2>3. Cardinality(1..n) = n
    BY <2>1, <2>2
  <2> QED BY <2>2, <2>3 DEF n
<1>3. Len(times) <= Len(log)
  BY <1>1, <1>2, FS_Subset
<1>4. Cardinality(1..Len(log) \ Answers(log)) = Len(log) - Len(times)
  <2>1. (1..Len(log)) \cap Answers(log) = Answers(log)
    BY <1>1
  <2>2. Cardinality(1..Len(log) \ Answers(log))
          = Cardinality(1..Len(log)) - Cardinality((1..Len(log)) \cap Answers(log))
    BY <1>2, FS_Difference
  <2> QED BY <1>1, <1>2, <2>1, <2>2
<1>5. FractionOf(Len(log) - Len(times), Len(log)) \in Fraction
  <2>1. Len(log) - Len(times) \in Nat /\ (Len(log) - Len(times) # 0 => Len(log) \in Nat \ {0})
    BY <1>1, <1>3
  <2> QED BY <2>1 DEF FractionOf, Fraction
<1> QED BY <1>1, <1>3, <1>4, <1>5

LEMMA TallySays ==
  ASSUME NEW times, NEW log, Tally(times, log), NEW host, NEW row, Says(row, host, times, log)
  PROVE  SaysOf(row, log)
<1> DEFINE n == Len(log)
           lost == Len(log) - Len(times)
           all == Answers(log)
<1>1. /\ n \in Nat /\ Len(times) \in Nat /\ lost \in Nat
      /\ Cardinality(1..n \ all) = lost /\ Cardinality(all) = Len(times)
      /\ AnswersSum(log) = Sum(times)
  <2>1. /\ Len(log) \in Nat /\ Len(times) \in Nat /\ Len(times) <= Len(log)
        /\ Cardinality(1..Len(log) \ Answers(log)) = Len(log) - Len(times)
    BY TallyCounts
  <2>2. Cardinality(Answers(log)) = Len(times) /\ AnswersSum(log) = Sum(times)
    BY DEF Tally
  <2>3. Len(log) - Len(times) \in Nat
    BY <2>1
  <2> QED BY <2>1, <2>2, <2>3
<1>2. /\ times \in Seq(Time) /\ log \in Seq(Answer)
      /\ \A k \in 1..Len(times) : \E i \in all : times[k] = log[i]
      /\ \A i \in all : \E k \in 1..Len(times) : log[i] = times[k]
      /\ times # <<>> =>
           \E i \in all : log[i] = times[Len(times)] /\ \A j \in all : j <= i
      /\ all \subseteq 1..n
  BY AnswersFinite DEF Tally
<1>3. /\ row.cnt = n /\ row.loss = FractionOf(lost, n)
      /\ row.summary = IF times = <<>> THEN <<>> ELSE Summarise(times)
  BY DEF Says
<1>4. row.loss[1] * n = lost * row.loss[2]
  <2>1. CASE lost = 0
    <3>1. row.loss[1] = 0 /\ row.loss[2] = 1
      BY <1>3, <2>1 DEF FractionOf
    <3> QED BY <1>1, <2>1, <3>1
  <2>2. CASE lost # 0
    <3>1. row.loss[1] = lost /\ row.loss[2] = n
      BY <1>3, <2>2 DEF FractionOf
    <3> QED BY <1>1, <3>1
  <2> QED BY <2>1, <2>2
<1> HIDE DEF lost, all, n
<1>5. CASE times = <<>>
  <2>1. all = {}
    BY <1>2, <1>5
  <2> QED BY <1>1, <1>3, <1>4, <1>5, <2>1 DEF SaysOf, all, n
<1>6. CASE times # <<>>
  <2> DEFINE s == Summarise(times)
  <2>1. /\ s # <<>>
        /\ \A k \in 1..Len(times) : s.min <= times[k] /\ times[k] <= s.max
        /\ \E k \in 1..Len(times) : s.min = times[k]
        /\ \E k \in 1..Len(times) : s.max = times[k]
        /\ s.avg = <<Sum(times), Len(times)>> /\ s.last = times[Len(times)]
    BY <1>2, <1>6, SummaryFacts
  <2>2. row.summary = s
    BY <1>3, <1>6
  <2> HIDE DEF s
  <2>3. all # {}
    BY <1>2, <1>6
  <2>4. \A i \in all : s.min <= log[i] /\ log[i] <= s.max
    <3>1. TAKE i \in all
    <3>2. PICK k \in 1..Len(times) : log[i] = times[k]
      BY <1>2
    <3> QED BY <2>1, <3>2
  <2>5. {s.min, s.max} \subseteq {log[i] : i \in all}
    <3>1. \A k \in 1..Len(times) : times[k] \in {log[i] : i \in all}
      BY <1>2
    <3> QED BY <2>1, <3>1
  <2>6. s.last = log[CHOOSE i \in all : \A j \in all : j <= i]
    <3>1. PICK i \in all : log[i] = times[Len(times)] /\ \A j \in all : j <= i
      BY <1>2, <1>6
    <3> DEFINE k == CHOOSE x \in all : \A j \in all : j <= x
    <3>2. k \in all /\ \A j \in all : j <= k
      BY <3>1
    <3> HIDE DEF k
    <3>3. k \in Int /\ i \in Int /\ k <= i /\ i <= k
      BY <1>1, <1>2, <3>1, <3>2
    <3>4. s.last = log[k]
      BY <2>1, <3>1, <3>3
    <3> QED BY <3>4 DEF k
  <2>7. row.summary # <<>> /\ s.avg = <<AnswersSum(log), Cardinality(all)>>
    BY <1>1, <2>1, <2>2
  <2> QED BY <1>1, <1>3, <1>4, <2>2, <2>3, <2>4, <2>5, <2>6, <2>7 DEF SaysOf, all, n
<1> QED BY <1>5, <1>6

LEMMA SaysTyped ==
  ASSUME NEW times, NEW log, Tally(times, log), NEW host \in Host,
         NEW cnt, cnt = Len(log), NEW loss, loss = FractionOf(Len(log) - Len(times), Len(log)),
         NEW summary, summary = IF times = <<>> THEN <<>> ELSE Summarise(times)
  PROVE  LET row == [host |-> host, cnt |-> cnt, loss |-> loss, data |-> times, summary |-> summary]
         IN row \in Row /\ Says(row, host, times, log)
<1>1. cnt \in Nat /\ loss \in Fraction /\ times \in Seq(Time)
  BY TallyCounts DEF Tally
<1>2. summary \in Summary \cup {<<>>}
  BY <1>1, SummaryFacts
<1> DEFINE row == [host |-> host, cnt |-> cnt, loss |-> loss, data |-> times, summary |-> summary]
<1>3. row \in Row
  BY <1>1, <1>2 DEF Row
<1>4. /\ row.host = host /\ row.cnt = cnt /\ row.data = times /\ row.loss = loss
      /\ row.summary = summary
  OBVIOUS
<1> HIDE DEF row
<1>5. Says(row, host, times, log)
  BY <1>4 DEF Says
<1> QED BY <1>3, <1>5 DEF row

(* The row that set_loss() completes, and the one parsed from a line.       *)
LEMMA SetLossFacts ==
  ASSUME NEW host \in Host, PingAgrees
  PROVE  SetLoss(host, ping) \in Row /\ Says(SetLoss(host, ping), host, ping.times, ping.log)
<1>1. /\ Tally(ping.times, ping.log) /\ ping.sent = Len(ping.log)
      /\ ping.summary = IF ping.times = <<>> THEN <<>> ELSE Summarise(ping.times)
  BY DEF PingAgrees
<1> DEFINE loss == IF ping.sent > 0 THEN FractionOf(ping.sent - Len(ping.times), ping.sent)
                   ELSE <<0, 1>>
<1>2. loss = FractionOf(Len(ping.log) - Len(ping.times), Len(ping.log))
  <2>1. /\ Len(ping.log) \in Nat /\ Len(ping.times) \in Nat /\ Len(ping.times) <= Len(ping.log)
    BY <1>1, TallyCounts
  <2>2. CASE ping.sent > 0
    BY <1>1, <2>2
  <2>3. CASE ~(ping.sent > 0)
    <3>1. Len(ping.log) - Len(ping.times) = 0
      BY <1>1, <2>1, <2>3
    <3> QED BY <2>3, <3>1 DEF FractionOf
  <2> QED BY <2>2, <2>3
<1> HIDE DEF loss
<1> DEFINE row == [host |-> host, cnt |-> ping.sent, loss |-> loss, data |-> ping.times,
                   summary |-> ping.summary]
<1>3. row \in Row /\ Says(row, host, ping.times, ping.log)
  BY <1>1, <1>2, SaysTyped
<1>4. SetLoss(host, ping) = row
  BY DEF SetLoss, loss
<1> HIDE DEF row
<1> QED BY <1>3, <1>4

LEMMA ParseVerboseFacts ==
  ASSUME NEW host \in Host, NEW log \in Seq(Answer)
  PROVE  /\ ParseVerbose(host, log) \in Row
         /\ Says(ParseVerbose(host, log), host, TimesIn(log), log)
<1> DEFINE times == TimesIn(log)
           loss == FractionOf(Len(log) - Len(times), Len(log))
           summary == IF times = <<>> THEN <<>> ELSE Summarise(times)
           row == [host |-> host, cnt |-> Len(log), loss |-> loss, data |-> times,
                   summary |-> summary]
<1>1. Tally(times, log)
  BY TimesInTally
<1>2. row \in Row /\ Says(row, host, times, log)
  <2> HIDE DEF times
  <2> QED BY <1>1, SaysTyped
<1>3. ParseVerbose(host, log) = row
  BY DEF ParseVerbose
<1> HIDE DEF row, times
<1>4. ParseVerbose(host, log) \in Row /\ Says(ParseVerbose(host, log), host, times, log)
  BY <1>2, <1>3
<1> QED BY <1>4 DEF times

-----------------------------------------------------------------------------
(* What a message leaves behind.                                            *)
OneEach(results) ==
  \A i, j \in 1..Len(results) : results[i] # NoRow /\ results[i].host = results[j].host => i = j

LEMMA ObserveFacts ==
  ASSUME NEW m \in Exported, NEW results \in Seq(Result), OneEach(results)
  PROVE  /\ FoldLeft(Observe, m, results) \in Exported
         /\ \A host \in Host :
              \/ \E i \in 1..Len(results) :
                   /\ results[i].host = host
                   /\ FoldLeft(Observe, m, results)[host].sent = m[host].sent + results[i].cnt
              \/ /\ \A i \in 1..Len(results) : results[i].host # host
                 /\ FoldLeft(Observe, m, results)[host].sent = m[host].sent
<1> DEFINE n == Len(results)
           all == FoldLeft(Observe, m, results)
<1>1. n \in Nat /\ \A i \in 1..n : results[i] \in Result
  OBVIOUS
<1>2. PICK h : h[0] = m /\ all = h[n] /\ \A i \in 1..n : h[i] = Observe(h[i - 1], results[i])
  BY ObserveRuns
<1> HIDE DEF n, all
<1>3. \A i \in 0..n : h[i] \in Exported
  <2>1. ASSUME NEW i \in 1..n, h[i - 1] \in Exported PROVE h[i] \in Exported
    BY <1>1, <1>2, <2>1, ObserveTyped
  <2>2. h[0] \in Exported
    BY <1>2
  <2> QED BY <1>1, <2>1, <2>2, RunTyped
<1>4. ASSUME NEW host \in Host
      PROVE  \/ \E i \in 1..n : results[i].host = host /\ all[host].sent = m[host].sent + results[i].cnt
             \/ (\A i \in 1..n : results[i].host # host) /\ all[host].sent = m[host].sent
  <2> DEFINE Sent(k) == h[k][host].sent
             Seen(k) == \E i \in 1..k : results[i].host = host /\ Sent(k) = m[host].sent + results[i].cnt
             Unseen(k) == (\A i \in 1..k : results[i].host # host) /\ Sent(k) = m[host].sent
             Good == {k \in Nat : k <= n => Seen(k) \/ Unseen(k)}
  <2>1. 0 \in Good
    BY <1>2
  <2>2. ASSUME NEW k \in Nat, k \in Good PROVE k + 1 \in Good
    <3>1. ASSUME k + 1 <= n PROVE Seen(k + 1) \/ Unseen(k + 1)
      <4> DEFINE row == results[k + 1]
      <4>1. k + 1 \in 1..n /\ (k + 1) - 1 = k /\ k \in 0..n /\ (Seen(k) \/ Unseen(k))
        BY <1>1, <2>2, <3>1
      <4>2. row \in Result /\ h[k + 1] = Observe(h[k], row) /\ h[k] \in Exported
        BY <1>1, <1>2, <1>3, <4>1
      <4> HIDE DEF Sent
      <4>3. CASE row.host = host
        <5>1. row # NoRow /\ row.cnt \in Nat
          BY <4>2, <4>3, RowFacts
        <5>2. Sent(k + 1) = Sent(k) + row.cnt
          <6>1. h[k + 1] = [h[k] EXCEPT ![host] =
                   [sent |-> h[k][host].sent + row.cnt, loss |-> row.loss,
                    observed |-> h[k][host].observed + (IF row.summary = <<>> THEN 0 ELSE 1)]]
            BY <4>2, <4>3, <5>1 DEF Observe
          <6>2. DOMAIN h[k] = Host
            BY <4>2 DEF Exported
          <6> HIDE DEF row
          <6> QED BY <6>1, <6>2 DEF Sent
        <5>3. \A i \in 1..k : results[i].host # host
          <6>1. \A i \in 1..k : i \in 1..n /\ i # k + 1
            <7>1. k \in Nat /\ n \in Nat /\ k + 1 <= n
              BY <1>1, <3>1
            <7> QED BY <7>1
          <6> QED BY <4>1, <4>3, <5>1, <6>1 DEF OneEach, n
        <5>4. Sent(k) = m[host].sent
          BY <4>1, <5>3
        <5>5. k + 1 \in 1..k + 1
          OBVIOUS
        <5>6. Seen(k + 1)
          BY <4>3, <5>2, <5>4, <5>5
        <5> QED BY <5>6
      <4>4. CASE row.host # host
        <5>1. Sent(k + 1) = Sent(k)
          <6>1. CASE row = NoRow
            BY <4>2, <6>1 DEF Observe, Sent
          <6>2. CASE row # NoRow
            <7>1. h[k + 1] = [h[k] EXCEPT ![row.host] =
                     [sent |-> h[k][row.host].sent + row.cnt, loss |-> row.loss,
                      observed |-> h[k][row.host].observed + (IF row.summary = <<>> THEN 0 ELSE 1)]]
              BY <4>2, <6>2 DEF Observe
            <7>2. DOMAIN h[k] = Host
              BY <4>2 DEF Exported
            <7> HIDE DEF row
            <7> QED BY <4>4, <7>1, <7>2 DEF Sent
          <6> QED BY <6>1, <6>2
        <5>2. \A i \in 1..k + 1 : i \in 1..k \/ i = k + 1
          OBVIOUS
        <5>3. CASE Seen(k)
          <6>1. Seen(k + 1)
            BY <5>1, <5>3
          <6> QED BY <6>1
        <5>4. CASE Unseen(k)
          <6>1. Unseen(k + 1)
            BY <4>4, <5>1, <5>2, <5>4
          <6> QED BY <6>1
        <5> QED BY <4>1, <5>3, <5>4
      <4> QED BY <4>3, <4>4
    <3> HIDE DEF Seen, Unseen
    <3> QED BY <3>1
  <2>3. Seen(n) \/ Unseen(n)
    <3> HIDE DEF Seen, Unseen
    <3>1. Nat \subseteq Good
      <4> HIDE DEF Good
      <4> QED BY <2>1, <2>2, NatInductionOnSet
    <3> QED BY <1>1, <3>1
  <2> QED BY <1>2, <2>3
<1>5. all \in Exported
  BY <1>1, <1>2, <1>3
<1> QED BY <1>4, <1>5 DEF all, n

LEMMA HopsFacts ==
  ASSUME NEW results \in Seq(Result), OneEach(results),
         \A i \in 1..Len(results) : results[i] # NoRow => Contains(hosts, results[i].host)
  PROVE  /\ HopsOf(results) \in HopTable
         /\ \A i \in 1..Len(results) : results[i] # NoRow =>
              /\ results[i].host \in DOMAIN HopsOf(results)
              /\ HopsOf(results)[results[i].host] = results[i]
         /\ \A host \in DOMAIN HopsOf(results) :
              \E i \in 1..Len(results) : HopsOf(results)[host] = results[i]
<1> DEFINE n == Len(results)
           all == HopsOf(results)
<1>1. /\ n \in Nat /\ \A i \in 1..n : results[i] \in Result
      /\ \A i \in 1..n : results[i] # NoRow => Contains(hosts, results[i].host)
  OBVIOUS
<1>2. PICK h : h[0] = <<>> /\ all = h[n] /\ \A i \in 1..n : h[i] = AddRow(h[i - 1], results[i])
  BY HopsOfRuns
<1> HIDE DEF n, all
<1>3. \A i \in 0..n : h[i] \in HopTable
  <2>1. ASSUME NEW i \in 1..n, h[i - 1] \in HopTable PROVE h[i] \in HopTable
    BY <1>1, <1>2, <2>1, AddRowTyped
  <2>2. h[0] \in HopTable
    BY <1>2, NoHops
  <2> QED BY <1>1, <2>1, <2>2, RunTyped
<1> DEFINE There(k) == \A i \in 1..k : results[i] # NoRow =>
                         results[i].host \in DOMAIN h[k] /\ h[k][results[i].host] = results[i]
           Only(k) == \A host \in DOMAIN h[k] : \E i \in 1..k : h[k][host] = results[i]
           Good == {k \in Nat : k <= n => There(k) /\ Only(k)}
<1>4. 0 \in Good
  <2>1. DOMAIN h[0] = {}
    BY <1>2
  <2> QED BY <2>1
<1>5. ASSUME NEW k \in Nat, k \in Good PROVE k + 1 \in Good
  <2>1. ASSUME k + 1 <= n PROVE There(k + 1) /\ Only(k + 1)
    <3> DEFINE row == results[k + 1]
    <3>1. k + 1 \in 1..n /\ (k + 1) - 1 = k /\ k \in 0..n /\ There(k) /\ Only(k)
      BY <1>1, <1>5, <2>1
    <3>2. row \in Result /\ h[k + 1] = AddRow(h[k], row)
      BY <1>1, <1>2, <3>1
    <3>3. \A i \in 1..k + 1 : i \in 1..k \/ i = k + 1
      OBVIOUS
    <3>4. \A i \in 1..k : i \in 1..k + 1
      OBVIOUS
    <3>5. CASE row = NoRow
      <4>1. h[k + 1] = h[k]
        BY <3>2, <3>5 DEF AddRow
      <4>2. There(k + 1)
        BY <3>1, <3>3, <3>5, <4>1
      <4>3. Only(k + 1)
        BY <3>1, <3>4, <4>1
      <4> QED BY <4>2, <4>3
    <3>6. CASE row # NoRow
      <4>1. Contains(hosts, row.host)
        BY <1>1, <3>1, <3>6
      <4> DEFINE more == DOMAIN h[k] \cup {row.host}
      <4>2. h[k + 1] = [host \in more |-> IF host = row.host THEN row ELSE h[k][host]]
        BY <3>2, <3>6, <4>1 DEF AddRow
      <4>3. /\ DOMAIN h[k + 1] = more /\ h[k + 1][row.host] = row
            /\ \A host \in more : host # row.host => h[k + 1][host] = h[k][host]
        BY <4>2
      <4>4. \A i \in 1..k : results[i] # NoRow => results[i].host # row.host
        <5>1. \A i \in 1..k : i \in 1..n /\ i # k + 1
          <6>1. k \in Nat /\ n \in Nat /\ k + 1 <= n
            BY <1>1, <2>1
          <6> QED BY <6>1
        <5> QED BY <3>1, <3>6, <5>1 DEF OneEach, n
      <4>5. There(k + 1)
        <5>1. ASSUME NEW i \in 1..k + 1, results[i] # NoRow
              PROVE  results[i].host \in DOMAIN h[k + 1] /\ h[k + 1][results[i].host] = results[i]
          <6>1. CASE i = k + 1
            BY <4>3, <6>1
          <6>2. CASE i \in 1..k
            <7>1. results[i].host \in DOMAIN h[k] /\ h[k][results[i].host] = results[i]
              BY <3>1, <5>1, <6>2
            <7>2. results[i].host # row.host
              BY <4>4, <5>1, <6>2
            <7> HIDE DEF row
            <7> QED BY <4>3, <7>1, <7>2
          <6> QED BY <3>3, <6>1, <6>2
        <5> QED BY <5>1
      <4>6. Only(k + 1)
        <5>1. ASSUME NEW host \in DOMAIN h[k + 1] PROVE \E i \in 1..k + 1 : h[k + 1][host] = results[i]
          <6>1. CASE host = row.host
            BY <4>3, <6>1
          <6>2. CASE host # row.host
            <7>1. host \in DOMAIN h[k] /\ h[k + 1][host] = h[k][host]
              BY <4>3, <5>1, <6>2
            <7>2. PICK i \in 1..k : h[k][host] = results[i]
              BY <3>1, <7>1
            <7> QED BY <3>4, <7>1, <7>2
          <6> QED BY <6>1, <6>2
        <5> QED BY <5>1
      <4> QED BY <4>5, <4>6
    <3> QED BY <3>5, <3>6
  <2> HIDE DEF There, Only
  <2> QED BY <2>1
<1>6. There(n) /\ Only(n)
  <2> HIDE DEF There, Only
  <2>1. Nat \subseteq Good
    <3> HIDE DEF Good
    <3> QED BY <1>4, <1>5, NatInductionOnSet
  <2> QED BY <1>1, <2>1
<1>7. all \in HopTable
  BY <1>1, <1>2, <1>3
<1> QED BY <1>2, <1>6, <1>7 DEF all, n

-----------------------------------------------------------------------------
(* The steps.                                                               *)
PingType == [times : Seq(Time), summary : Summary \cup {<<>>}, sent : 0..Count,
             log : Seq(Answer), over : BOOLEAN]

LEMMA TypeFacts ==
  ASSUME TypeOK
  PROVE  /\ plugin \in [mtr : BOOLEAN, use_rust : BOOLEAN] /\ pc \in {"idle", "pinging", "dead"}
         /\ cycles \in 0..MaxCycles /\ MaxCycles \in Nat /\ hosts \in Seq(Host)
         /\ ping \in PingType /\ rows \in Seq(Result) /\ pings \in Seq(Seq(Answer))
         /\ hops \in HopTable /\ metrics \in Exported /\ pinged \in [Host -> Nat]
         /\ Len(rows) \in Nat /\ Len(hosts) \in Nat
         /\ \A i \in 1..Len(rows) : rows[i] \in Result
<1>1. /\ plugin \in [mtr : BOOLEAN, use_rust : BOOLEAN] /\ pc \in {"idle", "pinging", "dead"}
      /\ cycles \in 0..MaxCycles /\ hosts \in Seq(Host)
      /\ ping \in PingType /\ rows \in Seq(Result) /\ pings \in Seq(Seq(Answer))
      /\ metrics \in Exported /\ pinged \in [Host -> Nat]
  BY DEF TypeOK, PingType, Result, Answer, Exported
<1>2. hops \in HopTable
  BY DEF TypeOK, HopTable
<1>3. MaxCycles \in Nat
  BY PingAssumption
<1>4. Len(rows) \in Nat /\ Len(hosts) \in Nat /\ \A i \in 1..Len(rows) : rows[i] \in Result
  <2> HIDE DEF Result
  <2> QED BY <1>1
<1> QED BY <1>1, <1>2, <1>3, <1>4

LEMMA NewPingFacts ==
  /\ NewPing \in PingType /\ NewPing.sent = 0 /\ NewPing.times = <<>> /\ NewPing.log = <<>>
  /\ NewPing.summary = <<>>
<1>1. 0 \in 0..Count
  BY TimeFacts
<1> QED BY <1>1 DEF NewPing, PingType

LEMMA NewPingAgrees == ping = NewPing => PingAgrees
<1> SUFFICES ASSUME ping = NewPing PROVE PingAgrees
  OBVIOUS
<1>1. ping.sent = 0 /\ ping.times = <<>> /\ ping.log = <<>> /\ ping.summary = <<>>
  BY NewPingFacts
<1>2. Tally(<<>>, <<>>) /\ Len(<<>>) = 0 /\ 0 <= Count
  BY TallyNone, TimeFacts
<1> QED BY <1>1, <1>2 DEF PingAgrees

(* A turn of the Rust loop.                                                 *)
LEMMA PingedFacts ==
  ASSUME ping \in PingType, PingAgrees, Len(ping.log) < Count, NEW t \in Answer
  PROVE  LET counted == [ping EXCEPT !.sent = @ + 1, !.log = Append(@, t)]
             new == IF t = Lost THEN counted ELSE AddTime(counted, t)
         IN /\ new \in PingType /\ new.sent = ping.sent + 1 /\ new.log = Append(ping.log, t)
            /\ new.times = IF t = Lost THEN ping.times ELSE Append(ping.times, t)
            /\ new.summary = IF new.times = <<>> THEN <<>> ELSE Summarise(new.times)
<1> DEFINE counted == [ping EXCEPT !.sent = @ + 1, !.log = Append(@, t)]
           new == IF t = Lost THEN counted ELSE AddTime(counted, t)
<1>1. /\ ping.times \in Seq(Time) /\ ping.log \in Seq(Answer) /\ ping.sent = Len(ping.log)
      /\ ping.summary = IF ping.times = <<>> THEN <<>> ELSE Summarise(ping.times)
  BY DEF PingType, PingAgrees
<1>2. ping.sent + 1 \in 0..Count /\ Append(ping.log, t) \in Seq(Answer)
  <2>1. Len(ping.log) \in Nat /\ Count \in Nat
    BY <1>1, TimeFacts
  <2> QED BY <1>1, <2>1
<1> DEFINE sent == ping.sent + 1
           log == Append(ping.log, t)
<1>3. counted = [ping EXCEPT !.sent = sent, !.log = log]
  OBVIOUS
<1>4. sent \in 0..Count /\ log \in Seq(Answer)
  BY <1>2
<1> HIDE DEF sent, log, counted
<1>5. /\ counted \in PingType /\ counted.times = ping.times /\ counted.summary = ping.summary
      /\ counted.sent = sent /\ counted.log = log
  BY <1>3, <1>4 DEF PingType
<1>6. CASE t = Lost
  <2>1. new = counted
    BY <1>6
  <2> HIDE DEF new
  <2>2. /\ new \in PingType /\ new.sent = ping.sent + 1 /\ new.log = Append(ping.log, t)
        /\ new.times = IF t = Lost THEN ping.times ELSE Append(ping.times, t)
        /\ new.summary = IF new.times = <<>> THEN <<>> ELSE Summarise(new.times)
    BY <1>1, <1>5, <1>6, <2>1 DEF sent, log
  <2> QED BY <2>2 DEF new, counted
<1>7. CASE t # Lost
  <2> DEFINE times == Append(ping.times, t)
             summary == Summarise(times)
  <2>1. t \in Time
    BY <1>7 DEF Answer
  <2>2. times \in Seq(Time) /\ times # <<>>
    BY <1>1, <2>1, AppendProperties
  <2>3. AddTime(counted, t) = [counted EXCEPT !.times = times, !.summary = summary]
    BY <1>5 DEF AddTime
  <2> HIDE DEF times
  <2>4. summary \in Summary
    BY <2>2, SummaryFacts
  <2> HIDE DEF summary
  <2>5. new = [counted EXCEPT !.times = times, !.summary = summary]
    BY <1>7, <2>3
  <2> HIDE DEF new
  <2>6. /\ new \in PingType /\ new.sent = sent /\ new.log = log /\ new.times = times
        /\ new.summary = summary
    BY <1>5, <2>2, <2>4, <2>5 DEF PingType
  <2>7. /\ new \in PingType /\ new.sent = ping.sent + 1 /\ new.log = Append(ping.log, t)
        /\ new.times = IF t = Lost THEN ping.times ELSE Append(ping.times, t)
        /\ new.summary = IF new.times = <<>> THEN <<>> ELSE Summarise(new.times)
    BY <1>7, <2>2, <2>6 DEF sent, log, times, summary
  <2> QED BY <2>7 DEF new, counted
<1> QED BY <1>6, <1>7 DEF counted

Inv == TypeOK /\ Messages

LEMMA InitInv == Init => Inv
<1> SUFFICES ASSUME Init PROVE TypeOK /\ Messages
  BY DEF Inv
<1>1. /\ plugin \in [mtr : BOOLEAN, use_rust : BOOLEAN] /\ pc = "idle" /\ cycles = 0
      /\ hosts = <<>> /\ ping = NewPing /\ rows = <<>> /\ pings = <<>> /\ hops = <<>>
      /\ metrics = [h \in Host |-> [sent |-> 0, loss |-> <<0, 1>>, observed |-> 0]]
      /\ pinged = [h \in Host |-> 0]
  BY DEF Init
<1>2. metrics \in Exported
  BY <1>1 DEF Exported, Fraction
<1>3. hops \in HopTable /\ ping \in PingType
  BY <1>1, NoHops, NewPingFacts
<1>4. TypeOK
  <2>1. cycles \in 0..MaxCycles
    BY <1>1, PingAssumption
  <2>2. rows \in Seq(Result) /\ pings \in Seq(Seq(Answer)) /\ hosts \in Seq(Host)
    BY <1>1
  <2>3. pinged \in [Host -> Nat]
    BY <1>1
  <2>4. pc \in {"idle", "pinging", "dead"}
    BY <1>1
  <2>5. \E reported \in SUBSET Host : hops \in [reported -> Row]
    BY <1>3 DEF HopTable
  <2> QED
    BY <1>1, <1>2, <1>3, <2>1, <2>2, <2>3, <2>4, <2>5 DEF TypeOK, PingType, Result, Answer, Exported
<1>5. Len(rows) = 0 /\ Len(pings) = 0 /\ Len(hosts) = 0 /\ DOMAIN hops = {}
  BY <1>1
<1>6. StatisticsAgree /\ OneRowPerHost
  BY <1>5 DEF StatisticsAgree, OneRowPerHost
<1>7. \A h \in Host : Counted(h)
  <2>1. \A h \in Host : metrics[h].sent = 0 /\ pinged[h] = 0
    BY <1>1
  <2> QED BY <1>5, <2>1 DEF Counted, AtHost
<1>8. RowsOfHosts
  BY <1>5 DEF RowsOfHosts, Distinct
<1>9. PingAgrees
  BY <1>1, NewPingAgrees
<1> QED BY <1>1, <1>4, <1>6, <1>7, <1>8, <1>9 DEF Messages

LEMMA StartStep ==
  ASSUME Inv, NEW list \in Seq(Host), Distinct(list), Start(list)
  PROVE  Inv'
<1>1. /\ pc = "idle" /\ cycles < MaxCycles /\ cycles' = cycles + 1 /\ hosts' = list
      /\ pc' = IF plugin.mtr /\ list = <<>> THEN "dead" ELSE "pinging"
      /\ ping' = NewPing /\ rows' = <<>> /\ pings' = <<>> /\ hops' = <<>>
      /\ metrics' = (IF plugin.mtr THEN metrics ELSE FoldLeft(Observe, metrics, rows))
      /\ UNCHANGED <<plugin, pinged>>
  BY DEF Start
<1>2. TypeOK /\ RowsOfHosts /\ (~plugin.mtr => \A h \in Host : Counted(h))
  BY DEF Inv, Messages
<1>9. /\ rows \in Seq(Result) /\ metrics \in Exported /\ Len(rows) \in Nat /\ Len(hosts) \in Nat
      /\ (\A i \in 1..Len(rows) : rows[i] \in Result) /\ OneEach(rows)
  BY <1>2, TypeFacts DEF RowsOfHosts, OneEach
<1> DEFINE all == FoldLeft(Observe, metrics, rows)
<1>10. /\ all \in Exported
      /\ \A h \in Host :
           \/ \E i \in 1..Len(rows) : rows[i].host = h /\ all[h].sent = metrics[h].sent + rows[i].cnt
           \/ (\A i \in 1..Len(rows) : rows[i].host # h) /\ all[h].sent = metrics[h].sent
  BY <1>9, ObserveFacts
<1>11. metrics' = IF plugin.mtr THEN metrics ELSE all
  BY <1>1
<1> HIDE DEF all
<1>3. TypeOK'
  <2>1. cycles' \in 0..MaxCycles
    BY <1>1, <1>2, TypeFacts
  <2>2. rows' \in Seq(Result) /\ pings' \in Seq(Seq(Answer)) /\ hosts' \in Seq(Host)
    BY <1>1
  <2>3. hops' \in HopTable /\ ping' \in PingType
    BY <1>1, NoHops, NewPingFacts
  <2>4. pc' \in {"idle", "pinging", "dead"}
    BY <1>1
  <2>5. UNCHANGED <<plugin, pinged>> /\ plugin \in [mtr : BOOLEAN, use_rust : BOOLEAN]
        /\ metrics' \in Exported /\ pinged \in [Host -> Nat]
    BY <1>1, <1>2, <1>9, <1>10, <1>11, TypeFacts
  <2>6. /\ plugin' \in [mtr : BOOLEAN, use_rust : BOOLEAN] /\ metrics' \in Exported
        /\ pinged' \in [Host -> Nat]
    BY <2>5
  <2>7. \E reported \in SUBSET Host : hops' \in [reported -> Row]
    BY <2>3 DEF HopTable
  <2> QED BY <2>1, <2>2, <2>3, <2>4, <2>6, <2>7 DEF TypeOK, PingType, Result, Answer, Exported
<1>4. Len(rows') = 0 /\ Len(pings') = 0 /\ Len(list) \in Nat
  BY <1>1
<1>5. StatisticsAgree' /\ OneRowPerHost'
  <2>1. pc' # "idle"
    BY <1>1
  <2> QED BY <1>4, <2>1 DEF StatisticsAgree, OneRowPerHost
<1>7. RowsOfHosts'
  BY <1>1, <1>4 DEF RowsOfHosts
<1>8. PingAgrees'
  BY <1>1, NewPingFacts, TallyNone, TimeFacts DEF PingAgrees
<1>12. ASSUME ~plugin.mtr, NEW h \in Host PROVE all[h].sent = pinged[h]
  <2>1. Counted(h) /\ ~AtHost(h)
    <3>1. plugin.use_rust => Len(rows) = Len(hosts)
      BY <1>1, <1>2 DEF RowsOfHosts
    <3> QED BY <1>2, <1>9, <1>12, <3>1 DEF AtHost
  <2>2. CASE \E i \in 1..Len(rows) : rows[i].host = h
    <3>1. PICK i \in 1..Len(rows) : rows[i].host = h /\ pinged[h] = metrics[h].sent + rows[i].cnt
      BY <2>1, <2>2 DEF Counted
    <3>2. PICK j \in 1..Len(rows) : rows[j].host = h /\ all[h].sent = metrics[h].sent + rows[j].cnt
      BY <1>10, <1>12, <2>2
    <3>3. rows[i] # NoRow
      BY <1>9, <1>12, <3>1, RowFacts
    <3>4. i = j
      BY <1>9, <3>1, <3>2, <3>3 DEF OneEach
    <3> QED BY <3>1, <3>2, <3>4
  <2>3. CASE \A i \in 1..Len(rows) : rows[i].host # h
    <3>1. metrics[h].sent \in Nat
      BY <1>9, <1>12 DEF Exported
    <3>2. pinged[h] = metrics[h].sent + 0
      BY <2>1, <2>3 DEF Counted
    <3>3. all[h].sent = metrics[h].sent
      BY <1>10, <1>12, <2>3
    <3> QED BY <3>1, <3>2, <3>3
  <2> QED BY <2>2, <2>3
<1>13. ASSUME ~plugin'.mtr, NEW h \in Host PROVE Counted(h)'
  <2>1. pinged'[h] = metrics'[h].sent /\ ping'.sent = 0 /\ metrics'[h].sent \in Nat
    <3>1. all[h].sent = pinged[h] /\ metrics' = all
      BY <1>1, <1>11, <1>12, <1>13
    <3>2. all[h].sent \in Nat
      BY <1>10 DEF Exported
    <3> QED BY <1>1, <3>1, <3>2, NewPingFacts
  <2> QED BY <1>4, <2>1 DEF Counted
<1> QED BY <1>3, <1>5, <1>7, <1>8, <1>13 DEF Inv, Messages

(* The host that the Rust loop is at has no row yet.                        *)
LEMMA CurrentFacts ==
  ASSUME TypeOK, RowsOfHosts, Pinging
  PROVE  /\ Current \in Host /\ AtHost(Current) /\ \A h : AtHost(h) => h = Current
         /\ \A i \in 1..Len(rows) : rows[i].host # Current
         /\ Len(rows) + 1 \in 1..Len(hosts)
<1>1. /\ plugin.use_rust /\ Len(rows) < Len(hosts) /\ Distinct(hosts) /\ hosts \in Seq(Host)
      /\ Len(rows) \in Nat /\ Len(hosts) \in Nat
      /\ \A i \in 1..Len(rows) : rows[i].host = hosts[i]
  BY TypeFacts DEF RowsOfHosts, Pinging
<1>2. Len(rows) + 1 \in 1..Len(hosts)
  BY <1>1
<1>3. Current \in Host
  BY <1>1, <1>2 DEF Current
<1>4. ASSUME NEW i \in 1..Len(rows) PROVE rows[i].host # Current
  <2>1. i \in 1..Len(hosts) /\ i # Len(rows) + 1
    BY <1>1
  <2> QED BY <1>1, <1>2, <2>1 DEF Distinct, Current
<1> QED BY <1>1, <1>2, <1>3, <1>4 DEF AtHost, Current

LEMMA PingOnceStep == ASSUME Inv, PingOnce PROVE Inv'
<1>1. /\ Pinging /\ Len(ping.log) < Count
      /\ UNCHANGED <<plugin, pc, cycles, hosts, rows, pings, hops, metrics>>
  BY DEF PingOnce
<1>2. TypeOK /\ StatisticsAgree /\ OneRowPerHost /\ PingAgrees /\ RowsOfHosts
      /\ (~plugin.mtr => \A h \in Host : Counted(h))
  BY DEF Inv, Messages
<1>3. PICK t \in Answer :
        /\ ping' = LET counted == [ping EXCEPT !.sent = @ + 1, !.log = Append(@, t)]
                   IN IF t = Lost THEN counted ELSE AddTime(counted, t)
        /\ pinged' = [pinged EXCEPT ![Current] = @ + 1]
  BY DEF PingOnce, Answer
<1>4. ping \in PingType /\ pinged \in [Host -> Nat] /\ metrics \in Exported
  BY <1>2, TypeFacts
<1>5. /\ ping' \in PingType /\ ping'.sent = ping.sent + 1 /\ ping'.log = Append(ping.log, t)
      /\ ping'.times = IF t = Lost THEN ping.times ELSE Append(ping.times, t)
      /\ ping'.summary = IF ping'.times = <<>> THEN <<>> ELSE Summarise(ping'.times)
  <2> DEFINE counted == [ping EXCEPT !.sent = @ + 1, !.log = Append(@, t)]
             new == IF t = Lost THEN counted ELSE AddTime(counted, t)
  <2>1. /\ new \in PingType /\ new.sent = ping.sent + 1 /\ new.log = Append(ping.log, t)
        /\ new.times = IF t = Lost THEN ping.times ELSE Append(ping.times, t)
        /\ new.summary = IF new.times = <<>> THEN <<>> ELSE Summarise(new.times)
    <3>1. ping \in PingType /\ PingAgrees /\ Len(ping.log) < Count
      BY <1>1, <1>2, <1>4
    <3> QED BY <3>1, PingedFacts
  <2>2. ping' = new
    BY <1>3
  <2> HIDE DEF new, counted
  <2> QED BY <2>1, <2>2
<1>6. Current \in Host /\ AtHost(Current) /\ (\A h : AtHost(h) => h = Current)
      /\ (\A i \in 1..Len(rows) : rows[i].host # Current)
  BY <1>1, <1>2, CurrentFacts
<1>7. TypeOK'
  <2>1. pinged' \in [Host -> Nat]
    BY <1>3, <1>4, <1>6
  <2> QED BY <1>1, <1>2, <1>5, <2>1 DEF TypeOK, PingType, Answer
<1>8. PingAgrees'
  <2>1. Tally(ping.times, ping.log) /\ ping.sent = Len(ping.log) /\ ping.log \in Seq(Answer)
    BY <1>2 DEF PingAgrees, Tally
  <2>2. Tally(ping'.times, ping'.log)
    BY <1>5, <2>1, TallyMore
  <2>3. Len(ping'.log) = Len(ping.log) + 1 /\ Len(ping.log) \in Nat
    BY <1>5, <2>1
  <2>4. Len(ping'.log) <= Count
    BY <1>1, <2>3, TimeFacts
  <2> QED BY <1>5, <2>1, <2>2, <2>3, <2>4 DEF PingAgrees
<1>9. StatisticsAgree' /\ OneRowPerHost'
  BY <1>1, <1>2 DEF StatisticsAgree, OneRowPerHost
<1>10. RowsOfHosts'
  BY <1>1, <1>2 DEF RowsOfHosts
<1>12. ASSUME ~plugin'.mtr, NEW h \in Host PROVE Counted(h)'
  <2>1. Counted(h) /\ AtHost(h)' = AtHost(h) /\ metrics[h].sent \in Nat /\ ping.sent \in Nat
    <3>1. Counted(h)
      BY <1>1, <1>2, <1>12
    <3>2. AtHost(h)' = AtHost(h)
      BY <1>1 DEF AtHost
    <3>3. metrics[h].sent \in Nat
      BY <1>4 DEF Exported
    <3>4. ping.sent \in Nat
      BY <1>2 DEF PingAgrees, Tally
    <3> QED BY <3>1, <3>2, <3>3, <3>4
  <2>2. CASE h = Current
    <3>1. pinged[h] = metrics[h].sent + ping.sent
      BY <1>6, <2>1, <2>2 DEF Counted
    <3>2. pinged'[h] = metrics'[h].sent + ping'.sent
      <4>1. pinged'[h] = pinged[h] + 1
        BY <1>3, <1>4, <2>2
      <4>2. metrics'[h].sent = metrics[h].sent /\ ping'.sent = ping.sent + 1
        BY <1>1, <1>5
      <4> QED BY <2>1, <3>1, <4>1, <4>2
    <3>3. AtHost(h)'
      BY <1>6, <2>1, <2>2
    <3> QED BY <1>1, <1>6, <2>2, <3>2, <3>3 DEF Counted
  <2>3. CASE h # Current
    <3>1. pinged'[h] = pinged[h] /\ ~AtHost(h)
      BY <1>3, <1>4, <1>6, <2>3
    <3>2. metrics' = metrics /\ rows' = rows
      BY <1>1
    <3> QED BY <2>1, <3>1, <3>2 DEF Counted
  <2> QED BY <2>2, <2>3
<1> QED BY <1>7, <1>8, <1>9, <1>10, <1>12 DEF Inv, Messages

LEMMA PingBrokenStep == ASSUME Inv, PingBroken PROVE Inv'
<1>1. /\ Pinging /\ ping' = [ping EXCEPT !.over = TRUE]
      /\ UNCHANGED <<plugin, pc, cycles, hosts, rows, pings, hops, metrics, pinged>>
  BY DEF PingBroken
<1>2. TypeOK /\ StatisticsAgree /\ OneRowPerHost /\ PingAgrees /\ RowsOfHosts
      /\ (~plugin.mtr => \A h \in Host : Counted(h))
  BY DEF Inv, Messages
<1>3. ping \in PingType
  BY <1>2, TypeFacts
<1>4. /\ ping' \in PingType /\ ping'.sent = ping.sent /\ ping'.log = ping.log
      /\ ping'.times = ping.times /\ ping'.summary = ping.summary
  BY <1>1, <1>3 DEF PingType
<1>5. TypeOK'
  BY <1>1, <1>2, <1>4 DEF TypeOK, PingType, Answer
<1>6. PingAgrees'
  BY <1>2, <1>4 DEF PingAgrees
<1>7. StatisticsAgree' /\ OneRowPerHost'
  BY <1>1, <1>2 DEF StatisticsAgree, OneRowPerHost
<1>8. RowsOfHosts'
  BY <1>1, <1>2 DEF RowsOfHosts
<1>9. \A h \in Host : Counted(h) => Counted(h)'
  BY <1>1, <1>4 DEF Counted, AtHost
<1> QED BY <1>1, <1>2, <1>5, <1>6, <1>7, <1>8, <1>9 DEF Inv, Messages

(* A row more: that of a host that has none yet, or none.                   *)
LEMMA RowMore ==
  ASSUME TypeOK, StatisticsAgree, OneRowPerHost, RowsOfHosts,
         NEW row \in Result, NEW log \in Seq(Answer),
         rows' = Append(rows, row), pings' = Append(pings, log), UNCHANGED <<plugin, hosts>>,
         pc' # "idle",
         row # NoRow => /\ SaysOf(row, log) /\ Contains(hosts, row.host)
                        /\ \A i \in 1..Len(rows) : rows[i].host # row.host,
         plugin.use_rust => Len(rows) + 1 \in 1..Len(hosts) /\ row.host = hosts[Len(rows) + 1]
  PROVE  /\ rows' \in Seq(Result) /\ pings' \in Seq(Seq(Answer))
         /\ Len(rows') = Len(rows) + 1 /\ rows'[Len(rows) + 1] = row
         /\ \A i \in 1..Len(rows) : rows'[i] = rows[i]
         /\ StatisticsAgree' /\ OneRowPerHost' /\ RowsOfHosts'
<1> DEFINE n == Len(rows)
<1>1. /\ n \in Nat /\ Len(hosts) \in Nat /\ rows \in Seq(Result) /\ pings \in Seq(Seq(Answer))
      /\ Len(pings) = n
  BY TypeFacts DEF RowsOfHosts
<1>2. /\ rows' \in Seq(Result) /\ Len(rows') = n + 1 /\ rows'[n + 1] = row
      /\ \A i \in 1..n : rows'[i] = rows[i]
  <2> HIDE DEF Result
  <2> QED BY <1>1
<1>3. /\ pings' \in Seq(Seq(Answer)) /\ Len(pings') = n + 1 /\ pings'[n + 1] = log
      /\ \A i \in 1..n : pings'[i] = pings[i]
  <2> HIDE DEF Answer
  <2> QED BY <1>1
<1>4. \A i \in 1..Len(rows') : i \in 1..n \/ i = n + 1
  BY <1>1, <1>2
<1>5. row.host \in Host => row # NoRow
  BY RowFacts
<1>6. \A i \in 1..n : rows[i] \in Result
  <2> HIDE DEF Result
  <2> QED BY <1>1
<1> HIDE DEF n
<1>7. StatisticsAgree'
  <2>1. \A i \in 1..n : rows[i] # NoRow => SaysOf(rows[i], pings[i])
    BY DEF StatisticsAgree, n
  <2>2. ASSUME NEW i \in 1..Len(rows'), rows'[i] # NoRow PROVE SaysOf(rows'[i], pings'[i])
    <3>1. CASE i \in 1..n
      BY <1>2, <1>3, <2>1, <2>2, <3>1
    <3>2. CASE i = n + 1
      BY <1>2, <1>3, <2>2, <3>2
    <3> QED BY <1>4, <3>1, <3>2
  <2> QED BY <2>2 DEF StatisticsAgree
<1>8. ASSUME NEW i \in 1..Len(rows'), NEW j \in 1..Len(rows'), rows'[i] # NoRow,
             rows'[i].host = rows'[j].host
      PROVE  i = j
  <2>1. rows'[j] # NoRow
    <3>1. rows'[i] \in Result /\ rows'[j] \in Result
      BY <1>2, <1>4, <1>6
    <3>2. rows'[i].host \in Host
      BY <1>8, <3>1, RowFacts
    <3> QED BY <1>8, <3>1, <3>2, RowFacts
  <2>2. CASE i \in 1..n /\ j \in 1..n
    <3>1. \A k, l \in 1..n : rows[k] # NoRow /\ rows[k].host = rows[l].host => k = l
      BY DEF RowsOfHosts, n
    <3>2. rows[i] # NoRow /\ rows[i].host = rows[j].host
      BY <1>2, <1>8, <2>2
    <3> QED BY <2>2, <3>1, <3>2
  <2>3. CASE i \in 1..n /\ j = n + 1
    <3>1. row # NoRow /\ rows[i].host = row.host
      BY <1>2, <1>8, <2>1, <2>3
    <3> QED BY <2>3, <3>1 DEF n
  <2>4. CASE i = n + 1 /\ j \in 1..n
    <3>1. row # NoRow /\ rows[j].host = row.host
      BY <1>2, <1>8, <2>4
    <3> QED BY <2>4, <3>1 DEF n
  <2> QED BY <1>4, <2>2, <2>3, <2>4
<1>9. OneRowPerHost'
  BY <1>8 DEF OneRowPerHost
<1>10. ASSUME NEW i \in 1..Len(rows'), rows'[i] # NoRow PROVE Contains(hosts', rows'[i].host)
  <2>1. CASE i \in 1..n
    <3>1. \A k \in 1..n : rows[k] # NoRow => Contains(hosts, rows[k].host)
      BY DEF RowsOfHosts, n
    <3>2. rows'[i] = rows[i]
      BY <1>2, <2>1
    <3> QED BY <1>10, <2>1, <3>1, <3>2
  <2>2. CASE i = n + 1
    BY <1>2, <1>10, <2>2
  <2> QED BY <1>4, <2>1, <2>2
<1>11. ASSUME plugin.use_rust
       PROVE  Len(rows') <= Len(hosts) /\ \A i \in 1..Len(rows') : rows'[i].host = hosts[i]
  <2>1. /\ \A i \in 1..n : rows[i].host = hosts[i]
        /\ n + 1 \in 1..Len(hosts) /\ row.host = hosts[n + 1]
    BY <1>11 DEF RowsOfHosts, n
  <2>2. Len(rows') <= Len(hosts)
    BY <1>1, <1>2, <2>1
  <2>3. ASSUME NEW i \in 1..Len(rows') PROVE rows'[i].host = hosts[i]
    <3>1. CASE i \in 1..n
      BY <1>2, <2>1, <3>1
    <3>2. CASE i = n + 1
      BY <1>2, <2>1, <3>2
    <3> QED BY <1>4, <3>1, <3>2
  <2> QED BY <2>2, <2>3
<1>12. RowsOfHosts'
  <2>1. Distinct(hosts') /\ Len(pings') = Len(rows')
    BY <1>2, <1>3 DEF RowsOfHosts
  <2> QED BY <1>8, <1>10, <1>11, <2>1 DEF RowsOfHosts
<1> QED BY <1>2, <1>3, <1>7, <1>9, <1>12 DEF n

LEMMA HostDoneStep == ASSUME Inv, HostDone PROVE Inv'
<1> DEFINE row == SetLoss(Current, ping)
           n == Len(rows)
<1>1. /\ Pinging /\ pc = "pinging" /\ rows' = Append(rows, row) /\ pings' = Append(pings, ping.log)
      /\ ping' = NewPing
      /\ UNCHANGED <<plugin, pc, cycles, hosts, hops, metrics, pinged>>
  BY DEF HostDone, Pinging
<1>2. TypeOK /\ StatisticsAgree /\ OneRowPerHost /\ PingAgrees /\ RowsOfHosts
      /\ (~plugin.mtr => \A h \in Host : Counted(h))
  BY DEF Inv, Messages
<1>3. /\ Current \in Host /\ AtHost(Current) /\ (\A h : AtHost(h) => h = Current)
      /\ (\A i \in 1..Len(rows) : rows[i].host # Current)
      /\ Len(rows) + 1 \in 1..Len(hosts)
  BY <1>1, <1>2, CurrentFacts
<1>4. Tally(ping.times, ping.log) /\ ping.sent = Len(ping.log) /\ ping.log \in Seq(Answer)
  BY <1>2 DEF PingAgrees, Tally
<1>5. row \in Row /\ Says(row, Current, ping.times, ping.log)
  BY <1>2, <1>3, SetLossFacts
<1> HIDE DEF row
<1>6. row.host = Current /\ row.cnt = ping.sent /\ row \in Result
  BY <1>4, <1>5 DEF Says, Result
<1>7. SaysOf(row, ping.log)
  BY <1>4, <1>5, TallySays
<1>8. Contains(hosts, row.host) /\ row.host = hosts[Len(rows) + 1]
  BY <1>3, <1>6 DEF Current, Contains
<1>9. /\ rows' \in Seq(Result) /\ pings' \in Seq(Seq(Answer))
      /\ Len(rows') = Len(rows) + 1 /\ rows'[Len(rows) + 1] = row
      /\ \A i \in 1..Len(rows) : rows'[i] = rows[i]
      /\ StatisticsAgree' /\ OneRowPerHost' /\ RowsOfHosts'
  <2>1. pc' # "idle" /\ UNCHANGED <<plugin, hosts>>
    BY <1>1
  <2> QED BY <1>1, <1>2, <1>3, <1>4, <1>6, <1>7, <1>8, <2>1, RowMore
<1>10. ping' \in PingType /\ ping'.sent = 0
  BY <1>1, NewPingFacts
<1>11. TypeOK'
  BY <1>1, <1>2, <1>9, <1>10 DEF TypeOK, PingType, Answer, Result
<1>12. PingAgrees'
  BY <1>1, NewPingFacts, TallyNone, TimeFacts DEF PingAgrees
<1>14. n \in Nat /\ n + 1 \in 1..Len(rows') /\ \A i \in 1..n : i \in 1..Len(rows')
  BY <1>2, <1>9, TypeFacts
<1>15. ASSUME ~plugin'.mtr, NEW h \in Host PROVE Counted(h)'
  <2>1. Counted(h) /\ metrics[h].sent \in Nat /\ metrics'[h].sent = metrics[h].sent
        /\ pinged'[h] = pinged[h] /\ ping.sent \in Nat
    <3>1. metrics[h].sent \in Nat
      BY <1>2, TypeFacts DEF Exported
    <3>2. ping.sent \in Nat
      BY <1>4
    <3> QED BY <1>1, <1>2, <1>15, <3>1, <3>2
  <2>2. CASE h = Current
    <3>1. pinged[h] = metrics[h].sent + ping.sent
      BY <1>3, <2>1, <2>2 DEF Counted
    <3>2. rows'[n + 1].host = h /\ pinged'[h] = metrics'[h].sent + rows'[n + 1].cnt
      BY <1>6, <1>9, <2>1, <2>2, <3>1
    <3> QED BY <1>14, <3>2 DEF Counted
  <2>3. CASE h # Current
    <3>1. CASE \E i \in 1..Len(rows) :
                 rows[i].host = h /\ pinged[h] = metrics[h].sent + rows[i].cnt
      <4>1. PICK i \in 1..Len(rows) : rows[i].host = h /\ pinged[h] = metrics[h].sent + rows[i].cnt
        BY <3>1
      <4>2. /\ i \in 1..Len(rows') /\ rows'[i].host = h
            /\ pinged'[h] = metrics'[h].sent + rows'[i].cnt
        BY <1>9, <1>14, <2>1, <4>1
      <4> QED BY <4>2 DEF Counted
    <3>2. CASE (\A i \in 1..Len(rows) : rows[i].host # h) /\ pinged[h] = metrics[h].sent
      <4>1. ASSUME NEW i \in 1..Len(rows') PROVE rows'[i].host # h
        <5>1. i \in 1..Len(rows) \/ i = n + 1
          BY <1>9, <1>14
        <5> QED BY <1>6, <1>9, <2>3, <3>2, <5>1
      <4>2. pinged'[h] = metrics'[h].sent + 0
        BY <2>1, <3>2
      <4> QED BY <1>10, <4>1, <4>2 DEF Counted
    <3>3. ~AtHost(h)
      BY <1>3, <2>3
    <3> QED BY <2>1, <3>1, <3>2, <3>3 DEF Counted
  <2> QED BY <2>2, <2>3
<1> QED BY <1>9, <1>11, <1>12, <1>15 DEF Inv, Messages

(* A line of fping's output.                                                *)
LEMMA FpingLineStep == ASSUME Inv, FpingLine PROVE Inv'
<1> DEFINE n == Len(rows)
<1>1. /\ pc = "pinging" /\ ~plugin.use_rust
      /\ UNCHANGED <<plugin, pc, cycles, hosts, ping, hops, metrics>>
  BY DEF FpingLine
<1>2. TypeOK /\ StatisticsAgree /\ OneRowPerHost /\ PingAgrees /\ RowsOfHosts
      /\ (~plugin.mtr => \A h \in Host : Counted(h))
  BY DEF Inv, Messages
<1>3. n \in Nat /\ Len(hosts) \in Nat /\ hosts \in Seq(Host) /\ pinged \in [Host -> Nat]
      /\ metrics \in Exported /\ pc' # "idle" /\ UNCHANGED <<plugin, hosts>>
  BY <1>1, <1>2, TypeFacts
<1>4. PingAgrees'
  BY <1>1, <1>2 DEF PingAgrees
<1>5. ASSUME NEW row \in Result, NEW log \in Seq(Answer),
             rows' = Append(rows, row), pings' = Append(pings, log),
             row # NoRow => /\ SaysOf(row, log) /\ Contains(hosts, row.host)
                            /\ \A i \in 1..n : rows[i].host # row.host,
             pinged' \in [Host -> Nat],
             \A h \in Host : row.host # h => pinged'[h] = pinged[h],
             \A h \in Host : row.host = h => pinged'[h] = pinged[h] + row.cnt
      PROVE  Inv'
  <2>1. /\ rows' \in Seq(Result) /\ pings' \in Seq(Seq(Answer))
        /\ Len(rows') = n + 1 /\ rows'[n + 1] = row
        /\ \A i \in 1..n : rows'[i] = rows[i]
        /\ StatisticsAgree' /\ OneRowPerHost' /\ RowsOfHosts'
    BY <1>1, <1>2, <1>3, <1>5, RowMore
  <2>2. TypeOK'
    BY <1>1, <1>2, <1>5, <2>1 DEF TypeOK, Answer, Result
  <2>3. n + 1 \in 1..Len(rows') /\ \A i \in 1..n : i \in 1..Len(rows')
    BY <1>3, <2>1
  <2>4. ASSUME ~plugin'.mtr, NEW h \in Host PROVE Counted(h)'
    <3>1. Counted(h) /\ metrics[h].sent \in Nat /\ metrics'[h].sent = metrics[h].sent
          /\ ~AtHost(h) /\ ~AtHost(h)' /\ pinged[h] \in Nat
      <4>1. metrics[h].sent \in Nat /\ pinged[h] \in Nat
        BY <1>3 DEF Exported
      <4>2. ~AtHost(h) /\ ~AtHost(h)'
        BY <1>1 DEF AtHost
      <4> QED BY <1>1, <1>2, <2>4, <4>1, <4>2
    <3>2. CASE row.host = h
      <4>1. row # NoRow
        BY <3>2, RowFacts
      <4>2. pinged[h] = metrics[h].sent
        BY <1>5, <3>1, <3>2, <4>1 DEF Counted
      <4>3. rows'[n + 1].host = h /\ pinged'[h] = metrics'[h].sent + rows'[n + 1].cnt
        BY <1>5, <2>1, <3>1, <3>2, <4>2
      <4> QED BY <2>3, <4>3 DEF Counted
    <3>3. CASE row.host # h
      <4>1. pinged'[h] = pinged[h]
        BY <1>5, <3>3
      <4>2. CASE \E i \in 1..n : rows[i].host = h /\ pinged[h] = metrics[h].sent + rows[i].cnt
        <5>1. PICK i \in 1..n : rows[i].host = h /\ pinged[h] = metrics[h].sent + rows[i].cnt
          BY <4>2
        <5>2. /\ i \in 1..Len(rows') /\ rows'[i].host = h
              /\ pinged'[h] = metrics'[h].sent + rows'[i].cnt
          BY <2>1, <2>3, <3>1, <4>1, <5>1
        <5> QED BY <5>2 DEF Counted
      <4>3. CASE (\A i \in 1..n : rows[i].host # h) /\ pinged[h] = metrics[h].sent
        <5>1. ASSUME NEW i \in 1..Len(rows') PROVE rows'[i].host # h
          <6>1. i \in 1..n \/ i = n + 1
            BY <1>3, <2>1
          <6> QED BY <2>1, <3>3, <4>3, <6>1
        <5>2. pinged'[h] = metrics'[h].sent + 0
          BY <3>1, <4>1, <4>3
        <5> QED BY <3>1, <5>1, <5>2 DEF Counted
      <4> QED BY <3>1, <4>2, <4>3 DEF Counted
    <3> QED BY <3>2, <3>3
  <2> QED BY <1>4, <2>1, <2>2, <2>4 DEF Inv, Messages
<1>6. CASE \E i \in 1..Len(hosts) : \E log \in [1..Count -> Answer] :
             /\ \A k \in 1..Len(rows) : rows[k].host # hosts[i]
             /\ rows' = Append(rows, ParseVerbose(hosts[i], log))
             /\ pings' = Append(pings, log)
             /\ pinged' = [pinged EXCEPT ![hosts[i]] = @ + Count]
  <2>1. PICK i \in 1..Len(hosts) : \E log \in [1..Count -> Answer] :
             /\ \A k \in 1..Len(rows) : rows[k].host # hosts[i]
             /\ rows' = Append(rows, ParseVerbose(hosts[i], log))
             /\ pings' = Append(pings, log)
             /\ pinged' = [pinged EXCEPT ![hosts[i]] = @ + Count]
    BY <1>6
  <2>2. PICK log \in [1..Count -> Answer] :
             /\ \A k \in 1..Len(rows) : rows[k].host # hosts[i]
             /\ rows' = Append(rows, ParseVerbose(hosts[i], log))
             /\ pings' = Append(pings, log)
             /\ pinged' = [pinged EXCEPT ![hosts[i]] = @ + Count]
    BY <2>1
  <2> DEFINE host == hosts[i]
             row == ParseVerbose(host, log)
  <2>3. log \in Seq(Answer) /\ Len(log) = Count /\ host \in Host /\ Count \in Nat
    BY <1>3, <2>1, <2>2, TimeFacts
  <2>4. Contains(hosts, host)
    BY <2>1 DEF Contains
  <2>5. /\ \A k \in 1..n : rows[k].host # host
        /\ rows' = Append(rows, row) /\ pings' = Append(pings, log)
        /\ pinged' = [pinged EXCEPT ![host] = @ + Count]
    BY <2>2
  <2> HIDE DEF host
  <2>6. row \in Row /\ Says(row, host, TimesIn(log), log)
    BY <2>3, ParseVerboseFacts
  <2> HIDE DEF row
  <2>7. row.host = host /\ row.cnt = Count /\ row \in Result
    BY <2>3, <2>6 DEF Says, Result
  <2>8. SaysOf(row, log)
    BY <2>3, <2>6, TimesInTally, TallySays
  <2>9. /\ pinged' \in [Host -> Nat]
        /\ \A h \in Host : host # h => pinged'[h] = pinged[h]
        /\ \A h \in Host : host = h => pinged'[h] = pinged[h] + Count
    BY <1>3, <2>3, <2>5
  <2> HIDE DEF n
  <2> QED BY <1>5, <2>3, <2>4, <2>5, <2>7, <2>8, <2>9
<1>7. CASE /\ rows' = Append(rows, NoRow) /\ pings' = Append(pings, <<>>) /\ UNCHANGED pinged
  <2>1. NoRow \in Result /\ <<>> \in Seq(Answer)
    BY DEF Result
  <2>2. \A h \in Host : NoRow.host # h
    BY PingAssumption DEF NoRow
  <2> HIDE DEF n
  <2> QED BY <1>3, <1>5, <1>7, <2>1, <2>2
<1>8. \/ \E i \in 1..Len(hosts) : \E log \in [1..Count -> Answer] :
             /\ \A k \in 1..Len(rows) : rows[k].host # hosts[i]
             /\ rows' = Append(rows, ParseVerbose(hosts[i], log))
             /\ pings' = Append(pings, log)
             /\ pinged' = [pinged EXCEPT ![hosts[i]] = @ + Count]
      \/ /\ rows' = Append(rows, NoRow) /\ pings' = Append(pings, <<>>) /\ UNCHANGED pinged
  BY DEF FpingLine, Answer
<1> QED BY <1>6, <1>7, <1>8

(* fping has failed: nothing changes but that probe() has raised.           *)
LEMMA FpingFailsStep == ASSUME Inv, FpingFails PROVE Inv'
<1>1. /\ pc' = "dead" /\ ~plugin.use_rust
      /\ UNCHANGED <<plugin, cycles, hosts, ping, rows, pings, hops, metrics, pinged>>
  BY DEF FpingFails
<1>2. TypeOK /\ StatisticsAgree /\ OneRowPerHost /\ PingAgrees /\ RowsOfHosts
      /\ (~plugin.mtr => \A h \in Host : Counted(h))
  BY DEF Inv, Messages
<1>3. TypeOK'
  BY <1>1, <1>2 DEF TypeOK
<1>4. StatisticsAgree' /\ PingAgrees' /\ RowsOfHosts'
  BY <1>1, <1>2 DEF StatisticsAgree, PingAgrees, RowsOfHosts
<1>5. OneRowPerHost'
  BY <1>1, <1>2 DEF OneRowPerHost
<1>6. \A h \in Host : Counted(h) => Counted(h)'
  BY <1>1 DEF Counted, AtHost
<1> QED BY <1>1, <1>2, <1>3, <1>4, <1>5, <1>6 DEF Inv, Messages

(* probe() returns: the rows are those of a message now.                    *)
LEMMA FinishStep == ASSUME Inv, Finish PROVE Inv'
<1>1. /\ pc = "pinging" /\ (plugin.use_rust => Len(rows) = Len(hosts)) /\ pc' = "idle"
      /\ hops' = (IF plugin.mtr THEN HopsOf(rows) ELSE hops)
      /\ UNCHANGED <<plugin, cycles, hosts, ping, rows, pings, metrics, pinged>>
  BY DEF Finish
<1>2. TypeOK /\ StatisticsAgree /\ OneRowPerHost /\ PingAgrees /\ RowsOfHosts
      /\ (~plugin.mtr => \A h \in Host : Counted(h))
  BY DEF Inv, Messages
<1>3. /\ rows \in Seq(Result) /\ hops \in HopTable
      /\ \A i \in 1..Len(rows) : rows[i] \in Result
  BY <1>2, TypeFacts
<1>4. OneEach(rows) /\ \A i \in 1..Len(rows) : rows[i] # NoRow => Contains(hosts, rows[i].host)
  BY <1>2 DEF RowsOfHosts, OneEach
<1>5. /\ HopsOf(rows) \in HopTable
      /\ \A i \in 1..Len(rows) : rows[i] # NoRow =>
           rows[i].host \in DOMAIN HopsOf(rows) /\ HopsOf(rows)[rows[i].host] = rows[i]
      /\ \A h \in DOMAIN HopsOf(rows) : \E i \in 1..Len(rows) : HopsOf(rows)[h] = rows[i]
  BY <1>3, <1>4, HopsFacts
<1>6. TypeOK'
  <2>1. hops' \in HopTable
    BY <1>1, <1>3, <1>5
  <2>2. \E reported \in SUBSET Host : hops' \in [reported -> Row]
    BY <2>1 DEF HopTable
  <2> QED BY <1>1, <1>2, <2>2 DEF TypeOK
<1>7. StatisticsAgree' /\ PingAgrees' /\ RowsOfHosts'
  BY <1>1, <1>2 DEF StatisticsAgree, PingAgrees, RowsOfHosts
<1>8. OneRowPerHost'
  <2>1. \A i, j \in 1..Len(rows) : rows[i] # NoRow /\ rows[i].host = rows[j].host => i = j
    BY <1>2 DEF OneRowPerHost
  <2>2. plugin'.mtr => hops' = HopsOf(rows)
    BY <1>1
  <2>3. rows' = rows
    BY <1>1
  <2> QED BY <1>5, <2>1, <2>2, <2>3 DEF OneRowPerHost
<1>9. \A h \in Host : Counted(h) => Counted(h)'
  BY <1>1 DEF Counted, AtHost
<1> QED BY <1>1, <1>2, <1>6, <1>7, <1>8, <1>9 DEF Inv, Messages

LEMMA InvStep == Inv /\ [Next]_vars => Inv'
<1> SUFFICES ASSUME Inv, [Next]_vars PROVE Inv'
  OBVIOUS
<1>1. CASE StartFPing
  <2>1. Dedupe(GroupHosts) \in Seq(Host) /\ Distinct(Dedupe(GroupHosts))
    BY GroupHostsTyped, DedupeFacts
  <2> QED BY <1>1, <2>1, StartStep DEF StartFPing
<1>2. CASE StartMTR
  <2>1. PICK n \in 0..MaxLines : \E route \in [1..n -> Host \cup {Star}] : Start(Dedupe(HopsIn(route)))
    BY <1>2 DEF StartMTR
  <2>2. PICK route \in [1..n -> Host \cup {Star}] : Start(Dedupe(HopsIn(route)))
    BY <2>1
  <2>3. n \in Nat
    BY <2>1, PingAssumption
  <2>4. route \in Seq(Host \cup {Star})
    BY <2>2, <2>3
  <2>5. HopsIn(route) \in Seq(Host)
    BY <2>4, HopsInFacts
  <2>6. Dedupe(HopsIn(route)) \in Seq(Host) /\ Distinct(Dedupe(HopsIn(route)))
    BY <2>5, DedupeFacts
  <2> QED BY <2>2, <2>6, StartStep
<1>3. CASE PingOnce
  BY <1>3, PingOnceStep
<1>4. CASE PingBroken
  BY <1>4, PingBrokenStep
<1>5. CASE HostDone
  BY <1>5, HostDoneStep
<1>6. CASE FpingLine
  BY <1>6, FpingLineStep
<1>7. CASE Finish
  BY <1>7, FinishStep
<1>9. CASE FpingFails
  BY <1>9, FpingFailsStep
<1>8. CASE UNCHANGED vars
  <2>1. UNCHANGED <<plugin, pc, cycles, hosts, ping, rows, pings, hops, metrics, pinged>>
    BY <1>8 DEF vars
  <2>2. TypeOK /\ StatisticsAgree /\ OneRowPerHost /\ PingAgrees /\ RowsOfHosts
    BY DEF Inv, Messages
  <2>3. TypeOK'
    BY <2>1, <2>2 DEF TypeOK
  <2>4. StatisticsAgree' /\ OneRowPerHost' /\ PingAgrees' /\ RowsOfHosts'
    BY <2>1, <2>2 DEF StatisticsAgree, OneRowPerHost, PingAgrees, RowsOfHosts
  <2>5. \A h \in Host : Counted(h) => Counted(h)'
    BY <2>1 DEF Counted, AtHost
  <2>6. (~plugin.mtr => \A h \in Host : Counted(h))
    BY DEF Inv, Messages
  <2> QED BY <2>1, <2>3, <2>4, <2>5, <2>6 DEF Inv, Messages
<1> QED BY <1>1, <1>2, <1>3, <1>4, <1>5, <1>6, <1>7, <1>8, <1>9 DEF Next

-----------------------------------------------------------------------------
(* Whatever the implementation, the ping that is built and every row say    *)
(* what their pings were, every row is about another host of the cycle, and *)
(* the pings of a host are counted in the metrics, in its row or in the     *)
(* ping that is built, in one of them only: PingResult, parse_verbose,      *)
(* probe() and Prometheus' emit(), for any hosts, groups and latencies.     *)
THEOREM MessagesHold == Spec => []Messages
<1>1. Inv => Messages
  BY DEF Inv
<1> QED BY <1>1, InitInv, InvStep, PTL DEF Spec

(* Every variable of the ping probes keeps its type.                        *)
THEOREM PingTypeCorrect == Spec => []TypeOK
<1>1. Inv => TypeOK
  BY DEF Inv
<1> QED BY <1>1, InitInv, InvStep, PTL DEF Spec

(* The statistics of a row are those of the pings it is about, for any      *)
(* number of pings and any latencies: add_time and set_loss of the Rust     *)
(* extension and parse_verbose agree.                                       *)
THEOREM StatisticsHold == Spec => []StatisticsAgree
<1>1. Inv => StatisticsAgree
  BY DEF Inv, Messages
<1> QED BY <1>1, InitInv, InvStep, PTL DEF Spec

(* A message has one row of a host at most, whatever groups or hops name    *)
(* it, and the message of an FPingMTR has every row under its host.         *)
THEOREM HostsHaveOneRow == Spec => []OneRowPerHost
<1>1. Inv => OneRowPerHost
  BY DEF Inv, Messages
<1> QED BY <1>1, InitInv, InvStep, PTL DEF Spec

(* The counter that Prometheus exports for an FPing lacks those pings of a  *)
(* host that the last message counts and no others, for any number of       *)
(* cycles, hosts and groups.                                                *)
THEOREM CountersCount == Spec => []CounterCounts
<1>1. Inv => CounterCounts
  <2> SUFFICES ASSUME Inv, ~plugin.mtr, NEW h \in Host
               PROVE  metrics[h].sent + Waiting(h) = pinged[h]
    BY DEF CounterCounts
  <2>1. Counted(h) /\ RowsOfHosts /\ TypeOK
    BY DEF Inv, Messages
  <2>2. CASE \E i \in 1..Len(rows) : rows[i].host = h
    <3>1. PICK i \in 1..Len(rows) : rows[i].host = h /\ pinged[h] = metrics[h].sent + rows[i].cnt
      BY <2>1, <2>2 DEF Counted
    <3> DEFINE j == CHOOSE k \in 1..Len(rows) : rows[k].host = h
    <3>2. j \in 1..Len(rows) /\ rows[j].host = h
      BY <3>1
    <3>3. Waiting(h) = rows[j].cnt
      BY <2>2 DEF Waiting
    <3> HIDE DEF j
    <3>4. rows[i] # NoRow
      <4>1. rows[i] \in Result
        BY <2>1, TypeFacts
      <4> QED BY <3>1, <4>1, RowFacts
    <3>5. i = j
      BY <2>1, <3>1, <3>2, <3>4 DEF RowsOfHosts
    <3> QED BY <3>1, <3>3, <3>5
  <2>3. CASE \A i \in 1..Len(rows) : rows[i].host # h
    <3>1. pinged[h] = metrics[h].sent + (IF AtHost(h) THEN ping.sent ELSE 0)
      BY <2>1, <2>3 DEF Counted
    <3>2. Waiting(h) = IF AtHost(h) THEN ping.sent ELSE 0
      BY <2>3 DEF Waiting
    <3> QED BY <3>1, <3>2
  <2> QED BY <2>2, <2>3
<1> QED BY <1>1, InitInv, InvStep, PTL DEF Spec
=============================================================================
