--------------------------- MODULE LogParseProofs ---------------------------
(* Theorems about LogParse, for any log and any counts and orders of fields.*)
EXTENDS LogParse, ListFacts

(* All emissions so far.                                                    *)
All == emitted \o rv

(* No kept line makes an eval divide by zero.                               *)
Divisible(row) == config.eval = "ratio" => row.state # 0
GoodRow == {row \in Row : Divisible(row)}
Parsable == config.eval = "ratio" => \A i \in 1..Len(parsed) : parsed[i] % 3 # 0

(* What aggregate() leaves on the stack when there is nothing to aggregate, *)
(* and between two calls.                                                   *)
Modes ==
  /\ config.count = 0 => stack = <<>> /\ rv = <<>> /\ pc # "looping"
  /\ pc = "idle" => rv = <<>> /\ Len(stack) < Width

(* The groups that have been emitted have all been parsed.                  *)
Covered == Len(All) * Width <= Len(parsed)

EvalsAgree == \A k \in 1..Len(All) : All[k].main.rate = Eval(All[k].main)

Batches == NothingLost /\ DiesOnlyForCause /\ EvalsAgree /\ Covered /\ Modes /\ Parsable

Inv == TypeOK /\ Batches

-----------------------------------------------------------------------------
(* The loops.                                                               *)

LEMMA SumRuns ==
  ASSUME NEW column \in Seq(Nat)
  PROVE  \E h : /\ h[0] = 0 /\ Sum(column) = h[Len(column)]
                /\ \A i \in 1..Len(column) : h[i] = h[i - 1] + column[i]
<1> DEFINE n == Len(column)
           A == Nat
           base == 0
           turn(i, a) == a + column[i]
           step == [p \in (1..n) \X A |-> turn(p[1], p[2])]
           Folds(g) == g = [D \in SUBSET (DOMAIN column) |->
                              IF D = {} THEN base ELSE turn(Max(D), g[D \ {Max(D)}])]
<1>1. n \in Nat /\ DOMAIN column = 1..n /\ base \in A /\ \A i \in 1..n : column[i] \in Nat
  OBVIOUS
<1>2. Sum(column) = (CHOOSE g : Folds(g))[1..n]
  BY <1>1 DEF Sum, FoldLeft, MapThenFoldSet
<1>3. \A i \in 1..n : \A a \in A : turn(i, a) \in A
  BY <1>1
<1> HIDE DEF A, turn, base, n
<1>4. step \in Steps(n, A) /\ \A i \in 1..n : \A a \in A : step[<<i, a>>] = turn(i, a)
  BY <1>3 DEF Steps
<1> HIDE DEF step
<1>5. PICK g \in [SUBSET (1..n) -> A] : Folding(n, base, step, g)
  BY <1>1, <1>4, FoldingExists
<1>6. \A D \in SUBSET (1..n) : g[D] = IF D = {} THEN base ELSE turn(Max(D), g[D \ {Max(D)}])
  <2>1. ASSUME NEW D \in SUBSET (1..n), D # {} PROVE Max(D) \in 1..n /\ g[D \ {Max(D)}] \in A
    BY <1>1, <2>1, LastPlace
  <2> QED BY <1>4, <1>5, <2>1 DEF Folding
<1>7. Folds(g)
  BY <1>1, <1>6
<1>8. PICK f : Folds(f) /\ Sum(column) = f[1..n]
  <2> HIDE DEF Folds
  <2> QED BY <1>2, <1>7
<1>9. /\ f[{}] = base
      /\ \A k \in 1..n : f[1..k] = turn(k, f[1..k - 1])
  <2>1. \A k \in 1..n : /\ 1..k \in SUBSET (1..n) /\ 1..k # {} /\ Max(1..k) = k
                        /\ (1..k) \ {Max(1..k)} = 1..k - 1
    BY <1>1, FirstPlaces
  <2> QED BY <1>1, <1>8, <2>1
<1> HIDE DEF Folds
<1> DEFINE h == [k \in 0..n |-> f[1..k]]
<1>10. h[0] = base /\ Sum(column) = h[n] /\ \A i \in 1..n : h[i] = turn(i, h[i - 1])
  BY <1>1, <1>8, <1>9, 1..0 = {}
<1> HIDE DEF h
<1> QED BY <1>10 DEF n, turn, base

-----------------------------------------------------------------------------
(* Rows, and what a field of the first row is set to.                       *)

LEMMA ConfigFacts ==
  ASSUME config \in Config
  PROVE  /\ config.fields \in Seq(Field) /\ IsInjective(config.fields)
         /\ ToSet(config.fields) = Field
         /\ config.count \in Nat /\ config.eval \in {"linear", "ratio"}
         /\ Width \in Nat /\ Width # 0
<1>1. config.fields \in Orders /\ config.count \in Nat /\ config.eval \in {"linear", "ratio"}
  BY LogParseAssumption DEF Config
<1> QED BY <1>1, LogParseAssumption DEF Width

LEMMA FieldFacts ==
  /\ Field = {"total", "mean", "state", "rate"}
  /\ \A f \in Field : Aggregator[f] = "eval" <=> f = "rate"
BY DEF Field, Aggregator

LEMMA SumTyped == ASSUME NEW column \in Seq(Nat) PROVE Sum(column) \in Nat
<1> DEFINE n == Len(column)
<1>1. n \in Nat /\ \A i \in 1..n : column[i] \in Nat
  OBVIOUS
<1>2. PICK h : h[0] = 0 /\ Sum(column) = h[n] /\ \A i \in 1..n : h[i] = h[i - 1] + column[i]
  BY SumRuns
<1> HIDE DEF n
<1>3. ASSUME NEW i \in 1..n, h[i - 1] \in Nat PROVE h[i] \in Nat
  <2>1. h[i] = h[i - 1] + column[i] /\ column[i] \in Nat
    BY <1>1, <1>2
  <2> QED BY <1>3, <2>1
<1>4. h[n] \in Nat
  <2>1. h[0] \in Nat
    BY <1>2
  <2>2. \A i \in 0..n : h[i] \in Nat
    BY <1>1, <1>3, <2>1, RunTyped
  <2> QED BY <1>1, <2>2
<1> QED BY <1>2, <1>4

LEMMA SumOfOne == ASSUME NEW n \in Nat PROVE Sum(<<n>>) = n
<1> DEFINE one == <<n>>
<1>1. one \in Seq(Nat) /\ Len(one) = 1 /\ one[1] = n
  OBVIOUS
<1> HIDE DEF one
<1>2. PICK h : h[0] = 0 /\ Sum(one) = h[Len(one)] /\ \A i \in 1..Len(one) : h[i] = h[i - 1] + one[i]
  BY <1>1, SumRuns
<1>3. 1 \in 1..Len(one) /\ 1 - 1 = 0
  BY <1>1
<1>4. h[1] = 0 + n
  BY <1>1, <1>2, <1>3
<1> QED BY <1>1, <1>2, <1>4 DEF one

LEMMA EvalTyped ==
  ASSUME config \in Config, NEW row, row.total \in Nat, row.state \in Nat, Divisible(row)
  PROVE  Eval(row) \in Nat
<1>1. CASE config.eval = "linear"
  BY <1>1 DEF Eval
<1>2. CASE config.eval = "ratio"
  <2> DEFINE a == 10 * row.total
             b == row.state
  <2>1. a \in Nat /\ b \in Nat /\ b # 0
    BY <1>2 DEF Divisible
  <2> HIDE DEF a, b
  <2>2. a \div b \in Nat
    BY <2>1
  <2> QED BY <1>2, <2>2 DEF Eval, a, b
<1> QED BY <1>1, <1>2, ConfigFacts

GoodRows == {rows \in Seq(GoodRow) : rows # <<>>}

LEMMA RowsFacts ==
  ASSUME NEW rows \in GoodRows
  PROVE  /\ rows \in Seq(GoodRow) /\ Len(rows) \in Nat /\ Len(rows) >= 1
         /\ 1 \in 1..Len(rows) /\ Len(rows) \in 1..Len(rows)
         /\ Head(rows) = rows[1] /\ Last(rows) = rows[Len(rows)]
         /\ \A i \in 1..Len(rows) :
              /\ rows[i].total \in Nat /\ rows[i].mean \in Nat \X (Nat \ {0})
              /\ rows[i].state \in Nat /\ rows[i].rate \in Nat /\ Divisible(rows[i])
              /\ DOMAIN rows[i] = Field
<1>1. rows \in Seq(GoodRow) /\ rows # <<>>
  BY DEF GoodRows
<1> HIDE DEF GoodRows
<1>2. Len(rows) \in Nat /\ Len(rows) >= 1 /\ Head(rows) = rows[1]
  BY <1>1
<1>3. 1 \in 1..Len(rows) /\ Len(rows) \in 1..Len(rows)
  BY <1>2
<1>4. Last(rows) = rows[Len(rows)]
  BY DEF Last
<1>5. ASSUME NEW i \in 1..Len(rows)
      PROVE  /\ rows[i].total \in Nat /\ rows[i].mean \in Nat \X (Nat \ {0})
             /\ rows[i].state \in Nat /\ rows[i].rate \in Nat /\ Divisible(rows[i])
             /\ DOMAIN rows[i] = Field
  <2>1. rows[i] \in GoodRow
    BY <1>1
  <2> QED BY <2>1, FieldFacts DEF GoodRow, Row
<1> QED BY <1>1, <1>2, <1>3, <1>4, <1>5

LEMMA ColumnsTyped ==
  ASSUME NEW rows \in GoodRows
  PROVE  /\ Totals(rows) \in Seq(Nat) /\ Means(rows) \in Seq(Nat)
         /\ Sum(Totals(rows)) \in Nat /\ Sum(Means(rows)) \in Nat
<1>1. Len(rows) \in Nat /\ \A i \in 1..Len(rows) : rows[i].total \in Nat /\ rows[i].mean[1] \in Nat
  BY RowsFacts
<1>2. Totals(rows) \in Seq(Nat) /\ Means(rows) \in Seq(Nat)
  BY <1>1 DEF Totals, Means
<1> QED BY <1>2, SumTyped

(* What each aggregator makes of the rows.                                  *)
LEMMA AggregateFacts ==
  ASSUME config \in Config, NEW rows \in GoodRows
  PROVE  /\ AggregateField("total", rows) = Sum(Totals(rows))
         /\ AggregateField("mean", rows) = <<Sum(Means(rows)), Len(rows)>>
         /\ AggregateField("state", rows) = rows[Len(rows)].state
         /\ AggregateField("rate", rows) = Eval(rows[1])
         /\ AggregateField("total", rows) \in Nat
         /\ AggregateField("mean", rows) \in Nat \X (Nat \ {0})
         /\ AggregateField("state", rows) \in Nat
         /\ AggregateField("rate", rows) \in Nat
<1>1. /\ Aggregator["total"] = "sum" /\ Aggregator["mean"] = "avg"
      /\ Aggregator["state"] = "none" /\ Aggregator["rate"] = "eval"
  BY DEF Aggregator
<1>2. /\ AggregateField("total", rows) = Sum(Totals(rows))
      /\ AggregateField("mean", rows) = <<Sum(Means(rows)), Len(rows)>>
      /\ AggregateField("state", rows) = rows[Len(rows)].state
      /\ AggregateField("rate", rows) = Eval(rows[1])
  BY <1>1, RowsFacts DEF AggregateField
<1>3. Eval(rows[1]) \in Nat
  BY RowsFacts, EvalTyped
<1> QED BY <1>2, <1>3, RowsFacts, ColumnsTyped

LEMMA AssignFacts ==
  ASSUME config \in Config, NEW rows \in GoodRows, NEW f \in Field
  PROVE  /\ Assign(rows, f) \in Seq(GoodRow) /\ Len(Assign(rows, f)) = Len(rows)
         /\ \A i \in 2..Len(rows) : Assign(rows, f)[i] = rows[i]
         /\ \A g \in Field : g # f => Assign(rows, f)[1][g] = rows[1][g]
         /\ Assign(rows, f)[1][f] = AggregateField(f, rows)
<1> DEFINE value == AggregateField(f, rows)
           row == [rows[1] EXCEPT ![f] = value]
           n == Len(rows)
           new == Assign(rows, f)
<1>1. /\ rows \in Seq(GoodRow) /\ n \in Nat /\ n >= 1 /\ 1 \in 1..n
      /\ \A i \in 1..n : rows[i] \in GoodRow
  <2>1. rows \in Seq(GoodRow) /\ Len(rows) \in Nat /\ Len(rows) >= 1 /\ 1 \in 1..Len(rows)
    BY RowsFacts
  <2> QED BY <2>1
<1>2. f \in {"total", "mean", "state", "rate"}
  BY FieldFacts
<1>3. /\ rows[1].total \in Nat /\ rows[1].mean \in Nat \X (Nat \ {0})
      /\ rows[1].state \in Nat /\ rows[1].rate \in Nat /\ Divisible(rows[1])
      /\ DOMAIN rows[1] = {"total", "mean", "state", "rate"} /\ rows[1] \in Row
  BY <1>1, RowsFacts, FieldFacts DEF GoodRow
<1>4. /\ f = "total" => value \in Nat
      /\ f = "mean" => value \in Nat \X (Nat \ {0})
      /\ f = "state" => value \in Nat /\ (config.eval = "ratio" => value # 0)
      /\ f = "rate" => value \in Nat
  <2>1. Divisible(rows[n])
    BY <1>1, RowsFacts
  <2> QED BY <2>1, AggregateFacts DEF Divisible
<1>5. new = [rows EXCEPT ![1] = row]
  BY DEF Assign
<1> HIDE DEF value, new
<1>6. row \in Row
  <2>1. CASE f = "total"
    BY <1>3, <1>4, <2>1 DEF Row
  <2>2. CASE f = "mean"
    BY <1>3, <1>4, <2>2 DEF Row
  <2>3. CASE f = "state"
    <3>1. value \in Nat
      BY <1>4, <2>3
    <3> QED BY <1>3, <2>3, <3>1 DEF Row
  <2>4. CASE f = "rate"
    BY <1>3, <1>4, <2>4 DEF Row
  <2> QED BY <1>2, <2>1, <2>2, <2>3, <2>4
<1>7. row[f] = value /\ \A g \in Field : g # f => row[g] = rows[1][g]
  BY <1>2, <1>3, FieldFacts
<1>8. Divisible(row)
  <2>1. CASE f = "state"
    BY <1>4, <1>7, <2>1 DEF Divisible
  <2>2. CASE f # "state"
    <3>1. row["state"] = rows[1]["state"]
      BY <1>7, <2>2, FieldFacts
    <3> QED BY <1>3, <3>1 DEF Divisible
  <2> QED BY <2>1, <2>2
<1>9. row \in GoodRow
  BY <1>6, <1>8 DEF GoodRow
<1> HIDE DEF row, n
<1>10. /\ new \in Seq(GoodRow) /\ Len(new) = n /\ new[1] = row
       /\ \A i \in 2..n : new[i] = rows[i]
  <2> HIDE DEF GoodRow
  <2> QED BY <1>1, <1>5, <1>9 DEF n
<1> QED BY <1>7, <1>10 DEF new, n, value

LEMMA AssignTyped ==
  ASSUME config \in Config, NEW rows \in GoodRows, NEW f \in Field
  PROVE  Assign(rows, f) \in GoodRows
<1>1. Assign(rows, f) \in Seq(GoodRow) /\ Len(Assign(rows, f)) = Len(rows) /\ Len(rows) >= 1
  BY AssignFacts, RowsFacts
<1> QED BY <1>1 DEF GoodRows

LEMMA AssignRuns ==
  ASSUME config \in Config, NEW rows \in GoodRows, NEW evals \in BOOLEAN
  PROVE  \E h : /\ h[0] = rows /\ AssignFields(rows, evals) = h[Len(config.fields)]
                /\ \A i \in 1..Len(config.fields) :
                     h[i] = IF (Aggregator[config.fields[i]] = "eval") <=> evals
                            THEN Assign(h[i - 1], config.fields[i]) ELSE h[i - 1]
<1> DEFINE n == Len(config.fields)
           A == GoodRows
           base == rows
           turn(i, a) == IF (Aggregator[config.fields[i]] = "eval") <=> evals
                         THEN Assign(a, config.fields[i]) ELSE a
           step == [p \in (1..n) \X A |-> turn(p[1], p[2])]
           Folds(g) == g = [D \in SUBSET (DOMAIN config.fields) |->
                              IF D = {} THEN base ELSE turn(Max(D), g[D \ {Max(D)}])]
<1> DEFINE fields == config.fields
<1>0. fields \in Seq(Field)
  BY LogParseAssumption DEF Config
<1>1. n \in Nat /\ DOMAIN config.fields = 1..n /\ base \in A /\ \A i \in 1..n : config.fields[i] \in Field
  <2> HIDE DEF fields
  <2>1. Len(fields) \in Nat /\ DOMAIN fields = 1..Len(fields) /\ \A i \in 1..Len(fields) : fields[i] \in Field
    BY <1>0
  <2> QED BY <2>1 DEF fields
<1>2. AssignFields(rows, evals) = (CHOOSE g : Folds(g))[1..n]
  BY <1>1 DEF AssignFields, FoldLeft, MapThenFoldSet
<1>3. \A i \in 1..n : \A a \in A : turn(i, a) \in A
  BY <1>1, AssignTyped
<1> HIDE DEF A, turn, base, n
<1>4. step \in Steps(n, A) /\ \A i \in 1..n : \A a \in A : step[<<i, a>>] = turn(i, a)
  BY <1>3 DEF Steps
<1> HIDE DEF step
<1>5. PICK g \in [SUBSET (1..n) -> A] : Folding(n, base, step, g)
  BY <1>1, <1>4, FoldingExists
<1>6. \A D \in SUBSET (1..n) : g[D] = IF D = {} THEN base ELSE turn(Max(D), g[D \ {Max(D)}])
  <2>1. ASSUME NEW D \in SUBSET (1..n), D # {} PROVE Max(D) \in 1..n /\ g[D \ {Max(D)}] \in A
    BY <1>1, <2>1, LastPlace
  <2> QED BY <1>4, <1>5, <2>1 DEF Folding
<1>7. Folds(g)
  BY <1>1, <1>6
<1>8. PICK f : Folds(f) /\ AssignFields(rows, evals) = f[1..n]
  <2> HIDE DEF Folds
  <2> QED BY <1>2, <1>7
<1>9. /\ f[{}] = base
      /\ \A k \in 1..n : f[1..k] = turn(k, f[1..k - 1])
  <2>1. \A k \in 1..n : /\ 1..k \in SUBSET (1..n) /\ 1..k # {} /\ Max(1..k) = k
                        /\ (1..k) \ {Max(1..k)} = 1..k - 1
    BY <1>1, FirstPlaces
  <2> QED BY <1>1, <1>8, <2>1
<1> HIDE DEF Folds
<1> DEFINE h == [k \in 0..n |-> f[1..k]]
<1>10. h[0] = base /\ AssignFields(rows, evals) = h[n] /\ \A i \in 1..n : h[i] = turn(i, h[i - 1])
  BY <1>1, <1>8, <1>9, 1..0 = {}
<1> HIDE DEF h
<1> QED BY <1>10 DEF n, turn, base

(* A field that is not yet set is aggregated as it was parsed.              *)
LEMMA SameColumn ==
  ASSUME config \in Config, NEW rows \in GoodRows, NEW others \in GoodRows,
         Len(others) = Len(rows), NEW f \in Field, f # "rate",
         \A i \in 1..Len(rows) : others[i][f] = rows[i][f]
  PROVE  AggregateField(f, others) = AggregateField(f, rows)
<1>1. CASE f = "total"
  <2>1. Totals(others) = Totals(rows)
    BY <1>1 DEF Totals
  <2> QED BY <1>1, <2>1, AggregateFacts
<1>2. CASE f = "mean"
  <2>1. Means(others) = Means(rows)
    BY <1>2 DEF Means
  <2> QED BY <1>2, <2>1, AggregateFacts
<1>3. CASE f = "state"
  <2>1. others[Len(rows)].state = rows[Len(rows)].state
    BY <1>3, RowsFacts
  <2> QED BY <1>3, <2>1, AggregateFacts
<1> QED BY <1>1, <1>2, <1>3, FieldFacts

LEMMA FirstLoop ==
  ASSUME config \in Config, NEW rows \in GoodRows
  PROVE  LET new == AssignFields(rows, FALSE)
         IN /\ new \in GoodRows /\ Len(new) = Len(rows)
            /\ \A f \in Field : f # "rate" => new[1][f] = AggregateField(f, rows)
<1> DEFINE fields == config.fields
           n == Len(fields)
           m == Len(rows)
           new == AssignFields(rows, FALSE)
<1>1. /\ n \in Nat /\ (\A i \in 1..n : fields[i] \in Field)
      /\ (\A i, j \in 1..n : fields[i] = fields[j] => i = j)
      /\ (\A f \in Field : \E i \in 1..n : fields[i] = f)
  <2>1. fields \in Seq(Field) /\ IsInjective(fields) /\ ToSet(fields) = Field
    BY ConfigFacts
  <2> HIDE DEF fields
  <2>2. n \in Nat /\ DOMAIN fields = 1..n /\ \A i \in 1..n : fields[i] \in Field
    BY <2>1
  <2>3. Field = {fields[i] : i \in DOMAIN fields}
    BY <2>1 DEF ToSet
  <2> HIDE DEF n
  <2> QED BY <2>1, <2>2, <2>3 DEF IsInjective
<1>2. PICK h : /\ h[0] = rows /\ new = h[n]
               /\ \A i \in 1..n : h[i] = IF (Aggregator[fields[i]] = "eval") <=> FALSE
                                         THEN Assign(h[i - 1], fields[i]) ELSE h[i - 1]
  BY AssignRuns
<1>3. \A i \in 1..n : h[i] = IF fields[i] = "rate" THEN h[i - 1] ELSE Assign(h[i - 1], fields[i])
  BY <1>1, <1>2, FieldFacts
<1>4. m \in Nat /\ m >= 1 /\ 1 \in 1..m
  BY RowsFacts
<1> HIDE DEF new, fields, n, m
<1> DEFINE Settled(k) == h[k] \in GoodRows /\ Len(h[k]) = m /\ \A i \in 2..m : h[k][i] = rows[i]
           Set(k, f) == \E i \in 1..k : fields[i] = f
           Row1(k) == \A f \in Field : f # "rate" =>
                        h[k][1][f] = IF Set(k, f) THEN AggregateField(f, rows) ELSE rows[1][f]
           Good == {k \in Nat : k <= n => Settled(k) /\ Row1(k)}
<1>5. 0 \in Good
  BY <1>2 DEF m
<1>6. ASSUME NEW k \in Nat, k \in Good PROVE k + 1 \in Good
  <2>1. ASSUME k + 1 <= n PROVE Settled(k + 1) /\ Row1(k + 1)
    <3> DEFINE f == fields[k + 1]
    <3>1. k + 1 \in 1..n /\ (k + 1) - 1 = k /\ Settled(k) /\ Row1(k) /\ f \in Field
      BY <1>1, <1>6, <2>1
    <3>2. h[k + 1] = IF f = "rate" THEN h[k] ELSE Assign(h[k], f)
      BY <1>3, <3>1
    <3>3. ~Set(k, f)
      <4>1. \A i \in 1..k : i \in 1..n /\ i # k + 1
        BY <1>1, <2>1
      <4> QED BY <1>1, <3>1, <4>1
    <3>4. \A g : Set(k + 1, g) <=> Set(k, g) \/ g = f
      <4>1. \A i \in 1..k + 1 : i \in 1..k \/ i = k + 1
        OBVIOUS
      <4>2. k + 1 \in 1..k + 1 /\ \A i \in 1..k : i \in 1..k + 1
        OBVIOUS
      <4> QED BY <4>1, <4>2
    <3> HIDE DEF f, Set
    <3>5. CASE f = "rate"
      <4>1. h[k + 1] = h[k]
        BY <3>2, <3>5
      <4>2. \A g \in Field : g # "rate" => (Set(k + 1, g) <=> Set(k, g))
        BY <3>4, <3>5
      <4> QED BY <3>1, <4>1, <4>2
    <3>6. CASE f # "rate"
      <4>1. h[k + 1] = Assign(h[k], f) /\ h[k] \in GoodRows /\ Len(h[k]) = m
        BY <3>1, <3>2, <3>6
      <4>2. /\ Len(h[k + 1]) = Len(h[k])
            /\ \A i \in 2..Len(h[k]) : h[k + 1][i] = h[k][i]
            /\ \A g \in Field : g # f => h[k + 1][1][g] = h[k][1][g]
            /\ h[k + 1][1][f] = AggregateField(f, h[k])
            /\ h[k + 1] \in GoodRows
        <5> DEFINE old == h[k]
        <5>1. old \in GoodRows /\ f \in Field /\ h[k + 1] = Assign(old, f)
          BY <3>1, <4>1
        <5> HIDE DEF old
        <5>2. /\ Len(Assign(old, f)) = Len(old)
              /\ \A i \in 2..Len(old) : Assign(old, f)[i] = old[i]
              /\ \A g \in Field : g # f => Assign(old, f)[1][g] = old[1][g]
              /\ Assign(old, f)[1][f] = AggregateField(f, old)
          BY <5>1, AssignFacts
        <5>3. Assign(old, f) \in GoodRows
          BY <5>1, AssignTyped
        <5> HIDE DEF Settled, Row1
        <5> QED BY <5>1, <5>2, <5>3 DEF old
      <4>3. Settled(k + 1)
        BY <3>1, <4>1, <4>2
      <4>4. AggregateField(f, h[k]) = AggregateField(f, rows)
        <5>1. h[k][1][f] = rows[1][f]
          BY <3>1, <3>3, <3>6
        <5>2. \A i \in 1..m : h[k][i][f] = rows[i][f]
          <6>1. \A i \in 1..m : i = 1 \/ i \in 2..m
            BY <1>4
          <6> QED BY <3>1, <5>1, <6>1
        <5> QED BY <3>1, <3>6, <4>1, <5>2, SameColumn DEF m
      <4>5. ASSUME NEW g \in Field, g # "rate"
            PROVE  h[k + 1][1][g] = IF Set(k + 1, g) THEN AggregateField(g, rows) ELSE rows[1][g]
        <5>1. CASE g = f
          BY <3>4, <4>2, <4>4, <5>1
        <5>2. CASE g # f
          BY <3>1, <3>4, <4>2, <4>5, <5>2
        <5> QED BY <5>1, <5>2
      <4> QED BY <4>3, <4>5
    <3> QED BY <3>5, <3>6
  <2> HIDE DEF Settled, Row1
  <2> QED BY <2>1
<1>7. Settled(n) /\ Row1(n)
  <2> HIDE DEF Settled, Row1
  <2>1. Nat \subseteq Good
    <3> HIDE DEF Good
    <3> QED BY <1>5, <1>6, NatInductionOnSet
  <2> QED BY <1>1, <2>1
<1>8. \A f \in Field : Set(n, f)
  BY <1>1
<1>9. new \in GoodRows /\ Len(new) = m /\ \A f \in Field : f # "rate" => new[1][f] = AggregateField(f, rows)
  BY <1>2, <1>7, <1>8
<1> QED BY <1>9 DEF new, m

LEMMA SecondLoop ==
  ASSUME config \in Config, NEW rows \in GoodRows
  PROVE  LET new == AssignFields(rows, TRUE)
         IN /\ new \in GoodRows /\ Len(new) = Len(rows)
            /\ \A f \in Field : f # "rate" => new[1][f] = rows[1][f]
            /\ new[1].rate = Eval(new[1])
<1> DEFINE fields == config.fields
           n == Len(fields)
           m == Len(rows)
           new == AssignFields(rows, TRUE)
<1>1. /\ n \in Nat /\ (\A i \in 1..n : fields[i] \in Field)
      /\ (\E i \in 1..n : fields[i] = "rate")
  <2>1. fields \in Seq(Field) /\ ToSet(fields) = Field
    BY ConfigFacts
  <2> HIDE DEF fields
  <2>2. n \in Nat /\ DOMAIN fields = 1..n /\ \A i \in 1..n : fields[i] \in Field
    BY <2>1
  <2>3. "rate" \in {fields[i] : i \in DOMAIN fields}
    BY <2>1, FieldFacts DEF ToSet
  <2> HIDE DEF n
  <2> QED BY <2>1, <2>2, <2>3
<1>2. PICK h : /\ h[0] = rows /\ new = h[n]
               /\ \A i \in 1..n : h[i] = IF (Aggregator[fields[i]] = "eval") <=> TRUE
                                         THEN Assign(h[i - 1], fields[i]) ELSE h[i - 1]
  BY AssignRuns
<1>3. \A i \in 1..n : h[i] = IF fields[i] = "rate" THEN Assign(h[i - 1], fields[i]) ELSE h[i - 1]
  BY <1>1, <1>2, FieldFacts
<1> HIDE DEF new, fields, n, m
<1> DEFINE Settled(k) == /\ h[k] \in GoodRows /\ Len(h[k]) = m
                      /\ \A f \in Field : f # "rate" => h[k][1][f] = rows[1][f]
           Set(k) == \E i \in 1..k : fields[i] = "rate"
           Rated(k) == Set(k) => h[k][1].rate = Eval(h[k][1])
           Good == {k \in Nat : k <= n => Settled(k) /\ Rated(k)}
<1>4. 0 \in Good
  BY <1>2 DEF m
<1>5. ASSUME NEW k \in Nat, k \in Good PROVE k + 1 \in Good
  <2>1. ASSUME k + 1 <= n PROVE Settled(k + 1) /\ Rated(k + 1)
    <3> DEFINE f == fields[k + 1]
    <3>1. k + 1 \in 1..n /\ (k + 1) - 1 = k /\ Settled(k) /\ Rated(k) /\ f \in Field
      BY <1>1, <1>5, <2>1
    <3>2. h[k + 1] = IF f = "rate" THEN Assign(h[k], f) ELSE h[k]
      BY <1>3, <3>1
    <3>3. Set(k + 1) <=> Set(k) \/ f = "rate"
      <4>1. \A i \in 1..k + 1 : i \in 1..k \/ i = k + 1
        OBVIOUS
      <4>2. k + 1 \in 1..k + 1 /\ \A i \in 1..k : i \in 1..k + 1
        OBVIOUS
      <4> QED BY <4>1, <4>2
    <3> HIDE DEF f, Set
    <3>4. CASE f # "rate"
      BY <3>1, <3>2, <3>3, <3>4
    <3>5. CASE f = "rate"
      <4>1. h[k + 1] = Assign(h[k], "rate") /\ h[k] \in GoodRows /\ Len(h[k]) = m /\ "rate" \in Field
        BY <3>1, <3>2, <3>5
      <4>2. /\ Len(h[k + 1]) = m /\ h[k + 1] \in GoodRows
            /\ \A g \in Field : g # "rate" => h[k + 1][1][g] = h[k][1][g]
            /\ h[k + 1][1]["rate"] = AggregateField("rate", h[k])
        <5> DEFINE old == h[k]
                   rate == "rate"
        <5>1. old \in GoodRows /\ rate \in Field /\ h[k + 1] = Assign(old, rate) /\ Len(old) = m
          BY <4>1
        <5> HIDE DEF old, rate
        <5>2. /\ Len(Assign(old, rate)) = Len(old)
              /\ \A g \in Field : g # rate => Assign(old, rate)[1][g] = old[1][g]
              /\ Assign(old, rate)[1][rate] = AggregateField(rate, old)
          BY <5>1, AssignFacts
        <5>3. Assign(old, rate) \in GoodRows
          BY <5>1, AssignTyped
        <5> HIDE DEF Settled, Rated
        <5> QED BY <5>1, <5>2, <5>3 DEF old, rate
      <4>3. h[k + 1][1].total = h[k][1].total /\ h[k + 1][1].state = h[k][1].state
        BY <4>2, FieldFacts
      <4>4. Eval(h[k + 1][1]) = Eval(h[k][1])
        BY <4>3 DEF Eval
      <4>5. h[k + 1][1].rate = Eval(h[k + 1][1])
        BY <4>1, <4>2, <4>4, AggregateFacts
      <4> QED BY <3>1, <4>2, <4>5
    <3> QED BY <3>4, <3>5
  <2> HIDE DEF Settled, Rated
  <2> QED BY <2>1
<1>6. Settled(n) /\ Rated(n)
  <2> HIDE DEF Settled, Rated
  <2>1. Nat \subseteq Good
    <3> HIDE DEF Good
    <3> QED BY <1>4, <1>5, NatInductionOnSet
  <2> QED BY <1>1, <2>1
<1>7. /\ new \in GoodRows /\ Len(new) = m /\ (\A f \in Field : f # "rate" => new[1][f] = rows[1][f])
      /\ new[1].rate = Eval(new[1])
  BY <1>1, <1>2, <1>6
<1> QED BY <1>7 DEF new, m

(* The aggregate of a group of lines.                                       *)
LEMMA AggregateMessageFacts ==
  ASSUME config \in Config, NEW message, message.data \in GoodRows
  PROVE  LET e == AggregateMessage(message)
         IN /\ e.ts = message.ts /\ e.messages = Len(message.data) /\ e.main \in GoodRow
            /\ e.main.total = Sum(Totals(message.data))
            /\ e.main.mean = <<Sum(Means(message.data)), Len(message.data)>>
            /\ e.main.state = message.data[Len(message.data)].state
            /\ e.main.rate = Eval(e.main)
            /\ e = [ts |-> message.ts, main |-> e.main, messages |-> Len(message.data)]
<1> DEFINE rows == message.data
           first == AssignFields(rows, FALSE)
           second == AssignFields(first, TRUE)
           e == AggregateMessage(message)
<1>1. /\ first \in GoodRows /\ Len(first) = Len(rows)
      /\ \A f \in Field : f # "rate" => first[1][f] = AggregateField(f, rows)
  BY FirstLoop
<1>2. e = [ts |-> message.ts, main |-> second[1], messages |-> Len(second)]
  BY DEF AggregateMessage
<1> HIDE DEF first
<1>3. /\ second \in GoodRows /\ Len(second) = Len(first)
      /\ \A f \in Field : f # "rate" => second[1][f] = first[1][f]
      /\ second[1].rate = Eval(second[1])
  BY <1>1, SecondLoop
<1> HIDE DEF second, e, rows
<1>4. /\ second[1].total = AggregateField("total", rows)
      /\ second[1].mean = AggregateField("mean", rows)
      /\ second[1].state = AggregateField("state", rows)
  <2>1. "total" \in Field /\ "mean" \in Field /\ "state" \in Field
    BY FieldFacts
  <2>2. second[1]["total"] = first[1]["total"] /\ first[1]["total"] = AggregateField("total", rows)
    BY <1>1, <1>3, <2>1
  <2>3. second[1]["mean"] = first[1]["mean"] /\ first[1]["mean"] = AggregateField("mean", rows)
    BY <1>1, <1>3, <2>1
  <2>4. second[1]["state"] = first[1]["state"] /\ first[1]["state"] = AggregateField("state", rows)
    BY <1>1, <1>3, <2>1
  <2> QED BY <2>2, <2>3, <2>4
<1>5. /\ second[1].total = Sum(Totals(rows)) /\ second[1].mean = <<Sum(Means(rows)), Len(rows)>>
      /\ second[1].state = rows[Len(rows)].state
  BY <1>4, AggregateFacts DEF rows
<1>6. second[1] \in GoodRow
  <2>1. second \in Seq(GoodRow) /\ 1 \in 1..Len(second)
    BY <1>3, RowsFacts
  <2> QED BY <2>1
<1>7. e.ts = message.ts /\ e.main = second[1] /\ e.messages = Len(rows)
  BY <1>1, <1>2, <1>3
<1>8. e = [ts |-> message.ts, main |-> e.main, messages |-> Len(rows)]
  BY <1>1, <1>2, <1>3, <1>7
<1> QED BY <1>3, <1>5, <1>6, <1>7, <1>8 DEF e, rows

-----------------------------------------------------------------------------
(* The lines of a batch that are kept.                                      *)

(* Numbers of lines of this batch that are kept.                            *)
KeptNumbers(lines) ==
  {n \in Nat : \E j \in 1..Len(lines) : Kept(lines[j]) /\ n = next + j - 1}

LEMMA KeptFacts ==
  ASSUME next \in Nat, NEW lines, Len(lines) \in Nat
  PROVE  KeptOf(lines) \in Seq(KeptNumbers(lines))
<1> DEFINE n == Len(lines)
           list == [i \in 1..Len(lines) |-> next + i - 1]
           A == Seq(KeptNumbers(lines))
           base == <<>>
           more(i, a) == IF Kept(lines[list[i] + 1 - next]) THEN Append(a, list[i]) ELSE a
           step == [p \in (1..n) \X A |-> more(p[1], p[2])]
           Folds(g) == g = [D \in SUBSET (DOMAIN list) |->
                              IF D = {} THEN base ELSE more(Max(D), g[D \ {Max(D)}])]
<1>1. n \in Nat /\ DOMAIN list = 1..n /\ base \in A
  OBVIOUS
<1>2. KeptOf(lines) = (CHOOSE g : Folds(g))[1..n]
  BY <1>1 DEF KeptOf, FoldLeft, MapThenFoldSet
<1>3. ASSUME NEW i \in 1..n, NEW a \in A PROVE more(i, a) \in A
  <2>1. list[i] = next + i - 1 /\ list[i] + 1 - next = i /\ list[i] \in Nat
    BY <1>1
  <2>2. CASE Kept(lines[i])
    <3>1. list[i] \in KeptNumbers(lines)
      BY <2>1, <2>2 DEF KeptNumbers
    <3> HIDE DEF list
    <3> QED BY <2>1, <3>1
  <2>3. CASE ~Kept(lines[i])
    <3> HIDE DEF list
    <3> QED BY <2>1, <2>3
  <2> HIDE DEF list, A
  <2> QED BY <2>1, <2>2, <2>3
<1> HIDE DEF A, more, base, n, list
<1>4. step \in Steps(n, A) /\ \A i \in 1..n : \A a \in A : step[<<i, a>>] = more(i, a)
  BY <1>3 DEF Steps
<1> HIDE DEF step
<1>5. PICK g \in [SUBSET (1..n) -> A] : Folding(n, base, step, g)
  BY <1>1, <1>4, FoldingExists
<1>6. \A D \in SUBSET (1..n) : g[D] = IF D = {} THEN base ELSE more(Max(D), g[D \ {Max(D)}])
  <2>1. ASSUME NEW D \in SUBSET (1..n), D # {} PROVE Max(D) \in 1..n /\ g[D \ {Max(D)}] \in A
    BY <1>1, <2>1, LastPlace
  <2> QED BY <1>4, <1>5, <2>1 DEF Folding
<1>7. Folds(g)
  BY <1>1, <1>6
<1>8. PICK f : Folds(f) /\ KeptOf(lines) = f[1..n]
  <2> HIDE DEF Folds
  <2> QED BY <1>2, <1>7
<1>9. /\ f[{}] = base
      /\ \A k \in 1..n : f[1..k] = more(k, f[1..k - 1])
  <2>1. \A k \in 1..n : /\ 1..k \in SUBSET (1..n) /\ 1..k # {} /\ Max(1..k) = k
                        /\ (1..k) \ {Max(1..k)} = 1..k - 1
    BY <1>1, FirstPlaces
  <2> QED BY <1>1, <1>8, <2>1
<1> HIDE DEF Folds
<1> DEFINE h == [k \in 0..n |-> f[1..k]]
<1>10. h[0] = base /\ KeptOf(lines) = h[n] /\ \A i \in 1..n : h[i] = more(i, h[i - 1])
  BY <1>1, <1>8, <1>9, 1..0 = {}
<1> HIDE DEF h
<1>11. \A i \in 1..n : h[i - 1] \in A => h[i] \in A
  BY <1>3, <1>10
<1>12. \A i \in 0..n : h[i] \in A
  BY <1>1, <1>10, <1>11, RunTyped
<1>13. KeptOf(lines) \in A
  BY <1>1, <1>10, <1>12
<1> QED BY <1>13 DEF A

(* What a line that is kept becomes.                                        *)
LEMMA RowOfFacts ==
  ASSUME config \in Config, NEW n \in Nat
  PROVE  /\ RowOf(n).total = n /\ RowOf(n).mean = <<n, 1>> /\ RowOf(n).state = n % 3
         /\ RowOf(n).rate = Eval(RowOf(n))
         /\ Divisible(RowOf(n)) => RowOf(n) \in GoodRow
         /\ Divisible(RowOf(n)) <=> ~EvalRaises(FieldsOf(n))
<1> DEFINE row == RowOf(n)
           fields == FieldsOf(n)
<1>1. row = [total |-> n, mean |-> <<n, 1>>, state |-> n % 3, rate |-> Eval(fields)]
  BY DEF RowOf, FieldsOf
<1>2. fields.total = n /\ fields.state = n % 3
  BY DEF FieldsOf
<1>3. n % 3 \in Nat
  OBVIOUS
<1>4. row.total = n /\ row.mean = <<n, 1>> /\ row.state = n % 3 /\ row.rate = Eval(fields)
  BY <1>1
<1>5. Eval(fields) = Eval(row)
  <2> HIDE DEF row, fields
  <2> QED BY <1>2, <1>4 DEF Eval
<1>6. ASSUME Divisible(row) PROVE row \in GoodRow
  <2>1. Eval(row) \in Nat
    <3> HIDE DEF row, fields
    <3> QED BY <1>3, <1>4, <1>6, EvalTyped
  <2>2. Eval(fields) \in Nat /\ <<n, 1>> \in Nat \X (Nat \ {0})
    BY <1>5, <2>1
  <2>3. row \in Row
    <3> HIDE DEF fields
    <3> QED BY <1>1, <1>3, <2>2 DEF Row
  <2> QED BY <1>6, <2>3 DEF GoodRow
<1>7. Divisible(row) <=> ~EvalRaises(fields)
  <2> HIDE DEF row, fields
  <2> QED BY <1>2, <1>4 DEF Divisible, EvalRaises
<1> HIDE DEF row, fields
<1> QED BY <1>4, <1>5, <1>6, <1>7 DEF row, fields

(* Every number of a line that is kept has a row.                           *)
LEMMA ParsedLines ==
  ASSUME config \in Config, next \in Nat, NEW lines, Len(lines) \in Nat,
         \A i \in 1..Len(lines) : ~ParseRaises(lines[i], next + i - 1)
  PROVE  /\ \A n \in KeptNumbers(lines) : n \in Nat /\ Divisible(RowOf(n))
         /\ config.type = "interval" => KeptNumbers(lines) = {}
<1>1. ASSUME NEW n \in KeptNumbers(lines)
      PROVE  n \in Nat /\ Divisible(RowOf(n)) /\ config.type # "interval"
  <2>1. n \in Nat
    BY DEF KeptNumbers
  <2>2. PICK j \in 1..Len(lines) : Kept(lines[j]) /\ n = next + j - 1
    BY DEF KeptNumbers
  <2>3. ~ParseRaises(lines[j], n) /\ Matches(lines[j])
    BY <2>2 DEF Kept
  <2> QED BY <2>1, <2>3, RowOfFacts DEF ParseRaises
<1> QED BY <1>1

-----------------------------------------------------------------------------
(* Groups of lines.                                                         *)
GroupOf(lines, width, k) == SubSeq(lines, (k - 1) * width + 1, k * width)

(* What an emission says of its lines.                                      *)
Says(e, lines, width) ==
  /\ e.messages = width /\ e.ts = lines[1]
  /\ e.main.total = Sum(lines) /\ e.main.mean = <<Sum(lines), width>>
  /\ e.main.state = Last(lines) % 3

LEMMA Products ==
  ASSUME NEW k \in Nat, NEW l \in Nat, NEW w \in Nat
  PROVE  /\ k * w \in Nat /\ (k + 1) * w = k * w + w /\ (k + l) * w = k * w + l * w
         /\ k <= l => k * w <= l * w
<1>1. k * w \in Nat /\ (k + 1) * w = k * w + w /\ (k + l) * w = k * w + l * w
  OBVIOUS
<1>2. ASSUME k <= l PROVE k * w <= l * w
  <2> DEFINE d == l - k
  <2>1. d \in Nat /\ l = k + d
    BY <1>2
  <2> HIDE DEF d
  <2>2. l * w = k * w + d * w /\ d * w \in Nat /\ k * w \in Nat
    BY <2>1
  <2> QED BY <2>2
<1> QED BY <1>1, <1>2

LEMMA Concat ==
  ASSUME NEW T, NEW s \in Seq(T), NEW t \in Seq(T)
  PROVE  /\ s \o t \in Seq(T) /\ Len(s \o t) = Len(s) + Len(t)
         /\ Len(s) \in Nat /\ Len(t) \in Nat
         /\ \A i \in 1..Len(s) : (s \o t)[i] = s[i]
         /\ \A i \in 1..Len(t) : (s \o t)[Len(s) + i] = t[i]
         /\ \A i \in 1..Len(s \o t) :
              i \in 1..Len(s) \/ (i - Len(s) \in 1..Len(t) /\ (s \o t)[i] = t[i - Len(s)])
OBVIOUS

LEMMA Rest ==
  ASSUME NEW T, NEW s \in Seq(T), NEW k \in Nat, k <= Len(s)
  PROVE  /\ SubSeq(s, k + 1, Len(s)) \in Seq(T) /\ Len(SubSeq(s, k + 1, Len(s))) = Len(s) - k
         /\ \A i \in 1..Len(SubSeq(s, k + 1, Len(s))) : SubSeq(s, k + 1, Len(s))[i] = s[i + k]
<1>1. Len(s) \in Nat
  OBVIOUS
<1> QED BY <1>1

LEMMA OneOf ==
  ASSUME NEW list \in Seq(Nat), NEW k \in 1..Len(list)
  PROVE  SubSeq(list, k, k) = <<list[k]>>
<1> DEFINE one == SubSeq(list, k, k)
<1>1. Len(list) \in Nat /\ k \in Nat /\ list[k] \in Nat
  OBVIOUS
<1>2. one \in Seq(Nat) /\ Len(one) = 1 /\ one[1] = list[k]
  BY <1>1
<1> HIDE DEF one
<1>3. one = <<list[k]>>
  BY <1>1, <1>2
<1> QED BY <1>3 DEF one

LEMMA GroupOfFacts ==
  ASSUME NEW lines \in Seq(Nat), NEW w \in Nat, w # 0, NEW k \in Nat, (k + 1) * w <= Len(lines)
  PROVE  /\ GroupOf(lines, w, k + 1) \in Seq(Nat) /\ Len(GroupOf(lines, w, k + 1)) = w
         /\ \A i \in 1..w : GroupOf(lines, w, k + 1)[i] = lines[k * w + i]
         /\ \A i \in 1..w : k * w + i \in 1..Len(lines)
         /\ Last(GroupOf(lines, w, k + 1)) = lines[k * w + w]
<1> DEFINE a == k * w
           b == (k + 1) * w
           group == SubSeq(lines, a + 1, b)
<1>1. a \in Nat /\ b \in Nat /\ b = a + w /\ b <= Len(lines) /\ Len(lines) \in Nat
  BY Products
<1>2. GroupOf(lines, w, k + 1) = group
  <2>1. (k + 1) - 1 = k
    OBVIOUS
  <2> QED BY <2>1 DEF GroupOf
<1> HIDE DEF a, b
<1>3. /\ group \in Seq(Nat) /\ Len(group) = w
      /\ \A i \in 1..w : group[i] = lines[a + i]
      /\ \A i \in 1..w : a + i \in 1..Len(lines)
  BY <1>1
<1> HIDE DEF group
<1>4. Last(group) = group[w] /\ w \in 1..w
  BY <1>3 DEF Last
<1> QED BY <1>2, <1>3, <1>4 DEF a

LEMMA GroupStays ==
  ASSUME NEW lines \in Seq(Nat), NEW more \in Seq(Nat), NEW w \in Nat, w # 0,
         NEW k \in Nat, (k + 1) * w <= Len(lines)
  PROVE  GroupOf(lines \o more, w, k + 1) = GroupOf(lines, w, k + 1)
<1> DEFINE all == lines \o more
           old == GroupOf(lines, w, k + 1)
           new == GroupOf(all, w, k + 1)
<1>1. /\ all \in Seq(Nat) /\ Len(all) = Len(lines) + Len(more) /\ Len(lines) \in Nat /\ Len(more) \in Nat
      /\ \A i \in 1..Len(lines) : all[i] = lines[i]
  BY Concat
<1>2. (k + 1) * w <= Len(all)
  BY <1>1, Products
<1> HIDE DEF all
<1>3. /\ old \in Seq(Nat) /\ Len(old) = w /\ \A i \in 1..w : old[i] = lines[k * w + i]
      /\ \A i \in 1..w : k * w + i \in 1..Len(lines)
  BY GroupOfFacts
<1>4. new \in Seq(Nat) /\ Len(new) = w /\ \A i \in 1..w : new[i] = all[k * w + i]
  BY <1>1, <1>2, GroupOfFacts
<1> HIDE DEF old, new
<1>5. \A i \in 1..Len(old) : new[i] = old[i]
  BY <1>1, <1>3, <1>4
<1>6. new = old
  BY <1>3, <1>4, <1>5
<1> QED BY <1>6 DEF new, old, all

-----------------------------------------------------------------------------
(* The steps.                                                               *)

LEMMA StateFacts ==
  ASSUME TypeOK
  PROVE  /\ config \in Config /\ next \in Nat /\ next \in 1..MaxLine + 1 /\ MaxLine \in Nat
         /\ parsed \in Seq(Nat) /\ Len(parsed) \in Nat /\ stack \in Seq(Message) /\ Len(stack) \in Nat
         /\ rv \in Seq(Emission) /\ emitted \in Seq(Emission)
         /\ All \in Seq(Emission) /\ Len(All) = Len(emitted) + Len(rv) /\ Len(All) \in Nat
         /\ Len(emitted) \in Nat /\ \A k \in 1..Len(emitted) : All[k] = emitted[k]
         /\ pc \in {"idle", "looping", "dead"}
<1>1. /\ config \in Config /\ next \in 1..MaxLine + 1 /\ parsed \in Seq(Nat)
      /\ stack \in Seq(Message) /\ rv \in Seq(Emission) /\ emitted \in Seq(Emission)
      /\ pc \in {"idle", "looping", "dead"}
  BY DEF TypeOK
<1>2. MaxLine \in Nat /\ next \in Nat
  BY <1>1, LogParseAssumption
<1>3. Len(parsed) \in Nat /\ Len(stack) \in Nat
  <2> HIDE DEF Message
  <2> QED BY <1>1
<1>4. /\ All \in Seq(Emission) /\ Len(All) = Len(emitted) + Len(rv) /\ Len(All) \in Nat
      /\ Len(emitted) \in Nat /\ \A k \in 1..Len(emitted) : All[k] = emitted[k]
  <2> HIDE DEF Emission
  <2>1. /\ emitted \o rv \in Seq(Emission) /\ Len(emitted \o rv) = Len(emitted) + Len(rv)
        /\ Len(emitted) \in Nat /\ Len(rv) \in Nat
        /\ \A k \in 1..Len(emitted) : (emitted \o rv)[k] = emitted[k]
    BY <1>1, Concat
  <2> QED BY <2>1 DEF All
<1> QED BY <1>1, <1>2, <1>3, <1>4

(* What all emissions say, and what the stack holds.                        *)
AllSay == \A k \in 1..Len(All) : Says(All[k], GroupOf(parsed, Width, k), Width)

Stacked ==
  /\ Len(All) * Width + Len(stack) = Len(parsed)
  /\ \A i \in 1..Len(stack) : stack[i] = MessageOf(parsed[Len(All) * Width + i])

LEMMA NothingLostIs == NothingLost <=> AllSay /\ (pc # "dead" => Stacked)
                                              /\ (pc = "idle" => rv = <<>> /\ Len(stack) < Width)
BY DEF NothingLost, AllSay, Stacked, Says, All, Group, GroupOf

LEMMA SameRows ==
  ASSUME config' = config
  PROVE  /\ Width' = Width
         /\ \A row : Eval(row)' = Eval(row) /\ (Divisible(row)' <=> Divisible(row))
         /\ \A n : RowOf(n)' = RowOf(n) /\ MessageOf(n)' = MessageOf(n)
<1>1. \A row : Eval(row)' = Eval(row)
  BY DEF Eval
<1>2. \A n : FieldsOf(n)' = FieldsOf(n)
  BY DEF FieldsOf
<1>3. \A n : RowOf(n)' = RowOf(n)
  BY <1>1, <1>2 DEF RowOf
<1>4. \A n : MessageOf(n)' = MessageOf(n)
  BY <1>3 DEF MessageOf
<1>5. Width' = Width
  BY DEF Width
<1>6. \A row : Divisible(row)' <=> Divisible(row)
  BY DEF Divisible
<1> QED BY <1>1, <1>3, <1>4, <1>5, <1>6

(* More lines and more emissions.                                           *)
LEMMA MoreEmissions ==
  ASSUME TypeOK, AllSay, EvalsAgree, Covered, Parsable, config' = config,
         NEW more \in Seq(Nat), parsed' = parsed \o more,
         \A i \in 1..Len(more) : Divisible(RowOf(more[i])),
         NEW new \in Seq(Emission), All' = All \o new,
         (Len(All) + Len(new)) * Width <= Len(parsed'),
         \A j \in 1..Len(new) : /\ Says(new[j], GroupOf(parsed', Width, Len(All) + j), Width)
                                /\ new[j].main.rate = Eval(new[j].main)
  PROVE  AllSay' /\ EvalsAgree' /\ Covered' /\ Parsable' /\ Len(All') = Len(All) + Len(new)
<1> DEFINE w == Width
           n == Len(All)
<1>1. /\ w \in Nat /\ w # 0 /\ w' = w /\ n \in Nat /\ parsed \in Seq(Nat) /\ All \in Seq(Emission)
      /\ n * w <= Len(parsed) /\ Len(parsed) \in Nat
  BY StateFacts, ConfigFacts, SameRows DEF Covered
<1>2. /\ Len(All') = n + Len(new) /\ Len(new) \in Nat
      /\ \A k \in 1..n : All'[k] = All[k]
      /\ \A k \in 1..Len(All') : k \in 1..n \/ (k - n \in 1..Len(new) /\ All'[k] = new[k - n])
  <2> HIDE DEF Emission
  <2> QED BY <1>1, Concat
<1> HIDE DEF w, n
<1>3. ASSUME NEW k \in 1..Len(All')
      PROVE  Says(All'[k], GroupOf(parsed', w, k), w) /\ All'[k].main.rate = Eval(All'[k].main)
  <2>1. CASE k \in 1..n
    <3>1. Says(All[k], GroupOf(parsed, w, k), w) /\ All[k].main.rate = Eval(All[k].main)
      BY <2>1 DEF AllSay, EvalsAgree, n, w
    <3>2. k - 1 \in Nat /\ (k - 1) + 1 = k /\ k \in Nat /\ k <= n
      BY <1>1, <2>1
    <3>3. k * w <= n * w /\ k * w \in Nat /\ n * w \in Nat
      BY <1>1, <3>2, Products
    <3>4. k * w <= Len(parsed)
      <4> DEFINE kw == k * w
                 nw == n * w
      <4>1. kw <= nw /\ kw \in Nat /\ nw \in Nat /\ nw <= Len(parsed) /\ Len(parsed) \in Nat
        BY <1>1, <3>3
      <4> HIDE DEF kw, nw
      <4>2. kw <= Len(parsed)
        BY <4>1
      <4> QED BY <4>2 DEF kw
    <3>5. GroupOf(parsed', w, k) = GroupOf(parsed, w, k)
      <4> DEFINE l == k - 1
      <4>1. l \in Nat /\ l + 1 = k /\ (l + 1) * w <= Len(parsed)
        BY <3>2, <3>4
      <4> HIDE DEF l
      <4>2. GroupOf(parsed \o more, w, l + 1) = GroupOf(parsed, w, l + 1)
        BY <1>1, <4>1, GroupStays
      <4> QED BY <4>1, <4>2
    <3> QED BY <1>2, <2>1, <3>1, <3>5
  <2>2. CASE k - n \in 1..Len(new) /\ All'[k] = new[k - n]
    <3>1. n + (k - n) = k
      BY <1>1
    <3>2. /\ Says(new[k - n], GroupOf(parsed', w, n + (k - n)), w)
          /\ new[k - n].main.rate = Eval(new[k - n].main)
      BY <2>2 DEF n, w
    <3> QED BY <2>2, <3>1, <3>2
  <2> QED BY <1>2, <2>1, <2>2
<1>4. AllSay'
  BY <1>1, <1>3 DEF AllSay, w
<1>5. EvalsAgree'
  BY <1>3, SameRows DEF EvalsAgree
<1>6. Covered'
  BY <1>1, <1>2 DEF Covered, w, n
<1>7. Parsable'
  <2>1. /\ \A i \in 1..Len(parsed') : i \in 1..Len(parsed)
                                     \/ (i - Len(parsed) \in 1..Len(more) /\ parsed'[i] = more[i - Len(parsed)])
        /\ \A i \in 1..Len(parsed) : parsed'[i] = parsed[i]
    BY <1>1, Concat
  <2>2. ASSUME config.eval = "ratio", NEW i \in 1..Len(parsed') PROVE parsed'[i] % 3 # 0
    <3>1. CASE i \in 1..Len(parsed)
      BY <2>1, <2>2, <3>1 DEF Parsable
    <3>2. CASE i - Len(parsed) \in 1..Len(more) /\ parsed'[i] = more[i - Len(parsed)]
      <4> DEFINE k == more[i - Len(parsed)]
      <4>1. k \in Nat /\ Divisible(RowOf(k))
        BY <3>2
      <4> HIDE DEF k
      <4>2. k % 3 # 0
        BY <2>2, <4>1, StateFacts, RowOfFacts DEF Divisible
      <4> QED BY <3>2, <4>2 DEF k
    <3> QED BY <2>1, <3>1, <3>2
  <2> QED BY <2>2 DEF Parsable
<1> QED BY <1>2, <1>4, <1>5, <1>6, <1>7 DEF n

(* The emission of a line on its own, and its message.                      *)
LEMMA PlainFacts ==
  ASSUME config \in Config, NEW n \in Nat, Divisible(RowOf(n))
  PROVE  /\ MessageOf(n) \in Message /\ Plain(MessageOf(n)) \in Emission
         /\ MessageOf(n).ts = n /\ MessageOf(n).data = <<RowOf(n)>>
         /\ Says(Plain(MessageOf(n)), <<n>>, 1)
         /\ Plain(MessageOf(n)).main.rate = Eval(Plain(MessageOf(n)).main)
<1> DEFINE row == RowOf(n)
           message == MessageOf(n)
           e == Plain(message)
<1>1. /\ row \in Row /\ row.total = n /\ row.mean = <<n, 1>> /\ row.state = n % 3
      /\ row.rate = Eval(row)
  BY RowOfFacts DEF GoodRow
<1>2. message = [ts |-> n, data |-> <<row>>]
  BY DEF MessageOf
<1> HIDE DEF row
<1>3. <<row>> \in Seq(Row) /\ <<row>>[1] = row
  BY <1>1
<1>4. message \in Message
  BY <1>2, <1>3 DEF Message
<1>5. message.ts = n /\ message.data = <<row>>
  BY <1>2
<1> HIDE DEF message
<1>6. e = [ts |-> n, main |-> row, messages |-> 1]
  BY <1>3, <1>5 DEF Plain
<1>7. e \in Emission
  BY <1>1, <1>6 DEF Emission
<1>8. e.ts = n /\ e.main = row /\ e.messages = 1
  BY <1>6
<1> HIDE DEF e
<1>9. Says(e, <<n>>, 1)
  <2> DEFINE one == <<n>>
  <2>1. one[1] = n /\ Len(one) = 1 /\ Sum(one) = n
    BY SumOfOne
  <2> HIDE DEF one
  <2>2. Last(one) = n
    BY <2>1 DEF Last
  <2>3. Says(e, one, 1)
    BY <1>1, <1>8, <2>1, <2>2 DEF Says
  <2> QED BY <2>3 DEF one
<1> QED BY <1>1, <1>4, <1>5, <1>7, <1>8, <1>9 DEF row, message, e

LEMMA InitInv == Init => Inv
<1> SUFFICES ASSUME Init PROVE Inv
  OBVIOUS
<1>1. /\ config \in Config /\ next = 1 /\ parsed = <<>> /\ stack = <<>> /\ pc = "idle"
      /\ rv = <<>> /\ emitted = <<>>
  BY DEF Init
<1>2. TypeOK
  BY <1>1, LogParseAssumption DEF TypeOK
<1>3. Len(All) = 0 /\ Len(parsed) = 0 /\ Len(stack) = 0 /\ Width \in Nat /\ Width # 0
  BY <1>1, <1>2, StateFacts, ConfigFacts
<1>4. Stacked
  BY <1>3 DEF Stacked
<1>5. AllSay /\ EvalsAgree /\ Covered
  BY <1>3 DEF AllSay, EvalsAgree, Covered
<1>6. Parsable /\ Modes /\ DiesOnlyForCause
  BY <1>1, <1>3 DEF Parsable, Modes, DiesOnlyForCause
<1>7. NothingLost
  BY <1>1, <1>3, <1>4, <1>5, NothingLostIs
<1> QED BY <1>2, <1>5, <1>6, <1>7 DEF Inv, Batches

(* probe() up to the loop of aggregate(): an exception, messages as they    *)
(* are, and messages on the stack.                                          *)
LEMMA ProbeDies ==
  ASSUME Inv, pc = "idle", UNCHANGED <<config, rv, parsed, stack, emitted>>, pc' = "dead",
         next' \in 1..MaxLine + 1, NEW line \in Line, NEW n, ParseRaises(line, n)
  PROVE  Inv'
<1>1. TypeOK /\ NothingLost /\ DiesOnlyForCause /\ EvalsAgree /\ Covered /\ Modes /\ Parsable
  BY DEF Inv, Batches
<1>2. TypeOK'
  BY <1>1 DEF TypeOK
<1>3. NothingLost'
  BY <1>1 DEF NothingLost, Width, Group
<1>4. DiesOnlyForCause'
  <2>1. line \in {"no_group", "undecodable"} => line \in config.odd
    BY DEF Line
  <2>2. config.odd # {} \/ config.type = "interval" \/ config.eval = "ratio"
    BY <2>1 DEF ParseRaises, EvalRaises
  <2> QED BY <1>1, <2>2 DEF DiesOnlyForCause
<1>5. EvalsAgree' /\ Covered' /\ Modes' /\ Parsable'
  BY <1>1 DEF EvalsAgree, Covered, Modes, Parsable, All, Width, Eval
<1> QED BY <1>2, <1>3, <1>4, <1>5 DEF Inv, Batches

LEMMA ProbePlain ==
  ASSUME Inv, pc = "idle", config.count = 0, UNCHANGED <<config, rv, stack, pc>>,
         next' \in 1..MaxLine + 1,
         NEW kept \in Seq(Nat), \A i \in 1..Len(kept) : Divisible(RowOf(kept[i])),
         config.type = "interval" => kept = <<>>,
         parsed' = parsed \o kept,
         emitted' = emitted \o [i \in 1..Len(kept) |-> Plain(MessageOf(kept[i]))]
  PROVE  Inv'
<1> DEFINE new == [i \in 1..Len(kept) |-> Plain(MessageOf(kept[i]))]
           n == Len(kept)
           all == Len(All)
<1>1. TypeOK /\ NothingLost /\ DiesOnlyForCause /\ EvalsAgree /\ Covered /\ Modes /\ Parsable
  BY DEF Inv, Batches
<1>2. AllSay /\ Stacked /\ rv = <<>> /\ rv' = <<>> /\ stack = <<>> /\ stack' = <<>> /\ config' = config
  BY <1>1, NothingLostIs DEF Modes
<1>3. config \in Config /\ parsed \in Seq(Nat) /\ emitted \in Seq(Emission)
      /\ all \in Nat /\ Len(parsed) \in Nat /\ Width = 1 /\ Width' = 1
  BY <1>1, <1>2, StateFacts, SameRows DEF Width
<1>4. n \in Nat /\ \A i \in 1..n : kept[i] \in Nat
  OBVIOUS
<1>5. /\ new \in Seq(Emission) /\ Len(new) = n
      /\ \A i \in 1..n : new[i] = Plain(MessageOf(kept[i]))
  <2>1. \A i \in 1..n : Plain(MessageOf(kept[i])) \in Emission
    BY <1>3, <1>4, PlainFacts
  <2> HIDE DEF Emission
  <2> QED BY <1>4, <2>1
<1> HIDE DEF new, n, all
<1>6. emitted' = emitted \o new /\ emitted' \in Seq(Emission)
  <2>1. emitted' = emitted \o new
    BY DEF new
  <2> HIDE DEF Emission
  <2>2. emitted \in Seq(Emission) /\ new \in Seq(Emission)
    BY <1>3, <1>5
  <2>3. emitted \o new \in Seq(Emission)
    BY <2>2
  <2> QED BY <2>1, <2>3
<1>7. All = emitted /\ All' = All \o new
  <2> HIDE DEF Emission
  <2>1. emitted \o <<>> = emitted /\ emitted' \o <<>> = emitted'
    BY <1>3, <1>6
  <2> QED BY <1>2, <1>6, <2>1 DEF All
<1>8. all = Len(parsed) /\ Len(stack) = 0
  <2>1. all * 1 + 0 = Len(parsed)
    BY <1>2, <1>3 DEF Stacked, all
  <2> QED BY <1>2, <1>3, <2>1
<1>9. /\ parsed' \in Seq(Nat) /\ Len(parsed') = all + n
      /\ \A j \in 1..n : parsed'[all + j] = kept[j] /\ all + j \in 1..Len(parsed')
  <2>1. /\ parsed \o kept \in Seq(Nat) /\ Len(parsed \o kept) = Len(parsed) + n
        /\ \A j \in 1..n : (parsed \o kept)[Len(parsed) + j] = kept[j]
    BY <1>3, Concat DEF n
  <2>2. \A j \in 1..n : all + j \in 1..all + n
    BY <1>3, <1>4
  <2> QED BY <1>8, <2>1, <2>2
<1>10. ASSUME NEW j \in 1..n
       PROVE  /\ Says(new[j], GroupOf(parsed', Width, all + j), Width)
              /\ new[j].main.rate = Eval(new[j].main)
  <2> DEFINE k == all + j
             number == kept[j]
             group == GroupOf(parsed', 1, k)
  <2>1. k \in 1..Len(parsed') /\ parsed'[k] = number /\ number \in Nat
    BY <1>4, <1>9
  <2> HIDE DEF k
  <2>2. group = <<number>>
    <3>1. (k - 1) * 1 + 1 = k /\ k * 1 = k
      BY <1>9, <2>1
    <3>2. group = SubSeq(parsed', k, k)
      BY <3>1 DEF GroupOf
    <3> HIDE DEF group, number
    <3>3. parsed' \in Seq(Nat) /\ k \in 1..Len(parsed') /\ parsed'[k] = number
      BY <1>9, <2>1
    <3> HIDE DEF group, number
    <3>4. SubSeq(parsed', k, k) = <<parsed'[k]>>
      BY <3>3, OneOf
    <3> QED BY <3>2, <3>3, <3>4
  <2>3. Divisible(RowOf(number)) /\ new[j] = Plain(MessageOf(number))
    BY <1>5 DEF n
  <2> HIDE DEF number, group
  <2>4. Says(new[j], <<number>>, 1) /\ new[j].main.rate = Eval(new[j].main)
    BY <1>3, <2>1, <2>3, PlainFacts
  <2> QED BY <1>3, <2>2, <2>4 DEF group, k
<1>11. (all + n) * Width <= Len(parsed')
  <2>1. (all + n) * 1 = all + n
    BY <1>3, <1>4
  <2> QED BY <1>3, <1>4, <1>9, <2>1
<1>12. AllSay' /\ EvalsAgree' /\ Covered' /\ Parsable' /\ Len(All') = all + n
  BY <1>1, <1>2, <1>4, <1>5, <1>7, <1>10, <1>11, MoreEmissions DEF all, n
<1>13. TypeOK'
  BY <1>1, <1>6, <1>9 DEF TypeOK
<1>14. Stacked'
  <2>1. Len(stack') = 0
    BY <1>2
  <2>2. (all + n) * 1 + 0 = Len(parsed')
    BY <1>3, <1>4, <1>9
  <2> QED BY <1>3, <1>12, <2>1, <2>2 DEF Stacked
<1>15. NothingLost'
  <2>1. Len(stack') < Width' /\ rv' = <<>>
    BY <1>2, <1>3
  <2>2. AllSay' /\ Stacked'
    BY <1>12, <1>14
  <2> QED BY <2>1, <2>2, ZenonT(40) DEF NothingLost, AllSay, Stacked, Says, All, Group, GroupOf
<1>16. Modes'
  <2>1. Len(stack') < Width'
    BY <1>2, <1>3
  <2> QED BY <1>1, <1>2, <2>1 DEF Modes
<1>17. DiesOnlyForCause'
  <2>1. config.type = "interval" => parsed' = <<>>
    <3>1. <<>> \o <<>> = <<>>
      OBVIOUS
    <3> QED BY <1>1, <3>1 DEF DiesOnlyForCause
  <2> QED BY <1>1, <2>1 DEF DiesOnlyForCause
<1> QED BY <1>12, <1>13, <1>15, <1>16, <1>17 DEF Inv, Batches

LEMMA ProbeStacks ==
  ASSUME Inv, pc = "idle", config.count # 0, UNCHANGED <<config, rv, emitted>>, pc' = "looping",
         next' \in 1..MaxLine + 1,
         NEW kept \in Seq(Nat), \A i \in 1..Len(kept) : Divisible(RowOf(kept[i])),
         config.type = "interval" => kept = <<>>,
         parsed' = parsed \o kept,
         NEW more, more = [i \in 1..Len(kept) |-> MessageOf(kept[i])],
         stack' = stack \o more
  PROVE  Inv'
<1> DEFINE n == Len(kept)
           base == Len(All) * Width
<1>1. TypeOK /\ NothingLost /\ DiesOnlyForCause /\ EvalsAgree /\ Covered /\ Modes /\ Parsable
  BY DEF Inv, Batches
<1>2. AllSay /\ Stacked /\ config' = config
  BY <1>1, NothingLostIs
<1>3. /\ config \in Config /\ parsed \in Seq(Nat) /\ stack \in Seq(Message) /\ Len(stack) \in Nat
      /\ Len(All) \in Nat /\ Len(parsed) \in Nat /\ Width \in Nat /\ Width' = Width
      /\ base \in Nat /\ All \in Seq(Emission)
  BY <1>1, <1>2, StateFacts, ConfigFacts, SameRows, Products
<1>4. n \in Nat /\ \A i \in 1..n : kept[i] \in Nat
  OBVIOUS
<1>5. /\ more \in Seq(Message) /\ Len(more) = n
      /\ \A i \in 1..n : more[i] = MessageOf(kept[i])
  <2>1. \A i \in 1..n : MessageOf(kept[i]) \in Message
    BY <1>3, <1>4, PlainFacts
  <2> HIDE DEF Message
  <2> QED BY <1>4, <2>1
<1> HIDE DEF n, base
<1>6. /\ stack' \in Seq(Message) /\ Len(stack') = Len(stack) + n
      /\ \A i \in 1..Len(stack) : stack'[i] = stack[i]
      /\ \A i \in 1..Len(stack') :
           i \in 1..Len(stack) \/ (i - Len(stack) \in 1..n /\ stack'[i] = more[i - Len(stack)])
  <2> DEFINE all == stack \o more
  <2>1. stack' = all
    OBVIOUS
  <2>2. /\ all \in Seq(Message) /\ Len(all) = Len(stack) + Len(more)
        /\ \A i \in 1..Len(stack) : all[i] = stack[i]
        /\ \A i \in 1..Len(all) :
             i \in 1..Len(stack) \/ (i - Len(stack) \in 1..Len(more) /\ all[i] = more[i - Len(stack)])
    <3> HIDE DEF Message
    <3> QED BY <1>3, <1>5, Concat
  <2> HIDE DEF all
  <2> QED BY <1>5, <2>1, <2>2
<1>7. All' = All \o <<>> /\ All' = All /\ <<>> \in Seq(Emission) /\ Len(<<>>) = 0
  <2>1. All' = All
    BY DEF All
  <2>2. All \o <<>> = All
    <3> HIDE DEF Emission
    <3> QED BY <1>3
  <2> QED BY <2>1, <2>2
<1>8. /\ parsed' \in Seq(Nat) /\ Len(parsed') = Len(parsed) + n
      /\ \A i \in 1..Len(parsed) : parsed'[i] = parsed[i]
      /\ \A i \in 1..n : parsed'[Len(parsed) + i] = kept[i]
  <2> DEFINE all == parsed \o kept
  <2>1. parsed' = all
    OBVIOUS
  <2>2. /\ all \in Seq(Nat) /\ Len(all) = Len(parsed) + n
        /\ \A i \in 1..Len(parsed) : all[i] = parsed[i]
        /\ \A i \in 1..n : all[Len(parsed) + i] = kept[i]
    BY <1>3, Concat DEF n
  <2> HIDE DEF all
  <2> QED BY <2>1, <2>2
<1>9. base + Len(stack) = Len(parsed) /\ \A i \in 1..Len(stack) : stack[i] = MessageOf(parsed[base + i])
  BY <1>2 DEF Stacked, base
<1>10. (Len(All) + Len(<<>>)) * Width <= Len(parsed')
  <2>1. Len(All) + Len(<<>>) = Len(All)
    BY <1>3, <1>7
  <2>2. base <= Len(parsed')
    BY <1>3, <1>4, <1>8, <1>9
  <2> QED BY <2>1, <2>2 DEF base
<1>11. AllSay' /\ EvalsAgree' /\ Covered' /\ Parsable'
  <2> DEFINE none == <<>>
  <2>1. /\ none \in Seq(Emission) /\ Len(none) = 0 /\ All' = All \o none
        /\ (Len(All) + Len(none)) * Width <= Len(parsed')
    BY <1>7, <1>10
  <2> HIDE DEF none
  <2>2. 1..Len(none) = {}
    BY <2>1
  <2> QED BY <1>1, <1>2, <2>1, <2>2, MoreEmissions
<1>12. TypeOK'
  BY <1>1, <1>6, <1>8 DEF TypeOK
<1>13. ASSUME NEW i \in 1..Len(stack') PROVE stack'[i] = MessageOf(parsed'[base + i])
  <2>1. CASE i \in 1..Len(stack)
    <3>1. base + i \in 1..Len(parsed)
      BY <1>3, <1>9, <2>1
    <3> QED BY <1>6, <1>8, <1>9, <2>1, <3>1
  <2>2. CASE i - Len(stack) \in 1..n /\ stack'[i] = more[i - Len(stack)]
    <3>1. base + i = Len(parsed) + (i - Len(stack))
      <4> DEFINE a == Len(stack)
                 b == Len(parsed)
      <4>1. base + a = b /\ i \in Int /\ a \in Nat /\ base \in Nat /\ b \in Nat
        BY <1>3, <1>6, <1>9
      <4> HIDE DEF a, b
      <4>2. base + i = b + (i - a)
        BY <4>1
      <4> QED BY <4>2 DEF a, b
    <3>2. parsed'[base + i] = kept[i - Len(stack)]
      BY <1>8, <2>2, <3>1
    <3> QED BY <1>5, <2>2, <3>2
  <2> QED BY <1>6, <2>1, <2>2
<1>14. Stacked'
  <2>1. base + Len(stack') = Len(parsed')
    <3> DEFINE a == Len(stack)
               b == Len(parsed)
    <3>1. /\ a \in Nat /\ b \in Nat /\ base + a = b /\ Len(stack') = a + n /\ Len(parsed') = b + n
          /\ base \in Nat /\ n \in Nat
      BY <1>3, <1>4, <1>6, <1>8, <1>9
    <3> HIDE DEF a, b
    <3>2. base + (a + n) = b + n
      BY <3>1
    <3> QED BY <3>1, <3>2
  <2>2. Len(All') * Width' = base
    BY <1>3, <1>7 DEF base
  <2> QED BY <1>2, <1>13, <2>1, <2>2, SameRows DEF Stacked
<1>15. NothingLost'
  BY <1>11, <1>14 DEF NothingLost, AllSay, Stacked, Says, All, Group, GroupOf
<1>16. Modes'
  BY <1>2 DEF Modes
<1>17. DiesOnlyForCause'
  <2>1. config.type = "interval" => parsed' = <<>>
    <3>1. <<>> \o <<>> = <<>>
      OBVIOUS
    <3> QED BY <1>1, <3>1 DEF DiesOnlyForCause
  <2> QED BY <1>2, <2>1 DEF DiesOnlyForCause
<1> QED BY <1>11, <1>12, <1>15, <1>16, <1>17 DEF Inv, Batches

LEMMA FlattenSingles ==
  ASSUME NEW T, NEW s \in Seq(T), NEW singles \in Seq(Seq(T)), Len(singles) = Len(s),
         \A i \in 1..Len(s) : singles[i] = <<s[i]>>
  PROVE  FlattenSeq(singles) = s
<1> DEFINE n == Len(s)
           Firsts(k) == SubSeq(s, 1, k)
           Parts(k) == SubSeq(singles, 1, k)
           Good == {k \in Nat : k <= n => FlattenSeq(Parts(k)) = Firsts(k)}
<1>1. n \in Nat /\ Len(singles) = n
  OBVIOUS
<1>2. /\ Parts(0) = <<>> /\ Firsts(0) = <<>> /\ Parts(n) = singles /\ Firsts(n) = s
      /\ <<>> \in Seq(Seq(T)) /\ <<>> \in Seq(T)
  OBVIOUS
<1>3. ASSUME NEW k \in Nat, k + 1 \in 1..n
      PROVE  /\ Parts(k) \in Seq(Seq(T)) /\ Parts(k + 1) = Append(Parts(k), singles[k + 1])
             /\ Firsts(k + 1) = Firsts(k) \o <<s[k + 1]>> /\ singles[k + 1] \in Seq(T)
  <2>1. Parts(k) \in Seq(Seq(T)) /\ Parts(k + 1) = Append(Parts(k), singles[k + 1])
    BY <1>1, <1>3
  <2>2. Firsts(k + 1) = Firsts(k) \o <<s[k + 1]>>
    BY <1>1, <1>3
  <2>3. singles[k + 1] \in Seq(T)
    BY <1>1, <1>3
  <2> QED BY <2>1, <2>2, <2>3
<1> HIDE DEF Firsts, Parts, n
<1>4. 0 \in Good
  <2> DEFINE none == <<>>
  <2>1. none \in Seq(Seq(T)) /\ none \in Seq(T) /\ Parts(0) = none /\ Firsts(0) = none
    BY <1>2
  <2>2. FlattenSeq(<<>>) = <<>>
    BY <1>2, FlattenFacts
  <2> QED BY <1>2, <2>2
<1>5. ASSUME NEW k \in Nat, k \in Good PROVE k + 1 \in Good
  <2>1. ASSUME k + 1 <= n PROVE FlattenSeq(Parts(k + 1)) = Firsts(k + 1)
    <3>1. k + 1 \in 1..n /\ FlattenSeq(Parts(k)) = Firsts(k)
      BY <1>1, <1>5, <2>1
    <3>2. /\ Parts(k) \in Seq(Seq(T)) /\ Parts(k + 1) = Append(Parts(k), singles[k + 1])
          /\ Firsts(k + 1) = Firsts(k) \o <<s[k + 1]>> /\ singles[k + 1] \in Seq(T)
          /\ singles[k + 1] = <<s[k + 1]>>
      BY <1>3, <3>1 DEF n
    <3>3. FlattenSeq(Append(Parts(k), singles[k + 1])) = FlattenSeq(Parts(k)) \o singles[k + 1]
      BY <3>2, FlattenFacts
    <3> QED BY <3>1, <3>2, <3>3
  <2> QED BY <2>1
<1>6. Nat \subseteq Good
  <2> HIDE DEF Good
  <2> QED BY <1>4, <1>5, NatInductionOnSet
<1> QED BY <1>1, <1>2, <1>6

LEMMA ProbeStep == ASSUME Inv, Probe PROVE Inv'
<1> DEFINE Does(n, lines) ==
             LET kept == KeptOf(lines)
                 messages == [i \in 1..Len(kept) |-> MessageOf(kept[i])]
             IN /\ next + n <= MaxLine + 1
                /\ next' = next + n
                /\ IF \E i \in 1..n : ParseRaises(lines[i], next + i - 1)
                   THEN pc' = "dead" /\ UNCHANGED <<parsed, stack, emitted>>
                   ELSE IF config.count = 0
                   THEN /\ parsed' = parsed \o kept
                        /\ emitted' = emitted \o [i \in 1..Len(kept) |-> Plain(messages[i])]
                        /\ UNCHANGED <<stack, pc>>
                   ELSE /\ parsed' = parsed \o kept
                        /\ stack' = stack \o messages
                        /\ pc' = "looping"
                        /\ UNCHANGED emitted
<1>1. PICK n \in 0..MaxBatch : \E lines \in [1..n -> Line] : Does(n, lines)
  BY DEF Probe
<1>2. PICK lines \in [1..n -> Line] : Does(n, lines)
  <2> HIDE DEF Does
  <2> QED BY <1>1
<1>3. pc = "idle" /\ UNCHANGED <<config, rv>>
  BY DEF Probe
<1>4. n \in Nat /\ Len(lines) = n
  <2>1. n \in Nat
    BY <1>1, LogParseAssumption
  <2>2. lines \in Seq(Line)
    BY <1>2, <2>1
  <2> QED BY <1>2, <2>1, <2>2
<1>5. TypeOK /\ config \in Config /\ next \in Nat /\ next \in 1..MaxLine + 1 /\ MaxLine \in Nat
  BY StateFacts DEF Inv
<1> DEFINE kept == KeptOf(lines)
           messages == [i \in 1..Len(kept) |-> MessageOf(kept[i])]
           plain == [i \in 1..Len(kept) |-> Plain(messages[i])]
           Raises == \E i \in 1..n : ParseRaises(lines[i], next + i - 1)
<1>6. /\ next + n <= MaxLine + 1 /\ next' = next + n
      /\ Raises => pc' = "dead" /\ UNCHANGED <<parsed, stack, emitted>>
      /\ ~Raises /\ config.count = 0 => /\ parsed' = parsed \o kept /\ emitted' = emitted \o plain
                                        /\ UNCHANGED <<stack, pc>>
      /\ ~Raises /\ config.count # 0 => /\ parsed' = parsed \o kept /\ stack' = stack \o messages
                                        /\ pc' = "looping" /\ UNCHANGED emitted
  BY <1>2
<1> HIDE DEF Does
<1>7. next' \in 1..MaxLine + 1
  BY <1>4, <1>5, <1>6
<1>8. CASE Raises
  <2>1. PICK i \in 1..n : ParseRaises(lines[i], next + i - 1)
    BY <1>8
  <2>2. pc' = "dead" /\ UNCHANGED <<config, rv, parsed, stack, emitted>>
    BY <1>3, <1>6, <1>8
  <2> QED BY <1>3, <1>7, <2>1, <2>2, ProbeDies
<1>9. CASE ~Raises
  <2>1. /\ kept \in Seq(KeptNumbers(lines))
        /\ \A m \in KeptNumbers(lines) : m \in Nat /\ Divisible(RowOf(m))
        /\ config.type = "interval" => KeptNumbers(lines) = {}
    <3>1. \A i \in 1..Len(lines) : ~ParseRaises(lines[i], next + i - 1)
      BY <1>4, <1>9
    <3> QED BY <1>4, <1>5, <3>1, KeptFacts, ParsedLines
  <2> DEFINE K == KeptNumbers(lines)
  <2> HIDE DEF kept
  <2>2. /\ kept \in Seq(Nat) /\ (\A i \in 1..Len(kept) : Divisible(RowOf(kept[i])))
        /\ (config.type = "interval" => kept = <<>>) /\ Len(kept) \in Nat
    <3>1. /\ kept \in Seq(K) /\ (\A m \in K : m \in Nat /\ Divisible(RowOf(m)))
          /\ (config.type = "interval" => K = {})
      BY <2>1
    <3> HIDE DEF K
    <3>2. Len(kept) \in Nat /\ \A i \in 1..Len(kept) : kept[i] \in K
      BY <3>1
    <3>3. kept \in Seq(Nat)
      BY <3>1, <3>2
    <3>4. K = {} => kept = <<>>
      BY <3>1, <3>2
    <3> QED BY <3>1, <3>2, <3>3, <3>4
  <2>3. CASE config.count = 0
    <3>1. plain = [i \in 1..Len(kept) |-> Plain(MessageOf(kept[i]))]
      OBVIOUS
    <3>2. /\ UNCHANGED <<config, rv, stack, pc>> /\ parsed' = parsed \o kept
          /\ emitted' = emitted \o [i \in 1..Len(kept) |-> Plain(MessageOf(kept[i]))]
      BY <1>3, <1>6, <1>9, <2>3, <3>1
    <3> HIDE DEF Raises
    <3> QED BY <1>3, <1>7, <2>2, <2>3, <3>2, ProbePlain
  <2>4. CASE config.count # 0
    <3>1. /\ UNCHANGED <<config, rv, emitted>> /\ pc' = "looping" /\ parsed' = parsed \o kept
          /\ stack' = stack \o messages
      BY <1>3, <1>6, <1>9, <2>4
    <3>2. messages = [i \in 1..Len(kept) |-> MessageOf(kept[i])]
      OBVIOUS
    <3> HIDE DEF Raises, messages
    <3> QED BY <1>3, <1>7, <2>2, <2>4, <3>1, <3>2, ProbeStacks
  <2> QED BY <2>3, <2>4
<1> QED BY <1>8, <1>9

(* A full group leaves the stack for one emission.                          *)
LEMMA AggregateStep == ASSUME Inv, Aggregate PROVE Inv'
<1> DEFINE w == Width
           n == Len(All)
           base == n * w
           e == AggregateMessage(Joined)
           rows == Joined.data
           group == GroupOf(parsed, w, n + 1)
<1>1. TypeOK /\ NothingLost /\ DiesOnlyForCause /\ EvalsAgree /\ Covered /\ Modes /\ Parsable
  BY DEF Inv, Batches
<1>2. /\ pc = "looping" /\ Len(stack) >= config.count /\ rv' = Append(rv, e)
      /\ stack' = SubSeq(stack, config.count + 1, Len(stack))
      /\ UNCHANGED <<config, next, parsed, pc, emitted>>
  BY DEF Aggregate
<1>3. AllSay /\ Stacked /\ config' = config /\ config.count # 0
  BY <1>1, <1>2, NothingLostIs DEF Modes
<1>4. /\ config \in Config /\ parsed \in Seq(Nat) /\ stack \in Seq(Message) /\ Len(stack) \in Nat
      /\ n \in Nat /\ Len(parsed) \in Nat /\ w \in Nat /\ w # 0 /\ Width' = w /\ w = config.count
      /\ base \in Nat /\ (n + 1) * w = base + w
      /\ All \in Seq(Emission) /\ rv \in Seq(Emission) /\ emitted \in Seq(Emission)
  BY <1>1, <1>3, StateFacts, ConfigFacts, SameRows, Products DEF Width
<1>5. base + Len(stack) = Len(parsed) /\ \A i \in 1..Len(stack) : stack[i] = MessageOf(parsed[base + i])
  BY <1>3 DEF Stacked
<1>6. /\ base \in Nat /\ w \in Nat /\ w # 0 /\ Len(stack) \in Nat /\ w <= Len(stack)
      /\ base + Len(stack) = Len(parsed) /\ (n + 1) * w = base + w
  BY <1>2, <1>4, <1>5
<1> HIDE DEF w, n, base, e
<1>7. \A i \in 1..Len(stack) : base + i \in 1..Len(parsed)
  BY <1>6
<1>8. /\ group \in Seq(Nat) /\ Len(group) = w /\ (\A i \in 1..w : group[i] = parsed[base + i])
      /\ Last(group) = parsed[base + w] /\ (n + 1) * w <= Len(parsed)
  <2>1. /\ (n + 1) * w <= Len(parsed) /\ n \in Nat /\ w \in Nat /\ w # 0 /\ parsed \in Seq(Nat)
    BY <1>4, <1>6
  <2>2. n * w = base
    BY DEF base
  <2> HIDE DEF group
  <2>3. /\ group \in Seq(Nat) /\ Len(group) = w /\ (\A i \in 1..w : group[i] = parsed[n * w + i])
        /\ Last(group) = parsed[n * w + w]
    BY <2>1, GroupOfFacts DEF group
  <2> QED BY <2>1, <2>2, <2>3
<1>9. \A i \in 1..Len(stack) : /\ parsed[base + i] \in Nat /\ Divisible(RowOf(parsed[base + i]))
                               /\ RowOf(parsed[base + i]) \in GoodRow
                               /\ stack[i].data = <<RowOf(parsed[base + i])>>
                               /\ stack[i].ts = parsed[base + i]
  <2>1. TAKE i \in 1..Len(stack)
  <2> DEFINE m == parsed[base + i]
  <2>2. m \in Nat /\ stack[i] = MessageOf(m) /\ (config.eval = "ratio" => m % 3 # 0)
    <3>1. parsed \in Seq(Nat) /\ base + i \in 1..Len(parsed)
      BY <1>4, <1>7
    <3>2. m \in Nat
      BY <3>1
    <3>3. stack[i] = MessageOf(m)
      BY <1>5
    <3>4. config.eval = "ratio" => m % 3 # 0
      BY <1>1, <3>1 DEF Parsable
    <3> QED BY <3>2, <3>3, <3>4
  <2> HIDE DEF m
  <2>3. Divisible(RowOf(m)) /\ RowOf(m) \in GoodRow
    BY <1>4, <2>2, RowOfFacts DEF Divisible
  <2>4. MessageOf(m).data = <<RowOf(m)>> /\ MessageOf(m).ts = m
    BY <1>4, <2>2, <2>3, PlainFacts
  <2>5. /\ m \in Nat /\ Divisible(RowOf(m)) /\ RowOf(m) \in GoodRow
        /\ stack[i].data = <<RowOf(m)>> /\ stack[i].ts = m
    BY <2>2, <2>3, <2>4
  <2> HIDE DEF GoodRow
  <2> QED BY <2>5 DEF m
<1>10. \A i \in 1..w : i \in 1..Len(stack)
  BY <1>6
<1>11. /\ Joined.ts = group[1] /\ rows \in GoodRows /\ Len(rows) = w
       /\ \A i \in 1..w : rows[i] = RowOf(group[i])
  <2> DEFINE datas == [i \in 1..w |-> stack[i].data]
             singles == [i \in 1..w |-> RowOf(group[i])]
  <2>1. Joined = [ts |-> stack[1].ts, data |-> FlattenSeq(datas)]
    BY <1>4 DEF Joined
  <2>2. \A i \in 1..w : datas[i] = <<singles[i]>> /\ singles[i] \in GoodRow
    <3>1. TAKE i \in 1..w
    <3> DEFINE m == parsed[base + i]
    <3>2. group[i] = m /\ i \in 1..Len(stack)
      BY <1>8, <1>10
    <3>3. RowOf(m) \in GoodRow /\ stack[i].data = <<RowOf(m)>>
      BY <1>9, <3>2
    <3>4. singles[i] = RowOf(m) /\ datas[i] = stack[i].data
      BY <3>2
    <3> HIDE DEF m, GoodRow, datas, singles
    <3> QED BY <3>3, <3>4
  <2>3. singles \in Seq(GoodRow) /\ Len(singles) = w /\ datas \in Seq(Seq(GoodRow)) /\ Len(datas) = w
    <3>1. ASSUME NEW i \in 1..w PROVE datas[i] \in Seq(GoodRow)
      <4> DEFINE row == singles[i]
      <4>1. row \in GoodRow /\ datas[i] = <<row>>
        BY <2>2
      <4> HIDE DEF GoodRow, datas, row
      <4>2. <<row>> \in Seq(GoodRow)
        BY <4>1
      <4> QED BY <4>1, <4>2
    <3>2. singles \in Seq(GoodRow)
      <4> HIDE DEF GoodRow
      <4> QED BY <1>6, <2>2
    <3> HIDE DEF GoodRow
    <3> QED BY <1>6, <3>1, <3>2
  <2>4. \A i \in 1..w : singles[i] = RowOf(group[i])
    OBVIOUS
  <2> HIDE DEF datas, singles
  <2>5. FlattenSeq(datas) = singles
    BY <1>6, <2>2, <2>3, FlattenSingles
  <2>6. singles # <<>> /\ 1 \in 1..w
    BY <1>6, <2>3
  <2>7. stack[1].ts = group[1]
    BY <1>8, <1>9, <1>10, <2>6
  <2> QED BY <2>1, <2>3, <2>4, <2>5, <2>6, <2>7 DEF GoodRows
<1> HIDE DEF group
<1>12. /\ e.ts = group[1] /\ e.messages = w /\ e.main \in GoodRow
       /\ e.main.total = Sum(Totals(rows)) /\ e.main.mean = <<Sum(Means(rows)), w>>
       /\ e.main.state = rows[w].state /\ e.main.rate = Eval(e.main)
       /\ e = [ts |-> group[1], main |-> e.main, messages |-> w]
  <2> DEFINE message == Joined
  <2>1. message.data \in GoodRows /\ message.data = rows /\ message.ts = group[1] /\ Len(message.data) = w
    BY <1>11
  <2>2. e = AggregateMessage(message)
    BY DEF e
  <2> HIDE DEF message, rows
  <2> QED BY <1>4, <2>1, <2>2, AggregateMessageFacts
<1> HIDE DEF rows
<1>13. \A i \in 1..w : /\ group[i] \in Nat /\ rows[i].total = group[i] /\ rows[i].mean[1] = group[i]
                       /\ rows[i].state = group[i] % 3
  <2>1. TAKE i \in 1..w
  <2> DEFINE m == group[i]
  <2>2. m \in Nat /\ rows[i] = RowOf(m)
    BY <1>8, <1>11
  <2> HIDE DEF m
  <2>3. RowOf(m).total = m /\ RowOf(m).mean = <<m, 1>> /\ RowOf(m).state = m % 3
    BY <1>4, <2>2, RowOfFacts
  <2>4. rows[i].total = m /\ rows[i].mean[1] = m /\ rows[i].state = m % 3
    BY <2>2, <2>3
  <2> QED BY <2>2, <2>4 DEF m
<1>14. Totals(rows) = group /\ Means(rows) = group
  <2>1. /\ Totals(rows) = [i \in 1..w |-> rows[i].total] /\ Means(rows) = [i \in 1..w |-> rows[i].mean[1]]
    BY <1>11 DEF Totals, Means
  <2>2. /\ Totals(rows) \in Seq(Nat) /\ Means(rows) \in Seq(Nat)
        /\ Len(Totals(rows)) = w /\ Len(Means(rows)) = w
        /\ \A i \in 1..w : Totals(rows)[i] = group[i] /\ Means(rows)[i] = group[i]
    <3> DEFINE t(i) == rows[i].total
               m(i) == rows[i].mean[1]
    <3>1. \A i \in 1..w : t(i) \in Nat /\ m(i) \in Nat /\ t(i) = group[i] /\ m(i) = group[i]
      BY <1>13
    <3>2. Totals(rows) = [i \in 1..w |-> t(i)] /\ Means(rows) = [i \in 1..w |-> m(i)]
      BY <2>1
    <3> HIDE DEF t, m
    <3>3. w \in Nat
      BY <1>6
    <3> QED BY <3>1, <3>2, <3>3
  <2> DEFINE totals == Totals(rows)
             means == Means(rows)
  <2>3. /\ totals \in Seq(Nat) /\ means \in Seq(Nat) /\ Len(totals) = w /\ Len(means) = w
        /\ \A i \in 1..w : totals[i] = group[i] /\ means[i] = group[i]
    BY <2>2
  <2> HIDE DEF totals, means
  <2>4. totals = group
    BY <1>8, <2>3
  <2>5. means = group
    BY <1>8, <2>3
  <2> QED BY <2>4, <2>5 DEF totals, means
<1>15. Says(e, group, w)
  <2>1. w \in 1..w /\ group[w] = parsed[base + w]
    BY <1>6, <1>8
  <2>2. e.main.state = Last(group) % 3
    BY <1>8, <1>12, <1>13, <2>1
  <2> QED BY <1>12, <1>14, <2>2 DEF Says
<1>16. e \in Emission
  <2>1. group[1] \in Nat /\ e.main \in Row
    BY <1>6, <1>8, <1>12 DEF GoodRow
  <2> QED BY <1>6, <1>12, <2>1 DEF Emission
<1>17. rv' \in Seq(Emission) /\ All' = All \o <<e>>
  <2> HIDE DEF Emission
  <2>1. rv' \in Seq(Emission)
    BY <1>2, <1>4, <1>16
  <2>2. emitted \o Append(rv, e) = (emitted \o rv) \o <<e>>
    <3>1. emitted \in Seq(Emission) /\ rv \in Seq(Emission) /\ e \in Emission
      BY <1>4, <1>16
    <3> HIDE DEF Emission
    <3>2. Append(rv, e) = rv \o <<e>> /\ <<e>> \in Seq(Emission)
      BY <3>1
    <3> QED BY <3>1, <3>2, ConcatAssociative
  <2> QED BY <1>2, <2>1, <2>2 DEF All
<1>18. AllSay' /\ EvalsAgree' /\ Covered' /\ Parsable' /\ Len(All') = n + 1
  <2> DEFINE none == <<>>
             new == <<e>>
  <2>1. none \in Seq(Nat) /\ Len(none) = 0 /\ parsed' = parsed \o none /\ parsed' = parsed
    BY <1>2, <1>4
  <2>2. /\ new \in Seq(Emission) /\ Len(new) = 1 /\ new[1] = e /\ All' = All \o new
    BY <1>16, <1>17
  <2> HIDE DEF none, new
  <2>3. 1..Len(none) = {} /\ \A j \in 1..Len(new) : j = 1
    BY <2>1, <2>2
  <2>4. (n + Len(new)) * w <= Len(parsed')
    BY <1>8, <2>1, <2>2
  <2>5. \A j \in 1..Len(new) : /\ Says(new[j], GroupOf(parsed', w, n + j), w)
                               /\ new[j].main.rate = Eval(new[j].main)
    BY <1>12, <1>15, <2>1, <2>2, <2>3 DEF group
  <2> QED BY <1>1, <1>3, <2>1, <2>2, <2>3, <2>4, <2>5, MoreEmissions DEF w, n
<1>19. /\ stack' \in Seq(Message) /\ Len(stack') = Len(stack) - w
       /\ \A i \in 1..Len(stack') : i + w \in 1..Len(stack) /\ stack'[i] = stack[i + w]
  <2> HIDE DEF Message
  <2> DEFINE rest == SubSeq(stack, w + 1, Len(stack))
  <2>1. stack' = rest
    BY <1>2, <1>4
  <2>2. stack \in Seq(Message) /\ w \in Nat /\ w <= Len(stack) /\ Len(stack) \in Nat
    BY <1>4, <1>6
  <2>3. /\ rest \in Seq(Message) /\ Len(rest) = Len(stack) - w
        /\ \A i \in 1..Len(rest) : rest[i] = stack[i + w]
    BY <2>2, Rest
  <2> HIDE DEF rest
  <2>4. \A i \in 1..Len(rest) : i + w \in 1..Len(stack)
    BY <2>2, <2>3
  <2> QED BY <2>1, <2>3, <2>4
<1>20. TypeOK'
  BY <1>1, <1>2, <1>17, <1>19 DEF TypeOK
<1>21. Stacked'
  <2>1. Len(All') * Width' = base + w
    BY <1>4, <1>6, <1>18
  <2>2. (base + w) + Len(stack') = Len(parsed')
    <3> DEFINE a == Len(stack)
    <3>1. a \in Nat /\ base \in Nat /\ w \in Nat /\ Len(stack') = a - w /\ base + a = Len(parsed')
      BY <1>2, <1>6, <1>19
    <3> HIDE DEF a
    <3>2. (base + w) + (a - w) = base + a
      BY <3>1
    <3> QED BY <3>1, <3>2
  <2>3. ASSUME NEW i \in 1..Len(stack') PROVE stack'[i] = MessageOf(parsed'[(base + w) + i])
    <3>1. base + (i + w) = (base + w) + i
      BY <1>6
    <3>2. stack[i + w] = MessageOf(parsed[base + (i + w)])
      BY <1>5, <1>19
    <3>3. parsed' = parsed
      BY <1>2
    <3> QED BY <1>19, <3>1, <3>2, <3>3
  <2> QED BY <1>3, <2>1, <2>2, <2>3, SameRows DEF Stacked
<1>22. NothingLost'
  <2>1. pc' = "looping"
    BY <1>2
  <2> QED BY <1>18, <1>21, <2>1 DEF NothingLost, AllSay, Stacked, Says, All, Group, GroupOf
<1>23. Modes' /\ DiesOnlyForCause'
  BY <1>1, <1>2, <1>3 DEF Modes, DiesOnlyForCause
<1> QED BY <1>18, <1>20, <1>22, <1>23 DEF Inv, Batches

(* A sum of text: the groups have left the stack, and the daemon is dead.   *)
LEMMA RaiseInAggregateStep == ASSUME Inv, RaiseInAggregate PROVE Inv'
<1>1. TypeOK /\ NothingLost /\ DiesOnlyForCause /\ EvalsAgree /\ Covered /\ Modes /\ Parsable
  BY DEF Inv, Batches
<1>2. /\ pc = "looping" /\ pc' = "dead" /\ config.type = "none"
      /\ stack' = SubSeq(stack, Len(stack) - (Len(stack) % config.count) + 1, Len(stack))
      /\ UNCHANGED <<config, next, parsed, rv, emitted>>
  BY DEF RaiseInAggregate, AggregateRaises
<1>3. config.count \in Nat /\ config.count # 0
  BY <1>1, <1>2, StateFacts, ConfigFacts DEF Modes
<1>4. stack' \in Seq(Message)
  <2> DEFINE left == Len(stack) % config.count
             from == Len(stack) - left + 1
  <2>1. stack \in Seq(Message) /\ Len(stack) \in Nat
    BY <1>1, StateFacts
  <2>2. left \in Nat /\ left <= Len(stack)
    BY <1>3, <2>1
  <2> HIDE DEF left
  <2>3. from \in Nat /\ from >= 1
    BY <2>1, <2>2
  <2>4. stack' = SubSeq(stack, from, Len(stack))
    BY <1>2 DEF left
  <2> HIDE DEF from, Message
  <2> QED BY <2>1, <2>3, <2>4
<1>5. TypeOK'
  BY <1>1, <1>2, <1>4 DEF TypeOK
<1>6. NothingLost'
  BY <1>1, <1>2 DEF NothingLost, Width, Group
<1>7. DiesOnlyForCause'
  BY <1>1, <1>2, <1>3 DEF DiesOnlyForCause
<1>8. EvalsAgree' /\ Covered' /\ Parsable' /\ Modes'
  BY <1>1, <1>2, <1>3 DEF EvalsAgree, Covered, Modes, Parsable, All, Width, Eval
<1> QED BY <1>5, <1>6, <1>7, <1>8 DEF Inv, Batches

(* aggregate() returns its groups: the emissions, and what waits, are the   *)
(* same.                                                                    *)
LEMMA EndLoopStep == ASSUME Inv, EndLoop PROVE Inv'
<1>1. TypeOK /\ NothingLost /\ DiesOnlyForCause /\ EvalsAgree /\ Covered /\ Modes /\ Parsable
  BY DEF Inv, Batches
<1>2. /\ pc = "looping" /\ pc' = "idle" /\ Len(stack) < config.count
      /\ emitted' = emitted \o rv /\ rv' = <<>>
      /\ UNCHANGED <<config, next, parsed, stack>>
  BY DEF EndLoop
<1>3. /\ config.count # 0 /\ Width' = Width /\ Len(stack') < Width'
  BY <1>1, <1>2 DEF Modes, Width
<1>4. All \in Seq(Emission) /\ All' = All
  <2> HIDE DEF Emission
  <2>1. emitted \o rv \in Seq(Emission)
    BY <1>1, StateFacts DEF All
  <2>2. (emitted \o rv) \o <<>> = emitted \o rv
    BY <2>1
  <2> QED BY <1>2, <2>1, <2>2 DEF All
<1>5. TypeOK'
  <2>1. emitted' \in Seq(Emission) /\ rv' \in Seq(Emission)
    BY <1>2, <1>4 DEF All
  <2> QED BY <1>1, <1>2, <2>1 DEF TypeOK
<1>6. NothingLost'
  <2>1. AllSay /\ Stacked
    BY <1>1, <1>2, NothingLostIs
  <2>2. AllSay'
    BY <1>2, <1>3, <1>4, <2>1 DEF AllSay, GroupOf, Says
  <2>3. Stacked'
    BY <1>2, <1>3, <1>4, <2>1, SameRows DEF Stacked
  <2>4. pc' = "idle" /\ rv' = <<>> /\ Len(stack') < Width'
    BY <1>2, <1>3
  <2> QED BY <2>2, <2>3, <2>4 DEF NothingLost, AllSay, Stacked, Says, All, Group, GroupOf
<1>7. DiesOnlyForCause'
  BY <1>1, <1>2 DEF DiesOnlyForCause
<1>8. Modes'
  BY <1>2, <1>3 DEF Modes
<1>9. EvalsAgree'
  BY <1>1, <1>2, <1>4, SameRows DEF EvalsAgree
<1>10. Covered' /\ Parsable'
  BY <1>1, <1>2, <1>3, <1>4 DEF Covered, Parsable
<1> QED BY <1>5, <1>6, <1>7, <1>8, <1>9, <1>10 DEF Inv, Batches

LEMMA StepInv == ASSUME Inv, [Next]_vars PROVE Inv'
<1>1. CASE Probe
  BY <1>1, ProbeStep
<1>2. CASE Aggregate
  BY <1>2, AggregateStep
<1>3. CASE RaiseInAggregate
  BY <1>3, RaiseInAggregateStep
<1>4. CASE EndLoop
  BY <1>4, EndLoopStep
<1>5. CASE UNCHANGED vars
  <2>1. TypeOK /\ NothingLost /\ DiesOnlyForCause /\ EvalsAgree /\ Covered /\ Modes /\ Parsable
    BY DEF Inv, Batches
  <2>2. UNCHANGED <<config, next, parsed, stack, pc, rv, emitted>> /\ Width' = Width /\ All' = All
    BY <1>5 DEF vars, Width, All
  <2>3. TypeOK'
    BY <2>1, <2>2 DEF TypeOK
  <2>4. AllSay' /\ (pc' # "dead" => Stacked')
    <3>1. AllSay /\ (pc # "dead" => Stacked)
      BY <2>1, NothingLostIs
    <3> QED BY <2>2, <3>1, SameRows DEF AllSay, Stacked, GroupOf, Says
  <2>5. pc' = "idle" => rv' = <<>> /\ Len(stack') < Width'
    BY <2>1, <2>2 DEF NothingLost
  <2>6. NothingLost'
    BY <2>4, <2>5 DEF NothingLost, AllSay, Stacked, Says, All, Group, GroupOf
  <2>7. DiesOnlyForCause' /\ EvalsAgree' /\ Covered' /\ Modes' /\ Parsable'
    BY <1>5, <2>1 DEF vars, DiesOnlyForCause, EvalsAgree, Covered, Modes, Parsable, All, Width, Eval
  <2> QED BY <2>3, <2>6, <2>7 DEF Inv, Batches
<1> QED BY <1>1, <1>2, <1>3, <1>4, <1>5 DEF Next

-----------------------------------------------------------------------------
(* The inductive invariant: what has been parsed is what has been emitted,  *)
(* group by group, and what waits; no group is emitted that is not parsed;  *)
(* the evals agree in the groups this call of aggregate() holds as well,    *)
(* for which no parsed line may have an eval that fails.                    *)
THEOREM BatchesHold == Spec => []Batches
<1>1. Init => Inv
  BY InitInv
<1>2. Inv /\ [Next]_vars => Inv'
  BY StepInv
<1>3. Inv => Batches
  BY DEF Inv
<1> QED BY <1>1, <1>2, <1>3, PTL DEF Spec

(* The type invariant: self.stack holds messages and probe() returns them,  *)
(* aggregated or not, whatever the order of the fields in the config.       *)
THEOREM LogParseTypeCorrect == Spec => []TypeOK
<1>1. Init => Inv
  BY InitInv
<1>2. Inv /\ [Next]_vars => Inv'
  BY StepInv
<1>3. Inv => TypeOK
  BY DEF Inv
<1> QED BY <1>1, <1>2, <1>3, PTL DEF Spec

(* probe() and aggregate() lose no line, count none twice and keep their    *)
(* order: emission k stands for lines (k - 1) * count + 1 to k * count of   *)
(* those parsed, with their sum, their mean and their last state, and the   *)
(* rest waits on self.stack; how the log was cut into batches has no effect.*)
THEOREM NothingIsLost == Spec => []NothingLost
<1>1. Batches => NothingLost
  BY DEF Batches
<1> QED BY <1>1, BatchesHold, PTL

(* aggregate_message computes the eval fields last, so that in what probe() *)
(* returns they agree with the fields they are computed from, in whatever   *)
(* order the config names the fields.                                       *)
THEOREM EvalsAreConsistent == Spec => []EvalConsistent
<1>1. TypeOK /\ EvalsAgree => EvalConsistent
  <2> SUFFICES ASSUME TypeOK, EvalsAgree PROVE EvalConsistent
    OBVIOUS
  <2>1. /\ Len(All) = Len(emitted) + Len(rv) /\ Len(emitted) \in Nat /\ Len(rv) \in Nat
        /\ \A k \in 1..Len(emitted) : All[k] = emitted[k]
    <3>1. rv \in Seq(Emission)
      BY StateFacts
    <3> HIDE DEF Emission
    <3>2. Len(rv) \in Nat
      BY <3>1
    <3> QED BY <3>2, StateFacts
  <2>2. \A k \in 1..Len(emitted) : k \in 1..Len(All)
    BY <2>1
  <2> QED BY <2>1, <2>2 DEF EvalConsistent, EvalsAgree
<1>2. Batches => EvalsAgree
  BY DEF Batches
<1> QED BY <1>1, <1>2, BatchesHold, LogParseTypeCorrect, PTL

(* No line that is excluded, lacks a field or holds what is not of its type *)
(* lets an exception out of probe(): the causes are a log that breaks its   *)
(* encoding, a group that need not match, a sum of text, an eval that may   *)
(* divide by zero, a field of type interval; and with such a field not one  *)
(* line is ever parsed.                                                     *)
THEOREM OnlyCausesKill == Spec => []DiesOnlyForCause
<1>1. Batches => DiesOnlyForCause
  BY DEF Batches
<1> QED BY <1>1, BatchesHold, PTL
=============================================================================
