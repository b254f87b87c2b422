-------------------------- MODULE NaturalInduction --------------------------
(***************************************************************************)
(* Induction over the natural numbers, stated for a set instead of for an  *)
(* operator: a set that holds 0 and the successor of each of its members   *)
(* holds every natural number.  It follows from the well-foundedness of <, *)
(* and the laws of totals follow from it.                                  *)
(***************************************************************************)
EXTENDS RowTotals, FiniteSetTheorems, TLAPS

Less == OpToRel(<, Nat)

LEMMA LessIsWellFounded == IsWellFoundedOn(Less, Nat)
BY NatLessThanWellFounded, Zenon DEF Less

LEMMA LessMember == \A m, n \in Nat : m < n => <<m, n>> \in Less
BY Zenon DEF Less, OpToRel

\* A set with 0 and all successors of its members contains Nat.
LEMMA SetInduction ==
  ASSUME NEW S, 0 \in S, \A n \in Nat : n \in S => n + 1 \in S
  PROVE  \A n \in Nat : n \in S
<1> DEFINE Missing == {n \in Nat : n \notin S}
<1>1. SUFFICES ASSUME NEW k \in Missing PROVE FALSE
  OBVIOUS
<1>2. Missing \subseteq Nat /\ Missing # {}
  BY <1>1
<1>3. PICK x \in Missing : \A y \in Missing : ~(<<y, x>> \in Less)
  <2> HIDE DEF Missing
  <2> QED BY <1>2, LessIsWellFounded, WFMin
<1>4. x \in Nat /\ x \notin S
  BY <1>3
<1>5. x # 0 /\ x - 1 \in Nat
  BY <1>4
<1>6. <<x - 1, x>> \in Less
  BY <1>4, <1>5, LessMember
<1>7. x - 1 \in S
  BY <1>3, <1>5, <1>6
<1>8. (x - 1) + 1 \in S
  BY <1>5, <1>7
<1>9. QED
  BY <1>4, <1>5, <1>8

-----------------------------------------------------------------------------
(* Totals, by induction over the number of rows.                           *)

Sums(table, amounts, n) ==
  table = [k \in 0..n |-> IF k = 0 THEN 0 ELSE table[k - 1] + amounts[k]]

LEMMA RowSumTable ==
  ASSUME NEW count \in Nat, NEW amounts \in [1..count -> Int]
  PROVE  \A n \in Nat : n <= count =>
           \E table \in [0..n -> Int] : Sums(table, amounts, n)
<1> DEFINE Built == {n \in Nat : n <= count =>
                       \E table \in [0..n -> Int] : Sums(table, amounts, n)}
<1>1. 0 \in Built
  <2> DEFINE table == [k \in 0..0 |-> 0]
  <2>1. table \in [0..0 -> Int] /\ Sums(table, amounts, 0)
    BY DEF Sums
  <2> QED
    BY <2>1
<1>2. ASSUME NEW n \in Nat, n \in Built
      PROVE  n + 1 \in Built
  <2>1. SUFFICES ASSUME n + 1 <= count
                 PROVE  \E table \in [0..(n + 1) -> Int] : Sums(table, amounts, n + 1)
    OBVIOUS
  <2>2. PICK table \in [0..n -> Int] : Sums(table, amounts, n)
    BY <1>2, <2>1
  <2> DEFINE longer ==
        [k \in 0..(n + 1) |-> IF k = n + 1 THEN table[n] + amounts[k] ELSE table[k]]
  <2>3. longer \in [0..(n + 1) -> Int]
    BY <2>1, <2>2
  <2>4. \A k \in 0..n : table[k] = IF k = 0 THEN 0 ELSE table[k - 1] + amounts[k]
    BY <2>2 DEF Sums
  <2>5. \A k \in 0..(n + 1) :
          longer[k] = IF k = 0 THEN 0 ELSE longer[k - 1] + amounts[k]
    <3>1. TAKE k \in 0..(n + 1)
    <3>2. CASE k = 0
      BY <2>4, <3>2
    <3>3. CASE k \in 1..n
      BY <2>4, <3>3
    <3>4. CASE k = n + 1
      BY <3>4
    <3> QED
      BY <3>2, <3>3, <3>4
  <2>6. Sums(longer, amounts, n + 1)
    BY <2>5 DEF Sums
  <2> QED
    BY <2>3, <2>6
<1> HIDE DEF Built
<1>3. \A n \in Nat : n \in Built
  BY <1>1, <1>2, SetInduction
<1> QED
  BY <1>3 DEF Built

LEMMA RowSumEquation ==
  ASSUME NEW count \in Nat, NEW amounts \in [1..count -> Int]
  PROVE  LET sum == RunningTotal(count, amounts)
         IN  /\ sum[0] = 0
             /\ \A k \in 1..count : sum[k] = sum[k - 1] + amounts[k]
             /\ \A k \in 0..count : sum[k] \in Int
<1> DEFINE sum == RunningTotal(count, amounts)
<1>1. count \in Nat /\ count <= count
  OBVIOUS
<1>2. PICK table \in [0..count -> Int] : Sums(table, amounts, count)
  BY <1>1, RowSumTable
<1>3. sum = CHOOSE f : Sums(f, amounts, count)
  BY DEF RunningTotal, Sums
<1>4. Sums(sum, amounts, count)
  BY <1>2, <1>3
<1>5. \A k \in 0..count :
        sum[k] = IF k = 0 THEN 0 ELSE sum[k - 1] + amounts[k]
  BY <1>4 DEF Sums
<1> HIDE DEF sum
<1>6. sum[0] = 0
  <2>1. 0 \in 0..count
    BY <1>1
  <2>2. sum[0] = IF 0 = 0 THEN 0 ELSE sum[0 - 1] + amounts[0]
    BY <1>5, <2>1
  <2> QED
    BY <2>2
<1>7. \A k \in 1..count : sum[k] = sum[k - 1] + amounts[k]
  BY <1>1, <1>5
<1>8. \A k \in Nat : k <= count => sum[k] \in Int
  <2> DEFINE Typed == {k \in Nat : k <= count => sum[k] \in Int}
  <2>1. 0 \in Typed
    BY <1>6
  <2>2. ASSUME NEW k \in Nat, k \in Typed
        PROVE  k + 1 \in Typed
    <3>1. SUFFICES ASSUME k + 1 <= count PROVE sum[k + 1] \in Int
      OBVIOUS
    <3>2. sum[k] \in Int /\ k + 1 \in 1..count
      BY <1>1, <2>2, <3>1
    <3>3. sum[k + 1] = sum[(k + 1) - 1] + amounts[k + 1] /\ (k + 1) - 1 = k
      BY <1>7, <3>2
    <3> QED
      BY <3>2, <3>3
  <2> HIDE DEF Typed
  <2>3. \A k \in Nat : k \in Typed
    BY <2>1, <2>2, SetInduction
  <2> QED
    BY <2>3 DEF Typed
<1> QED
  BY <1>1, <1>6, <1>7, <1>8 DEF sum

LEMMA RowTotalType ==
  ASSUME NEW count \in Nat, NEW amounts \in [1..count -> Int]
  PROVE  TotalOf(count, amounts) \in Int
<1>1. count \in 0..count
  OBVIOUS
<1> QED
  BY <1>1, RowSumEquation DEF TotalOf

\* A row more adds its amount.
LEMMA RowTotalExtend ==
  ASSUME NEW count \in Nat, NEW amounts \in [1..(count + 1) -> Int]
  PROVE  TotalOf(count + 1, amounts)
           = TotalOf(count, [i \in 1..count |-> amounts[i]]) + amounts[count + 1]
<1> DEFINE shorter == [i \in 1..count |-> amounts[i]]
           old == RunningTotal(count, shorter)
           new == RunningTotal(count + 1, amounts)
<1>1. shorter \in [1..count -> Int] /\ count + 1 \in Nat
  OBVIOUS
<1>2. /\ old[0] = 0
      /\ \A k \in 1..count : old[k] = old[k - 1] + shorter[k]
  BY <1>1, RowSumEquation
<1>3. /\ new[0] = 0
      /\ \A k \in 1..(count + 1) : new[k] = new[k - 1] + amounts[k]
  BY <1>1, RowSumEquation
<1>4. \A k \in 1..count : shorter[k] = amounts[k]
  OBVIOUS
<1> HIDE DEF shorter, old, new
<1>5. \A k \in Nat : k <= count => new[k] = old[k]
  <2> DEFINE Same == {k \in Nat : k <= count => new[k] = old[k]}
  <2>1. 0 \in Same
    BY <1>2, <1>3
  <2>2. ASSUME NEW k \in Nat, k \in Same
        PROVE  k + 1 \in Same
    <3>1. SUFFICES ASSUME k + 1 <= count PROVE new[k + 1] = old[k + 1]
      OBVIOUS
    <3>2. new[k] = old[k] /\ k + 1 \in 1..count /\ k + 1 \in 1..(count + 1) /\ (k + 1) - 1 = k
      BY <2>2, <3>1
    <3> QED
      BY <1>2, <1>3, <1>4, <3>2
  <2> HIDE DEF Same
  <2>3. \A k \in Nat : k \in Same
    BY <2>1, <2>2, SetInduction
  <2> QED
    BY <2>3 DEF Same
<1>6. count + 1 \in 1..(count + 1) /\ (count + 1) - 1 = count /\ new[count] = old[count]
  BY <1>5
<1> QED
  BY <1>3, <1>6 DEF TotalOf, shorter, old, new

\* Changing one amount changes the total by as much.
LEMMA RowTotalUpdate ==
  ASSUME NEW count \in Nat, NEW amounts \in [1..count -> Int], NEW r \in 1..count, NEW amount \in Int
  PROVE  TotalOf(count, [amounts EXCEPT ![r] = amount]) = TotalOf(count, amounts) - amounts[r] + amount
<1> DEFINE changed == [amounts EXCEPT ![r] = amount]
           old == RunningTotal(count, amounts)
           new == RunningTotal(count, changed)
           Shift(k) == IF k < r THEN 0 ELSE amount - amounts[r]
<1>1. changed \in [1..count -> Int] /\ count \in Nat /\ r \in 1..count
  OBVIOUS
<1>2. /\ old[0] = 0
      /\ \A k \in 1..count : old[k] = old[k - 1] + amounts[k]
      /\ \A k \in 0..count : old[k] \in Int
  BY RowSumEquation
<1>3. /\ new[0] = 0
      /\ \A k \in 1..count : new[k] = new[k - 1] + changed[k]
      /\ \A k \in 0..count : new[k] \in Int
  BY <1>1, RowSumEquation
<1>4. \A k \in 1..count : changed[k] = IF k = r THEN amount ELSE amounts[k]
  OBVIOUS
<1> HIDE DEF changed, old, new
<1>5. \A k \in Nat : k <= count => new[k] = old[k] + Shift(k)
  <2> DEFINE Shifted == {k \in Nat : k <= count => new[k] = old[k] + Shift(k)}
  <2>1. 0 \in Shifted
    BY <1>1, <1>2, <1>3
  <2>2. ASSUME NEW k \in Nat, k \in Shifted
        PROVE  k + 1 \in Shifted
    <3>1. SUFFICES ASSUME k + 1 <= count PROVE new[k + 1] = old[k + 1] + Shift(k + 1)
      OBVIOUS
    <3>2. new[k] = old[k] + Shift(k) /\ k + 1 \in 1..count /\ (k + 1) - 1 = k /\ k \in 0..count
      BY <1>1, <2>2, <3>1
    <3>3. new[k + 1] = new[k] + changed[k + 1] /\ old[k + 1] = old[k] + amounts[k + 1]
      BY <1>2, <1>3, <3>2
    <3>4. old[k] \in Int /\ amounts[k + 1] \in Int /\ amounts[r] \in Int
      BY <1>2, <3>2
    <3> QED
      BY <1>1, <1>4, <3>2, <3>3, <3>4, SMTT(30)
  <2> HIDE DEF Shifted
  <2>3. \A k \in Nat : k \in Shifted
    BY <2>1, <2>2, SetInduction
  <2> QED
    BY <2>3 DEF Shifted
<1>6. new[count] = old[count] + (amount - amounts[r])
  BY <1>1, <1>5
<1>7. old[count] \in Int /\ amounts[r] \in Int
  BY <1>1, <1>2
<1> QED
  BY <1>6, <1>7 DEF TotalOf, changed, old, new

\* Nothing but nonnegative amounts makes a nonnegative total.
LEMMA RowTotalNonnegative ==
  ASSUME NEW count \in Nat, NEW amounts \in [1..count -> Nat]
  PROVE  TotalOf(count, amounts) >= 0
<1> DEFINE sum == RunningTotal(count, amounts)
           Positive == {k \in Nat : k <= count => sum[k] >= 0}
<1>1. /\ sum[0] = 0
      /\ \A k \in 1..count : sum[k] = sum[k - 1] + amounts[k]
      /\ \A k \in 0..count : sum[k] \in Int
  <2>1. amounts \in [1..count -> Int]
    OBVIOUS
  <2> QED
    BY <2>1, RowSumEquation
<1>2. count \in Nat
  OBVIOUS
<1> HIDE DEF sum
<1>3. 0 \in Positive
  BY <1>1
<1>4. ASSUME NEW k \in Nat, k \in Positive
      PROVE  k + 1 \in Positive
  <2>1. SUFFICES ASSUME k + 1 <= count PROVE sum[k + 1] >= 0
    OBVIOUS
  <2>2. k + 1 \in 1..count /\ (k + 1) - 1 = k /\ k \in 0..count /\ sum[k] >= 0
    BY <1>2, <1>4, <2>1
  <2>3. sum[k + 1] = sum[k] + amounts[k + 1] /\ amounts[k + 1] \in Nat /\ sum[k] \in Int
    BY <1>1, <2>2
  <2> QED
    BY <2>2, <2>3
<1> HIDE DEF Positive
<1>5. \A k \in Nat : k \in Positive
  BY <1>3, <1>4, SetInduction
<1>6. sum[count] >= 0
  BY <1>2, <1>5 DEF Positive
<1> QED
  BY <1>6 DEF TotalOf, sum

LEMMA RowTotalOfNothing ==
  ASSUME NEW count \in Nat, NEW amounts \in [1..count -> {0}]
  PROVE  TotalOf(count, amounts) = 0
<1> DEFINE sum == RunningTotal(count, amounts)
           Zero == {k \in Nat : k <= count => sum[k] = 0}
<1>1. amounts \in [1..count -> Int]
  OBVIOUS
<1>2. /\ sum[0] = 0
      /\ \A k \in 1..count : sum[k] = sum[k - 1] + amounts[k]
  BY <1>1, RowSumEquation
<1>3. count \in Nat
  OBVIOUS
<1> HIDE DEF sum
<1>4. 0 \in Zero
  BY <1>2
<1>5. ASSUME NEW k \in Nat, k \in Zero
      PROVE  k + 1 \in Zero
  <2>1. SUFFICES ASSUME k + 1 <= count PROVE sum[k + 1] = 0
    OBVIOUS
  <2>2. k + 1 \in 1..count /\ (k + 1) - 1 = k /\ sum[k] = 0
    BY <1>3, <1>5, <2>1
  <2>3. sum[k + 1] = sum[k] + amounts[k + 1] /\ amounts[k + 1] = 0
    BY <1>2, <2>2
  <2> QED
    BY <2>2, <2>3
<1> HIDE DEF Zero
<1>6. \A k \in Nat : k \in Zero
  BY <1>4, <1>5, SetInduction
<1>7. sum[count] = 0
  BY <1>3, <1>6 DEF Zero
<1> QED
  BY <1>7 DEF TotalOf, sum

\* What is nowhere more than another is no more in total.
LEMMA RowTotalMonotone ==
  ASSUME NEW count \in Nat, NEW some \in [1..count -> Int], NEW more \in [1..count -> Int],
         \A r \in 1..count : some[r] <= more[r]
  PROVE  TotalOf(count, some) <= TotalOf(count, more)
<1> DEFINE low == RunningTotal(count, some)
           high == RunningTotal(count, more)
           Below == {k \in Nat : k <= count => low[k] <= high[k]}
<1>1. /\ low[0] = 0 /\ high[0] = 0
      /\ \A k \in 1..count : low[k] = low[k - 1] + some[k] /\ high[k] = high[k - 1] + more[k]
      /\ \A k \in 0..count : low[k] \in Int /\ high[k] \in Int
  BY RowSumEquation
<1>2. count \in Nat
  OBVIOUS
<1> HIDE DEF low, high
<1>3. 0 \in Below
  BY <1>1
<1>4. ASSUME NEW k \in Nat, k \in Below
      PROVE  k + 1 \in Below
  <2>1. SUFFICES ASSUME k + 1 <= count PROVE low[k + 1] <= high[k + 1]
    OBVIOUS
  <2>2. k + 1 \in 1..count /\ (k + 1) - 1 = k /\ k \in 0..count /\ low[k] <= high[k]
    BY <1>2, <1>4, <2>1
  <2>3. /\ low[k + 1] = low[k] + some[k + 1] /\ high[k + 1] = high[k] + more[k + 1]
        /\ some[k + 1] \in Int /\ more[k + 1] \in Int /\ some[k + 1] <= more[k + 1]
        /\ low[k] \in Int /\ high[k] \in Int
    BY <1>1, <2>2
  <2> QED
    BY <2>2, <2>3
<1> HIDE DEF Below
<1>5. \A k \in Nat : k \in Below
  BY <1>3, <1>4, SetInduction
<1>6. low[count] <= high[count]
  BY <1>2, <1>5 DEF Below
<1> QED
  BY <1>6 DEF TotalOf, low, high

-----------------------------------------------------------------------------
(* Sums of a function over a finite set, by induction over its size.        *)

OneOf(some) == CHOOSE r \in some : TRUE

TableOfSums(table, rows, f) ==
  table = [some \in SUBSET rows |->
             IF some = {} THEN 0
             ELSE LET row == CHOOSE r \in some : TRUE IN f[row] + table[some \ {row}]]

SumTable(f, rows) == CHOOSE table : TableOfSums(table, rows, f)

\* What a table of sums says of the sets it has.
SumsUpto(table, sets, f) ==
  \A some \in sets :
    /\ table[some] \in Int
    /\ table[some] = IF some = {} THEN 0
                     ELSE f[OneOf(some)] + table[some \ {OneOf(some)}]

LEMMA OneOfMember ==
  ASSUME NEW rows, IsFiniteSet(rows), NEW some \in SUBSET rows, some # {}
  PROVE  /\ OneOf(some) \in some /\ some \ {OneOf(some)} \in SUBSET rows
         /\ Cardinality(some) \in Nat /\ Cardinality(some \ {OneOf(some)}) \in Nat
         /\ Cardinality(some \ {OneOf(some)}) = Cardinality(some) - 1
<1>1. OneOf(some) \in some
  BY DEF OneOf
<1>2. IsFiniteSet(some)
  BY FS_Subset
<1>3. /\ IsFiniteSet(some \ {OneOf(some)})
      /\ Cardinality(some \ {OneOf(some)}) = Cardinality(some) - 1
  BY <1>1, <1>2, FS_RemoveElement
<1> QED
  BY <1>1, <1>2, <1>3, FS_CardinalityType

LEMMA SetSumTable ==
  ASSUME NEW rows, IsFiniteSet(rows), NEW f, \A r \in rows : f[r] \in Int
  PROVE  \A n \in Nat : \E table :
           SumsUpto(table, {some \in SUBSET rows : Cardinality(some) <= n}, f)
<1> DEFINE Small(n) == {some \in SUBSET rows : Cardinality(some) <= n}
           Built == {n \in Nat : \E table : SumsUpto(table, Small(n), f)}
<1>1. \A some \in SUBSET rows : IsFiniteSet(some) /\ Cardinality(some) \in Nat
  BY FS_Subset, FS_CardinalityType
<1>2. 0 \in Built
  <2>1. Small(0) = {{}}
    BY <1>1, FS_EmptySet
  <2>2. SumsUpto([some \in {{}} |-> 0], Small(0), f)
    BY <2>1 DEF SumsUpto
  <2> QED
    BY <2>2
<1>3. ASSUME NEW n \in Nat, n \in Built
      PROVE  n + 1 \in Built
  <2>1. PICK table : SumsUpto(table, Small(n), f)
    BY <1>3
  <2> DEFINE longer ==
        [some \in Small(n + 1) |->
           IF Cardinality(some) <= n THEN table[some]
           ELSE f[OneOf(some)] + table[some \ {OneOf(some)}]]
  <2>2. ASSUME NEW some \in Small(n + 1)
        PROVE  /\ longer[some] \in Int
               /\ longer[some] = IF some = {} THEN 0
                                 ELSE f[OneOf(some)] + longer[some \ {OneOf(some)}]
    <3>1. CASE some = {}
      <4>1. some \in Small(n) /\ Cardinality(some) <= n
        BY <3>1, FS_EmptySet
      <4> QED
        BY <2>1, <3>1, <4>1 DEF SumsUpto
    <3>2. CASE some # {}
      <4> DEFINE rest == some \ {OneOf(some)}
      <4>1. /\ OneOf(some) \in some /\ rest \in SUBSET rows
            /\ Cardinality(some) \in Nat /\ Cardinality(rest) \in Nat
            /\ Cardinality(rest) = Cardinality(some) - 1
        BY <3>2, OneOfMember
      <4>2. rest \in Small(n) /\ rest \in Small(n + 1) /\ Cardinality(rest) <= n
        BY <4>1
      <4>3. longer[rest] = table[rest] /\ table[rest] \in Int
        BY <2>1, <4>2 DEF SumsUpto
      <4>4. longer[some] = f[OneOf(some)] + table[rest]
        BY <2>1, <3>2, <4>1 DEF SumsUpto
      <4>5. f[OneOf(some)] \in Int
        BY <4>1
      <4> QED
        BY <3>2, <4>3, <4>4, <4>5
    <3> QED
      BY <3>1, <3>2
  <2>3. SumsUpto(longer, Small(n + 1), f)
    <3> HIDE DEF longer, Small
    <3> QED
      BY <2>2 DEF SumsUpto
  <2> HIDE DEF longer, Small
  <2>4. \E some : SumsUpto(some, Small(n + 1), f)
    BY <2>3, Zenon
  <2> QED
    BY <2>4
<1> HIDE DEF Built
<1>4. \A n \in Nat : n \in Built
  BY <1>2, <1>3, SetInduction
<1> QED
  BY <1>4 DEF Built

LEMMA SetSumEquation ==
  ASSUME NEW rows, IsFiniteSet(rows), NEW f, \A r \in rows : f[r] \in Int
  PROVE  SumsUpto(SumTable(f, rows), SUBSET rows, f)
<1> DEFINE n == Cardinality(rows)
<1>1. n \in Nat /\ \A some \in SUBSET rows : Cardinality(some) <= n
  BY FS_CardinalityType, FS_Subset
<1>2. {some \in SUBSET rows : Cardinality(some) <= n} = SUBSET rows
  BY <1>1
<1>3. PICK table : SumsUpto(table, SUBSET rows, f)
  <2>1. \E table : SumsUpto(table, {some \in SUBSET rows : Cardinality(some) <= n}, f)
    BY <1>1, SetSumTable
  <2> QED
    BY <1>2, <2>1
<1> DEFINE kept == [some \in SUBSET rows |-> table[some]]
<1>4. ASSUME NEW some \in SUBSET rows
      PROVE  kept[some] = IF some = {} THEN 0
                          ELSE f[OneOf(some)] + kept[some \ {OneOf(some)}]
  <2>1. some \ {OneOf(some)} \in SUBSET rows
    OBVIOUS
  <2> QED
    BY <1>3, <2>1 DEF SumsUpto
<1>5. TableOfSums(kept, rows, f)
  BY <1>4 DEF TableOfSums, OneOf
<1>6. SumTable(f, rows) = CHOOSE found : TableOfSums(found, rows, f)
  BY DEF SumTable
<1> DEFINE sum == SumTable(f, rows)
<1>7. TableOfSums(sum, rows, f)
  BY <1>5, <1>6
<1> HIDE DEF sum, n
<1>8. /\ sum[{}] = 0
      /\ \A some \in SUBSET rows :
           some # {} => sum[some] = f[OneOf(some)] + sum[some \ {OneOf(some)}]
  BY <1>7 DEF TableOfSums, OneOf
<1>9. ASSUME NEW k \in Nat
      PROVE  \A some \in SUBSET rows : Cardinality(some) = k => sum[some] \in Int
  <2> DEFINE Typed == {m \in Nat : \A some \in SUBSET rows : Cardinality(some) = m => sum[some] \in Int}
  <2>1. 0 \in Typed
    <3>1. ASSUME NEW some \in SUBSET rows, Cardinality(some) = 0
          PROVE  sum[some] \in Int
      <4>1. some = {}
        BY <3>1, FS_Subset, FS_EmptySet
      <4> QED
        BY <1>8, <4>1
    <3> QED
      BY <3>1
  <2>2. ASSUME NEW m \in Nat, m \in Typed
        PROVE  m + 1 \in Typed
    <3>1. ASSUME NEW some \in SUBSET rows, Cardinality(some) = m + 1
          PROVE  sum[some] \in Int
      <4>1. some # {}
        BY <3>1, FS_EmptySet
      <4>2. /\ OneOf(some) \in rows /\ some \ {OneOf(some)} \in SUBSET rows
            /\ Cardinality(some \ {OneOf(some)}) = m
        BY <3>1, <4>1, OneOfMember
      <4>3. sum[some \ {OneOf(some)}] \in Int /\ f[OneOf(some)] \in Int
        BY <2>2, <4>2
      <4>4. sum[some] = f[OneOf(some)] + sum[some \ {OneOf(some)}]
        BY <1>8, <4>1, Zenon
      <4> QED
        BY <4>3, <4>4
    <3> QED
      BY <3>1
  <2> HIDE DEF Typed
  <2>3. \A m \in Nat : m \in Typed
    BY <2>1, <2>2, SetInduction
  <2> QED
    BY <2>3 DEF Typed
<1>10. \A some \in SUBSET rows : sum[some] \in Int
  BY <1>1, <1>9, FS_Subset, FS_CardinalityType
<1>11. SumsUpto(sum, SUBSET rows, f)
  BY <1>8, <1>10 DEF SumsUpto
<1> QED
  BY <1>11 DEF sum

\* A set adds up alike in any order: what a set has more, its sum has more.
LEMMA SetSumAdd ==
  ASSUME NEW rows, IsFiniteSet(rows), NEW f, \A r \in rows : f[r] \in Int,
         NEW sum, SumsUpto(sum, SUBSET rows, f),
         NEW fewer \in SUBSET rows, NEW z \in rows \ fewer
  PROVE  sum[fewer \union {z}] = sum[fewer] + f[z]
<1> DEFINE Holds(some) == \A x \in rows \ some : sum[some \union {x}] = sum[some] + f[x]
           Added == {n \in Nat : \A some \in SUBSET rows : Cardinality(some) = n => Holds(some)}
<1>1. /\ sum[{}] = 0
      /\ \A some \in SUBSET rows :
           some # {} => sum[some] = f[OneOf(some)] + sum[some \ {OneOf(some)}]
      /\ \A some \in SUBSET rows : sum[some] \in Int
  BY DEF SumsUpto
<1>2. 0 \in Added
  <2>1. ASSUME NEW some \in SUBSET rows, Cardinality(some) = 0, NEW x \in rows \ some
        PROVE  sum[some \union {x}] = sum[some] + f[x]
    <3>1. some = {} /\ some \union {x} = {x}
      BY <2>1, FS_Subset, FS_EmptySet
    <3>2. OneOf({x}) = x /\ {x} \ {OneOf({x})} = {}
      BY DEF OneOf
    <3>3. sum[{x}] = f[OneOf({x})] + sum[{x} \ {OneOf({x})}]
      BY <1>1
    <3>4. sum[{x}] = f[x] + sum[{}] /\ f[x] \in Int
      BY <3>2, <3>3
    <3> QED
      BY <1>1, <3>1, <3>4
  <2> QED
    BY <2>1
<1>3. ASSUME NEW n \in Nat, n \in Added
      PROVE  n + 1 \in Added
  <2>1. ASSUME NEW some \in SUBSET rows, Cardinality(some) = n + 1, NEW x \in rows \ some
        PROVE  sum[some \union {x}] = sum[some] + f[x]
    <3>1. PICK more : more = some \union {x}
      OBVIOUS
    <3>2. PICK y : y = OneOf(more)
      OBVIOUS
    <3>3. more \in SUBSET rows /\ more # {} /\ f[x] \in Int /\ sum[some] \in Int
      BY <1>1, <3>1
    <3>4. y \in more
      BY <3>2, <3>3, OneOfMember
    <3>5. sum[more] = f[y] + sum[more \ {y}]
      BY <1>1, <3>2, <3>3, Zenon
    <3>6. CASE y = x
      <4>1. more \ {y} = some
        BY <3>1, <3>6
      <4>2. sum[more] = f[x] + sum[some]
        BY <3>5, <3>6, <4>1
      <4> QED
        BY <3>1, <3>3, <4>2
    <3>7. CASE y # x
      <4>1. PICK rest : rest = some \ {y}
        OBVIOUS
      <4>2. y \in some /\ y \in rows /\ more \ {y} = rest \union {x} /\ some = rest \union {y}
        BY <3>1, <3>4, <3>7, <4>1
      <4>3. IsFiniteSet(some)
        BY FS_Subset
      <4>4. rest \in SUBSET rows /\ Cardinality(rest) = n
        <5>1. Cardinality(rest) = Cardinality(some) - 1
          BY <4>1, <4>2, <4>3, FS_RemoveElement
        <5>2. (n + 1) - 1 = n
          OBVIOUS
        <5> QED
          BY <2>1, <4>1, <5>1, <5>2
      <4>5. x \in rows \ rest /\ y \in rows \ rest
        BY <4>1, <4>2
      <4>6. sum[rest \union {x}] = sum[rest] + f[x] /\ sum[rest \union {y}] = sum[rest] + f[y]
        BY <1>3, <4>4, <4>5
      <4>7. PICK a \in Int, b \in Int, c \in Int : a = sum[rest] /\ b = f[y] /\ c = f[x]
        BY <1>1, <3>3, <4>2, <4>4
      <4>8. sum[more] = b + (a + c) /\ sum[some] = a + b
        BY <3>5, <4>2, <4>6, <4>7
      <4> QED
        BY <3>1, <4>7, <4>8
    <3> QED
      BY <3>6, <3>7
  <2> QED
    BY <2>1
<1> HIDE DEF Added
<1>4. \A n \in Nat : n \in Added
  BY <1>2, <1>3, SetInduction
<1>5. ASSUME NEW some \in SUBSET rows
      PROVE  Holds(some)
  <2>1. Cardinality(some) \in Nat
    BY FS_Subset, FS_CardinalityType
  <2> QED
    BY <1>4, <2>1 DEF Added
<1> QED
  BY <1>5

\* The table over more rows agrees with the table over fewer.
LEMMA SetSumAgree ==
  ASSUME NEW rows, IsFiniteSet(rows), NEW f, NEW g, \A r \in rows : f[r] = g[r],
         NEW more, rows \subseteq more, NEW sum, SumsUpto(sum, SUBSET rows, f),
         NEW total, SumsUpto(total, SUBSET more, g)
  PROVE  sum[rows] = total[rows]
<1> DEFINE Same == {n \in Nat : \A some \in SUBSET rows : Cardinality(some) = n => sum[some] = total[some]}
<1>1. /\ sum[{}] = 0 /\ total[{}] = 0
      /\ \A some \in SUBSET rows :
           some # {} => /\ sum[some] = f[OneOf(some)] + sum[some \ {OneOf(some)}]
                        /\ total[some] = g[OneOf(some)] + total[some \ {OneOf(some)}]
  BY DEF SumsUpto
<1>2. 0 \in Same
  BY <1>1, FS_Subset, FS_EmptySet
<1>3. ASSUME NEW n \in Nat, n \in Same
      PROVE  n + 1 \in Same
  <2>1. ASSUME NEW some \in SUBSET rows, Cardinality(some) = n + 1
        PROVE  sum[some] = total[some]
    <3>1. some # {}
      <4>1. Cardinality({}) = 0 /\ n + 1 # 0
        BY FS_EmptySet
      <4> QED
        BY <2>1, <4>1
    <3>2. some \ {OneOf(some)} \in SUBSET rows /\ Cardinality(some \ {OneOf(some)}) = n
      BY <2>1, <3>1, OneOfMember
    <3>3. sum[some \ {OneOf(some)}] = total[some \ {OneOf(some)}]
      BY <1>3, <3>2
    <3>4. OneOf(some) \in rows
      BY <3>1, OneOfMember
    <3> QED
      BY <1>1, <3>1, <3>3, <3>4
  <2> QED
    BY <2>1
<1> HIDE DEF Same
<1>4. \A n \in Nat : n \in Same
  BY <1>2, <1>3, SetInduction
<1>5. Cardinality(rows) \in Nat
  BY FS_CardinalityType
<1> QED
  BY <1>4, <1>5 DEF Same

LEMMA SumTableIsSum ==
  ASSUME NEW f, NEW rows
  PROVE  SumFunctionOnSet(f, rows) = SumTable(f, rows)[rows]
BY DEF SumFunctionOnSet, FoldFunctionOnSet, MapThenFoldSet, SumTable, TableOfSums

LEMMA SumOfNothing ==
  ASSUME NEW f
  PROVE  SumFunctionOnSet(f, {}) = 0
<1>1. SumsUpto(SumTable(f, {}), SUBSET {}, f)
  BY FS_EmptySet, SetSumEquation
<1> QED
  BY <1>1, SumTableIsSum DEF SumsUpto

LEMMA SumType ==
  ASSUME NEW rows, IsFiniteSet(rows), NEW f, \A r \in rows : f[r] \in Int
  PROVE  SumFunctionOnSet(f, rows) \in Int
<1>1. SumsUpto(SumTable(f, rows), SUBSET rows, f)
  BY SetSumEquation
<1> QED
  BY <1>1, SumTableIsSum DEF SumsUpto

\* The sum is of what the function is on the set, whatever it is elsewhere.
LEMMA SumAgree ==
  ASSUME NEW rows, IsFiniteSet(rows), NEW f, \A r \in rows : f[r] \in Int,
         NEW g, \A r \in rows : f[r] = g[r]
  PROVE  SumFunctionOnSet(f, rows) = SumFunctionOnSet(g, rows)
<1>1. SumsUpto(SumTable(f, rows), SUBSET rows, f) /\ SumsUpto(SumTable(g, rows), SUBSET rows, g)
  BY SetSumEquation
<1>2. SumTable(f, rows)[rows] = SumTable(g, rows)[rows]
  BY <1>1, SetSumAgree
<1> QED
  BY <1>2, SumTableIsSum

LEMMA SumAdd ==
  ASSUME NEW rows, IsFiniteSet(rows), NEW f, \A r \in rows : f[r] \in Int,
         NEW x, x \notin rows, f[x] \in Int
  PROVE  SumFunctionOnSet(f, rows \union {x}) = SumFunctionOnSet(f, rows) + f[x]
<1>1. PICK more : more = rows \union {x}
  OBVIOUS
<1>2. PICK sum : sum = SumTable(f, rows)
  OBVIOUS
<1>3. PICK total : total = SumTable(f, more)
  OBVIOUS
<1>4. IsFiniteSet(more) /\ \A r \in more : f[r] \in Int
  BY <1>1, FS_AddElement
<1>5. SumsUpto(sum, SUBSET rows, f)
  BY <1>2, SetSumEquation
<1>6. SumsUpto(total, SUBSET more, f)
  BY <1>3, <1>4, SetSumEquation
<1>7. total[rows] = sum[rows]
  BY <1>1, <1>5, <1>6, SetSumAgree
<1>8. total[rows \union {x}] = total[rows] + f[x]
  <2>1. rows \in SUBSET more /\ x \in more \ rows
    BY <1>1
  <2> QED
    BY <1>4, <1>6, <2>1, SetSumAdd
<1> QED
  BY <1>1, <1>2, <1>3, <1>7, <1>8, SumTableIsSum

\* A family of finite sets that has {} and with a set what is larger by one has every set.
LEMMA SubsetInduction ==
  ASSUME NEW S, IsFiniteSet(S), NEW Family, {} \in Family,
         \A T \in SUBSET S : T \in Family => \A x \in S \ T : T \union {x} \in Family
  PROVE  S \in Family
<1> DEFINE Sized == {n \in Nat : \A T \in SUBSET S : Cardinality(T) = n => T \in Family}
<1>1. 0 \in Sized
  BY FS_Subset, FS_EmptySet
<1>2. ASSUME NEW n \in Nat, n \in Sized
      PROVE  n + 1 \in Sized
  <2>1. ASSUME NEW T \in SUBSET S, Cardinality(T) = n + 1
        PROVE  T \in Family
    <3>1. Cardinality({}) = 0 /\ n + 1 # 0
      BY FS_EmptySet
    <3>2. PICK x : x \in T
      BY <2>1, <3>1
    <3>3. PICK rest : rest = T \ {x}
      OBVIOUS
    <3>4. IsFiniteSet(T) /\ rest \in SUBSET S /\ x \in S \ rest /\ T = rest \union {x}
      BY <3>2, <3>3, FS_Subset
    <3>5. Cardinality(rest) = Cardinality(T) - 1
      BY <3>2, <3>3, <3>4, FS_RemoveElement
    <3>6. Cardinality(rest) = n
      BY <2>1, <3>5
    <3>7. rest \in Family
      BY <1>2, <3>4, <3>6
    <3> QED
      BY <3>4, <3>7
  <2> QED
    BY <2>1
<1> HIDE DEF Sized
<1>3. \A n \in Nat : n \in Sized
  BY <1>1, <1>2, SetInduction
<1>4. Cardinality(S) \in Nat
  BY FS_CardinalityType
<1> QED
  BY <1>3, <1>4 DEF Sized

\* What is nowhere off by more than so many times another is not in sum.
LEMMA SumWithin ==
  ASSUME NEW S, IsFiniteSet(S), NEW f, NEW g, NEW c \in Int,
         \A x \in S : /\ f[x] \in Int /\ g[x] \in Int
                      /\ -(c * g[x]) <= f[x] /\ f[x] <= c * g[x]
  PROVE  /\ -(c * SumFunctionOnSet(g, S)) <= SumFunctionOnSet(f, S)
         /\ SumFunctionOnSet(f, S) <= c * SumFunctionOnSet(g, S)
<1> DEFINE Within(T) == /\ -(c * SumFunctionOnSet(g, T)) <= SumFunctionOnSet(f, T)
                        /\ SumFunctionOnSet(f, T) <= c * SumFunctionOnSet(g, T)
           Family == {T \in SUBSET S : Within(T)}
<1>1. {} \in Family
  <2>1. SumFunctionOnSet(f, {}) = 0 /\ SumFunctionOnSet(g, {}) = 0
    BY SumOfNothing
  <2>2. c * 0 = 0 /\ \A z \in Int : z = 0 => -z = 0
    OBVIOUS
  <2> QED
    BY <2>1, <2>2
<1>2. ASSUME NEW T \in SUBSET S, T \in Family, NEW x \in S \ T
      PROVE  T \union {x} \in Family
  <2>1. PICK some : some = T \union {x}
    OBVIOUS
  <2>2. IsFiniteSet(T) /\ some \in SUBSET S
    BY <2>1, FS_Subset
  <2>3. /\ SumFunctionOnSet(f, some) = SumFunctionOnSet(f, T) + f[x]
        /\ SumFunctionOnSet(g, some) = SumFunctionOnSet(g, T) + g[x]
        /\ SumFunctionOnSet(f, T) \in Int /\ SumFunctionOnSet(g, T) \in Int
    BY <2>1, <2>2, SumAdd, SumType
  <2>4. PICK a \in Int, b \in Int, p \in Int, q \in Int :
          /\ a = SumFunctionOnSet(f, T) /\ b = SumFunctionOnSet(g, T) /\ p = f[x] /\ q = g[x]
    BY <2>3
  <2>5. PICK cb \in Int, cq \in Int : cb = c * b /\ cq = c * q
    OBVIOUS
  <2>6. c * (b + q) = cb + cq
    BY <2>5
  <2>7. -cb <= a /\ a <= cb /\ -cq <= p /\ p <= cq
    BY <1>2, <2>4, <2>5
  <2>8. -(cb + cq) <= a + p /\ a + p <= cb + cq
    BY <2>7
  <2>9. Within(some)
    BY <2>3, <2>4, <2>6, <2>8
  <2> QED
    BY <2>1, <2>2, <2>9
<1> HIDE DEF Family
<1>3. S \in Family
  BY <1>1, <1>2, SubsetInduction
<1> QED
  BY <1>3 DEF Family

LEMMA SumOfOnes ==
  ASSUME NEW S, IsFiniteSet(S), NEW f, \A x \in S : f[x] = 1
  PROVE  SumFunctionOnSet(f, S) = Cardinality(S)
<1> DEFINE Family == {T \in SUBSET S : SumFunctionOnSet(f, T) = Cardinality(T)}
<1>1. {} \in Family
  BY SumOfNothing, FS_EmptySet
<1>2. ASSUME NEW T \in SUBSET S, T \in Family, NEW x \in S \ T
      PROVE  T \union {x} \in Family
  <2>1. IsFiniteSet(T)
    BY FS_Subset
  <2>2. SumFunctionOnSet(f, T \union {x}) = SumFunctionOnSet(f, T) + f[x]
    BY <2>1, SumAdd
  <2>3. Cardinality(T \union {x}) = Cardinality(T) + 1
    BY <2>1, FS_AddElement
  <2> QED
    BY <1>2, <2>2, <2>3
<1> HIDE DEF Family
<1>3. S \in Family
  BY <1>1, <1>2, SubsetInduction
<1> QED
  BY <1>3 DEF Family

\* Where one value changes, the sum changes by as much.
LEMMA SumUpdate ==
  ASSUME NEW S, IsFiniteSet(S), NEW f, NEW g, \A x \in S : f[x] \in Int /\ g[x] \in Int,
         NEW k \in S, \A x \in S : x # k => f[x] = g[x]
  PROVE  SumFunctionOnSet(g, S) = SumFunctionOnSet(f, S) + (g[k] - f[k])
<1>1. PICK rest : rest = S \ {k}
  OBVIOUS
<1>2. IsFiniteSet(rest) /\ S = rest \union {k} /\ k \notin rest
  BY <1>1, FS_RemoveElement
<1>3. SumFunctionOnSet(f, rest) = SumFunctionOnSet(g, rest)
  BY <1>1, <1>2, SumAgree
<1>4. /\ SumFunctionOnSet(f, S) = SumFunctionOnSet(f, rest) + f[k]
      /\ SumFunctionOnSet(g, S) = SumFunctionOnSet(g, rest) + g[k]
      /\ SumFunctionOnSet(f, rest) \in Int /\ f[k] \in Int /\ g[k] \in Int
  BY <1>2, SumAdd, SumType
<1> QED
  BY <1>3, <1>4

\* A set sums to the sum of the sums of its classes.
LEMMA SumOfClasses ==
  ASSUME NEW S, IsFiniteSet(S), NEW f, \A x \in S : f[x] \in Int,
         NEW K, IsFiniteSet(K), NEW class, \A x \in S : class[x] \in K,
         NEW parts, \A k \in K : \A x : x \in parts[k] <=> x \in S /\ class[x] = k,
         NEW sums, \A k \in K : sums[k] = SumFunctionOnSet(f, parts[k])
  PROVE  SumFunctionOnSet(sums, K) = SumFunctionOnSet(f, S)
<1> DEFINE Of(T) == [k \in K |-> SumFunctionOnSet(f, {x \in T : class[x] = k})]
           Family == {T \in SUBSET S : SumFunctionOnSet(Of(T), K) = SumFunctionOnSet(f, T)}
<1>1. \A T \in SUBSET S : \A k \in K : Of(T)[k] \in Int
  <2> SUFFICES ASSUME NEW T \in SUBSET S, NEW k \in K PROVE Of(T)[k] \in Int
    OBVIOUS
  <2>1. PICK some : some = {x \in T : class[x] = k}
    OBVIOUS
  <2>2. IsFiniteSet(some) /\ some \in SUBSET S
    BY <2>1, FS_Subset
  <2>3. SumFunctionOnSet(f, some) \in Int
    BY <2>2, SumType
  <2> QED
    BY <2>1, <2>3
<1>2. {} \in Family
  <2>1. \A k \in K : {x \in {} : class[x] = k} = {}
    OBVIOUS
  <2>2. \A k \in K : Of({})[k] = 0
    BY <2>1, SumOfNothing
  <2>3. PICK none : none = Of({})
    OBVIOUS
  <2>4. \A k \in K : none[k] \in Int /\ -(0 * none[k]) <= none[k] /\ none[k] <= 0 * none[k]
    BY <2>2, <2>3
  <2>5. SumFunctionOnSet(none, K) \in Int
    BY <2>4, SumType
  <2>6. /\ -(0 * SumFunctionOnSet(none, K)) <= SumFunctionOnSet(none, K)
        /\ SumFunctionOnSet(none, K) <= 0 * SumFunctionOnSet(none, K)
    BY <2>4, SumWithin
  <2>7. SumFunctionOnSet(none, K) = 0
    BY <2>5, <2>6
  <2> QED
    BY <2>3, <2>7, SumOfNothing
<1>3. ASSUME NEW T \in SUBSET S, T \in Family, NEW x \in S \ T
      PROVE  T \union {x} \in Family
  <2>1. PICK some, k, old, new : some = T \union {x} /\ k = class[x] /\ old = Of(T) /\ new = Of(some)
    OBVIOUS
  <2>2. IsFiniteSet(T) /\ some \in SUBSET S /\ k \in K
    BY <2>1, FS_Subset
  <2>3. \A j \in K : j # k => new[j] = old[j]
    <3> SUFFICES ASSUME NEW j \in K, j # k PROVE new[j] = old[j]
      OBVIOUS
    <3>1. {y \in some : class[y] = j} = {y \in T : class[y] = j}
      BY <2>1
    <3> QED
      BY <2>1, <3>1
  <2>4. new[k] = old[k] + f[x]
    <3>1. PICK before : before = {y \in T : class[y] = k}
      OBVIOUS
    <3>2. {y \in some : class[y] = k} = before \union {x}
      BY <2>1, <3>1
    <3>3. IsFiniteSet(before) /\ x \notin before /\ before \in SUBSET S
      BY <2>2, <3>1, FS_Subset
    <3>4. SumFunctionOnSet(f, before \union {x}) = SumFunctionOnSet(f, before) + f[x]
      BY <3>3, SumAdd
    <3> QED
      BY <2>1, <2>2, <3>1, <3>2, <3>4
  <2>5. \A j \in K : old[j] \in Int /\ new[j] \in Int
    BY <1>1, <2>1, <2>2
  <2>6. SumFunctionOnSet(new, K) = SumFunctionOnSet(old, K) + (new[k] - old[k])
    BY <2>2, <2>3, <2>5, SumUpdate
  <2>7. SumFunctionOnSet(f, some) = SumFunctionOnSet(f, T) + f[x]
    BY <2>1, <2>2, SumAdd
  <2>8. SumFunctionOnSet(old, K) = SumFunctionOnSet(f, T)
    BY <1>3, <2>1
  <2>9. old[k] \in Int /\ f[x] \in Int
    BY <2>2, <2>5
  <2>10. SumFunctionOnSet(new, K) = SumFunctionOnSet(f, some)
    BY <2>4, <2>6, <2>7, <2>8, <2>9
  <2> QED
    BY <2>1, <2>2, <2>10
<1>4. S \in Family
  <2> HIDE DEF Family
  <2> QED
    BY <1>2, <1>3, SubsetInduction
<1>5. PICK all : all = Of(S)
  OBVIOUS
<1>6. SumFunctionOnSet(all, K) = SumFunctionOnSet(f, S)
  BY <1>4, <1>5
<1>7. \A k \in K : all[k] \in Int /\ all[k] = sums[k]
  <2> SUFFICES ASSUME NEW k \in K PROVE all[k] \in Int /\ all[k] = sums[k]
    OBVIOUS
  <2>1. {x \in S : class[x] = k} = parts[k]
    OBVIOUS
  <2> QED
    BY <1>1, <1>5, <2>1
<1> QED
  BY <1>6, <1>7, SumAgree

LEMMA ColumnTotalOfNothing ==
  ASSUME NEW column
  PROVE  ColumnTotal({}, column) = 0
BY SumOfNothing DEF ColumnTotal, SumFunction

LEMMA ColumnTotalType ==
  ASSUME NEW rows, IsFiniteSet(rows), NEW column, \A r \in rows : r[column] \in Int
  PROVE  ColumnTotal(rows, column) \in Int
<1>1. PICK f : f = [row \in rows |-> row[column]]
  OBVIOUS
<1>2. SumFunctionOnSet(f, rows) \in Int /\ DOMAIN f = rows
  BY <1>1, SumType
<1> QED
  BY <1>1, <1>2 DEF ColumnTotal, SumFunction

LEMMA ColumnTotalAdd ==
  ASSUME NEW rows, IsFiniteSet(rows), NEW column, \A r \in rows : r[column] \in Int,
         NEW x, x \notin rows, x[column] \in Int
  PROVE  ColumnTotal(rows \union {x}, column) = ColumnTotal(rows, column) + x[column]
<1>1. PICK more : more = rows \union {x}
  OBVIOUS
<1>2. PICK f, g : f = [row \in rows |-> row[column]] /\ g = [row \in more |-> row[column]]
  OBVIOUS
<1>3. DOMAIN f = rows /\ DOMAIN g = more /\ \A r \in rows : f[r] \in Int /\ f[r] = g[r]
  BY <1>1, <1>2
<1>4. g[x] = x[column]
  BY <1>1, <1>2
<1>5. SumFunctionOnSet(g, more) = SumFunctionOnSet(g, rows) + g[x]
  BY <1>1, <1>3, <1>4, SumAdd
<1>6. SumFunctionOnSet(f, rows) = SumFunctionOnSet(g, rows)
  BY <1>3, SumAgree
<1> QED
  BY <1>1, <1>2, <1>3, <1>4, <1>5, <1>6 DEF ColumnTotal, SumFunction

-----------------------------------------------------------------------------
(* Orders of finite sets.                                                  *)

\* A relation that is transitive and irreflexive has a maximal member in every
\* finite set that is not empty.
LEMMA MaximalExists ==
  ASSUME NEW S, IsFiniteSet(S), S # {}, NEW R,
         \A x \in S : <<x, x>> \notin R,
         \A x, y, z \in S : <<x, y>> \in R /\ <<y, z>> \in R => <<x, z>> \in R
  PROVE  \E x \in S : \A y \in S : <<x, y>> \notin R
<1> DEFINE HasMaximum(T) == \E x \in T : \A y \in T : <<x, y>> \notin R
           Good == {n \in Nat : \A T \in SUBSET S :
                      T # {} /\ IsFiniteSet(T) /\ Cardinality(T) = n => HasMaximum(T)}
<1>1. 0 \in Good
  BY FS_EmptySet
<1>2. ASSUME NEW n \in Nat, n \in Good
      PROVE  n + 1 \in Good
  <2>1. SUFFICES ASSUME NEW T \in SUBSET S, T # {}, IsFiniteSet(T), Cardinality(T) = n + 1
                 PROVE  HasMaximum(T)
    OBVIOUS
  <2>2. PICK t \in T : TRUE
    BY <2>1
  <2> DEFINE rest == T \ {t}
  <2>3. IsFiniteSet(rest) /\ Cardinality(rest) = n
    BY <1>2, <2>1, <2>2, FS_RemoveElement
  <2>4. CASE rest = {}
    <3>1. T = {t}
      BY <2>2, <2>4
    <3> QED
      BY <2>1, <3>1
  <2>5. CASE rest # {}
    <3>1. PICK x \in rest : \A y \in rest : <<x, y>> \notin R
      BY <1>2, <2>3, <2>5
    <3>2. CASE <<x, t>> \notin R
      <4>1. \A y \in T : <<x, y>> \notin R
        BY <3>1, <3>2
      <4> QED
        BY <3>1, <4>1
    <3>3. CASE <<x, t>> \in R
      <4>1. \A y \in T : <<t, y>> \notin R
        <5>1. ASSUME NEW y \in T, <<t, y>> \in R PROVE FALSE
          <6>1. <<x, y>> \in R
            BY <2>1, <2>2, <3>1, <3>3, <5>1
          <6>2. y = t
            BY <3>1, <5>1, <6>1
          <6> QED
            BY <2>1, <5>1, <6>2
        <5> QED
          BY <5>1
      <4> QED
        BY <2>2, <4>1
    <3> QED
      BY <3>2, <3>3
  <2> QED
    BY <2>4, <2>5
<1> HIDE DEF Good
<1>3. \A n \in Nat : n \in Good
  BY <1>1, <1>2, SetInduction
<1>4. Cardinality(S) \in Good
  BY <1>3, FS_CardinalityType
<1> QED
  BY <1>4 DEF Good

\* A finite set that is totally ordered can be counted off in that order.
LEMMA SortedEnumeration ==
  ASSUME NEW S, IsFiniteSet(S), NEW R,
         \A x \in S : <<x, x>> \notin R,
         \A x, y, z \in S : <<x, y>> \in R /\ <<y, z>> \in R => <<x, z>> \in R,
         \A x, y \in S : x = y \/ <<x, y>> \in R \/ <<y, x>> \in R
  PROVE  \E f \in [1..Cardinality(S) -> S] :
           \A i, j \in 1..Cardinality(S) : i < j => <<f[i], f[j]>> \in R
<1> DEFINE Sorts(f, T, n) == \A i, j \in 1..n : i < j => <<f[i], f[j]>> \in R
           Good == {n \in Nat : \A T \in SUBSET S :
                      IsFiniteSet(T) /\ Cardinality(T) = n => \E f \in [1..n -> T] : Sorts(f, T, n)}
<1>1. 0 \in Good
  <2>1. ASSUME NEW T \in SUBSET S PROVE \E f \in [1..0 -> T] : Sorts(f, T, 0)
    <3> DEFINE f == [i \in 1..0 |-> i]
    <3>1. f \in [1..0 -> T] /\ Sorts(f, T, 0)
      OBVIOUS
    <3> QED
      BY <3>1
  <2> QED
    BY <2>1
<1>2. ASSUME NEW n \in Nat, n \in Good
      PROVE  n + 1 \in Good
  <2>1. SUFFICES ASSUME NEW T \in SUBSET S, IsFiniteSet(T), Cardinality(T) = n + 1
                 PROVE  \E f \in [1..(n + 1) -> T] : Sorts(f, T, n + 1)
    OBVIOUS
  <2>2. T # {}
    BY <2>1, FS_EmptySet
  <2>3. PICK x \in T : \A y \in T : <<x, y>> \notin R
    <3>1. /\ \A y \in T : <<y, y>> \notin R
          /\ \A u, v, z \in T : <<u, v>> \in R /\ <<v, z>> \in R => <<u, z>> \in R
      OBVIOUS
    <3> QED
      BY <2>1, <2>2, <3>1, MaximalExists
  <2>4. PICK rest \in SUBSET S : rest = T \ {x}
    OBVIOUS
  <2>5. IsFiniteSet(rest) /\ Cardinality(rest) = n
    <3>1. IsFiniteSet(T \ {x}) /\ Cardinality(T \ {x}) = Cardinality(T) - 1
      BY <2>1, <2>3, FS_RemoveElement
    <3>2. Cardinality(T) - 1 = n
      BY <1>2, <2>1
    <3> QED
      BY <2>4, <3>1, <3>2
  <2>6. PICK f \in [1..n -> rest] : Sorts(f, rest, n)
    BY <1>2, <2>5
  <2>7. PICK g : g = [i \in 1..(n + 1) |-> IF i = n + 1 THEN x ELSE f[i]]
    OBVIOUS
  <2>8. /\ g[n + 1] = x /\ \A i \in 1..n : g[i] = f[i] /\ f[i] \in rest
        /\ \A i \in 1..(n + 1) : i = n + 1 \/ i \in 1..n
    BY <2>7
  <2>9. g \in [1..(n + 1) -> T]
    BY <2>3, <2>4, <2>7, <2>8
  <2>10. \A y \in rest : <<y, x>> \in R
    BY <2>3, <2>4
  <2>11. ASSUME NEW i \in 1..(n + 1), NEW j \in 1..(n + 1), i < j
         PROVE  <<g[i], g[j]>> \in R
    <3>1. i \in 1..n
      BY <2>11
    <3>2. CASE j = n + 1
      BY <2>8, <2>10, <3>1, <3>2
    <3>3. CASE j \in 1..n
      BY <2>6, <2>8, <2>11, <3>1, <3>3
    <3> QED
      BY <2>8, <3>2, <3>3
  <2>12. Sorts(g, T, n + 1)
    BY <2>11
  <2> QED
    BY <2>9, <2>12
<1>3. \A n \in Nat : n \in Good
  <2> HIDE DEF Good
  <2> QED
    BY <1>1, <1>2, SetInduction
<1>4. Cardinality(S) \in Good
  BY <1>3, FS_CardinalityType
<1> QED
  BY <1>4
=============================================================================
