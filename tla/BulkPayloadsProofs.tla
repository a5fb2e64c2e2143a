------------------------ MODULE BulkPayloadsProofs ------------------------
(***************************************************************************)
(* What BulkPayloads.tla says of the payloads, proved for any callers,     *)
(* lists of items, numbers of workers and sizes of batches.                *)
(***************************************************************************)
EXTENDS BulkPayloads, SequenceTheorems, FiniteSetTheorems, WellFoundedInduction, TLAPS

-----------------------------------------------------------------------------
(***************************************************************************)
(* Concatenations.                                                         *)
(***************************************************************************)
\* Induction, over a set instead of a predicate.
LEMMA SetInduction ==
  ASSUME NEW T, 0 \in T, \A n \in Nat : n \in T => n + 1 \in T
  PROVE  Nat \subseteq T
<1> SUFFICES ASSUME Nat \ T # {} PROVE FALSE
  OBVIOUS
<1>1. PICK x \in Nat \ T : \A y \in Nat \ T : <<y, x>> \notin OpToRel(<, Nat)
  BY NatLessThanWellFounded, WFMin
<1>2. x # 0 /\ x - 1 \in Nat
  <2>1. x \in Nat /\ x \notin T
    BY <1>1, Zenon
  <2> QED BY <2>1
<1>3. <<x - 1, x>> \in OpToRel(<, Nat)
  BY <1>2 DEF OpToRel
<1>4. x - 1 \in T
  BY <1>1, <1>2, <1>3
<1> QED BY <1>2, <1>4

\* The sum of the lengths before each element of a list.
LEMMA StartsDefined ==
  ASSUME NEW B, NEW arrays \in Seq(Seq(B))
  PROVE  LET n == Len(arrays)
             st == Starts(arrays)
         IN /\ st \in [1..n + 1 -> Nat]
            /\ st[1] = 0
            /\ \A i \in 1..n : st[i + 1] = st[i] + Len(arrays[i])
<1> DEFINE n == Len(arrays)
           Has(m) == \E f \in [1..m + 1 -> Nat] :
                       /\ f[1] = 0
                       /\ \A i \in 1..m : f[i + 1] = f[i] + Len(arrays[i])
           T == {m \in Nat : m <= n => Has(m)}
<1>1. n \in Nat /\ \A i \in 1..n : Len(arrays[i]) \in Nat
  BY LenProperties, ElementOfSeq
<1> HIDE DEF n
<1>2. Has(0)
  <2> DEFINE f == [i \in 1..0 + 1 |-> 0]
  <2>1. f \in [1..0 + 1 -> Nat] /\ f[1] = 0 /\ \A i \in 1..0 : f[i + 1] = f[i] + Len(arrays[i])
    OBVIOUS
  <2> QED BY <2>1
<1>3. ASSUME NEW m \in Nat, m + 1 <= n, Has(m) PROVE Has(m + 1)
  <2>1. PICK f \in [1..m + 1 -> Nat] :
          /\ f[1] = 0
          /\ \A i \in 1..m : f[i + 1] = f[i] + Len(arrays[i])
    BY <1>3
  <2> DEFINE g == [i \in 1..(m + 1) + 1 |->
                    IF i <= m + 1 THEN f[i] ELSE f[m + 1] + Len(arrays[m + 1])]
  <2>2. g \in [1..(m + 1) + 1 -> Nat]
    BY <1>1, <1>3, <2>1
  <2>3. g[1] = 0
    BY <2>1
  <2>4. ASSUME NEW i \in 1..m + 1 PROVE g[i + 1] = g[i] + Len(arrays[i])
    <3>1. CASE i \in 1..m
      BY <2>1, <3>1
    <3>2. CASE i = m + 1
      BY <3>2
    <3> QED BY <3>1, <3>2
  <2> HIDE DEF g
  <2> QED BY <2>2, <2>3, <2>4
<1>4. Has(n)
  <2> HIDE DEF Has
  <2>1. 0 \in T /\ \A m \in Nat : m \in T => m + 1 \in T
    BY <1>1, <1>2, <1>3
  <2>2. Nat \subseteq T
    <3> HIDE DEF T
    <3> QED BY <2>1, SetInduction
  <2> QED BY <1>1, <2>2
<1>5. PICK f \in [1..n + 1 -> Nat] :
        /\ f[1] = 0
        /\ \A i \in 1..n : f[i + 1] = f[i] + Len(arrays[i])
  BY <1>1, <1>4
<1> DEFINE Step(h) == [i \in 1..n + 1 |-> IF i = 1 THEN 0 ELSE h[i - 1] + Len(arrays[i - 1])]
<1>6. f = Step(f)
  <2>1. \A i \in 1..n + 1 : f[i] = Step(f)[i]
    <3> TAKE i \in 1..n + 1
    <3>1. CASE i = 1
      BY <3>1, <1>5
    <3>2. CASE i # 1
      <4>1. i - 1 \in 1..n /\ (i - 1) + 1 = i
        BY <3>2, <1>1
      <4> QED BY <4>1, <1>5, <3>2
    <3> QED BY <3>1, <3>2
  <2> QED BY <2>1, <1>5
<1> DEFINE st == Starts(arrays)
<1>7. st = CHOOSE h : h = Step(h)
  BY DEF Starts, n
<1>8. st = Step(st)
  BY <1>6, <1>7
<1> HIDE DEF st
<1>9. st[1] = 0 /\ \A i \in 1..n : st[i + 1] = st[i] + Len(arrays[i])
  <2>1. 1 \in 1..n + 1
    BY <1>1
  <2>2. ASSUME NEW i \in 1..n PROVE i + 1 \in 1..n + 1 /\ i + 1 # 1 /\ (i + 1) - 1 = i
    BY <1>1
  <2> QED BY <1>8, <2>1, <2>2
<1>10. st \in [1..n + 1 -> Nat]
  <2> DEFINE U == {m \in Nat : m <= n => st[m + 1] \in Nat}
  <2>1. 0 \in U /\ \A m \in Nat : m \in U => m + 1 \in U
    <3>1. 0 \in U
      BY <1>9
    <3>2. ASSUME NEW m \in Nat, m \in U PROVE m + 1 \in U
      <4> SUFFICES ASSUME m + 1 <= n PROVE st[(m + 1) + 1] \in Nat
        OBVIOUS
      <4>1. m + 1 \in 1..n /\ st[m + 1] \in Nat
        BY <1>1, <3>2
      <4>2. st[(m + 1) + 1] = st[m + 1] + Len(arrays[m + 1])
        BY <1>9, <4>1
      <4>3. Len(arrays[m + 1]) \in Nat
        BY <1>1, <4>1
      <4> QED BY <4>1, <4>2, <4>3
    <3> QED BY <3>1, <3>2
  <2>2. Nat \subseteq U
    <3> HIDE DEF U
    <3> QED BY <2>1, SetInduction
  <2>3. ASSUME NEW i \in 1..n + 1 PROVE st[i] \in Nat
    <3>1. i - 1 \in Nat /\ i - 1 <= n /\ (i - 1) + 1 = i
      BY <1>1
    <3> QED BY <2>2, <3>1
  <2> QED BY <1>8, <2>3
<1> QED BY <1>9, <1>10 DEF st, n

\* No element begins before an earlier one, and every place up to the end is inside
\* an element.
LEMMA StartsOrdered ==
  ASSUME NEW B, NEW arrays \in Seq(Seq(B))
  PROVE  LET n == Len(arrays)
             st == Starts(arrays)
         IN /\ \A i, j \in 1..n + 1 : i <= j => st[i] <= st[j]
            /\ \A p \in 1..st[n + 1] : \E i \in 1..n : \E k \in 1..Len(arrays[i]) : p = st[i] + k
<1> DEFINE n == Len(arrays)
           st == Starts(arrays)
<1>1. n \in Nat /\ \A i \in 1..n : Len(arrays[i]) \in Nat
  BY LenProperties, ElementOfSeq
<1>2. /\ st \in [1..n + 1 -> Nat]
      /\ st[1] = 0
      /\ \A i \in 1..n : st[i + 1] = st[i] + Len(arrays[i])
  BY StartsDefined
<1> HIDE DEF n, st
<1> DEFINE Inside(m) == \A p \in 1..st[m + 1] : \E i \in 1..m :
                          \E k \in 1..Len(arrays[i]) : p = st[i] + k
           U == {m \in Nat : m <= n => Inside(m) /\ \A i \in 1..m + 1 : st[i] <= st[m + 1]}
<1>3. 0 \in U
  BY <1>2
<1>4. ASSUME NEW m \in Nat, m \in U PROVE m + 1 \in U
  <2> SUFFICES ASSUME m + 1 <= n
               PROVE  Inside(m + 1) /\ \A i \in 1..(m + 1) + 1 : st[i] <= st[(m + 1) + 1]
    OBVIOUS
  <2>1. /\ m + 1 \in 1..n /\ (m + 1) + 1 \in 1..n + 1
        /\ Inside(m) /\ \A i \in 1..m + 1 : st[i] <= st[m + 1]
    BY <1>1, <1>4
  <2>2. st[(m + 1) + 1] = st[m + 1] + Len(arrays[m + 1]) /\ Len(arrays[m + 1]) \in Nat
    BY <1>1, <1>2, <2>1
  <2>3. st[m + 1] \in Nat
    BY <1>1, <1>2, <2>1
  <2>4. ASSUME NEW i \in 1..(m + 1) + 1 PROVE st[i] <= st[(m + 1) + 1]
    <3>1. CASE i \in 1..m + 1
      <4>1. st[i] <= st[m + 1] /\ st[i] \in Nat
        BY <1>1, <1>2, <2>1, <3>1
      <4> QED BY <2>2, <2>3, <4>1
    <3>2. CASE i = (m + 1) + 1
      BY <1>2, <2>1, <3>2
    <3> QED BY <3>1, <3>2
  <2>5. ASSUME NEW p \in 1..st[(m + 1) + 1]
        PROVE  \E i \in 1..m + 1 : \E k \in 1..Len(arrays[i]) : p = st[i] + k
    <3>1. CASE p <= st[m + 1]
      BY <2>1, <2>3, <3>1
    <3>2. CASE p > st[m + 1]
      <4>1. p - st[m + 1] \in 1..Len(arrays[m + 1]) /\ p = st[m + 1] + (p - st[m + 1])
        BY <2>2, <2>3, <3>2, SMTT(30)
      <4> QED BY <4>1
    <3> QED BY <2>3, <3>1, <3>2
  <2> QED BY <2>4, <2>5
<1>5. Nat \subseteq U
  <2> HIDE DEF U
  <2> QED BY <1>3, <1>4, SetInduction
<1>6. ASSUME NEW i \in 1..n + 1, NEW j \in 1..n + 1, i <= j PROVE st[i] <= st[j]
  <2>1. j - 1 \in Nat /\ j - 1 <= n /\ (j - 1) + 1 = j /\ i \in 1..(j - 1) + 1
    BY <1>1, <1>6
  <2>2. \A k \in 1..(j - 1) + 1 : st[k] <= st[(j - 1) + 1]
    BY <1>5, <2>1
  <2> QED BY <2>1, <2>2
<1>7. Inside(n)
  BY <1>1, <1>5
<1> QED BY <1>6, <1>7 DEF n, st

\* FlattenSeq joins the elements one by one.
LEMMA FlattenSeqDefined ==
  ASSUME NEW B, NEW arrays \in Seq(Seq(B)), arrays # <<>>
  PROVE  LET n == Len(arrays)
         IN \E g \in [1..n -> Seq(B)] :
              /\ g[1] = arrays[1]
              /\ \A i \in 1..n - 1 : g[i + 1] = g[i] \o arrays[i + 1]
              /\ FlattenSeq(arrays) = g[n]
<1> DEFINE n == Len(arrays)
           Has(m) == \E f \in [1..m + 1 -> Seq(B)] :
                       /\ f[1] = arrays[1]
                       /\ \A i \in 1..m : f[i + 1] = f[i] \o arrays[i + 1]
           T == {m \in Nat : m < n => Has(m)}
<1>1. n \in Nat \ {0} /\ \A i \in 1..n : arrays[i] \in Seq(B)
  BY EmptySeq, ElementOfSeq
<1> HIDE DEF n
<1>2. Has(0)
  <2> DEFINE f == [i \in 1..0 + 1 |-> arrays[1]]
  <2>1. f \in [1..0 + 1 -> Seq(B)] /\ f[1] = arrays[1]
        /\ \A i \in 1..0 : f[i + 1] = f[i] \o arrays[i + 1]
    BY <1>1
  <2> QED BY <2>1
<1>3. ASSUME NEW m \in Nat, m + 1 < n, Has(m) PROVE Has(m + 1)
  <2>1. PICK f \in [1..m + 1 -> Seq(B)] :
          /\ f[1] = arrays[1]
          /\ \A i \in 1..m : f[i + 1] = f[i] \o arrays[i + 1]
    BY <1>3
  <2> DEFINE g == [i \in 1..(m + 1) + 1 |->
                    IF i <= m + 1 THEN f[i] ELSE f[m + 1] \o arrays[(m + 1) + 1]]
  <2>2. f[m + 1] \o arrays[(m + 1) + 1] \in Seq(B)
    <3>1. f[m + 1] \in Seq(B) /\ arrays[(m + 1) + 1] \in Seq(B)
      BY <1>1, <1>3, <2>1
    <3> QED BY <3>1, ConcatProperties
  <2>3. g \in [1..(m + 1) + 1 -> Seq(B)]
    BY <1>3, <2>1, <2>2
  <2>4. g[1] = arrays[1]
    BY <2>1
  <2>5. \A i \in 1..m + 1 : g[i] = f[i]
    OBVIOUS
  <2>6. g[(m + 1) + 1] = f[m + 1] \o arrays[(m + 1) + 1]
    <3>1. (m + 1) + 1 \in 1..(m + 1) + 1 /\ ~((m + 1) + 1 <= m + 1)
      OBVIOUS
    <3> QED BY <3>1, Zenon
  <2> HIDE DEF g
  <2>7. ASSUME NEW i \in 1..m + 1 PROVE g[i + 1] = g[i] \o arrays[i + 1]
    <3>1. CASE i \in 1..m
      <4>1. g[i + 1] = f[i + 1] /\ g[i] = f[i]
        BY <2>5, <3>1
      <4> QED BY <2>1, <3>1, <4>1
    <3>2. CASE i = m + 1
      <4>1. g[m + 1] = f[m + 1]
        BY <2>5
      <4> QED BY <2>6, <3>2, <4>1
    <3>3. i \in 1..m \/ i = m + 1
      OBVIOUS
    <3> QED BY <3>1, <3>2, <3>3
  <2> HIDE DEF g
  <2> QED BY <2>3, <2>4, <2>7
<1>4. Has(n - 1)
  <2> HIDE DEF Has
  <2>1. 0 \in T /\ \A m \in Nat : m \in T => m + 1 \in T
    BY <1>1, <1>2, <1>3
  <2>2. Nat \subseteq T
    <3> HIDE DEF T
    <3> QED BY <2>1, SetInduction
  <2> QED BY <1>1, <2>2
<1>5. PICK f \in [1..n -> Seq(B)] :
        /\ f[1] = arrays[1]
        /\ \A i \in 1..n - 1 : f[i + 1] = f[i] \o arrays[i + 1]
  <2>1. (n - 1) + 1 = n
    BY <1>1
  <2> QED BY <1>4, <2>1
<1> DEFINE Step(h) == [i \in 1..n |-> IF i = 1 THEN arrays[i] ELSE h[i - 1] \o arrays[i]]
<1>6. f = Step(f)
  <2>1. ASSUME NEW i \in 1..n PROVE f[i] = Step(f)[i]
    <3>1. CASE i = 1
      BY <3>1, <1>5
    <3>2. CASE i # 1
      <4>1. i - 1 \in 1..n - 1 /\ (i - 1) + 1 = i
        BY <3>2, <1>1
      <4> QED BY <4>1, <1>5, <3>2
    <3> QED BY <3>1, <3>2
  <2> QED BY <2>1, <1>5
<1> DEFINE g == CHOOSE h : h = Step(h)
<1>7. g = Step(g)
  BY <1>6
<1>8. FlattenSeq(arrays) = g[n]
  BY <1>1 DEF FlattenSeq, n
<1> HIDE DEF g
<1>9. g[1] = arrays[1] /\ \A i \in 1..n - 1 : g[i + 1] = g[i] \o arrays[i + 1]
  <2>1. 1 \in 1..n
    BY <1>1
  <2>2. ASSUME NEW i \in 1..n - 1 PROVE i + 1 \in 1..n /\ i + 1 # 1 /\ (i + 1) - 1 = i
    BY <1>1
  <2> QED BY <1>7, <2>1, <2>2
<1>10. g \in [1..n -> Seq(B)]
  <2> DEFINE U == {m \in Nat : m < n => g[m + 1] \in Seq(B)}
  <2>1. 0 \in U
    BY <1>1, <1>9
  <2>2. ASSUME NEW m \in Nat, m \in U PROVE m + 1 \in U
    <3> SUFFICES ASSUME m + 1 < n PROVE g[(m + 1) + 1] \in Seq(B)
      OBVIOUS
    <3>1. m + 1 \in 1..n - 1 /\ g[m + 1] \in Seq(B) /\ arrays[(m + 1) + 1] \in Seq(B)
      BY <1>1, <2>2
    <3>2. g[(m + 1) + 1] = g[m + 1] \o arrays[(m + 1) + 1]
      BY <1>9, <3>1
    <3> QED BY <3>1, <3>2, ConcatProperties
  <2>3. Nat \subseteq U
    <3> HIDE DEF U
    <3> QED BY <2>1, <2>2, SetInduction
  <2>4. ASSUME NEW i \in 1..n PROVE g[i] \in Seq(B)
    <3>1. i - 1 \in Nat /\ i - 1 < n /\ (i - 1) + 1 = i
      BY <1>1
    <3> QED BY <2>3, <3>1
  <2> QED BY <1>7, <2>4
<1> QED BY <1>8, <1>9, <1>10 DEF n

\* In the concatenation of a list every element is at its start.
LEMMA FlattenSeqFacts ==
  ASSUME NEW B, NEW arrays \in Seq(Seq(B))
  PROVE  LET n == Len(arrays)
             st == Starts(arrays)
             flattened == FlattenSeq(arrays)
         IN /\ flattened \in Seq(B) /\ Len(flattened) = st[n + 1]
            /\ \A i \in 1..n : \A k \in 1..Len(arrays[i]) :
                 st[i] + k \in 1..Len(flattened) /\ flattened[st[i] + k] = arrays[i][k]
<1> DEFINE n == Len(arrays)
           st == Starts(arrays)
           flattened == FlattenSeq(arrays)
<1>1. n \in Nat /\ \A i \in 1..n : Len(arrays[i]) \in Nat /\ arrays[i] \in Seq(B)
  BY LenProperties, ElementOfSeq
<1>2. /\ st \in [1..n + 1 -> Nat]
      /\ st[1] = 0
      /\ \A i \in 1..n : st[i + 1] = st[i] + Len(arrays[i])
  BY StartsDefined
<1>3. \A i, j \in 1..n + 1 : i <= j => st[i] <= st[j]
  BY StartsOrdered
<1>4. CASE n = 0
  <2>1. arrays = <<>> /\ flattened = arrays
    BY <1>4, EmptySeq DEF FlattenSeq
  <2>2. flattened \in Seq(B) /\ Len(flattened) = 0
    BY <2>1, EmptySeq
  <2> QED BY <1>2, <1>4, <2>2
<1>5. CASE n # 0
  <2>1. arrays # <<>> /\ n \in Nat \ {0}
    BY <1>1, <1>5, EmptySeq
  <2>2. PICK g \in [1..n -> Seq(B)] :
          /\ g[1] = arrays[1]
          /\ \A i \in 1..n - 1 : g[i + 1] = g[i] \o arrays[i + 1]
          /\ flattened = g[n]
    BY <2>1, FlattenSeqDefined
  <2> HIDE DEF n, st, flattened
  <2> DEFINE Joined(m) == /\ Len(g[m + 1]) = st[m + 2]
                          /\ \A i \in 1..m + 1 : \A k \in 1..Len(arrays[i]) :
                               g[m + 1][st[i] + k] = arrays[i][k]
             U == {m \in Nat : m < n => Joined(m)}
  <2>3. 0 \in U
    <3>1. st[0 + 2] = Len(arrays[1]) /\ st[1] = 0
      <4>1. st[1 + 1] = st[1] + Len(arrays[1]) /\ Len(arrays[1]) \in Nat
        BY <1>1, <1>2, <2>1
      <4> QED BY <1>2, <4>1
    <3>2. g[0 + 1] = arrays[1]
      BY <2>2
    <3> QED BY <3>1, <3>2
  <2>4. ASSUME NEW m \in Nat, m \in U PROVE m + 1 \in U
    <3> SUFFICES ASSUME m + 1 < n PROVE Joined(m + 1)
      OBVIOUS
    <3> DEFINE old == g[m + 1]
               new == arrays[(m + 1) + 1]
    <3>1. m + 1 \in 1..n - 1 /\ (m + 1) + 1 \in 1..n /\ Joined(m)
      BY <2>1, <2>4
    <3>2. g[(m + 1) + 1] = old \o new /\ old \in Seq(B) /\ new \in Seq(B)
      <4>1. m + 1 \in 1..n
        BY <2>1, <3>1
      <4>2. g[(m + 1) + 1] = g[m + 1] \o arrays[(m + 1) + 1]
        BY <2>2, <3>1
      <4>3. g[m + 1] \in Seq(B)
        BY <2>2, <4>1
      <4>4. arrays[(m + 1) + 1] \in Seq(B)
        BY <1>1, <3>1
      <4> QED BY <4>2, <4>3, <4>4
    <3>3. Len(old) = st[m + 2] /\ Len(old) \in Nat /\ Len(new) \in Nat
      BY <3>1, <3>2, LenProperties
    <3>4. st[(m + 1) + 2] = st[m + 2] + Len(new)
      <4>1. (m + 1) + 1 = m + 2 /\ ((m + 1) + 1) + 1 = (m + 1) + 2
        OBVIOUS
      <4>2. st[((m + 1) + 1) + 1] = st[(m + 1) + 1] + Len(new)
        BY <1>2, <3>1
      <4> QED BY <4>1, <4>2
    <3> HIDE DEF old, new
    <3>5. /\ Len(old \o new) = Len(old) + Len(new)
          /\ \A p \in 1..Len(old) + Len(new) :
               (old \o new)[p] = IF p <= Len(old) THEN old[p] ELSE new[p - Len(old)]
      BY <3>2, ConcatProperties
    <3>6. ASSUME NEW i \in 1..(m + 1) + 1, NEW k \in 1..Len(arrays[i])
          PROVE  (old \o new)[st[i] + k] = arrays[i][k]
      <4>1. CASE i \in 1..m + 1
        <5>1. i \in 1..n /\ i + 1 \in 1..n + 1 /\ m + 2 \in 1..n + 1 /\ i + 1 <= m + 2
          BY <2>1, <3>1, <4>1
        <5>2. st[i] + k <= st[m + 2] /\ st[i] + k \in Nat \ {0}
          <6>1. st[i + 1] = st[i] + Len(arrays[i]) /\ Len(arrays[i]) \in Nat
            BY <1>1, <1>2, <5>1
          <6>2. st[i + 1] <= st[m + 2]
            BY <1>3, <5>1
          <6>3. i \in 1..n + 1
            BY <2>1, <5>1
          <6>4. st[i] \in Nat /\ st[m + 2] \in Nat
            BY <1>2, <5>1, <6>3
          <6>5. k \in Nat \ {0} /\ k <= Len(arrays[i])
            BY <3>6, <6>1
          <6> QED BY <6>1, <6>2, <6>4, <6>5, SMTT(30)
        <5>3. (old \o new)[st[i] + k] = old[st[i] + k]
          BY <3>3, <3>5, <5>2
        <5>4. old[st[i] + k] = arrays[i][k]
          BY <3>1, <4>1 DEF old
        <5> QED BY <5>3, <5>4
      <4>2. CASE i = (m + 1) + 1
        <5>1. st[i] = Len(old) /\ arrays[i] = new
          <6>1. i = m + 2
            BY <4>2
          <6>2. st[i] = Len(old)
            BY <3>3, <6>1
          <6> QED BY <4>2, <6>2 DEF new
        <5>2. (old \o new)[Len(old) + k] = new[k]
          <6>1. k \in 1..Len(new)
            BY <3>6, <5>1
          <6>2. Len(old) + k \in 1..Len(old) + Len(new) /\ ~(Len(old) + k <= Len(old))
                /\ (Len(old) + k) - Len(old) = k
            BY <3>3, <6>1, SMTT(30)
          <6> QED BY <3>5, <6>2
        <5> QED BY <5>1, <5>2
      <4>3. i \in 1..m + 1 \/ i = (m + 1) + 1
        OBVIOUS
      <4> QED BY <4>1, <4>2, <4>3
    <3>7. Len(old \o new) = st[(m + 1) + 2]
      BY <3>3, <3>4, <3>5
    <3> QED BY <3>2, <3>6, <3>7
  <2>5. Nat \subseteq U
    <3> HIDE DEF U
    <3> QED BY <2>3, <2>4, SetInduction
  <2>6. Len(flattened) = st[n + 1]
        /\ \A i \in 1..n : \A k \in 1..Len(arrays[i]) : flattened[st[i] + k] = arrays[i][k]
    <3>1. n - 1 \in Nat /\ n - 1 < n /\ (n - 1) + 1 = n /\ (n - 1) + 2 = n + 1
      BY <2>1
    <3>2. Joined(n - 1)
      BY <2>5, <3>1
    <3> QED BY <2>2, <3>1, <3>2
  <2>7. ASSUME NEW i \in 1..n, NEW k \in 1..Len(arrays[i]) PROVE st[i] + k \in 1..st[n + 1]
    <3>1. st[i + 1] = st[i] + Len(arrays[i]) /\ Len(arrays[i]) \in Nat
      BY <1>1, <1>2
    <3>2. st[i] \in Nat /\ st[i + 1] \in Nat /\ st[n + 1] \in Nat /\ st[i + 1] <= st[n + 1]
      BY <1>2, <1>3, <2>1, SMTT(30)
    <3> QED BY <3>1, <3>2, SMTT(30)
  <2>8. flattened \in Seq(B)
    BY <2>1, <2>2
  <2> QED BY <2>6, <2>7, <2>8 DEF n, st, flattened
<1> QED BY <1>4, <1>5

\* Lists whose elements are as long as one another's have the same starts.
LEMMA SameStarts ==
  ASSUME NEW B, NEW C, NEW arrays \in Seq(Seq(B)), NEW others \in Seq(Seq(C)),
         Len(others) = Len(arrays),
         \A i \in 1..Len(arrays) : Len(others[i]) = Len(arrays[i])
  PROVE  \A i \in 1..Len(arrays) + 1 : Starts(others)[i] = Starts(arrays)[i]
<1> DEFINE n == Len(arrays)
           st == Starts(arrays)
           ot == Starts(others)
           U == {m \in Nat : m <= n => ot[m + 1] = st[m + 1]}
<1>1. n \in Nat
  BY LenProperties
<1>2. st[1] = 0 /\ \A i \in 1..n : st[i + 1] = st[i] + Len(arrays[i])
  BY StartsDefined
<1>3. ot[1] = 0 /\ \A i \in 1..n : ot[i + 1] = ot[i] + Len(arrays[i])
  <2>1. ot[1] = 0 /\ \A i \in 1..Len(others) : ot[i + 1] = ot[i] + Len(others[i])
    BY StartsDefined
  <2> HIDE DEF ot
  <2> QED BY <2>1
<1> HIDE DEF n, st, ot
<1>4. 0 \in U
  BY <1>2, <1>3
<1>5. ASSUME NEW m \in Nat, m \in U PROVE m + 1 \in U
  <2> SUFFICES ASSUME m + 1 <= n PROVE ot[(m + 1) + 1] = st[(m + 1) + 1]
    OBVIOUS
  <2>1. m + 1 \in 1..n /\ ot[m + 1] = st[m + 1]
    BY <1>1, <1>5
  <2> QED BY <1>2, <1>3, <2>1
<1>6. Nat \subseteq U
  <2> HIDE DEF U
  <2> QED BY <1>4, <1>5, SetInduction
<1>7. ASSUME NEW i \in 1..n + 1 PROVE ot[i] = st[i]
  <2>1. i - 1 \in Nat /\ i - 1 <= n /\ (i - 1) + 1 = i
    BY <1>1
  <2> QED BY <1>6, <2>1
<1> QED BY <1>7 DEF n, st, ot

-----------------------------------------------------------------------------
(***************************************************************************)
(* Flattened lists.                                                        *)
(***************************************************************************)
Byte == Callers \X Nat \X Nat
Offset == [start : Nat, length : Nat]

\* Flattened data with an offset for each element of a list, where it stands.
IsFlat(f, list) ==
  /\ f.data \in Bytes
  /\ f.offsets \in Seq(Offset)
  /\ Len(f.offsets) = Len(list)
  /\ \A i \in 1..Len(list) :
       /\ f.offsets[i].length = Len(list[i])
       /\ f.offsets[i].start + f.offsets[i].length <= Len(f.data)
       /\ \A k \in 1..Len(list[i]) : f.data[f.offsets[i].start + k] = list[i][k]

\* One item of a flattened list.
LEMMA FlatItem ==
  ASSUME NEW f, NEW list, IsFlat(f, list), NEW i \in 1..Len(list)
  PROVE  /\ f.offsets[i].length = Len(list[i])
         /\ f.offsets[i].start + f.offsets[i].length <= Len(f.data)
         /\ \A k \in 1..Len(list[i]) : f.data[f.offsets[i].start + k] = list[i][k]
BY DEF IsFlat

\* flatten_byte_arrays makes that of any list.
LEMMA FlattenIsFlat ==
  ASSUME NEW list \in Seq(Bytes)
  PROVE  IsFlat(Flatten(list), list)
<1> DEFINE n == Len(list)
           st == Starts(list)
           data == FlattenSeq(list)
           offsets == [i \in 1..n |-> [start |-> st[i], length |-> Len(list[i])]]
<1>1. n \in Nat /\ \A i \in 1..n : Len(list[i]) \in Nat /\ list[i] \in Bytes
  BY LenProperties, ElementOfSeq DEF Bytes
<1>2. /\ st \in [1..n + 1 -> Nat]
      /\ \A i \in 1..n : st[i + 1] = st[i] + Len(list[i])
  BY StartsDefined DEF Bytes
<1>3. \A i, j \in 1..n + 1 : i <= j => st[i] <= st[j]
  BY StartsOrdered DEF Bytes
<1>4. /\ data \in Bytes /\ Len(data) = st[n + 1]
      /\ \A i \in 1..n : \A k \in 1..Len(list[i]) : data[st[i] + k] = list[i][k]
  <2> HIDE DEF offsets, n
  <2>1. list \in Seq(Seq(Byte))
    BY DEF Bytes, Byte
  <2>2. /\ data \in Seq(Byte) /\ Len(data) = st[Len(list) + 1]
        /\ \A i \in 1..Len(list) : \A k \in 1..Len(list[i]) : data[st[i] + k] = list[i][k]
    BY <2>1, FlattenSeqFacts
  <2> QED BY <2>2 DEF Bytes, Byte, n
<1>5. Flatten(list) = [data |-> data, offsets |-> offsets]
  BY DEF Flatten
<1> HIDE DEF n, st, data
<1>6. offsets \in Seq(Offset) /\ Len(offsets) = n
  <2>1. \A i \in 1..n : offsets[i] \in Offset
    BY <1>1, <1>2 DEF Offset
  <2> QED BY <1>1, <2>1
<1>7. ASSUME NEW i \in 1..n
      PROVE  /\ offsets[i].length = Len(list[i])
             /\ offsets[i].start + offsets[i].length <= Len(data)
             /\ \A k \in 1..Len(list[i]) : data[offsets[i].start + k] = list[i][k]
  <2>1. offsets[i].start = st[i] /\ offsets[i].length = Len(list[i])
    OBVIOUS
  <2>2. st[i + 1] <= st[n + 1]
    BY <1>1, <1>3
  <2> QED BY <1>2, <1>4, <2>1, <2>2
<1> HIDE DEF offsets
<1> QED BY <1>4, <1>5, <1>6, <1>7 DEF IsFlat, n

\* What the Go side finds at an offset is the element.
LEMMA BytesAtFlat ==
  ASSUME NEW list \in Seq(Bytes), NEW f, IsFlat(f, list), NEW i \in 1..Len(list)
  PROVE  BytesAt(f.offsets[i], f.data) = list[i]
<1> DEFINE o == f.offsets[i]
<1>1. o \in Offset /\ list[i] \in Bytes /\ Len(list[i]) \in Nat /\ Len(f.data) \in Nat
  BY ElementOfSeq, LenProperties DEF IsFlat, Bytes
<1>2. /\ o.length = Len(list[i]) /\ o.start + o.length <= Len(f.data)
      /\ \A k \in 1..Len(list[i]) : f.data[o.start + k] = list[i][k]
  BY DEF IsFlat
<1>3. o.start \in Nat /\ o.length \in Nat
  BY <1>1 DEF Offset
<1> HIDE DEF o
<1>4. CASE o.length = 0
  <2>1. list[i] = <<>>
    BY <1>1, <1>2, <1>4, EmptySeq DEF Bytes
  <2> QED BY <1>4, <2>1 DEF BytesAt, Valid, o
<1>5. CASE o.length # 0
  <2> DEFINE sub == SubSeq(f.data, o.start + 1, o.start + o.length)
  <2>1. BytesAt(o, f.data) = sub
    <3>1. Valid(o, f.data)
      <4>1. o.start >= 0 /\ o.length > 0
        BY <1>3, <1>5
      <4> QED BY <1>2, <4>1 DEF Valid
    <3> QED BY <3>1 DEF BytesAt
  <2>2. \A k \in o.start + 1 .. o.start + o.length : f.data[k] \in Byte
    <3> SUFFICES ASSUME NEW k \in o.start + 1 .. o.start + o.length PROVE f.data[k] \in Byte
      OBVIOUS
    <3>1. k \in 1..Len(f.data)
      BY <1>1, <1>2, <1>3
    <3> QED BY <3>1, ElementOfSeq DEF IsFlat, Bytes, Byte
  <2>3. /\ sub \in Seq(Byte)
        /\ Len(sub) = o.length
        /\ \A k \in 1..o.length : sub[k] = f.data[o.start + k]
    <3> DEFINE a == o.start + 1
               b == o.start + o.length
    <3>1. a \in Int /\ b \in Int /\ a <= b /\ b - a + 1 = o.length
      BY <1>3, <1>5
    <3>2. \A k \in 1..o.length : a + k - 1 = o.start + k
      BY <1>3
    <3> HIDE DEF a, b
    <3>3. /\ SubSeq(f.data, a, b) \in Seq(Byte)
          /\ Len(SubSeq(f.data, a, b)) = IF a <= b THEN b - a + 1 ELSE 0
          /\ \A k \in 1 .. b - a + 1 : SubSeq(f.data, a, b)[k] = f.data[a + k - 1]
      BY <3>1, <2>2, SubSeqProperties DEF a, b
    <3>4. /\ SubSeq(f.data, a, b) \in Seq(Byte)
          /\ Len(SubSeq(f.data, a, b)) = o.length
          /\ \A k \in 1 .. o.length : SubSeq(f.data, a, b)[k] = f.data[o.start + k]
      BY <3>1, <3>2, <3>3
    <3> QED BY <3>4 DEF a, b
  <2> HIDE DEF sub
  <2>4. sub = list[i]
    BY <1>1, <1>2, <2>3, SeqEqual DEF Bytes, Byte
  <2> QED BY <2>1, <2>4 DEF o
<1> QED BY <1>4, <1>5

\* A function on 1..n is a sequence.
LEMMA FunctionIsSeq ==
  ASSUME NEW S, NEW n \in Nat, NEW f \in [1..n -> S]
  PROVE  f \in Seq(S) /\ Len(f) = n
OBVIOUS

\* A part of a part.
LEMMA AtMost ==
  ASSUME NEW a \in Nat, NEW b \in Nat, NEW c \in Nat, NEW d \in Nat, NEW e \in Nat,
         a + b <= d, c + d <= e
  PROVE  a + c + b <= e
OBVIOUS

\* An offset moved on is an offset.
LEMMA OffsetMoved ==
  ASSUME NEW o \in Offset, NEW b \in Nat
  PROVE  LET moved == [o EXCEPT !.start = @ + b]
         IN moved \in Offset /\ moved.start = o.start + b /\ moved.length = o.length
BY DEF Offset

\* A list is made of lists that start at the positions st.
ChunkByChunk(list, st, lists) ==
  /\ list \in Seq(Bytes) /\ Len(list) = st[Len(lists) + 1]
  /\ \A k \in 1..Len(lists) : \A i \in 1..Len(lists[k]) : list[st[k] + i] = lists[k][i]

\* Chunks, joined, start where Starts says.
LEMMA ChunksJoined ==
  ASSUME NEW lists \in Seq(Seq(Bytes))
  PROVE  ChunkByChunk(FlattenSeq(lists), Starts(lists), lists)
BY FlattenSeqFacts DEF ChunkByChunk

\* Flattened chunks can be joined.
LEMMA CombineIsFlat ==
  ASSUME NEW m \in Nat, NEW lists \in Seq(Seq(Bytes)), Len(lists) = m,
         NEW fs, DOMAIN fs = 1..m, \A k \in 1..m : IsFlat(fs[k], lists[k])
  PROVE  IsFlat(Combine(fs), FlattenSeq(lists))
<1> DEFINE datas == [k \in 1..m |-> fs[k].data]
           base == Starts(datas)
           moved == [k \in 1..m |-> [i \in DOMAIN fs[k].offsets |->
                                       [fs[k].offsets[i] EXCEPT !.start = @ + base[k]]]]
           st == Starts(lists)
           list == FlattenSeq(lists)
           data == FlattenSeq(datas)
           offsets == FlattenSeq(moved)
<1>1. Combine(fs) = [data |-> data, offsets |-> offsets]
  BY DEF Combine
<1>2. \A k \in 1..m : lists[k] \in Seq(Bytes) /\ Len(lists[k]) \in Nat
  BY ElementOfSeq, LenProperties
<1>3. \A k \in 1..m : /\ fs[k].data \in Bytes /\ fs[k].offsets \in Seq(Offset)
                      /\ Len(fs[k].offsets) = Len(lists[k])
                      /\ DOMAIN fs[k].offsets = 1..Len(lists[k])
  BY LenProperties DEF IsFlat
<1>4. datas \in Seq(Seq(Byte)) /\ Len(datas) = m /\ \A k \in 1..m : datas[k] = fs[k].data
  <2>1. \A k \in 1..m : datas[k] \in Seq(Byte)
    BY <1>3 DEF Bytes, Byte
  <2> QED BY <2>1
<1> HIDE DEF datas
<1>5. /\ base \in [1..m + 1 -> Nat]
      /\ \A k \in 1..m : base[k + 1] = base[k] + Len(datas[k])
      /\ \A j, k \in 1..m + 1 : j <= k => base[j] <= base[k]
  <2>1. /\ base \in [1..Len(datas) + 1 -> Nat]
        /\ \A k \in 1..Len(datas) : base[k + 1] = base[k] + Len(datas[k])
    BY <1>4, StartsDefined
  <2>2. \A j, k \in 1..Len(datas) + 1 : j <= k => base[j] <= base[k]
    BY <1>4, StartsOrdered
  <2> QED BY <1>4, <2>1, <2>2
<1>6. /\ data \in Seq(Byte) /\ Len(data) = base[m + 1]
      /\ \A k \in 1..m : \A x \in 1..Len(datas[k]) : data[base[k] + x] = datas[k][x]
  <2> HIDE DEF moved, st, list, offsets
  <2>1. /\ data \in Seq(Byte) /\ Len(data) = base[Len(datas) + 1]
        /\ \A k \in 1..Len(datas) : \A x \in 1..Len(datas[k]) : data[base[k] + x] = datas[k][x]
    <3>1. datas \in Seq(Seq(Byte))
      BY <1>4
    <3> QED BY <3>1, FlattenSeqFacts
  <2> QED BY <1>4, <2>1
<1> HIDE DEF base, data
<1>7. ASSUME NEW k \in 1..m
      PROVE  /\ moved[k] \in Seq(Offset) /\ Len(moved[k]) = Len(lists[k])
             /\ \A i \in 1..Len(lists[k]) :
                  moved[k][i] = [fs[k].offsets[i] EXCEPT !.start = @ + base[k]]
  <2> DEFINE new == [i \in 1..Len(lists[k]) |->
                       [fs[k].offsets[i] EXCEPT !.start = @ + base[k]]]
  <2>1. moved[k] = new
    BY <1>3
  <2>2. \A i \in 1..Len(lists[k]) : fs[k].offsets[i] \in Offset
    BY <1>3, ElementOfSeq
  <2>3. base[k] \in Nat
    BY <1>5
  <2>4. \A i \in 1..Len(lists[k]) : new[i] \in Offset
    BY <2>2, <2>3, OffsetMoved
  <2>5. new \in Seq(Offset) /\ Len(new) = Len(lists[k])
    BY <1>2, <2>4
  <2> QED BY <2>1, <2>5
<1>8. moved \in Seq(Seq(Offset)) /\ Len(moved) = m
  <2>1. \A k \in 1..m : moved[k] \in Seq(Offset)
    BY <1>7
  <2>2. moved \in [1..m -> Seq(Offset)]
    BY <2>1
  <2> HIDE DEF moved
  <2> QED BY <2>2, FunctionIsSeq
<1> HIDE DEF moved
<1>9. /\ offsets \in Seq(Offset) /\ Len(offsets) = Starts(moved)[m + 1]
      /\ \A k \in 1..m : \A i \in 1..Len(moved[k]) : offsets[Starts(moved)[k] + i] = moved[k][i]
  <2>1. /\ offsets \in Seq(Offset) /\ Len(offsets) = Starts(moved)[Len(moved) + 1]
        /\ \A k \in 1..Len(moved) : \A i \in 1..Len(moved[k]) :
             offsets[Starts(moved)[k] + i] = moved[k][i]
    <3>1. moved \in Seq(Seq(Offset))
      BY <1>8
    <3> QED BY <3>1, FlattenSeqFacts
  <2> QED BY <1>8, <2>1
<1>10. \A k \in 1..m + 1 : Starts(moved)[k] = st[k]
  <2>1. Len(moved) = Len(lists) /\ \A k \in 1..Len(lists) : Len(moved[k]) = Len(lists[k])
    BY <1>7, <1>8
  <2>2. \A k \in 1..Len(lists) + 1 : Starts(moved)[k] = Starts(lists)[k]
    BY <1>8, <2>1, SameStarts
  <2> QED BY <2>2
<1>11. /\ list \in Seq(Bytes) /\ Len(list) = st[m + 1]
       /\ \A k \in 1..m : \A i \in 1..Len(lists[k]) : list[st[k] + i] = lists[k][i]
  <2>1. ChunkByChunk(list, st, lists)
    BY ChunksJoined
  <2> QED BY <2>1 DEF ChunkByChunk
<1>12. \A p \in 1..st[m + 1] : \E k \in 1..m : \E i \in 1..Len(lists[k]) : p = st[k] + i
  BY StartsOrdered
<1> HIDE DEF offsets, list, st
<1>13. Len(offsets) = Len(list)
  <2>1. m + 1 \in 1..m + 1
    OBVIOUS
  <2>2. Starts(moved)[m + 1] = st[m + 1]
    BY <1>10, <2>1
  <2> QED BY <1>9, <1>11, <2>2, Zenon
<1>14. ASSUME NEW p \in 1..Len(list)
       PROVE  /\ offsets[p].length = Len(list[p])
              /\ offsets[p].start + offsets[p].length <= Len(data)
              /\ \A x \in 1..Len(list[p]) : data[offsets[p].start + x] = list[p][x]
  <2>1. PICK k \in 1..m : \E i \in 1..Len(lists[k]) : p = st[k] + i
    BY <1>11, <1>12
  <2>2. PICK i \in 1..Len(lists[k]) : p = st[k] + i
    BY <2>1
  <2> DEFINE o == fs[k].offsets[i]
             item == lists[k][i]
  <2>3. o \in Offset /\ base[k] \in Nat /\ item \in Bytes /\ Len(item) \in Nat
    <3>1. o \in Offset
      BY <1>3, ElementOfSeq
    <3>2. item \in Bytes
      BY <1>2, ElementOfSeq
    <3>3. Len(item) \in Nat
      BY <3>2, LenProperties DEF Bytes
    <3> QED BY <1>5, <3>1, <3>2, <3>3
  <2>4. list[p] = item
    BY <1>11, <2>2
  <2>5. offsets[p] = [o EXCEPT !.start = @ + base[k]]
    <3>1. offsets[Starts(moved)[k] + i] = moved[k][i]
      BY <1>7, <1>9
    <3>2. Starts(moved)[k] = st[k]
      BY <1>10
    <3> QED BY <1>7, <2>2, <3>1, <3>2
  <2>6. offsets[p].start = o.start + base[k] /\ offsets[p].length = o.length
    BY <2>3, <2>5 DEF Offset
  <2>7. /\ o.length = Len(item)
        /\ o.start + o.length <= Len(datas[k])
        /\ \A x \in 1..Len(item) : datas[k][o.start + x] = item[x]
    <3>1. IsFlat(fs[k], lists[k])
      OBVIOUS
    <3>2. datas[k] = fs[k].data
      BY <1>4
    <3> HIDE DEF o, item
    <3>3. /\ fs[k].offsets[i].length = Len(lists[k][i])
          /\ fs[k].offsets[i].start + fs[k].offsets[i].length <= Len(fs[k].data)
          /\ \A x \in 1..Len(lists[k][i]) :
               fs[k].data[fs[k].offsets[i].start + x] = lists[k][i][x]
      BY <3>1, FlatItem
    <3> QED BY <3>2, <3>3, Zenon DEF o, item
  <2>8. o.start \in Nat /\ o.length \in Nat
    BY <2>3 DEF Offset
  <2> HIDE DEF o, item
  <2>9. base[k + 1] = base[k] + Len(datas[k]) /\ base[k + 1] <= base[m + 1]
        /\ base[m + 1] \in Nat /\ Len(datas[k]) \in Nat
    <3>1. k + 1 \in 1..m + 1 /\ m + 1 \in 1..m + 1 /\ k + 1 <= m + 1
      OBVIOUS
    <3>2. datas[k] \in Seq(Byte)
      BY <1>4, ElementOfSeq
    <3>3. Len(datas[k]) \in Nat
      BY <3>2, LenProperties
    <3> QED BY <1>5, <3>1, <3>3
  <2>10. offsets[p].start + offsets[p].length <= Len(data)
    <3>1. o.start + o.length <= Len(datas[k])
      BY <2>7
    <3>2. Len(data) = base[m + 1]
      BY <1>6
    <3>3. /\ o.start \in Nat /\ o.length \in Nat /\ base[k] \in Nat
          /\ Len(datas[k]) \in Nat /\ base[m + 1] \in Nat
      BY <2>3, <2>8, <2>9
    <3>4. base[k] + Len(datas[k]) <= base[m + 1]
      BY <2>9
    <3>5. o.start + base[k] + o.length <= base[m + 1]
      BY <3>1, <3>3, <3>4, AtMost
    <3> QED BY <2>6, <3>2, <3>5
  <2>11. ASSUME NEW x \in 1..Len(item) PROVE data[offsets[p].start + x] = item[x]
    <3>1. o.start + x \in 1..Len(datas[k])
      <4>1. o.length = Len(item) /\ o.start + o.length <= Len(datas[k])
        BY <2>7
      <4>2. Len(item) \in Nat
        BY <2>3
      <4>3. Len(datas[k]) \in Nat
        BY <2>9
      <4>4. x \in Nat \ {0} /\ x <= Len(item)
        BY <4>2
      <4> QED BY <2>8, <4>1, <4>2, <4>3, <4>4, SMTT(30)
    <3>2. data[base[k] + (o.start + x)] = datas[k][o.start + x]
      BY <1>6, <3>1
    <3>3. base[k] + (o.start + x) = offsets[p].start + x
      BY <2>3, <2>6, <2>8
    <3> QED BY <2>7, <3>2, <3>3
  <2> QED BY <2>4, <2>6, <2>7, <2>10, <2>11
<1> QED BY <1>1, <1>6, <1>9, <1>13, <1>14 DEF IsFlat, Bytes, Byte, list

-----------------------------------------------------------------------------
(***************************************************************************)
(* Parts of lists.                                                         *)
(***************************************************************************)
\* How many of the positions are not behind i.
Rank(P, i) == Cardinality({j \in P : j <= i})

\* Each position has a rank of its own, all up to their number are taken, and later
\* positions rank higher.
LEMMA RankFacts ==
  ASSUME NEW N \in Nat, NEW P \in SUBSET (1..N)
  PROVE  /\ Cardinality(P) \in Nat
         /\ \A i \in P : Rank(P, i) \in 1..Cardinality(P)
         /\ \A i, j \in P : i < j => Rank(P, i) < Rank(P, j)
         /\ \A k \in 1..Cardinality(P) : \E i \in P : Rank(P, i) = k
<1> DEFINE Upto(i) == {j \in P : j <= i}
<1>1. IsFiniteSet(P) /\ Cardinality(P) \in Nat
  <2>1. IsFiniteSet(1..N)
    BY FS_Interval
  <2> QED BY <2>1, FS_Subset, FS_CardinalityType
<1>0. \A i \in P : i \in Nat /\ 1 <= i /\ i <= N
  OBVIOUS
<1>2. \A i : IsFiniteSet(Upto(i)) /\ Cardinality(Upto(i)) \in Nat
             /\ Cardinality(Upto(i)) <= Cardinality(P)
  <2> SUFFICES ASSUME NEW i PROVE IsFiniteSet(Upto(i)) /\ Cardinality(Upto(i)) \in Nat
                                  /\ Cardinality(Upto(i)) <= Cardinality(P)
    OBVIOUS
  <2>1. Upto(i) \in SUBSET P
    OBVIOUS
  <2> HIDE DEF Upto
  <2> QED BY <1>1, <2>1, FS_Subset, FS_CardinalityType
<1>3. \A i : Rank(P, i) = Cardinality(Upto(i))
  BY DEF Rank
<1>4. ASSUME NEW i \in P, NEW j \in P, i < j
      PROVE  Rank(P, i) < Rank(P, j)
  <2>1. Upto(i) \in SUBSET Upto(j) /\ j \in Upto(j) /\ j \notin Upto(i)
    <3>1. i \in Nat /\ j \in Nat /\ j <= j /\ ~(j <= i)
      BY <1>0, <1>4
    <3>2. \A k \in P : k <= i => k <= j
      BY <1>0, <1>4
    <3> QED BY <3>1, <3>2
  <2> HIDE DEF Upto
  <2>2. Cardinality(Upto(i)) <= Cardinality(Upto(j)) /\ Cardinality(Upto(i)) # Cardinality(Upto(j))
    BY <1>2, <2>1, FS_Subset
  <2> QED BY <1>2, <1>3, <2>2
<1>5. ASSUME NEW i \in P PROVE Rank(P, i) \in 1..Cardinality(P)
  <2>1. i \in Upto(i)
    OBVIOUS
  <2> HIDE DEF Upto
  <2>2. Cardinality(Upto(i)) # 0
    BY <1>2, <2>1, FS_EmptySet
  <2> QED BY <1>1, <1>2, <1>3, <2>2
<1> DEFINE Taken(m) == \A k \in 1..Rank(P, m) : \E i \in P : Rank(P, i) = k
           U == {m \in Nat : Taken(m)}
<1>6. Taken(0)
  <2>1. Upto(0) = {}
    <3>1. \A j \in P : ~(j <= 0)
      BY <1>0
    <3> QED BY <3>1
  <2>2. Rank(P, 0) = 0
    BY <1>3, <2>1, FS_EmptySet
  <2> QED BY <2>2
<1>7. ASSUME NEW m \in Nat, Taken(m) PROVE Taken(m + 1)
  <2>1. CASE m + 1 \in P
    <3>1. Upto(m + 1) = Upto(m) \cup {m + 1} /\ m + 1 \notin Upto(m)
      <4>1. \A j \in P : j <= m + 1 <=> j <= m \/ j = m + 1
        BY <1>0
      <4>2. ~(m + 1 <= m)
        OBVIOUS
      <4>3. Upto(m + 1) = Upto(m) \cup {m + 1}
        BY <2>1, <4>1, Zenon
      <4> QED BY <4>2, <4>3
    <3>2. Rank(P, m + 1) = Rank(P, m) + 1
      <4> HIDE DEF Upto
      <4> QED BY <1>2, <1>3, <3>1, FS_AddElement
    <3>3. Rank(P, m) \in Nat
      BY <1>2, <1>3
    <3>4. ASSUME NEW k \in 1..Rank(P, m + 1) PROVE \E i \in P : Rank(P, i) = k
      <4>1. CASE k \in 1..Rank(P, m)
        BY <1>7, <4>1
      <4>2. CASE k = Rank(P, m + 1)
        BY <2>1, <4>2
      <4> QED BY <3>2, <3>3, <4>1, <4>2
    <3> QED BY <3>4
  <2>2. CASE m + 1 \notin P
    <3>1. Upto(m + 1) = Upto(m)
      <4>1. \A j \in P : j <= m + 1 <=> j <= m
        BY <1>0, <2>2
      <4> QED BY <4>1
    <3>2. Rank(P, m + 1) = Rank(P, m)
      <4> HIDE DEF Upto
      <4> QED BY <1>3, <3>1
    <3> QED BY <1>7, <3>2
  <2> QED BY <2>1, <2>2
<1>8. Taken(N)
  <2> HIDE DEF Taken
  <2>1. 0 \in U /\ \A m \in Nat : m \in U => m + 1 \in U
    BY <1>6, <1>7
  <2>2. Nat \subseteq U
    <3> HIDE DEF U
    <3> QED BY <2>1, SetInduction
  <2> QED BY <2>2
<1>9. Rank(P, N) = Cardinality(P)
  <2>1. Upto(N) = P
    BY <1>0
  <2> HIDE DEF Upto
  <2> QED BY <1>3, <2>1
<1> QED BY <1>1, <1>4, <1>5, <1>8, <1>9

\* t has the n elements of a list that are at the positions, in their order.
Selects(t, n, list, P) ==
  /\ Len(t) = n
  /\ \E at \in [1..n -> P] :
       /\ \A k \in 1..n : t[k] = list[at[k]]
       /\ \A j, k \in 1..n : j < k => at[j] < at[k]
       /\ \A i \in P : \E k \in 1..n : at[k] = i

\* So has Picked.
LEMMA PickedFacts ==
  ASSUME NEW S, NEW list \in Seq(S), NEW P \in SUBSET (1..Len(list))
  PROVE  /\ Cardinality(P) \in Nat /\ Picked(list, P) \in Seq(S)
         /\ Selects(Picked(list, P), Cardinality(P), list, P)
<1> DEFINE n == Cardinality(P)
           at == [k \in 1..n |-> CHOOSE i \in P : Rank(P, i) = k]
<1>1. Len(list) \in Nat
  BY LenProperties
<1>2. /\ n \in Nat
      /\ \A i \in P : Rank(P, i) \in 1..n
      /\ \A i, j \in P : i < j => Rank(P, i) < Rank(P, j)
      /\ \A k \in 1..n : \E i \in P : Rank(P, i) = k
  BY <1>1, RankFacts
<1>3. \A k \in 1..n : at[k] \in P /\ Rank(P, at[k]) = k
  BY <1>2
<1>4. Picked(list, P) = [k \in 1..n |-> list[at[k]]]
  BY DEF Picked, Rank
<1>5. at \in [1..n -> P]
  BY <1>3
<1> HIDE DEF n, at
<1>6. \A i, j \in P : Rank(P, i) = Rank(P, j) => i = j
  BY <1>1, <1>2, SMTT(30)
<1>7. \A i \in P : \E k \in 1..n : at[k] = i
  BY <1>2, <1>3, <1>6
<1>8. ASSUME NEW j \in 1..n, NEW k \in 1..n, j < k PROVE at[j] < at[k]
  <2>1. ~(at[k] < at[j]) /\ at[k] # at[j]
    <3>1. at[j] \in P /\ at[k] \in P /\ Rank(P, at[j]) = j /\ Rank(P, at[k]) = k
      BY <1>3
    <3>2. j \in Nat /\ k \in Nat
      BY <1>2
    <3>3. at[k] < at[j] => k < j
      BY <1>2, <3>1
    <3> QED BY <1>8, <3>1, <3>2, <3>3
  <2>2. at[k] \in Nat /\ at[j] \in Nat
    <3>1. at[k] \in 1..Len(list) /\ at[j] \in 1..Len(list)
      BY <1>3
    <3> QED BY <1>1, <3>1
  <2> QED BY <2>1, <2>2
<1>9. Picked(list, P) \in Seq(S) /\ Len(Picked(list, P)) = n
  <2>1. \A k \in 1..n : list[at[k]] \in S
    BY <1>3, ElementOfSeq
  <2>2. [k \in 1..n |-> list[at[k]]] \in [1..n -> S]
    BY <2>1
  <2> QED BY <1>2, <1>4, <2>2, FunctionIsSeq
<1>10. Selects(Picked(list, P), n, list, P)
  <2>1. \A k \in 1..n : Picked(list, P)[k] = list[at[k]]
    BY <1>4
  <2> QED BY <2>1, <1>5, <1>7, <1>8, <1>9 DEF Selects
<1> QED BY <1>2, <1>9, <1>10 DEF n

-----------------------------------------------------------------------------
(***************************************************************************)
(* Teams and their shares.                                                 *)
(***************************************************************************)
\* A set of natural numbers has a least one.
LEMMA LeastNumber ==
  ASSUME NEW M, M \subseteq Nat, M # {}
  PROVE  \E m \in M : \A x \in M : m <= x
<1>1. PICK m \in M : \A x \in M : <<x, m>> \notin OpToRel(<, Nat)
  BY NatLessThanWellFounded, WFMin
<1>2. ASSUME NEW x \in M PROVE m <= x
  <2>1. m \in Nat /\ x \in Nat
    BY <1>1
  <2>2. x < m => <<x, m>> \in OpToRel(<, Nat)
    BY <2>1 DEF OpToRel
  <2>3. ~(x < m)
    BY <1>1, <2>2
  <2> QED BY <2>1, <2>3
<1>3. m \in M
  BY <1>1, Zenon
<1> QED BY <1>2, <1>3

\* More times as much is not less.
LEMMA TimesMonotone ==
  ASSUME NEW a \in Nat, NEW b \in Nat, NEW s \in Nat, a <= b
  PROVE  a * s <= b * s
<1>1. b - a \in Nat
  OBVIOUS
<1>2. (b - a) * s \in Nat
  BY <1>1
<1>3. b * s = a * s + (b - a) * s
  OBVIOUS
<1>4. a * s \in Nat
  OBVIOUS
<1> QED BY <1>2, <1>3, <1>4

\* Rounding up is enough, and something for each when there is something.
LEMMA CeilDivFacts ==
  ASSUME NEW n \in Nat \ {0}, NEW d \in Nat \ {0}
  PROVE  CeilDiv(n, d) \in Nat \ {0} /\ n <= d * CeilDiv(n, d)
<1> DEFINE x == n + d - 1
           q == x \div d
<1>1. x \in Nat /\ x >= d
  OBVIOUS
<1>2. q \in Int /\ x < d * q + d
  BY <1>1
<1> HIDE DEF q
<1>3. d * q >= n
  BY <1>1, <1>2
<1>4. q >= 1
  <2>1. q <= 0 => d * q <= 0
    BY <1>2
  <2> QED BY <1>2, <1>3, <2>1
<1> QED BY <1>2, <1>3, <1>4 DEF CeilDiv, q

\* A team is the first so many workers; their shares are as long as one another,
\* but for the last, and end where the list ends.
LEMMA TeamFacts ==
  ASSUME NEW n \in Nat \ {0}, NEW workers \in Nat \ {0}
  PROVE  LET size == CeilDiv(n, workers)
         IN /\ size \in Nat \ {0}
            /\ \E m \in Nat \ {0} :
                 /\ Team(n, workers) = 1..m
                 /\ (m - 1) * size < n /\ n <= m * size
                 /\ \A w \in 1..m - 1 : w * size < n
<1> DEFINE size == CeilDiv(n, workers)
           M == {m \in Nat : n <= m * size}
<1>1. size \in Nat \ {0} /\ n <= workers * size
  BY CeilDivFacts
<1> HIDE DEF size
<1>2. PICK m \in M : \A x \in M : m <= x
  <2>1. workers \in M /\ M \subseteq Nat
    BY <1>1
  <2> HIDE DEF M
  <2> QED BY <2>1, LeastNumber
<1>3. m \in Nat \ {0} /\ n <= m * size /\ m <= workers
  <2>1. m \in Nat /\ n <= m * size /\ workers \in M
    BY <1>1, <1>2
  <2>2. m # 0
    BY <1>1, <2>1
  <2> QED BY <1>2, <2>1, <2>2
<1>4. ASSUME NEW w \in Nat, w < m PROVE w * size < n
  <2>1. w \notin M
    BY <1>2, <1>3, <1>4
  <2>2. w * size \in Nat
    BY <1>1
  <2> QED BY <2>1, <2>2
<1>5. ASSUME NEW w \in Nat, m <= w PROVE n <= w * size
  <2>1. m * size <= w * size
    BY <1>1, <1>3, <1>5, TimesMonotone
  <2>2. m * size \in Nat /\ w * size \in Nat
    BY <1>1, <1>3
  <2> QED BY <1>3, <2>1, <2>2
<1>6. ASSUME NEW w \in 1..workers
      PROVE  Share(w, size, n) # {} <=> w <= m
  <2> DEFINE from == (w - 1) * size
             to == w * size
  <2>1. w - 1 \in Nat /\ w \in Nat /\ from \in Nat /\ to \in Nat /\ to = from + size
    BY <1>1
  <2>2. Share(w, size, n) = from + 1 .. Least(to, n)
    BY DEF Share
  <2>3. w <= m => from < n
    BY <1>3, <1>4, <2>1
  <2>4. ~(w <= m) => n <= from
    BY <1>3, <1>5, <2>1
  <2> HIDE DEF from, to
  <2>5. from < n => from + 1 \in Share(w, size, n)
    BY <1>1, <2>1, <2>2 DEF Least
  <2>6. n <= from => Share(w, size, n) = {}
    BY <1>1, <2>1, <2>2 DEF Least
  <2> QED BY <2>3, <2>4, <2>5, <2>6
<1>7. Team(n, workers) = 1..m
  BY <1>3, <1>6 DEF Team, size
<1>8. (m - 1) * size < n
  BY <1>3, <1>4
<1>9. \A w \in 1..m - 1 : w * size < n
  BY <1>3, <1>4
<1> QED BY <1>1, <1>3, <1>7, <1>8, <1>9 DEF size

\* Each index up to n is in the share of one worker of the team, and only that.
LEMMA SharesFacts ==
  ASSUME NEW n \in Nat \ {0}, NEW workers \in Nat \ {0}
  PROVE  LET size == CeilDiv(n, workers)
         IN /\ Team(n, workers) \subseteq Nat \ {0}
            /\ Team(n, workers) # {}
            /\ \A w \in Team(n, workers) : Share(w, size, n) \subseteq 1..n
            /\ \A i \in 1..n : \E w \in Team(n, workers) : i \in Share(w, size, n)
            /\ \A v, w \in Nat \ {0} : v # w => Share(v, size, n) \cap Share(w, size, n) = {}
<1> DEFINE size == CeilDiv(n, workers)
<1>1. size \in Nat \ {0}
  BY TeamFacts
<1>2. PICK m \in Nat \ {0} : /\ Team(n, workers) = 1..m
                           /\ n <= m * size
  BY TeamFacts
<1> HIDE DEF size
<1>3. ASSUME NEW w \in Nat \ {0}, NEW i \in Share(w, size, n)
      PROVE  i \in 1..n /\ (w - 1) * size < i /\ i <= w * size
  <2> DEFINE from == (w - 1) * size
             to == w * size
  <2>1. from \in Nat /\ to \in Nat
    BY <1>1
  <2>2. i \in from + 1 .. Least(to, n)
    BY DEF Share
  <2> HIDE DEF from, to
  <2>3. i \in 1..n /\ from < i /\ i <= to
    BY <2>1, <2>2 DEF Least
  <2> QED BY <2>3 DEF from, to
<1>4. ASSUME NEW i \in 1..n PROVE \E w \in Team(n, workers) : i \in Share(w, size, n)
  <2> DEFINE M == {x \in Nat : i <= x * size}
  <2>1. m \in M
    <3>1. m * size \in Nat
      BY <1>1
    <3> QED BY <1>2, <3>1
  <2>2. PICK w \in M : \A x \in M : w <= x
    <3>1. M \subseteq Nat /\ M # {}
      BY <2>1
    <3> HIDE DEF M
    <3> QED BY <3>1, LeastNumber
  <2>3. w \in Nat /\ i <= w * size /\ w <= m
    BY <2>1, <2>2
  <2>4. w # 0
    BY <1>1, <2>3
  <2>5. w - 1 \in Nat /\ w - 1 \notin M
    BY <2>2, <2>3, <2>4
  <2> DEFINE from == (w - 1) * size
             to == w * size
  <2>6. from \in Nat /\ to \in Nat
    BY <1>1, <2>3, <2>5
  <2>7. from < i /\ i <= to
    BY <2>3, <2>5, <2>6
  <2>8. Share(w, size, n) = from + 1 .. Least(to, n)
    BY DEF Share
  <2> HIDE DEF from, to
  <2>9. i \in Share(w, size, n)
    BY <2>6, <2>7, <2>8 DEF Least
  <2> QED BY <1>2, <2>3, <2>4, <2>9
<1>5. ASSUME NEW v \in Nat \ {0}, NEW w \in Nat \ {0}, v < w
      PROVE  Share(v, size, n) \cap Share(w, size, n) = {}
  <2> SUFFICES ASSUME NEW i \in Share(v, size, n), i \in Share(w, size, n) PROVE FALSE
    OBVIOUS
  <2>1. i \in Nat /\ i <= v * size /\ (w - 1) * size < i
    BY <1>3
  <2>2. v * size <= (w - 1) * size
    BY <1>1, <1>5, TimesMonotone
  <2>3. v * size \in Nat /\ (w - 1) * size \in Nat
    BY <1>1
  <2> QED BY <2>1, <2>2, <2>3
<1>6. ASSUME NEW v \in Nat \ {0}, NEW w \in Nat \ {0}, v # w
      PROVE  Share(v, size, n) \cap Share(w, size, n) = {}
  <2>1. v < w \/ w < v
    BY <1>6
  <2> QED BY <1>5, <2>1
<1>7. \A w \in Team(n, workers) : Share(w, size, n) \subseteq 1..n
  BY <1>2, <1>3
<1>8. Team(n, workers) \subseteq Nat \ {0} /\ Team(n, workers) # {}
  <2>1. 1 \in 1..m /\ 1..m \subseteq Nat \ {0}
    BY <1>2
  <2> QED BY <1>2, <2>1
<1> QED BY <1>4, <1>6, <1>7, <1>8 DEF size

\* The chunks of a list, one after another, are the list.
LEMMA ChunksFacts ==
  ASSUME NEW S, NEW list \in Seq(S), list # <<>>, NEW workers \in Nat \ {0}
  PROVE  LET chunks == Chunks(list, workers)
         IN \E m \in Nat \ {0} :
              /\ Team(Len(list), workers) = 1..m
              /\ chunks \in Seq(Seq(S)) /\ Len(chunks) = m
              /\ FlattenSeq(chunks) = list
<1> DEFINE n == Len(list)
           size == CeilDiv(n, workers)
           chunks == Chunks(list, workers)
           st == Starts(chunks)
<1>1. n \in Nat \ {0} /\ \A i \in 1..n : list[i] \in S
  BY EmptySeq, ElementOfSeq
<1>2. size \in Nat \ {0}
  BY <1>1, TeamFacts
<1>3. PICK m \in Nat \ {0} :
        /\ Team(n, workers) = 1..m
        /\ (m - 1) * size < n /\ n <= m * size
        /\ \A w \in 1..m - 1 : w * size < n
  BY <1>1, TeamFacts
<1>4. chunks = [w \in 1..m |-> SubSeq(list, (w - 1) * size + 1, Least(w * size, n))]
  BY <1>3 DEF Chunks
<1> HIDE DEF n, size, chunks
<1>5. ASSUME NEW w \in 1..m
      PROVE  /\ chunks[w] \in Seq(S)
             /\ Len(chunks[w]) = IF w < m THEN size ELSE n - (m - 1) * size
             /\ \A j \in 1..Len(chunks[w]) : chunks[w][j] = list[(w - 1) * size + j]
  <2> DEFINE from == (w - 1) * size
             to == w * size
             end == Least(to, n)
  <2>1. from \in Nat /\ to \in Nat /\ to = from + size
    BY <1>2
  <2>2. from < n
    <3>1. CASE w = m
      BY <1>3, <3>1
    <3>2. CASE w # m
      <4>1. w \in 1..m - 1
        BY <1>3, <3>2
      <4>2. to < n
        BY <1>3, <4>1
      <4> QED BY <1>1, <1>2, <2>1, <4>2
    <3> QED BY <3>1, <3>2
  <2>3. w < m => to < n
    BY <1>3
  <2>4. w = m => n <= to /\ from = (m - 1) * size
    BY <1>3
  <2>5. chunks[w] = SubSeq(list, from + 1, end)
    BY <1>4
  <2> HIDE DEF from, to
  <2>6. end \in from + 1 .. n /\ end - from = IF w < m THEN size ELSE n - (m - 1) * size
    <3>1. CASE w < m
      BY <1>1, <1>2, <2>1, <2>2, <2>3, <3>1 DEF Least
    <3>2. CASE w = m
      <4>1. end = n
        BY <1>1, <2>1, <2>4, <3>2 DEF Least
      <4> QED BY <1>1, <2>1, <2>2, <2>4, <3>2, <4>1
    <3>3. w < m \/ w = m
      BY <1>3
    <3> QED BY <3>1, <3>2, <3>3
  <2> HIDE DEF end
  <2>7. \A i \in from + 1 .. end : list[i] \in S
    BY <1>1, <2>1, <2>6
  <2> DEFINE a == from + 1
  <2>8. a \in Int /\ end \in Int /\ a <= end /\ end - a + 1 = end - from
    BY <1>1, <2>1, <2>6
  <2>9. \A j \in 1..end - from : a + j - 1 = from + j
    BY <2>1
  <2> HIDE DEF a
  <2>10. /\ SubSeq(list, a, end) \in Seq(S)
         /\ Len(SubSeq(list, a, end)) = IF a <= end THEN end - a + 1 ELSE 0
         /\ \A j \in 1 .. end - a + 1 : SubSeq(list, a, end)[j] = list[a + j - 1]
    BY <2>7, <2>8, SubSeqProperties DEF a
  <2>11. /\ SubSeq(list, a, end) \in Seq(S)
         /\ Len(SubSeq(list, a, end)) = end - from
         /\ \A j \in 1..end - from : SubSeq(list, a, end)[j] = list[from + j]
    BY <2>8, <2>9, <2>10
  <2> QED BY <2>5, <2>6, <2>11 DEF a, from
<1>6. chunks \in Seq(Seq(S)) /\ Len(chunks) = m
  <2>1. chunks \in [1..m -> Seq(S)]
    BY <1>4, <1>5
  <2> QED BY <2>1, FunctionIsSeq
<1>7. st[1] = 0 /\ \A i \in 1..m : st[i + 1] = st[i] + Len(chunks[i])
  BY <1>6, StartsDefined
<1>8. /\ FlattenSeq(chunks) \in Seq(S) /\ Len(FlattenSeq(chunks)) = st[m + 1]
      /\ \A i \in 1..m : \A k \in 1..Len(chunks[i]) : FlattenSeq(chunks)[st[i] + k] = chunks[i][k]
  <2>1. /\ FlattenSeq(chunks) \in Seq(S) /\ Len(FlattenSeq(chunks)) = st[Len(chunks) + 1]
        /\ \A i \in 1..Len(chunks) : \A k \in 1..Len(chunks[i]) :
             FlattenSeq(chunks)[st[i] + k] = chunks[i][k]
    <3>1. chunks \in Seq(Seq(S))
      BY <1>6
    <3> QED BY <3>1, FlattenSeqFacts
  <2> QED BY <1>6, <2>1
<1>9. \A p \in 1..st[m + 1] : \E i \in 1..m : \E k \in 1..Len(chunks[i]) : p = st[i] + k
  BY <1>6, StartsOrdered
<1> HIDE DEF st
<1>10. \A k \in 1..m : st[k] = (k - 1) * size
  <2> DEFINE U == {x \in Nat : x < m => st[x + 1] = x * size}
  <2>1. 0 \in U
    <3>1. 0 * size = 0
      BY <1>2
    <3> QED BY <1>7, <3>1
  <2>2. ASSUME NEW x \in Nat, x \in U PROVE x + 1 \in U
    <3> SUFFICES ASSUME x + 1 < m PROVE st[(x + 1) + 1] = (x + 1) * size
      OBVIOUS
    <3>1. x + 1 \in 1..m /\ x + 1 < m /\ st[x + 1] = x * size
      BY <1>3, <2>2
    <3>2. st[(x + 1) + 1] = st[x + 1] + size
      BY <1>5, <1>7, <3>1
    <3>3. (x + 1) * size = x * size + size
      BY <1>2
    <3> QED BY <3>1, <3>2, <3>3
  <2>3. Nat \subseteq U
    <3> HIDE DEF U
    <3> QED BY <2>1, <2>2, SetInduction
  <2>4. ASSUME NEW k \in 1..m PROVE st[k] = (k - 1) * size
    <3>1. k - 1 \in Nat /\ k - 1 < m /\ (k - 1) + 1 = k
      BY <1>3
    <3> QED BY <2>3, <3>1
  <2> QED BY <2>4
<1>11. st[m + 1] = n
  <2> DEFINE rest == (m - 1) * size
  <2>1. st[m + 1] = st[m] + Len(chunks[m]) /\ st[m] = rest /\ rest \in Int
    BY <1>2, <1>3, <1>7, <1>10
  <2>2. Len(chunks[m]) = n - rest
    BY <1>3, <1>5
  <2> HIDE DEF rest
  <2> QED BY <1>1, <2>1, <2>2
<1>12. FlattenSeq(chunks) = list
  <2>1. ASSUME NEW p \in 1..n PROVE FlattenSeq(chunks)[p] = list[p]
    <3>1. PICK i \in 1..m : \E k \in 1..Len(chunks[i]) : p = st[i] + k
      BY <1>9, <1>11
    <3>2. PICK k \in 1..Len(chunks[i]) : p = st[i] + k
      BY <3>1
    <3>3. FlattenSeq(chunks)[p] = chunks[i][k]
      BY <1>8, <3>2
    <3>4. chunks[i][k] = list[(i - 1) * size + k]
      BY <1>5
    <3>5. st[i] = (i - 1) * size
      BY <1>10
    <3> QED BY <3>2, <3>3, <3>4, <3>5
  <2>2. Len(FlattenSeq(chunks)) = n
    BY <1>8, <1>11
  <2> QED BY <1>8, <2>1, <2>2, SeqEqual DEF n
<1> QED BY <1>3, <1>6, <1>12 DEF chunks, n

-----------------------------------------------------------------------------
(***************************************************************************)
(* Sequences that hold the items of a list.                                *)
(***************************************************************************)
\* Items that have bytes can be told apart.
Distinct(list) == \A a, b \in Solid(list) : list[a] = list[b] => a = b

\* Where the items with bytes are.
LEMMA SolidPositions ==
  ASSUME NEW T, NEW list \in Seq(T)
  PROVE  Solid(list) \subseteq 1..Len(list) /\ Len(list) \in Nat /\ \A a \in Solid(list) : a \in Int
BY LenProperties DEF Solid

\* Items up to some position, followed by those up to a later one.
LEMMA CoversConcat ==
  ASSUME NEW T, NEW s \in Seq(T), NEW t \in Seq(T), NEW U, NEW list \in Seq(U),
         NEW a \in Int, NEW b \in Int, NEW c \in Int, a <= b, b <= c,
         Covers(s, list, a, b), Covers(t, list, b, c)
  PROVE  Covers(s \o t, list, a, c)
<1> DEFINE u == s \o t
<1>1. /\ Len(s) \in Nat /\ Len(t) \in Nat /\ DOMAIN s = 1..Len(s) /\ DOMAIN t = 1..Len(t)
      /\ DOMAIN u = 1..Len(s) + Len(t)
      /\ \A k \in 1..Len(s) + Len(t) : u[k] = IF k <= Len(s) THEN s[k] ELSE t[k - Len(s)]
  BY LenProperties, ConcatProperties
<1>2. \A x \in Solid(list) : x \in Int
  BY SolidPositions
<1> HIDE DEF u
<1>3. /\ \A k \in DOMAIN s, x \in Solid(list) : s[k] = list[x] => a < x /\ x <= b
      /\ \A x \in Solid(list) : a < x /\ x <= b => \E k \in DOMAIN s : s[k] = list[x]
      /\ \A j, k \in DOMAIN s, x, y \in Solid(list) :
           s[j] = list[x] /\ s[k] = list[y] /\ j < k => x < y
  BY DEF Covers
<1>4. /\ \A k \in DOMAIN t, x \in Solid(list) : t[k] = list[x] => b < x /\ x <= c
      /\ \A x \in Solid(list) : b < x /\ x <= c => \E k \in DOMAIN t : t[k] = list[x]
      /\ \A j, k \in DOMAIN t, x, y \in Solid(list) :
           t[j] = list[x] /\ t[k] = list[y] /\ j < k => x < y
  BY DEF Covers
<1>5. ASSUME NEW k \in DOMAIN u
      PROVE  \/ k \in DOMAIN s /\ u[k] = s[k]
             \/ k \notin DOMAIN s /\ k - Len(s) \in DOMAIN t /\ u[k] = t[k - Len(s)]
  BY <1>1
<1>6. ASSUME NEW k \in DOMAIN u, NEW x \in Solid(list), u[k] = list[x]
      PROVE  a < x /\ x <= c
  BY <1>2, <1>3, <1>4, <1>5, <1>6, SMTT(30)
<1>7. ASSUME NEW x \in Solid(list), a < x, x <= c
      PROVE  \E k \in DOMAIN u : u[k] = list[x]
  <2>1. CASE x <= b
    <3>1. PICK k \in DOMAIN s : s[k] = list[x]
      BY <1>3, <1>7, <2>1
    <3>2. k \in DOMAIN u /\ u[k] = s[k]
      BY <1>1
    <3> QED BY <3>1, <3>2
  <2>2. CASE b < x
    <3>1. PICK k \in DOMAIN t : t[k] = list[x]
      BY <1>4, <1>7, <2>2
    <3>2. Len(s) + k \in DOMAIN u /\ u[Len(s) + k] = t[k]
      <4>1. Len(s) + k \in 1..Len(s) + Len(t) /\ ~(Len(s) + k <= Len(s)) /\ (Len(s) + k) - Len(s) = k
        BY <1>1
      <4> QED BY <1>1, <4>1
    <3> QED BY <3>1, <3>2
  <2> QED BY <1>2, <2>1, <2>2
<1>8. ASSUME NEW j \in DOMAIN u, NEW k \in DOMAIN u, NEW x \in Solid(list), NEW y \in Solid(list),
             u[j] = list[x], u[k] = list[y], j < k
      PROVE  x < y
  <2>1. CASE k \in DOMAIN s
    <3>1. j \in DOMAIN s
      BY <1>1, <1>8, <2>1
    <3> QED BY <1>3, <1>5, <1>8, <2>1, <3>1
  <2>2. CASE k \notin DOMAIN s
    <3>1. k - Len(s) \in DOMAIN t /\ t[k - Len(s)] = list[y]
      BY <1>5, <1>8, <2>2
    <3>2. CASE j \in DOMAIN s
      <4>1. x <= b /\ b < y
        BY <1>3, <1>4, <1>5, <1>8, <3>1, <3>2
      <4> QED BY <1>2, <4>1
    <3>3. CASE j \notin DOMAIN s
      <4>1. j - Len(s) \in DOMAIN t /\ t[j - Len(s)] = list[x]
        BY <1>5, <1>8, <3>3
      <4>2. j - Len(s) < k - Len(s)
        BY <1>1, <1>8
      <4> QED BY <1>4, <3>1, <4>1, <4>2
    <3> QED BY <3>2, <3>3
  <2> QED BY <2>1, <2>2
<1> QED BY <1>6, <1>7, <1>8 DEF Covers, u

\* What is left when a part is taken that ends with an item.
LEMMA CoversSplit ==
  ASSUME NEW T, NEW s \in Seq(T), NEW t \in Seq(T), NEW U, NEW list \in Seq(U),
         NEW a \in Int, NEW c \in Int, Covers(s \o t, list, a, c), Distinct(list),
         s # <<>>, NEW b \in Solid(list), s[Len(s)] = list[b]
  PROVE  /\ a < b /\ b <= c
         /\ Covers(s, list, a, b) /\ Covers(t, list, b, c)
<1> DEFINE u == s \o t
<1>1. /\ Len(s) \in Nat /\ Len(t) \in Nat /\ DOMAIN s = 1..Len(s) /\ DOMAIN t = 1..Len(t)
      /\ DOMAIN u = 1..Len(s) + Len(t)
      /\ \A k \in 1..Len(s) + Len(t) : u[k] = IF k <= Len(s) THEN s[k] ELSE t[k - Len(s)]
  BY LenProperties, ConcatProperties
<1>2. \A x \in Solid(list) : x \in Int
  BY SolidPositions
<1>3. Len(s) \in 1..Len(s)
  BY <1>1, EmptySeq
<1> HIDE DEF u
<1>4. \A k \in DOMAIN s : k \in DOMAIN u /\ u[k] = s[k]
  BY <1>1
<1>5. \A k \in DOMAIN t : Len(s) + k \in DOMAIN u /\ u[Len(s) + k] = t[k]
  <2> SUFFICES ASSUME NEW k \in DOMAIN t PROVE Len(s) + k \in DOMAIN u /\ u[Len(s) + k] = t[k]
    OBVIOUS
  <2>1. Len(s) + k \in 1..Len(s) + Len(t) /\ ~(Len(s) + k <= Len(s)) /\ (Len(s) + k) - Len(s) = k
    BY <1>1
  <2> QED BY <1>1, <2>1
<1>6. \A k \in DOMAIN u :
        \/ k \in DOMAIN s
        \/ k - Len(s) \in DOMAIN t /\ u[k] = t[k - Len(s)] /\ Len(s) < k
  BY <1>1
<1>7. /\ \A k \in DOMAIN u, x \in Solid(list) : u[k] = list[x] => a < x /\ x <= c
      /\ \A x \in Solid(list) : a < x /\ x <= c => \E k \in DOMAIN u : u[k] = list[x]
      /\ \A j, k \in DOMAIN u, x, y \in Solid(list) :
           u[j] = list[x] /\ u[k] = list[y] /\ j < k => x < y
  BY DEF Covers, u
<1>8. Len(s) \in DOMAIN u /\ u[Len(s)] = list[b]
  BY <1>1, <1>3, <1>4
<1>9. ASSUME NEW k \in DOMAIN s, NEW x \in Solid(list), s[k] = list[x]
      PROVE  a < x /\ x <= b
  <2>1. a < x
    BY <1>4, <1>7, <1>9
  <2>2. CASE k = Len(s)
    <3>1. x = b
      BY <1>9, <2>2 DEF Distinct
    <3> QED BY <1>2, <2>1, <3>1
  <2>3. CASE k # Len(s)
    <3>1. k < Len(s)
      BY <1>1, <2>3
    <3>2. x < b
      BY <1>4, <1>7, <1>8, <1>9, <3>1
    <3> QED BY <1>2, <2>1, <3>2
  <2> QED BY <2>2, <2>3
<1>10. ASSUME NEW k \in DOMAIN t, NEW x \in Solid(list), t[k] = list[x]
       PROVE  b < x /\ x <= c
  <2>1. Len(s) < Len(s) + k
    BY <1>1
  <2> QED BY <1>5, <1>7, <1>8, <1>10, <2>1
<1>11. ASSUME NEW x \in Solid(list), a < x, x <= b
       PROVE  \E k \in DOMAIN s : s[k] = list[x]
  <2>1. b <= c
    BY <1>7, <1>8
  <2>2. PICK k \in DOMAIN u : u[k] = list[x]
    BY <1>2, <1>7, <1>11, <2>1
  <2>3. ~(Len(s) < k)
    BY <1>2, <1>7, <1>8, <1>11, <2>2
  <2> QED BY <1>4, <1>6, <2>2, <2>3
<1>12. ASSUME NEW x \in Solid(list), b < x, x <= c
       PROVE  \E k \in DOMAIN t : t[k] = list[x]
  <2>1. a < b
    BY <1>7, <1>8
  <2>2. PICK k \in DOMAIN u : u[k] = list[x]
    BY <1>2, <1>7, <1>12, <2>1
  <2>3. k \notin DOMAIN s
    BY <1>2, <1>4, <1>9, <1>12, <2>2
  <2> QED BY <1>6, <2>2, <2>3
<1>13. ASSUME NEW j \in DOMAIN s, NEW k \in DOMAIN s, NEW x \in Solid(list), NEW y \in Solid(list),
              s[j] = list[x], s[k] = list[y], j < k
       PROVE  x < y
  BY <1>4, <1>7, <1>13
<1>14. ASSUME NEW j \in DOMAIN t, NEW k \in DOMAIN t, NEW x \in Solid(list), NEW y \in Solid(list),
              t[j] = list[x], t[k] = list[y], j < k
       PROVE  x < y
  <2>1. Len(s) + j < Len(s) + k
    BY <1>1, <1>14
  <2> QED BY <1>5, <1>7, <1>14, <2>1
<1>15. a < b /\ b <= c
  BY <1>7, <1>8
<1>16. Covers(s, list, a, b)
  BY <1>9, <1>11, <1>13 DEF Covers
<1>17. Covers(t, list, b, c)
  BY <1>10, <1>12, <1>14 DEF Covers
<1> QED BY <1>15, <1>16, <1>17

\* A sequence with none of the items.
LEMMA CoversNothing ==
  ASSUME NEW s, NEW U, NEW list \in Seq(U), NEW a \in Int,
         \A k \in DOMAIN s, x \in Solid(list) : s[k] # list[x]
  PROVE  Covers(s, list, a, a)
<1>1. \A x \in Solid(list) : x \in Int
  BY SolidPositions
<1> QED BY <1>1 DEF Covers

\* Nothing is missing up to the end of a part that has none of the items.
LEMMA CoversBeyond ==
  ASSUME NEW s, NEW t, NEW U, NEW list \in Seq(U), NEW a \in Int, NEW b \in Int, NEW c \in Int,
         b <= c, Covers(s, list, a, b), Covers(t, list, b, c),
         \A k \in DOMAIN t, x \in Solid(list) : t[k] # list[x]
  PROVE  /\ \A x \in Solid(list) : ~(b < x /\ x <= c)
         /\ Covers(s, list, a, c)
<1>1. \A x \in Solid(list) : x \in Int
  BY SolidPositions
<1>2. \A x \in Solid(list) : ~(b < x /\ x <= c)
  BY DEF Covers
<1>3. \A x \in Solid(list) : a < x /\ x <= c <=> a < x /\ x <= b
  BY <1>1, <1>2
<1> QED BY <1>2, <1>3 DEF Covers

\* Leaving out what is no item with bytes.
LEMMA CoversPicked ==
  ASSUME NEW T, NEW s \in Seq(T), NEW U, NEW list \in Seq(U), NEW a \in Int, NEW b \in Int,
         Covers(s, list, a, b), NEW P \in SUBSET (DOMAIN s),
         \A k \in (DOMAIN s) \ P, x \in Solid(list) : s[k] # list[x]
  PROVE  Covers(Picked(s, P), list, a, b)
<1> DEFINE n == Cardinality(P)
           t == Picked(s, P)
<1>1. DOMAIN s = 1..Len(s) /\ Len(s) \in Nat
  BY LenProperties
<1>2. P \in SUBSET (1..Len(s))
  BY <1>1
<1>3. n \in Nat /\ t \in Seq(T) /\ Selects(t, n, s, P)
  BY <1>2, PickedFacts
<1> HIDE DEF n, t
<1>4. PICK at \in [1..n -> P] :
        /\ \A k \in 1..n : t[k] = s[at[k]]
        /\ \A j, k \in 1..n : j < k => at[j] < at[k]
        /\ \A i \in P : \E k \in 1..n : at[k] = i
  BY <1>3 DEF Selects
<1>5. DOMAIN t = 1..n
  BY <1>3, LenProperties DEF Selects
<1>6. \A k \in DOMAIN t : at[k] \in DOMAIN s /\ t[k] = s[at[k]]
  BY <1>4, <1>5
<1>7. \A k \in DOMAIN t, x \in Solid(list) : t[k] = list[x] => a < x /\ x <= b
  BY <1>6 DEF Covers
<1>8. ASSUME NEW x \in Solid(list), a < x, x <= b PROVE \E k \in DOMAIN t : t[k] = list[x]
  <2>1. PICK i \in DOMAIN s : s[i] = list[x]
    BY <1>8 DEF Covers
  <2>2. PICK k \in 1..n : at[k] = i
    BY <1>4, <2>1
  <2> QED BY <1>4, <1>5, <2>1, <2>2
<1>9. ASSUME NEW j \in DOMAIN t, NEW k \in DOMAIN t, NEW x \in Solid(list), NEW y \in Solid(list),
             t[j] = list[x], t[k] = list[y], j < k
      PROVE  x < y
  <2>1. at[j] < at[k]
    BY <1>4, <1>5, <1>9
  <2> QED BY <1>6, <1>9, <2>1 DEF Covers
<1> QED BY <1>7, <1>8, <1>9 DEF Covers, t

\* Items at their places, without the empty ones.
LEMMA CoversPlaces ==
  ASSUME NEW U, NEW list \in Seq(U), Distinct(list), NEW s, NEW a \in Nat, NEW n \in Nat,
         a + n <= Len(list), DOMAIN s = 1..n,
         \A k \in 1..n : \/ s[k] = list[a + k]
                         \/ a + k \notin Solid(list) /\ \A x \in Solid(list) : s[k] # list[x]
  PROVE  Covers(s, list, a, a + n)
<1>1. \A x \in Solid(list) : x \in Int /\ x \in DOMAIN list
  BY SolidPositions DEF Solid
<1>2. Len(list) \in Nat /\ DOMAIN list = 1..Len(list)
  BY LenProperties
<1>3. ASSUME NEW k \in 1..n, NEW x \in Solid(list), s[k] = list[x] PROVE x = a + k
  <2>1. s[k] = list[a + k] /\ a + k \in DOMAIN list
    BY <1>2, <1>3
  <2>2. list[x] \notin {NotBytes, <<>>}
    BY DEF Solid
  <2>3. a + k \in Solid(list)
    BY <1>3, <2>1, <2>2 DEF Solid
  <2> QED BY <1>3, <2>1, <2>3 DEF Distinct
<1>4. ASSUME NEW x \in Solid(list), a < x, x <= a + n PROVE \E k \in 1..n : s[k] = list[x]
  <2>1. x - a \in 1..n /\ a + (x - a) = x
    BY <1>1, <1>4
  <2> QED BY <2>1
<1>5. \A k \in 1..n : a < a + k /\ a + k <= a + n
  OBVIOUS
<1>6. \A j, k \in 1..n : j < k => a + j < a + k
  OBVIOUS
<1> QED BY <1>3, <1>4, <1>5, <1>6 DEF Covers

\* A sequence of items with bytes is as long as there are items between its ends.
LEMMA CoversCount ==
  ASSUME NEW T, NEW s \in Seq(T), NEW U, NEW list \in Seq(U), Distinct(list),
         NEW a \in Nat, NEW b \in Nat, a <= b, Covers(s, list, a, b),
         \A k \in DOMAIN s : \E x \in Solid(list) : s[k] = list[x]
  PROVE  /\ Cardinality(Solid(list) \cap 1..a) \in Nat
         /\ Cardinality(Solid(list) \cap 1..b) = Cardinality(Solid(list) \cap 1..a) + Len(s)
<1> DEFINE n == Len(s)
           new == {x \in Solid(list) : a < x /\ x <= b}
           old == Solid(list) \cap 1..a
           all == Solid(list) \cap 1..b
           f == [k \in 1..n |-> CHOOSE x \in Solid(list) : s[k] = list[x]]
<1>1. n \in Nat /\ DOMAIN s = 1..n
  BY LenProperties
<1>2. \A x \in Solid(list) : x \in Nat \ {0}
  <2>1. Solid(list) \subseteq 1..Len(list) /\ Len(list) \in Nat
    BY SolidPositions
  <2> QED BY <2>1
<1> HIDE DEF n
<1>3. \A k \in 1..n : f[k] \in Solid(list) /\ s[k] = list[f[k]]
  BY <1>1
<1>4. f \in [1..n -> new]
  <2>1. \A k \in 1..n : f[k] \in new
    BY <1>1, <1>3 DEF Covers
  <2> QED BY <2>1
<1> HIDE DEF f
<1>5. \A j, k \in 1..n : f[j] = f[k] => j = k
  <2> SUFFICES ASSUME NEW j \in 1..n, NEW k \in 1..n, f[j] = f[k], j < k PROVE FALSE
    BY <1>1
  <2>1. f[j] < f[k]
    BY <1>1, <1>3 DEF Covers
  <2>2. f[j] \in Nat
    BY <1>2, <1>3
  <2> QED BY <2>1, <2>2
<1>6. \A x \in new : \E k \in 1..n : f[k] = x
  <2> TAKE x \in new
  <2>1. PICK k \in 1..n : s[k] = list[x]
    BY <1>1 DEF Covers
  <2> QED BY <1>3, <2>1 DEF Distinct
<1>7. IsFiniteSet(new) /\ Cardinality(new) = n
  <2>1. f \in Bijection(1..n, new)
    BY <1>4, <1>5, <1>6 DEF Bijection, Injection, Surjection, IsInjective
  <2>2. ExistsBijection(1..n, new)
    BY <2>1 DEF ExistsBijection
  <2>3. IsFiniteSet(1..n) /\ Cardinality(1..n) = n
    BY <1>1, FS_Interval
  <2> HIDE DEF new
  <2> QED BY <2>2, <2>3, FS_Bijection
<1>8. IsFiniteSet(old) /\ Cardinality(old) \in Nat
  <2>1. IsFiniteSet(1..a) /\ old \in SUBSET (1..a)
    BY FS_Interval
  <2> HIDE DEF old
  <2> QED BY <2>1, FS_Subset, FS_CardinalityType
<1>9. all = old \cup new /\ old \cap new = {}
  <2>1. \A x \in Solid(list) : /\ x \in 1..b <=> x \in 1..a \/ (a < x /\ x <= b)
                              /\ ~(x \in 1..a /\ a < x)
    BY <1>2
  <2> QED BY <2>1
<1> HIDE DEF all, old, new
<1>10. Cardinality(all) = Cardinality(old) + Cardinality(new) - Cardinality(old \cap new)
  BY <1>7, <1>8, <1>9, FS_Union
<1>11. Cardinality(old \cap new) = 0
  BY <1>9, FS_EmptySet
<1>12. Cardinality(all) = Cardinality(old) + n
  BY <1>1, <1>7, <1>8, <1>10, <1>11
<1> QED BY <1>8, <1>12 DEF n, old, all

-----------------------------------------------------------------------------
(***************************************************************************)
(* The state: where every call is, what its tasks have done, and how far   *)
(* its items have come.                                                    *)
(***************************************************************************)
Places == {"called", "flattening", "flattened", "batch", "rebuilding", "copying",
           "converting", "adding", "returned", "raised"}

\* What Go takes as bytes.
Known == Bytes \cup {Foreign}

TypeOK ==
  /\ payloads \in Seq(Known)
  /\ call \in [Callers -> UNION {CallsOf(c) : c \in Callers}]
  /\ \A c \in Callers : call[c] \in CallsOf(c)
  /\ pc \in [Callers -> Places]
  /\ pending \in [Callers -> SUBSET Nat]
  /\ parts = [c \in Callers |-> parts[c]]
  /\ flat = [c \in Callers |-> flat[c]]
  /\ batchStart \in [Callers -> Nat]
  /\ rebuilt \in [Callers -> Seq(Bytes \cup {Nil})]
  /\ results \in [Callers -> Seq(Bytes \cup {Nil, NotBytes, Foreign})]
  /\ added \in [Callers -> Nat]
  /\ answer \in [Callers -> Nat]

\* The first item after a batch.
BatchEnd(list, start) == Least(start + GoBatch, Len(list))

\* What the pool and the goroutines have done when the tasks in left are pending.
FlattenTasks(list, workers, left, done) ==
  /\ left \subseteq Team(Len(list), workers)
  /\ done = [k \in Team(Len(list), workers) |-> done[k]]
  /\ \A k \in Team(Len(list), workers) \ left :
       AllBytes(Chunks(list, workers)[k]) /\ done[k] = Flatten(Chunks(list, workers)[k])

ConvertTasks(list, workers, left, done) ==
  /\ left \subseteq Team(Len(list), workers)
  /\ done = [k \in Team(Len(list), workers) |-> done[k]]
  /\ \A k \in Team(Len(list), workers) \ left : done[k] \in Seq({Foreign})

\* The items of a team of size workers that wait for one of the tasks in left.
Waits(i, left, n, workers) == \E w \in left : i \in Share(w, CeilDiv(n, workers), n)

RebuildTasks(list, start, n, left, arrays) ==
  /\ start < Len(list)
  /\ n = BatchEnd(list, start) - start
  /\ Len(arrays) = n
  /\ left \subseteq Team(n, Least(UtilWorkers, n))
  /\ \A i \in 1..n : ~Waits(i, left, n, Least(UtilWorkers, n)) => arrays[i] = list[start + i]

CopyTasks(list, start, n, left, arrays, copied) ==
  /\ start < Len(list)
  /\ n = BatchEnd(list, start) - start
  /\ Len(arrays) = n
  /\ Len(copied) = n
  /\ left \subseteq Team(n, CopyWorkers)
  /\ \A i \in 1..n :
       IF Waits(i, left, n, CopyWorkers)
       THEN arrays[i] = list[start + i] /\ copied[i] = Nil
       ELSE copied[i] = IF list[start + i] = <<>> THEN Nil ELSE list[start + i]

Tasks(c) ==
  /\ pc[c] \notin {"flattening", "rebuilding", "copying", "converting"} => pending[c] = {}
  /\ pc[c] = "flattening" =>
       FlattenTasks(Items(c), call[c].workers, pending[c], parts[c])
  /\ pc[c] = "converting" =>
       ConvertTasks(Items(c), call[c].workers, pending[c], parts[c])
  /\ pc[c] = "rebuilding" =>
       RebuildTasks(Items(c), batchStart[c], Len(rebuilt[c]), pending[c], rebuilt[c])
  /\ pc[c] = "copying" /\ pending[c] # {} =>
       CopyTasks(Items(c), batchStart[c], Len(rebuilt[c]), pending[c], rebuilt[c], results[c])

\* The flattened list is the list.
Flats(c) ==
  pc[c] \in {"flattened", "batch", "rebuilding", "copying"} =>
    AllBytes(Items(c)) /\ IsFlat(flat[c], Items(c))

\* Which method is where.
Methods(c) ==
  /\ pc[c] \in {"flattening", "flattened", "batch", "rebuilding", "copying"} =>
       call[c].method = "flat"
  /\ pc[c] = "converting" => call[c].method = "batch"
  /\ pc[c] = "adding" => call[c].method \in {"batch", "add"}
  /\ pc[c] \notin {"called", "returned"} => call[c].items # <<>>

IsItem(x, list) == \E i \in DOMAIN list : x = list[i]
IsSolid(x, list) == \E i \in Solid(list) : x = list[i]

\* What still is to be appended comes from the items.
Sources(c) ==
  /\ pc[c] = "copying" =>
       \A k \in DOMAIN results[c] : results[c][k] = Nil \/ IsSolid(results[c][k], Items(c))
  /\ pc[c] = "adding" /\ call[c].method = "batch" => results[c] \in Seq({Foreign})
  /\ pc[c] = "adding" /\ call[c].method = "add" =>
       results[c] = SubSeq(Items(c), added[c] + 1, Len(Items(c)))

\* What has been counted, and what is returned.
Counts(c) ==
  /\ pc[c] \in {"called", "flattening", "flattened", "converting"} =>
       added[c] = 0 /\ batchStart[c] = 0
  /\ pc[c] = "returned" /\ call[c].method = "flat" => answer[c] = Cardinality(Solid(Items(c)))
  /\ pc[c] = "returned" /\ call[c].method = "add" => answer[c] = Len(Items(c))

\* Payloads hold the items up to position m; what results hold follows them.
Place(c, m) ==
  /\ pc[c] \in {"called", "flattening", "flattened", "converting"} => m = 0
  /\ pc[c] \in {"batch", "rebuilding"} \/ (pc[c] = "copying" /\ pending[c] # {}) =>
       m = Least(batchStart[c], Len(Items(c)))
  /\ pc[c] = "copying" /\ pending[c] = {} =>
       /\ m <= BatchEnd(Items(c), batchStart[c])
       /\ Covers(results[c], Items(c), m, BatchEnd(Items(c), batchStart[c]))
  /\ pc[c] \in {"batch", "rebuilding", "copying"} =>
       added[c] = Cardinality(Solid(Items(c)) \cap 1..m)
  /\ pc[c] = "adding" /\ call[c].method = "add" =>
       Covers(results[c], Items(c), m, Len(Items(c)))
  /\ pc[c] = "returned" /\ call[c].method \in {"flat", "add"} => m = Len(Items(c))

Progress(c) ==
  \E m \in 0..Len(Items(c)) : Covers(payloads, Items(c), 0, m) /\ Place(c, m)

\* What a call may append: its items, or what its handles name.
Own(c, x) ==
  \/ call[c].method \in {"flat", "add"} /\ IsItem(x, Items(c))
  \/ call[c].method = "batch" /\ x = Foreign

\* Every payload is an item of a caller or has come from a handle.
Origin ==
  \A k \in DOMAIN payloads : \E c \in Callers : Own(c, payloads[k])

CallInv(c) == Tasks(c) /\ Flats(c) /\ Methods(c) /\ Sources(c) /\ Counts(c)

Inv == TypeOK /\ Origin /\ \A c \in Callers : CallInv(c) /\ Progress(c)

-----------------------------------------------------------------------------
\* Bytes are what Go takes.
LEMMA KnownSeq ==
  ASSUME NEW s \in Seq(Bytes)
  PROVE  s \in Seq(Known)
<1>1. Len(s) \in Nat /\ s \in [1..Len(s) -> Bytes]
  BY LenProperties
<1>2. s \in [1..Len(s) -> Known]
  BY <1>1 DEF Known
<1> QED BY <1>1, <1>2, FunctionIsSeq

\* The items of a caller know where they come from.
LEMMA ItemsFacts ==
  ASSUME TypeOK, NEW c \in Callers
  PROVE  /\ call[c] \in CallsOf(c)
         /\ call[c].method \in {"flat", "batch", "add", "convert"}
         /\ call[c].items \in Seq(Nat \cup {NotBytes})
         /\ call[c].workers \in Nat \ {0}
         /\ Items(c) \in Seq(Bytes \cup {NotBytes})
         /\ Len(Items(c)) \in Nat /\ Len(Items(c)) = Len(call[c].items)
         /\ DOMAIN Items(c) = 1..Len(Items(c))
         /\ \A i \in 1..Len(Items(c)) :
              /\ Items(c)[i] = Item(c, i)
              /\ call[c].items[i] = NotBytes <=> Items(c)[i] = NotBytes
<1>1. /\ call[c] \in CallsOf(c)
      /\ call[c].method \in {"flat", "batch", "add", "convert"}
      /\ call[c].items \in Seq(Nat \cup {NotBytes})
      /\ call[c].workers \in Nat \ {0}
  BY CallsAssumption DEF TypeOK
<1> DEFINE lengths == call[c].items
           n == Len(lengths)
<1>2. n \in Nat /\ DOMAIN lengths = 1..n /\ \A i \in 1..n : lengths[i] \in Nat \cup {NotBytes}
  BY <1>1, LenProperties, ElementOfSeq
<1> HIDE DEF n
<1>3. ASSUME NEW i \in 1..n
      PROVE  /\ Item(c, i) \in Bytes \cup {NotBytes}
             /\ lengths[i] = NotBytes <=> Item(c, i) = NotBytes
  <2>1. CASE lengths[i] = NotBytes
    BY <2>1 DEF Item
  <2>2. CASE lengths[i] # NotBytes
    <3> DEFINE s == [k \in 1..lengths[i] |-> <<c, i, k>>]
    <3>1. lengths[i] \in Nat /\ Item(c, i) = s
      BY <1>2, <2>2 DEF Item
    <3>2. s \in [1..lengths[i] -> Callers \X Nat \X Nat]
      BY <1>2
    <3>3. s \in Seq(Callers \X Nat \X Nat)
      BY <3>1, <3>2, FunctionIsSeq
    <3> QED BY <2>2, <3>1, <3>3, NoBytes DEF Bytes
  <2> QED BY <2>1, <2>2
<1>4. Items(c) = [i \in 1..n |-> Item(c, i)]
  BY <1>2 DEF Items
<1>5. Items(c) \in [1..n -> Bytes \cup {NotBytes}]
  BY <1>3, <1>4
<1>6. Items(c) \in Seq(Bytes \cup {NotBytes}) /\ Len(Items(c)) = n
  BY <1>2, <1>5, FunctionIsSeq
<1> QED BY <1>1, <1>2, <1>3, <1>4, <1>6 DEF n

\* An item that has bytes is found at one position only, of one caller.
LEMMA ItemsApart ==
  ASSUME TypeOK, NEW c \in Callers, NEW d \in Callers,
         NEW i \in Solid(Items(c)), NEW j \in DOMAIN Items(d), Items(c)[i] = Items(d)[j]
  PROVE  c = d /\ i = j
<1>1. /\ i \in DOMAIN Items(c) /\ Items(c)[i] # NotBytes /\ Items(c)[i] # <<>>
      /\ i \in 1..Len(Items(c)) /\ j \in 1..Len(Items(d))
  BY ItemsFacts DEF Solid
<1>2. Items(c)[i] = Item(c, i) /\ Items(d)[j] = Item(d, j)
  BY <1>1, ItemsFacts
<1> DEFINE p == call[c].items[i]
           q == call[d].items[j]
<1>3. p # NotBytes /\ q # NotBytes
  BY <1>1, ItemsFacts
<1>4. p \in Nat /\ q \in Nat
  <2>1. call[c].items \in Seq(Nat \cup {NotBytes}) /\ i \in 1..Len(call[c].items)
    BY <1>1, ItemsFacts
  <2>2. call[d].items \in Seq(Nat \cup {NotBytes}) /\ j \in 1..Len(call[d].items)
    BY <1>1, ItemsFacts
  <2>3. p \in Nat \cup {NotBytes} /\ q \in Nat \cup {NotBytes}
    BY <2>1, <2>2, ElementOfSeq
  <2> QED BY <1>3, <2>3
<1>5. Item(c, i) = [k \in 1..p |-> <<c, i, k>>] /\ Item(d, j) = [k \in 1..q |-> <<d, j, k>>]
  BY <1>3 DEF Item
<1> HIDE DEF p, q
<1>6. p # 0
  <2>1. SUFFICES ASSUME p = 0 PROVE FALSE
    OBVIOUS
  <2>2. Item(c, i) = [k \in {} |-> <<c, i, k>>]
    BY <1>5, <2>1
  <2>3. Item(c, i) = <<>>
    BY <2>2
  <2> QED BY <1>1, <1>2, <2>3
<1>7. 1..p = 1..q
  BY <1>2, <1>5
<1>8. 1 \in 1..p /\ 1 \in 1..q
  BY <1>4, <1>6, <1>7
<1>9. Item(c, i)[1] = <<c, i, 1>> /\ Item(d, j)[1] = <<d, j, 1>>
  BY <1>5, <1>8
<1>10. <<c, i, 1>> = <<d, j, 1>>
  BY <1>2, <1>9, Zenon
<1> QED BY <1>10

\* No item of a caller that has bytes is there twice.
LEMMA ItemsDistinct ==
  ASSUME TypeOK, NEW c \in Callers
  PROVE  Distinct(Items(c))
BY ItemsApart DEF Distinct, Solid

\* The calls stay what they are.
LEMMA ItemsSame ==
  ASSUME call' = call
  PROVE  \A c : Items(c)' = Items(c) /\ \A i : Item(c, i)' = Item(c, i)
BY DEF Items, Item

-----------------------------------------------------------------------------
\* A step of caller c leaves what belongs to the others alone.
Kept(c) ==
  /\ call' = call
  /\ \A d \in Callers \ {c} :
       /\ pc'[d] = pc[d] /\ pending'[d] = pending[d] /\ parts'[d] = parts[d]
       /\ flat'[d] = flat[d] /\ batchStart'[d] = batchStart[d]
       /\ rebuilt'[d] = rebuilt[d] /\ results'[d] = results[d]
       /\ added'[d] = added[d] /\ answer'[d] = answer[d]

\* It appends what c may append, or nothing.
Appends(c) ==
  \E s \in Seq(Known) : payloads' = payloads \o s /\ \A k \in DOMAIN s : Own(c, s[k])

\* What is shown of every step of caller c.
Fine(c) == TypeOK' /\ Kept(c) /\ Appends(c) /\ CallInv(c)' /\ Progress(c)'

\* Payloads that stay the same.
LEMMA NothingAppended ==
  ASSUME TypeOK, payloads' = payloads, NEW c \in Callers
  PROVE  Appends(c)
<1>1. payloads \in Seq(Known) /\ <<>> \in Seq(Known)
  BY EmptySeq DEF TypeOK
<1>2. payloads' = payloads \o <<>>
  BY <1>1, ConcatEmptySeq
<1>3. DOMAIN <<>> = {}
  OBVIOUS
<1> QED BY <1>1, <1>2, <1>3 DEF Appends

\* A step of one caller leaves what is said of another true.
LEMMA OthersKept ==
  ASSUME TypeOK, NEW c \in Callers, NEW d \in Callers, d # c, Kept(c), Appends(c),
         CallInv(d), Progress(d)
  PROVE  CallInv(d)' /\ Progress(d)'
<1>1. call' = call /\ Items(d)' = Items(d)
  BY ItemsSame DEF Kept
<1>2. /\ pc'[d] = pc[d] /\ pending'[d] = pending[d] /\ parts'[d] = parts[d]
      /\ flat'[d] = flat[d] /\ batchStart'[d] = batchStart[d]
      /\ rebuilt'[d] = rebuilt[d] /\ results'[d] = results[d]
      /\ added'[d] = added[d] /\ answer'[d] = answer[d]
  BY DEF Kept
<1>3. CallInv(d)'
  <2>1. Tasks(d)'
    BY <1>1, <1>2 DEF CallInv, Tasks
  <2>2. Flats(d)'
    BY <1>1, <1>2 DEF CallInv, Flats
  <2>3. Methods(d)'
    BY <1>1, <1>2 DEF CallInv, Methods
  <2>4. Sources(d)'
    BY <1>1, <1>2 DEF CallInv, Sources
  <2>5. Counts(d)'
    BY <1>1, <1>2 DEF CallInv, Counts
  <2> QED BY <2>1, <2>2, <2>3, <2>4, <2>5 DEF CallInv
<1>4. Progress(d)'
  <2> DEFINE list == Items(d)
  <2>1. PICK m \in 0..Len(list) : Covers(payloads, list, 0, m) /\ Place(d, m)
    BY DEF Progress
  <2>2. PICK s \in Seq(Known) : payloads' = payloads \o s /\ \A k \in DOMAIN s : Own(c, s[k])
    BY DEF Appends
  <2>3. list \in Seq(Bytes \cup {NotBytes}) /\ Len(list) \in Nat
    BY ItemsFacts
  <2>4. \A k \in DOMAIN s, x \in Solid(list) : s[k] # list[x]
    <3> SUFFICES ASSUME NEW k \in DOMAIN s, NEW x \in Solid(list), s[k] = list[x] PROVE FALSE
      OBVIOUS
    <3>1. x \in DOMAIN list /\ list[x] \in Bytes \cup {NotBytes} /\ list[x] # NotBytes
      BY <2>3, ElementOfSeq DEF Solid
    <3>2. s[k] # Foreign
      BY <3>1, NoBytes
    <3>3. PICK i \in DOMAIN Items(c) : s[k] = Items(c)[i]
      BY <2>2, <3>2 DEF Own, IsItem
    <3> QED BY <3>3, ItemsApart
  <2>5. payloads \in Seq(Known) /\ m \in Int /\ 0 \in Int /\ 0 <= m /\ m <= m
    BY <2>1, <2>3 DEF TypeOK
  <2>6. Place(d, m)'
    BY <1>1, <1>2, <2>1 DEF Place
  <2> HIDE DEF list
  <2>7. Covers(s, list, m, m)
    BY <2>3, <2>4, <2>5, CoversNothing
  <2>8. Covers(payloads \o s, list, 0, m)
    BY <2>1, <2>2, <2>3, <2>5, <2>7, CoversConcat
  <2>9. Covers(payloads', list, 0, m)
    BY <2>2, <2>8
  <2> QED BY <1>1, <2>1, <2>6, <2>9 DEF Progress, list
<1> QED BY <1>3, <1>4

\* What is appended comes from a caller.
LEMMA OriginKept ==
  ASSUME TypeOK, Origin, NEW c \in Callers, Kept(c), Appends(c)
  PROVE  Origin'
<1>1. PICK s \in Seq(Known) : payloads' = payloads \o s /\ \A k \in DOMAIN s : Own(c, s[k])
  BY DEF Appends
<1>2. /\ payloads \in Seq(Known) /\ Len(payloads) \in Nat /\ Len(s) \in Nat
      /\ DOMAIN payloads = 1..Len(payloads) /\ DOMAIN s = 1..Len(s)
      /\ payloads \o s \in Seq(Known) /\ Len(payloads \o s) = Len(payloads) + Len(s)
      /\ \A i \in 1..Len(payloads) + Len(s) :
           (payloads \o s)[i] = IF i <= Len(payloads) THEN payloads[i] ELSE s[i - Len(payloads)]
  <2>1. payloads \in Seq(Known)
    BY DEF TypeOK
  <2> QED BY <2>1, LenProperties, ConcatProperties
<1>3. DOMAIN (payloads') = 1..Len(payloads) + Len(s)
  BY <1>1, <1>2, LenProperties
<1>4. ASSUME NEW k \in DOMAIN (payloads') PROVE \E d \in Callers : Own(d, payloads'[k])
  <2>1. CASE k <= Len(payloads)
    <3>1. k \in DOMAIN payloads /\ payloads'[k] = payloads[k]
      BY <1>1, <1>2, <1>3, <2>1
    <3> QED BY <3>1 DEF Origin
  <2>2. CASE ~(k <= Len(payloads))
    <3>1. k - Len(payloads) \in DOMAIN s /\ payloads'[k] = s[k - Len(payloads)]
      BY <1>1, <1>2, <1>3, <2>2
    <3> QED BY <1>1, <3>1
  <2> QED BY <2>1, <2>2
<1>5. call' = call /\ \A d : Items(d)' = Items(d)
  BY ItemsSame DEF Kept
<1> QED BY <1>4, <1>5 DEF Origin, Own

-----------------------------------------------------------------------------
(***************************************************************************)
(* The steps of a call that has just been made.                            *)
(***************************************************************************)
\* The pieces of Fine for a step that appends nothing.
LEMMA QuietStep ==
  ASSUME TypeOK, NEW c \in Callers, Progress(c), payloads' = payloads, TypeOK', Kept(c),
         CallInv(c)',
         \A m \in 0..Len(Items(c)) : Place(c, m) /\ Covers(payloads, Items(c), 0, m) =>
           \E n \in 0..Len(Items(c)) :
             Place(c, n)' /\ Covers(payloads, Items(c), 0, n)
  PROVE  Fine(c)
<1>1. Items(c)' = Items(c)
  BY ItemsSame DEF Kept
<1>2. Progress(c)'
  BY <1>1 DEF Progress
<1>3. Appends(c)
  BY NothingAppended
<1> QED BY <1>2, <1>3 DEF Fine

\* EmptyCall leaves what is said of its caller and of the others true.
LEMMA EmptyCallFine ==
  ASSUME TypeOK, NEW c \in Callers, CallInv(c), Progress(c), EmptyCall(c)
  PROVE  Fine(c)
<1>1. TypeOK' /\ Kept(c) /\ payloads' = payloads
  BY DEF TypeOK, Kept, EmptyCall, Returns, Goes, ListsUnchanged, Places
<1>2. Items(c)' = Items(c) /\ call' = call
  BY <1>1, ItemsSame DEF Kept
<1>3. /\ pc[c] = "called" /\ pc'[c] = "returned" /\ answer'[c] = 0
      /\ pending'[c] = pending[c] /\ call[c].items = <<>>
  BY DEF TypeOK, EmptyCall, Returns, Goes
<1>4. Len(Items(c)) = 0 /\ Solid(Items(c)) = {}
  BY <1>3, ItemsFacts DEF Solid
<1>5. Cardinality(Solid(Items(c))) = 0
  BY <1>4, FS_EmptySet
<1>6. CallInv(c)'
  <2>1. Tasks(c)'
    BY <1>3 DEF CallInv, Tasks
  <2>2. Flats(c)' /\ Methods(c)' /\ Sources(c)'
    BY <1>3 DEF Flats, Methods, Sources
  <2>3. Counts(c)'
    BY <1>2, <1>3, <1>4, <1>5 DEF Counts
  <2> QED BY <2>1, <2>2, <2>3 DEF CallInv
<1>7. ASSUME NEW m \in 0..Len(Items(c)) PROVE Place(c, m)'
  BY <1>2, <1>3, <1>4 DEF Place
<1> QED BY <1>1, <1>6, <1>7, QuietStep

\* A call that raises before anything is added.
LEMMA RaisesAtOnce ==
  ASSUME TypeOK, NEW c \in Callers, CallInv(c), Progress(c), TypeOK', Kept(c),
         payloads' = payloads, pc'[c] = "raised", pending'[c] = {}, added'[c] = 0,
         call[c].items # <<>>, call[c].method # "add"
  PROVE  Fine(c)
<1>1. Items(c)' = Items(c) /\ call' = call
  BY ItemsSame DEF Kept
<1>2. Tasks(c)' /\ Flats(c)' /\ Methods(c)' /\ Sources(c)'
  BY <1>1 DEF Tasks, Flats, Methods, Sources
<1>3. Counts(c)'
  BY <1>1, SizesPositive DEF Counts
<1>4. ASSUME NEW m \in 0..Len(Items(c)) PROVE Place(c, m)'
  BY DEF Place
<1> QED BY <1>2, <1>3, <1>4, QuietStep DEF CallInv

\* ConvertRaises leaves what is said of its caller and of the others true.
LEMMA ConvertRaisesFine ==
  ASSUME TypeOK, NEW c \in Callers, CallInv(c), Progress(c), ConvertRaises(c)
  PROVE  Fine(c)
<1>1. TypeOK' /\ Kept(c) /\ payloads' = payloads
  BY DEF TypeOK, Kept, ConvertRaises, Quiet, Goes, ListsUnchanged, Places
<1>2. /\ pc[c] = "called" /\ pc'[c] = "raised" /\ pending'[c] = pending[c]
      /\ added'[c] = added[c] /\ call[c].items # <<>> /\ call[c].method # "add"
  BY DEF TypeOK, ConvertRaises, Quiet, Goes
<1>3. pending'[c] = {} /\ added'[c] = 0
  BY <1>2 DEF CallInv, Tasks, Counts
<1> QED BY <1>1, <1>2, <1>3, RaisesAtOnce

\* BatchRefuses leaves what is said of its caller and of the others true.
LEMMA BatchRefusesFine ==
  ASSUME TypeOK, NEW c \in Callers, CallInv(c), Progress(c), BatchRefuses(c)
  PROVE  Fine(c)
<1>1. TypeOK' /\ Kept(c) /\ payloads' = payloads
  BY DEF TypeOK, Kept, BatchRefuses, Quiet, Goes, ListsUnchanged, Places
<1>2. /\ pc[c] = "called" /\ pc'[c] = "raised" /\ pending'[c] = pending[c]
      /\ added'[c] = added[c] /\ call[c].items # <<>> /\ call[c].method # "add"
  BY DEF TypeOK, BatchRefuses, Quiet, Goes
<1>3. pending'[c] = {} /\ added'[c] = 0
  BY <1>2 DEF CallInv, Tasks, Counts
<1> QED BY <1>1, <1>2, <1>3, RaisesAtOnce

\* The flattened list is there.
LEMMA FlattenedFine ==
  ASSUME TypeOK, NEW c \in Callers, CallInv(c), Progress(c), TypeOK', Kept(c),
         payloads' = payloads, pc[c] \in {"called", "flattening"}, pc'[c] = "flattened",
         pending'[c] = {}, added'[c] = added[c], batchStart'[c] = batchStart[c],
         call[c].method = "flat", call[c].items # <<>>,
         AllBytes(Items(c)), IsFlat(flat'[c], Items(c))
  PROVE  Fine(c)
<1>1. Items(c)' = Items(c) /\ call' = call
  BY ItemsSame DEF Kept
<1>2. Tasks(c)' /\ Flats(c)' /\ Methods(c)' /\ Sources(c)'
  BY <1>1 DEF Tasks, Flats, Methods, Sources
<1>3. Counts(c)'
  BY <1>1 DEF CallInv, Counts
<1>4. ASSUME NEW m \in 0..Len(Items(c)), Place(c, m) PROVE Place(c, m)'
  BY <1>4 DEF Place
<1> QED BY <1>2, <1>3, <1>4, QuietStep DEF CallInv

\* A list without anything but bytes is a list of bytes.
LEMMA BytesOnly ==
  ASSUME NEW list \in Seq(Bytes \cup {NotBytes}), AllBytes(list)
  PROVE  list \in Seq(Bytes)
<1>1. Len(list) \in Nat /\ list \in [1..Len(list) -> Bytes \cup {NotBytes}]
  BY LenProperties
<1>2. \A i \in 1..Len(list) : list[i] \in Bytes
  BY <1>1 DEF AllBytes, IsBytes
<1>3. list \in [1..Len(list) -> Bytes]
  BY <1>1, <1>2
<1> QED BY <1>1, <1>3, FunctionIsSeq

\* FlattenAll leaves what is said of its caller and of the others true.
LEMMA FlattenAllFine ==
  ASSUME TypeOK, NEW c \in Callers, CallInv(c), Progress(c), NEW from \in {"called", "flattening"},
         FlattenAll(c, from), pending' = [pending EXCEPT ![c] = {}], Quiet,
         call[c].method = "flat", call[c].items # <<>>
  PROVE  Fine(c)
<1>1. TypeOK' /\ Kept(c) /\ payloads' = payloads
  <2>1. CASE AllBytes(Items(c))
    BY <2>1 DEF TypeOK, Kept, FlattenAll, Quiet, Goes, Places
  <2>2. CASE ~AllBytes(Items(c))
    BY <2>2 DEF TypeOK, Kept, FlattenAll, Quiet, Goes, Places
  <2> QED BY <2>1, <2>2
<1>2. /\ pc[c] = from /\ pending'[c] = {} /\ added'[c] = added[c]
      /\ batchStart'[c] = batchStart[c]
  BY DEF TypeOK, FlattenAll, Quiet, Goes
<1>3. CASE AllBytes(Items(c))
  <2>1. pc'[c] = "flattened" /\ flat'[c] = Flatten(Items(c))
    BY <1>3 DEF TypeOK, FlattenAll, Goes
  <2>2. Items(c) \in Seq(Bytes)
    BY <1>3, ItemsFacts, BytesOnly
  <2>3. IsFlat(Flatten(Items(c)), Items(c))
    BY <2>2, FlattenIsFlat
  <2> QED BY <1>1, <1>2, <1>3, <2>1, <2>3, FlattenedFine
<1>4. CASE ~AllBytes(Items(c))
  <2>1. pc'[c] = "raised"
    BY <1>4 DEF TypeOK, FlattenAll, Goes
  <2>2. added[c] = 0
    BY <1>2 DEF CallInv, Counts
  <2> QED BY <1>1, <1>2, <2>1, <2>2, RaisesAtOnce
<1> QED BY <1>3, <1>4

\* FlattenHere leaves what is said of its caller and of the others true.
LEMMA FlattenHereFine ==
  ASSUME TypeOK, NEW c \in Callers, CallInv(c), Progress(c), FlattenHere(c)
  PROVE  Fine(c)
<1>1. pc[c] = "called"
  BY DEF FlattenHere, FlattenAll, Goes
<1>2. pending[c] = {}
  BY <1>1 DEF CallInv, Tasks
<1>3. pending' = [pending EXCEPT ![c] = {}]
  BY <1>2 DEF TypeOK, FlattenHere
<1>4. call[c].items # <<>>
  BY EmptySeq DEF FlattenHere
<1> QED BY <1>3, <1>4, FlattenAllFine DEF FlattenHere

\* FlattenPoolRaises leaves what is said of its caller and of the others true.
LEMMA FlattenPoolRaisesFine ==
  ASSUME TypeOK, NEW c \in Callers, CallInv(c), Progress(c), FlattenPoolRaises(c)
  PROVE  Fine(c)
<1>1. call[c].method = "flat" /\ call[c].items # <<>>
  BY DEF FlattenPoolRaises, CallInv, Methods
<1> QED BY <1>1, FlattenAllFine DEF FlattenPoolRaises

-----------------------------------------------------------------------------
(***************************************************************************)
(* The steps of the pools of processes.                                    *)
(***************************************************************************)
LEMMA TeamNumbers ==
  ASSUME NEW n, NEW workers \in Nat
  PROVE  Team(n, workers) \in SUBSET Nat
BY DEF Team

\* StartPool leaves what is said of its caller and of the others true.
LEMMA StartPoolFine ==
  ASSUME TypeOK, NEW c \in Callers, CallInv(c), Progress(c),
         NEW to \in {"flattening", "converting"}, StartPool(c, to), call[c].items # <<>>,
         to = "flattening" => call[c].method = "flat",
         to = "converting" => call[c].method = "batch"
  PROVE  Fine(c)
<1> DEFINE team == Team(Len(call[c].items), call[c].workers)
<1>1. team \in SUBSET Nat /\ team = Team(Len(Items(c)), call[c].workers)
  <2>1. call[c].workers \in Nat /\ Len(Items(c)) = Len(call[c].items)
    BY ItemsFacts
  <2> QED BY <2>1, TeamNumbers
<1>2. /\ pc[c] = "called" /\ pc' = [pc EXCEPT ![c] = to]
      /\ pending' = [pending EXCEPT ![c] = team]
      /\ parts' = [parts EXCEPT ![c] = [k \in team |-> Nil]]
      /\ UNCHANGED <<flat, batchStart, rebuilt, results, payloads, call, added, answer>>
  BY DEF StartPool, Goes, Quiet
<1> HIDE DEF team
<1>3. TypeOK' /\ Kept(c) /\ payloads' = payloads
  BY <1>1, <1>2 DEF TypeOK, Kept, Places
<1>4. Items(c)' = Items(c) /\ call' = call
  BY <1>3, ItemsSame DEF Kept
<1>5. /\ pc'[c] = to /\ pending'[c] = team /\ parts'[c] = [k \in team |-> Nil]
      /\ added'[c] = added[c] /\ batchStart'[c] = batchStart[c]
  BY <1>2 DEF TypeOK
<1>6. Tasks(c)'
  <2>1. FlattenTasks(Items(c), call[c].workers, team, [k \in team |-> Nil])
    BY <1>1 DEF FlattenTasks
  <2>2. ConvertTasks(Items(c), call[c].workers, team, [k \in team |-> Nil])
    BY <1>1 DEF ConvertTasks
  <2> QED BY <1>4, <1>5, <2>1, <2>2 DEF Tasks
<1>7. Flats(c)' /\ Methods(c)' /\ Sources(c)'
  BY <1>4, <1>5 DEF Flats, Methods, Sources
<1>8. Counts(c)'
  BY <1>2, <1>4, <1>5 DEF CallInv, Counts
<1>9. ASSUME NEW m \in 0..Len(Items(c)), Place(c, m) PROVE Place(c, m)'
  BY <1>2, <1>5, <1>9 DEF Place
<1> QED BY <1>3, <1>6, <1>7, <1>8, <1>9, QuietStep DEF CallInv

\* FlattenInPool leaves what is said of its caller and of the others true.
LEMMA FlattenInPoolFine ==
  ASSUME TypeOK, NEW c \in Callers, CallInv(c), Progress(c), FlattenInPool(c)
  PROVE  Fine(c)
<1>1. call[c].items # <<>>
  BY SizesPositive, EmptySeq DEF FlattenInPool
<1> QED BY <1>1, StartPoolFine DEF FlattenInPool

\* ConvertInPool leaves what is said of its caller and of the others true.
LEMMA ConvertInPoolFine ==
  ASSUME TypeOK, NEW c \in Callers, CallInv(c), Progress(c), ConvertInPool(c)
  PROVE  Fine(c)
<1>1. call[c].items # <<>>
  BY SizesPositive, EmptySeq DEF ConvertInPool
<1> QED BY <1>1, StartPoolFine DEF ConvertInPool

\* A task of a pool leaves the place of the call.
LEMMA PoolTaskFine ==
  ASSUME TypeOK, NEW c \in Callers, CallInv(c), Progress(c), NEW k, NEW part,
         PoolTask(c, k, part), pc[c] \in {"flattening", "converting"},
         pc[c] = "flattening" =>
           FlattenTasks(Items(c), call[c].workers, pending'[c], parts'[c]),
         pc[c] = "converting" =>
           ConvertTasks(Items(c), call[c].workers, pending'[c], parts'[c])
  PROVE  Fine(c)
<1>1. TypeOK' /\ Kept(c) /\ payloads' = payloads
  BY DEF TypeOK, Kept, PoolTask, Quiet
<1>2. Items(c)' = Items(c) /\ call' = call
  BY <1>1, ItemsSame DEF Kept
<1>3. pc' = pc /\ added' = added /\ batchStart' = batchStart
  BY DEF PoolTask, Quiet
<1>4. Tasks(c)'
  BY <1>2, <1>3 DEF Tasks
<1>5. Flats(c)' /\ Methods(c)' /\ Sources(c)'
  BY <1>2, <1>3 DEF CallInv, Flats, Methods, Sources
<1>6. Counts(c)'
  BY <1>2, <1>3 DEF CallInv, Counts
<1>7. ASSUME NEW m \in 0..Len(Items(c)), Place(c, m) PROVE Place(c, m)'
  BY <1>2, <1>3, <1>7 DEF Place
<1> QED BY <1>1, <1>4, <1>5, <1>6, <1>7, QuietStep DEF CallInv

\* FlattenTask leaves what is said of its caller and of the others true.
LEMMA FlattenTaskFine ==
  ASSUME TypeOK, NEW c \in Callers, CallInv(c), Progress(c), NEW k \in pending[c],
         FlattenTask(c, k)
  PROVE  Fine(c)
<1> DEFINE team == Team(Len(Items(c)), call[c].workers)
           chunks == Chunks(Items(c), call[c].workers)
<1>1. pc[c] = "flattening" /\ AllBytes(chunks[k]) /\ PoolTask(c, k, Flatten(chunks[k]))
  BY DEF FlattenTask
<1>2. FlattenTasks(Items(c), call[c].workers, pending[c], parts[c])
  BY <1>1 DEF CallInv, Tasks
<1>3. /\ pending[c] \subseteq team
      /\ parts[c] = [j \in team |-> parts[c][j]]
      /\ \A j \in team \ pending[c] : AllBytes(chunks[j]) /\ parts[c][j] = Flatten(chunks[j])
  BY <1>2 DEF FlattenTasks
<1>4. /\ pending'[c] = pending[c] \ {k}
      /\ parts'[c] = [parts[c] EXCEPT ![k] = Flatten(chunks[k])]
  BY <1>1 DEF TypeOK, PoolTask
<1> HIDE DEF team, chunks
<1>5. /\ pending'[c] \subseteq team
      /\ parts'[c] = [j \in team |-> parts'[c][j]]
      /\ \A j \in team \ pending'[c] : AllBytes(chunks[j]) /\ parts'[c][j] = Flatten(chunks[j])
  BY <1>1, <1>3, <1>4
<1>6. FlattenTasks(Items(c), call[c].workers, pending'[c], parts'[c])
  BY <1>5 DEF FlattenTasks, team, chunks
<1> QED BY <1>1, <1>6, PoolTaskFine

\* A list of handles.
LEMMA HandlesFacts ==
  ASSUME NEW n \in Nat
  PROVE  Handles(n) \in Seq({Foreign})
<1>1. Handles(n) \in [1..n -> {Foreign}]
  BY DEF Handles
<1> QED BY <1>1, FunctionIsSeq

\* A chunk has a number of items that are bytes.
LEMMA ChunkFinite ==
  ASSUME TypeOK, NEW c \in Callers, call[c].items # <<>>,
         NEW k \in Team(Len(Items(c)), call[c].workers)
  PROVE  LET chunk == Chunks(Items(c), call[c].workers)[k]
         IN Cardinality({i \in DOMAIN chunk : IsBytes(chunk[i])}) \in Nat
<1> DEFINE list == Items(c)
           chunks == Chunks(list, call[c].workers)
           P == {i \in DOMAIN chunks[k] : IsBytes(chunks[k][i])}
<1>1. list # <<>> /\ list \in Seq(Bytes \cup {NotBytes}) /\ call[c].workers \in Nat \ {0}
  <2>1. Len(call[c].items) # 0
    BY ItemsFacts, EmptySeq
  <2> QED BY <2>1, ItemsFacts, EmptySeq
<1>2. PICK m \in Nat \ {0} :
        /\ Team(Len(list), call[c].workers) = 1..m
        /\ chunks \in Seq(Seq(Bytes \cup {NotBytes})) /\ Len(chunks) = m
  <2> DEFINE workers == call[c].workers
  <2>1. list # <<>> /\ list \in Seq(Bytes \cup {NotBytes}) /\ workers \in Nat \ {0}
    BY <1>1
  <2> HIDE DEF list, workers, chunks
  <2>2. \E m \in Nat \ {0} :
          /\ Team(Len(list), workers) = 1..m
          /\ Chunks(list, workers) \in Seq(Seq(Bytes \cup {NotBytes}))
          /\ Len(Chunks(list, workers)) = m
    BY <2>1, ChunksFacts
  <2> QED BY <2>2 DEF chunks, workers
<1>3. chunks[k] \in Seq(Bytes \cup {NotBytes})
  <2> HIDE DEF chunks
  <2> QED BY <1>2, ElementOfSeq
<1>4. P \subseteq 1..Len(chunks[k]) /\ Len(chunks[k]) \in Nat
  BY <1>3, LenProperties
<1> HIDE DEF P, chunks
<1>5. IsFiniteSet(1..Len(chunks[k]))
  BY <1>4, FS_Interval
<1>6. Cardinality(P) \in Nat
  BY <1>4, <1>5, FS_Subset, FS_CardinalityType
<1> QED BY <1>6 DEF P, chunks

\* ConvertTask leaves what is said of its caller and of the others true.
LEMMA ConvertTaskFine ==
  ASSUME TypeOK, NEW c \in Callers, CallInv(c), Progress(c), NEW k \in pending[c],
         ConvertTask(c, k)
  PROVE  Fine(c)
<1> DEFINE team == Team(Len(Items(c)), call[c].workers)
           chunks == Chunks(Items(c), call[c].workers)
<1>1. PICK part \in Seq({Foreign}) : pc[c] = "converting" /\ PoolTask(c, k, part)
  <2> DEFINE n == Cardinality({i \in DOMAIN chunks[k] : IsBytes(chunks[k][i])})
  <2>1. pc[c] = "converting" /\ PoolTask(c, k, Handles(n))
    BY DEF ConvertTask
  <2>2. k \in Team(Len(Items(c)), call[c].workers)
    BY <2>1 DEF CallInv, Tasks, ConvertTasks
  <2>3. n \in Nat
    BY <2>1, <2>2, ChunkFinite DEF CallInv, Methods
  <2> HIDE DEF n
  <2> QED BY <2>1, <2>3, HandlesFacts
<1>2. ConvertTasks(Items(c), call[c].workers, pending[c], parts[c])
  BY <1>1 DEF CallInv, Tasks
<1>3. /\ pending[c] \subseteq team
      /\ parts[c] = [j \in team |-> parts[c][j]]
      /\ \A j \in team \ pending[c] : parts[c][j] \in Seq({Foreign})
  BY <1>2 DEF ConvertTasks
<1>4. /\ pending'[c] = pending[c] \ {k}
      /\ parts'[c] = [parts[c] EXCEPT ![k] = part]
  BY <1>1 DEF TypeOK, PoolTask
<1> HIDE DEF team, chunks
<1>5. /\ pending'[c] \subseteq team
      /\ parts'[c] = [j \in team |-> parts'[c][j]]
      /\ \A j \in team \ pending'[c] : parts'[c][j] \in Seq({Foreign})
  BY <1>1, <1>3, <1>4
<1>6. ConvertTasks(Items(c), call[c].workers, pending'[c], parts'[c])
  BY <1>5 DEF ConvertTasks, team
<1> QED BY <1>1, <1>6, PoolTaskFine

\* All chunks flattened and joined are the list flattened.
LEMMA JoinedIsFlat ==
  ASSUME NEW list \in Seq(Bytes \cup {NotBytes}), list # <<>>, NEW workers \in Nat \ {0},
         NEW done, FlattenTasks(list, workers, {}, done)
  PROVE  AllBytes(list) /\ IsFlat(Combine(done), list) /\ IsFlat(Flatten(list), list)
<1> DEFINE chunks == Chunks(list, workers)
<1>1. PICK m \in Nat \ {0} :
        /\ Team(Len(list), workers) = 1..m
        /\ chunks \in Seq(Seq(Bytes \cup {NotBytes})) /\ Len(chunks) = m
        /\ FlattenSeq(chunks) = list
  BY ChunksFacts
<1>2. /\ done = [k \in 1..m |-> done[k]]
      /\ \A k \in 1..m : AllBytes(chunks[k]) /\ done[k] = Flatten(chunks[k])
  BY <1>1 DEF FlattenTasks
<1> HIDE DEF chunks
<1>3. ASSUME NEW k \in 1..m PROVE chunks[k] \in Seq(Bytes)
  <2>1. chunks[k] \in Seq(Bytes \cup {NotBytes})
    BY <1>1, ElementOfSeq
  <2> QED BY <1>2, <2>1, BytesOnly
<1>4. chunks \in Seq(Seq(Bytes))
  <2>1. chunks \in [1..m -> Seq(Bytes \cup {NotBytes})]
    BY <1>1, LenProperties
  <2>2. chunks \in [1..m -> Seq(Bytes)]
    BY <1>3, <2>1
  <2> QED BY <2>2, FunctionIsSeq
<1>5. list \in Seq(Bytes)
  BY <1>1, <1>4, FlattenSeqFacts
<1>6. AllBytes(list)
  <2>1. \A i \in 1..Len(list) : list[i] \in Bytes
    BY <1>5, ElementOfSeq
  <2>2. DOMAIN list = 1..Len(list)
    BY <1>5, LenProperties
  <2> QED BY <2>1, <2>2, NoBytes DEF AllBytes, IsBytes
<1>7. \A k \in 1..m : IsFlat(done[k], chunks[k])
  BY <1>2, <1>3, FlattenIsFlat
<1>8. DOMAIN done = 1..m
  BY <1>2
<1>9. m \in Nat
  OBVIOUS
<1>10. IsFlat(Combine(done), FlattenSeq(chunks))
  BY <1>1, <1>4, <1>7, <1>8, <1>9, CombineIsFlat
<1> QED BY <1>1, <1>5, <1>6, <1>10, FlattenIsFlat

\* JoinFlattened leaves what is said of its caller and of the others true.
LEMMA JoinFlattenedFine ==
  ASSUME TypeOK, NEW c \in Callers, CallInv(c), Progress(c), JoinFlattened(c)
  PROVE  Fine(c)
<1>1. TypeOK' /\ Kept(c) /\ payloads' = payloads
  BY DEF TypeOK, Kept, JoinFlattened, Quiet, Goes, Places
<1>2. /\ pc[c] = "flattening" /\ pc'[c] = "flattened"
      /\ pending[c] = {} /\ pending'[c] = {} /\ added'[c] = added[c]
      /\ batchStart'[c] = batchStart[c]
      /\ flat'[c] = Combine(parts[c]) \/ flat'[c] = Flatten(Items(c))
  BY DEF TypeOK, JoinFlattened, Quiet, Goes
<1>3. call[c].method = "flat" /\ call[c].items # <<>>
  BY <1>2 DEF CallInv, Methods
<1>4. FlattenTasks(Items(c), call[c].workers, {}, parts[c])
  BY <1>2 DEF CallInv, Tasks
<1>5. Items(c) # <<>> /\ Items(c) \in Seq(Bytes \cup {NotBytes}) /\ call[c].workers \in Nat \ {0}
  <2>1. Len(call[c].items) # 0
    BY <1>3, ItemsFacts, EmptySeq
  <2> QED BY <2>1, ItemsFacts, EmptySeq
<1>6. AllBytes(Items(c)) /\ IsFlat(Combine(parts[c]), Items(c)) /\ IsFlat(Flatten(Items(c)), Items(c))
  BY <1>4, <1>5, JoinedIsFlat
<1>7. IsFlat(flat'[c], Items(c))
  BY <1>2, <1>6
<1> QED BY <1>1, <1>2, <1>3, <1>6, <1>7, FlattenedFine

\* ConvertPoolRaises leaves what is said of its caller and of the others true.
LEMMA ConvertPoolRaisesFine ==
  ASSUME TypeOK, NEW c \in Callers, CallInv(c), Progress(c), ConvertPoolRaises(c)
  PROVE  Fine(c)
<1>1. TypeOK' /\ Kept(c) /\ payloads' = payloads
  BY DEF TypeOK, Kept, ConvertPoolRaises, Quiet, Goes, ListsUnchanged, Places
<1>2. /\ pc[c] = "converting" /\ pc'[c] = "raised" /\ pending'[c] = {} /\ added'[c] = added[c]
  BY DEF TypeOK, ConvertPoolRaises, Quiet, Goes
<1>3. added'[c] = 0 /\ call[c].items # <<>> /\ call[c].method # "add"
  BY <1>2 DEF CallInv, Counts, Methods
<1> QED BY <1>1, <1>2, <1>3, RaisesAtOnce

-----------------------------------------------------------------------------
(***************************************************************************)
(* Payloads added one by one.                                              *)
(***************************************************************************)
LEMMA HeadAndTail ==
  ASSUME NEW T, NEW s \in Seq(T), s # <<>>
  PROVE  /\ Head(s) = s[1] /\ s[1] \in T /\ 1 \in DOMAIN s
         /\ <<Head(s)>> \in Seq(T) /\ Tail(s) \in Seq(T)
         /\ s = <<Head(s)>> \o Tail(s)
<1>1. Len(s) \in Nat \ {0} /\ DOMAIN s = 1..Len(s)
  BY EmptySeq, LenProperties
<1>2. 1 \in 1..Len(s) /\ Len(s) \in 1..Len(s)
  BY <1>1
<1>3. SubSeq(s, 1, Len(s)) = <<s[1]>> \o SubSeq(s, 1 + 1, Len(s))
  BY <1>2, SubSeqRecursiveFirst
<1>4. SubSeq(s, 1, Len(s)) = s /\ Tail(s) = SubSeq(s, 2, Len(s))
  BY SubSeqFull, TailIsSubSeq
<1>5. Head(s) = s[1]
  BY <1>1
<1>6. s[1] \in T
  BY <1>2, ElementOfSeq
<1>7. <<s[1]>> \in Seq(T)
  BY <1>6
<1> QED BY <1>1, <1>2, <1>3, <1>4, <1>5, <1>6, <1>7, HeadTailProperties

\* The first of the covering elements, and the rest.
LEMMA CoversHead ==
  ASSUME NEW T, NEW s \in Seq(T), s # <<>>, NEW U, NEW list \in Seq(U), Distinct(list),
         NEW a \in Int, NEW c \in Int, a <= c, Covers(s, list, a, c),
         IsItem(Head(s), list), Head(s) # NotBytes
  PROVE  \E b \in Int : /\ a <= b /\ b <= c
                        /\ Covers(<<Head(s)>>, list, a, b) /\ Covers(Tail(s), list, b, c)
<1> DEFINE h == <<Head(s)>>
           t == Tail(s)
<1>1. h \in Seq(T) /\ t \in Seq(T) /\ s = h \o t /\ Head(s) = s[1] /\ 1 \in DOMAIN s
  BY HeadAndTail
<1>2. Len(h) = 1 /\ h # <<>> /\ h[1] = Head(s) /\ h[Len(h)] = Head(s) /\ DOMAIN h = {1}
  OBVIOUS
<1>3. PICK i \in DOMAIN list : Head(s) = list[i]
  BY DEF IsItem
<1>4. \A x \in Solid(list) : x \in Int
  BY SolidPositions
<1> HIDE DEF h, t
<1>5. CASE Head(s) # <<>>
  <2>1. i \in Solid(list) /\ h[Len(h)] = list[i] /\ i \in Int
    BY <1>2, <1>3, <1>4, <1>5 DEF Solid
  <2>2. Covers(h \o t, list, a, c)
    BY <1>1
  <2>3. a < i /\ i <= c /\ Covers(h, list, a, i) /\ Covers(t, list, i, c)
    BY <1>1, <1>2, <2>1, <2>2, CoversSplit
  <2> QED BY <2>1, <2>3 DEF h, t
<1>6. CASE Head(s) = <<>>
  <2>1. \A k \in DOMAIN h, x \in Solid(list) : h[k] # list[x]
    BY <1>2, <1>6 DEF Solid
  <2>2. Covers(h, list, a, a)
    BY <2>1, CoversNothing
  <2>3. /\ Len(t) = Len(s) - 1 /\ DOMAIN t = 1..Len(t) /\ DOMAIN s = 1..Len(s)
        /\ Len(s) \in Nat /\ Len(t) \in Nat
        /\ \A k \in 1..Len(t) : t[k] = s[k + 1]
    <3>1. t \in Seq(T) /\ Len(t) = Len(s) - 1 /\ \A k \in 1..Len(t) : t[k] = s[k + 1]
      BY HeadTailProperties DEF t
    <3> QED BY <3>1, LenProperties
  <2>4. \A k \in DOMAIN t : k + 1 \in DOMAIN s /\ t[k] = s[k + 1] /\ k \in Int
    BY <2>3
  <2>5. \A k \in DOMAIN s : k # 1 => k - 1 \in DOMAIN t /\ t[k - 1] = s[k]
    BY <2>3
  <2>6. \A x \in Solid(list) : s[1] # list[x]
    BY <1>1, <1>6 DEF Solid
  <2>7. \A k \in DOMAIN t, x \in Solid(list) : t[k] = list[x] => a < x /\ x <= c
    BY <2>4 DEF Covers
  <2>8. \A x \in Solid(list) : a < x /\ x <= c => \E k \in DOMAIN t : t[k] = list[x]
    BY <2>5, <2>6 DEF Covers
  <2>9. \A j, k \in DOMAIN t, x, y \in Solid(list) :
          t[j] = list[x] /\ t[k] = list[y] /\ j < k => x < y
    <3> SUFFICES ASSUME NEW j \in DOMAIN t, NEW k \in DOMAIN t, NEW x \in Solid(list),
                        NEW y \in Solid(list), t[j] = list[x], t[k] = list[y], j < k
                 PROVE  x < y
      OBVIOUS
    <3>1. j + 1 \in DOMAIN s /\ k + 1 \in DOMAIN s /\ s[j + 1] = list[x] /\ s[k + 1] = list[y]
          /\ j + 1 < k + 1
      BY <2>4
    <3> QED BY <3>1 DEF Covers
  <2>10. Covers(t, list, a, c)
    BY <2>7, <2>8, <2>9 DEF Covers
  <2> QED BY <2>2, <2>10 DEF h, t
<1> QED BY <1>5, <1>6

\* A list covers itself.
LEMMA CoversItself ==
  ASSUME NEW U, NEW list \in Seq(U), Distinct(list)
  PROVE  Covers(list, list, 0, Len(list))
<1>1. Len(list) \in Nat /\ DOMAIN list = 1..Len(list)
  BY LenProperties
<1>2. 0 + Len(list) = Len(list) /\ \A k \in 1..Len(list) : 0 + k = k
  BY <1>1
<1>3. \A k \in 1..Len(list) : list[k] = list[0 + k]
  BY <1>2
<1>4. Covers(list, list, 0, 0 + Len(list))
  BY <1>1, <1>2, <1>3, CoversPlaces
<1> QED BY <1>2, <1>4

\* The handles of the chunks one after another.
LEMMA GatheredHandles ==
  ASSUME NEW T, NEW list \in Seq(T), list # <<>>, NEW workers \in Nat \ {0},
         NEW done, ConvertTasks(list, workers, {}, done)
  PROVE  FlattenSeq(done) \in Seq({Foreign})
<1>1. PICK m \in Nat \ {0} : Team(Len(list), workers) = 1..m
  BY ChunksFacts
<1>2. done \in [1..m -> Seq({Foreign})]
  BY <1>1 DEF ConvertTasks
<1>3. done \in Seq(Seq({Foreign}))
  BY <1>2, FunctionIsSeq
<1> QED BY <1>3, FlattenSeqFacts

\* A list of what is to be added one by one: the items, or handles.
Ready(c, s) ==
  \/ call[c].method = "add" /\ s = Items(c)
  \/ call[c].method = "batch" /\ s \in Seq({Foreign})

StartsAdding(c, s) ==
  /\ pc[c] \in {"called", "converting"}
  /\ pc' = [pc EXCEPT ![c] = "adding"]
  /\ results' = [results EXCEPT ![c] = s]
  /\ UNCHANGED <<payloads, call, pending, parts, flat, batchStart, rebuilt, added, answer>>

\* The items of a caller cover themselves.
LEMMA ItemsCovered ==
  ASSUME TypeOK, NEW c \in Callers
  PROVE  Covers(Items(c), Items(c), 0, Len(Items(c)))
<1>1. Items(c) \in Seq(Bytes \cup {NotBytes}) /\ Distinct(Items(c))
  BY ItemsFacts, ItemsDistinct
<1> QED BY <1>1, CoversItself

\* A call whose items or handles are there to be added one by one.
LEMMA AddingFine ==
  ASSUME TypeOK, NEW c \in Callers, CallInv(c), Progress(c), NEW s,
         StartsAdding(c, s), pending[c] = {}, call[c].items # <<>>, Ready(c, s)
  PROVE  Fine(c)
<1> USE DEF StartsAdding
<1>0. call[c].method \in {"batch", "add"}
  BY DEF Ready
<1>1. s \in Seq(Bytes \cup {Nil, NotBytes, Foreign})
  <2>0. s \in Seq(Bytes \cup {NotBytes}) \/ s \in Seq({Foreign})
    BY ItemsFacts DEF Ready
  <2>1. Len(s) \in Nat /\ s \in [1..Len(s) -> Bytes \cup {NotBytes, Foreign}]
    BY <2>0, LenProperties
  <2>2. s \in [1..Len(s) -> Bytes \cup {Nil, NotBytes, Foreign}]
    BY <2>1
  <2> QED BY <2>1, <2>2, FunctionIsSeq
<1>2. TypeOK' /\ Kept(c) /\ payloads' = payloads
  BY <1>1 DEF TypeOK, Kept, Quiet, Places
<1>3. Items(c)' = Items(c) /\ call' = call
  BY <1>2, ItemsSame DEF Kept
<1>4. /\ pc'[c] = "adding" /\ pending'[c] = {} /\ results'[c] = s
      /\ added'[c] = added[c] /\ added[c] = 0
  BY DEF TypeOK, Quiet, CallInv, Counts
<1>5. Tasks(c)' /\ Flats(c)' /\ Methods(c)'
  BY <1>0, <1>3, <1>4 DEF Tasks, Flats, Methods
<1>6. Sources(c)'
  <2>1. Items(c) = SubSeq(Items(c), 0 + 1, Len(Items(c)))
    BY ItemsFacts, SubSeqFull
  <2> QED BY <1>3, <1>4, <2>1 DEF Sources, Ready
<1>7. Counts(c)'
  BY <1>3, <1>4, SizesPositive DEF Counts
<1>8. ASSUME NEW m \in 0..Len(Items(c)), Place(c, m) PROVE Place(c, m)'
  <2>1. m = 0
    BY <1>8 DEF CallInv, Place
  <2>2. call[c].method = "add" => Covers(s, Items(c), 0, Len(Items(c)))
    BY ItemsCovered DEF Ready
  <2> QED BY <1>3, <1>4, <2>1, <2>2 DEF Place
<1> QED BY <1>2, <1>5, <1>6, <1>7, <1>8, QuietStep DEF CallInv

\* StartAdd leaves what is said of its caller and of the others true.
LEMMA StartAddFine ==
  ASSUME TypeOK, NEW c \in Callers, CallInv(c), Progress(c), StartAdd(c)
  PROVE  Fine(c)
<1>1. /\ pc[c] = "called" /\ StartsAdding(c, Items(c))
      /\ call[c].items # <<>> /\ call[c].method = "add"
  BY DEF StartAdd, Goes, Quiet, StartsAdding
<1>2. pending[c] = {}
  BY <1>1 DEF CallInv, Tasks
<1>3. Ready(c, Items(c))
  BY <1>1 DEF Ready
<1> QED BY <1>1, <1>2, <1>3, AddingFine

\* ConvertHere leaves what is said of its caller and of the others true.
LEMMA ConvertHereFine ==
  ASSUME TypeOK, NEW c \in Callers, CallInv(c), Progress(c), ConvertHere(c)
  PROVE  Fine(c)
<1> DEFINE h == Handles(Len(call[c].items))
<1>1. /\ pc[c] = "called" /\ call[c].method = "batch"
      /\ UNCHANGED <<pending, parts, flat, batchStart, rebuilt>> /\ Quiet
      /\ \/ pc' = [pc EXCEPT ![c] = "adding"] /\ results' = [results EXCEPT ![c] = h]
         \/ pc' = [pc EXCEPT ![c] = "raised"] /\ results' = results
  BY DEF ConvertHere, Goes
<1>2. pending[c] = {} /\ added[c] = 0 /\ call[c].items # <<>>
  BY <1>1, EmptySeq DEF ConvertHere, CallInv, Tasks, Counts
<1>3. CASE pc' = [pc EXCEPT ![c] = "adding"] /\ results' = [results EXCEPT ![c] = h]
  <2>1. StartsAdding(c, h)
    BY <1>1, <1>3 DEF Quiet, StartsAdding
  <2>2. Len(call[c].items) \in Nat
    BY ItemsFacts
  <2>3. Ready(c, h)
    BY <1>1, <2>2, HandlesFacts DEF Ready
  <2> HIDE DEF h
  <2> QED BY <1>2, <2>1, <2>3, AddingFine
<1>4. CASE pc' = [pc EXCEPT ![c] = "raised"] /\ results' = results
  <2>1. TypeOK' /\ Kept(c) /\ payloads' = payloads
    BY <1>1, <1>4 DEF TypeOK, Kept, Quiet, Places
  <2>2. pc'[c] = "raised" /\ pending'[c] = {} /\ added'[c] = 0
    BY <1>1, <1>2, <1>4 DEF TypeOK, Quiet
  <2> QED BY <1>1, <1>2, <2>1, <2>2, RaisesAtOnce
<1> QED BY <1>1, <1>3, <1>4

\* GatherConverted leaves what is said of its caller and of the others true.
LEMMA GatherConvertedFine ==
  ASSUME TypeOK, NEW c \in Callers, CallInv(c), Progress(c), GatherConverted(c)
  PROVE  Fine(c)
<1>1. pc[c] = "converting" /\ pending[c] = {} /\ StartsAdding(c, FlattenSeq(parts[c]))
  BY DEF GatherConverted, Goes, Quiet, StartsAdding
<1>2. call[c].method = "batch" /\ call[c].items # <<>>
  BY <1>1 DEF CallInv, Methods
<1>3. ConvertTasks(Items(c), call[c].workers, {}, parts[c])
  BY <1>1 DEF CallInv, Tasks
<1>4. /\ Items(c) # <<>> /\ Items(c) \in Seq(Bytes \cup {NotBytes})
      /\ call[c].workers \in Nat \ {0}
  <2>1. Len(call[c].items) # 0
    BY <1>2, ItemsFacts, EmptySeq
  <2> QED BY <2>1, ItemsFacts, EmptySeq
<1>5. Ready(c, FlattenSeq(parts[c]))
  BY <1>2, <1>3, <1>4, GatheredHandles DEF Ready
<1> QED BY <1>1, <1>2, <1>5, AddingFine

\* AddNext of an item.
LEMMA AddItemFine ==
  ASSUME TypeOK, NEW c \in Callers, CallInv(c), Progress(c), AddNext(c),
         call[c].method = "add"
  PROVE  Fine(c)
<1> DEFINE T == Bytes \cup {Nil, NotBytes, Foreign}
           list == Items(c)
           N == Len(list)
           r == results[c]
<1>1. /\ pc[c] = "adding" /\ r # <<>> /\ Head(r) # NotBytes
      /\ payloads' = Append(payloads, Head(r)) \/ Head(r) = Foreign
      /\ added' = [added EXCEPT ![c] = @ + 1]
      /\ results' = [results EXCEPT ![c] = Tail(@)]
      /\ UNCHANGED <<pc, call, pending, parts, flat, batchStart, rebuilt, answer>>
  BY DEF AddNext, IsBytes
<1>2. r \in Seq(T) /\ payloads \in Seq(Known) /\ added[c] \in Nat
  BY DEF TypeOK
<1>3. r = SubSeq(list, added[c] + 1, N) /\ pending[c] = {} /\ call[c].items # <<>>
  BY <1>1 DEF CallInv, Sources, Methods, Tasks
<1>4. /\ list \in Seq(Bytes \cup {NotBytes}) /\ N \in Nat /\ Distinct(list)
      /\ \A i \in DOMAIN list : list[i] \in Bytes \cup {NotBytes}
  <2>1. list \in Seq(Bytes \cup {NotBytes}) /\ N \in Nat /\ Distinct(list)
    BY ItemsFacts, ItemsDistinct
  <2> QED BY <2>1, LenProperties, ElementOfSeq
<1> HIDE DEF T, list, N, r
<1>5. /\ Head(r) = r[1] /\ 1 \in DOMAIN r /\ Tail(r) \in Seq(T)
      /\ DOMAIN r = 1..Len(r) /\ Len(r) \in Nat \ {0}
      /\ Len(Tail(r)) = Len(r) - 1 /\ DOMAIN Tail(r) = 1..Len(Tail(r))
      /\ \A k \in 1..Len(Tail(r)) : Tail(r)[k] = r[k + 1]
  BY <1>1, <1>2, HeadAndTail, HeadTailProperties, LenProperties, EmptySeq
<1>6. IsItem(Head(r), list)
  <2>1. added[c] + 1 \in Int /\ N \in Int
    BY <1>2, <1>4
  <2>2. ~(N < added[c] + 1)
    BY <1>1, <1>3, <2>1, SubSeqEmpty
  <2>3. added[c] + 1 \in 1..Len(list) /\ N \in added[c] + 1 .. Len(list)
    BY <1>2, <1>4, <2>2 DEF N
  <2>4. Head(r) = list[added[c] + 1]
    BY <1>3, <1>4, <2>3, HeadTailOfSubSeq
  <2> QED BY <1>4, <2>3, <2>4, LenProperties DEF IsItem
<1>7. Head(r) \in Bytes /\ Head(r) \in Known
  <2>1. PICK i \in DOMAIN list : Head(r) = list[i]
    BY <1>6 DEF IsItem
  <2> QED BY <1>1, <1>4, <2>1 DEF Known
<1>8. /\ <<Head(r)>> \in Seq(Known) /\ payloads' = payloads \o <<Head(r)>>
      /\ payloads' \in Seq(Known) /\ DOMAIN <<Head(r)>> = {1} /\ <<Head(r)>>[1] = Head(r)
  <2>1. payloads' = Append(payloads, Head(r))
    BY <1>1, <1>7, NoBytes
  <2> QED BY <1>2, <1>7, <2>1, AppendIsConcat, AppendProperties
<1>9. TypeOK' /\ Kept(c)
  <2>1. results' \in [Callers -> Seq(T)]
    BY <1>1, <1>5 DEF TypeOK, r, T
  <2>2. payloads' \in Seq(Known) /\ added' \in [Callers -> Nat]
    <3>1. payloads' \in Seq(Known)
      BY <1>8
    <3>2. added' = [added EXCEPT ![c] = @ + 1] /\ added \in [Callers -> Nat]
      BY <1>1 DEF TypeOK
    <3>3. added' \in [Callers -> Nat]
      BY <3>2
    <3> QED BY <3>1, <3>3
  <2>3. TypeOK'
    BY <1>1, <2>1, <2>2 DEF TypeOK, T
  <2> QED BY <1>1, <2>3 DEF TypeOK, Kept
<1>10. Appends(c)
  BY <1>6, <1>8 DEF Appends, Own, list
<1>11. /\ Items(c)' = list /\ call' = call /\ pc'[c] = "adding" /\ pending'[c] = {}
       /\ results'[c] = Tail(r) /\ added'[c] = added[c] + 1
  BY <1>1, <1>3, ItemsSame DEF TypeOK, list, r
<1>12. Tasks(c)' /\ Flats(c)' /\ Methods(c)'
  BY <1>3, <1>11 DEF Tasks, Flats, Methods
<1>13. Sources(c)'
  <2>2. Tail(r) = SubSeq(list, (added[c] + 1) + 1, N)
    <3>1. r = SubSeq(list, added[c] + 1, N) /\ added[c] + 1 \in Int /\ N \in Int
      BY <1>2, <1>3, <1>4
    <3>2. ~(N < added[c] + 1)
      BY <1>1, <3>1, SubSeqEmpty
    <3>3. added[c] + 1 \in 1..Len(list) /\ N \in added[c] + 1 .. Len(list)
      BY <1>2, <1>4, <3>2 DEF N
    <3> QED BY <1>4, <3>1, <3>3, HeadTailOfSubSeq
  <2> QED BY <1>11, <2>2 DEF Sources, N
<1>14. Counts(c)'
  BY <1>11 DEF Counts
<1>15. Progress(c)'
  <2>1. PICK m \in 0..N : Covers(payloads, list, 0, m) /\ Place(c, m)
    BY DEF Progress, N, list
  <2>2. Covers(r, list, m, N)
    BY <1>1, <2>1 DEF Place, r, N, list
  <2>3. m \in Int /\ N \in Int /\ m <= N /\ 0 <= m
    BY <1>4, <2>1
  <2>4. PICK b \in Int : /\ m <= b /\ b <= N
                         /\ Covers(<<Head(r)>>, list, m, b) /\ Covers(Tail(r), list, b, N)
    BY <1>1, <1>2, <1>4, <1>6, <2>2, <2>3, CoversHead
  <2>5. Covers(payloads \o <<Head(r)>>, list, 0, b)
    <3>1. <<Head(r)>> \in Seq(Known) /\ Covers(<<Head(r)>>, list, m, b)
      BY <1>8, <2>4
    <3> DEFINE h == <<Head(r)>>
    <3> HIDE DEF h
    <3>2. h \in Seq(Known) /\ Covers(h, list, m, b) /\ Covers(payloads, list, 0, m)
      BY <2>1, <3>1 DEF h
    <3>3. payloads \in Seq(Known) /\ list \in Seq(Bytes \cup {NotBytes}) /\ 0 \in Int
      BY <1>2, <1>4
    <3>4. Covers(payloads \o h, list, 0, b)
      BY <2>3, <2>4, <3>2, <3>3, CoversConcat
    <3> QED BY <3>4 DEF h
  <2>6. b \in 0..N /\ Covers(payloads', list, 0, b)
    BY <1>8, <2>3, <2>4, <2>5
  <2>7. Place(c, b)'
    BY <1>11, <2>4 DEF Place, N
  <2> QED BY <1>11, <2>6, <2>7 DEF Progress, N
<1> QED BY <1>9, <1>10, <1>12, <1>13, <1>14, <1>15 DEF Fine, CallInv

\* AddNext of a handle.
LEMMA AddHandleFine ==
  ASSUME TypeOK, NEW c \in Callers, CallInv(c), Progress(c), AddNext(c),
         call[c].method = "batch"
  PROVE  Fine(c)
<1> DEFINE list == Items(c)
           r == results[c]
<1>1. /\ pc[c] = "adding" /\ r # <<>> /\ r \in Seq({Foreign})
      /\ pending[c] = {} /\ call[c].items # <<>>
      /\ payloads' = Append(payloads, Head(r)) \/ payloads' = payloads
      /\ added' = [added EXCEPT ![c] = @ + 1]
      /\ results' = [results EXCEPT ![c] = Tail(@)]
      /\ UNCHANGED <<pc, call, pending, parts, flat, batchStart, rebuilt, answer>>
  BY DEF AddNext, CallInv, Sources, Methods, Tasks
<1> DEFINE t == Tail(r)
<1>2. Head(r) = Foreign /\ t \in Seq({Foreign})
  BY <1>1, HeadTailProperties
<1>3. PICK s \in Seq(Known) : /\ payloads' = payloads \o s /\ payloads' \in Seq(Known)
                             /\ \A k \in DOMAIN s : s[k] = Foreign
  <2>1. payloads \in Seq(Known) /\ Foreign \in Known
    BY DEF TypeOK, Known
  <2>2. CASE payloads' = Append(payloads, Head(r))
    <3>1. /\ payloads' = payloads \o <<Foreign>> /\ <<Foreign>> \in Seq(Known)
          /\ payloads' \in Seq(Known)
      BY <1>2, <2>1, <2>2, AppendIsConcat, AppendProperties
    <3>2. DOMAIN <<Foreign>> = {1} /\ <<Foreign>>[1] = Foreign
      OBVIOUS
    <3> QED BY <3>1, <3>2
  <2>3. CASE payloads' = payloads
    <3>1. payloads' = payloads \o <<>> /\ <<>> \in Seq(Known) /\ DOMAIN <<>> = {}
      BY <2>1, <2>3, ConcatEmptySeq, EmptySeq
    <3> QED BY <2>1, <2>3, <3>1
  <2> QED BY <1>1, <2>2, <2>3
<1>4. TypeOK' /\ Kept(c)
  <2>1. t \in Seq(Bytes \cup {Nil, NotBytes, Foreign})
    <3>1. Len(t) \in Nat /\ t \in [1..Len(t) -> {Foreign}]
      BY <1>2, LenProperties
    <3>2. t \in [1..Len(t) -> Bytes \cup {Nil, NotBytes, Foreign}]
      BY <3>1
    <3> QED BY <3>1, <3>2, FunctionIsSeq
  <2>2. results' = [results EXCEPT ![c] = t]
    BY <1>1
  <2>3. added' \in [Callers -> Nat]
    <3>1. added' = [added EXCEPT ![c] = added[c] + 1] /\ added \in [Callers -> Nat]
      BY <1>1 DEF TypeOK
    <3> QED BY <3>1
  <2> HIDE DEF t
  <2> QED BY <1>1, <1>3, <2>1, <2>2, <2>3 DEF TypeOK, Kept
<1>5. Appends(c)
  BY <1>3 DEF Appends, Own
<1>6. /\ Items(c)' = list /\ call' = call /\ pc'[c] = "adding" /\ pending'[c] = {}
      /\ results'[c] = t
  BY <1>1, ItemsSame DEF TypeOK
<1> HIDE DEF t
<1>7. Tasks(c)' /\ Flats(c)' /\ Methods(c)' /\ Sources(c)' /\ Counts(c)'
  BY <1>1, <1>2, <1>6 DEF Tasks, Flats, Methods, Sources, Counts
<1>8. Progress(c)'
  <2>1. PICK m \in 0..Len(list) : Covers(payloads, list, 0, m)
    BY DEF Progress
  <2>2. list \in Seq(Bytes \cup {NotBytes}) /\ Len(list) \in Nat
    BY ItemsFacts
  <2>3. \A k \in DOMAIN s, x \in Solid(list) : s[k] # list[x]
    <3> SUFFICES ASSUME NEW x \in Solid(list) PROVE list[x] # Foreign
      BY <1>3
    <3>1. x \in DOMAIN list /\ list[x] \in Bytes \cup {NotBytes} /\ list[x] # NotBytes
      BY <2>2, ElementOfSeq DEF Solid
    <3> QED BY <3>1, NoBytes
  <2>4. payloads \in Seq(Known) /\ m \in Int /\ 0 \in Int /\ 0 <= m /\ m <= m
    BY <2>1, <2>2 DEF TypeOK
  <2>5. Place(c, m)'
    BY <1>6 DEF Place
  <2> HIDE DEF list
  <2>6. Covers(s, list, m, m)
    BY <2>2, <2>3, <2>4, CoversNothing
  <2>7. Covers(payloads \o s, list, 0, m)
    BY <1>3, <2>1, <2>2, <2>4, <2>6, CoversConcat
  <2>8. Covers(payloads', list, 0, m)
    BY <1>3, <2>7
  <2> QED BY <1>6, <2>1, <2>5, <2>8 DEF Progress
<1> QED BY <1>4, <1>5, <1>7, <1>8 DEF Fine, CallInv

\* AddNext leaves what is said of its caller and of the others true.
LEMMA AddNextFine ==
  ASSUME TypeOK, NEW c \in Callers, CallInv(c), Progress(c), AddNext(c)
  PROVE  Fine(c)
<1>1. call[c].method \in {"batch", "add"}
  BY DEF AddNext, CallInv, Methods
<1> QED BY <1>1, AddItemFine, AddHandleFine

\* AddRaises leaves what is said of its caller and of the others true.
LEMMA AddRaisesFine ==
  ASSUME TypeOK, NEW c \in Callers, CallInv(c), Progress(c), AddRaises(c)
  PROVE  Fine(c)
<1>1. TypeOK' /\ Kept(c) /\ payloads' = payloads
  BY DEF TypeOK, Kept, AddRaises, Quiet, Goes, ListsUnchanged, Places
<1>2. Items(c)' = Items(c) /\ call' = call
  BY <1>1, ItemsSame DEF Kept
<1>3. /\ pc[c] = "adding" /\ pc'[c] = "raised" /\ pending'[c] = {}
      /\ call[c].items # <<>>
  BY DEF TypeOK, AddRaises, Quiet, Goes, CallInv, Tasks, Methods
<1>4. Tasks(c)' /\ Flats(c)' /\ Methods(c)' /\ Sources(c)' /\ Counts(c)'
  BY <1>2, <1>3 DEF Tasks, Flats, Methods, Sources, Counts
<1>5. ASSUME NEW m \in 0..Len(Items(c)) PROVE Place(c, m)'
  BY <1>3 DEF Place
<1> QED BY <1>1, <1>4, <1>5, QuietStep DEF CallInv

\* Nothing is left: the items up to m are all that have bytes.
LEMMA NothingLeft ==
  ASSUME TypeOK, NEW c \in Callers, NEW m \in Int, NEW e \in Int, m <= e,
         Covers(payloads, Items(c), 0, m), NEW t, Covers(t, Items(c), m, e),
         \A k \in DOMAIN t, x \in Solid(Items(c)) : t[k] # Items(c)[x]
  PROVE  /\ Covers(payloads, Items(c), 0, e)
         /\ \A x \in Solid(Items(c)) : ~(m < x /\ x <= e)
<1> DEFINE list == Items(c)
<1>1. list \in Seq(Bytes \cup {NotBytes}) /\ 0 \in Int
  BY ItemsFacts
<1>2. /\ Covers(payloads, list, 0, m) /\ Covers(t, list, m, e)
      /\ \A k \in DOMAIN t, x \in Solid(list) : t[k] # list[x]
  OBVIOUS
<1> HIDE DEF list
<1>3. /\ \A x \in Solid(list) : ~(m < x /\ x <= e)
      /\ Covers(payloads, list, 0, e)
  BY <1>1, <1>2, CoversBeyond
<1> QED BY <1>3 DEF list

\* AddReturns leaves what is said of its caller and of the others true.
LEMMA AddReturnsFine ==
  ASSUME TypeOK, NEW c \in Callers, CallInv(c), Progress(c), AddReturns(c)
  PROVE  Fine(c)
<1>1. TypeOK' /\ Kept(c) /\ payloads' = payloads
  <2>1. Len(call[c].items) \in Nat
    BY ItemsFacts
  <2> QED BY <2>1 DEF TypeOK, Kept, AddReturns, Returns, Goes, ListsUnchanged, Places
<1>2. Items(c)' = Items(c) /\ call' = call
  BY <1>1, ItemsSame DEF Kept
<1>3. /\ pc[c] = "adding" /\ pc'[c] = "returned" /\ answer'[c] = Len(call[c].items)
      /\ pending'[c] = {} /\ call[c].method = "add" /\ results[c] = <<>>
  BY DEF TypeOK, AddReturns, Returns, Goes, CallInv, Tasks
<1>4. Len(Items(c)) = Len(call[c].items) /\ Len(Items(c)) \in Nat
  BY ItemsFacts
<1>5. Tasks(c)' /\ Flats(c)' /\ Methods(c)' /\ Sources(c)'
  BY <1>3 DEF Tasks, Flats, Methods, Sources
<1>6. Counts(c)'
  BY <1>2, <1>3, <1>4 DEF Counts
<1>7. ASSUME NEW m \in 0..Len(Items(c)), Place(c, m), Covers(payloads, Items(c), 0, m)
      PROVE  \E n \in 0..Len(Items(c)) : Place(c, n)' /\ Covers(payloads, Items(c), 0, n)
  <2>1. PICK n \in 0..Len(Items(c)) : n = Len(Items(c))
    BY <1>4
  <2>2. Covers(<<>>, Items(c), m, n)
    BY <1>3, <1>7, <2>1 DEF Place
  <2>3. DOMAIN <<>> = {} /\ m \in Int /\ n \in Int /\ m <= n
    BY <1>4, <2>1
  <2>4. Covers(payloads, Items(c), 0, n)
    BY <1>7, <2>2, <2>3, NothingLeft
  <2>5. Place(c, n)'
    BY <1>2, <1>3, <2>1 DEF Place
  <2> QED BY <2>4, <2>5
<1> QED BY <1>1, <1>5, <1>6, <1>7, QuietStep DEF CallInv

-----------------------------------------------------------------------------
(***************************************************************************)
(* The flattened list in Go.                                               *)
(***************************************************************************)
LEMMA FlatFacts ==
  ASSUME TypeOK, NEW c \in Callers, CallInv(c),
         pc[c] \in {"flattened", "batch", "rebuilding", "copying"}
  PROVE  /\ Items(c) \in Seq(Bytes) /\ Len(Items(c)) \in Nat /\ Distinct(Items(c))
         /\ DOMAIN Items(c) = 1..Len(Items(c))
         /\ Solid(Items(c)) = {i \in 1..Len(Items(c)) : Items(c)[i] # <<>>}
         /\ call[c].method = "flat" /\ call[c].items # <<>>
         /\ DOMAIN flat[c].offsets = 1..Len(Items(c))
         /\ Len(flat[c].offsets) = Len(Items(c)) /\ flat[c].offsets \in Seq(Offset)
         /\ \A i \in 1..Len(Items(c)) :
              /\ Items(c)[i] \in Bytes
              /\ BytesAt(flat[c].offsets[i], flat[c].data) = Items(c)[i]
<1>1. /\ AllBytes(Items(c)) /\ IsFlat(flat[c], Items(c))
      /\ call[c].method = "flat" /\ call[c].items # <<>>
  BY DEF CallInv, Flats, Methods
<1>2. Items(c) \in Seq(Bytes) /\ Distinct(Items(c))
  BY <1>1, ItemsFacts, BytesOnly, ItemsDistinct
<1>3. /\ Len(Items(c)) \in Nat /\ DOMAIN Items(c) = 1..Len(Items(c))
      /\ \A i \in 1..Len(Items(c)) : Items(c)[i] \in Bytes
  BY <1>2, LenProperties, ElementOfSeq
<1>4. \A i \in 1..Len(Items(c)) : BytesAt(flat[c].offsets[i], flat[c].data) = Items(c)[i]
  BY <1>1, <1>2, BytesAtFlat
<1>5. /\ Len(flat[c].offsets) = Len(Items(c)) /\ flat[c].offsets \in Seq(Offset)
      /\ DOMAIN flat[c].offsets = 1..Len(Items(c))
  BY <1>1, LenProperties DEF IsFlat
<1>6. Solid(Items(c)) = {i \in 1..Len(Items(c)) : Items(c)[i] # <<>>}
  BY <1>3, NoBytes DEF Solid
<1> QED BY <1>1, <1>2, <1>3, <1>4, <1>5, <1>6

\* AddNothing leaves what is said of its caller and of the others true.
LEMMA AddNothingFine ==
  ASSUME TypeOK, NEW c \in Callers, CallInv(c), Progress(c), AddNothing(c)
  PROVE  Fine(c)
<1>1. TypeOK' /\ Kept(c) /\ payloads' = payloads
  BY DEF TypeOK, Kept, AddNothing, Returns, Goes, ListsUnchanged, Places
<1>2. Items(c)' = Items(c) /\ call' = call
  BY <1>1, ItemsSame DEF Kept
<1>3. /\ pc[c] = "flattened" /\ pc'[c] = "returned" /\ answer'[c] = 0
      /\ pending'[c] = {} /\ flat[c].data = <<>> /\ call[c].method = "flat"
  BY DEF TypeOK, AddNothing, Returns, Goes, CallInv, Tasks, Methods
<1>4. Solid(Items(c)) = {} /\ Items(c) \in Seq(Bytes) /\ Len(Items(c)) \in Nat
  <2>1. \A i \in 1..Len(Items(c)) : Items(c)[i] = <<>>
    <3> SUFFICES ASSUME NEW i \in 1..Len(Items(c)) PROVE Items(c)[i] = <<>>
      OBVIOUS
    <3> DEFINE o == flat[c].offsets[i]
    <3>1. o \in Offset
      BY <1>3, FlatFacts, ElementOfSeq
    <3>2. ~Valid(o, <<>>)
      BY <3>1 DEF Offset, Valid
    <3>3. BytesAt(o, flat[c].data) = <<>>
      BY <1>3, <3>2 DEF BytesAt
    <3> QED BY <1>3, <3>3, FlatFacts
  <2>2. Items(c) \in Seq(Bytes) /\ Len(Items(c)) \in Nat
    BY <1>3, FlatFacts
  <2>3. Solid(Items(c)) = {i \in 1..Len(Items(c)) : Items(c)[i] # <<>>}
    BY <1>3, FlatFacts
  <2> QED BY <2>1, <2>2, <2>3
<1>5. Cardinality(Solid(Items(c))) = 0
  BY <1>4, FS_EmptySet
<1>6. Tasks(c)' /\ Flats(c)' /\ Methods(c)' /\ Sources(c)'
  BY <1>3 DEF Tasks, Flats, Methods, Sources
<1>7. Counts(c)'
  BY <1>2, <1>3, <1>5 DEF Counts
<1>8. ASSUME NEW m \in 0..Len(Items(c)), Place(c, m), Covers(payloads, Items(c), 0, m)
      PROVE  \E n \in 0..Len(Items(c)) : Place(c, n)' /\ Covers(payloads, Items(c), 0, n)
  <2>1. PICK n \in 0..Len(Items(c)) : n = Len(Items(c))
    BY <1>4
  <2>2. Covers(payloads, Items(c), 0, n)
    BY <1>4, <1>8 DEF Covers
  <2>3. Place(c, n)'
    BY <1>2, <1>3, <2>1 DEF Place
  <2> QED BY <2>2, <2>3
<1> QED BY <1>1, <1>6, <1>7, <1>8, QuietStep DEF CallInv

\* AddDirectly leaves what is said of its caller and of the others true.
LEMMA AddDirectlyFine ==
  ASSUME TypeOK, NEW c \in Callers, CallInv(c), Progress(c), AddDirectly(c)
  PROVE  Fine(c)
<1> DEFINE list == Items(c)
           N == Len(list)
           arrays == [i \in DOMAIN flat[c].offsets |-> BytesAt(flat[c].offsets[i], flat[c].data)]
           s == Picked(list, Solid(list))
<1>1. pc[c] = "flattened"
  BY DEF AddDirectly, Returns, Goes
<1>2. /\ list \in Seq(Bytes) /\ N \in Nat /\ DOMAIN list = 1..N /\ Distinct(list)
      /\ Solid(list) = {i \in 1..N : list[i] # <<>>} /\ call[c].method = "flat"
      /\ DOMAIN flat[c].offsets = 1..N
      /\ \A i \in 1..N : BytesAt(flat[c].offsets[i], flat[c].data) = list[i]
  BY <1>1, FlatFacts
<1>3. arrays = list
  <2>1. list = [i \in 1..N |-> list[i]]
    <3>1. list \in [1..N -> Bytes]
      BY <1>2, LenProperties
    <3> QED BY <3>1
  <2> QED BY <1>2, <2>1
<1>4. {i \in DOMAIN arrays : arrays[i] # <<>>} = Solid(list)
  BY <1>2, <1>3
<1>5. /\ pc' = [pc EXCEPT ![c] = "returned"] /\ answer' = [answer EXCEPT ![c] = Len(s)]
      /\ payloads' = payloads \o s /\ added' = [added EXCEPT ![c] = Len(s)]
      /\ UNCHANGED <<call, pending, parts, flat, batchStart, rebuilt, results>>
  BY <1>3, <1>4 DEF AddDirectly, Returns, Goes, ListsUnchanged
<1> HIDE DEF arrays
<1>6. /\ Cardinality(Solid(list)) \in Nat /\ s \in Seq(Bytes)
      /\ Selects(s, Cardinality(Solid(list)), list, Solid(list))
  <2>1. Solid(list) \in SUBSET (1..Len(list)) /\ list \in Seq(Bytes)
    BY <1>2
  <2> HIDE DEF list
  <2> QED BY <2>1, PickedFacts
<1> HIDE DEF s, list, N
<1>7. /\ Len(s) = Cardinality(Solid(list)) /\ Len(s) \in Nat
      /\ \A k \in DOMAIN s : IsItem(s[k], list)
  <2>1. DOMAIN s = 1..Len(s) /\ Len(s) = Cardinality(Solid(list))
    BY <1>6, LenProperties DEF Selects
  <2>2. PICK at \in [1..Len(s) -> Solid(list)] : \A k \in 1..Len(s) : s[k] = list[at[k]]
    BY <1>6, <2>1 DEF Selects
  <2>3. \A k \in 1..Len(s) : at[k] \in DOMAIN list
    BY <2>2 DEF Solid
  <2> QED BY <1>6, <2>1, <2>2, <2>3 DEF IsItem
<1>8. Covers(s, list, 0, N)
  <2>1. Covers(list, list, 0, N)
    BY <1>2, CoversItself DEF N
  <2>2. Solid(list) \in SUBSET (DOMAIN list)
    BY DEF Solid
  <2>3. \A k \in (DOMAIN list) \ Solid(list), x \in Solid(list) : list[k] # list[x]
    BY DEF Solid
  <2>4. 0 \in Int /\ N \in Int
    BY <1>2
  <2> DEFINE P == Solid(list)
  <2>5. P \in SUBSET (DOMAIN list)
    BY <2>2
  <2>6. \A k \in (DOMAIN list) \ P, x \in Solid(list) : list[k] # list[x]
    BY <2>3
  <2> HIDE DEF P
  <2>7. Covers(Picked(list, P), list, 0, N)
    BY <1>2, <2>1, <2>4, <2>5, <2>6, CoversPicked
  <2> QED BY <2>7 DEF P, s
<1>9. payloads \in Seq(Known) /\ s \in Seq(Known) /\ payloads' \in Seq(Known)
  <2>1. payloads \in Seq(Known) /\ s \in Seq(Known)
    BY <1>6, KnownSeq DEF TypeOK
  <2> QED BY <1>5, <2>1, ConcatProperties
<1>10. TypeOK' /\ Kept(c)
  BY <1>5, <1>7, <1>9 DEF TypeOK, Kept, Places
<1>11. Appends(c)
  BY <1>2, <1>5, <1>7, <1>9 DEF Appends, Own, list
<1>12. /\ Items(c)' = list /\ call' = call /\ pc'[c] = "returned" /\ pending'[c] = {}
       /\ answer'[c] = Cardinality(Solid(list))
  <2>1. pending[c] = {}
    BY <1>1 DEF CallInv, Tasks
  <2> QED BY <1>5, <1>7, <2>1, ItemsSame DEF TypeOK, list
<1>13. Tasks(c)' /\ Flats(c)' /\ Methods(c)' /\ Sources(c)'
  BY <1>12 DEF Tasks, Flats, Methods, Sources
<1>14. Counts(c)'
  BY <1>2, <1>12 DEF Counts
<1>15. Progress(c)'
  <2>1. PICK m \in 0..N : Covers(payloads, list, 0, m) /\ Place(c, m)
    BY DEF Progress, N, list
  <2>2. Covers(payloads, list, 0, 0)
    BY <1>1, <2>1 DEF Place
  <2>3. 0 \in Int /\ N \in Int /\ 0 <= 0 /\ 0 <= N
    BY <1>2
  <2>4. Covers(payloads \o s, list, 0, N)
    BY <1>2, <1>8, <1>9, <2>2, <2>3, CoversConcat
  <2>5. PICK n \in 0..N : n = N
    BY <1>2
  <2>6. Covers(payloads', list, 0, n)
    BY <1>5, <2>4, <2>5
  <2>7. Place(c, n)'
    BY <1>12, <2>5 DEF Place, N
  <2> QED BY <1>12, <2>6, <2>7 DEF Progress, N
<1> QED BY <1>10, <1>11, <1>13, <1>14, <1>15 DEF Fine, CallInv

\* StartBatches leaves what is said of its caller and of the others true.
LEMMA StartBatchesFine ==
  ASSUME TypeOK, NEW c \in Callers, CallInv(c), Progress(c), StartBatches(c)
  PROVE  Fine(c)
<1>1. TypeOK' /\ Kept(c) /\ payloads' = payloads
  BY DEF TypeOK, Kept, StartBatches, Quiet, Goes, ListsUnchanged, Places
<1>2. Items(c)' = Items(c) /\ call' = call
  BY <1>1, ItemsSame DEF Kept
<1>3. /\ pc[c] = "flattened" /\ pc'[c] = "batch" /\ pending'[c] = {} /\ flat'[c] = flat[c]
      /\ added'[c] = 0 /\ batchStart'[c] = 0
  BY DEF TypeOK, StartBatches, Quiet, Goes, ListsUnchanged, CallInv, Tasks, Counts
<1>4. Tasks(c)' /\ Sources(c)' /\ Counts(c)'
  BY <1>3 DEF Tasks, Sources, Counts
<1>5. Flats(c)' /\ Methods(c)'
  BY <1>2, <1>3 DEF CallInv, Flats, Methods
<1>6. ASSUME NEW m \in 0..Len(Items(c)), Place(c, m) PROVE Place(c, m)'
  <2>1. m = 0
    BY <1>3, <1>6 DEF Place
  <2>2. Least(0, Len(Items(c))) = 0
    <3>1. Len(Items(c)) \in Nat
      BY ItemsFacts
    <3> QED BY <3>1 DEF Least
  <2>3. Cardinality(Solid(Items(c)) \cap 1..0) = 0
    <3>1. Solid(Items(c)) \cap 1..0 = {}
      OBVIOUS
    <3> QED BY <3>1, FS_EmptySet
  <2> QED BY <1>2, <1>3, <2>1, <2>2, <2>3 DEF Place
<1> QED BY <1>1, <1>4, <1>5, <1>6, QuietStep DEF CallInv

\* FlatReturns leaves what is said of its caller and of the others true.
LEMMA FlatReturnsFine ==
  ASSUME TypeOK, NEW c \in Callers, CallInv(c), Progress(c), FlatReturns(c)
  PROVE  Fine(c)
<1>1. TypeOK' /\ Kept(c) /\ payloads' = payloads
  BY DEF TypeOK, Kept, FlatReturns, Returns, Goes, ListsUnchanged, Places
<1>2. Items(c)' = Items(c) /\ call' = call
  BY <1>1, ItemsSame DEF Kept
<1>3. /\ pc[c] = "batch" /\ pc'[c] = "returned" /\ answer'[c] = added[c]
      /\ pending'[c] = {} /\ batchStart[c] >= Len(flat[c].offsets)
  BY DEF TypeOK, FlatReturns, Returns, Goes, CallInv, Tasks
<1>4. /\ Len(flat[c].offsets) = Len(Items(c)) /\ Len(Items(c)) \in Nat
      /\ Solid(Items(c)) = {i \in 1..Len(Items(c)) : Items(c)[i] # <<>>}
      /\ call[c].method = "flat"
  BY <1>3, FlatFacts
<1>5. ASSUME NEW m \in 0..Len(Items(c)), Place(c, m)
      PROVE  Place(c, m)' /\ answer'[c] = Cardinality(Solid(Items(c)))
  <2>1. m = Least(batchStart[c], Len(Items(c))) /\ added[c] = Cardinality(Solid(Items(c)) \cap 1..m)
    BY <1>3, <1>5 DEF Place
  <2>2. batchStart[c] \in Nat
    BY DEF TypeOK
  <2>3. m = Len(Items(c))
    BY <1>3, <1>4, <2>1, <2>2 DEF Least
  <2>4. Solid(Items(c)) \cap 1..m = Solid(Items(c))
    BY <1>4, <2>3
  <2>5. Place(c, m)'
    BY <1>2, <1>3, <2>3 DEF Place
  <2> QED BY <1>3, <2>1, <2>4, <2>5
<1>6. answer'[c] = Cardinality(Solid(Items(c)))
  BY <1>5 DEF Progress
<1>7. Tasks(c)' /\ Flats(c)' /\ Methods(c)' /\ Sources(c)'
  BY <1>3 DEF Tasks, Flats, Methods, Sources
<1>8. Counts(c)'
  BY <1>2, <1>3, <1>4, <1>6 DEF Counts
<1> QED BY <1>1, <1>5, <1>7, <1>8, QuietStep DEF CallInv

\* The arrays of a batch are the items behind batchStart.
LEMMA BatchFacts ==
  ASSUME TypeOK, NEW c \in Callers, CallInv(c), pc[c] \in {"batch", "rebuilding", "copying"},
         batchStart[c] < Len(Items(c))
  PROVE  LET list == Items(c)
             start == batchStart[c]
             n == BatchEnd(list, start) - start
         IN /\ start \in Nat /\ n \in Nat \ {0} /\ start + n = BatchEnd(list, start)
            /\ BatchEnd(list, start) \in Nat
            /\ start + n <= Len(list) /\ Least(start, Len(list)) = start
            /\ Least(start + GoBatch, Len(list)) = start + n
            /\ Len(BatchOffsets(c)) = n
            /\ \A i \in 1..n :
                 /\ start + i \in 1..Len(list) /\ list[start + i] \in Bytes
                 /\ BytesAt(BatchOffsets(c)[i], flat[c].data) = list[start + i]
<1> DEFINE list == Items(c)
           start == batchStart[c]
           e == BatchEnd(list, start)
           n == e - start
           offsets == flat[c].offsets
<1>1. /\ Len(list) \in Nat /\ offsets \in Seq(Offset) /\ Len(offsets) = Len(list)
      /\ \A i \in 1..Len(list) :
           /\ list[i] \in Bytes
           /\ BytesAt(offsets[i], flat[c].data) = list[i]
  BY FlatFacts
<1>2. start \in Nat /\ start < Len(list) /\ GoBatch \in Nat \ {0}
  BY SizesPositive DEF TypeOK
<1>3. e = Least(start + GoBatch, Len(list))
  BY DEF BatchEnd
<1>4. BatchOffsets(c) = SubSeq(offsets, start + 1, e)
  BY <1>1 DEF BatchOffsets, BatchEnd
<1> HIDE DEF list, start, e, offsets
<1>5. e \in Nat /\ start < e /\ e <= Len(list)
  BY <1>1, <1>2, <1>3 DEF Least
<1>6. n \in Nat \ {0} /\ start + n = e /\ Least(start, Len(list)) = start
  BY <1>1, <1>2, <1>5 DEF Least
<1>7. \A i \in 1..n : start + i \in 1..Len(list) /\ start + i \in start + 1 .. e
  BY <1>1, <1>2, <1>5
<1>8. Len(BatchOffsets(c)) = n /\ \A i \in 1..n : BatchOffsets(c)[i] = offsets[start + i]
  <2>1. \A i \in start + 1 .. e : offsets[i] \in Offset
    <3>1. \A i \in start + 1 .. e : i \in 1..Len(offsets)
      BY <1>1, <1>2, <1>5
    <3> QED BY <1>1, <3>1, ElementOfSeq
  <2> DEFINE b == start + 1
  <2>2. b \in Int /\ e \in Int /\ b <= e /\ e - b + 1 = n
    BY <1>2, <1>5
  <2>3. \A i \in 1..n : b + i - 1 = start + i
    BY <1>2
  <2>4. \A i \in b .. e : offsets[i] \in Offset
    BY <2>1
  <2>5. BatchOffsets(c) = SubSeq(offsets, b, e)
    BY <1>4
  <2> HIDE DEF b, n
  <2>6. /\ Len(SubSeq(offsets, b, e)) = IF b <= e THEN e - b + 1 ELSE 0
        /\ \A i \in 1..e - b + 1 : SubSeq(offsets, b, e)[i] = offsets[b + i - 1]
    BY <2>2, <2>4, SubSeqProperties
  <2> QED BY <2>2, <2>3, <2>5, <2>6
<1>9. \A i \in 1..n : /\ list[start + i] \in Bytes
                      /\ BytesAt(BatchOffsets(c)[i], flat[c].data) = list[start + i]
  BY <1>1, <1>7, <1>8
<1> QED BY <1>2, <1>3, <1>5, <1>6, <1>7, <1>8, <1>9 DEF list, start, e

\* Every member of a team has something that waits for it.
LEMMA TeamWaits ==
  ASSUME NEW n \in Nat \ {0}, NEW workers \in Nat \ {0}
  PROVE  /\ Team(n, workers) # {} /\ Team(n, workers) \in SUBSET Nat
         /\ \A i \in 1..n : Waits(i, Team(n, workers), n, workers)
<1>1. /\ Team(n, workers) \subseteq Nat \ {0} /\ Team(n, workers) # {}
      /\ \A i \in 1..n : \E w \in Team(n, workers) : i \in Share(w, CeilDiv(n, workers), n)
  BY SharesFacts
<1> QED BY <1>1 DEF Waits

\* A member of a team is done: what waited for it waits for no one else.
LEMMA MemberDone ==
  ASSUME NEW n \in Nat \ {0}, NEW workers \in Nat \ {0}, NEW left \in SUBSET Team(n, workers),
         NEW w \in left, NEW i \in 1..n
  PROVE  Waits(i, left \ {w}, n, workers) <=>
           Waits(i, left, n, workers) /\ i \notin Share(w, CeilDiv(n, workers), n)
<1>1. /\ left \subseteq Nat \ {0}
      /\ \A v, x \in Nat \ {0} : v # x =>
           Share(v, CeilDiv(n, workers), n) \cap Share(x, CeilDiv(n, workers), n) = {}
  BY SharesFacts
<1> QED BY <1>1 DEF Waits

\* What is on the way between batch and copying, for a step that appends nothing.
LEMMA BatchStep ==
  ASSUME TypeOK, NEW c \in Callers, CallInv(c), Progress(c), TypeOK', Kept(c),
         payloads' = payloads, pc[c] \in {"batch", "rebuilding"}, batchStart[c] < Len(Items(c)),
         batchStart'[c] = batchStart[c], flat'[c] = flat[c], added'[c] = added[c],
         pc'[c] = "rebuilding" /\
           RebuildTasks(Items(c), batchStart[c], Len(rebuilt'[c]), pending'[c], rebuilt'[c])
  PROVE  Fine(c)
<1>1. Items(c)' = Items(c) /\ call' = call
  BY ItemsSame DEF Kept
<1>2. Tasks(c)' /\ Sources(c)' /\ Counts(c)'
  BY <1>1 DEF Tasks, Sources, Counts
<1>3. Flats(c)' /\ Methods(c)'
  BY <1>1 DEF CallInv, Flats, Methods
<1>4. ASSUME NEW m \in 0..Len(Items(c)), Place(c, m) PROVE Place(c, m)'
  BY <1>1, <1>4 DEF Place
<1> QED BY <1>2, <1>3, <1>4, QuietStep DEF CallInv

\* StartRebuild leaves what is said of its caller and of the others true.
LEMMA StartRebuildFine ==
  ASSUME TypeOK, NEW c \in Callers, CallInv(c), Progress(c), StartRebuild(c)
  PROVE  Fine(c)
<1> DEFINE list == Items(c)
           start == batchStart[c]
           n == BatchEnd(list, start) - start
           workers == Least(UtilWorkers, n)
           whole == [i \in 1..n |-> BytesAt(BatchOffsets(c)[i], flat[c].data)]
           nothing == [i \in 1..n |-> Nil]
<1>1. pc[c] = "batch" /\ start < Len(list)
  <2>1. pc[c] = "batch" /\ start < Len(flat[c].offsets)
    BY DEF StartRebuild, Goes
  <2> QED BY <2>1, FlatFacts
<1>2. /\ start \in Nat /\ n \in Nat \ {0} /\ Len(BatchOffsets(c)) = n
      /\ \A i \in 1..n :
           /\ list[start + i] \in Bytes
           /\ BytesAt(BatchOffsets(c)[i], flat[c].data) = list[start + i]
  BY <1>1, BatchFacts
<1>3. workers \in Nat \ {0}
  <2>1. UtilWorkers \in Nat \ {0}
    BY SizesPositive
  <2> HIDE DEF n
  <2> QED BY <1>2, <2>1 DEF Least
<1>4. /\ pc' = [pc EXCEPT ![c] = "rebuilding"]
      /\ \/ rebuilt' = [rebuilt EXCEPT ![c] = whole] /\ pending' = pending
         \/ /\ rebuilt' = [rebuilt EXCEPT ![c] = nothing]
            /\ pending' = [pending EXCEPT ![c] = Team(n, workers)]
      /\ UNCHANGED <<payloads, call, added, answer, parts, flat, batchStart, results>>
  BY <1>2 DEF StartRebuild, Goes, Quiet
<1>5. /\ whole \in Seq(Bytes \cup {Nil}) /\ Len(whole) = n
      /\ nothing \in Seq(Bytes \cup {Nil}) /\ Len(nothing) = n
  <2>1. whole \in [1..n -> Bytes \cup {Nil}] /\ nothing \in [1..n -> Bytes \cup {Nil}]
    BY <1>2
  <2>2. n \in Nat
    BY <1>2
  <2> HIDE DEF whole, nothing, n
  <2> QED BY <2>1, <2>2, FunctionIsSeq
<1>6. /\ Team(n, workers) \in SUBSET Nat
      /\ \A i \in 1..n : Waits(i, Team(n, workers), n, workers)
  <2> HIDE DEF n, workers
  <2> QED BY <1>2, <1>3, TeamWaits
<1>7. pending[c] = {}
  BY <1>1 DEF CallInv, Tasks
<1>8. RebuildTasks(list, start, n, {}, whole) /\ RebuildTasks(list, start, n, Team(n, workers), nothing)
  <2>1. RebuildTasks(list, start, n, {}, whole)
    BY <1>1, <1>2, <1>5 DEF RebuildTasks
  <2>2. RebuildTasks(list, start, n, Team(n, workers), nothing)
    BY <1>1, <1>2, <1>5, <1>6 DEF RebuildTasks
  <2> QED BY <2>1, <2>2
<1> HIDE DEF whole, nothing, n, workers
<1>9. \/ rebuilt'[c] = whole /\ pending'[c] = {}
      \/ rebuilt'[c] = nothing /\ pending'[c] = Team(n, workers)
  BY <1>4, <1>7 DEF TypeOK
<1>10. RebuildTasks(list, start, Len(rebuilt'[c]), pending'[c], rebuilt'[c])
  BY <1>5, <1>8, <1>9
<1>11. TypeOK' /\ Kept(c) /\ payloads' = payloads
  <2>1. rebuilt' \in [Callers -> Seq(Bytes \cup {Nil})] /\ pending' \in [Callers -> SUBSET Nat]
    BY <1>4, <1>5, <1>6, ZenonT(30) DEF TypeOK
  <2> QED BY <1>4, <2>1 DEF TypeOK, Kept, Places
<1>12. /\ pc'[c] = "rebuilding" /\ batchStart'[c] = batchStart[c] /\ flat'[c] = flat[c]
       /\ added'[c] = added[c]
  BY <1>4 DEF TypeOK
<1> QED BY <1>1, <1>10, <1>11, <1>12, BatchStep

\* RebuildTask leaves what is said of its caller and of the others true.
LEMMA RebuildTaskFine ==
  ASSUME TypeOK, NEW c \in Callers, CallInv(c), Progress(c), NEW w \in pending[c],
         RebuildTask(c, w)
  PROVE  Fine(c)
<1> DEFINE list == Items(c)
           start == batchStart[c]
           n == BatchEnd(list, start) - start
           workers == Least(UtilWorkers, n)
           mine == Share(w, CeilDiv(n, workers), n)
           next == [i \in 1..n |-> IF i \in mine
                                   THEN BytesAt(BatchOffsets(c)[i], flat[c].data)
                                   ELSE rebuilt[c][i]]
<1>1. pc[c] = "rebuilding"
  BY DEF RebuildTask
<1>2. RebuildTasks(list, start, Len(rebuilt[c]), pending[c], rebuilt[c])
  BY <1>1 DEF CallInv, Tasks
<1>3. /\ start < Len(list) /\ Len(rebuilt[c]) = n /\ pending[c] \subseteq Team(n, workers)
      /\ \A i \in 1..n : ~Waits(i, pending[c], n, workers) => rebuilt[c][i] = list[start + i]
  BY <1>2 DEF RebuildTasks
<1>4. /\ start \in Nat /\ n \in Nat \ {0} /\ Len(BatchOffsets(c)) = n
      /\ \A i \in 1..n :
           /\ list[start + i] \in Bytes
           /\ BytesAt(BatchOffsets(c)[i], flat[c].data) = list[start + i]
  BY <1>1, <1>3, BatchFacts
<1>5. workers \in Nat \ {0}
  <2>1. UtilWorkers \in Nat \ {0}
    BY SizesPositive
  <2> HIDE DEF n
  <2> QED BY <1>4, <2>1 DEF Least
<1>6. /\ pending' = [pending EXCEPT ![c] = pending[c] \ {w}]
      /\ rebuilt' = [rebuilt EXCEPT ![c] = next]
      /\ UNCHANGED <<payloads, call, added, answer, pc, parts, flat, batchStart, results>>
  BY <1>4 DEF RebuildTask, ShareDone, Quiet
<1>7. \A i \in 1..n : rebuilt[c][i] \in Bytes \cup {Nil}
  <2>1. rebuilt[c] \in Seq(Bytes \cup {Nil})
    BY DEF TypeOK
  <2> QED BY <1>3, <2>1, ElementOfSeq
<1>8. next \in Seq(Bytes \cup {Nil}) /\ Len(next) = n
  <2>1. next \in [1..n -> Bytes \cup {Nil}]
    BY <1>4, <1>7
  <2>2. n \in Nat
    BY <1>4
  <2> HIDE DEF next, n
  <2> QED BY <2>1, <2>2, FunctionIsSeq
<1>9. RebuildTasks(list, start, n, pending[c] \ {w}, next)
  <2>1. ASSUME NEW i \in 1..n, ~Waits(i, pending[c] \ {w}, n, workers)
        PROVE  next[i] = list[start + i]
    <3>1. ~Waits(i, pending[c], n, workers) \/ i \in mine
      <4> HIDE DEF n, workers
      <4>1. Waits(i, pending[c] \ {w}, n, workers) <=>
              Waits(i, pending[c], n, workers) /\ i \notin Share(w, CeilDiv(n, workers), n)
        BY <1>3, <1>4, <1>5, MemberDone
      <4> QED BY <2>1, <4>1
    <3> QED BY <1>3, <1>4, <3>1
  <2> HIDE DEF next
  <2> QED BY <1>3, <1>8, <2>1 DEF RebuildTasks
<1> HIDE DEF next, n
<1>10. rebuilt'[c] = next /\ pending'[c] = pending[c] \ {w}
  BY <1>6 DEF TypeOK
<1>11. RebuildTasks(list, start, Len(rebuilt'[c]), pending'[c], rebuilt'[c])
  BY <1>8, <1>9, <1>10
<1>12. TypeOK' /\ Kept(c) /\ payloads' = payloads
  <2>1. rebuilt' \in [Callers -> Seq(Bytes \cup {Nil})] /\ pending' \in [Callers -> SUBSET Nat]
    BY <1>6, <1>8 DEF TypeOK
  <2> QED BY <1>6, <2>1 DEF TypeOK, Kept
<1>13. /\ pc'[c] = "rebuilding" /\ batchStart'[c] = batchStart[c] /\ flat'[c] = flat[c]
       /\ added'[c] = added[c]
  BY <1>1, <1>6
<1> QED BY <1>1, <1>3, <1>11, <1>12, <1>13, BatchStep

\* What is on the way while results are copied, for a step that appends nothing.
LEMMA CopyStep ==
  ASSUME TypeOK, NEW c \in Callers, CallInv(c), Progress(c), TypeOK', Kept(c),
         payloads' = payloads, pc[c] \in {"rebuilding", "copying"},
         pc[c] = "copying" => pending[c] # {}, pc'[c] = "copying",
         batchStart'[c] = batchStart[c], flat'[c] = flat[c], added'[c] = added[c],
         CopyTasks(Items(c), batchStart[c], Len(rebuilt'[c]), pending'[c], rebuilt'[c], results'[c])
  PROVE  Fine(c)
<1> DEFINE list == Items(c)
           start == batchStart[c]
           n == BatchEnd(list, start) - start
           r == results'[c]
<1>1. Items(c)' = list /\ call' = call
  BY ItemsSame DEF Kept
<1>2. /\ start < Len(list) /\ Len(r) = n
      /\ \A i \in 1..n :
           \/ Waits(i, pending'[c], n, CopyWorkers) /\ r[i] = Nil
           \/ /\ ~Waits(i, pending'[c], n, CopyWorkers)
              /\ r[i] = IF list[start + i] = <<>> THEN Nil ELSE list[start + i]
  BY DEF CopyTasks
<1>3. /\ start \in Nat /\ n \in Nat \ {0} /\ start + n = BatchEnd(list, start)
      /\ start + n <= Len(list) /\ Least(start, Len(list)) = start
      /\ \A i \in 1..n : start + i \in 1..Len(list)
  BY <1>2, BatchFacts
<1>4. list \in Seq(Bytes) /\ Distinct(list) /\ Solid(list) = {i \in 1..Len(list) : list[i] # <<>>}
  BY FlatFacts
<1>5. DOMAIN r = 1..n
  <2>1. r \in Seq(Bytes \cup {Nil, NotBytes, Foreign})
    BY DEF TypeOK
  <2> QED BY <1>2, <2>1, LenProperties
<1>6. Tasks(c)' /\ Counts(c)'
  BY <1>1 DEF Tasks, Counts
<1>7. Flats(c)' /\ Methods(c)'
  BY <1>1 DEF CallInv, Flats, Methods
<1> HIDE DEF list, n, r
<1>8. \A k \in 1..n : r[k] = Nil \/ IsSolid(r[k], list)
  BY <1>2, <1>3, <1>4 DEF IsSolid
<1>9. Sources(c)'
  BY <1>1, <1>5, <1>8 DEF Sources, r
<1>10. ASSUME pending'[c] = {} PROVE Covers(r, list, start, start + n)
  <2>1. \A i \in 1..n : r[i] = IF list[start + i] = <<>> THEN Nil ELSE list[start + i]
    BY <1>2, <1>10 DEF Waits
  <2>2. \A x \in Solid(list) : list[x] # Nil
    <3>1. \A x \in 1..Len(list) : list[x] \in Bytes
      BY <1>4, ElementOfSeq
    <3> QED BY <1>4, <3>1, NoBytes
  <2>3. \A i \in 1..n : \/ r[i] = list[start + i]
                        \/ start + i \notin Solid(list) /\ \A x \in Solid(list) : r[i] # list[x]
    BY <1>4, <2>1, <2>2
  <2>4. n \in Nat
    BY <1>3
  <2> QED BY <1>3, <1>4, <1>5, <2>3, <2>4, CoversPlaces
<1>11. ASSUME NEW m \in 0..Len(Items(c)), Place(c, m) PROVE Place(c, m)'
  <2>1. m = start /\ added[c] = Cardinality(Solid(list) \cap 1..m)
    BY <1>3, <1>11 DEF Place, list
  <2>2. pending'[c] = {} => /\ m <= BatchEnd(list, start)
                            /\ Covers(r, list, m, BatchEnd(list, start))
    BY <1>3, <1>10, <2>1
  <2>3. m = Least(batchStart[c], Len(list))
    BY <1>3, <2>1
  <2> QED BY <1>1, <2>1, <2>2, <2>3 DEF Place, r
<1> QED BY <1>6, <1>7, <1>9, <1>11, QuietStep DEF CallInv

\* StartCopy leaves what is said of its caller and of the others true.
LEMMA StartCopyFine ==
  ASSUME TypeOK, NEW c \in Callers, CallInv(c), Progress(c), StartCopy(c)
  PROVE  Fine(c)
<1> DEFINE list == Items(c)
           start == batchStart[c]
           n == Len(rebuilt[c])
           nothing == [i \in 1..n |-> Nil]
<1>1. /\ pc[c] = "rebuilding" /\ pending[c] = {} /\ pc' = [pc EXCEPT ![c] = "copying"]
      /\ pending' = [pending EXCEPT ![c] = Team(n, CopyWorkers)]
      /\ results' = [results EXCEPT ![c] = nothing]
      /\ UNCHANGED <<payloads, call, added, answer, parts, flat, batchStart, rebuilt>>
  BY DEF StartCopy, Goes, Quiet
<1>2. RebuildTasks(list, start, n, {}, rebuilt[c])
  BY <1>1 DEF CallInv, Tasks
<1>3. /\ start < Len(list) /\ n = BatchEnd(list, start) - start
      /\ \A i \in 1..n : rebuilt[c][i] = list[start + i]
  BY <1>2 DEF RebuildTasks, Waits
<1>4. n \in Nat \ {0}
  BY <1>1, <1>3, BatchFacts
<1>5. CopyWorkers \in Nat \ {0}
  BY SizesPositive
<1> HIDE DEF n
<1>6. /\ Team(n, CopyWorkers) \in SUBSET Nat
      /\ \A i \in 1..n : Waits(i, Team(n, CopyWorkers), n, CopyWorkers)
  BY <1>4, <1>5, TeamWaits
<1>7. nothing \in Seq(Bytes \cup {Nil, NotBytes, Foreign}) /\ Len(nothing) = n
  <2>1. nothing \in [1..n -> Bytes \cup {Nil, NotBytes, Foreign}]
    OBVIOUS
  <2>2. n \in Nat
    BY <1>4
  <2> HIDE DEF nothing
  <2> QED BY <2>1, <2>2, FunctionIsSeq
<1>8. CopyTasks(list, start, n, Team(n, CopyWorkers), rebuilt[c], nothing)
  BY <1>3, <1>6, <1>7 DEF CopyTasks, n
<1> HIDE DEF nothing
<1>9. /\ pc'[c] = "copying" /\ batchStart'[c] = batchStart[c] /\ flat'[c] = flat[c]
      /\ added'[c] = added[c] /\ rebuilt'[c] = rebuilt[c] /\ results'[c] = nothing
      /\ pending'[c] = Team(n, CopyWorkers)
  BY <1>1 DEF TypeOK
<1>10. CopyTasks(list, start, Len(rebuilt'[c]), pending'[c], rebuilt'[c], results'[c])
  BY <1>8, <1>9 DEF n
<1>11. TypeOK' /\ Kept(c) /\ payloads' = payloads
  <2>1. /\ results' \in [Callers -> Seq(Bytes \cup {Nil, NotBytes, Foreign})]
        /\ pending' \in [Callers -> SUBSET Nat]
    BY <1>1, <1>6, <1>7 DEF TypeOK
  <2> QED BY <1>1, <2>1 DEF TypeOK, Kept, Places
<1> QED BY <1>1, <1>9, <1>10, <1>11, CopyStep

\* CopyTask leaves what is said of its caller and of the others true.
LEMMA CopyTaskFine ==
  ASSUME TypeOK, NEW c \in Callers, CallInv(c), Progress(c), NEW w \in pending[c],
         CopyTask(c, w)
  PROVE  Fine(c)
<1> DEFINE list == Items(c)
           start == batchStart[c]
           n == Len(rebuilt[c])
           mine == Share(w, CeilDiv(n, CopyWorkers), n)
           arrays == rebuilt[c]
           copied == results[c]
           copied2 == [i \in 1..n |-> IF i \in mine /\ arrays[i] # <<>> THEN arrays[i] ELSE copied[i]]
           arrays2 == [i \in 1..n |-> IF i \in mine /\ arrays[i] # <<>> THEN Nil ELSE arrays[i]]
<1>1. /\ pc[c] = "copying" /\ pending' = [pending EXCEPT ![c] = pending[c] \ {w}]
      /\ results' = [results EXCEPT ![c] = copied2]
      /\ rebuilt' = [rebuilt EXCEPT ![c] = arrays2]
      /\ UNCHANGED <<payloads, call, added, answer, pc, parts, flat, batchStart>>
  BY DEF CopyTask, ShareDone, Quiet
<1>2. CopyTasks(list, start, n, pending[c], arrays, copied)
  BY <1>1 DEF CallInv, Tasks
<1>3. /\ start < Len(list) /\ n = BatchEnd(list, start) - start /\ Len(copied) = n
      /\ pending[c] \subseteq Team(n, CopyWorkers)
      /\ \A i \in 1..n :
           IF Waits(i, pending[c], n, CopyWorkers)
           THEN arrays[i] = list[start + i] /\ copied[i] = Nil
           ELSE copied[i] = IF list[start + i] = <<>> THEN Nil ELSE list[start + i]
  BY <1>2 DEF CopyTasks
<1>4. n \in Nat \ {0} /\ n \in Nat /\ CopyWorkers \in Nat \ {0}
  BY <1>1, <1>3, BatchFacts, SizesPositive
<1>5. /\ \A i \in 1..n : arrays[i] \in Bytes \cup {Nil}
      /\ \A i \in 1..n : copied[i] \in Bytes \cup {Nil, NotBytes, Foreign}
  <2>1. arrays \in Seq(Bytes \cup {Nil}) /\ copied \in Seq(Bytes \cup {Nil, NotBytes, Foreign})
    BY DEF TypeOK
  <2> QED BY <1>3, <2>1, ElementOfSeq
<1> HIDE DEF n, arrays, copied
<1>6. /\ copied2 \in Seq(Bytes \cup {Nil, NotBytes, Foreign}) /\ Len(copied2) = n
      /\ arrays2 \in Seq(Bytes \cup {Nil}) /\ Len(arrays2) = n
  <2>1. /\ copied2 \in [1..n -> Bytes \cup {Nil, NotBytes, Foreign}]
        /\ arrays2 \in [1..n -> Bytes \cup {Nil}]
    BY <1>5
  <2> HIDE DEF copied2, arrays2
  <2> QED BY <1>4, <2>1, FunctionIsSeq
<1>7. ASSUME NEW i \in 1..n
      PROVE  IF Waits(i, pending[c] \ {w}, n, CopyWorkers)
             THEN arrays2[i] = list[start + i] /\ copied2[i] = Nil
             ELSE copied2[i] = IF list[start + i] = <<>> THEN Nil ELSE list[start + i]
  <2>1. Waits(i, pending[c] \ {w}, n, CopyWorkers) <=>
          Waits(i, pending[c], n, CopyWorkers) /\ i \notin mine
    BY <1>3, <1>4, MemberDone
  <2>2. i \in mine => Waits(i, pending[c], n, CopyWorkers)
    BY DEF Waits
  <2> HIDE DEF mine
  <2>3. CASE i \in mine
    <3>1. arrays[i] = list[start + i] /\ copied[i] = Nil
      BY <1>3, <2>2, <2>3
    <3>2. copied2[i] = IF list[start + i] = <<>> THEN Nil ELSE list[start + i]
      BY <2>3, <3>1
    <3> QED BY <2>1, <2>3, <3>2
  <2>4. CASE i \notin mine
    <3>1. copied2[i] = copied[i] /\ arrays2[i] = arrays[i]
      BY <2>4
    <3> QED BY <1>3, <2>1, <2>4, <3>1
  <2> QED BY <2>3, <2>4
<1> HIDE DEF copied2, arrays2
<1>8. CopyTasks(list, start, n, pending[c] \ {w}, arrays2, copied2)
  <2>1. pending[c] \ {w} \subseteq Team(n, CopyWorkers)
    BY <1>3
  <2> QED BY <1>3, <1>6, <1>7, <2>1 DEF CopyTasks
<1>9. /\ pc'[c] = "copying" /\ batchStart'[c] = batchStart[c] /\ flat'[c] = flat[c]
      /\ added'[c] = added[c] /\ rebuilt'[c] = arrays2 /\ results'[c] = copied2
      /\ pending'[c] = pending[c] \ {w}
  BY <1>1 DEF TypeOK
<1>10. CopyTasks(list, start, Len(rebuilt'[c]), pending'[c], rebuilt'[c], results'[c])
  BY <1>6, <1>8, <1>9
<1>11. TypeOK' /\ Kept(c) /\ payloads' = payloads
  <2>1. /\ results' \in [Callers -> Seq(Bytes \cup {Nil, NotBytes, Foreign})]
        /\ rebuilt' \in [Callers -> Seq(Bytes \cup {Nil})]
        /\ pending' \in [Callers -> SUBSET Nat]
    BY <1>1, <1>6 DEF TypeOK
  <2> QED BY <1>1, <2>1 DEF TypeOK, Kept
<1> QED BY <1>1, <1>9, <1>10, <1>11, CopyStep

\* n results s and the others t cover what is left of a batch.
Splits(s, t, n, list, m, e) ==
  \E b \in Nat :
    /\ m <= b /\ b <= e /\ b <= Len(list)
    /\ Covers(s, list, m, b) /\ Covers(t, list, b, e)
    /\ Cardinality(Solid(list) \cap 1..b) = Cardinality(Solid(list) \cap 1..m) + n

\* The next of the results that cover a batch, and their number.
LEMMA CoversNext ==
  ASSUME NEW T, NEW U, NEW list \in Seq(U), Distinct(list), NEW m \in Nat, NEW e \in Int,
         NEW rest \in Seq(T), rest # <<>>, Covers(rest, list, m, e),
         \A k \in DOMAIN rest : IsSolid(rest[k], list), NEW n \in 1..Len(rest)
  PROVE  Splits(SubSeq(rest, 1, n), SubSeq(rest, n + 1, Len(rest)), n, list, m, e)
<1> DEFINE N == Len(rest)
           s == SubSeq(rest, 1, n)
           t == SubSeq(rest, n + 1, N)
<1>1. /\ N \in Nat \ {0} /\ DOMAIN rest = 1..N /\ n \in Nat /\ 1 <= n /\ n <= N
      /\ \A i \in 1..N : rest[i] \in T
  BY EmptySeq, LenProperties, ElementOfSeq
<1>2. s \in Seq(T) /\ Len(s) = n /\ DOMAIN s = 1..n /\ \A i \in 1..n : s[i] = rest[i]
  <2>1. 1 \in Int /\ n \in Int /\ n - 1 + 1 = n /\ \A i \in 1..n : rest[i] \in T /\ 1 + i - 1 = i
    BY <1>1
  <2>2. s \in Seq(T) /\ Len(s) = n /\ \A i \in 1..n - 1 + 1 : s[i] = rest[1 + i - 1]
    BY <1>1, <2>1, SubSeqProperties
  <2> HIDE DEF s
  <2> QED BY <2>1, <2>2, LenProperties
<1>3. t \in Seq(T)
  <2>1. n + 1 \in Int /\ N \in Int /\ \A i \in n + 1 .. N : rest[i] \in T
    BY <1>1
  <2> QED BY <2>1, SubSeqProperties
<1>4. s \o t = rest
  <2>1. 1 \in 1..Len(rest) + 1 /\ n \in 1 - 1 .. Len(rest) /\ Len(rest) \in n .. Len(rest)
    BY <1>1
  <2>2. SubSeq(rest, 1, n) \o SubSeq(rest, n + 1, Len(rest)) = SubSeq(rest, 1, Len(rest))
    BY <2>1, ConcatAdjacentSubSeq
  <2> QED BY <2>2, SubSeqFull
<1> HIDE DEF s, t, N
<1>5. \A k \in DOMAIN s : \E x \in Solid(list) : s[k] = list[x]
  BY <1>1, <1>2 DEF IsSolid
<1>6. PICK b \in Solid(list) : s[Len(s)] = list[b]
  BY <1>1, <1>2, <1>5
<1>7. s # <<>>
  BY <1>1, <1>2
<1>8. Covers(s \o t, list, m, e) /\ m \in Int
  BY <1>4
<1>9. /\ m < b /\ b <= e
      /\ Covers(s, list, m, b) /\ Covers(t, list, b, e)
  BY <1>2, <1>3, <1>6, <1>7, <1>8, CoversSplit
<1>10. b \in Nat /\ b <= Len(list) /\ m <= b
  BY <1>9, SolidPositions
<1>11. Cardinality(Solid(list) \cap 1..b) = Cardinality(Solid(list) \cap 1..m) + Len(s)
  BY <1>2, <1>5, <1>9, <1>10, CoversCount
<1> QED BY <1>2, <1>9, <1>10, <1>11 DEF s, t, N, Splits

\* AppendResults leaves what is said of its caller and of the others true.
LEMMA AppendResultsFine ==
  ASSUME TypeOK, NEW c \in Callers, CallInv(c), Progress(c), AppendResults(c)
  PROVE  Fine(c)
<1> DEFINE T == Bytes \cup {Nil, NotBytes, Foreign}
           list == Items(c)
           r == results[c]
           P == {i \in DOMAIN r : r[i] # Nil}
           rest == Picked(r, P)
           n == Least(AppendBatch, Len(rest))
           s == SubSeq(rest, 1, n)
           t == SubSeq(rest, n + 1, Len(rest))
           e == BatchEnd(list, batchStart[c])
<1>1. /\ pc[c] = "copying" /\ pending[c] = {} /\ rest # <<>>
      /\ payloads' = payloads \o s
      /\ added' = [added EXCEPT ![c] = @ + n]
      /\ results' = [results EXCEPT ![c] = t]
      /\ UNCHANGED <<pc, call, pending, parts, flat, batchStart, rebuilt, answer>>
  BY DEF AppendResults
<1>2. /\ list \in Seq(Bytes) /\ Distinct(list) /\ Len(list) \in Nat
      /\ \A x \in Solid(list) : list[x] \in Bytes /\ x \in DOMAIN list
      /\ call[c].method = "flat"
  BY <1>1, FlatFacts
<1>3. r \in Seq(T) /\ DOMAIN r = 1..Len(r) /\ payloads \in Seq(Known) /\ added[c] \in Nat
  <2>1. r \in Seq(T) /\ payloads \in Seq(Known) /\ added[c] \in Nat
    BY DEF TypeOK
  <2> QED BY <2>1, LenProperties
<1>4. \A k \in DOMAIN r : r[k] = Nil \/ IsSolid(r[k], list)
  BY <1>1 DEF CallInv, Sources
<1> HIDE DEF T, list, r
<1>5. rest \in Seq(T) /\ Selects(rest, Cardinality(P), r, P)
  <2>1. P \in SUBSET (1..Len(r))
    BY <1>3
  <2> HIDE DEF P
  <2> QED BY <1>3, <2>1, PickedFacts
<1>6. \A k \in DOMAIN rest : IsSolid(rest[k], list)
  <2> HIDE DEF rest
  <2>1. DOMAIN rest = 1..Len(rest) /\ Len(rest) = Cardinality(P)
    BY <1>5, LenProperties DEF Selects
  <2>2. PICK at \in [1..Len(rest) -> P] : \A k \in 1..Len(rest) : rest[k] = r[at[k]]
    BY <1>5, <2>1 DEF Selects
  <2>3. \A k \in 1..Len(rest) : at[k] \in DOMAIN r /\ r[at[k]] # Nil
    BY <2>2
  <2> QED BY <1>4, <2>1, <2>2, <2>3
<1>7. n \in 1..Len(rest) /\ n \in Nat /\ Len(rest) \in Nat
  <2>1. Len(rest) \in Nat \ {0}
    BY <1>1, <1>5, EmptySeq
  <2>2. AppendBatch \in Nat \ {0}
    BY SizesPositive
  <2> HIDE DEF rest
  <2> QED BY <2>1, <2>2 DEF Least
<1>8. \A k \in (DOMAIN r) \ P, x \in Solid(list) : r[k] # list[x]
  BY <1>2, NoBytes
<1> HIDE DEF n
<1>9. ASSUME NEW m \in 0..Len(list), Place(c, m), Covers(payloads, list, 0, m)
      PROVE  \E b \in Nat :
               /\ m <= b /\ b <= e /\ b <= Len(list)
               /\ Covers(s, list, m, b) /\ Covers(t, list, b, e)
               /\ added[c] + n = Cardinality(Solid(list) \cap 1..b)
  <2>1. /\ m <= e /\ Covers(r, list, m, e) /\ added[c] = Cardinality(Solid(list) \cap 1..m)
    BY <1>1, <1>9 DEF Place, r, list
  <2>2. m \in Nat /\ m \in Int /\ e \in Int
    <3>1. GoBatch \in Nat /\ batchStart[c] \in Nat
      BY SizesPositive DEF TypeOK
    <3> QED BY <1>2, <1>9, <3>1 DEF BatchEnd, Least
  <2> HIDE DEF e
  <2>3. P \in SUBSET (DOMAIN r)
    OBVIOUS
  <2> HIDE DEF P
  <2>4. Covers(rest, list, m, e)
    BY <1>2, <1>3, <1>8, <2>1, <2>2, <2>3, CoversPicked
  <2> HIDE DEF rest
  <2>5. Splits(s, t, n, list, m, e)
    <3>1. rest \in Seq(T) /\ rest # <<>> /\ n \in 1..Len(rest)
      BY <1>1, <1>5, <1>7
    <3>2. list \in Seq(Bytes) /\ Distinct(list)
      BY <1>2
    <3> QED BY <1>6, <2>2, <2>4, <3>1, <3>2, CoversNext
  <2> HIDE DEF s, t
  <2> QED BY <2>1, <2>5 DEF Splits
<1> HIDE DEF rest
<1>10. /\ s \in Seq(Bytes) /\ s \in Seq(Known) /\ DOMAIN s = 1..n
       /\ \A k \in 1..n : s[k] = rest[k]
       /\ t \in Seq(T) /\ DOMAIN t = 1..Len(rest) - n
       /\ \A k \in 1..Len(rest) - n : n + k \in DOMAIN rest /\ t[k] = rest[n + k]
  <2>1. DOMAIN rest = 1..Len(rest) /\ \A k \in 1..Len(rest) : rest[k] \in T /\ rest[k] \in Bytes
    <3>1. DOMAIN rest = 1..Len(rest) /\ \A k \in 1..Len(rest) : rest[k] \in T
      BY <1>5, LenProperties, ElementOfSeq
    <3> QED BY <1>2, <1>6, <3>1 DEF IsSolid
  <2>2. /\ 1 \in Int /\ n \in Int /\ 1 <= n /\ n - 1 + 1 = n
        /\ \A i \in 1..n : rest[i] \in Bytes /\ 1 + i - 1 = i
    BY <1>7, <2>1
  <2>3. s \in Seq(Bytes) /\ Len(s) = n /\ \A i \in 1..n - 1 + 1 : s[i] = rest[1 + i - 1]
    BY <2>2, SubSeqProperties
  <2> DEFINE b == n + 1
  <2>4. /\ b \in Int /\ Len(rest) \in Int /\ Len(rest) - b + 1 = Len(rest) - n
        /\ \A i \in b .. Len(rest) : rest[i] \in T
        /\ (IF b <= Len(rest) THEN Len(rest) - b + 1 ELSE 0) = Len(rest) - n
        /\ \A k \in 1..Len(rest) - n : b + k - 1 = n + k /\ n + k \in 1..Len(rest)
    <3>1. \A i \in b .. Len(rest) : i \in 1..Len(rest)
      BY <1>7
    <3>2. \A i \in b .. Len(rest) : rest[i] \in T
      BY <2>1, <3>1
    <3>3. /\ b \in Int /\ Len(rest) \in Int /\ Len(rest) - b + 1 = Len(rest) - n
          /\ (IF b <= Len(rest) THEN Len(rest) - b + 1 ELSE 0) = Len(rest) - n
      BY <1>7
    <3>4. \A k \in 1..Len(rest) - n : b + k - 1 = n + k /\ n + k \in 1..Len(rest)
      BY <1>7
    <3> QED BY <3>2, <3>3, <3>4
  <2> HIDE DEF b
  <2>5. /\ SubSeq(rest, b, Len(rest)) \in Seq(T)
        /\ Len(SubSeq(rest, b, Len(rest))) = IF b <= Len(rest) THEN Len(rest) - b + 1 ELSE 0
        /\ \A i \in 1..Len(rest) - b + 1 : SubSeq(rest, b, Len(rest))[i] = rest[b + i - 1]
    BY <2>4, SubSeqProperties
  <2>6. t = SubSeq(rest, b, Len(rest))
    BY DEF b
  <2> HIDE DEF s, t
  <2>7. t \in Seq(T) /\ Len(t) = Len(rest) - n /\ \A k \in 1..Len(rest) - n : t[k] = rest[n + k]
    BY <2>4, <2>5, <2>6
  <2>8. s \in Seq(Known)
    BY <2>3, KnownSeq
  <2> QED BY <2>1, <2>2, <2>3, <2>4, <2>7, <2>8, LenProperties
<1> HIDE DEF s, t
<1>11. TypeOK' /\ Kept(c)
  <2>1. payloads' \in Seq(Known)
    BY <1>1, <1>3, <1>10, ConcatProperties
  <2>2. results' \in [Callers -> Seq(T)]
    BY <1>1, <1>10 DEF TypeOK, T
  <2>3. added' \in [Callers -> Nat]
    <3>1. added' = [added EXCEPT ![c] = added[c] + n] /\ added \in [Callers -> Nat]
      BY <1>1 DEF TypeOK
    <3>2. added[c] + n \in Nat
      BY <1>3, <1>7
    <3> QED BY <3>1, <3>2
  <2> QED BY <1>1, <2>1, <2>2, <2>3 DEF TypeOK, T, Kept
<1>12. Appends(c)
  <2>1. \A k \in DOMAIN s : IsItem(s[k], list)
    <3>1. \A k \in DOMAIN s : k \in DOMAIN rest /\ s[k] = rest[k]
      <4>1. DOMAIN rest = 1..Len(rest)
        BY <1>5, LenProperties
      <4> QED BY <1>7, <1>10, <4>1
    <3> QED BY <1>2, <1>6, <3>1 DEF IsSolid, IsItem
  <2> QED BY <1>1, <1>2, <1>10, <2>1 DEF Appends, Own, list
<1>13. /\ Items(c)' = list /\ call' = call /\ pc'[c] = "copying" /\ pending'[c] = {}
       /\ results'[c] = t /\ added'[c] = added[c] + n /\ flat'[c] = flat[c]
       /\ batchStart'[c] = batchStart[c]
  BY <1>1, ItemsSame DEF TypeOK, list
<1>14. Tasks(c)' /\ Counts(c)'
  BY <1>13 DEF Tasks, Counts
<1>15. Flats(c)' /\ Methods(c)'
  BY <1>1, <1>13 DEF CallInv, Flats, Methods, list
<1>16. Sources(c)'
  <2>1. \A k \in DOMAIN t : IsSolid(t[k], list)
    BY <1>6, <1>10
  <2> QED BY <1>13, <2>1 DEF Sources
<1>17. Progress(c)'
  <2>1. PICK m \in 0..Len(list) : Covers(payloads, list, 0, m) /\ Place(c, m)
    BY DEF Progress, list
  <2>2. PICK b \in Nat :
          /\ m <= b /\ b <= e /\ b <= Len(list)
          /\ Covers(s, list, m, b) /\ Covers(t, list, b, e)
          /\ added[c] + n = Cardinality(Solid(list) \cap 1..b)
    BY <1>9, <2>1
  <2>3. 0 \in Int /\ m \in Int /\ b \in Int /\ 0 <= m /\ b \in 0..Len(list)
    BY <1>2, <2>1, <2>2
  <2>4. Covers(payloads \o s, list, 0, b)
    BY <1>2, <1>3, <1>10, <2>1, <2>2, <2>3, CoversConcat
  <2>5. Covers(payloads', list, 0, b)
    BY <1>1, <2>4
  <2>6. Place(c, b)'
    BY <1>13, <2>2 DEF Place, e
  <2> QED BY <1>13, <2>3, <2>5, <2>6 DEF Progress
<1> QED BY <1>11, <1>12, <1>14, <1>15, <1>16, <1>17 DEF Fine, CallInv

\* NextBatch leaves what is said of its caller and of the others true.
LEMMA NextBatchFine ==
  ASSUME TypeOK, NEW c \in Callers, CallInv(c), Progress(c), NextBatch(c)
  PROVE  Fine(c)
<1> DEFINE list == Items(c)
           e == BatchEnd(list, batchStart[c])
<1>1. /\ pc[c] = "copying" /\ pending[c] = {} /\ \A i \in DOMAIN results[c] : results[c][i] = Nil
      /\ pc' = [pc EXCEPT ![c] = "batch"]
      /\ batchStart' = [batchStart EXCEPT ![c] = batchStart[c] + GoBatch]
      /\ UNCHANGED <<payloads, call, added, answer, pending, parts, flat, rebuilt, results>>
  BY DEF NextBatch, Goes, AfterBatch, Quiet
<1>2. GoBatch \in Nat /\ batchStart[c] \in Nat
  BY SizesPositive DEF TypeOK
<1>3. TypeOK' /\ Kept(c) /\ payloads' = payloads
  <2>1. batchStart' \in [Callers -> Nat]
    <3>1. batchStart \in [Callers -> Nat]
      BY DEF TypeOK
    <3>2. batchStart[c] + GoBatch \in Nat
      BY <1>2
    <3>3. batchStart' = [batchStart EXCEPT ![c] = batchStart[c] + GoBatch]
      BY <1>1
    <3> QED BY <3>1, <3>2, <3>3
  <2>2. pc' \in [Callers -> Places]
    BY <1>1 DEF TypeOK, Places
  <2>3. TypeOK'
    BY <1>1, <2>1, <2>2 DEF TypeOK
  <2> QED BY <1>1, <2>3 DEF TypeOK, Kept
<1>4. Items(c)' = Items(c) /\ call' = call
  BY <1>3, ItemsSame DEF Kept
<1>5. /\ pc'[c] = "batch" /\ pending'[c] = {} /\ flat'[c] = flat[c] /\ added'[c] = added[c]
      /\ batchStart'[c] = batchStart[c] + GoBatch
  BY <1>1 DEF TypeOK
<1>6. Tasks(c)' /\ Sources(c)' /\ Counts(c)'
  BY <1>5 DEF Tasks, Sources, Counts
<1>7. Flats(c)' /\ Methods(c)'
  BY <1>1, <1>4, <1>5 DEF CallInv, Flats, Methods
<1>8. ASSUME NEW m \in 0..Len(Items(c)), Place(c, m), Covers(payloads, Items(c), 0, m)
      PROVE  \E n \in 0..Len(Items(c)) : Place(c, n)' /\ Covers(payloads, Items(c), 0, n)
  <2>1. m <= e /\ Covers(results[c], list, m, e) /\ added[c] = Cardinality(Solid(list) \cap 1..m)
    BY <1>1, <1>8 DEF Place
  <2>2. list \in Seq(Bytes) /\ Len(list) \in Nat /\ \A x \in Solid(list) : list[x] \in Bytes
    BY <1>1, FlatFacts
  <2>3. m \in Int /\ m \in Nat /\ e \in Int /\ e \in 0..Len(list)
    BY <1>2, <1>8, <2>2 DEF BatchEnd, Least
  <2>4. \A k \in DOMAIN results[c], x \in Solid(list) : results[c][k] # list[x]
    BY <1>1, <2>2, NoBytes
  <2> HIDE DEF e
  <2>5. Covers(payloads, list, 0, e) /\ \A x \in Solid(list) : ~(m < x /\ x <= e)
    BY <1>8, <2>1, <2>3, <2>4, NothingLeft
  <2>6. Solid(list) \cap 1..m = Solid(list) \cap 1..e
    <3>1. \A x \in Solid(list) : x \in Int
      BY <2>2, SolidPositions
    <3>2. \A x \in Solid(list) : x \in 1..m <=> x \in 1..e
      BY <2>1, <2>3, <2>5, <3>1
    <3> QED BY <3>2
  <2>7. PICK n \in 0..Len(list) : n = e
    BY <2>3
  <2>8. n = Least(batchStart[c] + GoBatch, Len(list))
    BY <2>7 DEF e, BatchEnd
  <2>9. Place(c, n)'
    BY <1>4, <1>5, <2>1, <2>6, <2>7, <2>8 DEF Place
  <2> QED BY <2>5, <2>7, <2>9
<1> QED BY <1>3, <1>6, <1>7, <1>8, QuietStep DEF CallInv

-----------------------------------------------------------------------------
(***************************************************************************)
(* The invariant.                                                          *)
(***************************************************************************)
\* At first nobody has anything on the way.
LEMMA InvInitially == Init => Inv
<1> SUFFICES ASSUME Init PROVE Inv
  OBVIOUS
<1>1. TypeOK
  <2>1. call \in [Callers -> UNION {CallsOf(c) : c \in Callers}] /\ \A c \in Callers : call[c] \in CallsOf(c)
    BY DEF Init
  <2>2. <<>> \in Seq(Known) /\ <<>> \in Seq(Bytes \cup {Nil})
        /\ <<>> \in Seq(Bytes \cup {Nil, NotBytes, Foreign})
    BY EmptySeq
  <2> QED BY <2>1, <2>2 DEF Init, TypeOK, Places
<1>2. Origin
  BY DEF Init, Origin
<1>3. ASSUME NEW c \in Callers PROVE CallInv(c) /\ Progress(c)
  <2>1. /\ pc[c] = "called" /\ pending[c] = {} /\ batchStart[c] = 0 /\ added[c] = 0
        /\ payloads = <<>>
    BY DEF Init
  <2>2. CallInv(c)
    BY <2>1 DEF CallInv, Tasks, Flats, Methods, Sources, Counts
  <2>3. Covers(payloads, Items(c), 0, 0)
    <3>1. Items(c) \in Seq(Bytes \cup {NotBytes}) /\ 0 \in Int
      BY <1>1, ItemsFacts
    <3>2. DOMAIN payloads = {}
      BY <2>1
    <3> DEFINE list == Items(c)
    <3> HIDE DEF list
    <3>3. list \in Seq(Bytes \cup {NotBytes})
      BY <3>1 DEF list
    <3>4. Covers(payloads, list, 0, 0)
      BY <3>1, <3>2, <3>3, CoversNothing
    <3> QED BY <3>4 DEF list
  <2>4. Place(c, 0)
    BY <2>1 DEF Place
  <2>5. 0 \in 0..Len(Items(c))
    BY <1>1, ItemsFacts
  <2> QED BY <2>2, <2>3, <2>4, <2>5 DEF Progress
<1> QED BY <1>1, <1>2, <1>3 DEF Inv

\* Every step of a caller.
LEMMA StepFine ==
  ASSUME TypeOK, NEW c \in Callers, CallInv(c), Progress(c), CallStep(c)
  PROVE  Fine(c)
<1>1. CASE EmptyCall(c) \/ ConvertRaises(c)
  BY <1>1, EmptyCallFine, ConvertRaisesFine
<1>2. CASE FlatStep(c)
  <2>1. CASE FlattenHere(c) \/ FlattenInPool(c) \/ FlattenPoolRaises(c) \/ JoinFlattened(c)
    BY <2>1, FlattenHereFine, FlattenInPoolFine, FlattenPoolRaisesFine, JoinFlattenedFine
  <2>2. CASE AddNothing(c) \/ AddDirectly(c)
    BY <2>2, AddNothingFine, AddDirectlyFine
  <2>3. CASE StartBatches(c) \/ StartRebuild(c) \/ StartCopy(c) \/ AppendResults(c)
    BY <2>3, StartBatchesFine, StartRebuildFine, StartCopyFine, AppendResultsFine
  <2>4. CASE NextBatch(c) \/ FlatReturns(c)
    BY <2>4, NextBatchFine, FlatReturnsFine
  <2>5. ASSUME NEW w \in pending[c], FlattenTask(c, w) \/ RebuildTask(c, w) \/ CopyTask(c, w)
        PROVE  Fine(c)
    BY <2>5, FlattenTaskFine, RebuildTaskFine, CopyTaskFine
  <2> QED BY <1>2, <2>1, <2>2, <2>3, <2>4, <2>5 DEF FlatStep
<1>3. CASE OneByOneStep(c)
  <2>1. CASE BatchRefuses(c) \/ ConvertHere(c) \/ ConvertInPool(c) \/ ConvertPoolRaises(c)
    BY <2>1, BatchRefusesFine, ConvertHereFine, ConvertInPoolFine, ConvertPoolRaisesFine
  <2>2. CASE GatherConverted(c) \/ StartAdd(c) \/ AddNext(c) \/ AddRaises(c) \/ AddReturns(c)
    BY <2>2, GatherConvertedFine, StartAddFine, AddNextFine, AddRaisesFine, AddReturnsFine
  <2>3. ASSUME NEW k \in pending[c], ConvertTask(c, k) PROVE Fine(c)
    BY <2>3, ConvertTaskFine
  <2> QED BY <1>3, <2>1, <2>2, <2>3 DEF OneByOneStep
<1> QED BY <1>1, <1>2, <1>3 DEF CallStep

\* Every step keeps the invariant.
LEMMA InvKept == Inv /\ [Next]_vars => Inv'
<1> SUFFICES ASSUME Inv, [Next]_vars PROVE Inv'
  OBVIOUS
<1>1. TypeOK /\ Origin /\ \A c \in Callers : CallInv(c) /\ Progress(c)
  BY DEF Inv
<1>2. ASSUME NEW c \in Callers, CallStep(c) PROVE Inv'
  <2>1. TypeOK' /\ Kept(c) /\ Appends(c) /\ CallInv(c)' /\ Progress(c)'
    BY <1>1, <1>2, StepFine DEF Fine
  <2>2. \A d \in Callers \ {c} : CallInv(d)' /\ Progress(d)'
    BY <1>1, <2>1, OthersKept
  <2>3. Origin'
    BY <1>1, <2>1, OriginKept
  <2> QED BY <2>1, <2>2, <2>3 DEF Inv
<1>3. CASE UNCHANGED vars
  <2>1. call' = call /\ payloads' = payloads /\ pc' = pc /\ pending' = pending /\ parts' = parts
        /\ flat' = flat /\ batchStart' = batchStart /\ rebuilt' = rebuilt
        /\ results' = results /\ added' = added /\ answer' = answer
    BY <1>3 DEF vars
  <2>2. \A c : Items(c)' = Items(c) /\ \A i : Item(c, i)' = Item(c, i)
    BY <2>1, ItemsSame
  <2>3. TypeOK' /\ Origin'
    BY <1>1, <2>1, <2>2 DEF TypeOK, Origin, Own
  <2>4. ASSUME NEW c \in Callers PROVE CallInv(c)' /\ Progress(c)'
    <3>1. Items(c)' = Items(c) /\ CallInv(c) /\ Progress(c)
      BY <1>1, <2>2
    <3>2. Tasks(c)' /\ Flats(c)' /\ Methods(c)' /\ Sources(c)' /\ Counts(c)'
      BY <2>1, <3>1 DEF CallInv, Tasks, Flats, Methods, Sources, Counts
    <3>3. PICK m \in 0..Len(Items(c)) : Covers(payloads, Items(c), 0, m) /\ Place(c, m)
      BY <3>1 DEF Progress
    <3>4. Place(c, m)'
      BY <2>1, <3>1, <3>3 DEF Place
    <3> QED BY <2>1, <3>1, <3>2, <3>3, <3>4 DEF CallInv, Progress
  <2> QED BY <2>3, <2>4 DEF Inv
<1> QED BY <1>2, <1>3 DEF Next

\* In every state: the types, where every payload comes from, what the tasks of every
\* call have done, and how many items of add_batch_payloads_flat or add_payloads have
\* been added (of add_batch_payloads only that it appends what its handles name).
THEOREM BulkPayloadsInv == Spec => []Inv
BY InvInitially, InvKept, PTL DEF Spec

\* Whatever the number of processes, goroutines, batches and other callers: the
\* payloads of a call of add_batch_payloads_flat or add_payloads are its items from
\* the first on, unaltered, in order, none twice and none left out, and everything
\* else in Payloads comes from a handle of add_batch_payloads (parallel_utils.py
\* 292-422, send_stream.go 845-1015).
THEOREM PayloadsIntactHolds == Spec => []PayloadsIntact
<1>1. Inv => PayloadsIntact
  <2> SUFFICES ASSUME Inv PROVE PayloadsIntact
    OBVIOUS
  <2>1. ASSUME NEW k \in DOMAIN payloads
        PROVE  \/ payloads[k] = Foreign /\ \E c \in Callers : call[c].method = "batch"
               \/ \E c \in Callers : \E i \in DOMAIN Items(c) :
                    /\ call[c].method \in {"flat", "add"}
                    /\ IsBytes(Item(c, i)) /\ payloads[k] = Item(c, i)
    <3>1. TypeOK /\ payloads[k] # NotBytes
      <4>1. TypeOK /\ payloads[k] \in Known
        BY ElementOfSeq, LenProperties DEF Inv, TypeOK
      <4> QED BY <4>1, NoBytes DEF Known
    <3>2. PICK c \in Callers : Own(c, payloads[k])
      BY DEF Inv, Origin
    <3>3. CASE call[c].method = "batch" /\ payloads[k] = Foreign
      BY <3>3
    <3>4. CASE call[c].method \in {"flat", "add"} /\ IsItem(payloads[k], Items(c))
      <4>1. PICK i \in DOMAIN Items(c) : payloads[k] = Items(c)[i]
        BY <3>4 DEF IsItem
      <4>2. Items(c)[i] = Item(c, i)
        BY <3>1, <4>1, ItemsFacts
      <4> QED BY <3>1, <3>4, <4>1, <4>2 DEF IsBytes
    <3> QED BY <3>2, <3>3, <3>4 DEF Own
  <2>2. \A c \in Callers : \E m \in 0..Len(Items(c)) : Covers(payloads, Items(c), 0, m)
    BY DEF Inv, Progress
  <2> QED BY <2>1, <2>2 DEF PayloadsIntact
<1> QED BY <1>1, BulkPayloadsInv, PTL

\* A call of add_batch_payloads_flat or add_payloads that returns has added everything
\* and answers the number (send_stream.go 845-1015, transmit.py 226-260).
THEOREM ReturnedAddsAllHolds == Spec => []ReturnedAddsAll
<1>1. Inv => ReturnedAddsAll
  <2> SUFFICES ASSUME Inv, NEW c \in Callers, pc[c] = "returned",
                      call[c].method \in {"flat", "add"}
               PROVE  /\ Covers(payloads, Items(c), 0, Len(Items(c)))
                      /\ answer[c] = IF call[c].method = "flat"
                                     THEN Cardinality(Solid(Items(c))) ELSE Len(Items(c))
    BY DEF ReturnedAddsAll
  <2>1. Counts(c) /\ Progress(c)
    BY DEF Inv, CallInv
  <2>2. Covers(payloads, Items(c), 0, Len(Items(c)))
    BY <2>1 DEF Progress, Place
  <2>3. answer[c] = IF call[c].method = "flat"
                    THEN Cardinality(Solid(Items(c))) ELSE Len(Items(c))
    BY <2>1 DEF Counts
  <2> QED BY <2>2, <2>3
<1> QED BY <1>1, BulkPayloadsInv, PTL
=============================================================================
