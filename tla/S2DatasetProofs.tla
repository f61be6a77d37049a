--------------------------- MODULE S2DatasetProofs ---------------------------
(***************************************************************************)
(* What S2Dataset keeps on disk and in the corpus, proved for any releases *)
(* of any shards and rows, any number of commands and tries, wherever a    *)
(* command fails or is killed.                                             *)
(*                                                                         *)
(* The argument: while a dataset is loaded, its tables hold what the       *)
(* statements run so far have added since the tables were emptied, in that *)
(* order; nothing else writes these tables but the sort, which keeps their *)
(* rows; so what the last statement leaves is what the shards hold.        *)
(*                                                                         *)
(* FlattenSeq is a recursive function.  Induction over data is done with   *)
(* the set of the numbers for which a formula holds.                       *)
(***************************************************************************)
EXTENDS S2Dataset, SequenceTheorems, FiniteSetTheorems, TLAPS

(* A set with 0 and the successors of its members has every number.         *)
LEMMA Induction ==
  ASSUME NEW P, 0 \in P, \A n \in Nat : n \in P => n + 1 \in P
  PROVE  \A n \in Nat : n \in P
<1>. DEFINE Missing == Nat \ P
<1>. SUFFICES ASSUME Missing # {} PROVE FALSE
  OBVIOUS
<1>1. PICK n \in Missing : \A k \in Missing : ~(<<k, n>> \in OpToRel(<, Nat))
  <2>1. Missing \subseteq Nat /\ Missing # {}
    OBVIOUS
  <2>. HIDE DEF Missing
  <2>. QED
    BY <2>1, NatLessThanWellFounded, WFMin
<1>2. n \in Nat /\ n # 0
  OBVIOUS
<1>3. n - 1 \in Nat /\ n - 1 < n /\ (n - 1) + 1 = n
  BY <1>2
<1>4. <<n - 1, n>> \in OpToRel(<, Nat)
  BY <1>2, <1>3 DEF OpToRel
<1>5. n - 1 \in P
  BY <1>1, <1>3, <1>4
<1>. QED
  BY <1>3, <1>5

(* f lists what the first members of ss flatten to.                         *)
Flattens(ss, f) ==
  f = [i \in 1..Len(ss) |-> IF i = 1 THEN ss[i] ELSE f[i - 1] \o ss[i]]

LEMMA FlatteningExists ==
  ASSUME NEW S, NEW ss \in Seq(Seq(S))
  PROVE  \E f \in [1..Len(ss) -> Seq(S)] : Flattens(ss, f)
<1>. DEFINE Below(n, f) ==
              \A i \in 1..n : f[i] = IF i = 1 THEN ss[i] ELSE f[i - 1] \o ss[i]
            P == {n \in Nat : n <= Len(ss) => \E f \in [1..n -> Seq(S)] : Below(n, f)}
<1>1. 0 \in P
  <2>. DEFINE f == [i \in 1..0 |-> << >>]
  <2>1. f \in [1..0 -> Seq(S)] /\ Below(0, f)
    OBVIOUS
  <2>. HIDE DEF Below, f
  <2>. QED
    BY <2>1
<1>2. ASSUME NEW n \in Nat, n \in P PROVE n + 1 \in P
  <2>. SUFFICES ASSUME n + 1 <= Len(ss)
                PROVE  \E f \in [1..n + 1 -> Seq(S)] : Below(n + 1, f)
    <3>. HIDE DEF Below
    <3>. QED
      OBVIOUS
  <2>1. Len(ss) \in Nat /\ n <= Len(ss)
    OBVIOUS
  <2>2. PICK f \in [1..n -> Seq(S)] : Below(n, f)
    BY <1>2, <2>1
  <2>. DEFINE next == IF n = 0 THEN ss[1] ELSE f[n] \o ss[n + 1]
              g == [i \in 1..n + 1 |-> IF i <= n THEN f[i] ELSE next]
  <2>3. ss[n + 1] \in Seq(S) /\ (n = 0 => ss[1] \in Seq(S))
    BY <2>1
  <2>4. next \in Seq(S)
    <3>1. CASE n = 0
      BY <2>3, <3>1
    <3>2. CASE n # 0
      <4>1. f[n] \in Seq(S)
        BY <3>2
      <4>. QED
        BY <2>3, <3>2, <4>1, ConcatProperties
    <3>. QED
      BY <3>1, <3>2
  <2>. HIDE DEF next
  <2>5. g \in [1..n + 1 -> Seq(S)]
    BY <2>4
  <2>6. ASSUME NEW i \in 1..n + 1
        PROVE  g[i] = IF i = 1 THEN ss[i] ELSE g[i - 1] \o ss[i]
    <3>1. CASE i <= n
      <4>1. i \in 1..n /\ (i # 1 => i - 1 \in 1..n /\ i - 1 <= n)
        BY <3>1
      <4>2. f[i] = IF i = 1 THEN ss[i] ELSE f[i - 1] \o ss[i]
        BY <2>2, <4>1
      <4>3. g[i] = f[i] /\ (i # 1 => g[i - 1] = f[i - 1])
        BY <3>1, <4>1
      <4>. QED
        BY <4>2, <4>3
    <3>2. CASE i = n + 1
      <4>1. g[i] = next
        BY <3>2
      <4>2. n # 0 => g[n] = f[n]
        OBVIOUS
      <4>. QED
        BY <3>2, <4>1, <4>2 DEF next
    <3>. QED
      BY <3>1, <3>2
  <2>7. Below(n + 1, g)
    BY <2>6
  <2>. QED
    BY <2>5, <2>7
<1>3. \A n \in Nat : n \in P
  <2>. HIDE DEF P
  <2>. QED
    BY <1>1, <1>2, Induction
<1>4. PICK f \in [1..Len(ss) -> Seq(S)] : Below(Len(ss), f)
  <2>1. Len(ss) \in Nat /\ Len(ss) <= Len(ss)
    OBVIOUS
  <2>2. Len(ss) \in P
    BY <1>3, <2>1
  <2>. HIDE DEF Below
  <2>. QED
    BY <2>1, <2>2
<1>5. Flattens(ss, f)
  BY <1>4 DEF Flattens
<1>. QED
  BY <1>5

(* The lists begin with the same m members.                                 *)
Agree(s, r, m) == \A i \in 1..m : s[i] = r[i]

(* It is the only one.                                                      *)
LEMMA FlatteningUnique ==
  ASSUME NEW ss, NEW rr, Len(ss) \in Nat, Len(rr) \in Nat, NEW m \in Nat,
         m <= Len(ss), m <= Len(rr), Agree(ss, rr, m),
         NEW f, Flattens(ss, f), NEW g, Flattens(rr, g)
  PROVE  Agree(f, g, m)
<1>. DEFINE P == {n \in Nat : n \in 1..m => f[n] = g[n]}
<1>1. 0 \in P
  OBVIOUS
<1>2. ASSUME NEW n \in Nat, n \in P PROVE n + 1 \in P
  <2>. SUFFICES ASSUME n + 1 \in 1..m PROVE f[n + 1] = g[n + 1]
    OBVIOUS
  <2>1. n + 1 \in 1..Len(ss) /\ n + 1 \in 1..Len(rr) /\ (n + 1) - 1 = n
    OBVIOUS
  <2>2. f[n + 1] = IF n + 1 = 1 THEN ss[n + 1] ELSE f[n] \o ss[n + 1]
    BY <2>1 DEF Flattens
  <2>3. g[n + 1] = IF n + 1 = 1 THEN rr[n + 1] ELSE g[n] \o rr[n + 1]
    BY <2>1 DEF Flattens
  <2>4. ss[n + 1] = rr[n + 1]
    BY DEF Agree
  <2>5. n + 1 # 1 => f[n] = g[n]
    BY <1>2
  <2>. QED
    BY <2>2, <2>3, <2>4, <2>5
<1>3. \A n \in Nat : n \in P
  <2>. HIDE DEF P
  <2>. QED
    BY <1>1, <1>2, Induction
<1>. QED
  BY <1>3 DEF Agree

(* What FlattenSeq is, without its choice.                                  *)
LEMMA FlattenIs ==
  ASSUME NEW S, NEW ss \in Seq(Seq(S)), Len(ss) # 0
  PROVE  \E f \in [1..Len(ss) -> Seq(S)] : Flattens(ss, f) /\ FlattenSeq(ss) = f[Len(ss)]
<1>. DEFINE c == CHOOSE f : f = [i \in 1..Len(ss) |-> IF i = 1 THEN ss[i] ELSE f[i - 1] \o ss[i]]
<1>1. FlattenSeq(ss) = c[Len(ss)]
  BY DEF FlattenSeq
<1>2. PICK f \in [1..Len(ss) -> Seq(S)] : Flattens(ss, f)
  BY FlatteningExists
<1>3. c = [i \in 1..Len(ss) |-> IF i = 1 THEN ss[i] ELSE c[i - 1] \o ss[i]]
  BY <1>2 DEF Flattens
<1>. HIDE DEF c
<1>4. Flattens(ss, c)
  BY <1>3 DEF Flattens
<1>5. Len(ss) \in Nat
  OBVIOUS
<1>6. Agree(ss, ss, Len(ss))
  BY DEF Agree
<1>7. Agree(c, f, Len(ss))
  BY <1>2, <1>4, <1>5, <1>6, FlatteningUnique
<1>8. c[Len(ss)] = f[Len(ss)]
  BY <1>5, <1>7 DEF Agree
<1>. QED
  BY <1>1, <1>2, <1>8

(* Flattening goes on at the end, list by list.                             *)
LEMMA FlattenAppend ==
  ASSUME NEW S, NEW ss \in Seq(Seq(S)), NEW s \in Seq(S)
  PROVE  /\ FlattenSeq(ss) \in Seq(S)
         /\ FlattenSeq(Append(ss, s)) = FlattenSeq(ss) \o s
<1>. DEFINE rr == Append(ss, s)
<1>1. /\ Len(ss) \in Nat /\ rr \in Seq(Seq(S)) /\ Len(rr) = Len(ss) + 1
      /\ \A i \in 1..Len(ss) : ss[i] = rr[i]
      /\ rr[Len(ss) + 1] = s
  OBVIOUS
<1>. HIDE DEF rr
<1>2. PICK g \in [1..Len(rr) -> Seq(S)] : Flattens(rr, g) /\ FlattenSeq(rr) = g[Len(rr)]
  <2>1. Len(rr) # 0
    BY <1>1
  <2>. QED
    BY <1>1, <2>1, FlattenIs
<1>3. CASE Len(ss) = 0
  <2>1. FlattenSeq(ss) = << >>
    BY <1>3 DEF FlattenSeq
  <2>2. g[1] = rr[1]
    BY <1>1, <1>2, <1>3 DEF Flattens
  <2>3. FlattenSeq(rr) = s
    BY <1>1, <1>2, <1>3, <2>2
  <2>4. << >> \o s = s /\ << >> \in Seq(S)
    OBVIOUS
  <2>. QED
    BY <2>1, <2>3, <2>4 DEF rr
<1>4. CASE Len(ss) # 0
  <2>1. PICK f \in [1..Len(ss) -> Seq(S)] : Flattens(ss, f) /\ FlattenSeq(ss) = f[Len(ss)]
    BY <1>4, FlattenIs
  <2>2. Agree(f, g, Len(ss))
    <3>1. Len(ss) \in Nat /\ Len(rr) \in Nat /\ Len(ss) <= Len(ss) /\ Len(ss) <= Len(rr)
      BY <1>1
    <3>2. Agree(ss, rr, Len(ss))
      BY <1>1 DEF Agree
    <3>3. Flattens(ss, f) /\ Flattens(rr, g)
      BY <1>2, <2>1
    <3>. QED
      BY <3>1, <3>2, <3>3, FlatteningUnique
  <2>3. Len(rr) \in 1..Len(rr) /\ Len(rr) # 1 /\ Len(rr) - 1 = Len(ss) /\ Len(ss) \in 1..Len(ss)
    BY <1>1, <1>4
  <2>4. g[Len(rr)] = g[Len(rr) - 1] \o rr[Len(rr)]
    BY <1>2, <2>3 DEF Flattens
  <2>5. FlattenSeq(rr) = f[Len(ss)] \o s
    BY <1>1, <1>2, <2>2, <2>3, <2>4 DEF Agree
  <2>6. f[Len(ss)] \in Seq(S)
    BY <2>3
  <2>. QED
    BY <2>1, <2>5, <2>6 DEF rr
<1>. QED
  BY <1>1, <1>3, <1>4

LEMMA FlattenTyped ==
  ASSUME NEW S, NEW ss \in Seq(Seq(S))
  PROVE  FlattenSeq(ss) \in Seq(S)
<1>1. << >> \in Seq(S)
  OBVIOUS
<1>. QED
  BY <1>1, FlattenAppend

(* Flattening a prefix.                                                     *)
LEMMA FlattenPrefix ==
  ASSUME NEW S, NEW ss \in Seq(Seq(S)), NEW n \in Nat, n < Len(ss)
  PROVE  /\ SubSeq(ss, 1, n) \in Seq(Seq(S)) /\ ss[n + 1] \in Seq(S)
         /\ FlattenSeq(SubSeq(ss, 1, n + 1)) = FlattenSeq(SubSeq(ss, 1, n)) \o ss[n + 1]
<1>1. SubSeq(ss, 1, n) \in Seq(Seq(S)) /\ ss[n + 1] \in Seq(S)
  OBVIOUS
<1>2. SubSeq(ss, 1, n + 1) = Append(SubSeq(ss, 1, n), ss[n + 1])
  OBVIOUS
<1>. QED
  BY <1>1, <1>2, FlattenAppend

LEMMA WholePrefix ==
  ASSUME NEW S, NEW s \in Seq(S)
  PROVE  /\ SubSeq(s, 1, Len(s)) = s /\ SubSeq(s, 1, 0) = << >>
         /\ Len(s) \in Nat
  BY SubSeqFull, SubSeqEmpty

------------------------------------------------------------------------------
(* How often a value is in a list.                                          *)
Count(x, s) == Cardinality({i \in DOMAIN s : s[i] = x})

LEMMA CountTyped ==
  ASSUME NEW S, NEW s \in Seq(S), NEW x
  PROVE  /\ Count(x, s) \in Nat /\ IsFiniteSet({i \in DOMAIN s : s[i] = x})
         /\ Count(x, s) = 0 <=> x \notin ToSet(s)
<1>. DEFINE At == {i \in DOMAIN s : s[i] = x}
<1>1. DOMAIN s = 1..Len(s) /\ Len(s) \in Nat
  OBVIOUS
<1>2. IsFiniteSet(DOMAIN s)
  BY <1>1, FS_Interval
<1>3. At \in SUBSET DOMAIN s
  OBVIOUS
<1>4. IsFiniteSet(At) /\ Cardinality(At) \in Nat
  <2>. HIDE DEF At
  <2>. QED
    BY <1>2, <1>3, FS_Subset, FS_CardinalityType
<1>5. Cardinality(At) = 0 <=> At = {}
  <2>. HIDE DEF At
  <2>. QED
    BY <1>4, FS_EmptySet
<1>6. At = {} <=> x \notin ToSet(s)
  BY DEF ToSet
<1>. QED
  BY <1>4, <1>5, <1>6 DEF Count

LEMMA CountSmall ==
  ASSUME NEW x, NEW y
  PROVE  Count(x, << >>) = 0 /\ Count(x, <<y>>) = IF y = x THEN 1 ELSE 0
<1>1. {i \in DOMAIN << >> : << >>[i] = x} = {}
  OBVIOUS
<1>2. CASE y = x
  <2>1. {i \in DOMAIN <<y>> : <<y>>[i] = x} = {1}
    BY <1>2
  <2>. QED
    BY <1>1, <1>2, <2>1, FS_EmptySet, FS_Singleton DEF Count
<1>3. CASE y # x
  <2>1. {i \in DOMAIN <<y>> : <<y>>[i] = x} = {}
    BY <1>3
  <2>. QED
    BY <1>1, <1>3, <2>1, FS_EmptySet DEF Count
<1>. QED
  BY <1>2, <1>3

LEMMA CountConcat ==
  ASSUME NEW S, NEW s \in Seq(S), NEW t \in Seq(S), NEW x
  PROVE  Count(x, s \o t) = Count(x, s) + Count(x, t)
<1>. DEFINE A == {i \in DOMAIN s : s[i] = x}
            B == {i \in DOMAIN t : t[i] = x}
            C == {i \in DOMAIN (s \o t) : (s \o t)[i] = x}
            D == {i \in C : i > Len(s)}
            f == [j \in B |-> j + Len(s)]
<1>1. /\ Len(s) \in Nat /\ DOMAIN s = 1..Len(s) /\ Len(t) \in Nat /\ DOMAIN t = 1..Len(t)
      /\ s \o t \in Seq(S) /\ DOMAIN (s \o t) = 1..Len(s) + Len(t)
      /\ \A i \in 1..Len(s) : (s \o t)[i] = s[i]
      /\ \A j \in 1..Len(t) : (s \o t)[j + Len(s)] = t[j]
  OBVIOUS
<1>2. A = {i \in C : i <= Len(s)}
  BY <1>1
<1>3. C = A \cup D /\ A \cap D = {}
  BY <1>1, <1>2
<1>4. f \in [B -> D]
  <2>1. \A j \in B : j + Len(s) \in 1..Len(s) + Len(t) /\ j + Len(s) > Len(s) /\ (s \o t)[j + Len(s)] = x
    BY <1>1
  <2>. QED
    BY <1>1, <2>1
<1>5. \A i, j \in B : f[i] = f[j] => i = j
  BY <1>1
<1>6. \A d \in D : \E j \in B : f[j] = d
  <2>. TAKE d \in D
  <2>1. d - Len(s) \in 1..Len(t) /\ (d - Len(s)) + Len(s) = d
    BY <1>1
  <2>2. t[d - Len(s)] = x
    BY <1>1, <2>1
  <2>3. d - Len(s) \in B /\ f[d - Len(s)] = d
    BY <1>1, <2>1, <2>2
  <2>. QED
    BY <2>3
<1>7. f \in Bijection(B, D)
  <2>. HIDE DEF B, D, f
  <2>. QED
    BY <1>4, <1>5, <1>6 DEF Bijection, Injection, Surjection, IsInjective
<1>8. IsFiniteSet(A) /\ IsFiniteSet(B) /\ Cardinality(A) \in Nat /\ Cardinality(B) \in Nat
  BY CountTyped DEF Count
<1>9. IsFiniteSet(D) /\ Cardinality(D) = Cardinality(B)
  <2>. HIDE DEF A, B, D, f
  <2>. QED
    BY <1>7, <1>8, FS_Bijection DEF ExistsBijection
<1>10. Cardinality(C) = Cardinality(A) + Cardinality(D) - Cardinality({})
  <2>. HIDE DEF A, B, C, D, f
  <2>. QED
    BY <1>3, <1>8, <1>9, FS_Union
<1>. QED
  <2>. HIDE DEF A, B, C, D, f
  <2>1. Cardinality(C) = Cardinality(A) + Cardinality(B)
    BY <1>8, <1>9, <1>10, FS_EmptySet
  <2>. QED
    BY <2>1 DEF Count, A, B, C

(* Counting in what is flattened, list by list.                             *)
LEMMA CountFlatten ==
  ASSUME NEW S, NEW ss \in Seq(Seq(S)), NEW x, NEW sum,
         sum[0] = 0,
         \A n \in Nat : n < Len(ss) => sum[n + 1] = sum[n] + Count(x, ss[n + 1])
  PROVE  Count(x, FlattenSeq(ss)) = sum[Len(ss)]
<1>. DEFINE P == {n \in Nat : n <= Len(ss) => Count(x, FlattenSeq(SubSeq(ss, 1, n))) = sum[n]}
<1>1. 0 \in P
  <2>1. FlattenSeq(<< >>) = << >>
    BY DEF FlattenSeq
  <2>2. SubSeq(ss, 1, 0) = << >>
    BY WholePrefix
  <2>. QED
    BY <2>1, <2>2, CountSmall
<1>2. ASSUME NEW n \in Nat, n \in P PROVE n + 1 \in P
  <2>. SUFFICES ASSUME n + 1 <= Len(ss)
                PROVE  Count(x, FlattenSeq(SubSeq(ss, 1, n + 1))) = sum[n + 1]
    OBVIOUS
  <2>1. n < Len(ss) /\ n <= Len(ss)
    BY WholePrefix
  <2>2. Count(x, FlattenSeq(SubSeq(ss, 1, n))) = sum[n]
    BY <1>2, <2>1
  <2>3. /\ FlattenSeq(SubSeq(ss, 1, n)) \in Seq(S) /\ ss[n + 1] \in Seq(S)
        /\ FlattenSeq(SubSeq(ss, 1, n + 1)) = FlattenSeq(SubSeq(ss, 1, n)) \o ss[n + 1]
    BY <2>1, FlattenPrefix, FlattenTyped
  <2>4. Count(x, FlattenSeq(SubSeq(ss, 1, n + 1)))
          = Count(x, FlattenSeq(SubSeq(ss, 1, n))) + Count(x, ss[n + 1])
    <3>. DEFINE u == FlattenSeq(SubSeq(ss, 1, n))
    <3>1. u \in Seq(S) /\ FlattenSeq(SubSeq(ss, 1, n + 1)) = u \o ss[n + 1]
      BY <2>3
    <3>. HIDE DEF u
    <3>2. Count(x, u \o ss[n + 1]) = Count(x, u) + Count(x, ss[n + 1])
      BY <2>3, <3>1, CountConcat
    <3>. QED
      BY <3>1, <3>2 DEF u
  <2>. QED
    BY <2>1, <2>2, <2>4
<1>3. \A n \in Nat : n \in P
  <2>. HIDE DEF P
  <2>. QED
    BY <1>1, <1>2, Induction
<1>4. Len(ss) \in Nat /\ Len(ss) <= Len(ss) /\ SubSeq(ss, 1, Len(ss)) = ss
  BY WholePrefix
<1>. QED
  BY <1>3, <1>4
------------------------------------------------------------------------------
(* Lists with the same values as often are the same bag.                    *)
LEMMA SameBag ==
  ASSUME NEW S, NEW s \in Seq(S), NEW t \in Seq(S), \A x \in S : Count(x, s) = Count(x, t)
  PROVE  BagOf(s) = BagOf(t)
<1>1. ToSet(s) \subseteq S /\ ToSet(t) \subseteq S
  BY DEF ToSet
<1>2. \A x \in S : x \in ToSet(s) <=> x \in ToSet(t)
  <2>. TAKE x \in S
  <2>1. Count(x, s) = 0 <=> x \notin ToSet(s)
    BY CountTyped
  <2>2. Count(x, t) = 0 <=> x \notin ToSet(t)
    BY CountTyped
  <2>. QED
    BY <2>1, <2>2
<1>3. ToSet(s) = ToSet(t)
  BY <1>1, <1>2
<1>4. BagOf(s) = [x \in ToSet(s) |-> Count(x, s)] /\ BagOf(t) = [x \in ToSet(t) |-> Count(x, t)]
  BY DEF BagOf, Count
<1>. QED
  BY <1>1, <1>3, <1>4

(* The rows with one key, by counting.                                      *)
LEMMA WithKeyCount ==
  ASSUME NEW table, NEW S, NEW rows \in Seq(S), NEW key
  PROVE  /\ WithKey(table, rows, key) \in Seq(S)
         /\ \A x \in S : Count(x, WithKey(table, rows, key))
                           = IF SortKey(table, x) = key THEN Count(x, rows) ELSE 0
<1>. DEFINE one(i) == IF SortKey(table, rows[i]) = key THEN <<rows[i]>> ELSE << >>
            ss == [i \in DOMAIN rows |-> one(i)]
<1>1. Len(rows) \in Nat /\ DOMAIN rows = 1..Len(rows)
  OBVIOUS
<1>2. \A i \in 1..Len(rows) : one(i) \in Seq(S)
  OBVIOUS
<1>3. ss \in Seq(Seq(S)) /\ Len(ss) = Len(rows)
  <2>. HIDE DEF one
  <2>. QED
    BY <1>1, <1>2
<1>4. WithKey(table, rows, key) = FlattenSeq(ss)
  BY DEF WithKey
<1>5. WithKey(table, rows, key) \in Seq(S)
  <2>. HIDE DEF ss
  <2>. QED
    BY <1>3, <1>4, FlattenTyped
<1>6. ASSUME NEW x \in S
      PROVE  Count(x, FlattenSeq(ss)) = IF SortKey(table, x) = key THEN Count(x, rows) ELSE 0
  <2>. DEFINE sum == [n \in Nat |-> IF SortKey(table, x) = key
                                    THEN Count(x, SubSeq(rows, 1, n)) ELSE 0]
  <2>1. sum[0] = 0
    BY WholePrefix, CountSmall
  <2>2. ASSUME NEW n \in Nat, n < Len(ss) PROVE sum[n + 1] = sum[n] + Count(x, ss[n + 1])
    <3>1. n + 1 \in 1..Len(rows) /\ n < Len(rows)
      BY <1>1, <1>3, <2>2
    <3>2. ss[n + 1] = one(n + 1) /\ rows[n + 1] \in S
      BY <1>1, <3>1
    <3>3. /\ SubSeq(rows, 1, n) \in Seq(S) /\ <<rows[n + 1]>> \in Seq(S)
          /\ SubSeq(rows, 1, n + 1) = SubSeq(rows, 1, n) \o <<rows[n + 1]>>
      BY <1>1, <3>1
    <3>4. Count(x, SubSeq(rows, 1, n + 1))
            = Count(x, SubSeq(rows, 1, n)) + Count(x, <<rows[n + 1]>>)
      BY <3>3, CountConcat
    <3>5. Count(x, SubSeq(rows, 1, n)) \in Nat
      BY <3>3, CountTyped
    <3>6. CASE SortKey(table, x) = key
      <4>1. Count(x, ss[n + 1]) = Count(x, <<rows[n + 1]>>)
        BY <3>2, <3>6, CountSmall
      <4>. QED
        BY <3>4, <3>6, <4>1
    <3>7. CASE SortKey(table, x) # key
      <4>1. Count(x, ss[n + 1]) = 0
        <5>1. CASE SortKey(table, rows[n + 1]) = key
          <6>1. rows[n + 1] # x
            BY <3>7, <5>1
          <6>2. ss[n + 1] = <<rows[n + 1]>>
            BY <3>2, <5>1
          <6>3. Count(x, <<rows[n + 1]>>) = 0
            BY <6>1, CountSmall
          <6>. HIDE DEF ss
          <6>. QED
            BY <6>2, <6>3
        <5>2. CASE SortKey(table, rows[n + 1]) # key
          BY <3>2, <5>2, CountSmall
        <5>. QED
          BY <5>1, <5>2
      <4>. QED
        BY <3>7, <4>1
    <3>. QED
      BY <3>6, <3>7
  <2>. HIDE DEF ss, sum
  <2>3. Count(x, FlattenSeq(ss)) = sum[Len(ss)]
    BY <1>3, <2>1, <2>2, CountFlatten
  <2>4. sum[Len(ss)] = IF SortKey(table, x) = key THEN Count(x, rows) ELSE 0
    BY <1>1, <1>3, WholePrefix DEF sum
  <2>. QED
    BY <2>3, <2>4
<1>. QED
  BY <1>4, <1>5, <1>6

(* Finitely many numbers have a largest one, the one with the fewest above  *)
(* it.                                                                      *)
LEMMA LargestPosition ==
  ASSUME NEW S \in SUBSET Nat, IsFiniteSet(S), S # {}
  PROVE  Max(S) \in S /\ \A s \in S : s <= Max(S)
<1>. DEFINE Above(r) == {s \in S : s > r}
            Counts == {Cardinality(Above(r)) : r \in S}
<1>1. \A r \in S : IsFiniteSet(Above(r)) /\ Cardinality(Above(r)) \in Nat
  BY FS_Subset, FS_CardinalityType
<1>2. Counts \subseteq Nat /\ Counts # {}
  BY <1>1
<1>3. PICK n \in Counts : \A k \in Counts : ~(<<k, n>> \in OpToRel(<, Nat))
  <2>. HIDE DEF Counts
  <2>. QED
    BY <1>2, NatLessThanWellFounded, WFMin
<1>4. \A k \in Counts : ~(k < n)
  <2>1. \A k, l \in Nat : k < l => <<k, l>> \in OpToRel(<, Nat)
    BY DEF OpToRel
  <2>. HIDE DEF Counts
  <2>. QED
    BY <1>2, <1>3, <2>1
<1>5. PICK m \in S : n = Cardinality(Above(m))
  OBVIOUS
<1>6. ASSUME NEW s \in S, s > m PROVE FALSE
  <2>1. m \in Nat /\ s \in Nat /\ (\A x \in S : x \in Nat) /\ ~(s > s)
    OBVIOUS
  <2>2. \A x \in S : x > s => x > m
    BY <1>6, <2>1
  <2>3. Above(s) \in SUBSET Above(m) /\ s \in Above(m) /\ s \notin Above(s)
    BY <1>6, <2>1, <2>2
  <2>4. Cardinality(Above(s)) \in Counts
    OBVIOUS
  <2>. HIDE DEF Above, Counts
  <2>5. Cardinality(Above(s)) <= Cardinality(Above(m))
        /\ Cardinality(Above(s)) # Cardinality(Above(m))
    BY <1>1, <2>3, FS_Subset
  <2>. QED
    BY <1>1, <1>4, <1>5, <2>4, <2>5
<1>7. \A s \in S : m >= s
  BY <1>6
<1>8. Max(S) \in S /\ \A s \in S : Max(S) >= s
  BY <1>7 DEF Max
<1>. QED
  BY <1>8

(* A sort keeps the rows, each as often as it was.                          *)
LEMMA SortedKeeps ==
  ASSUME NEW table, NEW S, NEW rows \in Seq(S), \A r \in S : SortKey(table, r) \in Nat
  PROVE  Sorted(table, rows) \in Seq(S) /\ BagOf(Sorted(table, rows)) = BagOf(rows)
<1>. DEFINE keys == {0} \cup {SortKey(table, rows[i]) : i \in DOMAIN rows}
            most == Max(keys)
            bucket(k) == WithKey(table, rows, k - 1)
            ss == [k \in 1..most + 1 |-> bucket(k)]
<1>1. DOMAIN rows = 1..Len(rows) /\ Len(rows) \in Nat /\ \A i \in DOMAIN rows : rows[i] \in S
  OBVIOUS
<1>2. most \in Nat /\ \A i \in DOMAIN rows : SortKey(table, rows[i]) <= most
  <2>. DEFINE f == [i \in 0..Len(rows) |-> IF i = 0 THEN 0 ELSE SortKey(table, rows[i])]
  <2>1. f \in Surjection(0..Len(rows), keys)
    <3>1. \A i \in 0..Len(rows) : f[i] \in keys
      BY <1>1
    <3>2. \A k \in keys : \E i \in 0..Len(rows) : f[i] = k
      <4>. TAKE k \in keys
      <4>1. CASE k = 0
        <5>1. 0 \in 0..Len(rows) /\ f[0] = 0
          BY <1>1
        <5>. QED
          BY <4>1, <5>1
      <4>2. CASE k # 0
        <5>1. PICK i \in DOMAIN rows : k = SortKey(table, rows[i])
          BY <4>2
        <5>2. i \in 0..Len(rows) /\ i # 0
          BY <1>1
        <5>. QED
          BY <5>1, <5>2
      <4>. QED
        BY <4>1, <4>2
    <3>. HIDE DEF keys
    <3>. QED
      BY <3>1, <3>2 DEF Surjection
  <2>2. IsFiniteSet(keys)
    <3>. HIDE DEF keys, f
    <3>1. IsFiniteSet(0..Len(rows))
      BY <1>1, FS_Interval
    <3>. QED
      BY <2>1, <3>1, FS_Surjection
  <2>3. keys \in SUBSET Nat /\ keys # {}
    BY <1>1
  <2>4. most \in keys /\ \A k \in keys : k <= most
    <3>. HIDE DEF keys
    <3>. QED
      BY <2>2, <2>3, LargestPosition
  <2>5. \A i \in DOMAIN rows : SortKey(table, rows[i]) \in keys
    OBVIOUS
  <2>. HIDE DEF keys
  <2>. QED
    BY <2>3, <2>4, <2>5
<1>3. Sorted(table, rows) = FlattenSeq(ss)
  BY DEF Sorted
<1>. HIDE DEF most
<1>4. ss \in Seq(Seq(S)) /\ Len(ss) = most + 1
  <2>1. \A k \in 1..most + 1 : bucket(k) \in Seq(S)
    BY WithKeyCount
  <2>. HIDE DEF bucket
  <2>. QED
    BY <1>2, <2>1
<1>5. FlattenSeq(ss) \in Seq(S)
  <2>. HIDE DEF ss
  <2>. QED
    BY <1>4, FlattenTyped
<1>6. ASSUME NEW x \in S PROVE Count(x, FlattenSeq(ss)) = Count(x, rows)
  <2>. DEFINE sum == [n \in Nat |-> IF SortKey(table, x) < n THEN Count(x, rows) ELSE 0]
  <2>1. SortKey(table, x) \in Nat /\ Count(x, rows) \in Nat
    BY CountTyped
  <2>2. sum[0] = 0
    BY <2>1
  <2>3. ASSUME NEW n \in Nat, n < Len(ss) PROVE sum[n + 1] = sum[n] + Count(x, ss[n + 1])
    <3>1. n + 1 \in 1..most + 1 /\ (n + 1) - 1 = n
      BY <1>2, <1>4, <2>3
    <3>2. ss[n + 1] = bucket(n + 1)
      BY <3>1
    <3>3. Count(x, ss[n + 1]) = IF SortKey(table, x) = n THEN Count(x, rows) ELSE 0
      <4>1. bucket(n + 1) = WithKey(table, rows, n)
        BY <3>1
      <4>2. Count(x, WithKey(table, rows, n))
              = IF SortKey(table, x) = n THEN Count(x, rows) ELSE 0
        BY WithKeyCount
      <4>. HIDE DEF ss, bucket
      <4>. QED
        BY <3>2, <4>1, <4>2
    <3>4. sum[n + 1] = IF SortKey(table, x) < n + 1 THEN Count(x, rows) ELSE 0
      OBVIOUS
    <3>5. sum[n] = IF SortKey(table, x) < n THEN Count(x, rows) ELSE 0
      OBVIOUS
    <3>. HIDE DEF ss, sum
    <3>. QED
      BY <2>1, <3>3, <3>4, <3>5
  <2>4. sum[Len(ss)] = Count(x, rows)
    <3>1. CASE x \in ToSet(rows)
      <4>1. SortKey(table, x) <= most
        BY <1>2, <3>1 DEF ToSet
      <4>2. SortKey(table, x) < Len(ss)
        BY <1>2, <1>4, <2>1, <4>1
      <4>. HIDE DEF ss
      <4>. QED
        BY <1>2, <1>4, <4>2
    <3>2. CASE x \notin ToSet(rows)
      <4>1. Count(x, rows) = 0
        BY <3>2, CountTyped
      <4>. HIDE DEF ss
      <4>. QED
        BY <1>2, <1>4, <4>1
    <3>. QED
      BY <3>1, <3>2
  <2>. HIDE DEF ss, sum
  <2>. QED
    BY <1>4, <2>2, <2>3, <2>4, CountFlatten
<1>7. BagOf(FlattenSeq(ss)) = BagOf(rows)
  <2>. HIDE DEF ss
  <2>. QED
    BY <1>5, <1>6, SameBag
<1>. QED
  BY <1>3, <1>5, <1>7

(* Finitely many numbers can be put in order: each has its place by how     *)
(* many there are up to it.                                                 *)
LEMMA AscendingIs ==
  ASSUME NEW S \in SUBSET Nat, IsFiniteSet(S)
  PROVE  /\ Cardinality(S) \in Nat
         /\ Ascending(S) \in [1..Cardinality(S) -> S]
         /\ ToSet(Ascending(S)) = S
<1>. DEFINE n == Cardinality(S)
            UpTo(x) == {y \in S : y <= x}
            rank == [x \in S |-> Cardinality(UpTo(x))]
            Ordered(s) == \A m, k \in DOMAIN s : m < k => s[m] < s[k]
<1>1. n \in Nat /\ IsFiniteSet(1..n) /\ Cardinality(1..n) = n
  <2>1. n \in Nat
    BY FS_CardinalityType
  <2>. HIDE DEF n
  <2>. QED
    BY <2>1, FS_Interval
<1>2. \A x \in S : x \in UpTo(x) /\ UpTo(x) \in SUBSET S
  OBVIOUS
<1>3. \A x \in S : rank[x] = Cardinality(UpTo(x)) /\ IsFiniteSet(UpTo(x)) /\ rank[x] \in 1..n
  <2>. TAKE x \in S
  <2>1. IsFiniteSet(UpTo(x)) /\ Cardinality(UpTo(x)) \in Nat /\ Cardinality(UpTo(x)) <= n
    <3>. HIDE DEF UpTo
    <3>. QED
      BY <1>2, FS_Subset, FS_CardinalityType
  <2>2. Cardinality(UpTo(x)) # 0
    <3>. HIDE DEF UpTo
    <3>. QED
      BY <1>2, <2>1, FS_EmptySet
  <2>3. rank[x] = Cardinality(UpTo(x))
    OBVIOUS
  <2>. HIDE DEF UpTo, rank
  <2>. QED
    BY <1>1, <2>1, <2>2, <2>3
<1>4. \A x, y \in S : x < y => rank[x] < rank[y]
  <2>. TAKE x, y \in S
  <2>. HAVE x < y
  <2>1. UpTo(x) \in SUBSET UpTo(y) /\ y \in UpTo(y) /\ y \notin UpTo(x)
    <3>1. x \in Nat /\ y \in Nat /\ \A z \in S : z \in Nat
      OBVIOUS
    <3>2. \A z \in S : z <= x => z <= y
      BY <3>1
    <3>3. UpTo(x) \in SUBSET UpTo(y)
      BY <3>2
    <3>4. y \in UpTo(y) /\ y \notin UpTo(x)
      BY <3>1
    <3>. QED
      BY <3>3, <3>4
  <2>. HIDE DEF UpTo, rank
  <2>2. Cardinality(UpTo(x)) <= Cardinality(UpTo(y)) /\ Cardinality(UpTo(x)) # Cardinality(UpTo(y))
    BY <1>3, <2>1, FS_Subset
  <2>. QED
    BY <1>3, <2>2
<1>5. rank \in Injection(S, 1..n)
  <2>1. rank \in [S -> 1..n]
    <3>1. \A x \in S : Cardinality(UpTo(x)) \in 1..n
      BY <1>3
    <3>. HIDE DEF UpTo
    <3>. QED
      BY <3>1
  <2>2. \A x, y \in S : rank[x] = rank[y] => x = y
    <3>1. \A x, y \in S : x < y \/ y < x \/ x = y
      OBVIOUS
    <3>2. \A x \in S : rank[x] \in Nat
      <4>. HIDE DEF rank, n, UpTo
      <4>. QED
        BY <1>1, <1>3
    <3>. HIDE DEF rank
    <3>. QED
      BY <1>4, <3>1, <3>2
  <2>. HIDE DEF rank
  <2>. QED
    BY <2>1, <2>2 DEF Injection, IsInjective
<1>6. \A k \in 1..n : \E x \in S : rank[x] = k
  <2>. HIDE DEF rank
  <2>1. rank \in Surjection(S, 1..n)
    BY <1>1, <1>5, FS_Injection
  <2>. QED
    BY <2>1 DEF Surjection
<1>7. \E s \in [1..n -> S] : Ordered(s)
  <2>. DEFINE s == [k \in 1..n |-> CHOOSE x \in S : rank[x] = k]
  <2>1. \A k \in 1..n : s[k] \in S /\ rank[s[k]] = k
    <3>. HIDE DEF rank
    <3>. QED
      BY <1>6
  <2>2. s \in [1..n -> S]
    <3>. HIDE DEF rank
    <3>. QED
      BY <2>1
  <2>3. ASSUME NEW m \in 1..n, NEW k \in 1..n, m < k PROVE s[m] < s[k]
    <3>1. s[m] \in Nat /\ s[k] \in Nat /\ s[m] \in S /\ s[k] \in S
      BY <2>1
    <3>2. ~(s[k] < s[m]) /\ s[k] # s[m]
      <4>1. rank[s[m]] = m /\ rank[s[k]] = k /\ ~(k < m) /\ k # m
        <5>1. m \in Int /\ k \in Int
          OBVIOUS
        <5>2. ~(k < m) /\ k # m
          BY <2>3, <5>1
        <5>. HIDE DEF rank, s
        <5>. QED
          BY <2>1, <5>2
      <4>. HIDE DEF rank, s, n
      <4>. QED
        BY <1>4, <3>1, <4>1
    <3>. HIDE DEF s
    <3>. QED
      BY <3>1, <3>2
  <2>4. DOMAIN s = 1..n
    OBVIOUS
  <2>. HIDE DEF s
  <2>5. Ordered(s)
    BY <2>3, <2>4
  <2>. QED
    BY <2>2, <2>5
<1>8. Ascending(S) \in [1..n -> S] /\ Ordered(Ascending(S))
  BY <1>7 DEF Ascending
<1>9. Ascending(S) \in Injection(1..n, S)
  <2>. DEFINE a == Ascending(S)
  <2>1. a \in [1..n -> S] /\ DOMAIN a = 1..n /\ Ordered(a)
    BY <1>8
  <2>. HIDE DEF a
  <2>2. \A m, k \in 1..n : a[m] \in Nat /\ (m < k => a[m] < a[k])
    BY <2>1
  <2>3. \A m, k \in 1..n : a[m] = a[k] => m = k
    BY <1>1, <2>2
  <2>. QED
    BY <2>1, <2>3 DEF Injection, IsInjective, a
<1>10. Ascending(S) \in Surjection(1..n, S)
  BY <1>1, <1>9, FS_Injection
<1>. HIDE DEF n
<1>11. \A x \in S : \E m \in 1..n : Ascending(S)[m] = x
  BY <1>10 DEF Surjection
<1>12. DOMAIN Ascending(S) = 1..n
  BY <1>8
<1>13. ToSet(Ascending(S)) = S
  BY <1>8, <1>11, <1>12 DEF ToSet
<1>. QED
  BY <1>1, <1>8, <1>13 DEF n

------------------------------------------------------------------------------
DatasetNames == {"papers", "citations", "paper-ids"}

LEMMA DatasetsAre ==
  ToSet(Datasets) = DatasetNames
<1>1. DOMAIN Datasets = 1..3
  BY DEF Datasets
<1>2. ToSet(Datasets) = {Datasets[1], Datasets[2], Datasets[3]}
  BY <1>1 DEF ToSet
<1>. QED
  BY <1>2 DEF Datasets, DatasetNames

(* The rows that a table can have.                                          *)
AuthorRows == UNION {ToSet(Authors(p)) : p \in RowsOf("papers")}
RowsIn(t) ==
  CASE t = "citations" -> RowsOf("citations")
    [] t = "paper_ids" -> RowsOf("paper-ids")
    [] t = "paper_authors" -> AuthorRows
    [] OTHER -> CorpusRows

(* What the statements of a dataset are: they fill the tables that a load   *)
(* empties first.                                                           *)
StatementsFor(d) == UNION {[table : {t}, rows : Seq(RowsIn(t))] : t \in ResetTables(d)}

LEMMA ListTyped ==
  ASSUME NEW S, NEW n \in Nat, NEW f, f = [i \in 1..n |-> f[i]], \A i \in 1..n : f[i] \in S
  PROVE  f \in Seq(S)
<1>1. f \in [1..n -> S]
  OBVIOUS
<1>. QED
  BY <1>1, SeqDef

(* The rows of the lists of a paper.                                        *)
LEMMA PaperRows ==
  ASSUME NEW p \in RowsOf("papers")
  PROVE  Authors(p) \in Seq(AuthorRows) /\ Externals(p) \in Seq(CorpusRows)
<1>1. /\ p.authors \in Seq(ToSet(p.authors)) /\ p.externals \in Seq(ToSet(p.externals))
  BY DatasetAssumption
<1>2. /\ Len(p.authors) \in Nat /\ DOMAIN p.authors = 1..Len(p.authors)
      /\ Len(p.externals) \in Nat /\ DOMAIN p.externals = 1..Len(p.externals)
  BY <1>1
<1>3. ToSet(Authors(p)) \subseteq AuthorRows /\ ToSet(Externals(p)) \subseteq CorpusRows
  <2>1. ToSet(Authors(p)) \subseteq AuthorRows /\ ToSet(Externals(p)) \subseteq ListRows
    BY DEF ListRows, AuthorRows
  <2>2. ListRows \subseteq CorpusRows
    BY DEF CorpusRows
  <2>. QED
    BY <2>1, <2>2
<1>4. /\ DOMAIN Authors(p) = 1..Len(p.authors)
      /\ Authors(p) = [n \in 1..Len(p.authors) |-> Authors(p)[n]]
  BY <1>2 DEF Authors
<1>5. /\ DOMAIN Externals(p) = 1..Len(p.externals)
      /\ Externals(p) = [n \in 1..Len(p.externals) |-> Externals(p)[n]]
  BY <1>2 DEF Externals
<1>6. \A n \in 1..Len(p.authors) : Authors(p)[n] \in AuthorRows
  BY <1>3, <1>4 DEF ToSet
<1>7. \A n \in 1..Len(p.externals) : Externals(p)[n] \in CorpusRows
  BY <1>3, <1>5 DEF ToSet
<1>. QED
  BY <1>2, <1>4, <1>5, <1>6, <1>7, ListTyped

LEMMA RowsAreCorpusRows ==
  ASSUME NEW d \in DatasetNames
  PROVE  RowsOf(d) \subseteq CorpusRows
  BY DatasetsAre DEF CorpusRows

LEMMA RowsInAre ==
  ASSUME NEW t
  PROVE  RowsIn(t) \subseteq CorpusRows /\ Seq(RowsIn(t)) \subseteq Seq(CorpusRows)
<1>1. AuthorRows \subseteq CorpusRows
  <2>1. AuthorRows \subseteq ListRows
    BY DEF AuthorRows, ListRows
  <2>. QED
    BY <2>1 DEF CorpusRows
<1>2. RowsIn(t) \subseteq CorpusRows
  <2>1. RowsOf("citations") \subseteq CorpusRows /\ RowsOf("paper-ids") \subseteq CorpusRows
    BY RowsAreCorpusRows DEF DatasetNames
  <2>. QED
    BY <1>1, <2>1 DEF RowsIn
<1>. QED
  BY <1>2, SeqMonotonic

(* The sort finds a number in each row of the tables it reads.              *)
LEMMA KeysAreNumbers ==
  ASSUME NEW n \in DOMAIN Optimizations, NEW row \in RowsIn(Optimizations[n].source)
  PROVE  SortKey(Optimizations[n].table, row) \in Nat
<1>1. n \in 1..6
  BY DEF Optimizations
<1>2. \A a \in AuthorRows : a.corpusid \in Nat
  <2>. TAKE a \in AuthorRows
  <2>1. PICK p \in RowsOf("papers") : a \in ToSet(Authors(p))
    BY DEF AuthorRows
  <2>2. PICK i \in DOMAIN p.authors : a = Authors(p)[i]
    BY <2>1 DEF ToSet, Authors
  <2>3. a.corpusid = p.corpusid
    BY <2>2 DEF Authors
  <2>. QED
    BY <2>3, DatasetAssumption
<1>3. CASE n = 1
  BY <1>3, DatasetAssumption DEF Optimizations, RowsIn, SortKey
<1>4. CASE n = 2
  BY <1>4, DatasetAssumption DEF Optimizations, RowsIn, SortKey
<1>5. CASE n = 3
  BY <1>5 DEF Optimizations, SortKey
<1>6. CASE n = 4
  BY <1>6, DatasetAssumption DEF Optimizations, RowsIn, SortKey
<1>7. CASE n = 5
  BY <1>7, <1>2 DEF Optimizations, RowsIn, SortKey
<1>8. CASE n = 6
  BY <1>8 DEF Optimizations, SortKey
<1>. QED
  BY <1>1, <1>3, <1>4, <1>5, <1>6, <1>7, <1>8

LEMMA StatementIs ==
  ASSUME NEW d, NEW t \in ResetTables(d), NEW rows \in Seq(RowsIn(t))
  PROVE  [table |-> t, rows |-> rows] \in StatementsFor(d)
  BY DEF StatementsFor

(* The statements of a shard.                                               *)
LEMMA StatementsTyped ==
  ASSUME NEW d \in DatasetNames, NEW rows \in Seq(RowsOf(d))
  PROVE  Statements(d, rows) \in Seq(StatementsFor(d))
<1>1. rows \in Seq(CorpusRows)
  BY RowsAreCorpusRows, SeqMonotonic
<1>2. CASE d = "papers"
  <2>1. DOMAIN rows = 1..Len(rows) /\ Len(rows) \in Nat /\ \A i \in DOMAIN rows : rows[i] \in RowsOf("papers")
    BY <1>2
  <2>. DEFINE as == [i \in DOMAIN rows |-> Authors(rows[i])]
              es == [i \in DOMAIN rows |-> Externals(rows[i])]
  <2>2. as \in Seq(Seq(AuthorRows)) /\ es \in Seq(Seq(CorpusRows))
    <3>1. \A i \in DOMAIN rows : Authors(rows[i]) \in Seq(AuthorRows)
      BY <2>1, PaperRows
    <3>2. \A i \in DOMAIN rows : Externals(rows[i]) \in Seq(CorpusRows)
      BY <2>1, PaperRows
    <3>. QED
      BY <2>1, <3>1, <3>2
  <2>. HIDE DEF as, es
  <2>3. FlattenSeq(as) \in Seq(AuthorRows) /\ FlattenSeq(es) \in Seq(CorpusRows)
    BY <2>2, FlattenTyped
  <2>4. Statements(d, rows) = <<[table |-> "papers", rows |-> rows],
                                [table |-> "paper_authors", rows |-> FlattenSeq(as)],
                                [table |-> "paper_external_ids", rows |-> FlattenSeq(es)]>>
    BY <1>2 DEF Statements, as, es
  <2>5. /\ ResetTables(d) = {"papers", "paper_authors", "paper_external_ids"}
        /\ RowsIn("papers") = CorpusRows /\ RowsIn("paper_authors") = AuthorRows
        /\ RowsIn("paper_external_ids") = CorpusRows
    BY <1>2 DEF ResetTables, RowsIn
  <2>6. /\ [table |-> "papers", rows |-> rows] \in StatementsFor(d)
        /\ [table |-> "paper_authors", rows |-> FlattenSeq(as)] \in StatementsFor(d)
        /\ [table |-> "paper_external_ids", rows |-> FlattenSeq(es)] \in StatementsFor(d)
    BY <1>1, <1>2, <2>3, <2>5, StatementIs
  <2>. QED
    BY <2>4, <2>6
<1>3. CASE d = "citations"
  <2>1. Statements(d, rows) = <<[table |-> "citations", rows |-> rows]>>
    BY <1>3 DEF Statements
  <2>2. [table |-> "citations", rows |-> rows] \in StatementsFor(d)
    BY <1>3, StatementIs DEF ResetTables, RowsIn
  <2>. QED
    BY <2>1, <2>2
<1>4. CASE d = "paper-ids"
  <2>1. Statements(d, rows) = <<[table |-> "paper_ids", rows |-> rows]>>
    BY <1>4 DEF Statements
  <2>2. [table |-> "paper_ids", rows |-> rows] \in StatementsFor(d)
    BY <1>4, StatementIs DEF ResetTables, RowsIn
  <2>. QED
    BY <2>1, <2>2
<1>. QED
  BY <1>2, <1>3, <1>4 DEF DatasetNames

(* The statements of any shards of a dataset.                               *)
LEMMA AllStatementsTyped ==
  ASSUME NEW r \in Releases, NEW d \in DatasetNames, NEW shards \in Seq(ShardsOf(r, d))
  PROVE  AllStatements(d, r, shards) \in Seq(StatementsFor(d))
<1>. DEFINE of(n) == Statements(d, Published[r][d][shards[n]])
            ss == [n \in DOMAIN shards |-> of(n)]
<1>1. \A i \in ShardsOf(r, d) : Published[r][d][i] \in Seq(RowsOf(d))
  <2>1. Published[r][d] \in Seq(Seq(RowsOf(d)))
    BY DatasetAssumption, DatasetsAre
  <2>. QED
    BY <2>1 DEF ShardsOf
<1>2. \A n \in DOMAIN shards : of(n) \in Seq(StatementsFor(d))
  <2>. TAKE n \in DOMAIN shards
  <2>1. Published[r][d][shards[n]] \in Seq(RowsOf(d))
    BY <1>1
  <2>. QED
    BY <2>1, StatementsTyped
<1>3. ss \in Seq(Seq(StatementsFor(d)))
  <2>. HIDE DEF of
  <2>. QED
    BY <1>2
<1>4. AllStatements(d, r, shards) = FlattenSeq(ss)
  BY DEF AllStatements
<1>. HIDE DEF ss
<1>. QED
  BY <1>3, <1>4, FlattenTyped

(* What the statements add to a table, statement by statement.              *)
LEMMA RowsForPrefix ==
  ASSUME NEW d, NEW all \in Seq(StatementsFor(d)), NEW t, NEW n \in Nat
  PROVE  /\ RowsFor(t, SubSeq(all, 1, 0)) = << >>
         /\ RowsFor(t, all) \in Seq(CorpusRows)
         /\ n < Len(all) =>
              /\ RowsFor(t, SubSeq(all, 1, n)) \in Seq(CorpusRows)
              /\ RowsFor(t, SubSeq(all, 1, n + 1))
                   = RowsFor(t, SubSeq(all, 1, n))
                       \o (IF all[n + 1].table = t THEN all[n + 1].rows ELSE << >>)
<1>. DEFINE new(i) == IF all[i].table = t THEN all[i].rows ELSE << >>
            ss == [i \in DOMAIN all |-> new(i)]
<1>1. Len(all) \in Nat /\ DOMAIN all = 1..Len(all)
  OBVIOUS
<1>2. \A i \in DOMAIN all : new(i) \in Seq(CorpusRows)
  <2>1. \A i \in DOMAIN all : all[i].rows \in Seq(RowsIn(all[i].table))
    BY DEF StatementsFor
  <2>2. \A i \in DOMAIN all : all[i].rows \in Seq(CorpusRows)
    BY <2>1, RowsInAre
  <2>. QED
    BY <2>2
<1>3. ss \in Seq(Seq(CorpusRows)) /\ Len(ss) = Len(all)
  <2>. HIDE DEF new
  <2>. QED
    BY <1>1, <1>2
<1>4. RowsFor(t, all) = FlattenSeq(ss)
  BY DEF RowsFor
<1>5. ASSUME NEW m \in 0..Len(all)
      PROVE  RowsFor(t, SubSeq(all, 1, m)) = FlattenSeq(SubSeq(ss, 1, m))
  <2>. DEFINE pre == SubSeq(all, 1, m)
              newPre(i) == IF pre[i].table = t THEN pre[i].rows ELSE << >>
              qq == [i \in DOMAIN pre |-> newPre(i)]
  <2>1. DOMAIN pre = 1..m /\ \A i \in 1..m : pre[i] = all[i]
    BY <1>1
  <2>2. SubSeq(ss, 1, m) = [i \in 1..m |-> new(i)]
    <3>. HIDE DEF new
    <3>. QED
      BY <1>1, <1>3
  <2>3. \A i \in 1..m : newPre(i) = new(i)
    <3>. HIDE DEF pre
    <3>. QED
      BY <2>1
  <2>4. qq = [i \in 1..m |-> new(i)]
    <3>. HIDE DEF pre, new, newPre
    <3>. QED
      BY <2>1, <2>3
  <2>5. RowsFor(t, pre) = FlattenSeq(qq)
    BY DEF RowsFor
  <2>. QED
    BY <2>2, <2>4, <2>5
<1>6. RowsFor(t, all) \in Seq(CorpusRows)
  <2>. HIDE DEF ss
  <2>. QED
    BY <1>3, <1>4, FlattenTyped
<1>7. RowsFor(t, SubSeq(all, 1, 0)) = << >>
  <2>1. DOMAIN SubSeq(all, 1, 0) = {}
    BY <1>1
  <2>2. RowsFor(t, SubSeq(all, 1, 0)) = FlattenSeq(SubSeq(ss, 1, 0))
    BY <1>1, <1>5
  <2>. HIDE DEF ss
  <2>3. SubSeq(ss, 1, 0) = << >>
    BY <1>3, WholePrefix
  <2>4. FlattenSeq(<< >>) = << >>
    BY DEF FlattenSeq
  <2>. QED
    BY <2>2, <2>3, <2>4
<1>8. ASSUME n < Len(all)
      PROVE  /\ RowsFor(t, SubSeq(all, 1, n)) \in Seq(CorpusRows)
             /\ RowsFor(t, SubSeq(all, 1, n + 1)) = RowsFor(t, SubSeq(all, 1, n)) \o new(n + 1)
  <2>1. n \in 0..Len(all) /\ n + 1 \in 0..Len(all) /\ n + 1 \in DOMAIN all /\ n < Len(ss)
    BY <1>1, <1>3, <1>8
  <2>2. ss[n + 1] = new(n + 1)
    BY <2>1
  <2>3. /\ RowsFor(t, SubSeq(all, 1, n)) = FlattenSeq(SubSeq(ss, 1, n))
        /\ RowsFor(t, SubSeq(all, 1, n + 1)) = FlattenSeq(SubSeq(ss, 1, n + 1))
    BY <1>5, <2>1
  <2>. HIDE DEF ss, new
  <2>4. /\ FlattenSeq(SubSeq(ss, 1, n)) \in Seq(CorpusRows)
        /\ FlattenSeq(SubSeq(ss, 1, n + 1)) = FlattenSeq(SubSeq(ss, 1, n)) \o ss[n + 1]
    BY <1>3, <2>1, FlattenPrefix, FlattenTyped
  <2>. QED
    BY <2>2, <2>3, <2>4
<1>. QED
  BY <1>6, <1>7, <1>8

------------------------------------------------------------------------------
ToDo == {<<"papers", "citations", "paper-ids">>, <<"citations", "paper-ids">>, <<"paper-ids">>}

(* What a command knows at each point.                                      *)
AtLinks == [at : {"links"}, release : Releases, todo : ToDo]
AtFetch == [at : {"fetch"}, release : Releases, todo : ToDo, shard : Nat,
            attempts : Nat, refreshed : BOOLEAN]
AtChoose == [at : {"choose"}, todo : ToDo, index : BOOLEAN]
AtLoad == [at : {"load"}, todo : ToDo, index : BOOLEAN, release : Releases,
           shards : Seq(Nat), next : Nat \ {0}]
AtIndex == [at : {"index"}]
AtSort == [at : {"sort"}, next : Nat \ {0}, existing : SUBSET (Tables \cup Copies)]
CliOK == cli \in {Idle} \cup AtLinks \cup AtFetch \cup AtChoose \cup AtLoad \cup AtIndex \cup AtSort

IsCorpus(c) == \E copies \in SUBSET Copies : c \in CorporaWith(copies)
HasTables == IsCorpus(db)

(* A load knows the shards of one release, each once.                       *)
ShardsKnown ==
  cli.at = "load" =>
    /\ cli.shards \in Seq(ShardsOf(cli.release, Head(cli.todo)))
    /\ cli.shards = Ascending(ToSet(cli.shards))
    /\ cli.next <= Len(Pending(cli)) + 1

(* While a dataset is loaded its tables hold what the statements so far     *)
(* have added, and it does not count as loaded.                             *)
LoadInv ==
  cli.at = "load" =>
    /\ HasTables
    /\ loaded[Head(cli.todo)] = None
    /\ \A t \in ResetTables(Head(cli.todo)) :
         db[t] = RowsFor(t, SubSeq(Pending(cli), 1, cli.next - 1))

(* A table has the rows of its dataset, which the sort has a key for.       *)
RowsKnown == HasTables => \A t \in Tables : db[t] \in Seq(RowsIn(t))

(* The tables that a sort has seen are still there.                         *)
SortInv ==
  cli.at = "sort" => (db = NoTables \/ HasTables) /\ cli.existing \subseteq DOMAIN db

(* All tables of a dataset that was loaded hold the rows of its shards.     *)
LoadedInv ==
  /\ DOMAIN loaded = DatasetNames
  /\ \A d \in DatasetNames : loaded[d] # None =>
       /\ HasTables
       /\ loaded[d][1] \in Releases
       /\ Ascending(loaded[d][2]) \in Seq(ShardsOf(loaded[d][1], d))
       /\ \A t \in ResetTables(d) :
            BagOf(db[t]) = BagOf(RowsFor(t, AllStatements(d, loaded[d][1], Ascending(loaded[d][2]))))

IInv ==
  DatasetTypeOK /\ ShardsWhole /\ CliOK /\ ShardsKnown /\ RowsKnown /\ LoadInv /\ SortInv /\ LoadedInv

------------------------------------------------------------------------------
LEMMA ToDoGoesOn ==
  ASSUME NEW todo \in ToDo
  PROVE  Head(todo) \in DatasetNames /\ (Tail(todo) = << >> \/ Tail(todo) \in ToDo)
<1>1. CASE todo = <<"papers", "citations", "paper-ids">>
  <2>1. Head(todo) = "papers" /\ Tail(todo) = <<"citations", "paper-ids">>
    BY <1>1
  <2>. QED
    BY <2>1 DEF ToDo, DatasetNames
<1>2. CASE todo = <<"citations", "paper-ids">>
  <2>1. Head(todo) = "citations" /\ Tail(todo) = <<"paper-ids">>
    BY <1>2
  <2>. QED
    BY <2>1 DEF ToDo, DatasetNames
<1>3. CASE todo = <<"paper-ids">>
  <2>1. Head(todo) = "paper-ids" /\ Tail(todo) = << >>
    BY <1>3
  <2>. QED
    BY <2>1 DEF DatasetNames
<1>. QED
  BY <1>1, <1>2, <1>3 DEF ToDo

LEMMA ToDoStarts == Datasets \in ToDo
  BY DEF Datasets, ToDo

(* Where a command is tells what it knows.                                  *)
LEMMA CliIs ==
  ASSUME CliOK
  PROVE  /\ cli.at = "links" => cli \in AtLinks
         /\ cli.at = "fetch" => cli \in AtFetch
         /\ cli.at = "choose" => cli \in AtChoose
         /\ cli.at = "load" => cli \in AtLoad
         /\ cli.at = "index" => cli = [at |-> "index"]
         /\ cli.at = "sort" => cli \in AtSort
  BY DEF CliOK, Idle, AtLinks, AtFetch, AtChoose, AtLoad, AtIndex, AtSort

LEMMA FetchingTyped ==
  ASSUME NEW c, c.release \in Releases, c.todo \in ToDo, NEW n \in Nat
  PROVE  Fetching(c, n) \in AtFetch
  BY DEF Fetching, AtFetch

LEMMA NextDownloadTyped ==
  ASSUME NEW c, c.release \in Releases, c.todo \in ToDo
  PROVE  /\ NextDownload(c) \in {Idle} \cup AtLinks
         /\ NextDownload(c).at \notin {"load", "sort"}
  BY ToDoGoesOn DEF NextDownload, Idle, AtLinks

LEMMA NextLoadTyped ==
  ASSUME NEW c, c.todo \in ToDo, c.index \in BOOLEAN
  PROVE  /\ NextLoad(c) \in {Idle} \cup AtChoose \cup AtIndex
         /\ NextLoad(c).at \notin {"load", "sort"}
  BY ToDoGoesOn DEF NextLoad, Idle, AtChoose, AtIndex

(* A corpus by its tables.                                                  *)
LEMMA CorpusIs ==
  ASSUME NEW c
  PROVE  IsCorpus(c) <=> /\ c = [t \in DOMAIN c |-> c[t]]
                         /\ Tables \subseteq DOMAIN c /\ DOMAIN c \subseteq Tables \cup Copies
                         /\ \A t \in DOMAIN c : c[t] \in Seq(CorpusRows)
<1>1. ASSUME IsCorpus(c)
      PROVE  /\ c = [t \in DOMAIN c |-> c[t]]
             /\ Tables \subseteq DOMAIN c /\ DOMAIN c \subseteq Tables \cup Copies
             /\ \A t \in DOMAIN c : c[t] \in Seq(CorpusRows)
  <2>1. PICK copies \in SUBSET Copies : c \in [Tables \cup copies -> Seq(CorpusRows)]
    BY <1>1 DEF IsCorpus, CorporaWith
  <2>. QED
    BY <2>1
<1>2. ASSUME /\ c = [t \in DOMAIN c |-> c[t]]
             /\ Tables \subseteq DOMAIN c /\ DOMAIN c \subseteq Tables \cup Copies
             /\ \A t \in DOMAIN c : c[t] \in Seq(CorpusRows)
      PROVE  IsCorpus(c)
  <2>. DEFINE copies == DOMAIN c \cap Copies
  <2>1. copies \in SUBSET Copies /\ DOMAIN c = Tables \cup copies
    BY <1>2
  <2>2. c \in [Tables \cup copies -> Seq(CorpusRows)]
    BY <1>2, <2>1
  <2>. QED
    BY <2>1, <2>2 DEF IsCorpus, CorporaWith
<1>. QED
  BY <1>1, <1>2

LEMMA CorpusIsNot == ~IsCorpus(NoFile) /\ ~IsCorpus(NoTables) /\ IsCorpus(CreateTables)
<1>1. ~IsCorpus(NoFile)
  BY DatasetAssumption DEF IsCorpus
<1>2. ~IsCorpus(NoTables)
  <2>1. DOMAIN NoTables = {} /\ "papers" \in Tables
    BY DEF NoTables, Tables
  <2>. QED
    BY <2>1, CorpusIs
<1>3. IsCorpus(CreateTables)
  <2>1. DOMAIN CreateTables = Tables /\ \A t \in Tables : CreateTables[t] = << >>
    BY DEF CreateTables
  <2>2. CreateTables = [t \in DOMAIN CreateTables |-> CreateTables[t]]
    BY DEF CreateTables
  <2>3. << >> \in Seq(CorpusRows)
    OBVIOUS
  <2>. HIDE DEF CreateTables
  <2>4. \A t \in DOMAIN CreateTables : CreateTables[t] \in Seq(CorpusRows)
    BY <2>1, <2>3
  <2>. QED
    BY <2>1, <2>2, <2>4, CorpusIs
<1>. QED
  BY <1>1, <1>2, <1>3

(* Each dataset has tables of its own, and no copy is one.                  *)
LEMMA TablesApart ==
  /\ Tables \cap Copies = {}
  /\ \A d \in DatasetNames : ResetTables(d) \subseteq Tables
  /\ \A d, e \in DatasetNames : d # e => ResetTables(d) \cap ResetTables(e) = {}
<1>1. /\ ResetTables("papers") = {"papers", "paper_authors", "paper_external_ids"}
      /\ ResetTables("citations") = {"citations"}
      /\ ResetTables("paper-ids") = {"paper_ids"}
  BY DEF ResetTables
<1>2. Tables \cap Copies = {}
  BY DEF Tables, Copies
<1>3. \A d \in DatasetNames : ResetTables(d) \subseteq Tables
  BY <1>1 DEF DatasetNames, Tables
<1>4. \A d, e \in DatasetNames : d # e => ResetTables(d) \cap ResetTables(e) = {}
  BY <1>1 DEF DatasetNames
<1>. QED
  BY <1>2, <1>3, <1>4

(* What connecting makes of the corpus.                                     *)
LEMMA CreatedIs ==
  ASSUME DatasetTypeOK
  PROVE  IsCorpus(Created) /\ (HasTables => Created = db)
<1>1. db \in {NoFile, NoTables} \/ IsCorpus(db)
  BY DEF DatasetTypeOK, IsCorpus
<1>. QED
  BY <1>1, CorpusIsNot DEF Created, HasTables

(* A load finds a release, and each of its shards once.                     *)
LEMMA FoundIs ==
  ASSUME DatasetTypeOK, NEW d \in DatasetNames, FindRelease(d) # None
  PROVE  /\ FindRelease(d) \in Releases
         /\ ShardsFound(d) \in Seq(ShardsOf(FindRelease(d), d))
         /\ ShardsFound(d) = Ascending(ToSet(ShardsFound(d)))
<1>. DEFINE having == {r \in Releases : \E i \in ShardsOf(r, d) : files[r][d][i] # "none"}
            r == FindRelease(d)
            S == {i \in ShardsOf(r, d) : files[r][d][i] # "none"}
<1>1. having # {} /\ r = Max(having)
  BY DEF FindRelease
<1>2. Max(having) \in having
  <2>1. having \in SUBSET Releases /\ Releases \subseteq Nat /\ IsFiniteSet(Releases)
    BY DatasetAssumption
  <2>. HIDE DEF having
  <2>2. having \in SUBSET Nat /\ IsFiniteSet(having)
    BY <2>1, FS_Subset
  <2>. QED
    BY <1>1, <2>2, LargestPosition
<1>3. r \in Releases
  BY <1>1, <1>2
<1>4. ShardsFound(d) = Ascending(S)
  BY DEF ShardsFound
<1>. HIDE DEF r, having
<1>5. \E n \in Nat : ShardsOf(r, d) = 1..n
  <2>1. Published[r][d] \in Seq(Seq(RowsOf(d)))
    BY <1>3, DatasetAssumption, DatasetsAre
  <2>. QED
    BY <2>1 DEF ShardsOf
<1>6. S \in SUBSET Nat /\ IsFiniteSet(S) /\ S \subseteq ShardsOf(r, d)
  <2>1. PICK n \in Nat : ShardsOf(r, d) = 1..n
    BY <1>5
  <2>2. IsFiniteSet(1..n) /\ 1..n \subseteq Nat /\ S \subseteq 1..n
    BY <2>1, FS_Interval
  <2>. HIDE DEF S
  <2>. QED
    BY <2>1, <2>2, FS_Subset
<1>. HIDE DEF S
<1>7. /\ Cardinality(S) \in Nat /\ Ascending(S) \in [1..Cardinality(S) -> S]
      /\ ToSet(Ascending(S)) = S
  BY <1>6, AscendingIs
<1>8. Ascending(S) \in [1..Cardinality(S) -> ShardsOf(r, d)]
  BY <1>6, <1>7
<1>9. Ascending(S) \in Seq(ShardsOf(r, d))
  BY <1>7, <1>8, SeqDef
<1>. QED
  BY <1>3, <1>4, <1>7, <1>9 DEF r

------------------------------------------------------------------------------
LEMMA InitEstablishes == Init => IInv
<1>. SUFFICES ASSUME Init PROVE IInv
  OBVIOUS
<1>1. /\ DOMAIN files = Releases
      /\ \A r \in Releases :
           /\ DOMAIN files[r] = ToSet(Datasets)
           /\ \A d \in ToSet(Datasets) : files[r][d] = [i \in ShardsOf(r, d) |-> "none"]
  BY DEF Init
<1>2. DatasetTypeOK /\ ShardsWhole
  <2>1. 0 \in 0..MaxCommands
    BY DatasetAssumption
  <2>2. db = NoFile /\ app = FALSE /\ reloaded = FALSE /\ commands = 0
    BY DEF Init
  <2>3. \A r \in Releases : \A d \in ToSet(Datasets) :
          /\ files[r][d] \in [ShardsOf(r, d) -> {"none", "part", "whole"}]
          /\ \A i \in ShardsOf(r, d) : files[r][d][i] # "part"
    <3>. TAKE r \in Releases
    <3>. TAKE d \in ToSet(Datasets)
    <3>1. files[r][d] = [i \in ShardsOf(r, d) |-> "none"]
      BY <1>1
    <3>. QED
      BY <3>1
  <2>4. ShardsWhole
    BY <2>3 DEF ShardsWhole
  <2>5. app \in BOOLEAN /\ reloaded \in BOOLEAN /\ commands \in 0..MaxCommands /\ ~app
        /\ db \in {NoFile, NoTables}
    BY <2>1, <2>2
  <2>6. /\ DOMAIN files = Releases
        /\ \A r \in Releases :
             /\ DOMAIN files[r] = ToSet(Datasets)
             /\ \A d \in ToSet(Datasets) :
                  files[r][d] \in [ShardsOf(r, d) -> {"none", "part", "whole"}]
    BY <1>1, <2>3
  <2>. QED
    BY <2>4, <2>5, <2>6 DEF DatasetTypeOK
<1>3. cli = Idle /\ cli.at = "idle" /\ db = NoFile
  BY DEF Init, Idle
<1>4. DOMAIN loaded = DatasetNames /\ \A d \in DatasetNames : loaded[d] = None
  BY DatasetsAre DEF Init
<1>5. ~HasTables
  BY <1>3, CorpusIsNot DEF HasTables
<1>. QED
  BY <1>2, <1>3, <1>4, <1>5 DEF IInv, CliOK, ShardsKnown, RowsKnown, LoadInv, SortInv, LoadedInv

(* A step that leaves the files alone.                                      *)
LEMMA StaysTyped ==
  ASSUME IInv, UNCHANGED files,
         db' \in {NoFile, NoTables} \/ IsCorpus(db'),
         app' \in BOOLEAN, reloaded' \in BOOLEAN, commands' \in 0..MaxCommands,
         app' => cli'.at \notin {"load", "sort"} /\ db' # NoFile
  PROVE  DatasetTypeOK' /\ ShardsWhole'
<1>1. ShardsWhole'
  BY DEF IInv, ShardsWhole
<1>2. /\ (DOMAIN files = Releases)'
      /\ (\A r \in Releases :
            /\ DOMAIN files[r] = ToSet(Datasets)
            /\ \A d \in ToSet(Datasets) :
                 files[r][d] \in [ShardsOf(r, d) -> {"none", "part", "whole"}])'
  BY DEF IInv, DatasetTypeOK
<1>3. (db \in {NoFile, NoTables} \/ \E copies \in SUBSET Copies : db \in CorporaWith(copies))'
  BY DEF IsCorpus
<1>. QED
  BY <1>1, <1>2, <1>3 DEF DatasetTypeOK, Connected

(* A step that leaves the corpus alone and does not begin to write it.      *)
LEMMA QuietKeeps ==
  ASSUME IInv, UNCHANGED <<db, loaded>>, cli'.at \notin {"load", "sort"}
  PROVE  ShardsKnown' /\ RowsKnown' /\ LoadInv' /\ SortInv' /\ LoadedInv'
<1>1. ShardsKnown' /\ LoadInv' /\ SortInv'
  BY DEF ShardsKnown, LoadInv, SortInv
<1>2. RowsKnown'
  BY DEF IInv, RowsKnown, HasTables
<1>3. LoadedInv'
  BY DEF IInv, LoadedInv, HasTables
<1>. QED
  BY <1>1, <1>2, <1>3

LEMMA QuietStep ==
  ASSUME IInv, UNCHANGED <<files, corpus, app>>, commands' \in 0..MaxCommands,
         cli'.at \notin {"load", "sort"},
         cli' \in {Idle} \cup AtLinks \cup AtFetch \cup AtChoose \cup AtIndex
  PROVE  IInv'
<1>1. CliOK'
  BY DEF CliOK
<1>2. /\ app' \in BOOLEAN /\ reloaded' \in BOOLEAN
      /\ db' \in {NoFile, NoTables} \/ IsCorpus(db')
      /\ app' => db' # NoFile
  BY DEF IInv, DatasetTypeOK, corpus, IsCorpus
<1>3. DatasetTypeOK' /\ ShardsWhole'
  BY <1>2, StaysTyped DEF corpus
<1>4. ShardsKnown' /\ RowsKnown' /\ LoadInv' /\ SortInv' /\ LoadedInv'
  BY QuietKeeps DEF corpus
<1>. QED
  BY <1>1, <1>3, <1>4 DEF IInv

(* The names of a command's steps.                                          *)
LEMMA AtKnown ==
  /\ Idle.at \notin {"load", "sort"}
  /\ \A c \in AtLinks \cup AtFetch \cup AtChoose \cup AtIndex : c.at \notin {"load", "sort"}
  BY DEF Idle, AtLinks, AtFetch, AtChoose, AtIndex

LEMMA DownloadSteps ==
  ASSUME IInv,
         \/ \E r \in Releases : Download(r)
         \/ GetLinks \/ SkipShard \/ FetchFails \/ LinkExpires \/ DownloadRaises \/ FinishDownload
  PROVE  IInv'
<1>. USE DEF IInv
<1>1. commands \in 0..MaxCommands /\ MaxCommands \in Nat
  BY DatasetAssumption DEF DatasetTypeOK
<1>2. ASSUME NEW r \in Releases, Download(r) PROVE IInv'
  <2>1. cli' \in AtLinks /\ UNCHANGED <<files, corpus, app>> /\ commands' \in 0..MaxCommands
    BY <1>1, <1>2, ToDoStarts DEF Download, AtLinks
  <2>. QED
    BY <2>1, AtKnown, QuietStep
<1>3. CASE GetLinks
  <2>1. cli \in AtLinks
    BY <1>3, CliIs DEF GetLinks
  <2>2. cli' \in AtFetch
    BY <1>3, <2>1, FetchingTyped DEF GetLinks, AtLinks
  <2>3. UNCHANGED <<files, corpus, app, commands>>
    BY <1>3 DEF GetLinks
  <2>. QED
    BY <1>1, <2>2, <2>3, AtKnown, QuietStep
<1>4. ASSUME SkipShard \/ FetchFails \/ LinkExpires PROVE IInv'
  <2>1. cli \in AtFetch
    BY <1>4, CliIs DEF SkipShard, FetchFails, LinkExpires, AtShard
  <2>2. /\ cli.release \in Releases /\ cli.todo \in ToDo /\ cli.shard \in Nat /\ cli.attempts \in Nat
        /\ cli.shard + 1 \in Nat /\ cli.attempts + 1 \in Nat
    BY <2>1 DEF AtFetch
  <2>3. Fetching(cli, cli.shard + 1) \in AtFetch
    BY <2>2, FetchingTyped
  <2>4. /\ [cli EXCEPT !.attempts = @ + 1] \in AtFetch
        /\ [cli EXCEPT !.refreshed = TRUE, !.attempts = 0] \in AtFetch
    BY <2>1, <2>2 DEF AtFetch
  <2>5. cli' \in AtFetch
    BY <1>4, <2>3, <2>4 DEF SkipShard, FetchFails, LinkExpires
  <2>6. UNCHANGED <<files, corpus, app, commands>>
    BY <1>4 DEF SkipShard, FetchFails, LinkExpires
  <2>. QED
    BY <1>1, <2>5, <2>6, AtKnown, QuietStep
<1>5. ASSUME DownloadRaises \/ FinishDownload PROVE IInv'
  <2>1. cli.release \in Releases /\ cli.todo \in ToDo
    BY <1>5, CliIs DEF DownloadRaises, FinishDownload, AtLinks, AtFetch
  <2>2. cli' = NextDownload(cli) /\ UNCHANGED <<files, corpus, app, commands>>
    BY <1>5 DEF DownloadRaises, FinishDownload
  <2>. QED
    BY <1>1, <2>1, <2>2, NextDownloadTyped, QuietStep
<1>. QED
  BY <1>2, <1>3, <1>4, <1>5

(* The shard that is fetched is whole when it has its name.                 *)
LEMMA FetchStep ==
  ASSUME IInv, FetchShard
  PROVE  IInv'
<1>. USE DEF IInv
<1>. DEFINE d == Head(cli.todo)
<1>1. cli \in AtFetch
  BY CliIs DEF FetchShard, AtShard
<1>2. cli.release \in Releases /\ cli.todo \in ToDo /\ cli.shard \in Nat /\ cli.shard + 1 \in Nat
  BY <1>1 DEF AtFetch
<1>3. d \in DatasetNames /\ d \in ToSet(Datasets) /\ cli.shard \in ShardsOf(cli.release, d)
  BY <1>2, ToDoGoesOn, DatasetsAre DEF FetchShard, AtShard
<1>4. cli' \in AtFetch
  BY <1>2, FetchingTyped DEF FetchShard
<1>5. UNCHANGED <<corpus, app, commands>>
  BY DEF FetchShard
<1>6. files' = [files EXCEPT ![cli.release][d][cli.shard] = "whole"]
  BY DEF FetchShard, Place
<1>. HIDE DEF d
<1>7. /\ DOMAIN files' = Releases
      /\ \A r \in Releases :
           /\ DOMAIN files'[r] = ToSet(Datasets)
           /\ \A e \in ToSet(Datasets) :
                files'[r][e] \in [ShardsOf(r, e) -> {"none", "part", "whole"}]
  <2>1. /\ DOMAIN files = Releases
        /\ \A r \in Releases :
             /\ DOMAIN files[r] = ToSet(Datasets)
             /\ \A e \in ToSet(Datasets) :
                  files[r][e] \in [ShardsOf(r, e) -> {"none", "part", "whole"}]
    BY DEF DatasetTypeOK
  <2>. QED
    BY <1>2, <1>3, <1>6, <2>1
<1>8. \A r \in Releases : \A e \in ToSet(Datasets) : \A i \in ShardsOf(r, e) :
        files'[r][e][i] \in {files[r][e][i], "whole"}
  BY <1>2, <1>3, <1>6 DEF DatasetTypeOK
<1>9. ShardsWhole'
  BY <1>8 DEF ShardsWhole
<1>10. DatasetTypeOK'
  <2>1. /\ db' \in {NoFile, NoTables} \/ \E copies \in SUBSET Copies : db' \in CorporaWith(copies)
        /\ app' \in BOOLEAN /\ reloaded' \in BOOLEAN /\ commands' \in 0..MaxCommands
        /\ app' => db' # NoFile
    BY <1>5 DEF corpus, DatasetTypeOK
  <2>2. ~Connected'
    BY <1>4, AtKnown DEF Connected
  <2>. QED
    BY <1>7, <2>1, <2>2 DEF DatasetTypeOK
<1>11. CliOK'
  BY <1>4 DEF CliOK
<1>12. ShardsKnown' /\ RowsKnown' /\ LoadInv' /\ SortInv' /\ LoadedInv'
  BY <1>4, <1>5, AtKnown, QuietKeeps DEF corpus
<1>. QED
  BY <1>9, <1>10, <1>11, <1>12

LEMMA IdleSteps ==
  ASSUME IInv,
         \/ \E index \in BOOLEAN : Ingest(index)
         \/ SkipDataset \/ LoadRaises \/ EndIndex \/ Kill
  PROVE  IInv'
<1>. USE DEF IInv
<1>1. commands \in 0..MaxCommands /\ MaxCommands \in Nat
  BY DatasetAssumption DEF DatasetTypeOK
<1>2. ASSUME NEW index \in BOOLEAN, Ingest(index) PROVE IInv'
  <2>1. cli' \in AtChoose /\ UNCHANGED <<files, corpus, app>> /\ commands' \in 0..MaxCommands
    BY <1>1, <1>2, ToDoStarts DEF Ingest, AtChoose
  <2>. QED
    BY <2>1, AtKnown, QuietStep
<1>3. ASSUME SkipDataset \/ LoadRaises PROVE IInv'
  <2>1. cli.at \in {"choose", "load"}
    BY <1>3 DEF SkipDataset, LoadRaises
  <2>2. cli.todo \in ToDo /\ cli.index \in BOOLEAN
    BY <2>1, CliIs DEF AtChoose, AtLoad
  <2>3. cli' = NextLoad(cli) /\ UNCHANGED <<files, corpus, app, commands>>
    BY <1>3 DEF SkipDataset, LoadRaises
  <2>. QED
    BY <1>1, <2>2, <2>3, NextLoadTyped, QuietStep
<1>4. ASSUME EndIndex \/ Kill PROVE IInv'
  <2>1. cli' = Idle /\ UNCHANGED <<files, corpus, app, commands>>
    BY <1>4 DEF EndIndex, Kill
  <2>. QED
    BY <1>1, <2>1, AtKnown, QuietStep
<1>. QED
  BY <1>2, <1>3, <1>4

LEMMA AppSteps ==
  ASSUME IInv, OpenApp \/ CloseApp
  PROVE  IInv'
<1>. USE DEF IInv
<1>1. UNCHANGED <<files, corpus, cli, commands>> /\ app' \in BOOLEAN
  BY DEF OpenApp, CloseApp
<1>2. app' => cli.at \notin {"load", "sort"} /\ db # NoFile
  BY DEF OpenApp, CloseApp, Connected
<1>3. DatasetTypeOK' /\ ShardsWhole'
  <2>1. /\ db' \in {NoFile, NoTables} \/ IsCorpus(db')
        /\ reloaded' \in BOOLEAN /\ commands' \in 0..MaxCommands
    BY <1>1 DEF corpus, DatasetTypeOK, IsCorpus
  <2>. QED
    BY <1>1, <1>2, <2>1, StaysTyped DEF corpus
<1>4. CliOK'
  BY <1>1 DEF CliOK
<1>5. UNCHANGED <<db, loaded, cli>>
  BY <1>1 DEF corpus
<1>6. ShardsKnown'
  BY <1>5 DEF ShardsKnown
<1>7. RowsKnown' /\ LoadInv' /\ SortInv' /\ LoadedInv'
  BY <1>5 DEF RowsKnown, LoadInv, SortInv, LoadedInv, HasTables, Pending
<1>. QED
  BY <1>3, <1>4, <1>6, <1>7

(* A load begins with the tables of its dataset empty.                      *)
LEMMA BeginLoadStep ==
  ASSUME IInv, BeginLoad
  PROVE  IInv'
<1>. USE DEF IInv
<1>. DEFINE d == Head(cli.todo)
            r == FindRelease(d)
            shards == ShardsFound(d)
<1>1. cli \in AtChoose /\ cli.todo \in ToDo /\ cli.index \in BOOLEAN /\ d \in DatasetNames
  BY CliIs, ToDoGoesOn DEF BeginLoad, AtChoose
<1>2. r # None /\ app = FALSE
  BY DEF BeginLoad, DatasetTypeOK
<1>3. /\ r \in Releases /\ shards \in Seq(ShardsOf(r, d)) /\ shards = Ascending(ToSet(shards))
  BY <1>1, <1>2, FoundIs
<1>4. /\ db' = [t \in DOMAIN Created |-> IF t \in ResetTables(d) THEN << >> ELSE Created[t]]
      /\ loaded' = [loaded EXCEPT ![d] = None]
      /\ reloaded' = (reloaded \/ (db # NoFile /\ CopyOf(d) \in DOMAIN db))
      /\ cli' = [at |-> "load", todo |-> cli.todo, index |-> cli.index,
                 release |-> r, shards |-> shards, next |-> 1]
      /\ UNCHANGED <<files, app, commands>>
  BY DEF BeginLoad
<1>. HIDE DEF d, r, shards
<1>5. /\ IsCorpus(Created) /\ (HasTables => Created = db)
      /\ Tables \subseteq DOMAIN Created /\ DOMAIN Created \subseteq Tables \cup Copies
      /\ \A t \in DOMAIN Created : Created[t] \in Seq(CorpusRows)
  BY CreatedIs, CorpusIs
<1>6. DOMAIN db' = DOMAIN Created /\ \A t \in DOMAIN Created :
        db'[t] = IF t \in ResetTables(d) THEN << >> ELSE Created[t]
  BY <1>4
<1>7. << >> \in Seq(CorpusRows) /\ \A t : << >> \in Seq(RowsIn(t))
  OBVIOUS
<1>8. IsCorpus(db')
  <2>1. db' = [t \in DOMAIN db' |-> db'[t]]
    BY <1>4
  <2>2. \A t \in DOMAIN db' : db'[t] \in Seq(CorpusRows)
    BY <1>5, <1>6, <1>7
  <2>. QED
    BY <1>5, <1>6, <2>1, <2>2, CorpusIs
<1>9. /\ cli'.at = "load" /\ cli'.todo = cli.todo /\ cli'.release = r /\ cli'.shards = shards
      /\ cli'.next = 1
  BY <1>4
<1>10. DatasetTypeOK' /\ ShardsWhole'
  <2>1. reloaded' \in BOOLEAN /\ commands' \in 0..MaxCommands /\ app' = FALSE
    BY <1>2, <1>4 DEF DatasetTypeOK
  <2>. QED
    BY <1>4, <1>8, <2>1, StaysTyped
<1>11. shards \in Seq(Nat)
  <2>1. Published[r][d] \in Seq(Seq(RowsOf(d)))
    BY <1>1, <1>3, DatasetAssumption, DatasetsAre
  <2>2. ShardsOf(r, d) \subseteq Nat
    BY <2>1 DEF ShardsOf
  <2>. QED
    BY <1>3, <2>2, SeqMonotonic
<1>12. CliOK'
  <2>1. cli' \in AtLoad
    BY <1>1, <1>3, <1>4, <1>11 DEF AtLoad
  <2>. QED
    BY <2>1 DEF CliOK
<1>13. Pending(cli') = AllStatements(d, r, shards) /\ Head(cli'.todo) = d
  BY <1>9 DEF Pending, d
<1>14. AllStatements(d, r, shards) \in Seq(StatementsFor(d))
  BY <1>1, <1>3, AllStatementsTyped
<1>15. ShardsKnown'
  <2>1. 1 <= Len(AllStatements(d, r, shards)) + 1
    BY <1>14
  <2>2. 1 <= Len(Pending(cli')) + 1
    BY <1>13, <2>1
  <2>. QED
    BY <1>3, <1>9, <1>13, <2>2 DEF ShardsKnown
<1>16. HasTables'
  BY <1>8 DEF HasTables
<1>17. d \in DOMAIN loaded /\ DOMAIN loaded = DatasetNames
  BY <1>1 DEF LoadedInv
<1>18. LoadInv'
  <2>1. \A t : RowsFor(t, SubSeq(Pending(cli'), 1, 1 - 1)) = << >>
    <3>1. \A t : RowsFor(t, SubSeq(AllStatements(d, r, shards), 1, 0)) = << >>
      BY <1>14, RowsForPrefix
    <3>. QED
      BY <1>13, <3>1
  <2>2. \A t \in ResetTables(d) : db'[t] = << >>
    BY <1>1, <1>5, <1>6, TablesApart
  <2>3. loaded'[d] = None
    BY <1>4, <1>17
  <2>. QED
    BY <1>9, <1>13, <1>16, <2>1, <2>2, <2>3 DEF LoadInv
<1>19. RowsKnown'
  <2>1. ASSUME NEW t \in Tables PROVE db'[t] \in Seq(RowsIn(t))
    <3>1. CASE t \in ResetTables(d)
      BY <1>5, <1>6, <1>7, <3>1
    <3>2. CASE t \notin ResetTables(d)
      <4>1. db'[t] = Created[t]
        BY <1>5, <1>6, <3>2
      <4>2. CASE HasTables
        BY <1>5, <4>1, <4>2 DEF RowsKnown
      <4>3. CASE ~HasTables
        <5>1. Created = CreateTables
          BY <4>3 DEF Created, DatasetTypeOK, HasTables, IsCorpus
        <5>. QED
          BY <1>7, <4>1, <5>1 DEF CreateTables
      <4>. QED
        BY <4>2, <4>3
    <3>. QED
      BY <3>1, <3>2
  <2>. QED
    BY <2>1 DEF RowsKnown
<1>20. SortInv'
  BY <1>9 DEF SortInv
<1>21. LoadedInv'
  <2>1. DOMAIN loaded' = DatasetNames
    BY <1>4, <1>17
  <2>2. ASSUME NEW e \in DatasetNames, loaded'[e] # None
        PROVE  /\ loaded[e] = loaded'[e] /\ loaded[e] # None
               /\ \A t \in ResetTables(e) : db'[t] = db[t]
    <3>1. e # d /\ loaded[e] = loaded'[e]
      BY <1>4, <1>17, <2>2
    <3>2. Created = db
      BY <1>5, <2>2, <3>1 DEF LoadedInv
    <3>3. \A t \in ResetTables(e) : t \notin ResetTables(d) /\ t \in DOMAIN Created
      BY <1>1, <1>5, <3>1, TablesApart
    <3>. QED
      BY <1>6, <2>2, <3>1, <3>2, <3>3
  <2>. QED
    BY <1>16, <2>1, <2>2 DEF LoadedInv
<1>. QED
  BY <1>10, <1>12, <1>15, <1>18, <1>19, <1>20, <1>21

(* A statement adds its rows after those of the ones before.                *)
LEMMA LoadStatementStep ==
  ASSUME IInv, LoadStatement
  PROVE  IInv'
<1>. USE DEF IInv
<1>. DEFINE d == Head(cli.todo)
            all == Pending(cli)
            s == all[cli.next]
<1>1. cli \in AtLoad /\ cli.at = "load" /\ cli.todo \in ToDo /\ cli.next \in Nat \ {0} /\ d \in DatasetNames
      /\ cli.release \in Releases
  BY CliIs, ToDoGoesOn DEF LoadStatement, AtLoad
<1>2. /\ cli.next <= Len(all)
      /\ db' = [db EXCEPT ![s.table] = @ \o s.rows]
      /\ cli' = [cli EXCEPT !.next = @ + 1]
      /\ UNCHANGED <<files, app, commands, loaded, reloaded>>
  BY DEF LoadStatement
<1>3. all \in Seq(StatementsFor(d)) /\ Len(all) \in Nat
  <2>1. cli.shards \in Seq(ShardsOf(cli.release, d))
    BY <1>1 DEF ShardsKnown
  <2>. QED
    BY <1>1, <2>1, AllStatementsTyped DEF Pending
<1>4. s.table \in ResetTables(d) /\ s.rows \in Seq(RowsIn(s.table)) /\ s.rows \in Seq(CorpusRows)
  <2>1. s \in StatementsFor(d)
    BY <1>1, <1>2, <1>3
  <2>2. s.table \in ResetTables(d) /\ s.rows \in Seq(RowsIn(s.table))
    BY <2>1 DEF StatementsFor
  <2>. QED
    BY <2>2, RowsInAre
<1>5. /\ cli'.at = "load" /\ cli'.todo = cli.todo /\ cli'.release = cli.release
      /\ cli'.shards = cli.shards /\ cli'.next = cli.next + 1
      /\ cli'.next \in Nat \ {0} /\ cli' \in AtLoad
  BY <1>1, <1>2 DEF AtLoad
<1>6. Pending(cli') = all /\ Head(cli'.todo) = d
  BY <1>5 DEF Pending
<1>7. /\ HasTables /\ loaded[d] = None
      /\ \A t \in ResetTables(d) : db[t] = RowsFor(t, SubSeq(all, 1, cli.next - 1))
  BY <1>1 DEF LoadInv
<1>8. /\ Tables \subseteq DOMAIN db /\ DOMAIN db \subseteq Tables \cup Copies
      /\ \A t \in DOMAIN db : db[t] \in Seq(CorpusRows)
      /\ db = [t \in DOMAIN db |-> db[t]]
  BY <1>7, CorpusIs DEF HasTables
<1>9. s.table \in Tables
  BY <1>1, <1>4, TablesApart
<1>. HIDE DEF s, all, d
<1>10. /\ DOMAIN db' = DOMAIN db
       /\ \A t \in DOMAIN db : db'[t] = IF t = s.table THEN db[t] \o s.rows ELSE db[t]
       /\ db' = [t \in DOMAIN db' |-> db'[t]]
  BY <1>2, <1>8, <1>9
<1>11. IsCorpus(db')
  <2>1. \A t \in DOMAIN db' : db'[t] \in Seq(CorpusRows)
    <3>. SUFFICES ASSUME NEW t \in DOMAIN db PROVE db'[t] \in Seq(CorpusRows)
      BY <1>10
    <3>1. db[t] \in Seq(CorpusRows)
      BY <1>8
    <3>2. db[t] \o s.rows \in Seq(CorpusRows)
      BY <1>4, <3>1, ConcatProperties
    <3>. QED
      BY <1>10, <3>1, <3>2
  <2>. QED
    BY <1>8, <1>10, <2>1, CorpusIs
<1>12. DatasetTypeOK' /\ ShardsWhole'
  <2>1. app = FALSE
    BY <1>1 DEF DatasetTypeOK, Connected
  <2>2. reloaded' \in BOOLEAN /\ commands' \in 0..MaxCommands /\ app' = FALSE
    BY <1>2, <2>1 DEF DatasetTypeOK
  <2>. QED
    BY <1>2, <1>11, <2>2, StaysTyped
<1>13. CliOK'
  BY <1>5 DEF CliOK
<1>14. ShardsKnown'
  <2>1. cli'.next <= Len(all) + 1
    BY <1>1, <1>2, <1>3, <1>5
  <2>2. /\ cli.shards \in Seq(ShardsOf(cli.release, Head(cli.todo)))
        /\ cli.shards = Ascending(ToSet(cli.shards))
    BY <1>1 DEF ShardsKnown
  <2>. QED
    BY <1>5, <1>6, <2>1, <2>2 DEF ShardsKnown
<1>15. HasTables'
  BY <1>11 DEF HasTables
<1>16. RowsKnown'
  <2>1. ASSUME NEW t \in Tables PROVE db'[t] \in Seq(RowsIn(t))
    <3>1. db[t] \in Seq(RowsIn(t)) /\ t \in DOMAIN db
      BY <1>7, <1>8 DEF RowsKnown
    <3>2. t = s.table => db[t] \o s.rows \in Seq(RowsIn(t))
      BY <1>4, <3>1, ConcatProperties
    <3>. QED
      BY <1>10, <3>1, <3>2
  <2>. QED
    BY <2>1 DEF RowsKnown
<1>17. LoadInv'
  <2>1. ASSUME NEW t \in ResetTables(d)
        PROVE  db'[t] = RowsFor(t, SubSeq(all, 1, cli'.next - 1))
    <3>. DEFINE n == cli.next - 1
                before == RowsFor(t, SubSeq(all, 1, n))
    <3>1. n \in Nat /\ n < Len(all) /\ n + 1 = cli.next /\ cli'.next - 1 = n + 1
      BY <1>1, <1>2, <1>3, <1>5
    <3>2. db[t] = before /\ t \in DOMAIN db
      BY <1>1, <1>7, <1>8, TablesApart
    <3>. HIDE DEF n
    <3>3. /\ before \in Seq(CorpusRows)
          /\ RowsFor(t, SubSeq(all, 1, n + 1))
               = before \o (IF all[n + 1].table = t THEN all[n + 1].rows ELSE << >>)
      BY <1>3, <3>1, RowsForPrefix
    <3>4. all[n + 1] = s
      BY <3>1 DEF s
    <3>. HIDE DEF before
    <3>5. before \o << >> = before
      BY <3>3
    <3>6. db'[t] = before \o (IF s.table = t THEN s.rows ELSE << >>)
      BY <1>10, <3>2, <3>5
    <3>. QED
      BY <3>1, <3>3, <3>4, <3>6 DEF before
  <2>. QED
    BY <1>2, <1>5, <1>6, <1>7, <1>15, <2>1 DEF LoadInv
<1>18. SortInv'
  BY <1>5 DEF SortInv
<1>19. LoadedInv'
  <2>1. ASSUME NEW e \in DatasetNames, loaded[e] # None
        PROVE  \A t \in ResetTables(e) : db'[t] = db[t]
    <3>1. e # d
      BY <1>7, <2>1
    <3>2. \A t \in ResetTables(e) : t # s.table /\ t \in DOMAIN db
      BY <1>1, <1>4, <1>8, <3>1, TablesApart DEF d
    <3>. QED
      BY <1>10, <3>2
  <2>2. loaded' = loaded
    BY <1>2
  <2>. QED
    BY <1>15, <2>1, <2>2 DEF LoadedInv
<1>. QED
  BY <1>12, <1>13, <1>14, <1>16, <1>17, <1>18, <1>19

(* After the last statement the tables hold the rows of the shards.         *)
LEMMA EndLoadStep ==
  ASSUME IInv, EndLoad
  PROVE  IInv'
<1>. USE DEF IInv
<1>. DEFINE d == Head(cli.todo)
            all == Pending(cli)
<1>1. /\ cli \in AtLoad /\ cli.at = "load" /\ cli.todo \in ToDo /\ cli.next \in Nat \ {0}
      /\ d \in DatasetNames /\ cli.release \in Releases /\ cli.index \in BOOLEAN
  BY CliIs, ToDoGoesOn DEF EndLoad, AtLoad
<1>2. /\ cli.next > Len(all)
      /\ loaded' = [loaded EXCEPT ![d] = <<cli.release, ToSet(cli.shards)>>]
      /\ cli' = NextLoad(cli)
      /\ UNCHANGED <<files, app, commands, db, reloaded>>
  BY DEF EndLoad
<1>3. /\ cli.shards \in Seq(ShardsOf(cli.release, d)) /\ cli.shards = Ascending(ToSet(cli.shards))
      /\ cli.next <= Len(all) + 1
  BY <1>1 DEF ShardsKnown
<1>4. all \in Seq(StatementsFor(d)) /\ all = AllStatements(d, cli.release, cli.shards)
  BY <1>1, <1>3, AllStatementsTyped DEF Pending
<1>5. cli.next - 1 = Len(all) /\ SubSeq(all, 1, Len(all)) = all
  <2>1. Len(all) \in Nat
    BY <1>4
  <2>2. SubSeq(all, 1, Len(all)) = all
    BY <1>4, WholePrefix
  <2>. HIDE DEF all
  <2>3. cli.next - 1 = Len(all)
    BY <1>1, <1>2, <1>3, <2>1
  <2>. QED
    BY <2>2, <2>3
<1>6. HasTables /\ \A t \in ResetTables(d) : db[t] = RowsFor(t, all)
  BY <1>1, <1>5 DEF LoadInv
<1>7. cli' \in {Idle} \cup AtChoose \cup AtIndex /\ cli'.at \notin {"load", "sort"}
  BY <1>1, <1>2, NextLoadTyped
<1>8. CliOK'
  BY <1>7 DEF CliOK
<1>. HIDE DEF d, all
<1>9. DatasetTypeOK' /\ ShardsWhole'
  <2>1. app = FALSE
    BY <1>1 DEF DatasetTypeOK, Connected
  <2>2. reloaded' \in BOOLEAN /\ commands' \in 0..MaxCommands /\ app' = FALSE
    BY <1>2, <2>1 DEF DatasetTypeOK
  <2>. QED
    BY <1>2, <1>6, <2>2, StaysTyped DEF HasTables
<1>10. ShardsKnown' /\ LoadInv' /\ SortInv'
  BY <1>7 DEF ShardsKnown, LoadInv, SortInv
<1>11. RowsKnown' /\ HasTables'
  BY <1>2, <1>6 DEF RowsKnown, HasTables
<1>12. LoadedInv'
  <2>1. DOMAIN loaded' = DatasetNames /\ DOMAIN loaded = DatasetNames
    BY <1>2 DEF LoadedInv
  <2>. DEFINE Holds(e, was) ==
         /\ was[1] \in Releases
         /\ Ascending(was[2]) \in Seq(ShardsOf(was[1], e))
         /\ \A t \in ResetTables(e) :
              BagOf(db[t]) = BagOf(RowsFor(t, AllStatements(e, was[1], Ascending(was[2]))))
  <2>2. ASSUME NEW e \in DatasetNames, loaded'[e] # None
        PROVE  Holds(e, loaded'[e])
    <3>1. CASE e = d
      <4>1. loaded'[d] = <<cli.release, ToSet(cli.shards)>>
        BY <1>2, <2>1, <3>1
      <4>2. /\ loaded'[d][1] = cli.release
            /\ Ascending(loaded'[d][2]) = cli.shards
        BY <1>3, <4>1
      <4>3. AllStatements(d, loaded'[d][1], Ascending(loaded'[d][2])) = all
        BY <1>4, <4>2
      <4>. QED
        BY <1>1, <1>3, <1>6, <3>1, <4>2, <4>3
    <3>2. CASE e # d
      <4>1. loaded'[e] = loaded[e] /\ loaded[e] # None
        BY <1>2, <2>1, <2>2, <3>2
      <4>2. Holds(e, loaded[e])
        BY <4>1 DEF LoadedInv
      <4>. HIDE DEF Holds
      <4>. QED
        BY <4>1, <4>2
    <3>. QED
      BY <3>1, <3>2
  <2>. QED
    BY <1>2, <1>11, <2>1, <2>2 DEF LoadedInv
<1>. QED
  BY <1>8, <1>9, <1>10, <1>11, <1>12

(* Connecting for the sort makes the file when there is none.               *)
LEMMA BeginIndexStep ==
  ASSUME IInv, BeginIndex
  PROVE  IInv'
<1>. USE DEF IInv
<1>1. UNCHANGED <<files, app, commands, loaded, reloaded>>
  BY DEF BeginIndex
<1>2. CASE app
  <2>1. cli' = Idle /\ UNCHANGED <<files, corpus, app, commands>> /\ commands' \in 0..MaxCommands
    BY <1>1, <1>2 DEF BeginIndex, corpus, DatasetTypeOK
  <2>. QED
    BY <2>1, AtKnown, QuietStep
<1>3. CASE ~app
  <2>1. /\ db' = IF db = NoFile THEN NoTables ELSE db
        /\ cli' = [at |-> "sort", next |-> 1, existing |-> DOMAIN db']
    BY <1>3 DEF BeginIndex
  <2>2. db \in {NoFile, NoTables} \/ IsCorpus(db)
    BY DEF DatasetTypeOK, IsCorpus
  <2>3. db' = NoTables \/ IsCorpus(db')
    BY <2>1, <2>2
  <2>4. DatasetTypeOK' /\ ShardsWhole'
    <3>1. reloaded' \in BOOLEAN /\ commands' \in 0..MaxCommands /\ app' = FALSE
      BY <1>1, <1>3 DEF DatasetTypeOK
    <3>. QED
      BY <1>1, <2>3, <3>1, StaysTyped
  <2>5. DOMAIN db' \subseteq Tables \cup Copies
    <3>1. DOMAIN NoTables = {}
      BY DEF NoTables
    <3>. QED
      BY <2>3, <3>1, CorpusIs
  <2>6. CliOK'
    <3>1. cli' \in AtSort
      BY <2>1, <2>5 DEF AtSort
    <3>. QED
      BY <3>1 DEF CliOK
  <2>7. cli'.at = "sort" /\ cli'.existing = DOMAIN db'
    BY <2>1
  <2>8. ShardsKnown' /\ LoadInv' /\ SortInv'
    BY <2>3, <2>7 DEF ShardsKnown, LoadInv, SortInv, HasTables
  <2>9. (HasTables => db' = db) /\ (HasTables' => db' = db)
    BY <2>1, CorpusIsNot DEF HasTables
  <2>10. RowsKnown'
    BY <2>9 DEF RowsKnown, HasTables
  <2>11. LoadedInv'
    <3>1. \A d \in DatasetNames : loaded[d] # None => db' = db /\ HasTables'
      BY <2>9 DEF LoadedInv, HasTables
    <3>. QED
      BY <1>1, <3>1 DEF LoadedInv
  <2>. QED
    BY <2>4, <2>6, <2>8, <2>10, <2>11
<1>. QED
  BY <1>2, <1>3

(* A sort keeps the rows of the tables, in another order; a copy is another *)
(* table.                                                                   *)
LEMMA SortTableStep ==
  ASSUME IInv, SortTable
  PROVE  IInv'
<1>. USE DEF IInv
<1>. DEFINE o == Optimizations[cli.next]
            skipped == \/ o.source \notin cli.existing
                       \/ o.table # o.source /\ o.table \in cli.existing
            sorted == Sorted(o.table, db[o.source])
<1>1. /\ cli \in AtSort /\ cli.at = "sort" /\ cli.next \in Nat \ {0}
      /\ cli.existing \in SUBSET (Tables \cup Copies)
  BY CliIs DEF SortTable, AtSort
<1>2. /\ cli.next <= Len(Optimizations)
      /\ db' = IF skipped \/ db[o.source] = << >> THEN db
               ELSE [t \in DOMAIN db \cup {o.table} |-> IF t = o.table THEN sorted ELSE db[t]]
      /\ cli' = [cli EXCEPT !.next = @ + 1]
      /\ UNCHANGED <<files, app, commands, loaded, reloaded>>
  BY DEF SortTable
<1>3. cli.next \in DOMAIN Optimizations /\ cli.next \in 1..6
  <2>1. Len(Optimizations) = 6 /\ DOMAIN Optimizations = 1..6
    BY DEF Optimizations
  <2>. QED
    BY <1>1, <1>2, <2>1
<1>4. /\ o.source \in Tables /\ o.table \in Tables \cup Copies
      /\ o.table \in Tables => o.table = o.source
  BY <1>3 DEF Optimizations, Tables, Copies
<1>5. cli' \in AtSort /\ cli'.at = "sort" /\ cli'.existing = cli.existing
  BY <1>1, <1>2 DEF AtSort
<1>6. CliOK'
  BY <1>5 DEF CliOK
<1>7. (db = NoTables \/ HasTables) /\ cli.existing \subseteq DOMAIN db
  BY <1>1 DEF SortInv
<1>8. \A row \in RowsIn(o.source) : SortKey(o.table, row) \in Nat
  BY <1>3, KeysAreNumbers
<1>. HIDE DEF o, skipped, sorted
<1>9. CASE db' = db
  <2>1. DatasetTypeOK' /\ ShardsWhole'
    <3>1. app = FALSE
      BY <1>1 DEF DatasetTypeOK, Connected
    <3>2. reloaded' \in BOOLEAN /\ commands' \in 0..MaxCommands /\ app' = FALSE
      BY <1>2, <3>1 DEF DatasetTypeOK
    <3>. QED
      BY <1>2, <1>7, <1>9, <3>2, StaysTyped DEF HasTables
  <2>2. ShardsKnown' /\ LoadInv' /\ SortInv'
    BY <1>5, <1>7, <1>9 DEF ShardsKnown, LoadInv, SortInv, HasTables
  <2>3. RowsKnown' /\ LoadedInv'
    BY <1>2, <1>9 DEF RowsKnown, LoadedInv, HasTables
  <2>. QED
    BY <1>6, <2>1, <2>2, <2>3
<1>10. CASE db' # db
  <2>1. /\ ~skipped
        /\ db' = [t \in DOMAIN db \cup {o.table} |-> IF t = o.table THEN sorted ELSE db[t]]
    BY <1>2, <1>10
  <2>2. o.source \in DOMAIN db
    BY <1>7, <2>1 DEF skipped
  <2>3. HasTables
    <3>1. DOMAIN NoTables = {}
      BY DEF NoTables
    <3>. QED
      BY <1>7, <2>2, <3>1
  <2>4. /\ Tables \subseteq DOMAIN db /\ DOMAIN db \subseteq Tables \cup Copies
        /\ \A t \in DOMAIN db : db[t] \in Seq(CorpusRows)
    BY <2>3, CorpusIs DEF HasTables
  <2>5. db[o.source] \in Seq(RowsIn(o.source))
    BY <1>4, <2>3 DEF RowsKnown
  <2>6. sorted \in Seq(RowsIn(o.source)) /\ BagOf(sorted) = BagOf(db[o.source])
    BY <1>8, <2>5, SortedKeeps DEF sorted
  <2>7. sorted \in Seq(CorpusRows)
    BY <2>6, RowsInAre
  <2>8. /\ DOMAIN db' = DOMAIN db \cup {o.table}
        /\ \A t \in DOMAIN db' : db'[t] = IF t = o.table THEN sorted ELSE db[t]
        /\ db' = [t \in DOMAIN db' |-> db'[t]]
    BY <2>1
  <2>9. IsCorpus(db')
    <3>1. \A t \in DOMAIN db' : db'[t] \in Seq(CorpusRows)
      BY <2>4, <2>7, <2>8
    <3>2. Tables \subseteq DOMAIN db' /\ DOMAIN db' \subseteq Tables \cup Copies
      BY <1>4, <2>4, <2>8
    <3>. QED
      BY <2>8, <3>1, <3>2, CorpusIs
  <2>10. HasTables'
    BY <2>9 DEF HasTables
  <2>11. \A t \in Tables : db'[t] \in Seq(RowsIn(t)) /\ BagOf(db'[t]) = BagOf(db[t])
    <3>. TAKE t \in Tables
    <3>1. t \in DOMAIN db' /\ db[t] \in Seq(RowsIn(t))
      BY <2>3, <2>4, <2>8 DEF RowsKnown
    <3>2. CASE t = o.table
      BY <1>4, <2>6, <2>8, <3>1, <3>2
    <3>3. CASE t # o.table
      BY <2>8, <3>1, <3>3
    <3>. QED
      BY <3>2, <3>3
  <2>12. RowsKnown'
    BY <2>11 DEF RowsKnown
  <2>13. ShardsKnown' /\ LoadInv'
    BY <1>5 DEF ShardsKnown, LoadInv
  <2>14. SortInv'
    BY <1>5, <1>7, <2>8, <2>10 DEF SortInv
  <2>15. LoadedInv'
    <3>1. ASSUME NEW d \in DatasetNames
          PROVE  \A t \in ResetTables(d) : BagOf(db'[t]) = BagOf(db[t])
      BY <2>11, TablesApart
    <3>2. loaded' = loaded
      BY <1>2
    <3>. QED
      BY <2>10, <3>1, <3>2 DEF LoadedInv
  <2>16. DatasetTypeOK' /\ ShardsWhole'
    <3>1. app = FALSE
      BY <1>1 DEF DatasetTypeOK, Connected
    <3>2. reloaded' \in BOOLEAN /\ commands' \in 0..MaxCommands /\ app' = FALSE
      BY <1>2, <3>1 DEF DatasetTypeOK
    <3>. QED
      BY <1>2, <2>9, <3>2, StaysTyped
  <2>. QED
    BY <1>6, <2>12, <2>13, <2>14, <2>15, <2>16
<1>. QED
  BY <1>9, <1>10

LEMMA NextPreserves == IInv /\ [Next]_vars => IInv'
<1>. SUFFICES ASSUME IInv, [Next]_vars PROVE IInv'
  OBVIOUS
<1>1. CASE UNCHANGED vars
  BY <1>1 DEF vars, IInv, DatasetTypeOK, ShardsWhole, CliOK, ShardsKnown, RowsKnown, LoadInv, SortInv,
              LoadedInv, HasTables, Connected, Pending
<1>2. CASE Next
  BY <1>2, DownloadSteps, FetchStep, IdleSteps, AppSteps, BeginLoadStep, LoadStatementStep,
     EndLoadStep, BeginIndexStep, SortTableStep DEF Next, Step
<1>. QED
  BY <1>1, <1>2

(* What is loaded is what the shards hold.                                  *)
LEMMA LoadedAreWhole == IInv => CorpusWhole
<1>. SUFFICES ASSUME IInv PROVE CorpusWhole
  OBVIOUS
<1>. SUFFICES ASSUME NEW d \in ToSet(Datasets), loaded[d] # None
              PROVE  LET all == AllStatements(d, loaded[d][1], Ascending(loaded[d][2]))
                     IN \A n \in DOMAIN all :
                          BagOf(db[all[n].table]) = BagOf(RowsFor(all[n].table, all))
  BY DEF IInv, CorpusWhole, LoadedExactly
<1>. DEFINE all == AllStatements(d, loaded[d][1], Ascending(loaded[d][2]))
<1>1. /\ d \in DatasetNames /\ loaded[d][1] \in Releases
      /\ Ascending(loaded[d][2]) \in Seq(ShardsOf(loaded[d][1], d))
      /\ \A t \in ResetTables(d) : BagOf(db[t]) = BagOf(RowsFor(t, all))
  BY DatasetsAre DEF IInv, LoadedInv
<1>2. all \in Seq(StatementsFor(d))
  BY <1>1, AllStatementsTyped
<1>. HIDE DEF all
<1>3. \A n \in DOMAIN all : all[n] \in StatementsFor(d)
  BY <1>2
<1>4. \A n \in DOMAIN all : all[n].table \in ResetTables(d)
  BY <1>3 DEF StatementsFor
<1>. QED
  BY <1>1, <1>4 DEF all

------------------------------------------------------------------------------
(* Each variable holds what its comment says, and the application never has *)
(* the corpus open while a command writes it.                               *)
THEOREM TypeCorrect == Spec => []DatasetTypeOK
<1>1. Init => IInv
  BY InitEstablishes
<1>2. IInv /\ [Next]_vars => IInv'
  BY NextPreserves
<1>3. IInv => DatasetTypeOK
  BY DEF IInv
<1>. QED
  BY <1>1, <1>2, <1>3, PTL DEF Spec

(* A shard under its final name is complete, and a load that came to its    *)
(* end left each table of its dataset with exactly the rows of its shards,  *)
(* once, whatever was killed before and however often the tables have been  *)
(* sorted since (s2_ingest_download.py:64, s2_ingest_duckdb.py:76).         *)
THEOREM CorpusIsWhole == Spec => []CorpusWhole
<1>1. Init => IInv
  BY InitEstablishes
<1>2. IInv /\ [Next]_vars => IInv'
  BY NextPreserves
<1>3. IInv => CorpusWhole
  BY LoadedAreWhole
<1>. QED
  BY <1>1, <1>2, <1>3, PTL DEF Spec
================================================================================
