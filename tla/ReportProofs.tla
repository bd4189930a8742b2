---------------------------- MODULE ReportProofs ----------------------------
(***************************************************************************)
(* What holds of the lists of a report, for every framework and every      *)
(* response: each recommendation is listed once, in its list.              *)
(***************************************************************************)
EXTENDS ReviewReport, FrameworkProofs

-----------------------------------------------------------------------------
(* Sets put in order.                                                      *)

IsOrder(S, before) ==
  /\ \A x \in S : <<x, x>> \notin before
  /\ \A x, y \in S : x # y => <<x, y>> \in before \/ <<y, x>> \in before
  /\ \A x, y, z \in S : <<x, y>> \in before /\ <<y, z>> \in before => <<x, z>> \in before

\* The n-th has n - 1 before it: no two have as many.
LEMMA InOrderIs ==
  ASSUME NEW S, IsFiniteSet(S), NEW before, IsOrder(S, before)
  PROVE  /\ Cardinality(S) \in Nat
         /\ InOrder(S, before) \in [1 .. Cardinality(S) -> S]
         /\ IsInjective(InOrder(S, before))
         /\ \A x \in S : \E n \in 1 .. Cardinality(S) : InOrder(S, before)[n] = x
  <1> DEFINE N == Cardinality(S)
             Below(x) == {y \in S : <<y, x>> \in before}
             rank == [x \in S |-> Cardinality(Below(x)) + 1]
  <1>1. N \in Nat
    BY FS_CardinalityType
  <1>2. ASSUME NEW x \in S
        PROVE  IsFiniteSet(Below(x)) /\ Cardinality(Below(x)) \in Nat /\ Cardinality(Below(x)) < N
    <2>1. Below(x) \in SUBSET S /\ Below(x) # S
      BY DEF IsOrder
    <2> HIDE DEF Below
    <2>2. IsFiniteSet(Below(x)) /\ Cardinality(Below(x)) <= N /\ Cardinality(Below(x)) # N
      BY <2>1, FS_Subset
    <2> QED
      BY <1>1, <2>2, FS_CardinalityType
  <1>3. ASSUME NEW x \in S, NEW y \in S, <<x, y>> \in before
        PROVE  Cardinality(Below(x)) < Cardinality(Below(y))
    <2>1. Below(x) \in SUBSET Below(y)
      BY <1>3 DEF IsOrder
    <2>2. x \in Below(y) /\ x \notin Below(x)
      BY <1>3 DEF IsOrder
    <2>3. IsFiniteSet(Below(y)) /\ Cardinality(Below(x)) \in Nat /\ Cardinality(Below(y)) \in Nat
      BY <1>2
    <2> HIDE DEF Below
    <2> QED
      BY <2>1, <2>2, <2>3, FS_Subset
  <1>4. rank \in [S -> 1 .. N]
    <2> HIDE DEF Below
    <2> QED
      BY <1>1, <1>2
  <1>5. \A x, y \in S : rank[x] = rank[y] => x = y
    <2> SUFFICES ASSUME NEW x \in S, NEW y \in S, x # y PROVE rank[x] # rank[y]
      OBVIOUS
    <2>1. <<x, y>> \in before \/ <<y, x>> \in before
      BY DEF IsOrder
    <2>2. Cardinality(Below(x)) \in Nat /\ Cardinality(Below(y)) \in Nat
      BY <1>2
    <2>3. Cardinality(Below(x)) < Cardinality(Below(y)) \/ Cardinality(Below(y)) < Cardinality(Below(x))
      BY <1>3, <2>1
    <2> HIDE DEF Below
    <2> QED
      BY <2>2, <2>3
  <1>6. \A n \in 1 .. N : \E x \in S : rank[x] = n
    <2> HIDE DEF rank
    <2>1. rank \in Injection(S, 1 .. N)
      BY <1>4, <1>5 DEF Injection, IsInjective
    <2>2. IsFiniteSet(1 .. N) /\ Cardinality(1 .. N) = N
      BY <1>1, FS_Interval
    <2>3. rank \in Surjection(S, 1 .. N)
      BY <2>1, <2>2, FS_Injection
    <2> QED
      BY <2>3 DEF Surjection
  <1> DEFINE list == InOrder(S, before)
  <1>7. list = [n \in 1 .. N |-> CHOOSE x \in S : Cardinality(Below(x)) = n - 1]
    BY Zenon DEF InOrder
  <1>8. ASSUME NEW n \in 1 .. N PROVE list[n] \in S /\ rank[list[n]] = n
    <2>1. PICK x \in S : rank[x] = n
      BY <1>6
    <2>2. Cardinality(Below(x)) = n - 1
      <3> HIDE DEF Below
      <3>1. Cardinality(Below(x)) \in Nat /\ Cardinality(Below(x)) + 1 = n
        BY <1>2, <2>1
      <3> QED
        BY <3>1
    <2>3. list[n] = CHOOSE z \in S : Cardinality(Below(z)) = n - 1
      BY <1>7, Zenon
    <2> HIDE DEF list, Below
    <2>4. list[n] \in S /\ Cardinality(Below(list[n])) = n - 1
      BY <2>2, <2>3
    <2> QED
      BY <2>4
  <1> HIDE DEF list, rank, Below
  <1>9. list \in [1 .. N -> S]
    <2>1. list = [n \in 1 .. N |-> list[n]]
      BY <1>7
    <2> QED
      BY <1>8, <2>1
  <1>10. \A m, n \in 1 .. N : list[m] = list[n] => m = n
    BY <1>8
  <1>11. \A x \in S : \E n \in 1 .. N : list[n] = x
    BY <1>4, <1>5, <1>8
  <1>12. IsInjective(list)
    BY <1>9, <1>10 DEF IsInjective
  <1> QED
    BY <1>1, <1>9, <1>11, <1>12 DEF list

-----------------------------------------------------------------------------
(* Flattened lists without duplicates.                                     *)

LEMMA ConcatInjective ==
  ASSUME NEW X, NEW s \in Seq(X), NEW t \in Seq(X), IsInjective(s), IsInjective(t),
         ToSet(s) \cap ToSet(t) = {}
  PROVE  IsInjective(s \o t)
  <1>1. /\ DOMAIN s = 1 .. Len(s) /\ Len(s) \in Nat
        /\ DOMAIN t = 1 .. Len(t) /\ Len(t) \in Nat
    BY LenProperties
  <1>2. /\ s \o t \in Seq(X) /\ Len(s \o t) = Len(s) + Len(t)
        /\ \A i \in 1 .. Len(s) + Len(t) :
             (s \o t)[i] = IF i <= Len(s) THEN s[i] ELSE t[i - Len(s)]
    BY ConcatProperties
  <1> DEFINE u == s \o t
  <1>3. DOMAIN u = 1 .. Len(s) + Len(t)
    BY <1>2, LenProperties
  <1>4. \A i \in DOMAIN u : u[i] = IF i <= Len(s) THEN s[i] ELSE t[i - Len(s)]
    BY <1>2, <1>3
  <1> HIDE DEF u
  <1>5. SUFFICES ASSUME NEW i \in DOMAIN u, NEW j \in DOMAIN u, u[i] = u[j] PROVE i = j
    BY DEF IsInjective, u
  <1>6. /\ \A k \in DOMAIN s : s[k] \in ToSet(s)
        /\ \A k \in DOMAIN t : t[k] \in ToSet(t)
    BY DEF ToSet
  <1>7. \A k \in DOMAIN u : /\ k \in Int
                            /\ k <= Len(s) => k \in DOMAIN s /\ u[k] = s[k]
                            /\ ~ (k <= Len(s)) => k - Len(s) \in DOMAIN t /\ u[k] = t[k - Len(s)]
    BY <1>1, <1>3, <1>4
  <1>8. i <= Len(s) <=> j <= Len(s)
    BY <1>5, <1>6, <1>7
  <1>9. CASE i <= Len(s)
    BY <1>5, <1>7, <1>8, <1>9 DEF IsInjective
  <1>10. CASE ~ (i <= Len(s))
    <2>1. i - Len(s) = j - Len(s)
      BY <1>5, <1>7, <1>8, <1>10 DEF IsInjective
    <2> QED
      BY <1>1, <1>7, <2>1
  <1> QED
    BY <1>9, <1>10

\* The flattened list of some lists: what it has, and when it has it once.
LEMMA FlattenLists ==
  ASSUME NEW X, NEW seqs \in Seq(Seq(X))
  PROVE  /\ FlattenSeq(seqs) \in Seq(X)
         /\ \A x : x \in ToSet(FlattenSeq(seqs)) <=> \E i \in DOMAIN seqs : x \in ToSet(seqs[i])
         /\ /\ \A i \in DOMAIN seqs : IsInjective(seqs[i])
            /\ \A i, j \in DOMAIN seqs : ToSet(seqs[i]) \cap ToSet(seqs[j]) # {} => i = j
            => IsInjective(FlattenSeq(seqs))
  <1>0. /\ Len(seqs) \in Nat /\ DOMAIN seqs = 1 .. Len(seqs)
        /\ \A i \in 1 .. Len(seqs) : seqs[i] \in Seq(X)
    BY LenProperties, ElementOfSeq
  <1>1. CASE Len(seqs) = 0
    <2>1. seqs = <<>> /\ seqs \in Seq(X)
      BY <1>1, EmptySeq
    <2>2. FlattenSeq(seqs) = seqs
      BY <1>1 DEF FlattenSeq
    <2>3. DOMAIN seqs = {}
      BY <1>0, <1>1
    <2> QED
      BY <2>1, <2>2, <2>3 DEF ToSet, IsInjective
  <1>2. CASE Len(seqs) # 0
    <2>1. /\ FlattenSeq(seqs) \in Seq(X)
          /\ \A x : x \in ToSet(FlattenSeq(seqs)) <=> \E i \in DOMAIN seqs : x \in ToSet(seqs[i])
      BY <1>0, <1>2, FlattenElements
    <2>2. ASSUME \A i \in DOMAIN seqs : IsInjective(seqs[i]),
                 \A i, j \in DOMAIN seqs : ToSet(seqs[i]) \cap ToSet(seqs[j]) # {} => i = j
          PROVE  IsInjective(FlattenSeq(seqs))
      <3>1. PICK f : Flattens(f, seqs, Len(seqs)) /\ FlattenSeq(seqs) = f[Len(seqs)]
        BY <1>0, <1>2, FlattenIs
      <3>2. /\ f[1] = seqs[1]
            /\ \A i \in Nat : i # 0 /\ i + 1 \in 1 .. Len(seqs) => f[i + 1] = f[i] \o seqs[i + 1]
        <4>1. \A n \in Nat : Flattens(f, seqs, n) =>
                /\ n # 0 => f[1] = seqs[1]
                /\ \A i \in Nat : i # 0 /\ i + 1 \in 1 .. n => f[i + 1] = f[i] \o seqs[i + 1]
          BY FlattenSteps
        <4> QED
          BY <1>0, <1>2, <3>1, <4>1, Zenon
      <3> DEFINE Right(i) == /\ f[i] \in Seq(X)
                             /\ \A x : x \in ToSet(f[i]) <=> \E j \in 1 .. i : x \in ToSet(seqs[j])
                             /\ IsInjective(f[i])
                 T == {i \in Nat : i \in 1 .. Len(seqs) => Right(i)}
      <3>3. 0 \in T
        OBVIOUS
      <3>4. ASSUME NEW i \in Nat, i \in T PROVE i + 1 \in T
        <4> SUFFICES ASSUME i + 1 \in 1 .. Len(seqs) PROVE Right(i + 1)
          OBVIOUS
        <4>1. CASE i = 0
          <5>1. i + 1 = 1 /\ 1 \in DOMAIN seqs
            BY <1>0, <4>1
          <5>2. f[1] \in Seq(X) /\ IsInjective(f[1])
            BY <1>0, <2>2, <3>2, <5>1
          <5>3. \A x : x \in ToSet(f[1]) <=> \E j \in 1 .. 1 : x \in ToSet(seqs[j])
            <6>1. \A j : j \in 1 .. 1 <=> j = 1
              OBVIOUS
            <6> QED
              BY <3>2, <6>1
          <5> QED
            BY <5>1, <5>2, <5>3
        <4>2. CASE i # 0
          <5>1. i \in 1 .. Len(seqs) /\ i \in DOMAIN seqs /\ i + 1 \in DOMAIN seqs
            BY <1>0, <4>2
          <5>2. Right(i)
            BY <3>4, <5>1
          <5>3. f[i + 1] = f[i] \o seqs[i + 1]
            BY <3>2, <4>2
          <5>4. seqs[i + 1] \in Seq(X) /\ IsInjective(seqs[i + 1])
            BY <1>0, <2>2, <5>1
          <5>5. f[i + 1] \in Seq(X) /\ ToSet(f[i + 1]) = ToSet(f[i]) \cup ToSet(seqs[i + 1])
            BY <5>2, <5>3, <5>4, ConcatSet, ConcatProperties
          <5>6. \A j : j \in 1 .. i + 1 <=> j \in 1 .. i \/ j = i + 1
            OBVIOUS
          <5>7. \A x : x \in ToSet(f[i + 1]) <=> \E j \in 1 .. i + 1 : x \in ToSet(seqs[j])
            BY <5>2, <5>5, <5>6
          <5>8. ToSet(f[i]) \cap ToSet(seqs[i + 1]) = {}
            <6> SUFFICES ASSUME NEW x, x \in ToSet(f[i]), x \in ToSet(seqs[i + 1]) PROVE FALSE
              OBVIOUS
            <6>1. PICK j \in 1 .. i : x \in ToSet(seqs[j])
              BY <5>2
            <6>2. j \in DOMAIN seqs /\ j # i + 1
              BY <1>0, <5>1
            <6> QED
              BY <2>2, <5>1, <6>1, <6>2
          <5>9. IsInjective(f[i + 1])
            BY <5>2, <5>3, <5>4, <5>8, ConcatInjective
          <5> QED
            BY <5>5, <5>7, <5>9
        <4> QED
          BY <4>1, <4>2
      <3> HIDE DEF T
      <3>5. \A i \in Nat : i \in T
        BY <3>3, <3>4, SetInduction
      <3>6. Len(seqs) \in T /\ Len(seqs) \in 1 .. Len(seqs)
        BY <1>0, <1>2, <3>5
      <3> QED
        BY <3>1, <3>6 DEF T
    <2> QED
      BY <2>1, <2>2
  <1> QED
    BY <1>0, <1>1, <1>2

LEMMA MapSeq ==
  ASSUME NEW s, IsASequence(s), NEW Y, NEW t, t = [i \in DOMAIN s |-> t[i]],
         \A i \in DOMAIN s : t[i] \in Y
  PROVE  t \in Seq(Y) /\ DOMAIN t = DOMAIN s
  <1>1. DOMAIN s = 1 .. Len(s) /\ Len(s) \in Nat
    BY LenProperties DEF IsASequence
  <1>2. DOMAIN t = 1 .. Len(s)
    BY <1>1
  <1> QED
    BY <1>1, <1>2, SeqDef

LEMMA InLarger ==
  ASSUME NEW s, IsASequence(s), NEW X, ToSet(s) \subseteq X
  PROVE  s \in Seq(X)
  <1>1. s = [i \in DOMAIN s |-> s[i]]
    BY LenProperties DEF IsASequence
  <1>2. \A i \in DOMAIN s : s[i] \in X
    BY DEF ToSet
  <1> QED
    BY <1>1, <1>2, MapSeq

\* The outcomes of an objective in order, each once.
LEMMA OrderOfObjective ==
  ASSUME NEW b \in ToSet(Objectives),
         NEW list, list = FlattenSeq([j \in DOMAIN PrinciplesOf[b] |-> OutcomesOf[PrinciplesOf[b][j]]])
  PROVE  /\ list \in Seq(Outcomes)
         /\ \A o : o \in ToSet(list) <=> \E p \in ToSet(PrinciplesOf[b]) : o \in ToSet(OutcomesOf[p])
         /\ IsInjective(list)
  <1> DEFINE s == PrinciplesOf[b]
             seqs == [j \in DOMAIN s |-> OutcomesOf[s[j]]]
  <1>1. IsASequence(s) /\ IsInjective(s) /\ \A p \in ToSet(s) : p \in Principles
    BY FrameworkAssumption, CodesAssumption DEF Principles
  <1>2. \A p \in Principles : OutcomesOf[p] \in Seq(Outcomes) /\ IsInjective(OutcomesOf[p])
    <2> TAKE p \in Principles
    <2>1. ToSet(OutcomesOf[p]) \subseteq Outcomes
      BY DEF Outcomes
    <2> QED
      BY <2>1, FrameworkAssumption, CodesAssumption, InLarger
  <1>3. /\ seqs = [j \in DOMAIN s |-> seqs[j]]
        /\ \A j \in DOMAIN s : s[j] \in ToSet(s) /\ seqs[j] = OutcomesOf[s[j]]
    BY DEF ToSet
  <1>4. \A p \in ToSet(s) : \E j \in DOMAIN s : p = s[j]
    BY DEF ToSet
  <1>5. list = FlattenSeq(seqs)
    OBVIOUS
  <1> HIDE DEF s, seqs
  <1>6. seqs \in Seq(Seq(Outcomes)) /\ DOMAIN seqs = DOMAIN s
    BY <1>1, <1>2, <1>3, MapSeq
  <1>7. \A i \in DOMAIN seqs : IsInjective(seqs[i])
    BY <1>1, <1>2, <1>3, <1>6
  <1>8. ASSUME NEW i \in DOMAIN seqs, NEW j \in DOMAIN seqs, ToSet(seqs[i]) \cap ToSet(seqs[j]) # {}
        PROVE  i = j
    <2>1. PICK p, q \in Principles : p = s[i] /\ q = s[j]
      BY <1>1, <1>3, <1>6
    <2>2. ToSet(OutcomesOf[p]) \cap ToSet(OutcomesOf[q]) # {}
      BY <1>3, <1>6, <1>8, <2>1
    <2>3. p = q
      BY <2>2, CodesAssumption
    <2> QED
      BY <1>1, <1>6, <2>1, <2>3 DEF IsInjective
  <1>9. /\ list \in Seq(Outcomes)
        /\ \A x : x \in ToSet(list) <=> \E i \in DOMAIN seqs : x \in ToSet(seqs[i])
        /\ IsInjective(list)
    BY <1>5, <1>6, <1>7, <1>8, FlattenLists
  <1>10. ASSUME NEW x
         PROVE  x \in ToSet(list) <=> \E p \in ToSet(s) : x \in ToSet(OutcomesOf[p])
    <2>1. x \in ToSet(list) <=> \E i \in DOMAIN seqs : x \in ToSet(seqs[i])
      BY <1>9
    <2>2. ASSUME NEW i \in DOMAIN seqs, x \in ToSet(seqs[i])
          PROVE  \E p \in ToSet(s) : x \in ToSet(OutcomesOf[p])
      BY <1>3, <1>6, <2>2
    <2>3. ASSUME NEW p \in ToSet(s), x \in ToSet(OutcomesOf[p])
          PROVE  \E i \in DOMAIN seqs : x \in ToSet(seqs[i])
      <3>1. PICK i \in DOMAIN s : p = s[i]
        BY <1>4
      <3> QED
        BY <1>3, <1>6, <2>3, <3>1
    <2> QED
      BY <2>1, <2>2, <2>3
  <1> QED
    BY <1>9, <1>10 DEF s

\* Every outcome comes once in the order of the reports.
LEMMA OutcomeOrderIs ==
  /\ OutcomeOrder \in Seq(Outcomes)
  /\ ToSet(OutcomeOrder) = Outcomes
  /\ IsInjective(OutcomeOrder)
  <1> DEFINE s == Objectives
             list(b) == FlattenSeq([j \in DOMAIN PrinciplesOf[b] |-> OutcomesOf[PrinciplesOf[b][j]]])
             seqs == [i \in DOMAIN s |-> list(s[i])]
  <1>1. IsASequence(s) /\ IsInjective(s)
    BY FrameworkAssumption, CodesAssumption
  <1>2. ASSUME NEW b \in ToSet(s)
        PROVE  /\ list(b) \in Seq(Outcomes)
               /\ \A o : o \in ToSet(list(b)) <=> \E p \in ToSet(PrinciplesOf[b]) : o \in ToSet(OutcomesOf[p])
               /\ IsInjective(list(b))
    BY OrderOfObjective, Zenon
  <1>3. /\ seqs = [i \in DOMAIN s |-> seqs[i]]
        /\ \A i \in DOMAIN s : s[i] \in ToSet(s) /\ seqs[i] = list(s[i])
    BY DEF ToSet
  <1>4. \A b \in ToSet(s) : \E i \in DOMAIN s : b = s[i]
    BY DEF ToSet
  <1>5. OutcomeOrder = FlattenSeq(seqs)
    BY DEF OutcomeOrder
  <1>6. \A b \in ToSet(s) : \A p \in ToSet(PrinciplesOf[b]) : p \in Principles
    BY DEF Principles
  <1> HIDE DEF list, seqs
  <1>7. seqs \in Seq(Seq(Outcomes)) /\ DOMAIN seqs = DOMAIN s
    BY <1>1, <1>2, <1>3, MapSeq
  <1>8. \A i \in DOMAIN seqs : IsInjective(seqs[i])
    BY <1>2, <1>3, <1>7
  <1>9. ASSUME NEW i \in DOMAIN seqs, NEW j \in DOMAIN seqs, ToSet(seqs[i]) \cap ToSet(seqs[j]) # {}
        PROVE  i = j
    <2>1. PICK o : o \in ToSet(list(s[i])) /\ o \in ToSet(list(s[j]))
      BY <1>3, <1>7, <1>9
    <2>2. s[i] \in ToSet(s) /\ s[j] \in ToSet(s)
      BY <1>3, <1>7
    <2>3. PICK p \in ToSet(PrinciplesOf[s[i]]) : o \in ToSet(OutcomesOf[p])
      BY <1>2, <2>1, <2>2
    <2>4. PICK q \in ToSet(PrinciplesOf[s[j]]) : o \in ToSet(OutcomesOf[q])
      BY <1>2, <2>1, <2>2
    <2>5. p = q
      BY <1>6, <2>2, <2>3, <2>4, CodesAssumption
    <2>6. s[i] = s[j]
      BY <2>2, <2>5, CodesAssumption
    <2> QED
      BY <1>1, <1>7, <2>6 DEF IsInjective
  <1>10. /\ OutcomeOrder \in Seq(Outcomes)
         /\ \A x : x \in ToSet(OutcomeOrder) <=> \E i \in DOMAIN seqs : x \in ToSet(seqs[i])
         /\ IsInjective(OutcomeOrder)
    BY <1>5, <1>7, <1>8, <1>9, FlattenLists
  <1>11. \A o \in Outcomes : o \in ToSet(OutcomeOrder)
    <2> TAKE o \in Outcomes
    <2>1. PICK b \in ToSet(s) : \E p \in ToSet(PrinciplesOf[b]) : o \in ToSet(OutcomesOf[p])
      BY OutcomeHome
    <2>2. PICK i \in DOMAIN s : b = s[i]
      BY <1>4
    <2> QED
      BY <1>2, <1>3, <1>7, <1>10, <2>1, <2>2
  <1>12. \A o \in ToSet(OutcomeOrder) : o \in Outcomes
    BY <1>10, ElementOfSeq, LenProperties DEF ToSet
  <1> QED
    BY <1>10, <1>11, <1>12

-----------------------------------------------------------------------------
(* The groups of an outcome.                                               *)

LEMMA LeastElement ==
  ASSUME NEW S \in SUBSET Nat, S # {}
  PROVE  \E m \in S : \A k \in S : m <= k
  <1>1. \A m, n \in Nat : m < n => <<m, n>> \in Less
    BY DEF Less
  <1>2. IsWellFoundedOn(Less, Nat)
    BY NatLessThanWellFounded, Zenon DEF Less, OpToRel
  <1>3. PICK m \in S : \A k \in S : <<k, m>> \notin Less
    BY <1>2, WFMin, Zenon
  <1>4. m \in Nat /\ \A k \in S : k \in Nat /\ ~ (k < m)
    BY <1>1, <1>3
  <1>5. \A k \in S : m <= k
    BY <1>4
  <1> QED
    BY <1>5

\* The positions of one list of recommendations.
LEMMA PositionsFacts ==
  ASSUME NEW recs \in Seq(Titles)
  PROVE  /\ DOMAIN recs \subseteq Nat \ {0} /\ IsFiniteSet(DOMAIN recs)
         /\ IsFiniteSet(Firsts(recs)) /\ IsOrder(Firsts(recs), LargerFirst(recs))
         /\ \A i \in DOMAIN recs :
              IsFiniteSet(SameTitle(recs, i)) /\ IsOrder(SameTitle(recs, i), Ascending)
         /\ \A i, j \in Firsts(recs) : SameTitle(recs, i) \cap SameTitle(recs, j) # {} => i = j
         /\ \A j \in DOMAIN recs : \E i \in Firsts(recs) : j \in SameTitle(recs, i)
  <1>1. /\ DOMAIN recs \subseteq Nat \ {0}
        /\ IsFiniteSet(DOMAIN recs)
        /\ \A i, j \in DOMAIN recs : i < j => i \in 1 .. j - 1
    <2>1. DOMAIN recs = 1 .. Len(recs) /\ Len(recs) \in Nat
      BY LenProperties
    <2>2. 1 \in Int /\ Len(recs) \in Int
      BY <2>1
    <2>3. IsFiniteSet(1 .. Len(recs))
      BY <2>2, FS_Interval
    <2> QED
      BY <2>1, <2>3
  <1>2. Firsts(recs) \in SUBSET DOMAIN recs
    BY DEF Firsts
  <1>3. ASSUME NEW i \in DOMAIN recs
        PROVE  /\ SameTitle(recs, i) \in SUBSET DOMAIN recs
               /\ IsFiniteSet(SameTitle(recs, i)) /\ Cardinality(SameTitle(recs, i)) \in Nat
    <2>1. SameTitle(recs, i) \in SUBSET DOMAIN recs
      BY DEF SameTitle
    <2> QED
      BY <1>1, <2>1, FS_Subset, FS_CardinalityType
  <1>4. IsFiniteSet(Firsts(recs))
    BY <1>1, <1>2, FS_Subset
  <1>5. IsOrder(Firsts(recs), LargerFirst(recs))
    <2> DEFINE size(i) == Cardinality(SameTitle(recs, i))
    <2>1. \A i \in DOMAIN recs : size(i) \in Nat /\ i \in Nat
      BY <1>1, <1>3
    <2>2. \A i, j \in DOMAIN recs :
            <<i, j>> \in LargerFirst(recs) <=> size(i) > size(j) \/ (size(i) = size(j) /\ i < j)
      BY DEF LargerFirst
    <2> HIDE DEF size
    <2> QED
      BY <1>2, <2>1, <2>2 DEF IsOrder
  <1>6. ASSUME NEW i \in DOMAIN recs PROVE IsOrder(SameTitle(recs, i), Ascending)
    <2>1. \A j, k \in DOMAIN recs : j \in Nat /\ (<<j, k>> \in Ascending <=> j < k)
      BY <1>1 DEF Ascending
    <2> QED
      BY <1>3, <2>1 DEF IsOrder
  <1>7. ASSUME NEW i \in Firsts(recs), NEW j \in Firsts(recs),
               SameTitle(recs, i) \cap SameTitle(recs, j) # {}
        PROVE  i = j
    <2>1. recs[i] = recs[j]
      BY <1>7 DEF SameTitle
    <2>2. ~ (i < j) /\ ~ (j < i)
      BY <1>1, <1>2, <2>1 DEF Firsts
    <2> QED
      BY <1>1, <1>2, <2>2
  <1>8. ASSUME NEW j \in DOMAIN recs PROVE \E i \in Firsts(recs) : j \in SameTitle(recs, i)
    <2>1. SameTitle(recs, j) \in SUBSET Nat /\ j \in SameTitle(recs, j)
      BY <1>1 DEF SameTitle
    <2>2. PICK i \in SameTitle(recs, j) : \A k \in SameTitle(recs, j) : i <= k
      BY <2>1, LeastElement
    <2>3. i \in DOMAIN recs /\ recs[i] = recs[j]
      BY DEF SameTitle
    <2>4. ASSUME NEW k \in 1 .. i - 1, recs[k] = recs[i] PROVE FALSE
      <3>1. k \in DOMAIN recs
        <4>1. DOMAIN recs = 1 .. Len(recs) /\ Len(recs) \in Nat
          BY LenProperties
        <4> QED
          BY <2>3, <4>1
      <3>2. k \in SameTitle(recs, j)
        BY <2>3, <2>4, <3>1 DEF SameTitle
      <3> QED
        BY <1>1, <2>2, <2>3, <3>2
    <2> QED
      BY <2>3, <2>4 DEF Firsts, SameTitle
  <1> QED
    BY <1>1, <1>3, <1>4, <1>5, <1>6, <1>7, <1>8

\* The group of the recommendations of o that have the title of the i-th.
GroupOf(recs, o, i) ==
  LET places == InOrder(SameTitle(recs, i), Ascending)
  IN [n \in DOMAIN places |-> <<o, places[n]>>]

LEMMA GroupOfIs ==
  ASSUME NEW recs \in Seq(Titles), NEW i \in DOMAIN recs, NEW o
  PROVE  /\ GroupOf(recs, o, i) \in Seq({o} \X (DOMAIN recs))
         /\ IsInjective(GroupOf(recs, o, i))
         /\ ToSet(GroupOf(recs, o, i)) = {o} \X SameTitle(recs, i)
  <1> DEFINE S == SameTitle(recs, i)
             N == Cardinality(S)
             places == InOrder(S, Ascending)
             group == GroupOf(recs, o, i)
  <1>1. /\ N \in Nat
        /\ places \in [1 .. N -> S]
        /\ IsInjective(places)
        /\ \A x \in S : \E n \in 1 .. N : places[n] = x
    BY PositionsFacts, InOrderIs
  <1>2. group = [n \in DOMAIN places |-> <<o, places[n]>>]
    BY DEF GroupOf
  <1>3. S \subseteq DOMAIN recs
    BY DEF SameTitle
  <1> HIDE DEF S, places, N, group
  <1>4. DOMAIN group = 1 .. N /\ \A n \in 1 .. N : group[n] = <<o, places[n]>> /\ places[n] \in S
    BY <1>1, <1>2
  <1>5. group \in Seq({o} \X (DOMAIN recs))
    <2>1. group = [n \in 1 .. N |-> group[n]] /\ \A n \in 1 .. N : group[n] \in {o} \X (DOMAIN recs)
      BY <1>2, <1>3, <1>4
    <2> QED
      BY <1>1, <2>1, SeqDef
  <1>6. IsInjective(group)
    BY <1>1, <1>4 DEF IsInjective
  <1>7. ToSet(group) = {o} \X S
    <2>1. \A x \in ToSet(group) : x \in {o} \X S
      <3>1. \A x \in ToSet(group) : \E n \in 1 .. N : x = group[n]
        BY <1>4 DEF ToSet
      <3>2. \A n \in 1 .. N : group[n] \in {o} \X S
        <4>1. \A y \in S : <<o, y>> \in {o} \X S
          OBVIOUS
        <4> QED
          BY <1>4, <4>1, Zenon
      <3> QED
        BY <3>1, <3>2
    <2>2. ASSUME NEW j \in S PROVE <<o, j>> \in ToSet(group)
      BY <1>1, <1>4 DEF ToSet
    <2> QED
      BY <2>1, <2>2
  <1> QED
    BY <1>5, <1>6, <1>7 DEF S, group

\* Each recommendation of an outcome is in one of its groups.
LEMMA GroupsOfIs ==
  ASSUME NEW r \in Responses, NEW o \in Outcomes
  PROVE  /\ GroupsOf(r, o) \in Seq(Seq(Ids(r)))
         /\ IsInjective(GroupsOf(r, o))
         /\ \A g \in ToSet(GroupsOf(r, o)) :
              IsInjective(g) /\ ToSet(g) # {} /\ \A id \in ToSet(g) : id[1] = o
         /\ \A g, h \in ToSet(GroupsOf(r, o)) : ToSet(g) \cap ToSet(h) # {} => g = h
         /\ \A id \in Ids(r) : id[1] = o => \E g \in ToSet(GroupsOf(r, o)) : id \in ToSet(g)
  <1> DEFINE recs == r.outcomes[o].recommendations
             F == Firsts(recs)
             N == Cardinality(F)
             firsts == InOrder(F, LargerFirst(recs))
             groups == GroupsOf(r, o)
  <1>1. recs \in Seq(Titles)
    BY DEF Responses
  <1>2. /\ N \in Nat
        /\ firsts \in [1 .. N -> F]
        /\ IsInjective(firsts)
        /\ \A x \in F : \E n \in 1 .. N : firsts[n] = x
    BY <1>1, PositionsFacts, InOrderIs
  <1>3. groups = [n \in DOMAIN firsts |-> GroupOf(recs, o, firsts[n])]
    BY Zenon DEF GroupsOf, GroupOf
  <1>4. {o} \X (DOMAIN recs) \subseteq Ids(r)
    BY DEF Ids
  <1>5. F \subseteq DOMAIN recs
    BY DEF Firsts
  <1>6. \A id \in Ids(r) : id[1] = o => id \in {o} \X (DOMAIN recs)
    BY DEF Ids
  <1> HIDE DEF recs, firsts, N, F, groups
  <1>7. ASSUME NEW i \in F
        PROVE  /\ GroupOf(recs, o, i) \in Seq(Ids(r))
               /\ IsInjective(GroupOf(recs, o, i))
               /\ ToSet(GroupOf(recs, o, i)) = {o} \X SameTitle(recs, i)
               /\ i \in SameTitle(recs, i)
    <2>1. /\ GroupOf(recs, o, i) \in Seq({o} \X (DOMAIN recs))
          /\ IsInjective(GroupOf(recs, o, i))
          /\ ToSet(GroupOf(recs, o, i)) = {o} \X SameTitle(recs, i)
      BY <1>1, <1>5, GroupOfIs
    <2>2. GroupOf(recs, o, i) \in Seq(Ids(r))
      BY <1>4, <2>1
    <2> QED
      BY <1>5, <2>1, <2>2 DEF SameTitle
  <1>8. DOMAIN groups = 1 .. N /\ \A n \in 1 .. N : firsts[n] \in F /\ groups[n] = GroupOf(recs, o, firsts[n])
    BY <1>2, <1>3
  <1>9. groups \in Seq(Seq(Ids(r)))
    <2>1. groups = [n \in 1 .. N |-> groups[n]] /\ \A n \in 1 .. N : groups[n] \in Seq(Ids(r))
      BY <1>3, <1>7, <1>8
    <2> QED
      BY <1>2, <2>1, SeqDef
  <1>10. \A g \in ToSet(groups) : \E i \in F : g = GroupOf(recs, o, i)
    BY <1>8 DEF ToSet
  <1>11. \A i \in F : GroupOf(recs, o, i) \in ToSet(groups)
    BY <1>2, <1>8 DEF ToSet
  <1>12. ASSUME NEW i \in F, NEW j \in F,
                ToSet(GroupOf(recs, o, i)) \cap ToSet(GroupOf(recs, o, j)) # {}
         PROVE  i = j
    <2>1. PICK id : id \in {o} \X SameTitle(recs, i) /\ id \in {o} \X SameTitle(recs, j)
      BY <1>7, <1>12
    <2>2. id[2] \in SameTitle(recs, i) /\ id[2] \in SameTitle(recs, j)
      BY <2>1
    <2> QED
      BY <1>1, <2>2, PositionsFacts DEF F
  <1>13. \A i \in F : ToSet(GroupOf(recs, o, i)) # {} /\ \A id \in ToSet(GroupOf(recs, o, i)) : id[1] = o
    <2> TAKE i \in F
    <2>1. <<o, i>> \in ToSet(GroupOf(recs, o, i))
      BY <1>7
    <2> QED
      BY <1>7, <2>1
  <1>14. IsInjective(groups)
    <2>1. \A i, j \in F : GroupOf(recs, o, i) = GroupOf(recs, o, j) => i = j
      BY <1>12, <1>13
    <2> QED
      BY <1>2, <1>8, <2>1 DEF IsInjective
  <1>15. \A g \in ToSet(groups) :
           IsInjective(g) /\ ToSet(g) # {} /\ \A id \in ToSet(g) : id[1] = o
    BY <1>7, <1>10, <1>13
  <1>16. \A g, h \in ToSet(groups) : ToSet(g) \cap ToSet(h) # {} => g = h
    BY <1>10, <1>12
  <1>17. ASSUME NEW id \in Ids(r), id[1] = o
         PROVE  \E g \in ToSet(groups) : id \in ToSet(g)
    <2>1. id \in {o} \X (DOMAIN recs)
      BY <1>6, <1>17
    <2>2. PICK j \in DOMAIN recs : id = <<o, j>>
      BY <2>1
    <2>3. PICK i \in F : j \in SameTitle(recs, i)
      BY <1>1, PositionsFacts DEF F
    <2>4. id \in ToSet(GroupOf(recs, o, i))
      BY <1>7, <2>2, <2>3
    <2> QED
      BY <1>11, <2>4
  <1> QED
    BY <1>9, <1>14, <1>15, <1>16, <1>17 DEF groups

-----------------------------------------------------------------------------
(* The lists.                                                              *)

\* A list has the recommendations of its mode, each once.
LEMMA ListedIs ==
  ASSUME NEW a, NEW r \in Responses, NEW mode
  PROVE  /\ Listed(a, r, mode) \in Seq(Ids(r))
         /\ IsInjective(Listed(a, r, mode))
         /\ \A id : id \in ToSet(Listed(a, r, mode)) <=> id \in Ids(r) /\ InMode(a, r, id[1], mode)
  <1> DEFINE s == OutcomeOrder
             seqs == [n \in DOMAIN s |-> IF InMode(a, r, s[n], mode) THEN GroupsOf(r, s[n]) ELSE <<>>]
             groups == Groups(a, r, mode)
             list == Listed(a, r, mode)
  <1>1. /\ s \in Seq(Outcomes) /\ IsInjective(s)
        /\ \A n \in DOMAIN s : s[n] \in Outcomes
        /\ \A o \in Outcomes : \E n \in DOMAIN s : s[n] = o
        /\ DOMAIN s = 1 .. Len(s) /\ Len(s) \in Nat
    <2>1. s \in Seq(Outcomes) /\ IsInjective(s) /\ ToSet(s) = Outcomes
      BY OutcomeOrderIs
    <2>2. \A n \in DOMAIN s : s[n] \in ToSet(s)
      BY DEF ToSet
    <2>3. \A o \in ToSet(s) : \E n \in DOMAIN s : s[n] = o
      BY DEF ToSet
    <2> QED
      BY <2>1, <2>2, <2>3, LenProperties
  <1>2. groups = FlattenSeq(seqs) /\ list = FlattenSeq(groups)
    BY DEF Groups, Listed
  <1>3. /\ \A n \in DOMAIN s : InMode(a, r, s[n], mode) => seqs[n] = GroupsOf(r, s[n])
        /\ \A n \in DOMAIN s : ~ InMode(a, r, s[n], mode) => seqs[n] = <<>>
        /\ seqs = [n \in DOMAIN s |-> seqs[n]]
    OBVIOUS
  <1> HIDE DEF s, seqs, groups, list
  <1>4. DOMAIN seqs = 1 .. Len(s) /\ DOMAIN seqs = DOMAIN s
    BY <1>1, <1>3
  <1>5. ASSUME NEW n \in DOMAIN s
        PROVE  /\ seqs[n] \in Seq(Seq(Ids(r)))
               /\ IsInjective(seqs[n])
               /\ \A g \in ToSet(seqs[n]) : g \in ToSet(GroupsOf(r, s[n])) /\ InMode(a, r, s[n], mode)
    <2>1. CASE InMode(a, r, s[n], mode)
      BY <1>1, <1>3, <2>1, GroupsOfIs
    <2>2. CASE ~ InMode(a, r, s[n], mode)
      <3>1. seqs[n] = <<>>
        BY <1>3, <2>2
      <3>2. <<>> \in Seq(Seq(Ids(r))) /\ IsInjective(<<>>) /\ ToSet(<<>>) = {}
        BY DEF IsInjective, ToSet
      <3> QED
        BY <3>1, <3>2
    <2> QED
      BY <2>1, <2>2
  <1>6. seqs \in Seq(Seq(Seq(Ids(r))))
    BY <1>1, <1>3, <1>4, <1>5, SeqDef
  <1>7. ASSUME NEW i \in DOMAIN seqs, NEW j \in DOMAIN seqs, ToSet(seqs[i]) \cap ToSet(seqs[j]) # {}
        PROVE  i = j
    <2>1. PICK g : g \in ToSet(GroupsOf(r, s[i])) /\ g \in ToSet(GroupsOf(r, s[j]))
      BY <1>4, <1>5, <1>7
    <2>2. PICK id : id \in ToSet(g)
      BY <1>1, <1>4, <2>1, GroupsOfIs
    <2>3. id[1] = s[i] /\ id[1] = s[j]
      BY <1>1, <1>4, <2>1, <2>2, GroupsOfIs
    <2> QED
      BY <1>1, <1>4, <2>3 DEF IsInjective
  <1>8. /\ groups \in Seq(Seq(Ids(r)))
        /\ \A g : g \in ToSet(groups) <=> \E n \in DOMAIN s : g \in ToSet(seqs[n])
        /\ IsInjective(groups)
    BY <1>2, <1>4, <1>5, <1>6, <1>7, FlattenLists
  <1>9. \A g \in ToSet(groups) :
          \E o \in Outcomes : g \in ToSet(GroupsOf(r, o)) /\ InMode(a, r, o, mode)
    BY <1>1, <1>5, <1>8
  <1>10. \A k \in DOMAIN groups : groups[k] \in ToSet(groups)
    BY DEF ToSet
  <1>11. \A k \in DOMAIN groups : IsInjective(groups[k])
    BY <1>9, <1>10, GroupsOfIs
  <1>12. ASSUME NEW g \in ToSet(groups), NEW h \in ToSet(groups), ToSet(g) \cap ToSet(h) # {}
         PROVE  g = h
    <2>1. PICK o \in Outcomes : g \in ToSet(GroupsOf(r, o))
      BY <1>9
    <2>2. PICK q \in Outcomes : h \in ToSet(GroupsOf(r, q))
      BY <1>9
    <2>3. PICK id : id \in ToSet(g) /\ id \in ToSet(h)
      BY <1>12
    <2>4. id[1] = o /\ id[1] = q
      BY <2>1, <2>2, <2>3, GroupsOfIs
    <2> QED
      BY <1>12, <2>1, <2>2, <2>4, GroupsOfIs
  <1>13. \A i, j \in DOMAIN groups : ToSet(groups[i]) \cap ToSet(groups[j]) # {} => i = j
    BY <1>8, <1>10, <1>12 DEF IsInjective
  <1>14. /\ list \in Seq(Ids(r))
         /\ \A id : id \in ToSet(list) <=> \E k \in DOMAIN groups : id \in ToSet(groups[k])
         /\ IsInjective(list)
    BY <1>2, <1>8, <1>11, <1>13, FlattenLists
  <1>15. ASSUME NEW id \in ToSet(list)
         PROVE  id \in Ids(r) /\ InMode(a, r, id[1], mode)
    <2>1. PICK g \in ToSet(groups) : id \in ToSet(g)
      BY <1>10, <1>14
    <2>2. PICK o \in Outcomes : g \in ToSet(GroupsOf(r, o)) /\ InMode(a, r, o, mode)
      BY <1>9
    <2>3. id[1] = o
      BY <2>1, <2>2, GroupsOfIs
    <2>4. \A n \in DOMAIN list : list[n] \in Ids(r)
      BY <1>14, ElementOfSeq, LenProperties
    <2>5. id \in Ids(r)
      BY <2>4 DEF ToSet
    <2> QED
      BY <2>2, <2>3, <2>5
  <1>16. ASSUME NEW id \in Ids(r), InMode(a, r, id[1], mode)
         PROVE  id \in ToSet(list)
    <2>1. id[1] \in Outcomes
      BY DEF Ids
    <2>2. PICK n \in DOMAIN s : s[n] = id[1]
      BY <1>1, <2>1
    <2>3. PICK g \in ToSet(GroupsOf(r, id[1])) : id \in ToSet(g)
      BY <2>1, GroupsOfIs
    <2>4. g \in ToSet(groups)
      BY <1>3, <1>8, <1>16, <2>2, <2>3
    <2>5. \E k \in DOMAIN groups : groups[k] = g
      BY <2>4 DEF ToSet
    <2> QED
      BY <1>14, <2>3, <2>5
  <1> QED
    BY <1>14, <1>15, <1>16 DEF list

=============================================================================
