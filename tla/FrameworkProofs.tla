-------------------------- MODULE FrameworkProofs --------------------------
(***************************************************************************)
(* What holds of every framework: which pages there are, which one follows *)
(* which, and when the progress of a self-assessment is 100 percent.       *)
(*                                                                         *)
(* The pages are flattened sequences; what FlattenSeq returns is proved by *)
(* induction over a set of numbers, with the library's theorem that < is   *)
(* well founded.                                                           *)
(***************************************************************************)
EXTENDS Questionnaire, FiniteSetTheorems, SequenceTheorems, WellFoundedInduction, TLAPS

-----------------------------------------------------------------------------
(* Induction.                                                              *)

Less == {pair \in Nat \X Nat : pair[1] < pair[2]}

\* Induction over a set of numbers.
LEMMA SetInduction ==
  ASSUME NEW S, 0 \in S, \A n \in Nat : n \in S => n + 1 \in S
  PROVE  \A n \in Nat : n \in S
  <1> SUFFICES ASSUME Nat \ S # {} PROVE FALSE
    OBVIOUS
  <1>1. \A m, n \in Nat : m < n => <<m, n>> \in Less
    BY DEF Less
  <1>2. IsWellFoundedOn(Less, Nat)
    BY NatLessThanWellFounded, Zenon DEF Less, OpToRel
  <1>3. PICK n \in Nat \ S : \A m \in Nat \ S : <<m, n>> \notin Less
    BY <1>2, WFMin, Zenon
  <1>4. n # 0 /\ n \in Nat
    OBVIOUS
  <1>5. n - 1 \in Nat /\ n - 1 < n /\ n = (n - 1) + 1
    BY <1>4
  <1>6. n - 1 \in S
    BY <1>1, <1>3, <1>5
  <1> QED
    BY <1>3, <1>5, <1>6

-----------------------------------------------------------------------------
(* Flattened sequences.                                                    *)

\* The sequences FlattenSeq goes through exist.
Flattens(f, seqs, n) ==
  /\ f = [i \in 1 .. n |-> f[i]]
  /\ \A i \in 1 .. n : f[i] = IF i = 1 THEN seqs[i] ELSE f[i - 1] \o seqs[i]

LEMMA FlattenExists ==
  ASSUME NEW seqs
  PROVE  \A n \in Nat : \E f : Flattens(f, seqs, n)
  <1> DEFINE S == {n \in Nat : \E f : Flattens(f, seqs, n)}
  <1>1. 0 \in S
    <2> DEFINE f == [i \in 1 .. 0 |-> i]
    <2>1. Flattens(f, seqs, 0)
      BY DEF Flattens
    <2> QED
      BY <2>1
  <1>2. ASSUME NEW n \in Nat, n \in S PROVE n + 1 \in S
    <2>1. PICK f : Flattens(f, seqs, n)
      BY <1>2
    <2> DEFINE next == IF n + 1 = 1 THEN seqs[n + 1] ELSE f[n] \o seqs[n + 1]
               g == [i \in 1 .. n + 1 |-> IF i \in 1 .. n THEN f[i] ELSE next]
    <2>2. \A i \in 1 .. n : g[i] = f[i]
      OBVIOUS
    <2>3. g[n + 1] = next
      OBVIOUS
    <2>4. g = [i \in 1 .. n + 1 |-> g[i]]
      OBVIOUS
    <2> HIDE DEF g, next
    <2>5. ASSUME NEW i \in 1 .. n PROVE g[i] = IF i = 1 THEN seqs[i] ELSE g[i - 1] \o seqs[i]
      <3>1. f[i] = IF i = 1 THEN seqs[i] ELSE f[i - 1] \o seqs[i]
        BY <2>1 DEF Flattens
      <3>2. i # 1 => i - 1 \in 1 .. n
        OBVIOUS
      <3>3. g[i] = f[i] /\ (i # 1 => g[i - 1] = f[i - 1])
        BY <2>2, <3>2
      <3> QED
        BY <3>1, <3>3
    <2>6. g[n + 1] = IF n + 1 = 1 THEN seqs[n + 1] ELSE g[n + 1 - 1] \o seqs[n + 1]
      <3>1. n + 1 # 1 => n \in 1 .. n /\ n + 1 - 1 = n
        OBVIOUS
      <3> QED
        BY <2>2, <2>3, <3>1 DEF next
    <2>7. Flattens(g, seqs, n + 1)
      <3>1. \A i \in 1 .. n + 1 : i \in 1 .. n \/ i = n + 1
        OBVIOUS
      <3>2. \A i \in 1 .. n + 1 : g[i] = IF i = 1 THEN seqs[i] ELSE g[i - 1] \o seqs[i]
        BY <2>5, <2>6, <3>1
      <3> QED
        BY <2>4, <3>2 DEF Flattens
    <2> QED
      BY <2>7
  <1> HIDE DEF S
  <1>3. \A n \in Nat : n \in S
    BY <1>1, <1>2, SetInduction
  <1> QED
    BY <1>3 DEF S

LEMMA FlattenSteps ==
  ASSUME NEW f, NEW seqs, NEW n \in Nat, Flattens(f, seqs, n)
  PROVE  /\ n # 0 => f[1] = seqs[1]
         /\ \A i \in Nat : i # 0 /\ i + 1 \in 1 .. n => f[i + 1] = f[i] \o seqs[i + 1]
  <1>1. \A k \in 1 .. n : f[k] = IF k = 1 THEN seqs[k] ELSE f[k - 1] \o seqs[k]
    BY Zenon DEF Flattens
  <1>2. n # 0 => f[1] = seqs[1]
    BY <1>1
  <1>3. ASSUME NEW i \in Nat, i # 0, i + 1 \in 1 .. n PROVE f[i + 1] = f[i] \o seqs[i + 1]
    <2>1. PICK k \in 1 .. n : k = i + 1
      BY <1>3
    <2>2. k # 1 /\ k - 1 = i
      BY <1>3, <2>1
    <2>3. f[k] = f[k - 1] \o seqs[k]
      BY <1>1, <2>2
    <2> QED
      BY <2>1, <2>2, <2>3
  <1> QED
    BY <1>2, <1>3

LEMMA FlattenIs ==
  ASSUME NEW seqs, Len(seqs) \in Nat, Len(seqs) # 0
  PROVE  \E f : Flattens(f, seqs, Len(seqs)) /\ FlattenSeq(seqs) = f[Len(seqs)]
  <1>1. PICK g : Flattens(g, seqs, Len(seqs))
    BY FlattenExists
  <1>2. g = [i \in 1 .. Len(seqs) |-> IF i = 1 THEN seqs[i] ELSE g[i - 1] \o seqs[i]]
    BY <1>1 DEF Flattens
  <1> DEFINE F == CHOOSE f : f = [i \in 1 .. Len(seqs) |-> IF i = 1 THEN seqs[i] ELSE f[i - 1] \o seqs[i]]
  <1>3. F = [i \in 1 .. Len(seqs) |-> IF i = 1 THEN seqs[i] ELSE F[i - 1] \o seqs[i]]
    BY <1>2, Zenon
  <1>4. FlattenSeq(seqs) = F[Len(seqs)]
    BY Zenon DEF FlattenSeq
  <1> HIDE DEF F
  <1>5. Flattens(F, seqs, Len(seqs))
    BY <1>3 DEF Flattens
  <1> QED
    BY <1>4, <1>5

\* A set that is closed under concatenation has the flattened sequence.
LEMMA FlattenInto ==
  ASSUME NEW S, \A s, t \in S : s \o t \in S,
         NEW seqs, Len(seqs) \in Nat, Len(seqs) # 0, \A i \in 1 .. Len(seqs) : seqs[i] \in S
  PROVE  FlattenSeq(seqs) \in S
  <1>1. PICK f : Flattens(f, seqs, Len(seqs)) /\ FlattenSeq(seqs) = f[Len(seqs)]
    BY FlattenIs
  <1>0. /\ f[1] = seqs[1]
        /\ \A i \in Nat : i # 0 /\ i + 1 \in 1 .. Len(seqs) => f[i + 1] = f[i] \o seqs[i + 1]
    <2>1. \A n \in Nat : Flattens(f, seqs, n) =>
            /\ n # 0 => f[1] = seqs[1]
            /\ \A i \in Nat : i # 0 /\ i + 1 \in 1 .. n => f[i + 1] = f[i] \o seqs[i + 1]
      BY FlattenSteps
    <2> QED
      BY <1>1, <2>1, Zenon
  <1> DEFINE T == {i \in Nat : i \in 1 .. Len(seqs) => f[i] \in S}
  <1>2. 0 \in T
    OBVIOUS
  <1>3. ASSUME NEW i \in Nat, i \in T PROVE i + 1 \in T
    <2> SUFFICES ASSUME i + 1 \in 1 .. Len(seqs) PROVE f[i + 1] \in S
      OBVIOUS
    <2>1. /\ f[1] = seqs[1]
          /\ i # 0 => f[i + 1] = f[i] \o seqs[i + 1]
      BY <1>0, Zenon
    <2>2. CASE i = 0
      BY <2>1, <2>2
    <2>3. CASE i # 0
      <3>1. i \in 1 .. Len(seqs)
        BY <2>3
      <3>2. f[i] \in S
        BY <1>3, <3>1
      <3> QED
        BY <2>1, <2>3, <3>2
    <2> QED
      BY <2>2, <2>3
  <1> HIDE DEF T
  <1>4. \A i \in Nat : i \in T
    BY <1>2, <1>3, SetInduction
  <1>5. Len(seqs) \in T /\ Len(seqs) \in 1 .. Len(seqs)
    BY <1>4
  <1> QED
    BY <1>1, <1>5 DEF T

LEMMA ConcatSet ==
  ASSUME NEW X, NEW s \in Seq(X), NEW t \in Seq(X)
  PROVE  ToSet(s \o t) = ToSet(s) \cup ToSet(t)
  <1>1. /\ DOMAIN s = 1 .. Len(s) /\ Len(s) \in Nat
        /\ DOMAIN t = 1 .. Len(t) /\ Len(t) \in Nat
    BY LenProperties
  <1>2. /\ s \o t \in Seq(X) /\ Len(s \o t) = Len(s) + Len(t)
        /\ \A i \in 1 .. Len(s) + Len(t) :
             (s \o t)[i] = IF i <= Len(s) THEN s[i] ELSE t[i - Len(s)]
    BY ConcatProperties
  <1> DEFINE u == s \o t
  <1>3. DOMAIN u = 1 .. Len(s) + Len(t)
    BY <1>2, LenProperties
  <1> HIDE DEF u
  <1>4. \A i \in DOMAIN s : i \in DOMAIN u /\ u[i] = s[i]
    BY <1>1, <1>2, <1>3 DEF u
  <1>5. \A i \in DOMAIN t : i + Len(s) \in DOMAIN u /\ u[i + Len(s)] = t[i]
    <2> TAKE i \in DOMAIN t
    <2>1. i + Len(s) \in 1 .. Len(s) + Len(t) /\ ~ (i + Len(s) <= Len(s))
          /\ i + Len(s) - Len(s) = i
      BY <1>1
    <2> QED
      BY <1>2, <1>3, <2>1 DEF u
  <1>6. \A i \in DOMAIN u : u[i] \in ToSet(s) \cup ToSet(t)
    <2> TAKE i \in DOMAIN u
    <2>1. CASE i <= Len(s)
      BY <1>1, <1>2, <1>3, <2>1 DEF u, ToSet
    <2>2. CASE ~ (i <= Len(s))
      <3>1. i - Len(s) \in DOMAIN t /\ u[i] = t[i - Len(s)]
        BY <1>1, <1>2, <1>3, <2>2 DEF u
      <3> QED
        BY <3>1 DEF ToSet
    <2> QED
      BY <2>1, <2>2
  <1>7. ToSet(u) \subseteq ToSet(s) \cup ToSet(t)
    BY <1>6 DEF ToSet
  <1>8. ToSet(s) \cup ToSet(t) \subseteq ToSet(u)
    BY <1>4, <1>5 DEF ToSet
  <1> QED
    BY <1>7, <1>8 DEF u

\* The flattened sequence has the elements of all of the sequences.
LEMMA FlattenElements ==
  ASSUME NEW X, NEW seqs, Len(seqs) \in Nat, Len(seqs) # 0,
         \A i \in 1 .. Len(seqs) : seqs[i] \in Seq(X)
  PROVE  /\ FlattenSeq(seqs) \in Seq(X)
         /\ \A x : x \in ToSet(FlattenSeq(seqs)) <=> \E i \in 1 .. Len(seqs) : x \in ToSet(seqs[i])
  <1>1. PICK f : Flattens(f, seqs, Len(seqs)) /\ FlattenSeq(seqs) = f[Len(seqs)]
    BY FlattenIs
  <1> DEFINE Right(i) == /\ f[i] \in Seq(X)
                         /\ \A x : x \in ToSet(f[i]) <=> \E j \in 1 .. i : x \in ToSet(seqs[j])
             T == {i \in Nat : i \in 1 .. Len(seqs) => Right(i)}
  <1>2. 0 \in T
    OBVIOUS
  <1>3. ASSUME NEW i \in Nat, i \in T PROVE i + 1 \in T
    <2> SUFFICES ASSUME i + 1 \in 1 .. Len(seqs) PROVE Right(i + 1)
      OBVIOUS
    <2>1. /\ f[1] = seqs[1]
          /\ i # 0 => f[i + 1] = f[i] \o seqs[i + 1]
      BY <1>1, FlattenSteps
    <2>2. CASE i = 0
      <3>1. f[1] = seqs[1] /\ 1 .. 1 = {1} /\ 1 \in 1 .. Len(seqs) /\ i + 1 = 1
        BY <2>1, <2>2
      <3> QED
        BY <3>1
    <2>3. CASE i # 0
      <3>1. i \in 1 .. Len(seqs) /\ 1 .. i + 1 = (1 .. i) \cup {i + 1}
        BY <2>3
      <3>2. Right(i)
        BY <1>3, <3>1
      <3>3. f[i + 1] = f[i] \o seqs[i + 1] /\ seqs[i + 1] \in Seq(X)
        BY <2>1, <2>3
      <3>4. f[i + 1] \in Seq(X) /\ ToSet(f[i + 1]) = ToSet(f[i]) \cup ToSet(seqs[i + 1])
        BY <3>2, <3>3, ConcatProperties, ConcatSet
      <3> QED
        BY <3>1, <3>2, <3>4
    <2> QED
      BY <2>2, <2>3
  <1> HIDE DEF T
  <1>4. \A i \in Nat : i \in T
    BY <1>2, <1>3, SetInduction
  <1>5. Len(seqs) \in T /\ Len(seqs) \in 1 .. Len(seqs)
    BY <1>4
  <1> QED
    BY <1>1, <1>5 DEF T

\* The same for a sequence that is made element by element of another.
LEMMA FlattenMap ==
  ASSUME NEW X, NEW s, IsASequence(s), NEW seqs, seqs = [i \in DOMAIN s |-> seqs[i]],
         \A i \in DOMAIN s : seqs[i] \in Seq(X)
  PROVE  /\ FlattenSeq(seqs) \in Seq(X)
         /\ \A x : x \in ToSet(FlattenSeq(seqs)) <=> \E i \in DOMAIN s : x \in ToSet(seqs[i])
  <1>1. DOMAIN s = 1 .. Len(s) /\ Len(s) \in Nat
    BY LenProperties DEF IsASequence
  <1>2. DOMAIN seqs = 1 .. Len(s)
    BY <1>1
  <1>3. seqs \in Seq(Seq(X))
    BY <1>1, <1>2, SeqDef
  <1>4. Len(seqs) = Len(s)
    BY <1>1, <1>2, <1>3, LenProperties
  <1>5. CASE Len(s) # 0
    BY <1>1, <1>4, <1>5, FlattenElements
  <1>6. CASE Len(s) = 0
    <2>1. FlattenSeq(seqs) = seqs
      BY <1>4, <1>6, Zenon DEF FlattenSeq
    <2>2. seqs = <<>>
      BY <1>3, <1>4, <1>6, EmptySeq
    <2> QED
      <3>1. <<>> \in Seq(X) /\ DOMAIN seqs = {} /\ DOMAIN s = {}
        BY <1>1, <1>2, <1>6, EmptySeq
      <3>2. ToSet(seqs) = {}
        BY <3>1 DEF ToSet
      <3> QED
        BY <2>1, <2>2, <3>1, <3>2
  <1> QED
    BY <1>1, <1>5, <1>6

LEMMA NotEmpty ==
  ASSUME NEW s, IsASequence(s), s # <<>>
  PROVE  s[1] \in ToSet(s)
  <1>1. DOMAIN s = 1 .. Len(s) /\ Len(s) \in Nat /\ Len(s) # 0
    BY LenProperties, EmptySeq DEF IsASequence
  <1> QED
    BY <1>1 DEF ToSet

LEMMA FlattenMapInto ==
  ASSUME NEW S, \A s, t \in S : s \o t \in S,
         NEW s, IsASequence(s), s # <<>>, NEW seqs, seqs = [i \in DOMAIN s |-> seqs[i]],
         \A i \in DOMAIN s : seqs[i] \in S
  PROVE  FlattenSeq(seqs) \in S
  <1>1. DOMAIN s = 1 .. Len(s) /\ Len(s) \in Nat /\ Len(s) # 0
    BY LenProperties, EmptySeq DEF IsASequence
  <1>2. DOMAIN seqs = 1 .. Len(s)
    BY <1>1
  <1>3. seqs \in Seq(S)
    BY <1>1, <1>2, SeqDef
  <1>4. Len(seqs) = Len(s)
    BY <1>1, <1>2, <1>3, LenProperties
  <1> QED
    BY <1>1, <1>4, FlattenInto

-----------------------------------------------------------------------------
(* Folded sequences.                                                       *)

LEMMA MaxIsLast ==
  ASSUME NEW n \in Nat, NEW s \in SUBSET (1 .. n + 1), n + 1 \in s
  PROVE  Max(s) = n + 1
  <1>1. \A y \in s : n + 1 >= y
    OBVIOUS
  <1>2. \A x \in s : (\A y \in s : x >= y) => x = n + 1
    OBVIOUS
  <1> QED
    BY <1>1, <1>2 DEF Max

LEMMA MaxIn ==
  ASSUME NEW n \in Nat, NEW s \in SUBSET (1 .. n), s # {}
  PROVE  Max(s) \in s
  <1> DEFINE T == {k \in Nat : \A t \in SUBSET (1 .. k) : t # {} => \E x \in t : \A y \in t : x >= y}
  <1>1. 0 \in T
    <2>1. \A t \in SUBSET (1 .. 0) : t = {}
      OBVIOUS
    <2> QED
      BY <2>1
  <1>2. ASSUME NEW k \in Nat, k \in T PROVE k + 1 \in T
    <2> SUFFICES ASSUME NEW t \in SUBSET (1 .. k + 1), t # {}
                 PROVE  \E x \in t : \A y \in t : x >= y
      OBVIOUS
    <2>1. CASE k + 1 \in t
      BY <2>1
    <2>2. CASE k + 1 \notin t
      <3>1. t \in SUBSET (1 .. k)
        BY <2>2
      <3> QED
        BY <1>2, <3>1
    <2> QED
      BY <2>1, <2>2
  <1> HIDE DEF T
  <1>3. \A k \in Nat : k \in T
    BY <1>1, <1>2, SetInduction
  <1>4. \E x \in s : \A y \in s : x >= y
    BY <1>3 DEF T
  <1> QED
    BY <1>4 DEF Max

\* The function FoldLeft goes through; the operation is a function here.
Folds(g, X, base, op, r, n) ==
  /\ g \in [SUBSET (1 .. n) -> X]
  /\ g[{}] = base
  /\ \A s \in SUBSET (1 .. n) : s # {} => g[s] = op[<<g[s \ {Max(s)}], r[Max(s)]>>]

LEMMA FoldExists ==
  ASSUME NEW X, NEW Y, NEW base \in X, NEW op \in [X \X Y -> X], NEW r,
         NEW n \in Nat, \A i \in 1 .. n : r[i] \in Y
  PROVE  \E g : Folds(g, X, base, op, r, n)
  <1> DEFINE Goes(g, k) ==
               /\ g \in [SUBSET (1 .. k) -> X]
               /\ g[{}] = base
               /\ \A s \in SUBSET (1 .. k) : s # {} => g[s] = op[<<g[s \ {Max(s)}], r[Max(s)]>>]
             T == {k \in Nat : k <= n => \E g : Goes(g, k)}
  <1>1. 0 \in T
    <2> DEFINE g == [s \in SUBSET (1 .. 0) |-> base]
    <2>1. \A s \in SUBSET (1 .. 0) : s = {}
      OBVIOUS
    <2>2. Goes(g, 0)
      BY <2>1
    <2> QED
      BY <2>2
  <1>2. ASSUME NEW k \in Nat, k \in T PROVE k + 1 \in T
    <2> HIDE DEF Goes
    <2> SUFFICES ASSUME k + 1 <= n PROVE \E g : Goes(g, k + 1)
      OBVIOUS
    <2>1. PICK f : Goes(f, k)
      BY <1>2
    <2> USE DEF Goes
    <2> DEFINE last == k + 1
               g == [s \in SUBSET (1 .. last) |->
                       IF last \in s THEN op[<<f[s \ {last}], r[last]>>] ELSE f[s]]
    <2>2. \A s \in SUBSET (1 .. last) : s \ {last} \in SUBSET (1 .. k)
      OBVIOUS
    <2>3. \A s \in SUBSET (1 .. last) : last \notin s => s \in SUBSET (1 .. k)
      OBVIOUS
    <2>4. \A s \in SUBSET (1 .. k) : last \notin s /\ s \in SUBSET (1 .. last)
      OBVIOUS
    <2>5. r[last] \in Y
      BY <1>2
    <2>6. \A s \in SUBSET (1 .. last) : last \in s => Max(s) = last
      BY MaxIsLast
    <2> HIDE DEF last
    <2>7. \A s \in SUBSET (1 .. last) :
            /\ last \in s => g[s] = op[<<f[s \ {last}], r[last]>>]
            /\ last \notin s => g[s] = f[s]
      OBVIOUS
    <2>8. g \in [SUBSET (1 .. last) -> X]
      BY <2>1, <2>2, <2>3, <2>5
    <2> HIDE DEF g
    <2>9. g[{}] = base
      BY <2>1, <2>7
    <2>10. ASSUME NEW s \in SUBSET (1 .. last), s # {}
           PROVE  g[s] = op[<<g[s \ {Max(s)}], r[Max(s)]>>]
      <3>1. CASE last \in s
        <4>1. s \ {last} \in SUBSET (1 .. k) /\ Max(s) = last
          BY <2>2, <2>6, <3>1
        <4>2. g[s \ {last}] = f[s \ {last}]
          BY <2>4, <2>7, <4>1
        <4> QED
          BY <2>7, <3>1, <4>1, <4>2
      <3>2. CASE last \notin s
        <4>1. s \in SUBSET (1 .. k) /\ s \ {Max(s)} \in SUBSET (1 .. k)
          BY <2>3, <3>2
        <4>2. g[s] = f[s] /\ g[s \ {Max(s)}] = f[s \ {Max(s)}]
          BY <2>4, <2>7, <4>1
        <4>3. f[s] = op[<<f[s \ {Max(s)}], r[Max(s)]>>]
          BY <2>1, <2>10, <4>1
        <4> QED
          BY <4>2, <4>3
      <3> QED
        BY <3>1, <3>2
    <2> QED
      BY <2>8, <2>9, <2>10 DEF last
  <1> HIDE DEF T
  <1>3. \A k \in Nat : k \in T
    BY <1>1, <1>2, SetInduction
  <1>4. n \in T /\ n <= n
    BY <1>3
  <1>5. PICK g : Goes(g, n)
    BY <1>4 DEF T
  <1>6. Folds(g, X, base, op, r, n)
    BY <1>5 DEF Folds
  <1> QED
    BY <1>6

-----------------------------------------------------------------------------
(* The pages.                                                              *)

Page(type, code) == [type |-> type, code |-> code]

AllPages ==
  {Page("objective", b) : b \in ToSet(Objectives)}
  \cup {Page("principle", p) : p \in Principles}
  \cup {Page(type, o) : type \in {"indicators", "confirmation"}, o \in Outcomes}

\* Where the page of an outcome's statements is, its confirmation comes next.
Paired ==
  {s \in Seq(AllPages) :
     \A n \in DOMAIN s :
       s[n].type = "indicators" => n + 1 \in DOMAIN s /\ s[n + 1] = Page("confirmation", s[n].code)}

LEMMA ElementOf ==
  ASSUME NEW X, NEW x \in X
  PROVE  <<x>> \in Seq(X) /\ Len(<<x>>) = 1 /\ ToSet(<<x>>) = {x} /\ <<x>>[1] = x
  BY DEF ToSet

LEMMA PairedConcat == \A s, t \in Paired : s \o t \in Paired
  <1> SUFFICES ASSUME NEW s \in Paired, NEW t \in Paired PROVE s \o t \in Paired
    OBVIOUS
  <1>1. s \in Seq(AllPages) /\ t \in Seq(AllPages)
    BY DEF Paired
  <1>2. /\ DOMAIN s = 1 .. Len(s) /\ Len(s) \in Nat
        /\ DOMAIN t = 1 .. Len(t) /\ Len(t) \in Nat
    BY <1>1, LenProperties
  <1> DEFINE u == s \o t
  <1>3. /\ u \in Seq(AllPages) /\ Len(u) = Len(s) + Len(t)
        /\ \A i \in 1 .. Len(s) + Len(t) : u[i] = IF i <= Len(s) THEN s[i] ELSE t[i - Len(s)]
    BY <1>1, ConcatProperties
  <1>4. DOMAIN u = 1 .. Len(s) + Len(t)
    BY <1>3, LenProperties
  <1> HIDE DEF u
  <1>5. ASSUME NEW n \in DOMAIN u, u[n].type = "indicators"
        PROVE  n + 1 \in DOMAIN u /\ u[n + 1] = Page("confirmation", u[n].code)
    <2>1. CASE n <= Len(s)
      <3>1. n \in DOMAIN s /\ u[n] = s[n]
        BY <1>2, <1>3, <1>4, <2>1
      <3>2. n + 1 \in DOMAIN s /\ s[n + 1] = Page("confirmation", s[n].code)
        BY <1>5, <3>1 DEF Paired
      <3>3. n + 1 \in DOMAIN u /\ u[n + 1] = s[n + 1]
        BY <1>2, <1>3, <1>4, <3>2
      <3> QED
        BY <3>1, <3>2, <3>3
    <2>2. CASE ~ (n <= Len(s))
      <3>1. PICK m \in DOMAIN t : m = n - Len(s) /\ u[n] = t[m]
        BY <1>2, <1>3, <1>4, <2>2
      <3>2. m + 1 \in DOMAIN t /\ t[m + 1] = Page("confirmation", t[m].code)
        BY <1>5, <3>1 DEF Paired
      <3>3. n + 1 \in DOMAIN u /\ ~ (n + 1 <= Len(s)) /\ n + 1 - Len(s) = m + 1
        BY <1>2, <1>4, <2>2, <3>1, <3>2
      <3>4. u[n + 1] = t[m + 1]
        BY <1>3, <1>4, <3>3
      <3> QED
        BY <3>1, <3>2, <3>3, <3>4
    <2> QED
      BY <2>1, <2>2
  <1> QED
    BY <1>3, <1>5 DEF u, Paired

LEMMA OutcomePagesFacts ==
  ASSUME NEW o \in Outcomes
  PROVE  /\ OutcomePages(o) \in Paired
         /\ ToSet(OutcomePages(o)) = {Page("indicators", o), Page("confirmation", o)}
  <1> DEFINE first == Page("indicators", o)
             second == Page("confirmation", o)
             s == <<first, second>>
  <1>1. first \in AllPages /\ second \in AllPages
    BY DEF AllPages
  <1>2. OutcomePages(o) = s
    BY DEF OutcomePages, Page
  <1>3. second.type # "indicators" /\ first.code = o
    BY DEF Page
  <1> HIDE DEF first, second
  <1>4. s \in Seq(AllPages) /\ DOMAIN s = {1, 2} /\ s[1] = first /\ s[2] = second
    BY <1>1
  <1>5. s \in Paired
    BY <1>3, <1>4 DEF Paired, second
  <1>6. ToSet(s) = {first, second}
    BY <1>4 DEF ToSet
  <1> QED
    BY <1>2, <1>5, <1>6 DEF first, second

LEMMA PrinciplePagesFacts ==
  ASSUME NEW p \in Principles
  PROVE  /\ PrinciplePages(p) \in Paired
         /\ \A x : x \in ToSet(PrinciplePages(p)) <=>
              \/ x = Page("principle", p)
              \/ \E o \in ToSet(OutcomesOf[p]) : x \in {Page("indicators", o), Page("confirmation", o)}
  <1> DEFINE s == OutcomesOf[p]
             seqs == [i \in DOMAIN s |-> OutcomePages(s[i])]
             first == <<Page("principle", p)>>
  <1>1. IsASequence(s) /\ s # <<>> /\ \A i \in DOMAIN s : s[i] \in Outcomes
    BY FrameworkAssumption DEF Outcomes, ToSet
  <1>2. PrinciplePages(p) = first \o FlattenSeq(seqs)
    BY DEF PrinciplePages, Page
  <1>3. /\ seqs = [i \in DOMAIN s |-> seqs[i]]
        /\ \A i \in DOMAIN s : seqs[i] = OutcomePages(s[i])
    OBVIOUS
  <1> HIDE DEF seqs
  <1>4. \A i \in DOMAIN s :
          /\ seqs[i] \in Paired /\ seqs[i] \in Seq(AllPages)
          /\ ToSet(seqs[i]) = {Page("indicators", s[i]), Page("confirmation", s[i])}
    BY <1>1, <1>3, OutcomePagesFacts DEF Paired
  <1> HIDE DEF s
  <1>5. FlattenSeq(seqs) \in Paired /\ FlattenSeq(seqs) \in Seq(AllPages)
    BY <1>1, <1>3, <1>4, FlattenMapInto, PairedConcat DEF Paired
  <1>6. \A x : x \in ToSet(FlattenSeq(seqs)) <=> \E i \in DOMAIN s : x \in ToSet(seqs[i])
    BY <1>1, <1>3, <1>4, FlattenMap
  <1>7. Page("principle", p) \in AllPages /\ Page("principle", p).type # "indicators"
    BY DEF AllPages, Page
  <1>8. first \in Seq(AllPages) /\ ToSet(first) = {Page("principle", p)}
    BY <1>7, ElementOf
  <1>9. first \in Paired
    BY <1>7, <1>8 DEF Paired
  <1> HIDE DEF first
  <1>10. first \o FlattenSeq(seqs) \in Paired
    BY <1>5, <1>9, PairedConcat
  <1>11. ToSet(first \o FlattenSeq(seqs)) = ToSet(first) \cup ToSet(FlattenSeq(seqs))
    BY <1>5, <1>8, ConcatSet
  <1>12. \A x : x \in ToSet(PrinciplePages(p)) <=>
           \/ x = Page("principle", p)
           \/ \E i \in DOMAIN s : x \in {Page("indicators", s[i]), Page("confirmation", s[i])}
    <2>1. \A x : x \in ToSet(PrinciplePages(p)) <=>
            x = Page("principle", p) \/ x \in ToSet(FlattenSeq(seqs))
      BY <1>2, <1>8, <1>11
    <2>2. \A x : x \in ToSet(FlattenSeq(seqs)) <=>
            \E i \in DOMAIN s : x \in {Page("indicators", s[i]), Page("confirmation", s[i])}
      <3>1. \A i \in DOMAIN s : \A x :
              x \in ToSet(seqs[i]) <=> x \in {Page("indicators", s[i]), Page("confirmation", s[i])}
        BY <1>4, Zenon
      <3> QED
        BY <1>6, <3>1, Zenon
    <2> QED
      BY <2>1, <2>2
  <1> QED
    BY <1>2, <1>10, <1>12 DEF s, ToSet

LEMMA ObjectivePagesFacts ==
  ASSUME NEW b \in ToSet(Objectives)
  PROVE  /\ ObjectivePages(b) \in Paired
         /\ \A x : x \in ToSet(ObjectivePages(b)) <=>
              \/ x = Page("objective", b)
              \/ \E p \in ToSet(PrinciplesOf[b]) : x \in ToSet(PrinciplePages(p))
  <1> DEFINE s == PrinciplesOf[b]
             seqs == [i \in DOMAIN s |-> PrinciplePages(s[i])]
             first == <<Page("objective", b)>>
  <1>1. IsASequence(s) /\ s # <<>> /\ \A i \in DOMAIN s : s[i] \in Principles
    BY FrameworkAssumption DEF Principles, ToSet
  <1>2. ObjectivePages(b) = first \o FlattenSeq(seqs)
    BY DEF ObjectivePages, Page
  <1>3. /\ seqs = [i \in DOMAIN s |-> seqs[i]]
        /\ \A i \in DOMAIN s : seqs[i] = PrinciplePages(s[i])
    OBVIOUS
  <1> HIDE DEF seqs
  <1>4. \A i \in DOMAIN s : seqs[i] \in Paired /\ seqs[i] \in Seq(AllPages)
    BY <1>1, <1>3, PrinciplePagesFacts DEF Paired
  <1> HIDE DEF s
  <1>5. FlattenSeq(seqs) \in Paired /\ FlattenSeq(seqs) \in Seq(AllPages)
    BY <1>1, <1>3, <1>4, FlattenMapInto, PairedConcat DEF Paired
  <1>6. \A x : x \in ToSet(FlattenSeq(seqs)) <=> \E i \in DOMAIN s : x \in ToSet(seqs[i])
    BY <1>1, <1>3, <1>4, FlattenMap
  <1>7. Page("objective", b) \in AllPages /\ Page("objective", b).type # "indicators"
    BY DEF AllPages, Page
  <1>8. first \in Seq(AllPages) /\ ToSet(first) = {Page("objective", b)}
    BY <1>7, ElementOf
  <1>9. first \in Paired
    BY <1>7, <1>8 DEF Paired
  <1> HIDE DEF first
  <1>10. first \o FlattenSeq(seqs) \in Paired
    BY <1>5, <1>9, PairedConcat
  <1>11. ToSet(first \o FlattenSeq(seqs)) = ToSet(first) \cup ToSet(FlattenSeq(seqs))
    BY <1>5, <1>8, ConcatSet
  <1>12. \A x : x \in ToSet(ObjectivePages(b)) <=>
           \/ x = Page("objective", b)
           \/ \E i \in DOMAIN s : x \in ToSet(PrinciplePages(s[i]))
    BY <1>2, <1>3, <1>6, <1>8, <1>11
  <1> QED
    BY <1>2, <1>10, <1>12 DEF s, ToSet

\* The pages of the framework, and the order of the two of an outcome.
LEMMA ElementsFacts ==
  /\ Elements \in Paired
  /\ ToSet(Elements) = AllPages
  <1> DEFINE s == Objectives
             seqs == [i \in DOMAIN s |-> ObjectivePages(s[i])]
  <1>1. IsASequence(s) /\ s # <<>> /\ \A i \in DOMAIN s : s[i] \in ToSet(Objectives)
    BY FrameworkAssumption DEF ToSet
  <1>2. Elements = FlattenSeq(seqs)
    BY DEF Elements
  <1>3. /\ seqs = [i \in DOMAIN s |-> seqs[i]]
        /\ \A i \in DOMAIN s : seqs[i] = ObjectivePages(s[i])
    OBVIOUS
  <1> HIDE DEF seqs
  <1>4. \A i \in DOMAIN s : seqs[i] \in Paired /\ seqs[i] \in Seq(AllPages)
    BY <1>1, <1>3, ObjectivePagesFacts DEF Paired
  <1>5. Elements \in Paired
    BY <1>1, <1>2, <1>3, <1>4, FlattenMapInto, PairedConcat
  <1>6. \A x : x \in ToSet(Elements) <=> \E i \in DOMAIN s : x \in ToSet(seqs[i])
    BY <1>1, <1>2, <1>3, <1>4, FlattenMap
  <1>7. \A x : x \in ToSet(Elements) <=> \E b \in ToSet(Objectives) : x \in ToSet(ObjectivePages(b))
    <2>1. \A b : b \in ToSet(Objectives) <=> \E i \in DOMAIN s : b = s[i]
      BY DEF ToSet
    <2> HIDE DEF s
    <2> QED
      BY <1>3, <1>6, <2>1
  <1>8. ToSet(Elements) \subseteq AllPages
    BY <1>5, ElementOfSeq, LenProperties DEF Paired, ToSet
  <1>9. ASSUME NEW x \in AllPages PROVE x \in ToSet(Elements)
    <2>1. CASE \E b \in ToSet(Objectives) : x = Page("objective", b)
      BY <1>7, <2>1, ObjectivePagesFacts
    <2>2. ASSUME NEW p \in Principles, x \in ToSet(PrinciplePages(p)) PROVE x \in ToSet(Elements)
      <3>1. PICK b \in ToSet(Objectives) : p \in ToSet(PrinciplesOf[b])
        BY DEF Principles
      <3> QED
        BY <1>7, <2>2, <3>1, ObjectivePagesFacts
    <2>3. CASE \E p \in Principles : x = Page("principle", p)
      BY <2>2, <2>3, PrinciplePagesFacts
    <2>4. CASE \E o \in Outcomes : x \in {Page("indicators", o), Page("confirmation", o)}
      <3>1. PICK o \in Outcomes : x \in {Page("indicators", o), Page("confirmation", o)}
        BY <2>4
      <3>2. PICK p \in Principles : o \in ToSet(OutcomesOf[p])
        BY DEF Outcomes
      <3> QED
        BY <2>2, <3>1, <3>2, PrinciplePagesFacts
    <2> QED
      BY <2>1, <2>3, <2>4 DEF AllPages
  <1> QED
    BY <1>5, <1>8, <1>9

\* After the statements of an outcome its confirmation; else a page or the draft.
LEMMA NextPageFacts ==
  /\ \A o \in Outcomes : NextPage(Page("indicators", o)) = Page("confirmation", o)
  /\ \A page \in AllPages : NextPage(page) \in AllPages \cup {DraftPage}
  <1>1. /\ Elements \in Seq(AllPages) /\ ToSet(Elements) = AllPages
        /\ DOMAIN Elements = 1 .. Len(Elements) /\ Len(Elements) \in Nat
    BY ElementsFacts, LenProperties DEF Paired
  <1>2. ASSUME NEW page \in AllPages
        PROVE  \E i \in DOMAIN Elements :
                 /\ Elements[i] = page
                 /\ NextPage(page) = IF i < Len(Elements) THEN Elements[i + 1] ELSE DraftPage
    <2> DEFINE i == CHOOSE n \in DOMAIN Elements : Elements[n] = page
    <2>1. \E n \in DOMAIN Elements : Elements[n] = page
      BY <1>1 DEF ToSet
    <2>2. i \in DOMAIN Elements /\ Elements[i] = page
      BY <2>1
    <2>3. NextPage(page) = IF i < Len(Elements) THEN Elements[i + 1] ELSE DraftPage
      BY Zenon DEF NextPage
    <2> HIDE DEF i
    <2> QED
      BY <2>2, <2>3
  <1>3. ASSUME NEW o \in Outcomes PROVE NextPage(Page("indicators", o)) = Page("confirmation", o)
    <2>1. Page("indicators", o) \in AllPages
      BY DEF AllPages
    <2>2. PICK i \in DOMAIN Elements :
            /\ Elements[i] = Page("indicators", o)
            /\ NextPage(Page("indicators", o)) = IF i < Len(Elements) THEN Elements[i + 1] ELSE DraftPage
      BY <1>2, <2>1
    <2>3. Elements[i].type = "indicators" /\ Elements[i].code = o
      BY <2>2 DEF Page
    <2>4. i + 1 \in DOMAIN Elements /\ Elements[i + 1] = Page("confirmation", o)
      BY <2>3, ElementsFacts DEF Paired
    <2> QED
      BY <1>1, <2>2, <2>4
  <1>4. ASSUME NEW page \in AllPages PROVE NextPage(page) \in AllPages \cup {DraftPage}
    <2>1. PICK i \in DOMAIN Elements :
            NextPage(page) = IF i < Len(Elements) THEN Elements[i + 1] ELSE DraftPage
      BY <1>2
    <2>2. i < Len(Elements) => i + 1 \in DOMAIN Elements
      BY <1>1
    <2> QED
      BY <1>1, <2>1, <2>2 DEF ToSet
  <1> QED
    BY <1>3, <1>4

-----------------------------------------------------------------------------
(* The outcomes.                                                           *)

LEMMA ImageFinite ==
  ASSUME NEW S, IsFiniteSet(S), NEW f, f = [x \in S |-> f[x]]
  PROVE  IsFiniteSet({f[x] : x \in S})
  <1> DEFINE T == {f[x] : x \in S}
  <1>1. f \in [S -> T]
    OBVIOUS
  <1>2. \A t \in T : \E x \in S : f[x] = t
    OBVIOUS
  <1> HIDE DEF T
  <1>3. f \in Surjection(S, T)
    BY <1>1, <1>2 DEF Surjection
  <1>4. IsFiniteSet(T)
    BY <1>3, FS_Surjection
  <1> QED
    BY <1>4 DEF T

LEMMA SequenceFinite ==
  ASSUME NEW s, IsASequence(s)
  PROVE  IsFiniteSet(ToSet(s))
  <1>1. DOMAIN s = 1 .. Len(s) /\ Len(s) \in Nat /\ s = [i \in DOMAIN s |-> s[i]]
    BY LenProperties DEF IsASequence
  <1>2. IsFiniteSet(DOMAIN s)
    BY <1>1, FS_Interval
  <1> QED
    BY <1>1, <1>2, ImageFinite DEF ToSet

LEMMA OutcomesFinite ==
  /\ IsFiniteSet(Outcomes)
  /\ Cardinality(Outcomes) \in Nat \ {0}
  <1>1. IsFiniteSet(ToSet(Objectives))
    BY FrameworkAssumption, SequenceFinite
  <1>2. IsFiniteSet(Principles)
    <2> DEFINE f == [b \in ToSet(Objectives) |-> ToSet(PrinciplesOf[b])]
    <2>1. IsFiniteSet({f[b] : b \in ToSet(Objectives)})
      <3>1. f = [b \in ToSet(Objectives) |-> f[b]]
        OBVIOUS
      <3> HIDE DEF f
      <3> QED
        BY <1>1, <3>1, ImageFinite
    <2>2. \A T \in {f[b] : b \in ToSet(Objectives)} : IsFiniteSet(T)
      BY FrameworkAssumption, SequenceFinite
    <2>3. IsFiniteSet(UNION {f[b] : b \in ToSet(Objectives)})
      BY <2>1, <2>2, FS_UNION
    <2>4. {f[b] : b \in ToSet(Objectives)} = {ToSet(PrinciplesOf[b]) : b \in ToSet(Objectives)}
      OBVIOUS
    <2> QED
      BY <2>3, <2>4 DEF Principles
  <1>3. IsFiniteSet(Outcomes)
    <2> DEFINE f == [p \in Principles |-> ToSet(OutcomesOf[p])]
    <2>1. IsFiniteSet({f[p] : p \in Principles})
      <3>1. f = [p \in Principles |-> f[p]]
        OBVIOUS
      <3> HIDE DEF f
      <3> QED
        BY <1>2, <3>1, ImageFinite
    <2>2. \A T \in {f[p] : p \in Principles} : IsFiniteSet(T)
      BY FrameworkAssumption, SequenceFinite
    <2>3. IsFiniteSet(UNION {f[p] : p \in Principles})
      BY <2>1, <2>2, FS_UNION
    <2>4. {f[p] : p \in Principles} = {ToSet(OutcomesOf[p]) : p \in Principles}
      OBVIOUS
    <2> QED
      BY <2>3, <2>4 DEF Outcomes
  <1>4. Outcomes # {}
    <2>1. Objectives[1] \in ToSet(Objectives)
      BY FrameworkAssumption, NotEmpty
    <2>2. PrinciplesOf[Objectives[1]][1] \in Principles
      BY <2>1, FrameworkAssumption, NotEmpty DEF Principles
    <2>3. OutcomesOf[PrinciplesOf[Objectives[1]][1]][1] \in Outcomes
      BY <2>2, FrameworkAssumption, NotEmpty DEF Outcomes
    <2> QED
      BY <2>3
  <1> QED
    BY <1>3, <1>4, FS_CardinalityType, FS_EmptySet

LEMMA OutcomeHome ==
  ASSUME NEW o \in Outcomes
  PROVE  /\ PrincipleOf(o) \in Principles /\ o \in ToSet(OutcomesOf[PrincipleOf(o)])
         /\ ObjectiveOf(o) \in ToSet(Objectives)
         /\ PrincipleOf(o) \in ToSet(PrinciplesOf[ObjectiveOf(o)])
         /\ \A p \in Principles : o \in ToSet(OutcomesOf[p]) => PrincipleOf(o) = p
         /\ \A b \in ToSet(Objectives) :
              PrincipleOf(o) \in ToSet(PrinciplesOf[b]) => ObjectiveOf(o) = b
  <1>1. \E p \in Principles : o \in ToSet(OutcomesOf[p])
    BY DEF Outcomes
  <1>2. PrincipleOf(o) \in Principles /\ o \in ToSet(OutcomesOf[PrincipleOf(o)])
    BY <1>1, Zenon DEF PrincipleOf
  <1>3. \E b \in ToSet(Objectives) : PrincipleOf(o) \in ToSet(PrinciplesOf[b])
    BY <1>2 DEF Principles
  <1>4. ObjectiveOf(o) \in ToSet(Objectives) /\ PrincipleOf(o) \in ToSet(PrinciplesOf[ObjectiveOf(o)])
    BY <1>3, Zenon DEF ObjectiveOf
  <1> QED
    BY <1>2, <1>4, CodesAssumption

LEMMA ObjectiveHasOutcomes ==
  ASSUME NEW b \in ToSet(Objectives)
  PROVE  \E o \in Outcomes : ObjectiveOf(o) = b
  <1> DEFINE p == PrinciplesOf[b][1]
             o == OutcomesOf[p][1]
  <1>1. p \in ToSet(PrinciplesOf[b])
    BY FrameworkAssumption, NotEmpty
  <1>2. p \in Principles
    BY <1>1 DEF Principles
  <1> HIDE DEF p
  <1>3. o \in ToSet(OutcomesOf[p])
    BY <1>2, FrameworkAssumption, NotEmpty
  <1>4. o \in Outcomes
    BY <1>2, <1>3 DEF Outcomes
  <1> HIDE DEF o
  <1> QED
    BY <1>1, <1>2, <1>3, <1>4, OutcomeHome

\* A share of the outcomes is all of them exactly when it is 100 percent.
LEMMA FullShare ==
  ASSUME NEW S \in SUBSET Outcomes
  PROVE  /\ Cardinality(S) \in Nat
         /\ (100 * Cardinality(S)) \div Cardinality(Outcomes) = 100 <=> S = Outcomes
         /\ S = Outcomes => (90 * Cardinality(S)) \div Cardinality(Outcomes) = 90
  <1>1. /\ Cardinality(S) \in Nat /\ Cardinality(S) <= Cardinality(Outcomes)
        /\ Cardinality(S) = Cardinality(Outcomes) <=> S = Outcomes
    BY OutcomesFinite, FS_Subset, FS_CardinalityType
  <1>2. PICK n \in Nat, k \in Nat : n = Cardinality(Outcomes) /\ k = Cardinality(S)
    BY <1>1, OutcomesFinite
  <1>3. n # 0 /\ k <= n
    BY <1>1, <1>2, OutcomesFinite
  <1>4. (100 * k) \div n = 100 <=> k = n
    BY <1>3
  <1>5. (90 * n) \div n = 90
    BY <1>3
  <1> QED
    BY <1>1, <1>2, <1>4, <1>5

-----------------------------------------------------------------------------
(* The progress of a self-assessment.                                      *)

LEMMA CompleteIs ==
  ASSUME NEW data
  PROVE  IsComplete(data) <=> Confirmed(data) = Outcomes
  <1>1. ASSUME IsComplete(data), NEW o \in Outcomes PROVE o \in Confirmed(data)
    <2>1. ObjectiveOf(o) \in ToSet(Objectives)
      BY OutcomeHome
    <2> QED
      BY <1>1, <2>1 DEF IsComplete, IsObjectiveComplete, OutcomesOfObjective
  <1>2. ASSUME Confirmed(data) = Outcomes, NEW b \in ToSet(Objectives)
        PROVE  IsObjectiveComplete(data, b)
    <2>1. PICK o \in Outcomes : ObjectiveOf(o) = b
      BY ObjectiveHasOutcomes
    <2>2. data[o] # None
      BY <1>2 DEF Confirmed
    <2> QED
      BY <1>2, <2>1, <2>2 DEF IsObjectiveComplete, OutcomesOfObjective
  <1>3. Confirmed(data) \subseteq Outcomes
    BY DEF Confirmed
  <1> QED
    BY <1>1, <1>2, <1>3 DEF IsComplete

\* The percentage the pages of a draft show (form_extras) is 100 exactly when
\* the completeness that lets it be submitted holds (models): for every
\* framework and all answers, whoever gave them.
THEOREM PercentageIsHonest ==
  ASSUME NEW data
  PROVE  Percentage(data) = 100 <=> IsComplete(data)
  <1>1. Confirmed(data) \in SUBSET Outcomes
    BY DEF Confirmed
  <1> QED
    BY <1>1, FullShare, CompleteIs DEF Percentage

=============================================================================
