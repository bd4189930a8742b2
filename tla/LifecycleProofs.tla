-------------------------- MODULE LifecycleProofs --------------------------
(***************************************************************************)
(* What holds of the whole way of a system through a period, for every     *)
(* framework, every set of plans, selections, workbooks, decisions and     *)
(* recommendations, and any number of versions.                            *)
(***************************************************************************)
EXTENDS Lifecycle, ReportProofs

-----------------------------------------------------------------------------
(* The versions of a history.                                              *)

AddRow(versions, row) ==
  IF versions # <<>> /\ row = Last(versions) THEN versions ELSE Append(versions, row)

\* The versions of the first k rows of r, the newest rows first.
Versions(v, r, n) ==
  /\ v[0] = <<>>
  /\ \A k \in 1 .. n : v[k] = AddRow(v[k - 1], r[k])

LEMMA ReverseIs ==
  ASSUME NEW X, NEW s \in Seq(X)
  PROVE  /\ Reverse(s) \in Seq(X) /\ Len(Reverse(s)) = Len(s)
         /\ DOMAIN Reverse(s) = 1 .. Len(s)
         /\ \A i \in 1 .. Len(s) : Reverse(s)[i] = s[Len(s) - i + 1]
  <1>1. DOMAIN s = 1 .. Len(s) /\ Len(s) \in Nat /\ \A i \in 1 .. Len(s) : s[i] \in X
    BY LenProperties, ElementOfSeq
  <1> DEFINE r == Reverse(s)
  <1>2. r = [i \in 1 .. Len(s) |-> s[Len(s) - i + 1]]
    BY DEF Reverse
  <1>3. \A i \in 1 .. Len(s) : Len(s) - i + 1 \in 1 .. Len(s)
    BY <1>1
  <1> HIDE DEF r
  <1>4. \A i \in 1 .. Len(s) : r[i] = s[Len(s) - i + 1] /\ r[i] \in X
    BY <1>1, <1>2, <1>3
  <1>5. r \in [1 .. Len(s) -> X]
    BY <1>2, <1>4
  <1>6. r \in Seq(X)
    BY <1>1, <1>5, SeqDef
  <1> QED
    BY <1>1, <1>4, <1>5, <1>6, LenProperties DEF r

LEMMA AddRowType ==
  ASSUME NEW X, NEW s \in Seq(X), NEW x \in X
  PROVE  /\ AddRow(s, x) \in Seq(X) /\ AddRow(s, x) # <<>>
         /\ Len(AddRow(s, x)) >= Len(s)
         /\ \A i \in 1 .. Len(s) : AddRow(s, x)[i] = s[i]
         /\ Last(AddRow(s, x)) = x
         /\ s = <<>> => AddRow(s, x)[1] = x
  <1>1. CASE s # <<>> /\ x = Last(s)
    BY <1>1, LenProperties DEF AddRow
  <1>2. CASE ~ (s # <<>> /\ x = Last(s))
    <2>1. AddRow(s, x) = Append(s, x)
      BY <1>2 DEF AddRow
    <2>2. /\ Append(s, x) \in Seq(X) /\ Append(s, x) # <<>> /\ Len(Append(s, x)) = Len(s) + 1
          /\ \A i \in 1 .. Len(s) : Append(s, x)[i] = s[i]
          /\ Append(s, x)[Len(s) + 1] = x
          /\ Len(s) \in Nat
      BY AppendProperties, LenProperties
    <2>3. s = <<>> => Len(s) + 1 = 1
      BY EmptySeq
    <2> QED
      BY <2>1, <2>2, <2>3 DEF Last
  <1> QED
    BY <1>1, <1>2

LEMMA VersionsExist ==
  ASSUME NEW X, NEW h \in Seq(X)
  PROVE  \E v : /\ AllVersions(h) = v[Len(h)]
                /\ Versions(v, Reverse(h), Len(h))
  <1> DEFINE r == Reverse(h)
             n == Len(h)
             F == CHOOSE f : f = [s \in SUBSET DOMAIN r |->
                                    IF s = {} THEN <<>> ELSE AddRow(f[s \ {Max(s)}], r[Max(s)])]
  <1>1. AllVersions(h) = F[DOMAIN r]
    BY Zenon DEF AllVersions, AddRow, FoldLeft, MapThenFoldSet
  <1>2. n \in Nat /\ DOMAIN r = 1 .. n /\ \A i \in 1 .. n : r[i] \in X
    BY ReverseIs, LenProperties, ElementOfSeq
  <1> HIDE DEF r, n
  <1>3. \E g : g = [s \in SUBSET DOMAIN r |->
                      IF s = {} THEN <<>> ELSE AddRow(g[s \ {Max(s)}], r[Max(s)])]
    <2> DEFINE op == [p \in Seq(X) \X X |-> AddRow(p[1], p[2])]
    <2>1. op \in [Seq(X) \X X -> Seq(X)]
      BY AddRowType
    <2>2. \A s \in Seq(X), x \in X : op[<<s, x>>] = AddRow(s, x)
      OBVIOUS
    <2>3. <<>> \in Seq(X)
      BY EmptySeq
    <2> HIDE DEF op
    <2>4. PICK g \in [SUBSET (1 .. n) -> Seq(X)] :
             /\ g[{}] = <<>>
             /\ \A s \in SUBSET (1 .. n) : s # {} => g[s] = op[<<g[s \ {Max(s)}], r[Max(s)]>>]
      <3>1. \E g : Folds(g, Seq(X), <<>>, op, r, n)
        BY <1>2, <2>1, <2>3, FoldExists
      <3> QED
        BY <3>1 DEF Folds
    <2>5. ASSUME NEW s \in SUBSET (1 .. n), s # {}
          PROVE  g[s] = AddRow(g[s \ {Max(s)}], r[Max(s)])
      <3>1. Max(s) \in s
        BY <1>2, <2>5, MaxIn
      <3>2. g[s \ {Max(s)}] \in Seq(X) /\ r[Max(s)] \in X
        BY <1>2, <3>1
      <3> QED
        BY <2>2, <2>4, <2>5, <3>2
    <2>6. g = [s \in SUBSET (1 .. n) |->
                 IF s = {} THEN <<>> ELSE AddRow(g[s \ {Max(s)}], r[Max(s)])]
      BY <2>4, <2>5
    <2> QED
      BY <1>2, <2>6
  <1>4. F = [s \in SUBSET DOMAIN r |->
               IF s = {} THEN <<>> ELSE AddRow(F[s \ {Max(s)}], r[Max(s)])]
    BY <1>3, Zenon
  <1> HIDE DEF F
  <1> DEFINE v == [k \in 0 .. n |-> F[1 .. k]]
  <1>5. F[{}] = <<>> /\ \A s \in SUBSET (1 .. n) : s # {} => F[s] = AddRow(F[s \ {Max(s)}], r[Max(s)])
    BY <1>2, <1>4
  <1>6. v[0] = <<>>
    <2>1. 1 .. 0 = {} /\ 0 \in 0 .. n
      BY <1>2
    <2> QED
      BY <1>5, <2>1
  <1>7. ASSUME NEW k \in 1 .. n PROVE v[k] = AddRow(v[k - 1], r[k])
    <2> DEFINE s == 1 .. k
    <2>1. /\ s \in SUBSET (1 .. n) /\ s # {} /\ s \ {k} = 1 .. k - 1
          /\ k \in 0 .. n /\ k - 1 \in 0 .. n
      <3>1. k \in Nat /\ 1 <= k /\ k <= n
        BY <1>2
      <3>2. \A i : i \in s \ {k} <=> i \in 1 .. k - 1
        BY <3>1
      <3>3. 1 \in s /\ s \subseteq 1 .. n
        BY <1>2, <3>1
      <3> HIDE DEF s
      <3>4. s \ {k} = 1 .. k - 1
        BY <3>2
      <3>5. k \in 0 .. n /\ k - 1 \in 0 .. n
        BY <1>2, <3>1
      <3> QED
        BY <3>3, <3>4, <3>5
    <2>2. Max(s) = k
      <3>1. k - 1 \in Nat /\ k = (k - 1) + 1
        BY <1>2
      <3> QED
        BY <3>1, MaxIsLast
    <2>3. v[k] = F[s] /\ v[k - 1] = F[1 .. k - 1]
      BY <2>1
    <2> HIDE DEF s, v
    <2> QED
      BY <1>5, <2>1, <2>2, <2>3
  <1>8. v[n] = F[1 .. n]
    BY <1>2
  <1> HIDE DEF v
  <1>9. Versions(v, r, n)
    BY <1>6, <1>7 DEF Versions
  <1> QED
    BY <1>1, <1>2, <1>8, <1>9 DEF r, n

LEMMA VersionsSteps ==
  ASSUME NEW X, NEW v, NEW r, NEW n \in Nat, \A i \in 1 .. n : r[i] \in X, Versions(v, r, n)
  PROVE  /\ v[0] = <<>>
         /\ \A k \in 0 .. n : v[k] \in Seq(X)
         /\ \A k \in 1 .. n : v[k] # <<>> /\ v[k][1] = r[1] /\ Last(v[k]) = r[k] /\ Len(v[k]) >= 1
         /\ n >= 1 => v[1] = <<r[1]>>
  <1>1. v[0] = <<>> /\ \A k \in 1 .. n : v[k] = AddRow(v[k - 1], r[k])
    BY DEF Versions
  <1> DEFINE Right(k) == /\ v[k] \in Seq(X)
                         /\ k >= 1 => /\ v[k] # <<>> /\ v[k][1] = r[1] /\ Last(v[k]) = r[k]
                                      /\ Len(v[k]) >= 1
             T == {k \in Nat : k <= n => Right(k)}
  <1>2. 0 \in T
    <2>1. v[0] \in Seq(X)
      BY <1>1, EmptySeq
    <2> QED
      BY <2>1
  <1>3. ASSUME NEW k \in Nat, k \in T PROVE k + 1 \in T
    <2> SUFFICES ASSUME k + 1 <= n PROVE Right(k + 1)
      OBVIOUS
    <2>1. Right(k)
      BY <1>3
    <2>2. k + 1 \in 1 .. n /\ v[k + 1] = AddRow(v[k], r[k + 1]) /\ r[k + 1] \in X
      <3>1. PICK m \in 1 .. n : m = k + 1 /\ m - 1 = k
        BY <1>3
      <3> QED
        BY <1>1, <3>1
    <2>3. /\ v[k + 1] \in Seq(X) /\ v[k + 1] # <<>> /\ Last(v[k + 1]) = r[k + 1]
          /\ \A i \in 1 .. Len(v[k]) : v[k + 1][i] = v[k][i]
          /\ Len(v[k + 1]) >= Len(v[k])
          /\ v[k] = <<>> => v[k + 1][1] = r[k + 1]
      <3>1. PICK s \in Seq(X), y \in X : s = v[k] /\ y = r[k + 1]
        BY <2>1, <2>2
      <3>2. v[k + 1] = AddRow(s, y)
        BY <2>2, <3>1
      <3>3. /\ AddRow(s, y) \in Seq(X) /\ AddRow(s, y) # <<>> /\ Last(AddRow(s, y)) = y
            /\ \A i \in 1 .. Len(s) : AddRow(s, y)[i] = s[i]
            /\ Len(AddRow(s, y)) >= Len(s)
            /\ s = <<>> => AddRow(s, y)[1] = y
        BY AddRowType
      <3> QED
        BY <3>1, <3>2, <3>3
    <2>4. Len(v[k + 1]) \in Nat /\ Len(v[k + 1]) # 0 /\ Len(v[k]) \in Nat
      BY <2>1, <2>3, EmptySeq, LenProperties
    <2>5. CASE k = 0
      BY <1>1, <2>3, <2>4, <2>5
    <2>6. CASE k # 0
      <3>1. v[k][1] = r[1] /\ 1 \in 1 .. Len(v[k])
        BY <2>1, <2>4, <2>6
      <3> QED
        BY <2>3, <2>4, <3>1
    <2> QED
      BY <2>5, <2>6
  <1> HIDE DEF T
  <1>4. \A k \in Nat : k \in T
    BY <1>2, <1>3, SetInduction
  <1>5. \A k \in Nat : k <= n => Right(k)
    BY <1>4 DEF T
  <1>6. ASSUME n >= 1 PROVE v[1] = <<r[1]>>
    <2>1. v[1] = AddRow(<<>>, r[1])
      BY <1>1, <1>6
    <2> QED
      BY <2>1 DEF AddRow
  <1> QED
    BY <1>1, <1>5, <1>6

LEMMA ConsFacts ==
  ASSUME NEW X, NEW x \in X, NEW s \in Seq(X), s # <<>>
  PROVE  /\ <<x>> \o s \in Seq(X)
         /\ <<x>> \o s # <<>>
         /\ Last(<<x>> \o s) = Last(s)
         /\ \A y \in X : Append(<<x>> \o s, y) = <<x>> \o Append(s, y)
  <1>1. Len(s) \in Nat /\ Len(s) # 0
    BY LenProperties, EmptySeq
  <1>2. <<x>> \in Seq(X) /\ Len(<<x>>) = 1
    BY ElementOf
  <1>3. /\ <<x>> \o s \in Seq(X) /\ Len(<<x>> \o s) = 1 + Len(s)
        /\ \A i \in 1 .. 1 + Len(s) : (<<x>> \o s)[i] = IF i <= 1 THEN <<x>>[i] ELSE s[i - 1]
    BY <1>2, ConcatProperties
  <1>4. Last(<<x>> \o s) = s[Len(s)]
    <2> DEFINE u == <<x>> \o s
    <2>1. Len(u) = 1 + Len(s) /\ \A i \in 1 .. 1 + Len(s) : u[i] = IF i <= 1 THEN <<x>>[i] ELSE s[i - 1]
      BY <1>3
    <2> HIDE DEF u
    <2>2. PICK m \in 1 .. 1 + Len(s) : m = 1 + Len(s) /\ ~ (m <= 1) /\ m - 1 = Len(s)
      BY <1>1
    <2>3. u[m] = s[m - 1]
      BY <2>1, <2>2
    <2> QED
      BY <2>1, <2>2, <2>3 DEF u, Last
  <1>5. ASSUME NEW y \in X PROVE Append(<<x>> \o s, y) = <<x>> \o Append(s, y)
    <2>1. /\ Append(<<x>> \o s, y) = (<<x>> \o s) \o <<y>>
          /\ Append(s, y) = s \o <<y>>
      BY <1>3, AppendIsConcat
    <2>2. <<y>> \in Seq(X)
      BY ElementOf
    <2>3. (<<x>> \o s) \o <<y>> = <<x>> \o (s \o <<y>>)
      BY <1>2, <2>2, ConcatAssociative
    <2> QED
      BY <2>1, <2>3
  <1> QED
    BY <1>1, <1>3, <1>4, <1>5, EmptySeq DEF Last

LEMMA NewestVersion ==
  ASSUME NEW X, NEW h \in Seq(X), h # <<>>
  PROVE  AllVersions(h) \in Seq(X) /\ AllVersions(h) # <<>> /\ AllVersions(h)[1] = Last(h)
  <1> DEFINE n == Len(h)
             r == Reverse(h)
  <1>1. /\ n \in Nat /\ n # 0 /\ \A i \in 1 .. n : r[i] \in X
        /\ \A i \in 1 .. n : r[i] = h[n - i + 1]
    BY ReverseIs, LenProperties, ElementOfSeq, EmptySeq
  <1>2. PICK v : AllVersions(h) = v[n] /\ Versions(v, r, n)
    BY VersionsExist
  <1>3. 1 \in 1 .. n /\ n \in 1 .. n /\ n - 1 + 1 = n
    BY <1>1
  <1>4. r[1] = Last(h)
    BY <1>1, <1>3 DEF Last
  <1> HIDE DEF n, r
  <1>5. /\ \A k \in 0 .. n : v[k] \in Seq(X)
        /\ \A k \in 1 .. n : v[k] # <<>> /\ v[k][1] = r[1]
    BY <1>1, <1>2, VersionsSteps
  <1> QED
    BY <1>1, <1>2, <1>3, <1>4, <1>5

\* A newer row makes a newer version, or it is the newest version.
LEMMA AppendVersion ==
  ASSUME NEW X, NEW h \in Seq(X), NEW x \in X
  PROVE  /\ AllVersions(h) \in Seq(X)
         /\ h = <<>> => AllVersions(h) = <<>>
         /\ AllVersions(Append(h, x)) =
              IF h # <<>> /\ x = Last(h) THEN AllVersions(h) ELSE <<x>> \o AllVersions(h)
  <1> DEFINE n == Len(h)
             r == Reverse(h)
             g == Append(h, x)
             q == Reverse(g)
  <1>1. /\ n \in Nat /\ r \in Seq(X) /\ Len(r) = n /\ \A i \in 1 .. n : r[i] \in X
        /\ \A i \in 1 .. n : r[i] = h[n - i + 1]
    BY ReverseIs, LenProperties, ElementOfSeq
  <1>2. /\ g \in Seq(X) /\ Len(g) = n + 1 /\ g[n + 1] = x /\ \A i \in 1 .. n : g[i] = h[i]
    BY AppendProperties
  <1>3. /\ \A i \in 1 .. n + 1 : q[i] \in X
        /\ q[1] = x
        /\ \A i \in 1 .. n : q[i + 1] = r[i]
    <2> HIDE DEF g
    <2>1. q \in Seq(X) /\ Len(q) = n + 1 /\ \A i \in 1 .. n + 1 : q[i] = g[(n + 1) - i + 1]
      BY <1>2, ReverseIs
    <2> HIDE DEF q, n
    <2>2. \A i \in 1 .. n + 1 : q[i] \in X
      BY <2>1, ElementOfSeq
    <2>3. q[1] = x
      <3>1. 1 \in 1 .. n + 1 /\ (n + 1) - 1 + 1 = n + 1
        BY <1>1
      <3> QED
        BY <1>2, <2>1, <3>1
    <2>4. ASSUME NEW i \in 1 .. n PROVE q[i + 1] = r[i]
      <3>1. PICK m \in 1 .. n + 1 : m = i + 1 /\ (n + 1) - m + 1 = n - i + 1 /\ n - i + 1 \in 1 .. n
        BY <1>1
      <3>2. q[m] = g[(n + 1) - m + 1]
        BY <2>1
      <3>3. g[n - i + 1] = h[n - i + 1] /\ r[i] = h[n - i + 1]
        BY <1>1, <1>2, <3>1 DEF n
      <3> QED
        BY <3>1, <3>2, <3>3
    <2> QED
      BY <2>2, <2>3, <2>4
  <1>4. PICK v : AllVersions(h) = v[n] /\ Versions(v, r, n)
    BY VersionsExist
  <1>5. PICK w : AllVersions(g) = w[n + 1] /\ Versions(w, q, n + 1)
    BY <1>2, VersionsExist
  <1>6. r[1] = Last(h) \/ n = 0
    <2>1. n # 0 => 1 \in 1 .. n /\ n - 1 + 1 = n
      BY <1>1
    <2> QED
      BY <1>1, <2>1 DEF Last
  <1>7. n = 0 <=> h = <<>>
    BY EmptySeq
  <1> HIDE DEF n, r, g, q
  <1>8. /\ v[0] = <<>>
        /\ \A k \in 0 .. n : v[k] \in Seq(X)
        /\ \A k \in 1 .. n : v[k] # <<>> /\ v[k][1] = r[1] /\ Last(v[k]) = r[k]
        /\ n >= 1 => v[1] = <<r[1]>>
    BY <1>1, <1>4, VersionsSteps
  <1>9. w[1] = <<x>> /\ \A k \in 1 .. n + 1 : w[k] = AddRow(w[k - 1], q[k])
    <2>1. n + 1 \in Nat /\ n + 1 >= 1
      BY <1>1
    <2>2. w[1] = <<q[1]>>
      BY <1>3, <1>5, <2>1, VersionsSteps
    <2> QED
      BY <1>3, <1>5, <2>2 DEF Versions
  <1> DEFINE Newer(s) == IF x = r[1] THEN s ELSE <<x>> \o s
             T == {k \in Nat : 1 <= k /\ k <= n => w[k + 1] = Newer(v[k])}
  <1>10. ASSUME NEW k \in Nat, k \in T PROVE k + 1 \in T
    <2> HIDE DEF Newer
    <2> SUFFICES ASSUME k + 1 <= n PROVE w[k + 1 + 1] = Newer(v[k + 1])
      OBVIOUS
    <2> DEFINE y == r[k + 1]
    <2>1. w[k + 1 + 1] = AddRow(w[k + 1], y) /\ y \in X
      <3>1. PICK m \in 1 .. n + 1 : m = k + 1 + 1 /\ m - 1 = k + 1
        BY <1>1, <1>10
      <3>2. k + 1 \in 1 .. n
        BY <1>1, <1>10
      <3>3. q[m] = r[k + 1]
        BY <1>3, <3>1, <3>2
      <3>4. w[m] = AddRow(w[m - 1], q[m])
        BY <1>9
      <3> QED
        BY <1>1, <3>1, <3>2, <3>3, <3>4
    <2>2. v[k + 1] = AddRow(v[k], y)
      <3>1. PICK m \in 1 .. n : m = k + 1 /\ m - 1 = k
        BY <1>1, <1>10
      <3> QED
        BY <1>4, <3>1 DEF Versions
    <2> HIDE DEF y
    <2>3. CASE k = 0
      <3>1. k + 1 = 1 /\ n >= 1
        BY <1>1, <2>3
      <3>2. w[1 + 1] = AddRow(<<x>>, y) /\ v[1] = <<y>> /\ y = r[1]
        BY <1>8, <1>9, <2>1, <3>1 DEF y
      <3>3. AddRow(<<x>>, y) = IF y = x THEN <<x>> ELSE Append(<<x>>, y)
        BY DEF AddRow, Last
      <3>4. Append(<<x>>, y) = <<x>> \o <<y>>
        BY <2>1, ElementOf, AppendIsConcat
      <3> QED
        BY <3>1, <3>2, <3>3, <3>4 DEF Newer
    <2>4. CASE k # 0
      <3>1. w[k + 1] = Newer(v[k])
        BY <1>1, <1>10, <2>4
      <3>2. v[k] \in Seq(X) /\ v[k] # <<>>
        BY <1>1, <1>8, <2>4
      <3>3. CASE x = r[1]
        BY <2>1, <2>2, <3>1, <3>3 DEF Newer
      <3>4. CASE x # r[1]
        <4>1. w[k + 1] = <<x>> \o v[k] /\ Newer(v[k + 1]) = <<x>> \o v[k + 1]
          BY <3>1, <3>4 DEF Newer
        <4>2. AddRow(<<x>> \o v[k], y) = <<x>> \o AddRow(v[k], y)
          <5>1. PICK s \in Seq(X) : s = v[k] /\ s # <<>>
            BY <3>2
          <5>2. /\ <<x>> \o s # <<>>
                /\ Last(<<x>> \o s) = Last(s)
                /\ Append(<<x>> \o s, y) = <<x>> \o Append(s, y)
            BY <2>1, <5>1, ConsFacts
          <5>3. CASE y = Last(s)
            BY <5>1, <5>2, <5>3 DEF AddRow
          <5>4. CASE y # Last(s)
            BY <5>1, <5>2, <5>4 DEF AddRow
          <5> QED
            BY <5>3, <5>4
        <4> QED
          BY <2>1, <2>2, <4>1, <4>2
      <3> QED
        BY <3>3, <3>4
    <2> QED
      BY <2>3, <2>4
  <1>11. 0 \in T
    OBVIOUS
  <1> HIDE DEF T, Newer
  <1>12. \A k \in Nat : k \in T
    BY <1>10, <1>11, SetInduction
  <1>13. CASE n = 0
    <2>1. AllVersions(h) = <<>> /\ AllVersions(g) = <<x>>
      BY <1>4, <1>5, <1>8, <1>9, <1>13
    <2>2. <<x>> \o <<>> = <<x>>
      BY ElementOf, ConcatEmptySeq
    <2> QED
      BY <1>7, <1>13, <2>1, <2>2, EmptySeq DEF g
  <1>14. CASE n # 0
    <2>1. w[n + 1] = Newer(v[n])
      BY <1>1, <1>12, <1>14 DEF T
    <2>2. v[n] \in Seq(X) /\ v[n] # <<>> /\ v[n][1] = Last(h)
      BY <1>1, <1>6, <1>8, <1>14
    <2> QED
      BY <1>4, <1>5, <1>6, <1>7, <1>14, <2>1, <2>2 DEF Newer, g
  <1> QED
    BY <1>13, <1>14

-----------------------------------------------------------------------------
(* The invariant.                                                          *)

\* The draft is there while its pages are open, and so are the answers whose
\* summary is shown.
DraftInv ==
  /\ page # None => rows["draft"] # None
  /\ PageHasAnswers

HasStatus(a, o) == a.data[o] # None /\ a.data[o].status # None

\* What is confirmed has a status, unless a workbook left it blank; what is
\* submitted is confirmed.
RowsInv ==
  /\ \A s \in Statuses : rows[s] # None /\ ~ rows[s].partial =>
       \A o \in Confirmed(rows[s].data) : HasStatus(rows[s], o)
  /\ rows["submitted"] # None /\ ~ Assessed.partial =>
       \A o \in Outcomes : HasStatus(Assessed, o)
  /\ stale # "no" => rows["submitted"] # None

AllDecided(r) == \A o \in Outcomes : r.outcomes[o].decision # None

\* A decision may be changed while the create-report page is open, but not
\* taken away.
ReviewInv ==
  /\ review # None => rows["submitted"] # None
  /\ offered => review # None /\ AllDecided(review.response)
  /\ review # None /\ review.status = "completed" =>
       AllDecided(review.response) /\ history # <<>> /\ Last(history) = review.response

\* There is a plan for a final review only, which nothing but a rollback opens.
PlanInv ==
  /\ tip # None /\ ~ rolled => IsReviewFinalised
  /\ ActionsFitUntilRollback

LifecycleInv == TypeOK /\ DraftInv /\ RowsInv /\ ReviewInv /\ PlanInv

-----------------------------------------------------------------------------
(* The answers.                                                            *)

LEMMA InData ==
  ASSUME NEW data, data = [o \in Outcomes |-> data[o]],
         \A o \in Outcomes : data[o] = None \/ data[o] \in Entries(o)
  PROVE  data \in Data
  <1> DEFINE All == (UNION {Entries(q) : q \in Outcomes}) \cup {None}
  <1>1. ASSUME NEW o \in Outcomes, NEW e \in Entries(o) \cup {None} PROVE e \in All
    <2> DEFINE kinds == {Entries(q) : q \in Outcomes}
    <2>1. Entries(o) \in kinds
      BY Zenon
    <2>2. All = (UNION kinds) \cup {None}
      OBVIOUS
    <2> HIDE DEF kinds, All
    <2> QED
      BY <2>1, <2>2
  <1> HIDE DEF All
  <1>2. data \in [Outcomes -> All]
    <2>1. \A o \in Outcomes : data[o] \in Entries(o) \cup {None}
      OBVIOUS
    <2> QED
      BY <1>1, <2>1
  <1> QED
    BY <1>2 DEF Data, All

LEMMA DataIs ==
  ASSUME NEW data \in Data
  PROVE  /\ data = [o \in Outcomes |-> data[o]]
         /\ \A o \in Outcomes : data[o] # None => data[o] \in Entries(o)
  BY DEF Data

LEMMA NoDataIs == NoData \in Data
  BY InData DEF NoData

LEMMA StatusOfType == \A o, ticked : StatusOf(o, ticked) \in Levels
  BY DEF StatusOf, Levels

LEMMA SetIndicatorsIs ==
  ASSUME NEW data \in Data, NEW o \in Outcomes, NEW ticked \in SUBSET Fields(o),
         NEW comments \in Comments \cup {None}
  PROVE  /\ SetIndicators(data, o, ticked, comments) \in Data
         /\ SetIndicators(data, o, ticked, comments)[o] # None
         /\ SetIndicators(data, o, ticked, comments)[o].ticked = ticked
         /\ SetIndicators(data, o, ticked, comments)[o].confirmed =>
              /\ data[o] # None /\ data[o].confirmed
              /\ SetIndicators(data, o, ticked, comments)[o].status = data[o].status
         /\ \A q \in Outcomes : q # o => SetIndicators(data, o, ticked, comments)[q] = data[q]
  <1> DEFINE same == /\ data[o] # None
                     /\ data[o].ticked = ticked
                     /\ data[o].comments = comments
             entry == [ticked    |-> ticked,
                       comments  |-> comments,
                       confirmed |-> same /\ data[o].confirmed,
                       status    |-> IF same THEN data[o].status ELSE None]
             new == SetIndicators(data, o, ticked, comments)
  <1>1. new = [data EXCEPT ![o] = entry]
    BY Zenon DEF SetIndicators
  <1>2. /\ data = [q \in Outcomes |-> data[q]]
        /\ \A q \in Outcomes : data[q] # None => data[q] \in Entries(q)
    BY DataIs
  <1>3. entry \in Entries(o)
    <2>1. PICK b \in BOOLEAN : b = (same /\ data[o].confirmed)
      OBVIOUS
    <2>2. PICK st \in Levels \cup {None} : st = IF same THEN data[o].status ELSE None
      <3>1. CASE same
        <4>1. data[o] \in Entries(o)
          BY <1>2, <3>1
        <4>2. data[o].status \in Levels \cup {None}
          BY <4>1 DEF Entries
        <4> QED
          BY <3>1, <4>2
      <3>2. CASE ~ same
        BY <3>2
      <3> QED
        BY <3>1, <3>2
    <2>3. entry = [ticked |-> ticked, comments |-> comments, confirmed |-> b, status |-> st]
      BY <2>1, <2>2
    <2> HIDE DEF entry
    <2> QED
      BY <2>3 DEF Entries
  <1>4. /\ entry.ticked = ticked
        /\ entry.confirmed => data[o] # None /\ data[o].confirmed /\ entry.status = data[o].status
    OBVIOUS
  <1>5. entry # None
    BY <1>3, RecordAssumption
  <1> HIDE DEF entry, new
  <1>6. /\ new = [q \in Outcomes |-> new[q]]
        /\ new[o] = entry
        /\ \A q \in Outcomes : q # o => new[q] = data[q]
    BY <1>1, <1>2
  <1>7. new \in Data
    BY <1>2, <1>3, <1>6, InData
  <1> QED
    BY <1>4, <1>5, <1>6, <1>7 DEF new

LEMMA ConfirmIs ==
  ASSUME NEW data \in Data, NEW o \in Outcomes, data[o] # None
  PROVE  /\ Confirm(data, o) \in Data
         /\ Confirm(data, o)[o] # None
         /\ Confirm(data, o)[o].ticked = data[o].ticked
         /\ Confirm(data, o)[o].status # None
         /\ \A q \in Outcomes : q # o => Confirm(data, o)[q] = data[q]
  <1>1. /\ data = [q \in Outcomes |-> data[q]]
        /\ \A q \in Outcomes : data[q] # None => data[q] \in Entries(q)
    BY DataIs
  <1> DEFINE new == Confirm(data, o)
             st == StatusOf(o, data[o].ticked)
             entry == [data[o] EXCEPT !.confirmed = TRUE, !.status = st]
  <1>2. st \in Levels /\ st # None
    BY StatusOfType, FrameworkAssumption
  <1>3. new = [data EXCEPT ![o] = entry]
    BY DEF Confirm
  <1> HIDE DEF st
  <1>4. data[o] \in Entries(o)
    BY <1>1
  <1>5. entry \in Entries(o) /\ entry.ticked = data[o].ticked /\ entry.status = st
    BY <1>2, <1>4 DEF Entries
  <1>6. entry # None
    BY <1>5, RecordAssumption
  <1> HIDE DEF entry, new
  <1>7. /\ new = [q \in Outcomes |-> new[q]]
        /\ new[o] = entry
        /\ \A q \in Outcomes : q # o => new[q] = data[q]
    BY <1>1, <1>3
  <1>8. new \in Data
    BY <1>1, <1>5, <1>7, InData
  <1> QED
    BY <1>2, <1>5, <1>6, <1>7, <1>8 DEF new

-----------------------------------------------------------------------------
(* The workbooks.                                                          *)

\* The longest of the lists of statements, and their places.
LEMMA LongestIs ==
  ASSUME NEW o \in Outcomes
  PROVE  /\ Longest(o) \in Nat
         /\ \A l \in Levels : /\ Len(StatementsOf[o][l]) <= Longest(o)
                              /\ Len(StatementsOf[o][l]) \in Nat
                              /\ DOMAIN StatementsOf[o][l] = 1 .. Len(StatementsOf[o][l])
  <1>1. \A l \in Levels : /\ Len(StatementsOf[o][l]) \in Nat
                          /\ DOMAIN StatementsOf[o][l] = 1 .. Len(StatementsOf[o][l])
    BY FrameworkAssumption, LenProperties DEF IsASequence
  <1> DEFINE size == [l \in Levels |-> Len(StatementsOf[o][l])]
             Sizes == {Len(StatementsOf[o][l]) : l \in Levels}
             IsLongest(n) == \A l \in Levels : Len(StatementsOf[o][l]) <= n
  <1>2. \A l \in Levels : size[l] \in Nat /\ size[l] = Len(StatementsOf[o][l])
    BY <1>1
  <1>3. \E l \in Levels : \A m \in Levels : size[m] <= size[l]
    <2> HIDE DEF size
    <2>1. size["achieved"] \in Nat /\ size["partially-achieved"] \in Nat /\ size["not-achieved"] \in Nat
      BY <1>2 DEF Levels
    <2> QED
      BY <2>1 DEF Levels
  <1>4. \E n \in Sizes : IsLongest(n)
    BY <1>2, <1>3
  <1>5. Longest(o) = CHOOSE n \in Sizes : IsLongest(n)
    BY DEF Longest
  <1> HIDE DEF IsLongest
  <1>6. Longest(o) \in Sizes /\ IsLongest(Longest(o))
    BY <1>4, <1>5
  <1> QED
    BY <1>1, <1>6 DEF IsLongest

LEMMA PlacesAre ==
  ASSUME NEW o \in Outcomes
  PROVE  /\ \A at \in Places(o) :
              /\ at[1] \in Levels /\ at[2] \in Nat /\ 1 <= at[2] /\ at[2] <= Longest(o)
              /\ at[2] \in DOMAIN StatementsOf[o][at[1]] /\ at = <<at[1], at[2]>>
         /\ \A l \in Levels : \A n \in DOMAIN StatementsOf[o][l] : <<l, n>> \in Places(o)
  <1>1. ASSUME NEW at \in Places(o)
        PROVE  /\ at[1] \in Levels /\ at[2] \in Nat /\ 1 <= at[2] /\ at[2] <= Longest(o)
               /\ at[2] \in DOMAIN StatementsOf[o][at[1]] /\ at = <<at[1], at[2]>>
    <2>1. at \in Levels \X (1 .. Longest(o)) /\ at[2] <= Len(StatementsOf[o][at[1]])
      BY DEF Places
    <2>2. PICK l \in Levels, n \in 1 .. Longest(o) : at = <<l, n>>
      BY <2>1
    <2>3. n <= Len(StatementsOf[o][l]) /\ n \in Nat /\ 1 <= n
      BY <2>1, <2>2, LongestIs
    <2>4. n \in DOMAIN StatementsOf[o][l]
      BY <2>3, LongestIs
    <2> QED
      BY <2>2, <2>3, <2>4
  <1>2. ASSUME NEW l \in Levels, NEW n \in DOMAIN StatementsOf[o][l]
        PROVE  <<l, n>> \in Places(o)
    <2>1. n \in 1 .. Longest(o) /\ n <= Len(StatementsOf[o][l])
      BY LongestIs
    <2> QED
      BY <2>1 DEF Places
  <1> QED
    BY <1>1, <1>2

AnswerRow(b, o, at) ==
  [cell |-> <<b, TopRows(b)[o] + 3 + at[2], Column(at[1])>>, outcome |-> o, required |-> FALSE,
   kind |-> "indicator_answer", field |-> <<at[1], StatementsOf[o][at[1]][at[2]]>>]

StatusRow(b, o) ==
  [cell |-> <<b, TopRows(b)[o] + 4 + Longest(o), 9>>, outcome |-> o, required |-> TRUE,
   kind |-> "outcome_status", field |-> None]

TextRow(b, o) ==
  [cell |-> <<b, TopRows(b)[o] + 4 + Longest(o) + 1, 9>>, outcome |-> o, required |-> FALSE,
   kind |-> "text", field |-> None]

\* A row of the mapping sheet is about a statement, the status or the comment
\* of an outcome of the objective of its sheet.
LEMMA RowsAre ==
  ASSUME NEW b
  PROVE  \A r : r \in Rows(b) <=>
           \E o \in OutcomesOfObjective(b) :
             \/ \E at \in Places(o) : r = AnswerRow(b, o, at)
             \/ r = StatusRow(b, o)
             \/ r = TextRow(b, o)
  <1> DEFINE S(o) == {AnswerRow(b, o, at) : at \in Places(o)} \cup {StatusRow(b, o), TextRow(b, o)}
  <1>1. Rows(b) = UNION {S(o) : o \in OutcomesOfObjective(b)}
    BY Zenon DEF Rows, AnswerRow, StatusRow, TextRow
  <1>2. \A o, r : r \in S(o) <=> \/ \E at \in Places(o) : r = AnswerRow(b, o, at)
                                 \/ r = StatusRow(b, o)
                                 \/ r = TextRow(b, o)
    BY Zenon
  <1> HIDE DEF S
  <1>3. \A r : r \in Rows(b) <=> \E o \in OutcomesOfObjective(b) : r \in S(o)
    BY <1>1
  <1> QED
    BY <1>2, <1>3

LEMMA RowsFacts ==
  /\ \A r \in JsonMap :
       /\ r.outcome \in Outcomes
       /\ r.kind = "indicator_answer" => r.field \in Fields(r.outcome) /\ ~ r.required
       /\ r.kind = "outcome_status" => r.required
       /\ r.kind = "text" => ~ r.required
       /\ r.kind \in {"indicator_answer", "outcome_status", "text"}
  /\ \A o \in Outcomes :
       /\ \E r \in JsonMap : r.outcome = o /\ r.kind = "outcome_status"
       /\ \A f \in Fields(o) :
            \E r \in JsonMap : r.outcome = o /\ r.kind = "indicator_answer" /\ r.field = f
  <1>1. ASSUME NEW b \in ToSet(Objectives), NEW r \in Rows(b)
        PROVE  /\ r.outcome \in Outcomes
               /\ r.kind = "indicator_answer" => r.field \in Fields(r.outcome) /\ ~ r.required
               /\ r.kind = "outcome_status" => r.required
               /\ r.kind = "text" => ~ r.required
               /\ r.kind \in {"indicator_answer", "outcome_status", "text"}
    <2>1. PICK o \in OutcomesOfObjective(b) :
            \/ \E at \in Places(o) : r = AnswerRow(b, o, at)
            \/ r = StatusRow(b, o)
            \/ r = TextRow(b, o)
      BY RowsAre
    <2>2. o \in Outcomes
      BY DEF OutcomesOfObjective
    <2>3. ASSUME NEW at \in Places(o), r = AnswerRow(b, o, at)
          PROVE  r.outcome = o /\ r.kind = "indicator_answer" /\ r.field \in Fields(o) /\ ~ r.required
      <3>1. at[1] \in Levels /\ StatementsOf[o][at[1]][at[2]] \in ToSet(StatementsOf[o][at[1]])
        BY <2>2, PlacesAre DEF ToSet
      <3>2. <<at[1], StatementsOf[o][at[1]][at[2]]>> \in Fields(o)
        BY <3>1 DEF Fields
      <3> QED
        BY <2>3, <3>2 DEF AnswerRow
    <2> QED
      BY <2>1, <2>2, <2>3 DEF StatusRow, TextRow
  <1>2. ASSUME NEW o \in Outcomes
        PROVE  \E r \in JsonMap : r.outcome = o /\ r.kind = "outcome_status"
    <2> DEFINE r == StatusRow(ObjectiveOf(o), o)
    <2>1. r \in Rows(ObjectiveOf(o)) /\ ObjectiveOf(o) \in ToSet(Objectives)
      BY OutcomeHome, RowsAre DEF OutcomesOfObjective
    <2>2. r.outcome = o /\ r.kind = "outcome_status"
      BY DEF StatusRow
    <2> HIDE DEF r
    <2> QED
      BY <2>1, <2>2 DEF JsonMap
  <1>3. ASSUME NEW o \in Outcomes, NEW f \in Fields(o)
        PROVE  \E r \in JsonMap : r.outcome = o /\ r.kind = "indicator_answer" /\ r.field = f
    <2>1. PICK l \in Levels : f \in {l} \X ToSet(StatementsOf[o][l])
      BY DEF Fields
    <2>2. PICK n \in DOMAIN StatementsOf[o][l] : f = <<l, StatementsOf[o][l][n]>>
      BY <2>1 DEF ToSet
    <2> DEFINE r == AnswerRow(ObjectiveOf(o), o, <<l, n>>)
    <2>3. <<l, n>> \in Places(o)
      BY PlacesAre
    <2>4. r \in Rows(ObjectiveOf(o)) /\ ObjectiveOf(o) \in ToSet(Objectives)
      BY <2>3, OutcomeHome, RowsAre DEF OutcomesOfObjective
    <2>5. r.outcome = o /\ r.kind = "indicator_answer" /\ r.field = f
      BY <2>2 DEF AnswerRow
    <2> HIDE DEF r
    <2> QED
      BY <2>4, <2>5 DEF JsonMap
  <1> QED
    BY <1>1, <1>2, <1>3 DEF JsonMap

\* An import of a workbook without wrong values: well-formed answers for every
\* outcome, and a status for each unless a required cell was blank.
LEMMA ValidBookIs ==
  ASSUME NEW book, \A r \in JsonMap \ MissingRequired(book) : IsValid(r, book[r.cell])
  PROVE  /\ Parse(book) \in Data /\ Parse(book) # Refused
         /\ \A o \in Outcomes : /\ Parse(book)[o] # None
                                /\ Parse(book)[o].ticked = Agreed(book, o)
                                /\ Parse(book)[o].status = ChosenStatus(book, o)
         /\ MissingRequired(book) = {} => \A o \in Outcomes : Parse(book)[o].status # None
  <1> DEFINE entry(o) == [ticked    |-> Agreed(book, o),
                          comments  |-> None,
                          confirmed |-> TRUE,
                          status    |-> ChosenStatus(book, o)]
             data == [o \in Outcomes |-> entry(o)]
  <1>1. Parse(book) = data
    BY Zenon DEF Parse
  <1>2. ASSUME NEW o \in Outcomes
        PROVE  /\ ChosenStatus(book, o) \in Levels \cup {None}
               /\ MissingRequired(book) = {} => ChosenStatus(book, o) # None
    <2> DEFINE r == CHOOSE s \in JsonMap : s.outcome = o /\ s.kind = "outcome_status"
    <2>1. ChosenStatus(book, o) = book[r.cell]
      BY DEF ChosenStatus
    <2>2. r \in JsonMap /\ r.kind = "outcome_status"
      BY RowsFacts, Zenon
    <2> HIDE DEF r
    <2>3. r.required
      BY <2>2, RowsFacts
    <2>4. r \notin MissingRequired(book) => book[r.cell] \in Levels
      <3>1. IsValid(r, book[r.cell]) => book[r.cell] \in Levels
        BY <2>2 DEF IsValid
      <3> QED
        BY <2>2, <3>1
    <2>5. r \in MissingRequired(book) => book[r.cell] = None
      BY DEF MissingRequired
    <2> QED
      BY <2>1, <2>4, <2>5, FrameworkAssumption
  <1>3. ASSUME NEW o \in Outcomes PROVE Agreed(book, o) \subseteq Fields(o)
    BY RowsFacts DEF Agreed
  <1>4. ASSUME NEW o \in Outcomes PROVE /\ entry(o) \in Entries(o)
                                       /\ entry(o).ticked = Agreed(book, o)
                                       /\ entry(o).status = ChosenStatus(book, o)
    BY <1>2, <1>3 DEF Entries
  <1>5. \A o \in Outcomes : entry(o) # None
    BY <1>4, RecordAssumption
  <1> HIDE DEF entry
  <1>6. data = [o \in Outcomes |-> data[o]] /\ \A o \in Outcomes : data[o] = entry(o)
    OBVIOUS
  <1> HIDE DEF data
  <1>7. data \in Data
    BY <1>4, <1>6, InData
  <1> QED
    BY <1>1, <1>2, <1>4, <1>5, <1>6, <1>7, RefusedAssumption

\* An import that is not refused is one of such a workbook.
LEMMA ParseIs ==
  ASSUME NEW book, Parse(book) # Refused
  PROVE  /\ Parse(book) \in Data
         /\ \A o \in Outcomes : Parse(book)[o] # None
         /\ MissingRequired(book) = {} => \A o \in Outcomes : Parse(book)[o].status # None
  <1>1. \A r \in JsonMap \ MissingRequired(book) : IsValid(r, book[r.cell])
    BY Zenon DEF Parse
  <1> QED
    BY <1>1, ValidBookIs, Zenon

-----------------------------------------------------------------------------
(* The response of the assessor.                                           *)

LEMMA NoResponseIs == NoResponse \in Responses
  BY DEF NoResponse, Responses, Decisions

LEMMA ImportedResponseIs ==
  ASSUME NEW data \in Data, \A o \in Outcomes : data[o] # None
  PROVE  ImportedResponse(data) \in Responses /\ AllDecided(ImportedResponse(data))
  <1> DEFINE decision(o) == IF data[o].status = None THEN "undecided" ELSE data[o].status
             outcomes == [o \in Outcomes |-> [decision |-> decision(o), recommendations |-> <<>>]]
             comments == [b \in ToSet(Objectives) |-> CommentKinds]
  <1>1. \A o \in Outcomes : decision(o) \in Decisions /\ decision(o) # None
    <2> TAKE o \in Outcomes
    <2>1. data[o] \in Entries(o)
      BY DataIs
    <2>2. data[o].status \in Levels \cup {None}
      BY <2>1 DEF Entries
    <2> QED
      BY <2>2, RecordAssumption DEF Decisions
  <1>2. ImportedResponse(data) =
          [outcomes |-> outcomes, comments |-> comments, scope |-> FALSE,
           details |-> NeededDetails \cup AreaDetails]
    BY DEF ImportedResponse
  <1> HIDE DEF decision
  <1>3. outcomes \in [Outcomes -> [decision : Decisions, recommendations : Seq(Titles)]]
    BY <1>1
  <1>4. comments \in [ToSet(Objectives) -> SUBSET CommentKinds]
    OBVIOUS
  <1>5. \A o \in Outcomes : outcomes[o].decision # None
    BY <1>1
  <1> HIDE DEF outcomes, comments
  <1> QED
    BY <1>2, <1>3, <1>4, <1>5 DEF Responses, AllDecided

LEMMA SetOutcomeReviewIs ==
  ASSUME NEW r \in Responses, NEW o \in Outcomes, NEW decision \in Levels
  PROVE  /\ SetOutcomeReview(r, o, decision) \in Responses
         /\ AllDecided(r) => AllDecided(SetOutcomeReview(r, o, decision))
  <1>1. decision \in Decisions /\ decision # None
    BY FrameworkAssumption DEF Decisions
  <1> DEFINE new == SetOutcomeReview(r, o, decision)
  <1>2. new \in Responses
    BY <1>1 DEF Responses, SetOutcomeReview
  <1>3. \A q \in Outcomes : new.outcomes[q].decision = IF q = o THEN decision ELSE r.outcomes[q].decision
    BY DEF Responses, SetOutcomeReview
  <1> QED
    BY <1>1, <1>2, <1>3 DEF AllDecided

LEMMA SetRecommendationsIs ==
  ASSUME NEW r \in Responses, NEW o \in Outcomes, NEW titles \in Seq(Titles)
  PROVE  /\ SetRecommendations(r, o, titles) \in Responses
         /\ AllDecided(r) => AllDecided(SetRecommendations(r, o, titles))
  <1> DEFINE new == SetRecommendations(r, o, titles)
  <1>1. new \in Responses
    BY DEF Responses, SetRecommendations
  <1>2. \A q \in Outcomes : new.outcomes[q].decision = r.outcomes[q].decision
    BY DEF Responses, SetRecommendations
  <1> QED
    BY <1>1, <1>2 DEF AllDecided

LEMMA OtherChangesAre ==
  ASSUME NEW r \in Responses
  PROVE  /\ \A b \in ToSet(Objectives), kind \in CommentKinds :
              /\ SetObjectiveComments(r, b, kind) \in Responses
              /\ AllDecided(r) => AllDecided(SetObjectiveComments(r, b, kind))
         /\ \A key \in NeededDetails \cup AreaDetails :
              /\ SetAdditionalDetail(r, key) \in Responses
              /\ AllDecided(r) => AllDecided(SetAdditionalDetail(r, key))
         /\ ConfirmScope(r) \in Responses
         /\ AllDecided(r) => AllDecided(ConfirmScope(r))
  <1>1. ASSUME NEW b \in ToSet(Objectives), NEW kind \in CommentKinds
        PROVE  /\ SetObjectiveComments(r, b, kind) \in Responses
               /\ SetObjectiveComments(r, b, kind).outcomes = r.outcomes
    BY DEF Responses, SetObjectiveComments
  <1>2. ASSUME NEW key \in NeededDetails \cup AreaDetails
        PROVE  /\ SetAdditionalDetail(r, key) \in Responses
               /\ SetAdditionalDetail(r, key).outcomes = r.outcomes
    BY DEF Responses, SetAdditionalDetail
  <1>3. ConfirmScope(r) \in Responses /\ ConfirmScope(r).outcomes = r.outcomes
    BY DEF Responses, ConfirmScope
  <1> QED
    BY <1>1, <1>2, <1>3 DEF AllDecided

\* A review that may be made into a report has a decision for every outcome.
LEMMA ReadyIsDecided ==
  ASSUME NEW a, NEW r, IsReadyToSubmit(a, r)
  PROVE  /\ AllDecided(r)
         /\ CompletedOutcomes(a, r) = Outcomes
  <1>1. \A o \in Outcomes : o \in CompletedOutcomes(a, r)
    BY OutcomeHome DEF IsReadyToSubmit, IsReviewObjectiveComplete, OutcomesOfObjective
  <1>2. \A o \in Outcomes : r.outcomes[o].decision \in Levels
    BY <1>1 DEF CompletedOutcomes, IsOutcomeComplete
  <1> QED
    BY <1>1, <1>2, FrameworkAssumption DEF AllDecided, CompletedOutcomes
-----------------------------------------------------------------------------
(* The steps of the draft.                                                 *)

LEMMA PageIs ==
  ASSUME NEW p \in AllPages \cup {DraftPage}
  PROVE  /\ p.type \in {"indicators", "confirmation"} => p.code \in Outcomes /\ p = Page(p.type, p.code)
         /\ p.type = "objective" => p.code \in ToSet(Objectives)
         /\ p.type # "draft" => p \in AllPages
  BY DEF AllPages, Page, DraftPage

LEMMA PagesAre ==
  /\ \A b \in ToSet(Objectives) : Page("objective", b) \in AllPages
  /\ \A o \in Outcomes, type \in {"indicators", "confirmation"} : Page(type, o) \in AllPages
  BY DEF AllPages

LEMMA NextObjectiveIs ==
  ASSUME NEW b \in ToSet(Objectives)
  PROVE  NextObjective(b) \in ToSet(Objectives) \cup {None}
  <1> DEFINE i == CHOOSE n \in DOMAIN Objectives : Objectives[n] = b
  <1>1. NextObjective(b) = IF i < Len(Objectives) THEN Objectives[i + 1] ELSE None
    BY DEF NextObjective
  <1>2. i \in DOMAIN Objectives
    BY DEF ToSet
  <1>3. DOMAIN Objectives = 1 .. Len(Objectives) /\ Len(Objectives) \in Nat
    BY FrameworkAssumption, LenProperties DEF IsASequence
  <1> HIDE DEF i
  <1>4. i < Len(Objectives) => i + 1 \in DOMAIN Objectives
    BY <1>2, <1>3
  <1> QED
    BY <1>1, <1>4 DEF ToSet

PageSet == AllPages \cup {DraftPage, None}

LEMMA PageSetIs == ToSet(Elements) \cup {DraftPage, None} = PageSet
  BY ElementsFacts DEF PageSet

\* What is confirmed in an assessment has a status, unless it is partial.
Settled(a) == ~ a.partial => \A o \in Confirmed(a.data) : HasStatus(a, o)

\* While there is no review, only the assessments and the page matter.
LEMMA DraftKeeps ==
  ASSUME LifecycleInv, Drafting, UNCHANGED draftOnly,
         rows' \in [Statuses -> Assessments \cup {None}], page' \in PageSet,
         DraftInv', RowsInv'
  PROVE  LifecycleInv'
  <1>1. TypeOK /\ ReviewInv /\ PlanInv /\ review = None
    BY DEF LifecycleInv, Drafting
  <1>2. /\ review' = None /\ offered' = offered /\ history' = history /\ tip' = tip /\ rolled' = rolled
        /\ stale' = stale /\ offered = FALSE
        /\ tip # None => rolled
    BY <1>1 DEF draftOnly, ReviewInv, PlanInv, IsReviewFinalised, IsReviewComplete, TypeOK
  <1>3. TypeOK'
    <2>1. page' \in ToSet(Elements) \cup {DraftPage, None}
      BY PageSetIs
    <2> QED
      BY <1>1, <1>2, <2>1 DEF TypeOK
  <1>4. ReviewInv'
    BY <1>2 DEF ReviewInv
  <1>5. PlanInv'
    BY <1>2 DEF PlanInv, ActionsFitUntilRollback
  <1> QED
    BY <1>3, <1>4, <1>5 DEF LifecycleInv

\* The page alone changes.
LEMMA PageKeeps ==
  ASSUME LifecycleInv, Drafting, UNCHANGED draftOnly, UNCHANGED rows,
         rows["draft"] # None, NEW p \in PageSet, page' = p, p # None => p.type # "confirmation"
  PROVE  LifecycleInv'
  <1>1. DraftInv'
    BY DEF DraftInv, PageHasAnswers, At
  <1>2. RowsInv'
    BY DEF LifecycleInv, RowsInv, Assessed, draftOnly
  <1>3. rows' \in [Statuses -> Assessments \cup {None}]
    BY DEF LifecycleInv, TypeOK
  <1> QED
    BY <1>1, <1>2, <1>3, DraftKeeps

\* The draft alone changes, and the page.
LEMMA DraftIs ==
  ASSUME LifecycleInv, Drafting, UNCHANGED draftOnly,
         NEW a \in Assessments, Settled(a), rows' = [rows EXCEPT !["draft"] = a],
         NEW p \in PageSet, page' = p,
         p # None /\ p.type = "confirmation" => a.data[p.code] # None /\ a.data[p.code].ticked # {}
  PROVE  LifecycleInv'
  <1>1. TypeOK /\ RowsInv
    BY DEF LifecycleInv
  <1>2. /\ rows' \in [Statuses -> Assessments \cup {None}]
        /\ rows'["draft"] = a /\ rows'["submitted"] = rows["submitted"]
    BY <1>1 DEF TypeOK, Statuses
  <1>3. a # None
    BY RecordAssumption
  <1>4. DraftInv'
    BY <1>2, <1>3 DEF DraftInv, PageHasAnswers, At
  <1>5. RowsInv'
    BY <1>1, <1>2 DEF RowsInv, Assessed, Settled, Statuses, draftOnly
  <1> QED
    BY <1>2, <1>4, <1>5, DraftKeeps
LEMMA AssessmentIs ==
  ASSUME NEW a \in Assessments
  PROVE  /\ a # None /\ a.data \in Data /\ a.caf_profile \in Profiles /\ a.review_type \in ReviewTypes
         /\ a.partial \in BOOLEAN
         /\ \A d \in Data : /\ [a EXCEPT !.data = d] \in Assessments
                            /\ [a EXCEPT !.data = d].data = d
                            /\ [a EXCEPT !.data = d].partial = a.partial
  <1>1. a # None
    BY RecordAssumption
  <1>2. /\ a \in [data : Data, caf_profile : Profiles, review_type : ReviewTypes, partial : BOOLEAN]
        /\ <<a.caf_profile, a.review_type>> \in Plans \cup StalePlans
    BY DEF Assessments
  <1> QED
    BY <1>1, <1>2 DEF Assessments

LEMMA NewAssessmentIs ==
  ASSUME NEW d \in Data, NEW plan \in Plans \cup StalePlans, NEW b \in BOOLEAN
  PROVE  [data |-> d, caf_profile |-> plan[1], review_type |-> plan[2], partial |-> b] \in Assessments
  <1>1. plan = <<plan[1], plan[2]>> /\ plan[1] \in Profiles /\ plan[2] \in ReviewTypes
    BY LifecycleAssumption
  <1> QED
    BY <1>1 DEF Assessments

LEMMA WithDetailsIs ==
  ASSUME NEW a \in Assessments, NEW plan \in Plans \cup StalePlans
  PROVE  /\ WithDetails(a, plan) \in Assessments
         /\ WithDetails(a, plan).data = a.data /\ WithDetails(a, plan).partial = a.partial
  <1>1. plan = <<plan[1], plan[2]>> /\ plan[1] \in Profiles /\ plan[2] \in ReviewTypes
    BY LifecycleAssumption
  <1>2. /\ a.data \in Data /\ a.partial \in BOOLEAN
        /\ a \in [data : Data, caf_profile : Profiles, review_type : ReviewTypes, partial : BOOLEAN]
    BY DEF Assessments
  <1>3. WithDetails(a, plan) =
          [data |-> a.data, caf_profile |-> plan[1], review_type |-> plan[2], partial |-> a.partial]
    <2> DEFINE p1 == plan[1]
               p2 == plan[2]
               one == [a EXCEPT !.caf_profile = p1]
               two == [one EXCEPT !.review_type = p2]
    <2>1. WithDetails(a, plan) = two
      BY DEF WithDetails
    <2> HIDE DEF p1, p2
    <2>2. one = [data |-> a.data, caf_profile |-> p1, review_type |-> a.review_type, partial |-> a.partial]
      BY <1>2
    <2> HIDE DEF one
    <2>3. two = [data |-> a.data, caf_profile |-> p1, review_type |-> p2, partial |-> a.partial]
      BY <2>2
    <2> HIDE DEF two
    <2> QED
      BY <2>1, <2>3 DEF p1, p2
  <1> QED
    BY <1>2, <1>3, NewAssessmentIs

LEMMA EditDetailsKeeps ==
  ASSUME LifecycleInv, NEW plan \in Plans, EditDetails(plan)
  PROVE  LifecycleInv'
  <1> DEFINE a == rows["draft"]
             new == WithDetails(a, plan)
  <1>1. /\ Drafting /\ rows' = [rows EXCEPT !["draft"] = new] /\ page' = DraftPage
        /\ UNCHANGED draftOnly
    BY DEF EditDetails
  <1>2. a # None /\ a \in Assessments /\ Settled(a)
    BY DEF EditDetails, LifecycleInv, TypeOK, RowsInv, Settled, Statuses
  <1>3. DraftPage \in PageSet /\ DraftPage.type # "confirmation"
    BY DEF PageSet, DraftPage
  <1> HIDE DEF a
  <1>4. new \in Assessments /\ new.data = a.data /\ new.partial = a.partial
    BY <1>2, WithDetailsIs
  <1> HIDE DEF new
  <1>5. Settled(new)
    BY <1>2, <1>4 DEF Settled, Confirmed, HasStatus
  <1> QED
    BY <1>1, <1>3, <1>4, <1>5, DraftIs

\* The answers of what was submitted are not touched; the category of an action
\* is not promised any more.
LEMMA EditSubmittedKeeps ==
  ASSUME LifecycleInv, NEW plan \in StalePlans, EditSubmitted(plan)
  PROVE  LifecycleInv'
  <1> DEFINE a == rows["submitted"]
             new == WithDetails(a, plan)
  <1>1. /\ rows' = [rows EXCEPT !["submitted"] = new] /\ stale = "yes" /\ stale' = "used"
        /\ UNCHANGED <<page, review, offered, history, tip, rolled>>
        /\ TypeOK /\ DraftInv /\ RowsInv /\ ReviewInv /\ PlanInv
    BY DEF EditSubmitted, LifecycleInv
  <1>2. a # None /\ a \in Assessments
    BY <1>1 DEF TypeOK, RowsInv, Statuses
  <1>3. \A o \in Confirmed(a.data) : ~ a.partial => HasStatus(a, o)
    BY <1>1, <1>2 DEF RowsInv, Statuses
  <1>4. \A o \in Outcomes : ~ a.partial => HasStatus(a, o)
    BY <1>1, <1>2 DEF RowsInv, Assessed
  <1> HIDE DEF a
  <1>5. new \in Assessments /\ new.data = a.data /\ new.partial = a.partial /\ new # None
    BY <1>2, WithDetailsIs, RecordAssumption
  <1> HIDE DEF new
  <1>6. /\ rows' \in [Statuses -> Assessments \cup {None}]
        /\ rows'["submitted"] = new /\ rows'["draft"] = rows["draft"]
    BY <1>1, <1>5 DEF TypeOK, Statuses
  <1>7. TypeOK'
    BY <1>1, <1>6 DEF TypeOK
  <1>8. DraftInv'
    BY <1>1, <1>6 DEF DraftInv, PageHasAnswers, At, Drafting
  <1>9. RowsInv'
    <2>1. \A o : HasStatus(a, o) => HasStatus(new, o)
      BY <1>5 DEF HasStatus
    <2>2. Confirmed(new.data) = Confirmed(a.data)
      BY <1>5
    <2> QED
      BY <1>1, <1>3, <1>4, <1>5, <1>6, <2>1, <2>2 DEF RowsInv, Assessed, Statuses
  <1>10. ReviewInv'
    BY <1>1, <1>5, <1>6 DEF ReviewInv, AllDecided
  <1>11. PlanInv'
    BY <1>1 DEF PlanInv, ActionsFitUntilRollback, IsReviewFinalised, IsReviewComplete
  <1> QED
    BY <1>7, <1>8, <1>9, <1>10, <1>11 DEF LifecycleInv

LEMMA StartDraftKeeps ==
  ASSUME LifecycleInv, NEW plan \in Plans, StartDraft(plan)
  PROVE  LifecycleInv'
  <1> DEFINE a == [data |-> NoData, caf_profile |-> plan[1], review_type |-> plan[2], partial |-> FALSE]
  <1>1. a \in Assessments
    BY NoDataIs, NewAssessmentIs
  <1>2. Settled(a)
    <2>1. Confirmed(NoData) = {} /\ a.data = NoData
      BY DEF Confirmed, NoData
    <2> HIDE DEF a
    <2> QED
      BY <2>1 DEF Settled
  <1>3. Drafting /\ rows' = [rows EXCEPT !["draft"] = a] /\ page' = DraftPage /\ UNCHANGED draftOnly
    BY DEF StartDraft
  <1>4. DraftPage \in PageSet /\ DraftPage.type # "confirmation"
    BY DEF PageSet, DraftPage
  <1> HIDE DEF a
  <1> QED
    BY <1>1, <1>2, <1>3, <1>4, DraftIs

\* On the page of an objective.
LEMMA AtIs ==
  ASSUME LifecycleInv, NEW type \in {"draft", "objective", "indicators", "confirmation"}, At(type)
  PROVE  /\ Drafting /\ page # None /\ page.type = type
         /\ rows["draft"] \in Assessments
         /\ type = "objective" => page.code \in ToSet(Objectives)
         /\ type \in {"indicators", "confirmation"} => page.code \in Outcomes /\ page = Page(type, page.code)
  <1>1. Drafting /\ page # None /\ page.type = type
    BY DEF At
  <1>2. rows["draft"] # None
    BY <1>1 DEF LifecycleInv, DraftInv
  <1>3. rows["draft"] \in Assessments
    BY <1>2 DEF LifecycleInv, TypeOK, Statuses
  <1>4. page \in AllPages \cup {DraftPage}
    BY <1>1, PageSetIs DEF LifecycleInv, TypeOK, PageSet
  <1> QED
    BY <1>1, <1>3, <1>4, PageIs

LEMMA OpenKeeps ==
  ASSUME LifecycleInv,
         \/ OpenDraft
         \/ \E b \in ToSet(Objectives) : OpenObjective(b)
         \/ OpenNextObjective
         \/ \E o \in Outcomes : OpenOutcome(o)
         \/ BackToIndicators
  PROVE  LifecycleInv'
  <1>1. \E p \in PageSet : /\ Drafting /\ rows["draft"] # None /\ UNCHANGED <<rows, draftOnly>>
                           /\ page' = p /\ p.type # "confirmation"
    <2> DEFINE Right(p) == /\ Drafting /\ rows["draft"] # None /\ UNCHANGED <<rows, draftOnly>>
                           /\ page' = p /\ p.type # "confirmation"
    <2>1. DraftPage \in PageSet /\ DraftPage.type # "confirmation"
      BY DEF PageSet, DraftPage
    <2>2. ASSUME NEW b \in ToSet(Objectives)
          PROVE  Page("objective", b) \in PageSet /\ Page("objective", b).type # "confirmation"
      BY PagesAre DEF PageSet, Page
    <2>3. ASSUME NEW o \in Outcomes
          PROVE  /\ Page("indicators", o) \in PageSet /\ Page("indicators", o).type # "confirmation"
                 /\ OutcomePages(o)[1] = Page("indicators", o)
      BY PagesAre DEF PageSet, Page, OutcomePages
    <2>4. CASE OpenDraft
      <3>1. Right(DraftPage)
        BY <2>1, <2>4 DEF OpenDraft
      <3> QED
        BY <2>1, <3>1
    <2>5. CASE \E b \in ToSet(Objectives) : OpenObjective(b)
      <3>1. PICK b \in ToSet(Objectives) : OpenObjective(b)
        BY <2>5
      <3>2. Drafting /\ rows["draft"] # None
        BY <3>1, AtIs, RecordAssumption DEF OpenObjective
      <3>3. Right(Page("objective", b))
        BY <2>2, <3>1, <3>2 DEF OpenObjective, Page
      <3> QED
        BY <2>2, <3>3
    <2>6. CASE OpenNextObjective
      <3>1. Drafting /\ rows["draft"] # None /\ page.code \in ToSet(Objectives)
        BY <2>6, AtIs, RecordAssumption DEF OpenNextObjective
      <3>2. CASE NextObjective(page.code) = None
        <4>1. Right(DraftPage)
          BY <2>1, <2>6, <3>1, <3>2 DEF OpenNextObjective
        <4> QED
          BY <2>1, <4>1
      <3>3. CASE NextObjective(page.code) # None
        <4>1. NextObjective(page.code) \in ToSet(Objectives)
          BY <3>1, <3>3, NextObjectiveIs
        <4>2. Right(Page("objective", NextObjective(page.code)))
          BY <2>2, <2>6, <3>1, <3>3, <4>1 DEF OpenNextObjective, Page
        <4> QED
          BY <2>2, <4>1, <4>2
      <3> QED
        BY <3>2, <3>3
    <2>7. CASE \E o \in Outcomes : OpenOutcome(o)
      <3>1. PICK o \in Outcomes : OpenOutcome(o)
        BY <2>7
      <3>2. Drafting /\ rows["draft"] # None
        BY <3>1, AtIs, RecordAssumption DEF OpenOutcome
      <3>3. Right(Page("indicators", o))
        BY <2>3, <3>1, <3>2 DEF OpenOutcome
      <3> QED
        BY <2>3, <3>3
    <2>8. CASE BackToIndicators
      <3>1. Drafting /\ rows["draft"] # None /\ page.code \in Outcomes
        BY <2>8, AtIs, RecordAssumption DEF BackToIndicators
      <3>2. Right(Page("indicators", page.code))
        BY <2>3, <2>8, <3>1 DEF BackToIndicators
      <3> QED
        BY <2>3, <3>1, <3>2
    <2> QED
      BY <2>4, <2>5, <2>6, <2>7, <2>8
  <1>2. PICK p \in PageSet : /\ Drafting /\ rows["draft"] # None /\ UNCHANGED <<rows, draftOnly>>
                             /\ page' = p /\ p.type # "confirmation"
    BY <1>1
  <1> QED
    BY <1>2, PageKeeps
LEMMA SaveIndicatorsKeeps ==
  ASSUME LifecycleInv, NEW ticked, NEW comments \in Comments, SaveIndicators(ticked, comments)
  PROVE  LifecycleInv'
  <1> DEFINE o == page.code
             a == rows["draft"]
  <1>1. /\ Drafting /\ a \in Assessments /\ o \in Outcomes /\ page = Page("indicators", o)
        /\ ticked \in Picks[o]
    BY AtIs DEF SaveIndicators
  <1>2. ticked \in SUBSET Fields(o) /\ ticked # {}
    <2>1. \A q \in Outcomes : Picks[q] \subseteq Selections(q)
      BY LifecycleAssumption
    <2>2. ticked \in Selections(o)
      BY <1>1, <2>1
    <2> QED
      BY <2>2 DEF Selections
  <1> DEFINE d == SetIndicators(a.data, o, ticked, comments)
             new == [a EXCEPT !.data = d]
  <1>3. a.data \in Data
    BY <1>1, AssessmentIs
  <1>4. PICK data \in Data : data = a.data
    BY <1>3
  <1>5. /\ d \in Data /\ d[o] # None /\ d[o].ticked = ticked
        /\ d[o].confirmed => data[o] # None /\ data[o].confirmed /\ d[o].status = data[o].status
        /\ \A q \in Outcomes : q # o => d[q] = data[q]
    <2>1. comments \in Comments \cup {None}
      OBVIOUS
    <2> QED
      BY <1>1, <1>2, <1>4, <2>1, SetIndicatorsIs
  <1>6. rows' = [rows EXCEPT !["draft"] = new]
    <2>1. rows' = [rows EXCEPT !["draft"].data = d]
      BY DEF SaveIndicators, Answer
    <2> HIDE DEF d
    <2> QED
      BY <2>1
  <1>7. page' = Page("confirmation", o) /\ UNCHANGED draftOnly
    BY <1>1, NextPageFacts DEF SaveIndicators
  <1>8. Page("confirmation", o) \in PageSet /\ Page("confirmation", o).code = o
    BY <1>1, PagesAre DEF PageSet, Page
  <1>9. a # None /\ Settled(a)
    BY <1>1, AssessmentIs DEF LifecycleInv, RowsInv, Settled, Statuses
  <1> HIDE DEF d, o, a
  <1>10. new \in Assessments /\ new.data = d /\ new.partial = a.partial
    BY <1>1, <1>5, AssessmentIs
  <1> HIDE DEF new
  <1>11. Settled(new)
    BY <1>4, <1>5, <1>9, <1>10 DEF Settled, Confirmed, HasStatus
  <1> QED
    BY <1>1, <1>2, <1>5, <1>6, <1>7, <1>8, <1>10, <1>11, DraftIs

LEMMA ConfirmOutcomeKeeps ==
  ASSUME LifecycleInv, ConfirmOutcome
  PROVE  LifecycleInv'
  <1> DEFINE o == page.code
             a == rows["draft"]
  <1>1. Drafting /\ a \in Assessments /\ o \in Outcomes
    BY AtIs DEF ConfirmOutcome
  <1>2. a.data[o] # None
    BY DEF ConfirmOutcome, LifecycleInv, DraftInv, PageHasAnswers
  <1> DEFINE d == Confirm(a.data, o)
             new == [a EXCEPT !.data = d]
             p == Page("objective", ObjectiveOf(o))
  <1>3. a.data \in Data
    BY <1>1, AssessmentIs
  <1>4. PICK data \in Data : data = a.data
    BY <1>3
  <1>5. /\ d \in Data /\ d[o] # None /\ d[o].status # None
        /\ \A q \in Outcomes : q # o => d[q] = data[q]
    BY <1>1, <1>2, <1>4, ConfirmIs
  <1>6. rows' = [rows EXCEPT !["draft"] = new]
    <2>1. rows' = [rows EXCEPT !["draft"].data = d]
      BY DEF ConfirmOutcome, Answer
    <2> HIDE DEF d
    <2> QED
      BY <2>1
  <1>7. page' = p /\ UNCHANGED draftOnly
    BY DEF ConfirmOutcome, Page
  <1>8. p \in PageSet /\ p.type # "confirmation"
    BY <1>1, PagesAre, OutcomeHome DEF PageSet, Page
  <1>9. a # None /\ Settled(a)
    BY <1>1, AssessmentIs DEF LifecycleInv, RowsInv, Settled, Statuses
  <1> HIDE DEF d, o, a, p
  <1>10. new \in Assessments /\ new.data = d /\ new.partial = a.partial
    BY <1>1, <1>5, AssessmentIs
  <1> HIDE DEF new
  <1>11. Settled(new)
    BY <1>4, <1>5, <1>9, <1>10 DEF Settled, Confirmed, HasStatus
  <1> QED
    BY <1>1, <1>6, <1>7, <1>8, <1>10, <1>11, DraftIs

LEMMA SubmitKeeps ==
  ASSUME LifecycleInv, Submit
  PROVE  LifecycleInv'
  <1> DEFINE a == rows["draft"]
             new == NewReview(NoResponse)
  <1>1. a \in Assessments /\ a # None /\ Settled(a) /\ IsComplete(a.data)
    BY DEF Submit, LifecycleInv, TypeOK, RowsInv, Settled, Statuses
  <1>2. rows' = [s \in Statuses |-> IF s = "draft" THEN None ELSE a]
    BY DEF Submit, Statuses
  <1>3. new \in Reviews /\ new.status # "completed"
    BY NoResponseIs DEF NewReview, Reviews
  <1>4. /\ review' \in {new, None} /\ page' = None /\ stale' = "yes"
        /\ UNCHANGED <<offered, history, tip, rolled>>
    BY DEF Submit
  <1>5. offered = FALSE /\ (tip # None => rolled) /\ TypeOK
    BY DEF Submit, Drafting, LifecycleInv, TypeOK, ReviewInv, PlanInv, IsReviewFinalised, IsReviewComplete
  <1>6. Confirmed(a.data) = Outcomes
    BY <1>1, CompleteIs
  <1> HIDE DEF a, new
  <1>7. TypeOK'
    BY <1>1, <1>2, <1>3, <1>4, <1>5 DEF TypeOK
  <1>8. /\ rows'["draft"] = None /\ rows'["submitted"] = a
    BY <1>2 DEF Statuses
  <1>9. DraftInv'
    BY <1>4 DEF DraftInv, PageHasAnswers, At
  <1>10. RowsInv'
    BY <1>1, <1>6, <1>8 DEF RowsInv, Assessed, Settled, Statuses
  <1>11. ReviewInv'
    BY <1>1, <1>3, <1>4, <1>5, <1>8 DEF ReviewInv
  <1>12. PlanInv'
    BY <1>4, <1>5 DEF PlanInv, ActionsFitUntilRollback
  <1> QED
    BY <1>7, <1>9, <1>10, <1>11, <1>12 DEF LifecycleInv
-----------------------------------------------------------------------------
(* The steps of the imports.                                               *)

LEMMA ImportAssessmentKeeps ==
  ASSUME LifecycleInv, NEW book, NEW s \in Statuses, NEW plan \in Plans,
         ImportAssessment(book, s, plan)
  PROVE  LifecycleInv'
  <1> DEFINE a == ImportedRow(book, plan)
  <1>1. /\ Drafting /\ Parse(book) # Refused /\ rows[s] = None /\ UNCHANGED <<page, draftOnly>>
        /\ rows' = [rows EXCEPT ![s] = a]
        /\ TypeOK /\ DraftInv /\ RowsInv
    BY DEF ImportAssessment, LifecycleInv
  <1>2. /\ Parse(book) \in Data
        /\ MissingRequired(book) = {} =>
             \A o \in Outcomes : Parse(book)[o] # None /\ Parse(book)[o].status # None
    BY <1>1, ParseIs
  <1>3. a \in Assessments
    <2>1. PICK b \in BOOLEAN : b = (MissingRequired(book) # {})
      OBVIOUS
    <2>2. a = [data |-> Parse(book), caf_profile |-> plan[1], review_type |-> plan[2], partial |-> b]
      BY <2>1 DEF ImportedRow
    <2> HIDE DEF a
    <2> QED
      BY <1>2, <2>2, NewAssessmentIs
  <1>4. ~ a.partial => \A o \in Outcomes : HasStatus(a, o)
    BY <1>2 DEF ImportedRow, HasStatus
  <1>5. a # None
    BY <1>3, AssessmentIs
  <1> HIDE DEF a
  <1>6. /\ rows' \in [Statuses -> Assessments \cup {None}]
        /\ rows'[s] = a /\ \A t \in Statuses : t # s => rows'[t] = rows[t]
    BY <1>1, <1>3 DEF TypeOK
  <1>7. page' \in PageSet
    BY <1>1, PageSetIs DEF TypeOK
  <1>8. DraftInv'
    <2>1. page # None => s # "draft" /\ rows["draft"] # None
      BY <1>1 DEF DraftInv
    <2>2. page' = page /\ (page # None => rows'["draft"] = rows["draft"] /\ rows'["draft"] # None)
      BY <1>1, <1>6, <2>1 DEF Statuses
    <2>3. review' = review
      BY <1>1 DEF draftOnly
    <2>4. PageHasAnswers'
      BY <1>1, <2>2, <2>3 DEF DraftInv, PageHasAnswers, At, Drafting
    <2> QED
      BY <2>2, <2>4 DEF DraftInv
  <1>9. RowsInv'
    BY <1>1, <1>4, <1>6 DEF RowsInv, Assessed, Statuses, Confirmed, draftOnly
  <1> QED
    BY <1>1, <1>6, <1>7, <1>8, <1>9, DraftKeeps

LEMMA AppendIs ==
  ASSUME NEW X, NEW s \in Seq(X), NEW x \in X
  PROVE  /\ Append(s, x) \in Seq(X) /\ Append(s, x) # <<>> /\ Last(Append(s, x)) = x
  <1>1. /\ Append(s, x) \in Seq(X) /\ Append(s, x) # <<>> /\ Len(Append(s, x)) = Len(s) + 1
        /\ Append(s, x)[Len(s) + 1] = x
    BY AppendProperties
  <1> QED
    BY <1>1 DEF Last

LEMMA ImportReviewKeeps ==
  ASSUME LifecycleInv, NEW book, NEW status \in ImportStatuses, ImportReview(book, status)
  PROVE  LifecycleInv'
  <1> DEFINE response == ImportedResponse(Parse(book))
             new == [status |-> status, response |-> response, completed |-> TRUE, finalised |-> TRUE]
  <1>1. /\ Parse(book) # Refused /\ rows["submitted"] # None /\ review = None
        /\ review' = new /\ history' = Recorded(new) /\ page' = None
        /\ UNCHANGED <<rows, offered, tip, rolled, stale>>
    BY DEF ImportReview
  <1>2. response \in Responses /\ AllDecided(response)
    BY <1>1, ParseIs, ImportedResponseIs
  <1>3. status \in {"to_do", "in_progress", "completed"}
    BY LifecycleAssumption
  <1>4. TypeOK /\ RowsInv /\ offered = FALSE /\ (tip # None => rolled)
    BY <1>1 DEF LifecycleInv, TypeOK, ReviewInv, PlanInv, IsReviewFinalised, IsReviewComplete
  <1> HIDE DEF response
  <1>5. new \in Reviews /\ new.status = status /\ new.response = response
    BY <1>2, <1>3 DEF Reviews
  <1> HIDE DEF new
  <1>6. /\ history' \in Seq(Responses)
        /\ status = "completed" => history' # <<>> /\ Last(history') = response
    BY <1>1, <1>2, <1>4, <1>5, AppendIs DEF Recorded, TypeOK
  <1>7. TypeOK'
    BY <1>1, <1>4, <1>5, <1>6 DEF TypeOK
  <1>8. new # None
    BY <1>5, RecordAssumption
  <1>9. DraftInv'
    BY <1>1, <1>8 DEF DraftInv, PageHasAnswers, At
  <1>10. RowsInv'
    BY <1>1, <1>4 DEF RowsInv, Assessed
  <1>11. ReviewInv'
    BY <1>1, <1>2, <1>4, <1>5, <1>6 DEF ReviewInv
  <1>12. PlanInv'
    BY <1>1, <1>4 DEF PlanInv, ActionsFitUntilRollback
  <1> QED
    BY <1>7, <1>9, <1>10, <1>11, <1>12 DEF LifecycleInv
-----------------------------------------------------------------------------
(* The steps of the review.                                                *)

\* The types of a plan's actions.
TipOK(actions) ==
  \/ actions = None
  \/ /\ DOMAIN actions \subseteq Outcomes \X (Nat \ {0})
     /\ \A id \in DOMAIN actions : actions[id] \in [title : Titles, category : Categories]

\* Once there is a review, only the review, its history and its plan matter.
LEMMA ReviewKeeps ==
  ASSUME LifecycleInv, review # None, review' \in Reviews, UNCHANGED <<rows, page, stale>>,
         offered' \in BOOLEAN, history' \in Seq(Responses), rolled' \in BOOLEAN, TipOK(tip'),
         ReviewInv', PlanInv'
  PROVE  LifecycleInv'
  <1>1. TypeOK /\ DraftInv /\ RowsInv /\ rows' = rows /\ page' = page /\ stale' = stale
    BY DEF LifecycleInv
  <1>2. TypeOK'
    BY <1>1 DEF TypeOK, TipOK
  <1>3. review' # None
    BY RecordAssumption
  <1>4. DraftInv'
    BY <1>1, <1>3 DEF DraftInv, PageHasAnswers, At, Drafting
  <1>5. RowsInv'
    BY <1>1 DEF RowsInv, Assessed
  <1> QED
    BY <1>2, <1>4, <1>5 DEF LifecycleInv

\* While the review is not completed it is not final: its plan is one that a
\* rollback left.
LEMMA EditKeeps ==
  ASSUME LifecycleInv, review # None, review.status # "completed",
         review' \in Reviews, review'.status # "completed",
         AllDecided(review.response) => AllDecided(review'.response),
         UNCHANGED <<rows, page, history, tip, rolled, stale>>,
         offered' \in BOOLEAN, offered' => offered \/ AllDecided(review.response)
  PROVE  LifecycleInv'
  <1>1. TypeOK /\ ReviewInv /\ PlanInv
    BY DEF LifecycleInv
  <1>2. tip # None => rolled
    BY <1>1 DEF PlanInv, IsReviewFinalised, IsReviewComplete
  <1>3. PlanInv'
    BY <1>2 DEF PlanInv, ActionsFitUntilRollback
  <1>4. AllDecided(review'.response) => AllDecided(review.response)'
    BY DEF AllDecided
  <1>5. review' # None
    BY RecordAssumption
  <1>6. ReviewInv'
    BY <1>1, <1>4, <1>5 DEF ReviewInv
  <1>7. history' \in Seq(Responses) /\ rolled' \in BOOLEAN /\ TipOK(tip')
    BY <1>1 DEF TypeOK, TipOK
  <1> QED
    BY <1>3, <1>6, <1>7, ReviewKeeps

LEMMA ReviewIs ==
  ASSUME TypeOK, review # None
  PROVE  /\ review \in Reviews /\ review.response \in Responses
         /\ \A r \in Responses : /\ [review EXCEPT !.response = r] \in Reviews
                                 /\ [review EXCEPT !.response = r].response = r
                                 /\ [review EXCEPT !.response = r].status = review.status
  BY DEF TypeOK, Reviews

LEMMA RespondKeeps ==
  ASSUME LifecycleInv, Open, NEW r \in Responses, Respond(r),
         AllDecided(review.response) => AllDecided(r)
  PROVE  LifecycleInv'
  <1>1. review # None /\ review.status # "completed" /\ TypeOK
    BY DEF Open, LifecycleInv
  <1> DEFINE new == [review EXCEPT !.response = r]
  <1>2. new \in Reviews /\ new.response = r /\ new.status = review.status
    BY <1>1, ReviewIs
  <1>3. review' = new /\ UNCHANGED <<rows, page, offered, history, tip, rolled, stale>>
    BY DEF Respond
  <1>4. offered \in BOOLEAN
    BY <1>1 DEF TypeOK
  <1> HIDE DEF new
  <1> QED
    BY <1>1, <1>2, <1>3, <1>4, EditKeeps

LEMMA SaveScopeKeeps ==
  ASSUME LifecycleInv, SaveScope
  PROVE  LifecycleInv'
  <1>1. review # None /\ review.status # "completed" /\ TypeOK
    BY DEF SaveScope, LifecycleInv
  <1> DEFINE s == IF review.status = "to_do" THEN "in_progress" ELSE review.status
             r == ConfirmScope(review.response)
             new == [[review EXCEPT !.response = r] EXCEPT !.status = s]
  <1>2. r \in Responses /\ (AllDecided(review.response) => AllDecided(r)) /\ review \in Reviews
    BY <1>1, ReviewIs, OtherChangesAre
  <1>3. review' = new /\ UNCHANGED <<rows, page, offered, history, tip, rolled, stale>>
    BY DEF SaveScope
  <1> HIDE DEF r
  <1>4. new \in Reviews /\ new.response = r /\ new.status # "completed"
    BY <1>1, <1>2 DEF Reviews
  <1>5. offered \in BOOLEAN
    BY <1>1 DEF TypeOK
  <1> HIDE DEF new
  <1> QED
    BY <1>1, <1>2, <1>3, <1>4, <1>5, EditKeeps

LEMMA OutcomeKeeps ==
  ASSUME LifecycleInv, NEW o \in Outcomes,
         \/ \E decision \in Judgements[o] : ReviewOutcome(o, decision)
         \/ \E titles \in RecommendationLists[Assessed.review_type][o] : SaveRecommendations(o, titles)
  PROVE  LifecycleInv'
  <1>1. CASE \E decision \in Judgements[o] : ReviewOutcome(o, decision)
    <2>1. PICK decision \in Judgements[o] : ReviewOutcome(o, decision)
      BY <1>1
    <2>2. decision \in Levels
      <3>1. Judgements[o] \subseteq Levels
        BY LifecycleAssumption
      <3> QED
        BY <3>1
    <2>3. Open /\ Respond(SetOutcomeReview(review.response, o, decision)) /\ review # None
      BY <2>1 DEF ReviewOutcome, Open
    <2>4. review.response \in Responses
      BY <2>3, ReviewIs DEF LifecycleInv
    <2> QED
      BY <2>2, <2>3, <2>4, SetOutcomeReviewIs, RespondKeeps
  <1>2. CASE \E titles \in RecommendationLists[Assessed.review_type][o] : SaveRecommendations(o, titles)
    <2>1. PICK titles \in RecommendationLists[Assessed.review_type][o] : SaveRecommendations(o, titles)
      BY <1>2
    <2>2. Open /\ Respond(SetRecommendations(review.response, o, titles)) /\ review # None
      BY <2>1 DEF SaveRecommendations, Open
    <2>3. Assessed \in Assessments
      BY <2>2 DEF LifecycleInv, TypeOK, ReviewInv, Assessed, Statuses
    <2>4. titles \in Seq(Titles)
      <3>1. PICK t \in ReviewTypes : t = Assessed.review_type
        BY <2>3, AssessmentIs
      <3>2. RecommendationLists[t][o] \subseteq Seq(Titles)
        <4>1. RecommendationLists[t] \in [Outcomes -> SUBSET Seq(Titles)]
          BY LifecycleAssumption
        <4> QED
          BY <4>1
      <3> QED
        BY <2>1, <3>1, <3>2
    <2>5. review.response \in Responses
      BY <2>2, ReviewIs DEF LifecycleInv
    <2> QED
      BY <2>2, <2>4, <2>5, SetRecommendationsIs, RespondKeeps
  <1> QED
    BY <1>1, <1>2
LEMMA FillKeeps ==
  ASSUME LifecycleInv, NEW i, Fill(i)
  PROVE  LifecycleInv'
  <1> DEFINE order == FillOrder[Assessed.review_type]
             fill == order[i]
             r == IF fill[1] = None
                    THEN SetAdditionalDetail(review.response, fill[2])
                    ELSE SetObjectiveComments(review.response, fill[1], fill[2])
  <1>1. Open /\ i \in DOMAIN order /\ Respond(r) /\ review # None
    BY DEF Fill, Open
  <1>2. review.response \in Responses
    BY <1>1, ReviewIs DEF LifecycleInv
  <1>3. Assessed \in Assessments
    BY <1>1 DEF LifecycleInv, TypeOK, ReviewInv, Assessed, Statuses
  <1>4. fill \in Fills
    <2>1. ToSet(order) \subseteq Fills
      <3>1. Assessed.review_type \in ReviewTypes
        BY <1>3, AssessmentIs
      <3> QED
        BY <3>1, LifecycleAssumption
    <2> QED
      BY <1>1, <2>1 DEF ToSet
  <1> HIDE DEF order, fill
  <1>5. r \in Responses /\ (AllDecided(review.response) => AllDecided(r))
    <2>1. CASE fill \in {None} \X (NeededDetails \cup AreaDetails)
      <3>1. fill[1] = None /\ fill[2] \in NeededDetails \cup AreaDetails
        BY <2>1
      <3> QED
        BY <1>2, <3>1, OtherChangesAre
    <2>2. CASE fill \in ToSet(Objectives) \X CommentKinds
      <3>1. fill[1] \in ToSet(Objectives) /\ fill[2] \in CommentKinds /\ fill[1] # None
        BY <2>2, FrameworkAssumption
      <3> QED
        BY <1>2, <3>1, OtherChangesAre
    <2> QED
      BY <1>4, <2>1, <2>2 DEF Fills
  <1> HIDE DEF r
  <1> QED
    BY <1>1, <1>5, RespondKeeps

LEMMA OpenReportPageKeeps ==
  ASSUME LifecycleInv, OpenReportPage
  PROVE  LifecycleInv'
  <1>1. /\ review # None /\ review.status # "completed" /\ AllDecided(review.response)
        /\ offered' = TRUE /\ UNCHANGED <<rows, page, review, history, tip, rolled, stale>>
    BY ReadyIsDecided DEF OpenReportPage, Open
  <1>2. review \in Reviews
    BY <1>1 DEF LifecycleInv, TypeOK
  <1> QED
    BY <1>1, <1>2, EditKeeps

LEMMA RecordedIs ==
  ASSUME TypeOK, NEW new \in Reviews, new.status = "completed"
  PROVE  /\ Recorded(new) \in Seq(Responses)
         /\ Recorded(new) # <<>> /\ Last(Recorded(new)) = new.response
  <1>1. new.response \in Responses /\ history \in Seq(Responses)
    BY DEF TypeOK, Reviews
  <1>2. Recorded(new) = Append(history, new.response)
    BY DEF Recorded
  <1> QED
    BY <1>1, <1>2, AppendIs

LEMMA MarkCompleteKeeps ==
  ASSUME LifecycleInv, MarkComplete
  PROVE  LifecycleInv'
  <1> DEFINE new == [review EXCEPT !.status = "completed", !.completed = TRUE]
  <1>1. /\ offered /\ review.status = "in_progress" /\ review' = new /\ history' = Recorded(new)
        /\ offered' = FALSE /\ UNCHANGED <<rows, page, tip, rolled, stale>>
        /\ TypeOK /\ ReviewInv /\ PlanInv
    BY DEF MarkComplete, LifecycleInv
  <1>2. review # None /\ AllDecided(review.response) /\ rows["submitted"] # None
    BY <1>1 DEF ReviewInv
  <1>3. new \in Reviews /\ new.status = "completed" /\ new.response = review.response
    BY <1>1, <1>2 DEF TypeOK, Reviews
  <1> HIDE DEF new
  <1>4. /\ history' \in Seq(Responses) /\ history' # <<>> /\ Last(history') = new.response
    BY <1>1, <1>3, RecordedIs
  <1>5. tip # None => rolled
    BY <1>1 DEF PlanInv, IsReviewFinalised, IsReviewComplete
  <1>6. PlanInv'
    BY <1>1, <1>5 DEF PlanInv, ActionsFitUntilRollback
  <1>7. ReviewInv'
    BY <1>1, <1>2, <1>3, <1>4 DEF ReviewInv, AllDecided
  <1>8. rolled' \in BOOLEAN /\ TipOK(tip') /\ offered' \in BOOLEAN
    BY <1>1 DEF TypeOK, TipOK
  <1> QED
    BY <1>1, <1>2, <1>3, <1>4, <1>6, <1>7, <1>8, ReviewKeeps

LEMMA ReopenKeeps ==
  ASSUME LifecycleInv, Reopen
  PROVE  LifecycleInv'
  <1> DEFINE new == [review EXCEPT !.status = "in_progress", !.completed = FALSE]
  <1>1. /\ review # None /\ ~ IsReviewFinalised /\ review' = new
        /\ UNCHANGED <<rows, page, offered, history, tip, rolled, stale>>
        /\ TypeOK /\ ReviewInv /\ PlanInv
    BY DEF Reopen, IsReviewComplete, LifecycleInv
  <1>2. new \in Reviews /\ new.status # "completed" /\ new.response = review.response
    BY <1>1 DEF TypeOK, Reviews
  <1> HIDE DEF new
  <1>3. PlanInv'
    BY <1>1 DEF PlanInv, ActionsFitUntilRollback
  <1>4. ReviewInv'
    BY <1>1, <1>2, RecordAssumption DEF ReviewInv, AllDecided
  <1>5. rolled' \in BOOLEAN /\ TipOK(tip') /\ offered' \in BOOLEAN /\ history' \in Seq(Responses)
    BY <1>1 DEF TypeOK, TipOK
  <1> QED
    BY <1>1, <1>2, <1>3, <1>4, <1>5, ReviewKeeps

LEMMA FinaliseKeeps ==
  ASSUME LifecycleInv, Finalise
  PROVE  LifecycleInv'
  <1> DEFINE new == [review EXCEPT !.finalised = TRUE]
  <1>1. /\ review # None /\ IsReviewComplete /\ ~ IsReviewFinalised
        /\ review' = new /\ history' = Recorded(new)
        /\ tip' = IF tip = None THEN <<>> ELSE tip
        /\ UNCHANGED <<rows, page, offered, rolled, stale>>
        /\ TypeOK /\ ReviewInv /\ PlanInv
    BY DEF Finalise, IsReviewComplete, LifecycleInv
  <1>2. /\ new \in Reviews /\ new.status = "completed" /\ new.completed /\ new.finalised
        /\ new.response = review.response /\ new # None
    BY <1>1, RecordAssumption DEF TypeOK, Reviews, IsReviewComplete
  <1> HIDE DEF new
  <1>3. /\ history' \in Seq(Responses) /\ history' # <<>> /\ Last(history') = new.response
    BY <1>1, <1>2, RecordedIs
  <1>4. tip # None => rolled
    BY <1>1 DEF PlanInv
  <1>5. DOMAIN <<>> = {}
    OBVIOUS
  <1>6. PlanInv'
    <2>1. IsReviewFinalised'
      BY <1>1, <1>2 DEF IsReviewFinalised, IsReviewComplete
    <2>2. ActionsFitUntilRollback'
      BY <1>1, <1>4, <1>5 DEF ActionsFitUntilRollback
    <2> QED
      BY <2>1, <2>2 DEF PlanInv
  <1>7. review.status = "completed" /\ AllDecided(review.response) /\ rows["submitted"] # None
    BY <1>1 DEF ReviewInv, IsReviewComplete
  <1>8. ReviewInv'
    BY <1>1, <1>2, <1>3, <1>7 DEF ReviewInv, AllDecided
  <1>9. rolled' \in BOOLEAN /\ TipOK(tip') /\ offered' \in BOOLEAN
    BY <1>1, <1>5 DEF TypeOK, TipOK
  <1> QED
    BY <1>1, <1>2, <1>3, <1>6, <1>8, <1>9, ReviewKeeps

LEMMA RollbackKeeps ==
  ASSUME LifecycleInv, Rollback
  PROVE  LifecycleInv'
  <1> DEFINE new == [review EXCEPT !.status = "in_progress", !.completed = FALSE, !.finalised = FALSE]
  <1>1. /\ review # None /\ review' = new /\ rolled' = TRUE
        /\ UNCHANGED <<rows, page, offered, history, tip, stale>>
        /\ TypeOK /\ ReviewInv /\ PlanInv
    BY DEF Rollback, LifecycleInv
  <1>2. new \in Reviews /\ new.status # "completed" /\ new.response = review.response
    BY <1>1 DEF TypeOK, Reviews
  <1> HIDE DEF new
  <1>3. PlanInv'
    BY <1>1 DEF PlanInv, ActionsFitUntilRollback
  <1>4. ReviewInv'
    BY <1>1, <1>2, RecordAssumption DEF ReviewInv, AllDecided
  <1>5. rolled' \in BOOLEAN /\ TipOK(tip') /\ offered' \in BOOLEAN /\ history' \in Seq(Responses)
    BY <1>1 DEF TypeOK, TipOK
  <1> QED
    BY <1>1, <1>2, <1>3, <1>4, <1>5, ReviewKeeps
-----------------------------------------------------------------------------
(* The steps of the plan.                                                  *)

LEMMA IdIs ==
  ASSUME NEW r \in Responses, NEW id \in Ids(r)
  PROVE  id \in Outcomes \X (Nat \ {0}) /\ TitleOf(r, id) \in Titles
  <1>1. PICK o \in Outcomes : id \in {o} \X (DOMAIN r.outcomes[o].recommendations)
    <2> DEFINE S(o) == {o} \X (DOMAIN r.outcomes[o].recommendations)
    <2>1. id \in UNION {S(o) : o \in Outcomes}
      BY Zenon DEF Ids
    <2> HIDE DEF S
    <2>2. \E o \in Outcomes : id \in S(o)
      BY <2>1
    <2> QED
      BY <2>2 DEF S
  <1> DEFINE recs == r.outcomes[o].recommendations
  <1>2. recs \in Seq(Titles)
    BY DEF Responses
  <1>3. id[1] = o /\ id[2] \in DOMAIN recs /\ id = <<o, id[2]>>
    BY <1>1
  <1> HIDE DEF recs
  <1>4. DOMAIN recs \subseteq Nat \ {0} /\ recs[id[2]] \in Titles
    BY <1>2, <1>3, LenProperties, ElementOfSeq
  <1> QED
    BY <1>3, <1>4 DEF TitleOf, recs

ModeOf(r, o) == IF InMode(Assessed, r, o, "priority") THEN "priority" ELSE "normal"

\* What is listed in a mode is given the category the mode stands for.
LEMMA ListedMode ==
  ASSUME NEW r \in Responses, NEW mode \in {"priority", "normal"},
         NEW id \in ToSet(Listed(Assessed, r, mode))
  PROVE  id \in Ids(r) /\ ModeOf(r, id[1]) = mode
  <1>1. id \in Ids(r) /\ InMode(Assessed, r, id[1], mode)
    BY ListedIs
  <1> QED
    BY <1>1 DEF InMode, ModeOf

\* New actions for recommendations that are listed fit them.
LEMMA PlanKeeps ==
  ASSUME LifecycleInv, tip # None, IsReviewFinalised,
         UNCHANGED <<rows, page, review, offered, history, rolled, stale>>,
         NEW ids, NEW mode \in {"priority", "normal"},
         ids \subseteq ToSet(Listed(Assessed, review.response, mode)),
         tip' = [id \in (DOMAIN tip) \cup ids |-> tip'[id]],
         \A id \in (DOMAIN tip) \cup ids :
           (tip'[id] = tip[id] /\ id \in DOMAIN tip) \/ (tip'[id] = Planned(id, mode) /\ id \in ids)
  PROVE  LifecycleInv'
  <1>1. TypeOK /\ ReviewInv /\ PlanInv /\ review # None
    BY DEF LifecycleInv, IsReviewFinalised, IsReviewComplete
  <1>2. review \in Reviews /\ review.response \in Responses
    BY <1>1, ReviewIs
  <1> DEFINE r == review.response
  <1>3. ASSUME NEW id \in ids
        PROVE  /\ id \in Ids(r) /\ id \in Outcomes \X (Nat \ {0})
               /\ Planned(id, mode) \in [title : Titles, category : Categories]
               /\ Planned(id, mode).title = TitleOf(r, id)
               /\ Planned(id, mode).category = Category(ModeOf(r, id[1]))
    <2>1. id \in Ids(r) /\ ModeOf(r, id[1]) = mode
      BY <1>2, ListedMode
    <2>2. id \in Outcomes \X (Nat \ {0}) /\ TitleOf(r, id) \in Titles
      BY <1>2, <2>1, IdIs
    <2>3. Category(mode) \in Categories
      BY DEF Category, Categories
    <2> QED
      BY <2>1, <2>2, <2>3 DEF Planned
  <1>4. DOMAIN tip' = (DOMAIN tip) \cup ids
    BY Zenon
  <1>5. TipOK(tip')
    <2>1. DOMAIN tip' \subseteq Outcomes \X (Nat \ {0})
      BY <1>1, <1>3, <1>4 DEF TypeOK
    <2>2. \A id \in DOMAIN tip' : tip'[id] \in [title : Titles, category : Categories]
      BY <1>1, <1>3, <1>4 DEF TypeOK
    <2> QED
      BY <2>1, <2>2 DEF TipOK
  <1>6. ActionsFitUntilRollback'
    <2> SUFFICES ASSUME ~ rolled, NEW id \in DOMAIN tip'
                 PROVE  /\ id \in Ids(r)
                        /\ tip'[id].title = TitleOf(r, id)
                        /\ stale # "used" => tip'[id].category = Category(ModeOf(r, id[1]))
      BY DEF ActionsFitUntilRollback, ModeOf, Assessed
    <2>1. ASSUME NEW x \in DOMAIN tip
          PROVE  /\ x \in Ids(r)
                 /\ tip[x].title = TitleOf(r, x)
                 /\ stale # "used" => tip[x].category = Category(ModeOf(r, x[1]))
      BY <1>1 DEF PlanInv, ActionsFitUntilRollback, ModeOf
    <2> QED
      BY <1>3, <1>4, <2>1
  <1>7. PlanInv'
    BY <1>6 DEF PlanInv, IsReviewFinalised, IsReviewComplete
  <1>8. ReviewInv'
    BY <1>1 DEF ReviewInv, AllDecided
  <1> QED
    BY <1>1, <1>2, <1>5, <1>7, <1>8, ReviewKeeps DEF TypeOK

LEMMA SaveActionKeeps ==
  ASSUME LifecycleInv, NEW mode \in {"priority", "normal"}, NEW id, SaveAction(id, mode)
  PROVE  LifecycleInv'
  <1>1. /\ tip # None /\ IsReviewFinalised /\ UNCHANGED <<rows, page, review, offered, history, rolled, stale>>
        /\ {id} \subseteq ToSet(Listed(Assessed, review.response, mode))
        /\ tip' = [x \in (DOMAIN tip) \cup {id} |-> IF x = id THEN Planned(id, mode) ELSE tip[x]]
    BY DEF SaveAction
  <1>2. /\ tip' = [x \in (DOMAIN tip) \cup {id} |-> tip'[x]]
        /\ \A x \in (DOMAIN tip) \cup {id} :
             (tip'[x] = tip[x] /\ x \in DOMAIN tip) \/ (tip'[x] = Planned(x, mode) /\ x \in {id})
    <2> DEFINE D == (DOMAIN tip) \cup {id}
               f == [x \in D |-> IF x = id THEN Planned(id, mode) ELSE tip[x]]
    <2>1. tip' = f /\ \A x \in D : x # id => x \in DOMAIN tip
      BY <1>1
    <2>2. f = [x \in D |-> f[x]] /\ \A x \in D : f[x] = IF x = id THEN Planned(id, mode) ELSE tip[x]
      OBVIOUS
    <2> HIDE DEF f, D
    <2>3. tip' = [x \in D |-> tip'[x]]
      BY <2>1, <2>2, Zenon
    <2>4. ASSUME NEW x \in D
          PROVE  (tip'[x] = tip[x] /\ x \in DOMAIN tip) \/ (tip'[x] = Planned(x, mode) /\ x \in {id})
      <3>1. tip'[x] = f[x]
        BY <2>1, Zenon
      <3>2. CASE x = id
        <4>1. tip'[x] = Planned(x, mode)
          BY <2>2, <3>1, <3>2
        <4> QED
          BY <3>2, <4>1
      <3>3. CASE x # id
        <4>1. tip'[x] = tip[x]
          BY <2>2, <3>1, <3>3
        <4> QED
          BY <2>1, <3>3, <4>1, Zenon
      <3> QED
        BY <3>2, <3>3
    <2> QED
      BY <2>3, <2>4 DEF D
  <1> QED
    BY <1>1, <1>2, PlanKeeps

LEMMA BulkReviewKeeps ==
  ASSUME LifecycleInv, BulkReview
  PROVE  LifecycleInv'
  <1> DEFINE ids == ToSet(Listed(Assessed, review.response, "normal"))
  <1>1. /\ tip # None /\ IsReviewFinalised /\ UNCHANGED <<rows, page, review, offered, history, rolled, stale>>
        /\ tip' = [x \in (DOMAIN tip) \cup ids |->
                     IF x \in DOMAIN tip THEN tip[x] ELSE Planned(x, "normal")]
    BY DEF BulkReview
  <1>2. ids \subseteq ToSet(Listed(Assessed, review.response, "normal")) /\ "normal" \in {"priority", "normal"}
    OBVIOUS
  <1> HIDE DEF ids
  <1>3. /\ tip' = [x \in (DOMAIN tip) \cup ids |-> tip'[x]]
        /\ \A x \in (DOMAIN tip) \cup ids :
             (tip'[x] = tip[x] /\ x \in DOMAIN tip) \/ (tip'[x] = Planned(x, "normal") /\ x \in ids)
    <2> DEFINE D == (DOMAIN tip) \cup ids
               f == [x \in D |-> IF x \in DOMAIN tip THEN tip[x] ELSE Planned(x, "normal")]
    <2>1. tip' = f /\ \A x \in D : x \notin DOMAIN tip => x \in ids
      BY <1>1
    <2>2. /\ f = [x \in D |-> f[x]]
          /\ \A x \in D : f[x] = IF x \in DOMAIN tip THEN tip[x] ELSE Planned(x, "normal")
      OBVIOUS
    <2> HIDE DEF f, D
    <2>3. tip' = [x \in D |-> tip'[x]]
      BY <2>1, <2>2, Zenon
    <2>4. ASSUME NEW x \in D
          PROVE  (tip'[x] = tip[x] /\ x \in DOMAIN tip) \/ (tip'[x] = Planned(x, "normal") /\ x \in ids)
      <3>1. tip'[x] = f[x]
        BY <2>1, Zenon
      <3>2. CASE x \in DOMAIN tip
        BY <2>2, <3>1, <3>2, Zenon
      <3>3. CASE x \notin DOMAIN tip
        <4>1. tip'[x] = Planned(x, "normal")
          BY <2>2, <3>1, <3>3
        <4> QED
          BY <2>1, <3>3, <4>1
      <3> QED
        BY <3>2, <3>3
    <2> QED
      BY <2>3, <2>4 DEF D
  <1> QED
    BY <1>1, <1>2, <1>3, PlanKeeps
-----------------------------------------------------------------------------
(* Every step.                                                             *)

LEMMA InitHolds == Init => LifecycleInv
  <1> SUFFICES ASSUME Init PROVE LifecycleInv
    OBVIOUS
  <1>1. /\ \A s \in Statuses : rows[s] = None
        /\ rows \in [Statuses -> Assessments \cup {None}]
        /\ page = None /\ review = None /\ offered = FALSE /\ history = <<>> /\ tip = None /\ rolled = FALSE
        /\ stale = "no"
    BY DEF Init
  <1>2. TypeOK
    BY <1>1, EmptySeq DEF TypeOK
  <1>3. DraftInv
    BY <1>1 DEF DraftInv, PageHasAnswers, At
  <1>4. RowsInv /\ ReviewInv
    BY <1>1 DEF RowsInv, ReviewInv, Statuses
  <1>5. PlanInv
    BY <1>1 DEF PlanInv, ActionsFitUntilRollback
  <1> QED
    BY <1>2, <1>3, <1>4, <1>5 DEF LifecycleInv

LEMMA StepHolds == LifecycleInv /\ [Next]_vars => LifecycleInv'
  <1> SUFFICES ASSUME LifecycleInv, [Next]_vars PROVE LifecycleInv'
    OBVIOUS
  <1>1. CASE DraftStep
    <2>1. CASE \E plan \in Plans : StartDraft(plan)
      BY <2>1, StartDraftKeeps
    <2>2. CASE \E ticked \in UNION {Picks[o] : o \in Outcomes}, comments \in Comments :
                 SaveIndicators(ticked, comments)
      BY <2>2, SaveIndicatorsKeeps
    <2>3. CASE ConfirmOutcome
      BY <2>3, ConfirmOutcomeKeeps
    <2>4. CASE Submit
      BY <2>4, SubmitKeeps
    <2>5. CASE \E plan \in Plans : EditDetails(plan)
      BY <2>5, EditDetailsKeeps
    <2>6. CASE \E plan \in StalePlans : EditSubmitted(plan)
      BY <2>6, EditSubmittedKeeps
    <2> QED
      BY <1>1, <2>1, <2>2, <2>3, <2>4, <2>5, <2>6, OpenKeeps, Zenon DEF DraftStep
  <1>2. CASE ImportStep
    BY <1>2, ImportAssessmentKeeps, ImportReviewKeeps DEF ImportStep
  <1>3. CASE ReviewStep
    BY <1>3, SaveScopeKeeps, OutcomeKeeps, FillKeeps, OpenReportPageKeeps, MarkCompleteKeeps,
       ReopenKeeps, FinaliseKeeps, RollbackKeeps, Zenon DEF ReviewStep
  <1>4. CASE PlanStep
    BY <1>4, SaveActionKeeps, BulkReviewKeeps, Zenon DEF PlanStep
  <1>5. CASE UNCHANGED vars
    BY <1>5 DEF vars, LifecycleInv, TypeOK, DraftInv, PageHasAnswers, At, Drafting, RowsInv, Assessed,
       ReviewInv, PlanInv, ActionsFitUntilRollback, IsReviewFinalised, IsReviewComplete
  <1> QED
    BY <1>1, <1>2, <1>3, <1>4, <1>5 DEF Next

\* The inductive invariant of the period.
LEMMA LifecycleInvariant == Spec => []LifecycleInv
  BY InitHolds, StepHolds, PTL DEF Spec
-----------------------------------------------------------------------------
(* What follows of every state.                                            *)

\* The assessments, the page, the review, its history and the plan stay well
\* formed whatever is opened, saved, imported, submitted or rolled back.
THEOREM LifecycleTypeCorrect == Spec => []TypeOK
  <1>1. LifecycleInv => TypeOK
    BY DEF LifecycleInv
  <1> QED
    BY <1>1, LifecycleInvariant, PTL

\* The summary of an outcome is only reached with answers to summarise, for
\* every framework and whatever else is open: the view that shows it does not
\* look (OutcomeConfirmationView.get_context_data).
THEOREM SummariesHaveAnswers == Spec => []PageHasAnswers
  <1>1. LifecycleInv => PageHasAnswers
    BY DEF LifecycleInv, DraftInv
  <1> QED
    BY <1>1, LifecycleInvariant, PTL

\* The actions of a plan keep fitting the numbers they were saved under, until
\* the back office rolls the review back (utils/review.py numbers by position);
\* their categories fit as long as no old session has changed the profile.
THEOREM ActionsFit == Spec => []ActionsFitUntilRollback
  <1>1. LifecycleInv => ActionsFitUntilRollback
    BY DEF LifecycleInv, PlanInv
  <1> QED
    BY <1>1, LifecycleInvariant, PTL

\* The report of a completed review has every key it looks up, whatever was
\* edited after the create-report page was opened (mark_review_complete looks
\* at the status only).
THEOREM ReportsCanBeBuilt == Spec => []ReportCanBeBuilt
  <1>1. LifecycleInv => ReportCanBeBuilt
    BY DEF LifecycleInv, ReportCanBeBuilt, CanBeBuilt, ReviewInv, RowsInv, AllDecided, HasStatus, Assessed
  <1> QED
    BY <1>1, LifecycleInvariant, PTL

\* What the pages show of a draft is 100 % exactly when it may be submitted: the
\* two are worked out apart (form_extras, Assessment.is_complete).
THEOREM DraftProgressIsHonest == Spec => []ProgressIsHonest
  <1>1. ProgressIsHonest
    BY PercentageIsHonest DEF ProgressIsHonest
  <1> QED
    BY <1>1, PTL

\* For every decision, profile and type of review, an outcome is marked as in
\* need of recommendations exactly when it does not count as complete without
\* them (review_tags, _is_outcome_complete).  This is of each outcome: the scope,
\* the comments and the details of the review have no such mark.
THEOREM AskedIsRequired == Spec => []RequiredIsAsked
  <1>1. RequiredIsAsked
    BY DEF RequiredIsAsked, IsOutcomeComplete, RecommendationsRequired
  <1> QED
    BY <1>1, PTL

LEMMA DetailsAre ==
  ASSUME NEW details \in SUBSET (NeededDetails \cup AreaDetails), NeededDetails \subseteq details
  PROVE  /\ Cardinality(details \cap NeededDetails) = 4
         /\ Cardinality(details) \in Nat /\ Cardinality(details) >= 4
  <1>1. IsFiniteSet(NeededDetails) /\ Cardinality(NeededDetails) = 4
    <2> DEFINE one   == {"iar_period"}
               two   == one \cup {"quality_of_evidence"}
               three == two \cup {"review_method"}
               four  == three \cup {"company_details"}
    <2>1. IsFiniteSet(one) /\ Cardinality(one) = 1
      BY FS_Singleton
    <2>2. "quality_of_evidence" \notin one /\ "review_method" \notin two /\ "company_details" \notin three
      OBVIOUS
    <2>3. NeededDetails = four
      BY DEF NeededDetails
    <2> HIDE DEF one
    <2>4. IsFiniteSet(two) /\ Cardinality(two) = 1 + 1
      BY <2>1, <2>2, FS_AddElement
    <2> HIDE DEF two
    <2>5. IsFiniteSet(three) /\ Cardinality(three) = 1 + 1 + 1
      BY <2>2, <2>4, FS_AddElement
    <2> HIDE DEF three
    <2>6. IsFiniteSet(four) /\ Cardinality(four) = 1 + 1 + 1 + 1
      BY <2>2, <2>5, FS_AddElement
    <2> HIDE DEF four
    <2> QED
      BY <2>3, <2>6
  <1>2. IsFiniteSet(details)
    <2>1. IsFiniteSet(AreaDetails)
      <3>1. IsFiniteSet({"areas_of_good_practice"}) /\ IsFiniteSet({"areas_for_improvement"})
        BY FS_Singleton
      <3>2. AreaDetails = {"areas_of_good_practice"} \cup {"areas_for_improvement"}
        BY DEF AreaDetails
      <3> QED
        BY <3>1, <3>2, FS_Union
    <2>2. IsFiniteSet(NeededDetails \cup AreaDetails)
      BY <1>1, <2>1, FS_Union
    <2> QED
      BY <2>2, FS_Subset
  <1>3. details \cap NeededDetails = NeededDetails
    OBVIOUS
  <1>4. Cardinality(details) \in Nat /\ Cardinality(NeededDetails) <= Cardinality(details)
    BY <1>2, FS_CardinalityType, FS_Subset
  <1> QED
    BY <1>1, <1>3, <1>4

\* A review that may be made into a report shows as complete
\* (get_review_completed_percentage), to the 97 % of the peer reviews that leave
\* out what nothing asks for.
THEOREM ReviewProgressHonest == Spec => []ReviewProgressIsHonest
  <1>1. TypeOK => ReviewProgressIsHonest
    <2> SUFFICES ASSUME TypeOK, review # None, IsReadyToSubmit(Assessed, review.response)
                 PROVE  IF Assessed.review_type = "peer_review"
                          THEN ReviewPercentage(Assessed, review.response) >= 97
                          ELSE ReviewPercentage(Assessed, review.response) = 100
      BY DEF ReviewProgressIsHonest
    <2> DEFINE r == review.response
               outcomes == (90 * Cardinality(CompletedOutcomes(Assessed, r))) \div Cardinality(Outcomes)
               all == 1 + Cardinality(r.details)
               needed == 1 + Cardinality(r.details \cap NeededDetails)
    <2>1. r.scope /\ NeededDetails \subseteq r.details /\ r \in Responses
      BY ReviewIs DEF IsReadyToSubmit
    <2>2. outcomes = 90
      <3>1. CompletedOutcomes(Assessed, r) = Outcomes
        BY ReadyIsDecided
      <3> QED
        BY <3>1, FullShare
    <2>3. needed = 5 /\ all \in Nat /\ all >= 5
      <3>1. r.details \in SUBSET (NeededDetails \cup AreaDetails)
        BY <2>1 DEF Responses
      <3> QED
        BY <2>1, <3>1, DetailsAre
    <2>4. ReviewPercentage(Assessed, r) =
            IF Assessed.review_type = "peer_review"
              THEN outcomes + (14 * all + 5) \div 10
              ELSE outcomes + 2 * needed
      BY <2>1 DEF ReviewPercentage
    <2> HIDE DEF outcomes, all, needed, r
    <2>5. 90 + (14 * all + 5) \div 10 >= 97
      <3>1. 14 * all + 5 >= 75 /\ 14 * all + 5 \in Nat
        BY <2>3
      <3> DEFINE m == 14 * all + 5
      <3> HIDE DEF m
      <3>2. m \in Nat /\ m >= 75 => 90 + m \div 10 >= 97
        OBVIOUS
      <3> QED
        BY <3>1, <3>2 DEF m
    <2> QED
      BY <2>2, <2>3, <2>4, <2>5 DEF r
  <1> QED
    BY <1>1, LifecycleTypeCorrect, PTL
\* No recommendation of a completed review is lost or doubled by the grouping of
\* titles, the split into priorities and others, or the tab that joins the two
\* (get_review_recommendations, _add_recommendations_tab), and the table of the
\* principles agrees with the split.
THEOREM RecommendationsAreListedOnce == Spec => []EveryRecommendationListedOnce
  <1>1. TypeOK => EveryRecommendationListedOnce
    <2> DEFINE r          == review.response
               all        == Listed(Assessed, r, "all")
               first      == Listed(Assessed, r, "priority")
               second     == Listed(Assessed, r, "normal")
               priorities == {id[1] : id \in ToSet(first)}
    <2> SUFFICES ASSUME TypeOK, review # None
                 PROVE  /\ IsInjective(all) /\ IsInjective(first \o second)
                        /\ ToSet(all) = Ids(r) /\ ToSet(first \o second) = Ids(r)
                        /\ \A p \in Principles : PrincipleStatus(Assessed, r, p).review \cap priorities = {}
      BY DEF EveryRecommendationListedOnce, RecommendationsTab
    <2>1. r \in Responses
      BY ReviewIs
    <2> HIDE DEF r
    <2>2. /\ IsInjective(all)
          /\ \A id : id \in ToSet(all) <=> id \in Ids(r) /\ InMode(Assessed, r, id[1], "all")
      BY <2>1, ListedIs
    <2>3. /\ first \in Seq(Ids(r)) /\ IsInjective(first)
          /\ \A id : id \in ToSet(first) <=> id \in Ids(r) /\ InMode(Assessed, r, id[1], "priority")
      BY <2>1, ListedIs
    <2>4. /\ second \in Seq(Ids(r)) /\ IsInjective(second)
          /\ \A id : id \in ToSet(second) <=> id \in Ids(r) /\ InMode(Assessed, r, id[1], "normal")
      BY <2>1, ListedIs
    <2> HIDE DEF all, first, second
    <2>5. \A o : /\ InMode(Assessed, r, o, "all")
                 /\ InMode(Assessed, r, o, "normal") <=> ~ InMode(Assessed, r, o, "priority")
                 /\ InMode(Assessed, r, o, "priority") <=>
                      ~ ProfileMet(o, Assessed.caf_profile, r.outcomes[o].decision)
      BY DEF InMode
    <2>6. ToSet(first) \cap ToSet(second) = {} /\ ToSet(first) \cup ToSet(second) = Ids(r)
      BY <2>3, <2>4, <2>5
    <2>7. IsInjective(first \o second)
      BY <2>3, <2>4, <2>6, ConcatInjective
    <2>8. ToSet(first \o second) = Ids(r)
      BY <2>3, <2>4, <2>6, ConcatSet
    <2>9. ToSet(all) = Ids(r)
      BY <2>2, <2>5
    <2>10. \A o \in priorities : ~ ProfileMet(o, Assessed.caf_profile, r.outcomes[o].decision)
      BY <2>3, <2>5
    <2> HIDE DEF priorities
    <2>11. \A p \in Principles : PrincipleStatus(Assessed, r, p).review \cap priorities = {}
      BY <2>10 DEF PrincipleStatus
    <2> QED
      BY <2>2, <2>7, <2>8, <2>9, <2>11
  <1> QED
    BY <1>1, LifecycleTypeCorrect, PTL

-----------------------------------------------------------------------------
(* The versions, and what was submitted.                                   *)

LEMMA NumberedFromOldest ==
  ASSUME NEW h \in Seq(Responses)
  PROVE  /\ CurrentVersionNumber(h) \in Nat
         /\ \A n \in 1 .. CurrentVersionNumber(h) :
              GetVersion(h, n) = AllVersions(h)[CurrentVersionNumber(h) - n + 1]
         /\ h # <<>> => /\ CurrentVersionNumber(h) # 0
                        /\ GetVersion(h, CurrentVersionNumber(h)) = Last(h)
  <1> DEFINE v == AllVersions(h)
             N == Len(v)
  <1>1. v \in Seq(Responses) /\ (h # <<>> => v # <<>> /\ v[1] = Last(h))
    <2>1. PICK x \in Responses : x = NoResponse
      BY NoResponseIs
    <2>2. AllVersions(h) \in Seq(Responses)
      BY <2>1, AppendVersion
    <2> QED
      BY <2>2, NewestVersion
  <1>2. CurrentVersionNumber(h) = N /\ \A n : GetVersion(h, n) = Reverse(v)[n]
    BY DEF CurrentVersionNumber, GetVersion
  <1> HIDE DEF v
  <1>3. N \in Nat /\ (v # <<>> => N # 0)
    BY <1>1, LenProperties, EmptySeq
  <1>4. \A n \in 1 .. N : Reverse(v)[n] = v[N - n + 1]
    BY <1>1, ReverseIs
  <1>5. N # 0 => N \in 1 .. N /\ N - N + 1 = 1
    BY <1>3
  <1>6. h # <<>> => GetVersion(h, N) = Last(h)
    BY <1>1, <1>2, <1>3, <1>4, <1>5
  <1> QED
    BY <1>1, <1>2, <1>3, <1>4, <1>6 DEF v

\* The version that is announced as the final one is the review itself
\* (current_version_number and get_version against FinaliseReview.form_valid).
THEOREM LatestVersionIsTheReview == Spec => []CompletedIsLatestVersion
  <1>1. LifecycleInv => CompletedIsLatestVersion
    BY NumberedFromOldest DEF LifecycleInv, TypeOK, ReviewInv, CompletedIsLatestVersion
  <1> QED
    BY <1>1, LifecycleInvariant, PTL

\* One more row: the versions before keep their numbers.
LEMMA OneMoreRow ==
  ASSUME NEW h \in Seq(Responses), NEW x \in Responses, NEW n \in 1 .. CurrentVersionNumber(h)
  PROVE  GetVersion(Append(h, x), n) = GetVersion(h, n)
  <1> DEFINE g == Append(h, x)
             v == AllVersions(h)
             w == AllVersions(g)
             N == Len(v)
  <1>1. g \in Seq(Responses)
    BY AppendProperties
  <1>2. v \in Seq(Responses) /\ (w = v \/ w = <<x>> \o v)
    BY AppendVersion
  <1>3. /\ CurrentVersionNumber(h) = N /\ N \in Nat /\ n \in 1 .. N
        /\ GetVersion(h, n) = v[N - n + 1]
    BY NumberedFromOldest DEF CurrentVersionNumber
  <1> HIDE DEF g
  <1>4. \A m \in 1 .. Len(w) : GetVersion(g, m) = w[Len(w) - m + 1]
    BY <1>1, NumberedFromOldest DEF CurrentVersionNumber
  <1> HIDE DEF v, w
  <1>5. CASE w = v
    BY <1>3, <1>4, <1>5 DEF g
  <1>6. CASE w = <<x>> \o v
    <2>1. <<x>> \in Seq(Responses) /\ Len(<<x>>) = 1
      BY ElementOf
    <2>2. Len(w) = 1 + N /\ \A i \in 1 .. 1 + N : w[i] = IF i <= 1 THEN <<x>>[i] ELSE v[i - 1]
      BY <1>2, <1>6, <2>1, ConcatProperties
    <2> HIDE DEF N
    <2>3. PICK i \in 1 .. 1 + N : i = (1 + N) - n + 1 /\ ~ (i <= 1) /\ i - 1 = N - n + 1
      BY <1>3
    <2>4. GetVersion(g, n) = w[i]
      BY <1>3, <1>4, <2>2, <2>3
    <2>5. w[i] = v[i - 1]
      BY <2>2, <2>3
    <2> QED
      BY <1>3, <2>3, <2>4, <2>5 DEF g
  <1> QED
    BY <1>2, <1>5, <1>6 DEF g
LEMMA HistoryGrows ==
  ASSUME LifecycleInv, Next
  PROVE  history' = history \/ \E x \in Responses : history' = Append(history, x)
  <1>1. ASSUME NEW new, new.response \in Responses, history' = Recorded(new)
        PROVE  history' = history \/ \E x \in Responses : history' = Append(history, x)
    BY <1>1 DEF Recorded
  <1>2. CASE DraftStep
    BY <1>2 DEF DraftStep, StartDraft, OpenDraft, OpenObjective, OpenNextObjective, OpenOutcome,
       SaveIndicators, ConfirmOutcome, BackToIndicators, Submit, EditDetails, EditSubmitted, draftOnly
  <1>3. CASE ImportStep
    <2>1. CASE \E book \in Books, s \in Statuses, plan \in Plans : ImportAssessment(book, s, plan)
      BY <2>1 DEF ImportAssessment, draftOnly
    <2>2. ASSUME NEW book, NEW s, ImportReview(book, s)
          PROVE  history' = history \/ \E x \in Responses : history' = Append(history, x)
      <3> DEFINE response == ImportedResponse(Parse(book))
                 new == [status |-> s, response |-> response, completed |-> TRUE, finalised |-> TRUE]
      <3>1. history' = Recorded(new) /\ Parse(book) # Refused
        BY <2>2 DEF ImportReview
      <3>2. response \in Responses
        BY <3>1, ParseIs, ImportedResponseIs
      <3> HIDE DEF response
      <3>3. new.response \in Responses
        BY <3>2
      <3> HIDE DEF new
      <3> QED
        BY <1>1, <3>1, <3>3
    <2> QED
      BY <1>3, <2>1, <2>2 DEF ImportStep
  <1>4. CASE review # None /\ ReviewStep
    <2>1. review \in Reviews /\ review.response \in Responses
      BY <1>4, ReviewIs DEF LifecycleInv
    <2>2. CASE MarkComplete
      <3> DEFINE new == [review EXCEPT !.status = "completed", !.completed = TRUE]
      <3>1. history' = Recorded(new) /\ new.response \in Responses
        BY <2>1, <2>2 DEF MarkComplete, Reviews
      <3> QED
        BY <1>1, <3>1
    <2>3. CASE Finalise
      <3> DEFINE new == [review EXCEPT !.finalised = TRUE]
      <3>1. history' = Recorded(new) /\ new.response \in Responses
        BY <2>1, <2>3 DEF Finalise, Reviews
      <3> QED
        BY <1>1, <3>1
    <2> QED
      BY <1>4, <2>2, <2>3 DEF ReviewStep, SaveScope, ReviewOutcome, SaveRecommendations, Fill, Respond,
         OpenReportPage, Reopen, Rollback
  <1>5. CASE PlanStep
    BY <1>5 DEF PlanStep, SaveAction, BulkReview
  <1> QED
    BY <1>2, <1>3, <1>4, <1>5 DEF Next

\* A version keeps its number and its content whatever follows it: numbers are
\* positions counted from the oldest row, worked out anew from the history each
\* time (all_versions, get_version).
THEOREM VersionsNeverChange == Spec => VersionsAreKept
  <1>1. LifecycleInv /\ [Next]_vars =>
          [\A n \in 1 .. CurrentVersionNumber(history) :
             GetVersion(history', n) = GetVersion(history, n)]_history
    <2> SUFFICES ASSUME LifecycleInv, [Next]_vars, history' # history
                 PROVE  \A n \in 1 .. CurrentVersionNumber(history) :
                          GetVersion(history', n) = GetVersion(history, n)
      OBVIOUS
    <2>1. PICK x \in Responses : history' = Append(history, x)
      BY HistoryGrows DEF vars
    <2>2. PICK h \in Seq(Responses) : h = history
      BY DEF LifecycleInv, TypeOK
    <2>3. \A n \in 1 .. CurrentVersionNumber(h) : GetVersion(Append(h, x), n) = GetVersion(h, n)
      BY <2>2, OneMoreRow
    <2>4. PICK g : g = history'
      OBVIOUS
    <2>5. \A n \in 1 .. CurrentVersionNumber(history) : GetVersion(g, n) = GetVersion(history, n)
      BY <2>1, <2>2, <2>3, <2>4
    <2> QED
      BY <2>4, <2>5
  <1> QED
    BY <1>1, LifecycleInvariant, PTL DEF Spec, VersionsAreKept

\* What a step leaves of the submitted assessment.
AnswersStay(was, is, old) ==
  /\ is # None /\ is.data = was.data /\ is.partial = was.partial
  /\ is = was \/ old = "yes"

\* The answers of an assessment that has been submitted are never replaced or
\* emptied, by a second draft, an import or an old session; its profile and its
\* type change through a session that had it as its draft, and no other way
\* (SectionConfirmationView, AssessmentAdmin.import_excel_view,
\* EditAssessmentView.form_valid).
THEOREM SubmittedAnswersNeverChange == Spec => SubmittedAnswersStay
  <1>1. LifecycleInv /\ [Next]_vars =>
          [rows["submitted"] # None =>
             LET was == rows["submitted"]
                 is  == rows'["submitted"]
             IN /\ is # None /\ is.data = was.data /\ is.partial = was.partial
                /\ is = was \/ stale = "yes"]_rows
    <2> SUFFICES ASSUME LifecycleInv, Next, rows["submitted"] # None
                 PROVE  AnswersStay(rows["submitted"], rows'["submitted"], stale)
      BY DEF vars, AnswersStay
    <2>1. ASSUME rows'["submitted"] = rows["submitted"]
          PROVE  AnswersStay(rows["submitted"], rows'["submitted"], stale)
      BY <2>1 DEF AnswersStay
    <2>2. ASSUME NEW x, rows' = [rows EXCEPT !["draft"] = x]
          PROVE  rows'["submitted"] = rows["submitted"]
      BY <2>2 DEF LifecycleInv, TypeOK, Statuses
    <2>3. ASSUME NEW plan \in StalePlans, EditSubmitted(plan)
          PROVE  AnswersStay(rows["submitted"], rows'["submitted"], stale)
      <3> DEFINE a == rows["submitted"]
                 new == WithDetails(a, plan)
      <3>1. rows' = [rows EXCEPT !["submitted"] = new] /\ stale = "yes"
        BY <2>3 DEF EditSubmitted
      <3>2. a \in Assessments
        BY DEF LifecycleInv, TypeOK, Statuses
      <3> HIDE DEF a
      <3>3. new # None /\ new.data = a.data /\ new.partial = a.partial
        BY <3>2, WithDetailsIs, RecordAssumption
      <3> HIDE DEF new
      <3>4. rows'["submitted"] = new
        BY <3>1 DEF LifecycleInv, TypeOK, Statuses
      <3> QED
        BY <3>1, <3>3, <3>4 DEF AnswersStay, a
    <2>4. CASE DraftStep
      <3>1. ASSUME NEW data, Answer(data) PROVE rows'["submitted"] = rows["submitted"]
        <4>1. rows' = [rows EXCEPT !["draft"] = [rows["draft"] EXCEPT !.data = data]]
          BY <3>1 DEF Answer
        <4> QED
          BY <2>2, <4>1
      <3>2. ASSUME NEW plan, StartDraft(plan) \/ EditDetails(plan)
            PROVE  rows'["submitted"] = rows["submitted"]
        BY <2>2, <3>2 DEF StartDraft, EditDetails
      <3> QED
        BY <2>1, <2>3, <2>4, <3>1, <3>2 DEF DraftStep, OpenDraft, OpenObjective, OpenNextObjective,
           OpenOutcome, SaveIndicators, ConfirmOutcome, BackToIndicators, Submit
    <2>5. CASE ImportStep
      <3>1. ASSUME NEW book, NEW s \in Statuses, NEW plan, ImportAssessment(book, s, plan)
            PROVE  rows'["submitted"] = rows["submitted"]
        <4>1. s = "draft" /\ rows' = [rows EXCEPT ![s] = ImportedRow(book, plan)]
          BY <3>1 DEF ImportAssessment, Statuses
        <4> QED
          BY <2>2, <4>1
      <3> QED
        BY <2>1, <2>5, <3>1 DEF ImportStep, ImportReview
    <2>6. CASE ReviewStep
      BY <2>1, <2>6 DEF ReviewStep, SaveScope, ReviewOutcome, SaveRecommendations, Fill, Respond,
         OpenReportPage, MarkComplete, Reopen, Finalise, Rollback
    <2>7. CASE PlanStep
      BY <2>1, <2>7 DEF PlanStep, SaveAction, BulkReview
    <2> QED
      BY <2>4, <2>5, <2>6, <2>7 DEF Next
  <1> QED
    BY <1>1, LifecycleInvariant, PTL DEF Spec, SubmittedAnswersStay
-----------------------------------------------------------------------------
(* The layout of a sheet.                                                  *)

Tops == UNION {[S -> Nat] : S \in SUBSET Outcomes}

\* The rows from the heading of an outcome on that are its own.
Below(top, o) == top[o] + 10 + Longest(o)

\* The next heading is below all of them, and no two share a row.
Layouts ==
  {at \in [row : Nat, top : Tops] :
     /\ \A o \in DOMAIN at.top : Below(at.top, o) <= at.row
     /\ \A o, q \in DOMAIN at.top :
          o # q => Below(at.top, o) <= at.top[q] \/ Below(at.top, q) <= at.top[o]}

LEMMA TopsAre ==
  /\ \A t \in Tops : DOMAIN t \subseteq Outcomes /\ \A o \in DOMAIN t : t[o] \in Nat
  /\ \A S \in SUBSET Outcomes : \A t \in [S -> Nat] : t \in Tops
  <1> DEFINE kinds == {[S -> Nat] : S \in SUBSET Outcomes}
  <1>1. Tops = UNION kinds
    BY DEF Tops
  <1>2. ASSUME NEW t \in Tops PROVE DOMAIN t \subseteq Outcomes /\ \A o \in DOMAIN t : t[o] \in Nat
    <2>1. PICK S \in SUBSET Outcomes : t \in [S -> Nat]
      BY <1>1
    <2> QED
      BY <2>1
  <1>3. ASSUME NEW S \in SUBSET Outcomes, NEW t \in [S -> Nat] PROVE t \in Tops
    <2>1. [S -> Nat] \in kinds
      BY Zenon
    <2> HIDE DEF kinds
    <2> QED
      BY <1>1, <2>1
  <1> QED
    BY <1>2, <1>3

LEMMA LayOutIs ==
  ASSUME NEW at \in Layouts, NEW p \in AllPages
  PROVE  /\ LayOut(at, p) \in Layouts
         /\ DOMAIN at.top \subseteq DOMAIN LayOut(at, p).top
         /\ p.type = "indicators" => p.code \in DOMAIN LayOut(at, p).top
  <1>1. /\ at \in [row : Nat, top : Tops]
        /\ \A o \in DOMAIN at.top : Below(at.top, o) <= at.row
        /\ \A o, q \in DOMAIN at.top :
             o # q => Below(at.top, o) <= at.top[q] \/ Below(at.top, q) <= at.top[o]
    BY DEF Layouts
  <1>2. at.row \in Nat /\ DOMAIN at.top \subseteq Outcomes /\ \A o \in DOMAIN at.top : at.top[o] \in Nat
    BY <1>1, TopsAre
  <1>3. \A o \in DOMAIN at.top : Below(at.top, o) \in Nat
    BY <1>2, LongestIs DEF Below
  <1>4. CASE p.type = "principle"
    <2> DEFINE new == [at EXCEPT !.row = @ + 4]
    <2>1. LayOut(at, p) = new
      BY <1>4 DEF LayOut
    <2>2. new.row = at.row + 4 /\ new.top = at.top /\ new \in [row : Nat, top : Tops]
      BY <1>1
    <2> HIDE DEF new
    <2>3. \A o \in DOMAIN at.top : Below(at.top, o) <= at.row + 4
      BY <1>1, <1>2, <1>3
    <2>4. new \in Layouts
      BY <1>1, <2>2, <2>3 DEF Layouts
    <2> QED
      BY <1>4, <2>1, <2>2, <2>4
  <1>5. CASE p.type = "indicators"
    <2> DEFINE c == p.code
               D == (DOMAIN at.top) \cup {c}
               top == [o \in D |-> IF o = c THEN at.row ELSE at.top[o]]
               row == at.row + 10 + Longest(c)
    <2>1. c \in Outcomes
      BY <1>5, PageIs
    <2>2. LayOut(at, p) = [row |-> row, top |-> top]
      BY <1>5 DEF LayOut
    <2>3. row \in Nat
      BY <1>2, <2>1, LongestIs
    <2>4. DOMAIN top = D /\ top[c] = at.row /\ \A o \in D : o # c => top[o] = at.top[o] /\ o \in DOMAIN at.top
      OBVIOUS
    <2>5. top \in Tops
      <3>1. D \in SUBSET Outcomes /\ top \in [D -> Nat]
        BY <1>2, <2>1
      <3> HIDE DEF top, D
      <3> QED
        BY <3>1, TopsAre
    <2> HIDE DEF top, D, row
    <2>6. Below(top, c) = row
      BY <2>4 DEF Below, row
    <2>7. \A o \in D : o # c => Below(top, o) = Below(at.top, o) /\ Below(top, o) <= at.row
      BY <1>1, <2>4 DEF Below
    <2>8. at.row <= row
      BY <1>2, <2>1, LongestIs DEF row
    <2>9. \A o \in D : Below(top, o) <= row
      BY <1>2, <1>3, <2>3, <2>4, <2>6, <2>7, <2>8
    <2>10. \A o, q \in D : o # q => Below(top, o) <= top[q] \/ Below(top, q) <= top[o]
      BY <1>1, <2>4, <2>7
    <2>11. [row |-> row, top |-> top] \in Layouts
      BY <2>3, <2>4, <2>5, <2>9, <2>10 DEF Layouts
    <2> QED
      BY <2>2, <2>4, <2>11 DEF D
  <1>6. CASE p.type # "principle" /\ p.type # "indicators"
    BY <1>6 DEF LayOut
  <1> QED
    BY <1>4, <1>5, <1>6
\* Every outcome of an objective has its heading on the sheet, and rows of its
\* own below it.
LEMMA TopRowsAre ==
  ASSUME NEW b \in ToSet(Objectives)
  PROVE  /\ \A o \in OutcomesOfObjective(b) : o \in DOMAIN TopRows(b)
         /\ \A o \in DOMAIN TopRows(b) : o \in Outcomes /\ TopRows(b)[o] \in Nat
         /\ \A o, q \in DOMAIN TopRows(b) :
              o # q => \/ Below(TopRows(b), o) <= TopRows(b)[q]
                       \/ Below(TopRows(b), q) <= TopRows(b)[o]
  <1> DEFINE base == [row |-> 17, top |-> <<>>]
             pages == ObjectivePages(b)
             n == Len(pages)
             F == CHOOSE f : f = [s \in SUBSET DOMAIN pages |->
                                    IF s = {} THEN base ELSE LayOut(f[s \ {Max(s)}], pages[Max(s)])]
  <1>1. TopRows(b) = F[DOMAIN pages].top
    BY Zenon DEF TopRows, FoldLeft, MapThenFoldSet
  <1>2. /\ n \in Nat /\ DOMAIN pages = 1 .. n /\ \A i \in 1 .. n : pages[i] \in AllPages
        /\ \A o \in OutcomesOfObjective(b) : \E i \in 1 .. n : pages[i] = Page("indicators", o)
    <2>1. pages \in Seq(AllPages)
      BY ObjectivePagesFacts DEF Paired
    <2>2. n \in Nat /\ DOMAIN pages = 1 .. n /\ \A i \in 1 .. n : pages[i] \in AllPages
      BY <2>1, LenProperties, ElementOfSeq
    <2>3. ASSUME NEW o \in OutcomesOfObjective(b)
          PROVE  Page("indicators", o) \in ToSet(pages)
      <3>1. /\ PrincipleOf(o) \in ToSet(PrinciplesOf[b]) /\ PrincipleOf(o) \in Principles
            /\ o \in ToSet(OutcomesOf[PrincipleOf(o)])
        BY OutcomeHome DEF OutcomesOfObjective
      <3>2. Page("indicators", o) \in ToSet(PrinciplePages(PrincipleOf(o)))
        BY <3>1, PrinciplePagesFacts
      <3> QED
        BY <3>1, <3>2, ObjectivePagesFacts
    <2> QED
      BY <2>2, <2>3 DEF ToSet
  <1>3. base \in Layouts
    <2>1. <<>> \in Tops
      <3>1. <<>> \in [{} -> Nat]
        OBVIOUS
      <3> QED
        BY <3>1, TopsAre
    <2>2. DOMAIN <<>> = {}
      OBVIOUS
    <2> QED
      BY <2>1, <2>2 DEF Layouts
  <1> HIDE DEF base, pages, n
  <1>4. \E g : g = [s \in SUBSET DOMAIN pages |->
                      IF s = {} THEN base ELSE LayOut(g[s \ {Max(s)}], pages[Max(s)])]
    <2> DEFINE op == [x \in Layouts \X AllPages |-> LayOut(x[1], x[2])]
    <2>1. op \in [Layouts \X AllPages -> Layouts]
      BY LayOutIs
    <2>2. \A at \in Layouts, p \in AllPages : op[<<at, p>>] = LayOut(at, p)
      OBVIOUS
    <2> HIDE DEF op
    <2>3. PICK g \in [SUBSET (1 .. n) -> Layouts] :
             /\ g[{}] = base
             /\ \A s \in SUBSET (1 .. n) : s # {} => g[s] = op[<<g[s \ {Max(s)}], pages[Max(s)]>>]
      <3>1. \E g : Folds(g, Layouts, base, op, pages, n)
        BY <1>2, <1>3, <2>1, FoldExists
      <3> QED
        BY <3>1 DEF Folds
    <2>4. ASSUME NEW s \in SUBSET (1 .. n), s # {}
          PROVE  g[s] = LayOut(g[s \ {Max(s)}], pages[Max(s)])
      <3>1. Max(s) \in s
        BY <1>2, <2>4, MaxIn
      <3>2. g[s \ {Max(s)}] \in Layouts /\ pages[Max(s)] \in AllPages
        BY <1>2, <3>1
      <3> QED
        BY <2>2, <2>3, <2>4, <3>2
    <2>5. g = [s \in SUBSET (1 .. n) |->
                 IF s = {} THEN base ELSE LayOut(g[s \ {Max(s)}], pages[Max(s)])]
      BY <2>3, <2>4
    <2> QED
      BY <1>2, <2>5
  <1>5. F = [s \in SUBSET DOMAIN pages |->
               IF s = {} THEN base ELSE LayOut(F[s \ {Max(s)}], pages[Max(s)])]
    BY <1>4, Zenon
  <1> HIDE DEF F
  <1>6. /\ F[{}] = base
        /\ \A s \in SUBSET (1 .. n) : s # {} => F[s] = LayOut(F[s \ {Max(s)}], pages[Max(s)])
    BY <1>2, <1>5
  <1> DEFINE Right(k) == /\ F[1 .. k] \in Layouts
                         /\ \A i \in 1 .. k : pages[i].type = "indicators" =>
                              pages[i].code \in DOMAIN F[1 .. k].top
             T == {k \in Nat : k <= n => Right(k)}
  <1>7. 0 \in T
    <2>1. 1 .. 0 = {}
      OBVIOUS
    <2> QED
      BY <1>3, <1>6, <2>1
  <1>8. ASSUME NEW k \in Nat, k \in T PROVE k + 1 \in T
    <2> SUFFICES ASSUME k + 1 <= n PROVE Right(k + 1)
      OBVIOUS
    <2>1. Right(k)
      BY <1>2, <1>8
    <2> DEFINE s == 1 .. k + 1
    <2>2. s \in SUBSET (1 .. n) /\ s # {} /\ s \ {k + 1} = 1 .. k /\ k + 1 \in 1 .. n
      <3>1. k + 1 \in s /\ s \subseteq 1 .. n /\ k + 1 \in 1 .. n
        BY <1>2
      <3>2. \A i : i \in s \ {k + 1} <=> i \in 1 .. k
        OBVIOUS
      <3> HIDE DEF s
      <3>3. s \ {k + 1} = 1 .. k
        BY <3>2
      <3> QED
        BY <3>1, <3>3
    <2>3. Max(s) = k + 1
      BY MaxIsLast
    <2>4. PICK at \in Layouts, p \in AllPages : at = F[1 .. k] /\ p = pages[k + 1]
      BY <1>2, <2>1, <2>2
    <2>5. F[s] = LayOut(at, p)
      BY <1>6, <2>2, <2>3, <2>4
    <2>6. /\ F[s] \in Layouts
          /\ DOMAIN at.top \subseteq DOMAIN F[s].top
          /\ p.type = "indicators" => p.code \in DOMAIN F[s].top
      BY <2>5, LayOutIs
    <2>7. \A i \in 1 .. k + 1 : i \in 1 .. k \/ i = k + 1
      OBVIOUS
    <2>8. \A i \in 1 .. k + 1 : pages[i].type = "indicators" => pages[i].code \in DOMAIN F[s].top
      BY <2>1, <2>4, <2>6, <2>7
    <2> QED
      BY <2>6, <2>8
  <1> HIDE DEF T
  <1>9. \A k \in Nat : k \in T
    BY <1>7, <1>8, SetInduction
  <1>10. Right(n)
    BY <1>2, <1>9 DEF T
  <1> DEFINE at == F[1 .. n]
  <1>11. TopRows(b) = at.top
    BY <1>1, <1>2
  <1>12. ASSUME NEW o \in OutcomesOfObjective(b) PROVE o \in DOMAIN at.top
    <2>1. PICK i \in 1 .. n : pages[i] = Page("indicators", o)
      BY <1>2
    <2>2. pages[i].type = "indicators" /\ pages[i].code = o
      BY <2>1 DEF Page
    <2> QED
      BY <1>10, <2>2
  <1> HIDE DEF at
  <1>13. at \in Layouts
    BY <1>10 DEF at
  <1>14. at.top \in Tops
    BY <1>13 DEF Layouts
  <1> QED
    BY <1>11, <1>12, <1>13, <1>14, TopsAre DEF Layouts
LEMMA ColumnIs ==
  /\ \A l \in Levels : Column(l) \in {4, 6, 8}
  /\ \A l, m \in Levels : Column(l) = Column(m) => l = m
  <1>1. Column("achieved") = 4
    BY DEF Column
  <1>2. Column("partially-achieved") = 6
    BY DEF Column
  <1>3. Column("not-achieved") = 8
    BY DEF Column
  <1> QED
    BY <1>1, <1>2, <1>3 DEF Levels

\* The cells of an outcome are between its heading and the next.
LEMMA CellIs ==
  ASSUME NEW b \in ToSet(Objectives), NEW o \in OutcomesOfObjective(b)
  PROVE  /\ TopRows(b)[o] \in Nat /\ Longest(o) \in Nat
         /\ \A row \in {TopRows(b)[o] + 3 + at[2] : at \in Places(o)}
                       \cup {TopRows(b)[o] + 4 + Longest(o), TopRows(b)[o] + 4 + Longest(o) + 1} :
              row \in Nat /\ TopRows(b)[o] < row /\ row < Below(TopRows(b), o)
  <1>1. TopRows(b)[o] \in Nat /\ Longest(o) \in Nat /\ o \in Outcomes
    BY TopRowsAre, LongestIs
  <1>2. \A at \in Places(o) : at[2] \in Nat /\ 1 <= at[2] /\ at[2] <= Longest(o)
    BY <1>1, PlacesAre
  <1> QED
    BY <1>1, <1>2 DEF Below

LEMMA CellsAreApart ==
  ASSUME NEW r \in JsonMap, NEW s \in JsonMap, r.cell = s.cell
  PROVE  r = s
  <1>1. PICK b \in ToSet(Objectives), c \in ToSet(Objectives) : r \in Rows(b) /\ s \in Rows(c)
    BY DEF JsonMap
  <1>2. PICK o \in OutcomesOfObjective(b) :
          \/ \E at \in Places(o) : r = AnswerRow(b, o, at)
          \/ r = StatusRow(b, o)
          \/ r = TextRow(b, o)
    BY <1>1, RowsAre
  <1>3. PICK q \in OutcomesOfObjective(c) :
          \/ \E at \in Places(q) : s = AnswerRow(c, q, at)
          \/ s = StatusRow(c, q)
          \/ s = TextRow(c, q)
    BY <1>1, RowsAre
  <1>4. \E row, column : r.cell = <<b, row, column>> /\ row \in Nat
                         /\ TopRows(b)[o] < row /\ row < Below(TopRows(b), o)
    BY <1>2, CellIs DEF AnswerRow, StatusRow, TextRow
  <1>5. \E row, column : s.cell = <<c, row, column>> /\ row \in Nat
                         /\ TopRows(c)[q] < row /\ row < Below(TopRows(c), q)
    BY <1>3, CellIs DEF AnswerRow, StatusRow, TextRow
  <1>6. b = c /\ \E row \in Nat : /\ TopRows(b)[o] < row /\ row < Below(TopRows(b), o)
                                  /\ TopRows(c)[q] < row /\ row < Below(TopRows(c), q)
    <2>1. PICK row, column : r.cell = <<b, row, column>> /\ row \in Nat
                             /\ TopRows(b)[o] < row /\ row < Below(TopRows(b), o)
      BY <1>4
    <2>2. PICK same, col : s.cell = <<c, same, col>> /\ same \in Nat
                           /\ TopRows(c)[q] < same /\ same < Below(TopRows(c), q)
      BY <1>5
    <2>3. b = c /\ row = same
      <3>1. <<b, row, column>> = <<c, same, col>>
        BY <2>1, <2>2
      <3> QED
        BY <3>1
    <2> QED
      BY <2>1, <2>2, <2>3
  <1>7. o = q
    <2>1. PICK row \in Nat : /\ TopRows(b)[o] < row /\ row < Below(TopRows(b), o)
                             /\ TopRows(b)[q] < row /\ row < Below(TopRows(b), q)
      BY <1>6
    <2>2. /\ o \in DOMAIN TopRows(b) /\ q \in DOMAIN TopRows(b)
          /\ TopRows(b)[o] \in Nat /\ TopRows(b)[q] \in Nat
          /\ Longest(o) \in Nat /\ Longest(q) \in Nat
      BY <1>6, TopRowsAre, LongestIs
    <2>3. Below(TopRows(b), o) \in Nat /\ Below(TopRows(b), q) \in Nat
      BY <2>2 DEF Below
    <2>4. o # q => Below(TopRows(b), o) <= TopRows(b)[q] \/ Below(TopRows(b), q) <= TopRows(b)[o]
      BY <2>2, TopRowsAre
    <2> QED
      BY <2>1, <2>2, <2>3, <2>4
  <1> DEFINE top == TopRows(b)[o]
             long == Longest(o)
  <1>8. top \in Nat /\ long \in Nat /\ o \in Outcomes
    BY CellIs DEF OutcomesOfObjective
  <1>9. \A at \in Places(o) :
          /\ AnswerRow(b, o, at).cell = <<b, top + 3 + at[2], Column(at[1])>>
          /\ at[1] \in Levels /\ at[2] \in Nat /\ at[2] <= long /\ at = <<at[1], at[2]>>
    BY <1>8, PlacesAre DEF AnswerRow
  <1>10. /\ StatusRow(b, o).cell = <<b, top + 4 + long, 9>>
         /\ TextRow(b, o).cell = <<b, top + 4 + long + 1, 9>>
    BY DEF StatusRow, TextRow
  <1> HIDE DEF top, long
  <1>11. top + 4 + long # top + 4 + long + 1 /\ StatusRow(b, o).cell # TextRow(b, o).cell
    BY <1>8, <1>10
  <1>12. ASSUME NEW at \in Places(o)
         PROVE  /\ AnswerRow(b, o, at).cell # StatusRow(b, o).cell
                /\ AnswerRow(b, o, at).cell # TextRow(b, o).cell
    <2>1. Column(at[1]) # 9
      BY <1>9, ColumnIs
    <2> QED
      BY <1>9, <1>10, <2>1
  <1>13. ASSUME NEW at \in Places(o), NEW to \in Places(o),
                AnswerRow(b, o, at).cell = AnswerRow(b, o, to).cell
         PROVE  at = to
    <2>1. top + 3 + at[2] = top + 3 + to[2] /\ Column(at[1]) = Column(to[1])
      BY <1>9, <1>13
    <2>2. at[2] = to[2] /\ at[1] = to[1]
      BY <1>8, <1>9, <2>1, ColumnIs
    <2> QED
      BY <1>9, <2>2
  <1> QED
    BY <1>2, <1>3, <1>6, <1>7, <1>11, <1>12, <1>13
\* The value of each row of a workbook that is filled in is read back by it.
LEMMA FilledIs ==
  ASSUME NEW data, NEW r \in JsonMap
  PROVE  Filled(data)[r.cell] = Typed(r, data[r.outcome])
  <1>1. r.cell \in Cells
    BY DEF Cells
  <1>2. RowOf(r.cell) = r
    <2>1. \E s \in JsonMap : s.cell = r.cell
      OBVIOUS
    <2>2. RowOf(r.cell) \in JsonMap /\ RowOf(r.cell).cell = r.cell
      BY <2>1, Zenon DEF RowOf
    <2> QED
      BY <2>2, CellsAreApart
  <1>3. Filled(data)[r.cell] = Typed(RowOf(r.cell), data[RowOf(r.cell).outcome])
    BY <1>1 DEF Filled
  <1> QED
    BY <1>2, <1>3

LEMMA TypedIs ==
  ASSUME NEW data \in Data, NEW r \in JsonMap
  PROVE  LET value == Filled(data)[r.cell]
             entry == data[r.outcome]
         IN /\ entry = None => value = None
            /\ r.kind = "outcome_status" /\ entry # None => value = entry.status
            /\ r.kind = "indicator_answer" /\ entry # None =>
                 value = IF r.field \in entry.ticked THEN "yes" ELSE "no"
            /\ r.kind = "text" => value = None
  <1>1. Filled(data)[r.cell] = Typed(r, data[r.outcome])
    BY FilledIs
  <1>2. r.kind \in {"indicator_answer", "outcome_status", "text"}
    BY RowsFacts
  <1> QED
    BY <1>1, <1>2 DEF Typed

LEMMA FilledIsValid ==
  ASSUME NEW data \in Data
  PROVE  \A r \in JsonMap \ MissingRequired(Filled(data)) : IsValid(r, Filled(data)[r.cell])
  <1> SUFFICES ASSUME NEW r \in JsonMap, r \notin MissingRequired(Filled(data))
               PROVE  IsValid(r, Filled(data)[r.cell])
    OBVIOUS
  <1> DEFINE value == Filled(data)[r.cell]
             entry == data[r.outcome]
  <1>1. /\ entry = None => value = None
        /\ r.kind = "outcome_status" /\ entry # None => value = entry.status
        /\ r.kind = "indicator_answer" /\ entry # None =>
             value = IF r.field \in entry.ticked THEN "yes" ELSE "no"
    BY TypedIs
  <1>2. r.required => value # None
    BY DEF MissingRequired
  <1>3. /\ r.kind = "outcome_status" => r.required
        /\ r.kind \in {"indicator_answer", "outcome_status", "text"}
        /\ r.outcome \in Outcomes
    BY RowsFacts
  <1>4. entry # None => entry \in Entries(r.outcome)
    BY <1>3, DataIs
  <1>5. entry # None => entry.status \in Levels \cup {None}
    BY <1>4 DEF Entries
  <1> HIDE DEF value, entry
  <1>6. CASE r.kind = "indicator_answer"
    <2>1. value \in {None, "yes", "no"}
      BY <1>1, <1>6
    <2> QED
      BY <1>6, <2>1 DEF IsValid, value
  <1>7. CASE r.kind = "outcome_status"
    <2>1. value \in Levels
      BY <1>1, <1>2, <1>3, <1>5, <1>7
    <2> QED
      BY <1>7, <2>1 DEF IsValid, value
  <1>8. CASE r.kind = "text"
    BY <1>8 DEF IsValid
  <1> QED
    BY <1>3, <1>6, <1>7, <1>8

\* What comes back: the ticks, and the status where there is one.
LEMMA ReadBackIs ==
  ASSUME NEW data \in Data, NEW o \in Outcomes
  PROVE  /\ data[o] = None => Agreed(Filled(data), o) = {} /\ ChosenStatus(Filled(data), o) = None
         /\ data[o] # None => /\ Agreed(Filled(data), o) = data[o].ticked
                              /\ ChosenStatus(Filled(data), o) = data[o].status
  <1> DEFINE book == Filled(data)
             IsAnswer(r) == r.outcome = o /\ r.kind = "indicator_answer"
  <1>1. "yes" # None /\ "no" # None
    BY RecordAssumption
  <1>2. \A f : f \in Agreed(book, o) <=>
                 \E r \in JsonMap : IsAnswer(r) /\ book[r.cell] = "yes" /\ f = r.field
    BY DEF Agreed
  <1>3. \A r \in JsonMap : IsAnswer(r) =>
          (book[r.cell] = "yes" <=> data[o] # None /\ r.field \in data[o].ticked)
    BY <1>1, TypedIs
  <1>4. data[o] # None => data[o].ticked \subseteq Fields(o)
    <2>1. data[o] # None => data[o] \in Entries(o)
      BY DataIs
    <2> QED
      BY <2>1 DEF Entries
  <1>5. \A f \in Fields(o) : \E r \in JsonMap : IsAnswer(r) /\ r.field = f
    BY RowsFacts
  <1>6. /\ ChosenStatus(book, o) = IF data[o] = None THEN None ELSE data[o].status
    <2> DEFINE r == CHOOSE s \in JsonMap : s.outcome = o /\ s.kind = "outcome_status"
    <2>1. ChosenStatus(book, o) = book[r.cell]
      BY DEF ChosenStatus
    <2>2. r \in JsonMap /\ r.kind = "outcome_status" /\ r.outcome = o
      BY RowsFacts, Zenon
    <2> HIDE DEF r
    <2> QED
      BY <2>1, <2>2, TypedIs
  <1> HIDE DEF book, IsAnswer
  <1>7. data[o] = None => Agreed(book, o) = {}
    BY <1>2, <1>3
  <1>8. ASSUME data[o] # None
        PROVE  Agreed(book, o) = data[o].ticked
    <2>1. ASSUME NEW f \in Agreed(book, o)
          PROVE  f \in data[o].ticked
      <3>1. PICK r \in JsonMap : IsAnswer(r) /\ book[r.cell] = "yes" /\ f = r.field
        BY <1>2, <2>1, Zenon
      <3> QED
        BY <1>3, <3>1, Zenon
    <2>2. ASSUME NEW f \in data[o].ticked
          PROVE  f \in Agreed(book, o)
      <3>1. PICK r \in JsonMap : IsAnswer(r) /\ r.field = f
        BY <1>4, <1>5, <1>8, <2>2, Zenon
      <3>2. book[r.cell] = "yes"
        BY <1>3, <1>8, <2>2, <3>1, Zenon
      <3> QED
        BY <1>2, <3>1, <3>2, Zenon
    <2>3. \A f : f \in Agreed(book, o) <=> f \in data[o].ticked
      BY <2>1, <2>2, Zenon
    <2> QED
      BY <2>3, Zenon
  <1> QED
    BY <1>6, <1>7, <1>8 DEF book

LEMMA MissingIs ==
  ASSUME NEW data \in Data
  PROVE  MissingRequired(Filled(data)) # {} <=> \E o \in Outcomes : data[o] = None \/ data[o].status = None
  <1> DEFINE book == Filled(data)
             Lacks(o) == data[o] = None \/ data[o].status = None
  <1>1. \A r \in JsonMap : r.kind = "outcome_status" => (book[r.cell] = None <=> Lacks(r.outcome))
    BY TypedIs
  <1>2. \A r \in JsonMap : r.required => r.kind = "outcome_status" /\ r.outcome \in Outcomes
    BY RowsFacts
  <1>3. \A o \in Outcomes : \E r \in JsonMap : r.outcome = o /\ r.kind = "outcome_status" /\ r.required
    BY RowsFacts
  <1> HIDE DEF book, Lacks
  <1>4. MissingRequired(book) # {} <=> \E o \in Outcomes : Lacks(o)
    BY <1>1, <1>2, <1>3 DEF MissingRequired
  <1> QED
    BY <1>4 DEF book, Lacks

\* The template and the importer agree for every framework: the cells of the
\* layout do not meet, so that the answers of a draft typed into the template
\* are read back as they are (build_assessment_template_workbook against
\* _parse_excel), and the strict import refuses just the unfinished ones.
THEOREM WorkbookRoundTrip == Spec => []RoundTrip
  <1>1. ASSUME NEW data \in Data
        PROVE  LET back == Parse(Filled(data))
               IN /\ back # Refused
                  /\ \A o \in Outcomes :
                       IF data[o] = None
                         THEN back[o].ticked = {} /\ back[o].status = None
                         ELSE back[o].ticked = data[o].ticked /\ back[o].status = data[o].status
                  /\ ParseStrictly(Filled(data)) = Refused <=>
                       \E o \in Outcomes : data[o] = None \/ data[o].status = None
    <2> DEFINE book == Filled(data)
               back == Parse(book)
    <2>1. \A r \in JsonMap \ MissingRequired(book) : IsValid(r, book[r.cell])
      BY FilledIsValid
    <2>2. /\ back # Refused
          /\ \A o \in Outcomes : back[o].ticked = Agreed(book, o) /\ back[o].status = ChosenStatus(book, o)
      <3> HIDE DEF book
      <3> QED
        BY <2>1, ValidBookIs
    <2>3. ParseStrictly(book) = Refused <=> MissingRequired(book) # {}
      <3> HIDE DEF book, back
      <3>1. ParseStrictly(book) = IF MissingRequired(book) # {} THEN Refused ELSE back
        BY DEF ParseStrictly, back
      <3> QED
        BY <2>2, <3>1
    <2> QED
      BY <2>2, <2>3, ReadBackIs, MissingIs
  <1>2. TypeOK => RoundTrip
    <2> SUFFICES ASSUME TypeOK, rows["draft"] # None
                 PROVE  rows["draft"].data \in Data
      BY <1>1 DEF RoundTrip
    <2>1. rows["draft"] \in Assessments
      BY DEF TypeOK, Statuses
    <2> QED
      BY <2>1, AssessmentIs
  <1> QED
    BY <1>2, LifecycleTypeCorrect, PTL

=============================================================================
