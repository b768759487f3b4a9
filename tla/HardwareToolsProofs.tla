------------------------ MODULE HardwareToolsProofs ------------------------
(***************************************************************************)
(* Proofs about the boundary-scan tools: for every chain of devices, every *)
(* boundary register, net, decode filter, pin image and script, every      *)
(* sequence of calls, and whichever scans fail. ToolsInv is inductive; the *)
(* guard of EXTEST follows from it, and the truth of set_pin, of a sample  *)
(* and of a net's verdict from it and an invariant of their own each.      *)
(***************************************************************************)
EXTENDS HardwareTools, OwltapMcp, HardwareExecutorProofs, FiniteSetTheorems,
        WellFoundedInduction, TLAPS

\* Induction over the natural numbers, for a set of them.
LEMMA NatSetInduction ==
  ASSUME NEW S, 0 \in S, \A n \in Nat : n \in S => n + 1 \in S
  PROVE  Nat \subseteq S
<1> DEFINE T == Nat \ S
           C == {0 .. n : n \in T}
           R == StrictSubsetOrdering(Nat)
<1>1. SUFFICES ASSUME T # {} PROVE FALSE
  OBVIOUS
<1>2. C \subseteq FiniteSubsetsOf(Nat)
  <2>1. \A n \in Nat : IsFiniteSet(0 .. n) /\ 0 .. n \in SUBSET Nat
    BY FS_Interval
  <2> QED BY <2>1 DEF FiniteSubsetsOf
<1>3. C # {}
  BY <1>1
<1>4. PICK c \in C : \A d \in C : ~ (<<d, c>> \in R)
  <2> HIDE DEF C, R
  <2>1. IsWellFoundedOn(R, FiniteSubsetsOf(Nat))
    BY FS_StrictSubsetOrderingWellFounded DEF R
  <2> QED BY <2>1, <1>3, <1>2, WFMin
<1>5. PICK x \in T : c = 0 .. x
  OBVIOUS
<1>6. x \in Nat /\ x # 0 /\ x - 1 \in Nat /\ (x - 1) + 1 = x
  OBVIOUS
<1>7. x - 1 \in T
  BY <1>6
<1>8. <<0 .. (x - 1), 0 .. x>> \in R
  <2>1. 0 .. (x - 1) \subseteq 0 .. x /\ x \in 0 .. x /\ x \notin 0 .. (x - 1)
    BY <1>6
  <2>2. 0 .. (x - 1) \in SUBSET Nat /\ 0 .. x \in SUBSET Nat
    BY <1>6
  <2> QED BY <2>1, <2>2 DEF StrictSubsetOrdering
<1> QED BY <1>4, <1>5, <1>7, <1>8

-----------------------------------------------------------------------------
(* Lists of lists put together                                             *)

LEMMA ConcatFacts ==
  ASSUME NEW S, NEW s \in Seq(S), NEW t \in Seq(S)
  PROVE  /\ s \o t \in Seq(S)
         /\ Len(s) \in Nat /\ Len(t) \in Nat /\ Len(s \o t) = Len(s) + Len(t)
         /\ \A i \in 1 .. Len(s) : (s \o t)[i] = s[i]
         /\ \A i \in 1 .. Len(t) : (s \o t)[Len(s) + i] = t[i]
  OBVIOUS

\* The recursion of FlattenSeq has a solution.
LEMMA FlattenRec ==
  ASSUME NEW x, NEW n \in Nat
  PROVE  \E c : c = [i \in 1 .. n |-> IF i = 1 THEN x[i] ELSE c[i - 1] \o x[i]]
<1> DEFINE Rec(c, m) == c = [i \in 1 .. m |-> IF i = 1 THEN x[i] ELSE c[i - 1] \o x[i]]
           S == {m \in Nat : \E c : Rec(c, m)}
<1>1. Nat \subseteq S
  <2>1. 0 \in S
    <3>1. Rec(<<>>, 0)
      OBVIOUS
    <3> QED BY <3>1
  <2>2. ASSUME NEW m \in Nat, m \in S PROVE m + 1 \in S
    <3>1. PICK c : Rec(c, m)
      BY <2>2
    <3> DEFINE d == [i \in 1 .. m + 1 |-> IF i <= m THEN c[i] ELSE IF i = 1 THEN x[i] ELSE c[i - 1] \o x[i]]
    <3>2. \A i \in 1 .. m + 1 : d[i] = IF i = 1 THEN x[i] ELSE d[i - 1] \o x[i]
      <4>1. ASSUME NEW i \in 1 .. m + 1, i <= m PROVE d[i] = IF i = 1 THEN x[i] ELSE d[i - 1] \o x[i]
        <5>1. d[i] = c[i] /\ (i # 1 => d[i - 1] = c[i - 1])
          BY <4>1
        <5>2. i \in 1 .. m
          BY <4>1
        <5>3. c[i] = IF i = 1 THEN x[i] ELSE c[i - 1] \o x[i]
          BY <3>1, <5>2, Zenon
        <5> HIDE DEF d
        <5> QED BY <5>1, <5>3
      <4>2. d[m + 1] = IF m + 1 = 1 THEN x[m + 1] ELSE d[m] \o x[m + 1]
        OBVIOUS
      <4> HIDE DEF d
      <4>3. \A i \in 1 .. m + 1 : i <= m \/ (i = m + 1 /\ i - 1 = m)
        OBVIOUS
      <4> QED BY <4>1, <4>2, <4>3
    <3>3. Rec(d, m + 1)
      BY <3>2
    <3> HIDE DEF Rec, d
    <3>4. m + 1 \in Nat
      OBVIOUS
    <3> QED BY <3>3, <3>4
  <2> HIDE DEF S
  <2> QED BY <2>1, <2>2, NatSetInduction
<1> QED BY <1>1

\* FlattenSeq, one list at a time.
LEMMA FlattenStep ==
  /\ FlattenSeq(<<>>) = <<>>
  /\ \A S : \A x \in Seq(Seq(S)), n \in Nat :
       Len(x) = n + 1 => FlattenSeq(x) = FlattenSeq(SubSeq(x, 1, n)) \o x[n + 1]
<1>1. FlattenSeq(<<>>) = <<>>
  BY DEF FlattenSeq
<1>2. ASSUME NEW S, NEW x \in Seq(Seq(S)), NEW n \in Nat, Len(x) = n + 1
      PROVE  FlattenSeq(x) = FlattenSeq(SubSeq(x, 1, n)) \o x[n + 1]
  <2> DEFINE y == SubSeq(x, 1, n)
             f == CHOOSE c : c = [i \in 1 .. n + 1 |-> IF i = 1 THEN x[i] ELSE c[i - 1] \o x[i]]
             g == CHOOSE c : c = [i \in 1 .. n |-> IF i = 1 THEN y[i] ELSE c[i - 1] \o y[i]]
  <2>1. y \in Seq(Seq(S)) /\ Len(y) = n /\ \A i \in 1 .. n : y[i] = x[i]
    BY <1>2
  <2>2. FlattenSeq(x) = f[n + 1]
    BY <1>2 DEF FlattenSeq
  <2>3. FlattenSeq(y) = IF n = 0 THEN y ELSE g[n]
    <3> HIDE DEF y
    <3> QED BY <2>1 DEF FlattenSeq
  <2>4. f = [i \in 1 .. n + 1 |-> IF i = 1 THEN x[i] ELSE f[i - 1] \o x[i]]
    <3>1. n + 1 \in Nat
      OBVIOUS
    <3>2. \E c : c = [i \in 1 .. n + 1 |-> IF i = 1 THEN x[i] ELSE c[i - 1] \o x[i]]
      BY <3>1, FlattenRec
    <3> HIDE <1>2
    <3> QED BY <3>2, Zenon
  <2>5. g = [i \in 1 .. n |-> IF i = 1 THEN y[i] ELSE g[i - 1] \o y[i]]
    <3>2. \E c : c = [i \in 1 .. n |-> IF i = 1 THEN y[i] ELSE c[i - 1] \o y[i]]
      BY FlattenRec
    <3> QED BY <3>2, Zenon
  <2> HIDE DEF f, g, y
  <2>6. \A i \in 1 .. n : f[i] = g[i]
    <3> DEFINE U == {i \in Nat : i \in 1 .. n => f[i] = g[i]}
    <3>1. Nat \subseteq U
      <4>1. 0 \in U
        OBVIOUS
      <4>2. ASSUME NEW i \in Nat, i \in U PROVE i + 1 \in U
        <5>1. SUFFICES ASSUME i + 1 \in 1 .. n PROVE f[i + 1] = g[i + 1]
          OBVIOUS
        <5>2. i = 0 \/ i \in 1 .. n
          BY <5>1
        <5>3. /\ f[i + 1] = IF i + 1 = 1 THEN x[i + 1] ELSE f[i] \o x[i + 1]
              /\ g[i + 1] = IF i + 1 = 1 THEN y[i + 1] ELSE g[i] \o y[i + 1]
          <6>1. i + 1 \in 1 .. n + 1 /\ (i + 1) - 1 = i
            BY <5>1
          <6>2. f[i + 1] = IF i + 1 = 1 THEN x[i + 1] ELSE f[i] \o x[i + 1]
            BY <2>4, <6>1
          <6>3. g[i + 1] = IF i + 1 = 1 THEN y[i + 1] ELSE g[i] \o y[i + 1]
            BY <2>5, <5>1, <6>1
          <6> QED BY <6>2, <6>3
        <5>4. x[i + 1] = y[i + 1]
          BY <2>1, <5>1
        <5>5. CASE i = 0
          BY <5>3, <5>4, <5>5
        <5>6. CASE i \in 1 .. n
          <6>1. f[i] = g[i]
            BY <4>2, <5>6
          <6> QED BY <5>3, <5>4, <5>6, <6>1
        <5> QED BY <5>2, <5>5, <5>6
      <4> HIDE DEF U
      <4> QED BY <4>1, <4>2, NatSetInduction
    <3> QED BY <3>1
  <2>7. f[n + 1] = IF n = 0 THEN x[n + 1] ELSE f[n] \o x[n + 1]
    <3>1. n + 1 \in 1 .. n + 1 /\ (n + 1) - 1 = n /\ (n + 1 = 1 <=> n = 0)
      OBVIOUS
    <3>2. f[n + 1] = IF n + 1 = 1 THEN x[n + 1] ELSE f[(n + 1) - 1] \o x[n + 1]
      BY <2>4, <3>1, Zenon
    <3> QED BY <3>1, <3>2
  <2>8. CASE n = 0
    <3>1. y = <<>> /\ x[1] \in Seq(S)
      BY <2>1, <2>8, <1>2
    <3>2. FlattenSeq(x) = x[1] /\ FlattenSeq(y) = <<>>
      BY <2>2, <2>3, <2>7, <2>8, <3>1
    <3>3. <<>> \o x[1] = x[1]
      BY <3>1
    <3>4. FlattenSeq(y) \o x[n + 1] = x[1]
      <4>1. n + 1 = 1
        BY <2>8
      <4> QED BY <4>1, <3>2, <3>3, Zenon
    <3> QED BY <3>2, <3>4, Zenon DEF y
  <2>9. CASE n # 0
    <3>1. f[n] = g[n]
      BY <2>6, <2>9
    <3> QED BY <2>2, <2>3, <2>7, <2>9, <3>1 DEF y
  <2> QED BY <2>8, <2>9
<1> QED BY <1>1, <1>2

\* What there is before list k.
Ahead(x, k) == FlattenSeq(SubSeq(x, 1, k - 1))

\* The list put together is a list of the elements, and every part of it starts
\* where the parts before it end.
LEMMA FlattenFacts ==
  ASSUME NEW S, NEW x \in Seq(Seq(S))
  PROVE  /\ FlattenSeq(x) \in Seq(S)
         /\ \A k \in 1 .. Len(x) :
              /\ Ahead(x, k) \in Seq(S)
              /\ Ahead(x, k + 1) = Ahead(x, k) \o x[k]
              /\ Len(Ahead(x, k + 1)) <= Len(FlattenSeq(x))
              /\ \A i \in 1 .. Len(Ahead(x, k + 1)) : Ahead(x, k + 1)[i] = FlattenSeq(x)[i]
<1> DEFINE P(m) == SubSeq(x, 1, m)
           A(m) == FlattenSeq(SubSeq(x, 1, m))
<1>0. Len(x) \in Nat /\ \A k \in 1 .. Len(x) : x[k] \in Seq(S)
  OBVIOUS
<1>1. A(0) = <<>> /\ A(Len(x)) = FlattenSeq(x)
  <2>1. SubSeq(x, 1, 0) = <<>> /\ SubSeq(x, 1, Len(x)) = x
    OBVIOUS
  <2> QED BY <2>1, FlattenStep
<1>2. \A m \in Nat : m + 1 <= Len(x) => A(m + 1) = A(m) \o x[m + 1]
  <2> SUFFICES ASSUME NEW m \in Nat, m + 1 <= Len(x) PROVE A(m + 1) = A(m) \o x[m + 1]
    OBVIOUS
  <2> DEFINE y == SubSeq(x, 1, m + 1)
  <2>1. y \in Seq(Seq(S)) /\ Len(y) = m + 1 /\ SubSeq(y, 1, m) = SubSeq(x, 1, m) /\ y[m + 1] = x[m + 1]
    OBVIOUS
  <2> HIDE DEF y
  <2>2. FlattenSeq(y) = FlattenSeq(SubSeq(y, 1, m)) \o y[m + 1]
    BY <2>1, FlattenStep
  <2> QED BY <2>1, <2>2 DEF y
<1> HIDE DEF A
<1>3. \A m \in Nat : m <= Len(x) => A(m) \in Seq(S)
  <2> DEFINE U == {m \in Nat : m <= Len(x) => A(m) \in Seq(S)}
  <2>1. 0 \in U
    <3>1. A(0) = <<>> /\ <<>> \in Seq(S)
      BY <1>1
    <3> QED BY <3>1
  <2>2. ASSUME NEW m \in Nat, m \in U PROVE m + 1 \in U
    <3>1. SUFFICES ASSUME m + 1 <= Len(x) PROVE A(m + 1) \in Seq(S)
      OBVIOUS
    <3>2. A(m) \in Seq(S) /\ x[m + 1] \in Seq(S) /\ A(m + 1) = A(m) \o x[m + 1]
      BY <3>1, <2>2, <1>0, <1>2
    <3> QED BY <3>2, ConcatFacts, Zenon
  <2> HIDE DEF U
  <2>3. Nat \subseteq U
    BY <2>1, <2>2, NatSetInduction
  <2> QED BY <2>3 DEF U
<1>4. \A m \in Nat : m + 1 <= Len(x) =>
        /\ Len(A(m)) <= Len(A(m + 1))
        /\ \A i \in 1 .. Len(A(m)) : A(m)[i] = A(m + 1)[i]
  <2> SUFFICES ASSUME NEW m \in Nat, m + 1 <= Len(x)
               PROVE  /\ Len(A(m)) <= Len(A(m + 1))
                      /\ \A i \in 1 .. Len(A(m)) : A(m)[i] = A(m + 1)[i]
    OBVIOUS
  <2>1. A(m) \in Seq(S) /\ x[m + 1] \in Seq(S) /\ A(m + 1) = A(m) \o x[m + 1]
    BY <1>0, <1>2, <1>3
  <2>2. /\ Len(A(m)) \in Nat /\ Len(x[m + 1]) \in Nat
        /\ Len(A(m) \o x[m + 1]) = Len(A(m)) + Len(x[m + 1])
        /\ \A i \in 1 .. Len(A(m)) : (A(m) \o x[m + 1])[i] = A(m)[i]
    BY <2>1, ConcatFacts
  <2> QED BY <2>1, <2>2
<1>5. \A k \in Nat : k <= Len(x) =>
        /\ Len(A(Len(x) - k)) <= Len(FlattenSeq(x))
        /\ \A i \in 1 .. Len(A(Len(x) - k)) : A(Len(x) - k)[i] = FlattenSeq(x)[i]
  <2> DEFINE F == FlattenSeq(x)
             Q(m) == Len(A(m)) <= Len(F) /\ \A i \in 1 .. Len(A(m)) : A(m)[i] = F[i]
             U == {k \in Nat : k <= Len(x) => Q(Len(x) - k)}
  <2>0. F \in Seq(S)
    BY <1>0, <1>1, <1>3
  <2>1. 0 \in U
    <3>1. Len(x) - 0 = Len(x) /\ Len(A(Len(x))) \in Nat
      BY <1>0, <1>1, <2>0
    <3> QED BY <3>1, <1>1
  <2>2. ASSUME NEW k \in Nat, k \in U PROVE k + 1 \in U
    <3>1. SUFFICES ASSUME k + 1 <= Len(x) PROVE Q(Len(x) - (k + 1))
      OBVIOUS
    <3>2. PICK m \in Nat : m = Len(x) - (k + 1) /\ m + 1 = Len(x) - k /\ m + 1 <= Len(x)
      <4>1. Len(x) \in Nat
        BY <1>0
      <4>2. LET m == Len(x) - (k + 1) IN m \in Nat /\ m + 1 = Len(x) - k /\ m + 1 <= Len(x)
        BY <3>1, <4>1
      <4> QED BY <4>2
    <3>3. Q(m + 1)
      BY <3>2, <2>2
    <3>4. Len(A(m)) \in Nat /\ Len(A(m + 1)) \in Nat /\ Len(F) \in Nat
      BY <1>3, <3>2, <1>0, <2>0
    <3> HIDE DEF F
    <3>5. Len(A(m)) <= Len(A(m + 1)) /\ \A i \in 1 .. Len(A(m)) : A(m)[i] = A(m + 1)[i]
      BY <1>4, <3>2
    <3>6. \A i \in 1 .. Len(A(m)) : i \in 1 .. Len(A(m + 1))
      BY <3>4, <3>5
    <3>7. Q(m)
      BY <3>3, <3>4, <3>5, <3>6
    <3> QED BY <3>7, <3>2
  <2> HIDE DEF U
  <2>3. Nat \subseteq U
    BY <2>1, <2>2, NatSetInduction
  <2> QED BY <2>3 DEF U
<1>6. FlattenSeq(x) \in Seq(S)
  BY <1>0, <1>1, <1>3
<1>7. ASSUME NEW k \in 1 .. Len(x)
      PROVE  /\ Ahead(x, k) \in Seq(S)
             /\ Ahead(x, k + 1) = Ahead(x, k) \o x[k]
             /\ Len(Ahead(x, k + 1)) <= Len(FlattenSeq(x))
             /\ \A i \in 1 .. Len(Ahead(x, k + 1)) : Ahead(x, k + 1)[i] = FlattenSeq(x)[i]
  <2>1. PICK m \in Nat : m = k - 1 /\ m + 1 = k /\ (k + 1) - 1 = k /\ m <= Len(x) /\ k <= Len(x)
    BY <1>0
  <2>2. Ahead(x, k) = A(m) /\ Ahead(x, k + 1) = A(m + 1)
    BY <2>1 DEF Ahead, A
  <2>3. PICK j \in Nat : j = Len(x) - k /\ j <= Len(x) /\ Len(x) - j = m + 1
    <3>1. Len(x) \in Nat
      BY <1>0
    <3>2. Len(x) - k \in Nat /\ Len(x) - k <= Len(x) /\ Len(x) - (Len(x) - k) = m + 1
      BY <2>1, <3>1
    <3> QED BY <3>2
  <2>4. Len(A(m + 1)) <= Len(FlattenSeq(x)) /\ \A i \in 1 .. Len(A(m + 1)) : A(m + 1)[i] = FlattenSeq(x)[i]
    BY <2>3, <1>5
  <2>5. A(m) \in Seq(S) /\ A(m + 1) = A(m) \o x[m + 1]
    BY <2>1, <1>2, <1>3
  <2> QED BY <2>1, <2>2, <2>4, <2>5
<1> QED BY <1>6, <1>7

\* Lists that agree in the lengths of their parts agree in where the parts begin.
LEMMA SameLengths ==
  ASSUME NEW S, NEW x \in Seq(Seq(S)), NEW y \in Seq(Seq(S)), Len(x) = Len(y),
         \A k \in 1 .. Len(x) : Len(x[k]) = Len(y[k])
  PROVE  /\ Len(FlattenSeq(x)) = Len(FlattenSeq(y))
         /\ \A k \in 1 .. Len(x) : Len(Ahead(x, k)) = Len(Ahead(y, k))
<1> DEFINE U == {m \in Nat : m <= Len(x) => Len(Ahead(x, m + 1)) = Len(Ahead(y, m + 1))}
<1>0. Len(x) \in Nat /\ Len(y) = Len(x)
  OBVIOUS
<1>1. 0 \in U
  <2>1. SubSeq(x, 1, (0 + 1) - 1) = <<>> /\ SubSeq(y, 1, (0 + 1) - 1) = <<>>
    OBVIOUS
  <2> QED BY <2>1 DEF Ahead
<1>2. ASSUME NEW m \in Nat, m \in U PROVE m + 1 \in U
  <2>1. SUFFICES ASSUME m + 1 <= Len(x)
                 PROVE Len(Ahead(x, (m + 1) + 1)) = Len(Ahead(y, (m + 1) + 1))
    OBVIOUS
  <2>2. m + 1 \in 1 .. Len(x) /\ m + 1 \in 1 .. Len(y) /\ m <= Len(x)
    BY <2>1, <1>0
  <2>3. Len(Ahead(x, m + 1)) = Len(Ahead(y, m + 1)) /\ Len(x[m + 1]) = Len(y[m + 1])
    BY <1>2, <2>2
  <2>4. /\ Ahead(x, m + 1) \in Seq(S) /\ x[m + 1] \in Seq(S)
        /\ Ahead(x, (m + 1) + 1) = Ahead(x, m + 1) \o x[m + 1]
    <3>1. x[m + 1] \in Seq(S)
      BY <2>2
    <3> QED BY <3>1, <2>2, FlattenFacts
  <2>5. /\ Ahead(y, m + 1) \in Seq(S) /\ y[m + 1] \in Seq(S)
        /\ Ahead(y, (m + 1) + 1) = Ahead(y, m + 1) \o y[m + 1]
    <3>1. y[m + 1] \in Seq(S)
      BY <2>2
    <3> QED BY <3>1, <2>2, FlattenFacts
  <2>6. Len(Ahead(x, (m + 1) + 1)) = Len(Ahead(x, m + 1)) + Len(x[m + 1])
    <3>1. Len(Ahead(x, m + 1) \o x[m + 1]) = Len(Ahead(x, m + 1)) + Len(x[m + 1])
      BY <2>4, ConcatFacts
    <3> QED BY <3>1, <2>4
  <2>7. Len(Ahead(y, (m + 1) + 1)) = Len(Ahead(y, m + 1)) + Len(y[m + 1])
    <3>1. Len(Ahead(y, m + 1) \o y[m + 1]) = Len(Ahead(y, m + 1)) + Len(y[m + 1])
      BY <2>5, ConcatFacts
    <3> QED BY <3>1, <2>5
  <2> QED BY <2>3, <2>6, <2>7, Zenon
<1> HIDE DEF U
<1>3. Nat \subseteq U
  BY <1>1, <1>2, NatSetInduction
<1>4. \A m \in Nat : m <= Len(x) => Len(Ahead(x, m + 1)) = Len(Ahead(y, m + 1))
  BY <1>3 DEF U
<1>5. \A k \in 1 .. Len(x) : Len(Ahead(x, k)) = Len(Ahead(y, k))
  <2> SUFFICES ASSUME NEW k \in 1 .. Len(x) PROVE Len(Ahead(x, k)) = Len(Ahead(y, k))
    OBVIOUS
  <2>1. PICK m \in Nat : m = k - 1 /\ m + 1 = k /\ m <= Len(x)
    <3>1. k - 1 \in Nat /\ (k - 1) + 1 = k /\ k - 1 <= Len(x)
      BY <1>0
    <3> QED BY <3>1
  <2> QED BY <2>1, <1>4
<1>6. Ahead(x, Len(x) + 1) = FlattenSeq(x) /\ Ahead(y, Len(x) + 1) = FlattenSeq(y)
  <2>1. (Len(x) + 1) - 1 = Len(x) /\ SubSeq(x, 1, Len(x)) = x /\ SubSeq(y, 1, Len(x)) = y
    OBVIOUS
  <2> QED BY <2>1 DEF Ahead
<1>7. Len(Ahead(x, Len(x) + 1)) = Len(Ahead(y, Len(x) + 1))
  BY <1>4, <1>0
<1> QED BY <1>5, <1>6, <1>7

\* A part of a list put together.
LEMMA PartOf ==
  ASSUME NEW S, NEW x \in Seq(Seq(S)), NEW k \in 1 .. Len(x)
  PROVE  /\ Len(Ahead(x, k)) \in Nat /\ Len(x[k]) \in Nat /\ x[k] \in Seq(S)
         /\ FlattenSeq(x) \in Seq(S) /\ Len(FlattenSeq(x)) \in Nat
         /\ Len(Ahead(x, k)) + Len(x[k]) <= Len(FlattenSeq(x))
         /\ \A i \in 1 .. Len(x[k]) : FlattenSeq(x)[Len(Ahead(x, k)) + i] = x[k][i]
<1> DEFINE F == FlattenSeq(x)
           A == Ahead(x, k)
           B == Ahead(x, k + 1)
<1>1. x[k] \in Seq(S)
  OBVIOUS
<1>2. F \in Seq(S) /\ A \in Seq(S) /\ B = A \o x[k] /\ Len(B) <= Len(F) /\ \A i \in 1 .. Len(B) : B[i] = F[i]
  BY FlattenFacts
<1> DEFINE p == x[k]
<1> HIDE DEF F, A, B, p
<1>3. /\ Len(A) \in Nat /\ Len(p) \in Nat /\ Len(B) = Len(A) + Len(p)
      /\ \A i \in 1 .. Len(p) : B[Len(A) + i] = p[i]
  BY <1>1, <1>2, ConcatFacts DEF p
<1>4. Len(F) \in Nat
  BY <1>2
<1>5. \A i \in 1 .. Len(p) : Len(A) + i \in 1 .. Len(B)
  BY <1>3
<1>6. \A i \in 1 .. Len(p) : F[Len(A) + i] = p[i]
  BY <1>2, <1>3, <1>5
<1> QED BY <1>1, <1>2, <1>3, <1>4, <1>6 DEF F, A, B, p

\* A piece of a list, element by element.
LEMMA SubSeqIs ==
  ASSUME NEW S, NEW s \in Seq(S), NEW b \in Nat, NEW n \in Nat, b + n <= Len(s)
  PROVE  /\ SubSeq(s, b + 1, b + n) = [i \in 1 .. n |-> s[b + i]]
         /\ SubSeq(s, b + 1, b + n) \in Seq(S)
         /\ Len(SubSeq(s, b + 1, b + n)) = n
<1> DEFINE t == SubSeq(s, b + 1, b + n)
<1>1. t \in Seq(S) /\ Len(t) = n /\ \A i \in 1 .. n : t[i] = s[b + i]
  OBVIOUS
<1> HIDE DEF t
<1>2. t = [i \in 1 .. n |-> s[b + i]]
  BY <1>1
<1> QED BY <1>1, <1>2 DEF t

\* What a scan leaves in the register of a device is its part of what was shifted
\* in, when the register is as long as that.
LEMMA SliceIs ==
  ASSUME NEW S, NEW x \in Seq(Seq(S)), NEW y \in Seq(Seq(S)), Len(x) = Len(y),
         \A k \in 1 .. Len(x) : Len(x[k]) = Len(y[k]),
         NEW d \in 1 .. Len(x)
  PROVE  Slice(FlattenSeq(y), x, d) = y[d]
<1> DEFINE F == FlattenSeq(y)
           b == Len(Ahead(x, d))
           n == Len(x[d])
           p == y[d]
<1>1. d \in 1 .. Len(y)
  OBVIOUS
<1>2. /\ b = Len(Ahead(y, d)) /\ n = Len(y[d])
  BY SameLengths
<1>3. /\ b \in Nat /\ n \in Nat /\ F \in Seq(S) /\ p \in Seq(S) /\ Len(F) \in Nat /\ b + n <= Len(F)
      /\ \A i \in 1 .. n : F[b + i] = p[i]
  BY <1>1, <1>2, PartOf
<1>4. Slice(F, x, d) = SubSeq(F, b + 1, b + n)
  BY DEF Slice, Ahead
<1>5. Len(p) = n
  BY <1>2
<1> HIDE DEF F, b, n, p
<1>6. SubSeq(F, b + 1, b + n) = p
  <2>1. SubSeq(F, b + 1, b + n) = [i \in 1 .. n |-> F[b + i]]
    BY <1>3, SubSeqIs
  <2>2. [i \in 1 .. n |-> F[b + i]] = [i \in 1 .. n |-> p[i]]
    <3>1. \A i \in 1 .. n : F[b + i] = p[i]
      BY <1>3
    <3> QED BY <3>1, Zenon
  <2>3. [i \in 1 .. n |-> p[i]] = p
    BY <1>3, <1>5
  <2> QED BY <2>1, <2>2, <2>3
<1> QED BY <1>4, <1>6 DEF F, p

\* A register shifted by its own length holds what was shifted in, and what it
\* held comes out first.
LEMMA ShiftFacts ==
  ASSUME NEW S, NEW reg \in Seq(S), NEW in \in Seq(S)
  PROVE  /\ Shift(reg, in).reg \in Seq(S) /\ Len(Shift(reg, in).reg) = Len(reg)
         /\ Len(reg) = Len(in) => Shift(reg, in).reg = in
         /\ Shift(reg, in).out \in Seq(S) /\ Len(Shift(reg, in).out) = Len(in)
         /\ \A i \in 1 .. Len(in) : i <= Len(reg) => Shift(reg, in).out[i] = reg[i]
<1> DEFINE w == reg \o in
           m == Len(reg)
           n == Len(in)
<1>1. /\ w \in Seq(S) /\ m \in Nat /\ n \in Nat /\ Len(w) = m + n
      /\ \A i \in 1 .. m : w[i] = reg[i]
      /\ \A i \in 1 .. n : w[m + i] = in[i]
  BY ConcatFacts
<1>2. Shift(reg, in).reg = SubSeq(w, n + 1, n + m) /\ Shift(reg, in).out = SubSeq(w, 1, n)
  BY DEF Shift
<1>3. in = [i \in 1 .. n |-> in[i]]
  OBVIOUS
<1> HIDE DEF w, m, n
<1>4. SubSeq(w, n + 1, n + m) \in Seq(S) /\ Len(SubSeq(w, n + 1, n + m)) = m
  BY <1>1
<1>5. ASSUME m = n PROVE SubSeq(w, n + 1, n + m) = in
  <2>1. SubSeq(w, n + 1, n + m) = [i \in 1 .. n |-> w[m + i]]
    <3>1. SubSeq(w, n + 1, n + m) = SubSeq(w, m + 1, m + n)
      BY <1>5
    <3>2. m + n <= Len(w)
      BY <1>1
    <3>3. w \in Seq(S)
      BY <1>1
    <3>4. \A b, k \in Nat : b + k <= Len(w) => SubSeq(w, b + 1, b + k) = [i \in 1 .. k |-> w[b + i]]
      <4> TAKE b \in Nat, k \in Nat
      <4> HAVE b + k <= Len(w)
      <4> QED BY <3>3, SubSeqIs
    <3>5. SubSeq(w, m + 1, m + n) = [i \in 1 .. n |-> w[m + i]]
      <4>1. m \in Nat /\ n \in Nat
        BY <1>1
      <4> QED BY ONLY <3>2, <3>4, <4>1
    <3> QED BY ONLY <3>1, <3>5
  <2>2. [i \in 1 .. n |-> w[m + i]] = [i \in 1 .. n |-> in[i]]
    BY <1>1
  <2> QED BY <2>1, <2>2, <1>3
<1>6. SubSeq(w, 1, n) \in Seq(S) /\ Len(SubSeq(w, 1, n)) = n /\ \A i \in 1 .. n : SubSeq(w, 1, n)[i] = w[i]
  BY <1>1
<1>7. \A i \in 1 .. n : i <= m => w[i] = reg[i]
  BY <1>1
<1> QED BY <1>2, <1>4, <1>5, <1>6, <1>7 DEF m, n

\* When all parts but one are single bits.
LEMMA SingleBits ==
  ASSUME NEW S, NEW x \in Seq(Seq(S)), NEW d \in 1 .. Len(x),
         \A k \in 1 .. Len(x) : k # d => Len(x[k]) = 1
  PROVE  Len(Ahead(x, d)) = d - 1 /\ Len(FlattenSeq(x)) = (Len(x) - 1) + Len(x[d])
<1> DEFINE a(m) == IF m < d THEN m ELSE (m - 1) + Len(x[d])
           U == {m \in Nat : m <= Len(x) => Len(Ahead(x, m + 1)) = a(m)}
<1>0. Len(x) \in Nat /\ d \in Nat /\ 1 <= d /\ d <= Len(x) /\ Len(x[d]) \in Nat
  <2>1. x[d] \in Seq(S)
    OBVIOUS
  <2> QED BY <2>1
<1>1. 0 \in U
  <2>1. SubSeq(x, 1, (0 + 1) - 1) = <<>>
    OBVIOUS
  <2>2. Ahead(x, 0 + 1) = <<>>
    BY <2>1, FlattenStep DEF Ahead
  <2> QED BY <2>2, <1>0
<1>2. ASSUME NEW m \in Nat, m \in U PROVE m + 1 \in U
  <2>1. SUFFICES ASSUME m + 1 <= Len(x)
                 PROVE Len(Ahead(x, (m + 1) + 1)) = a(m + 1)
    OBVIOUS
  <2>2. m + 1 \in 1 .. Len(x) /\ m <= Len(x)
    BY <2>1, <1>0
  <2>3. Len(Ahead(x, m + 1)) = a(m)
    BY <1>2, <2>2
  <2>4. /\ Ahead(x, m + 1) \in Seq(S) /\ x[m + 1] \in Seq(S)
        /\ Ahead(x, (m + 1) + 1) = Ahead(x, m + 1) \o x[m + 1]
    <3>1. x[m + 1] \in Seq(S)
      BY <2>2
    <3> QED BY <3>1, <2>2, FlattenFacts
  <2>5. Len(Ahead(x, (m + 1) + 1)) = a(m) + Len(x[m + 1])
    <3>1. Len(Ahead(x, m + 1) \o x[m + 1]) = Len(Ahead(x, m + 1)) + Len(x[m + 1])
      BY <2>4, ConcatFacts
    <3> QED BY <3>1, <2>3, <2>4
  <2>6. CASE m + 1 = d
    <3> DEFINE l == Len(x[d])
    <3> HIDE DEF l
    <3>1. x[m + 1] = x[d] /\ m < d
      BY <1>0, <2>6
    <3>2. m + l = IF m + 1 < d THEN m + 1 ELSE ((m + 1) - 1) + l
      BY <1>0, <2>6 DEF l
    <3> QED BY <2>5, <3>1, <3>2 DEF l
  <2>7. CASE m + 1 # d
    <3>1. Len(x[m + 1]) = 1
      BY <2>2, <2>7
    <3> DEFINE l == Len(x[d])
    <3> HIDE DEF l
    <3>2. (IF m < d THEN m ELSE (m - 1) + l) + 1 = IF m + 1 < d THEN m + 1 ELSE ((m + 1) - 1) + l
      BY <1>0, <2>7 DEF l
    <3> QED BY <2>5, <3>1, <3>2 DEF l
  <2> QED BY <2>6, <2>7
<1> HIDE DEF U
<1>3. Nat \subseteq U
  BY <1>1, <1>2, NatSetInduction
<1>4. \A m \in Nat : m <= Len(x) => Len(Ahead(x, m + 1)) = a(m)
  BY <1>3 DEF U
<1>5. Len(Ahead(x, d)) = d - 1
  <2>1. PICK m \in Nat : m = d - 1 /\ m + 1 = d /\ m <= Len(x) /\ m < d
    <3>1. d - 1 \in Nat /\ (d - 1) + 1 = d /\ d - 1 <= Len(x) /\ d - 1 < d
      BY <1>0
    <3> QED BY <3>1
  <2>2. Len(Ahead(x, m + 1)) = a(m)
    BY <1>4, <2>1
  <2> QED BY <2>1, <2>2
<1>6. Ahead(x, Len(x) + 1) = FlattenSeq(x)
  <2>1. (Len(x) + 1) - 1 = Len(x) /\ SubSeq(x, 1, Len(x)) = x
    OBVIOUS
  <2> QED BY <2>1 DEF Ahead
<1>7. Len(Ahead(x, Len(x) + 1)) = a(Len(x))
  BY <1>4, <1>0
<1>8. ~(Len(x) < d)
  BY <1>0
<1> QED BY <1>5, <1>6, <1>7, <1>8

-----------------------------------------------------------------------------
(* The chain                                                               *)

\* What detectDevices() and loadBsdl() make of the board: nothing, or all its
\* devices with the lengths of their instruction registers.
Found(loaded) ==
  [d \in Dev |-> [idcode |-> Board[d].idcode, ir_length |-> Board[d].ir_length, bsdl |-> loaded[d]]]
ChainStates == {<<>>} \cup {Found(loaded) : loaded \in [Dev -> BOOLEAN]}

LEMMA IsSeq ==
  ASSUME NEW S, NEW n \in Nat, NEW f \in [1 .. n -> S]
  PROVE  f \in Seq(S) /\ Len(f) = n
  OBVIOUS

LEMMA FoundFacts ==
  ASSUME devices \in ChainStates
  PROVE  /\ Len(Board) \in Nat /\ Len(devices) \in {0, Len(Board)}
         /\ \A d \in Dev : InRange(d) =>
              /\ Len(devices) = Len(Board) /\ DOMAIN devices = Dev
              /\ devices[d].bsdl \in BOOLEAN
              /\ \A e \in Dev : devices[e].ir_length = Board[e].ir_length
         /\ LengthsRight
<1>0. Len(Board) \in Nat
  BY BoardAssumption
<1>1. CASE devices = <<>>
  <2>1. Len(devices) = 0
    BY <1>1
  <2> QED BY <1>0, <2>1 DEF InRange, LengthsRight
<1>2. ASSUME NEW loaded \in [Dev -> BOOLEAN], devices = Found(loaded)
      PROVE /\ Len(devices) = Len(Board) /\ DOMAIN devices = Dev
            /\ \A e \in Dev : devices[e].ir_length = Board[e].ir_length /\ devices[e].bsdl \in BOOLEAN
  BY <1>0, <1>2 DEF Found, Dev
<1>3. CASE \E loaded \in [Dev -> BOOLEAN] : devices = Found(loaded)
  <2>1. /\ Len(devices) = Len(Board) /\ DOMAIN devices = Dev
        /\ \A e \in Dev : devices[e].ir_length = Board[e].ir_length /\ devices[e].bsdl \in BOOLEAN
    BY <1>2, <1>3
  <2> QED BY <2>1, <1>0 DEF LengthsRight, Dev
<1> QED BY <1>1, <1>3 DEF ChainStates

\* A device of the board.
LEMMA DeviceFacts ==
  ASSUME NEW d \in Dev
  PROVE  /\ Len(Board) \in Nat /\ d \in Nat /\ 1 <= d /\ d <= Len(Board)
         /\ Board[d].ir_length \in Nat /\ Board[d].ir_length >= 1
         /\ Len(Cells(d)) \in Nat /\ Len(Cells(d)) >= 1
         /\ \A i \in Instructions : /\ Board[d].ops[i] \in [1 .. Board[d].ir_length -> {0, 1}]
                                    /\ Board[d].ops[i] # Ones(Board[d].ir_length)
         /\ \A i, j \in Instructions : Board[d].ops[i] = Board[d].ops[j] => i = j
         /\ DOMAIN Board[d].ops = Instructions
  BY BoardAssumption DEF Dev, Cells

\* One device executes an instruction, the others are in BYPASS.
Only(d, i) == [e \in Dev |-> IF e = d THEN i ELSE "BYPASS"]

\* An opcode that a BSDL file names selects its instruction, all ones BYPASS.
LEMMA DecodeIs ==
  ASSUME NEW d \in Dev
  PROVE  /\ \A i \in Instructions : Decode(d, Board[d].ops[i]) = i
         /\ Decode(d, Ones(Board[d].ir_length)) = "BYPASS"
<1>1. ASSUME NEW i \in Instructions PROVE Decode(d, Board[d].ops[i]) = i
  <2>1. {j \in DOMAIN Board[d].ops : Board[d].ops[j] = Board[d].ops[i]} = {i}
    BY DeviceFacts
  <2>2. {i} # {} /\ (CHOOSE j \in {i} : TRUE) = i
    OBVIOUS
  <2> QED BY <2>1, <2>2, Zenon DEF Decode
<1>2. Decode(d, Ones(Board[d].ir_length)) = "BYPASS"
  <2>1. {j \in DOMAIN Board[d].ops : Board[d].ops[j] = Ones(Board[d].ir_length)} = {}
    BY DeviceFacts
  <2> QED BY <2>1, Zenon DEF Decode
<1> QED BY <1>1, <1>2

\* selectInstruction(): the bits of every device end up in its own register.
LEMMA SelectIs ==
  ASSUME devices \in ChainStates, NEW d \in Dev, InRange(d), NEW i \in Instructions
  PROVE  IrAfter(IrData(d, Board[d].ops[i])) = Only(d, i)
<1> DEFINE n == Len(Board)
           len(e) == Board[e].ir_length
           op == Board[d].ops[i]
           x == [e \in Dev |-> <<1>> \o Zeros(Board[e].ir_length - 1)]
           y == [e \in 1 .. Len(devices) |->
                  IF e = d THEN [b \in 1 .. devices[e].ir_length |-> IF b <= Len(op) THEN op[b] ELSE 0]
                  ELSE Ones(devices[e].ir_length)]
           B == {0, 1}
<1>1. n \in Nat /\ Len(devices) = n /\ \A e \in Dev : devices[e].ir_length = len(e)
  BY FoundFacts
<1>2. \A e \in Dev : len(e) \in Nat /\ len(e) >= 1
  BY DeviceFacts
<1>3. ASSUME NEW e \in Dev PROVE x[e] \in Seq(B) /\ Len(x[e]) = len(e)
  <2> DEFINE k == len(e)
  <2>1. k \in Nat /\ k - 1 \in Nat
    BY <1>2
  <2>2. x[e] = <<1>> \o Zeros(k - 1)
    OBVIOUS
  <2> HIDE DEF k, x
  <2>3. Zeros(k - 1) \in Seq(B) /\ Len(Zeros(k - 1)) = k - 1
    BY <2>1 DEF Zeros
  <2>4. <<1>> \in Seq(B) /\ Len(<<1>>) = 1
    OBVIOUS
  <2>5. <<1>> \o Zeros(k - 1) \in Seq(B) /\ Len(<<1>> \o Zeros(k - 1)) = 1 + (k - 1)
    BY <2>3, <2>4, ConcatFacts
  <2> QED BY <2>1, <2>2, <2>5 DEF k
<1>4. op \in [1 .. len(d) -> B] /\ Len(op) = len(d)
  <2>1. op \in [1 .. len(d) -> B]
    BY DeviceFacts
  <2> HIDE DEF op
  <2> QED BY <2>1, <1>2
<1>5. ASSUME NEW e \in Dev
      PROVE  y[e] \in Seq(B) /\ Len(y[e]) = len(e) /\ y[e] = IF e = d THEN op ELSE Ones(len(e))
  <2>1. e \in 1 .. Len(devices) /\ devices[e].ir_length = len(e) /\ len(e) \in Nat
    BY <1>1, <1>2 DEF Dev
  <2>2. CASE e = d
    <3>1. y[e] = [b \in 1 .. len(d) |-> IF b <= Len(op) THEN op[b] ELSE 0]
      BY <2>1, <2>2
    <3> HIDE DEF y, op
    <3>2. [b \in 1 .. len(d) |-> IF b <= Len(op) THEN op[b] ELSE 0] = op
      BY <1>4, <2>1, <2>2
    <3>3. op \in Seq(B)
      BY <1>4, <2>1, <2>2
    <3> QED BY <3>1, <3>2, <3>3, <1>4, <2>2
  <2>3. CASE e # d
    <3>1. y[e] = Ones(len(e))
      BY <2>1, <2>3
    <3> HIDE DEF y
    <3>2. Ones(len(e)) \in Seq(B) /\ Len(Ones(len(e))) = len(e)
      BY <2>1 DEF Ones
    <3> QED BY <3>1, <3>2, <2>3
  <2> QED BY <2>2, <2>3
<1>6. x \in Seq(Seq(B)) /\ Len(x) = n /\ y \in Seq(Seq(B)) /\ Len(y) = n
  <2>1. DOMAIN x = 1 .. n /\ DOMAIN y = 1 .. n /\ x = [e \in 1 .. n |-> x[e]] /\ y = [e \in 1 .. n |-> y[e]]
    BY <1>1 DEF Dev
  <2>2. \A e \in 1 .. n : x[e] \in Seq(B) /\ y[e] \in Seq(B)
    BY <1>3, <1>5 DEF Dev
  <2> HIDE DEF x, y, B
  <2>3. x \in [1 .. n -> Seq(B)] /\ y \in [1 .. n -> Seq(B)]
    BY <2>1, <2>2
  <2>4. n \in Nat
    BY <1>1
  <2> HIDE DEF n
  <2> QED BY <2>3, <2>4, IsSeq
<1>7. IrData(d, op) = FlattenSeq(y)
  BY DEF IrData
<1> DEFINE reg == Shift(FlattenSeq(x), FlattenSeq(y)).reg
<1>8. IrAfter(FlattenSeq(y)) = [e \in Dev |-> Decode(e, Slice(reg, x, e))]
  BY DEF IrAfter
<1> HIDE DEF x, y
<1>9. \A e \in 1 .. Len(x) : Len(x[e]) = Len(y[e])
  BY <1>3, <1>5, <1>6 DEF Dev
<1>10. Len(FlattenSeq(x)) = Len(FlattenSeq(y)) /\ FlattenSeq(x) \in Seq(B) /\ FlattenSeq(y) \in Seq(B)
  <2>1. Len(FlattenSeq(x)) = Len(FlattenSeq(y))
    BY <1>6, <1>9, SameLengths
  <2> QED BY <2>1, <1>6, FlattenFacts
<1>11. reg = FlattenSeq(y)
  BY <1>10, ShiftFacts
<1>12. \A e \in Dev : Slice(reg, x, e) = y[e]
  <2> SUFFICES ASSUME NEW e \in Dev PROVE Slice(reg, x, e) = y[e]
    OBVIOUS
  <2>1. e \in 1 .. Len(x) /\ Len(x) = Len(y)
    BY <1>6 DEF Dev
  <2>2. Slice(FlattenSeq(y), x, e) = y[e]
    BY <2>1, <1>6, <1>9, SliceIs
  <2> QED BY <2>2, <1>11
<1> HIDE DEF reg, op
<1>13. \A e \in Dev : Decode(e, y[e]) = Only(d, i)[e]
  <2> SUFFICES ASSUME NEW e \in Dev PROVE Decode(e, y[e]) = IF e = d THEN i ELSE "BYPASS"
    BY DEF Only
  <2>1. CASE e = d
    BY <2>1, <1>5, DecodeIs DEF op
  <2>2. CASE e # d
    BY <2>2, <1>5, DecodeIs
  <2> QED BY <2>1, <2>2
<1>14. [e \in Dev |-> Decode(e, Slice(reg, x, e))] = Only(d, i)
  <2>1. \A e \in Dev : Decode(e, Slice(reg, x, e)) = Only(d, i)[e]
    BY <1>12, <1>13, Zenon
  <2> QED BY <2>1, Zenon DEF Only
<1> QED BY <1>7, <1>8, <1>14 DEF op

\* The latches of the boundary cells.
LatchOK(l) == DOMAIN l = Dev /\ \A d \in Dev : l[d] \in [1 .. Len(Cells(d)) -> Bits]

\* While one device has its boundary register on the chain, a scan has to go
\* through the BYPASS bits of the others.
LEMMA CaptureIs ==
  ASSUME NEW d \in Dev, NEW i \in {"SAMPLE", "EXTEST"}, ir = Only(d, i), NEW image \in Images
  PROVE  LET x == DrCapture(image)
         IN  /\ x \in Seq(Seq(Bits)) /\ Len(x) = Len(Board) /\ d \in 1 .. Len(x)
             /\ x[d] = image[d] /\ Len(x[d]) = Len(Cells(d))
             /\ Len(Ahead(x, d)) = d - 1
             /\ Len(FlattenSeq(x)) = (Len(Board) - 1) + Len(Cells(d))
             /\ FlattenSeq(x) \in Seq(Bits)
             /\ \A k \in 1 .. Len(Cells(d)) : FlattenSeq(x)[(d - 1) + k] = image[d][k]
             /\ \A e \in Dev : OnBoundary(e) <=> e = d
<1> DEFINE x == DrCapture(image)
           n == Len(Board)
<1>1. n \in Nat /\ d \in 1 .. n /\ Len(Cells(d)) \in Nat
  BY DeviceFacts DEF Dev
<1>2. \A e \in Dev : OnBoundary(e) <=> e = d
  BY DEF OnBoundary, Only
<1>3. ASSUME NEW e \in Dev PROVE x[e] = IF e = d THEN image[d] ELSE <<0>>
  <2>1. e # d => ir[e] # "IDCODE"
    BY DEF Only
  <2> QED BY <1>2, <2>1 DEF DrCapture
<1>4. image[d] \in [1 .. Len(Cells(d)) -> Bits]
  BY ImagesAssumption
<1>5. x[d] = image[d] /\ image[d] \in Seq(Bits) /\ Len(x[d]) = Len(Cells(d))
  <2>1. x[d] = image[d]
    BY <1>3
  <2> HIDE DEF x
  <2> QED BY <2>1, <1>4, <1>1
<1>6. <<0>> \in Seq(Bits) /\ Len(<<0>>) = 1
  BY DEF Bits
<1>7. \A e \in 1 .. n : x[e] \in Seq(Bits) /\ (e # d => Len(x[e]) = 1)
  <2> HIDE DEF x
  <2> QED BY <1>3, <1>5, <1>6 DEF Dev
<1>8. DOMAIN x = 1 .. n /\ x = [e \in 1 .. n |-> x[e]]
  BY DEF DrCapture, Dev
<1> HIDE DEF x
<1>9. x \in Seq(Seq(Bits)) /\ Len(x) = n
  <2>1. x \in [1 .. n -> Seq(Bits)]
    BY <1>7, <1>8
  <2> QED BY <2>1, <1>1
<1>10. d \in 1 .. Len(x) /\ \A e \in 1 .. Len(x) : e # d => Len(x[e]) = 1
  BY <1>1, <1>7, <1>9
<1>11. Len(Ahead(x, d)) = d - 1 /\ Len(FlattenSeq(x)) = (Len(x) - 1) + Len(x[d])
  BY <1>9, <1>10, SingleBits
<1>12. FlattenSeq(x) \in Seq(Bits) /\ \A k \in 1 .. Len(x[d]) : FlattenSeq(x)[Len(Ahead(x, d)) + k] = x[d][k]
  BY <1>9, <1>10, PartOf
<1> QED BY <1>2, <1>5, <1>9, <1>10, <1>11, <1>12 DEF x

\* A scan leaves the latches well formed, and those of the devices in BYPASS alone.
LEMMA DrScanLatch ==
  ASSUME NEW d \in Dev, NEW i \in Instructions, ir = Only(d, i), NEW image \in Images,
         NEW in \in Seq(Bits), LatchOK(latch)
  PROVE  LatchOK(DrScan(image, in).latch)
<1> DEFINE x == DrCapture(image)
           after == Shift(FlattenSeq(x), in)
           l == DrScan(image, in).latch
<1>1. l = [e \in Dev |-> IF OnBoundary(e) THEN Slice(after.reg, x, e) ELSE latch[e]]
  BY DEF DrScan
<1>2. CASE i = "IDCODE"
  <2>1. \A e \in Dev : ~OnBoundary(e)
    BY <1>2 DEF OnBoundary, Only
  <2> QED BY <1>1, <2>1 DEF LatchOK
<1>3. CASE i \in {"SAMPLE", "EXTEST"}
  <2>1. /\ x \in Seq(Seq(Bits)) /\ d \in 1 .. Len(x) /\ Len(x[d]) = Len(Cells(d))
        /\ Len(Ahead(x, d)) = d - 1 /\ FlattenSeq(x) \in Seq(Bits)
        /\ Len(FlattenSeq(x)) = (Len(Board) - 1) + Len(Cells(d))
        /\ \A e \in Dev : OnBoundary(e) <=> e = d
    BY <1>3, CaptureIs
  <2> HIDE DEF x
  <2>2. after.reg \in Seq(Bits) /\ Len(after.reg) = Len(FlattenSeq(x))
    BY <2>1, ShiftFacts
  <2> HIDE DEF after
  <2>3. Slice(after.reg, x, d) = SubSeq(after.reg, (d - 1) + 1, (d - 1) + Len(Cells(d)))
    BY <2>1 DEF Slice, Ahead
  <2>4. Slice(after.reg, x, d) \in [1 .. Len(Cells(d)) -> Bits]
    <3> DEFINE r == after.reg
               m == Len(Cells(d))
               s == SubSeq(r, (d - 1) + 1, (d - 1) + m)
    <3>1. d - 1 \in Nat /\ m \in Nat /\ (d - 1) + m <= Len(r)
      <4>1. m \in Nat /\ Len(Board) \in Nat /\ d \in Nat /\ 1 <= d /\ d <= Len(Board)
        BY DeviceFacts
      <4> HIDE DEF m
      <4> QED BY <4>1, <2>1, <2>2 DEF m
    <3>2. r \in Seq(Bits)
      BY <2>2
    <3> HIDE DEF m, r
    <3>3. s \in Seq(Bits) /\ Len(s) = m
      <4>1. PICK b \in Nat : b = d - 1
        BY <3>1
      <4>2. b + m <= Len(r)
        BY <3>1, <4>1
      <4>3. SubSeq(r, b + 1, b + m) \in Seq(Bits) /\ Len(SubSeq(r, b + 1, b + m)) = m
        BY <3>1, <3>2, <4>2, SubSeqIs
      <4> QED BY <4>1, <4>3
    <3> HIDE DEF s
    <3>4. s \in [1 .. m -> Bits]
      BY <3>3
    <3> QED BY <3>4, <2>3 DEF s, m, r
  <2> QED BY <1>1, <2>1, <2>4 DEF LatchOK
<1> QED BY <1>2, <1>3 DEF Instructions

\* writeBSR(): what was to be written is what the device latches.
LEMMA WriteIs ==
  ASSUME devices \in ChainStates, NEW d \in Dev, InRange(d), ir = Only(d, "EXTEST"),
         NEW image \in Images, NEW bsr \in [1 .. Len(Cells(d)) -> Bits]
  PROVE  /\ WriteIn(d, bsr) \in Seq(Bits)
         /\ DrScan(image, WriteIn(d, bsr)).latch[d] = bsr
<1> DEFINE x == DrCapture(image)
           n == Len(Board)
           m == Len(Cells(d))
           in == WriteIn(d, bsr)
           after == Shift(FlattenSeq(x), in)
<1>1. m \in Nat /\ n \in Nat /\ d \in Nat /\ 1 <= d /\ d <= n /\ Len(devices) = n
  BY DeviceFacts, FoundFacts
<1>2. /\ x \in Seq(Seq(Bits)) /\ Len(x) = n /\ d \in 1 .. Len(x) /\ Len(x[d]) = m
      /\ Len(Ahead(x, d)) = d - 1 /\ FlattenSeq(x) \in Seq(Bits)
      /\ Len(FlattenSeq(x)) = (n - 1) + m
      /\ OnBoundary(d)
  BY CaptureIs
<1>3. DrScan(image, in).latch[d] = Slice(after.reg, x, d)
  BY <1>2 DEF DrScan
<1> HIDE DEF x, m
<1>4. bsr \in Seq(Bits) /\ Len(bsr) = m /\ bsr = [k \in 1 .. m |-> bsr[k]]
  <2>1. bsr \in [1 .. m -> Bits]
    BY DEF m
  <2> QED BY <2>1, <1>1
<1>5. /\ Zeros(d - 1) \in Seq(Bits) /\ Len(Zeros(d - 1)) = d - 1
      /\ Zeros(n - d) \in Seq(Bits) /\ Len(Zeros(n - d)) = n - d
  <2>1. \A k \in Nat : Zeros(k) \in Seq(Bits) /\ Len(Zeros(k)) = k
    BY DEF Zeros, Bits
  <2>2. d - 1 \in Nat /\ n - d \in Nat
    BY <1>1
  <2> QED BY <2>1, <2>2
<1> DEFINE p == Zeros(d - 1) \o bsr
<1>6. in = p \o Zeros(n - d)
  BY <1>1 DEF WriteIn
<1>7. p \in Seq(Bits) /\ Len(p) = (d - 1) + m /\ \A k \in 1 .. m : p[(d - 1) + k] = bsr[k]
  <2>1. \A z \in Seq(Bits) : /\ z \o bsr \in Seq(Bits)
                             /\ Len(z \o bsr) = Len(z) + Len(bsr)
                             /\ \A k \in 1 .. Len(bsr) : (z \o bsr)[Len(z) + k] = bsr[k]
    <3> SUFFICES ASSUME NEW z \in Seq(Bits)
                 PROVE  /\ z \o bsr \in Seq(Bits) /\ Len(z \o bsr) = Len(z) + Len(bsr)
                        /\ \A k \in 1 .. Len(bsr) : (z \o bsr)[Len(z) + k] = bsr[k]
      OBVIOUS
    <3>1. bsr \in Seq(Bits)
      BY <1>4
    <3> QED BY ONLY <3>1, z \in Seq(Bits), ConcatFacts
  <2>2. /\ p \in Seq(Bits) /\ Len(p) = Len(Zeros(d - 1)) + Len(bsr)
        /\ \A k \in 1 .. Len(bsr) : p[Len(Zeros(d - 1)) + k] = bsr[k]
    BY <2>1, <1>5
  <2> HIDE DEF p
  <2> QED BY <2>2, <1>4, <1>5
<1> HIDE DEF p, in
<1>8. in \in Seq(Bits) /\ Len(in) = ((d - 1) + m) + (n - d) /\ \A k \in 1 .. Len(p) : in[k] = p[k]
  <2>1. PICK z : z = Zeros(n - d)
    OBVIOUS
  <2>2. z \in Seq(Bits) /\ Len(z) = n - d /\ in = p \o z
    BY <1>5, <1>6, <2>1
  <2>3. p \in Seq(Bits) /\ Len(p) = (d - 1) + m
    BY <1>7
  <2>4. /\ p \o z \in Seq(Bits) /\ Len(p \o z) = Len(p) + Len(z)
        /\ \A k \in 1 .. Len(p) : (p \o z)[k] = p[k]
    <3>1. p \in Seq(Bits) /\ z \in Seq(Bits)
      BY <2>2, <2>3
    <3> QED BY ONLY <3>1, ConcatFacts
  <2> QED BY ONLY <2>2, <2>3, <2>4
<1>9. \A k \in 1 .. m : in[(d - 1) + k] = bsr[k]
  <2>1. \A k \in 1 .. m : (d - 1) + k \in 1 .. (d - 1) + m
    BY <1>1
  <2> QED BY <2>1, <1>7, <1>8, SMTT(30)
<1>10. Len(in) = Len(FlattenSeq(x))
  BY <1>1, <1>2, <1>8
<1>11. after.reg = in
  BY <1>2, <1>8, <1>10, ShiftFacts
<1> HIDE DEF after
<1>12. Slice(in, x, d) = SubSeq(in, (d - 1) + 1, (d - 1) + m)
  BY <1>2 DEF Slice, Ahead
<1>13. SubSeq(in, (d - 1) + 1, (d - 1) + m) = [k \in 1 .. m |-> in[(d - 1) + k]]
  <2>1. PICK b \in Nat : b = d - 1
    BY <1>1
  <2>2. b + m <= Len(in)
    BY <2>1, <1>1, <1>8
  <2>3. SubSeq(in, b + 1, b + m) = [k \in 1 .. m |-> in[b + k]]
    BY <2>2, <1>1, <1>8, SubSeqIs
  <2> QED BY <2>1, <2>3
<1>14. [k \in 1 .. m |-> in[(d - 1) + k]] = bsr
  BY <1>4, <1>9
<1> QED BY <1>3, <1>8, <1>11, <1>12, <1>13, <1>14 DEF in

\* readBSR(): what it gives back is what the device's own cells captured.
LEMMA ReadIs ==
  ASSUME devices \in ChainStates, NEW d \in Dev, InRange(d), ir = Only(d, "SAMPLE"),
         NEW image \in Images, NEW partial \in Nat
  PROVE  /\ ReadIn(d, partial) \in Seq(Bits)
         /\ ReadLen(d, partial) \in 1 .. Len(Cells(d))
         /\ ReadOut(d, partial, DrScan(image, ReadIn(d, partial)).out)
              = [k \in 1 .. ReadLen(d, partial) |-> image[d][k]]
<1> DEFINE x == DrCapture(image)
           n == Len(Board)
           m == Len(Cells(d))
           len == ReadLen(d, partial)
           in == ReadIn(d, partial)
           out == DrScan(image, in).out
<1>1. /\ m \in Nat /\ m >= 1 /\ n \in Nat /\ d \in Nat /\ 1 <= d /\ d <= n /\ Len(devices) = n
  BY DeviceFacts, FoundFacts
<1>2. /\ FlattenSeq(x) \in Seq(Bits) /\ Len(FlattenSeq(x)) = (n - 1) + m
      /\ \A k \in 1 .. m : FlattenSeq(x)[(d - 1) + k] = image[d][k]
  BY CaptureIs
<1>3. len \in 1 .. m
  <2>1. len = IF partial > 0 /\ partial < m THEN partial ELSE m
    BY DEF ReadLen, Cells
  <2> HIDE DEF m, len
  <2> QED BY <2>1, <1>1
<1>4. in = Zeros(len + (n - 1))
  BY <1>1 DEF ReadIn, Others
<1>5. out = Shift(FlattenSeq(x), in).out
  BY DEF DrScan
<1>6. ReadOut(d, partial, out) = SubSeq(out, d, (d - 1) + len)
  BY DEF ReadOut
<1> HIDE DEF x, m, len, in, out
<1>7. in \in Seq(Bits) /\ Len(in) = len + (n - 1)
  <2>1. \A k \in Nat : Zeros(k) \in Seq(Bits) /\ Len(Zeros(k)) = k
    BY DEF Zeros, Bits
  <2>2. len + (n - 1) \in Nat
    BY <1>1, <1>3
  <2> QED BY <2>1, <2>2, <1>4
<1>8. out \in Seq(Bits) /\ Len(out) = len + (n - 1) /\ \A k \in 1 .. Len(in) : k <= Len(FlattenSeq(x)) => out[k] = FlattenSeq(x)[k]
  BY <1>2, <1>5, <1>7, ShiftFacts
<1>9. \A k \in 1 .. len : out[(d - 1) + k] = image[d][k]
  <2> SUFFICES ASSUME NEW k \in 1 .. len PROVE out[(d - 1) + k] = image[d][k]
    OBVIOUS
  <2>1. k \in 1 .. m /\ (d - 1) + k \in 1 .. Len(in) /\ (d - 1) + k <= Len(FlattenSeq(x))
    BY <1>1, <1>2, <1>3, <1>7
  <2> QED BY <2>1, <1>2, <1>8
<1>10. SubSeq(out, (d - 1) + 1, (d - 1) + len) = [k \in 1 .. len |-> out[(d - 1) + k]]
  <2>1. d - 1 \in Nat /\ len \in Nat /\ (d - 1) + len <= Len(out)
    BY <1>1, <1>3, <1>8
  <2> QED BY <2>1, <1>8, SubSeqIs
<1>11. (d - 1) + 1 = d
  BY <1>1
<1>12. [k \in 1 .. len |-> out[(d - 1) + k]] = [k \in 1 .. len |-> image[d][k]]
  BY <1>9, Zenon
<1> QED BY <1>3, <1>6, <1>7, <1>10, <1>11, <1>12 DEF len, in, out, m

-----------------------------------------------------------------------------
(* The inductive invariant                                                 *)

Kinds == {"BYPASS"} \cup Instructions
SampledDevices ==
  Dev \cup UNION {{InOrder(net)[i] : i \in 1 .. Cardinality(ReceiverDevices(net))} : net \in Nets}

\* The steps that need nothing of the state when their turn comes, and those
\* that rest on the step before them: a scan on the instruction that was
\* selected, the use of a sample on the sample.
PlainSteps ==
  UNION {{<<"detect">>, <<"wrong">>},
         {"scanner", "driver", "script", "idcode_ir", "sample_all", "load", "apply", "safe"} \X Dev,
         {"sample_ir"} \X SampledDevices \X {"answer", "sampled", "keep"},
         {"capture"} \X Dev \X Filters,
         {"stage"} \X Dev \X Pins \X (-1 .. 1),
         {"expect"} \X Dev \X Pins \X ExpectedValues,
         {"try_stage"} \X Dev \X {net.driver[2] : net \in Nets} \X (0 .. 1),
         {"drive", "observe", "check"} \X Nets \X (0 .. 1)}
BoundSteps ==
  UNION {{"capture_ir", "capture_dr", "extest_ir", "extest_dr", "idcode_dr"} \X Dev,
         Uses \X Dev,
         {"sample_dr"} \X Dev \X Uses,
         {"sample_ir"} \X Dev \X {"answer_all", "frames"}}

\* The list of steps: only the first one may rest on the step before it.
TodoOK(todo) ==
  \/ todo = <<>>
  \/ /\ todo \in Seq(PlainSteps \cup BoundSteps)
     /\ Tail(todo) \in Seq(PlainSteps)

ChainOK == devices \in ChainStates
IrOK == ir \in [Dev -> Kinds] /\ NoLiveExtest
LatchesOK == LatchOK(latch) /\ LatchOK(seen)
ScannersOK ==
  /\ DOMAIN scanners = Dev
  /\ \A d \in Dev : /\ DOMAIN scanners[d] = DOMAIN NoScanner
                    /\ scanners[d].filter \in Filters \cup {{}}
                    /\ scanners[d].made => InRange(d)
DriversOK ==
  /\ DOMAIN drivers = Dev
  /\ \A d \in Dev : /\ DOMAIN drivers[d] = DOMAIN NoDriver
                    /\ drivers[d].bsr \in {<<>>} \cup [1 .. Len(Cells(d)) -> Bits]
                    /\ drivers[d].made => InRange(d)
                    /\ drivers[d].bsr # <<>> => Ready(d)
JobShape == DOMAIN job = DOMAIN Idle /\ DOMAIN job.samples = Dev
JobOK == JobShape /\ TodoOK(job.todo)

\* What the sample the scanner has just decoded says of each pin.
SampleIs(d) ==
  \A p \in ObservablePins(Cells(d)) :
    GetPin(job.states, p) =
      IF scanners[d].filter = {} \/ p \in scanners[d].filter THEN Level(d, p) ELSE "unknown"

\* What the first step of the job rests on.
HeadOK ==
  \A d \in Dev :
    /\ Head1 = <<"capture_ir", d>> => Ready(d)
    /\ Head1 = <<"capture_dr", d>> => Ready(d) /\ ir = Only(d, "SAMPLE")
    /\ Head1 = <<"extest_ir", d>> => ExtestAllowed(d) /\ drivers[d].bsr # <<>>
    /\ Head1 = <<"extest_dr", d>> => /\ ExtestAllowed(d) /\ drivers[d].bsr # <<>>
                                     /\ ir = Only(d, "EXTEST")
    /\ Head1 = <<"idcode_dr", d>> => Ready(d) /\ ir = Only(d, "IDCODE")
    /\ Head1 = <<"sample_ir", d, "answer_all">> => scanners[d].filter = {}
    /\ \A use \in Uses :
         /\ Head1 = <<"sample_dr", d, use>> => /\ Ready(d) /\ ir = Only(d, "SAMPLE")
                                               /\ use = "answer_all" => scanners[d].filter = {}
         /\ Head1 = <<use, d>> => /\ job.raw # <<>> => Ready(d) /\ SampleIs(d)
                                  /\ use = "answer_all" => scanners[d].filter = {}

BoardOK == ChainOK /\ IrOK /\ LatchesOK /\ ScannersOK /\ DriversOK
ToolsInv == BoardOK /\ JobOK /\ HeadOK

-----------------------------------------------------------------------------
(* Lists of steps                                                          *)

LEMMA TailFacts ==
  ASSUME NEW S, NEW t \in Seq(S), t # <<>>
  PROVE  Head(t) \in S /\ Tail(t) \in Seq(S) /\ t = <<Head(t)>> \o Tail(t)
  OBVIOUS

LEMMA TodoPush ==
  ASSUME NEW S, NEW h, NEW t \in Seq(S)
  PROVE  /\ <<h>> \o t # <<>> /\ Head(<<h>> \o t) = h /\ Tail(<<h>> \o t) = t
         /\ <<h>> \o t \in Seq(S \cup {h})
<1>1. t \in Seq(S \cup {h}) /\ <<h>> \in Seq(S \cup {h}) /\ Len(<<h>>) = 1 /\ <<h>>[1] = h
  OBVIOUS
<1> DEFINE u == <<h>> \o t
<1>2. u \in Seq(S \cup {h}) /\ Len(u) = 1 + Len(t) /\ u[1] = h /\ \A i \in 1 .. Len(t) : u[1 + i] = t[i]
  BY <1>1, ConcatFacts
<1>3. Len(t) \in Nat
  OBVIOUS
<1> HIDE DEF u
<1>4. u # <<>> /\ Head(u) = h
  BY <1>2, <1>3
<1>5. Tail(u) = t
  <2>1. Tail(u) \in Seq(S \cup {h}) /\ Len(Tail(u)) = Len(u) - 1
    BY <1>2, <1>3
  <2>2. Len(u) - 1 = Len(t)
    BY <1>2, <1>3
  <2>3. \A i \in 1 .. Len(t) : Tail(u)[i] = u[i + 1]
    BY <1>2, <1>3
  <2>4. \A i \in 1 .. Len(t) : Tail(u)[i] = t[i]
    <3>1. \A i \in 1 .. Len(t) : i + 1 = 1 + i
      BY <1>3
    <3> QED BY <2>3, <3>1, <1>2
  <2> QED BY <2>1, <2>2, <2>4, <1>1
<1> QED BY <1>2, <1>4, <1>5 DEF u

LEMMA TodoFacts ==
  ASSUME NEW t, TodoOK(t), t # <<>>
  PROVE  /\ Head(t) \in PlainSteps \cup BoundSteps
         /\ Tail(t) \in Seq(PlainSteps)
         /\ Head(t) \in PlainSteps => t \in Seq(PlainSteps)
<1>1. t \in Seq(PlainSteps \cup BoundSteps) /\ Tail(t) \in Seq(PlainSteps)
  BY DEF TodoOK
<1>2. Head(t) \in PlainSteps \cup BoundSteps /\ t = <<Head(t)>> \o Tail(t)
  BY <1>1, TailFacts
<1>3. ASSUME Head(t) \in PlainSteps PROVE t \in Seq(PlainSteps)
  <2>1. <<Head(t)>> \o Tail(t) \in Seq(PlainSteps \cup {Head(t)})
    BY <1>1, TodoPush
  <2>2. PlainSteps \cup {Head(t)} = PlainSteps
    BY <1>3
  <2> QED BY <2>1, <2>2, <1>2
<1> QED BY <1>1, <1>2, <1>3

LEMMA PlainTodo ==
  ASSUME NEW t \in Seq(PlainSteps)
  PROVE  TodoOK(t) /\ (t # <<>> => Head(t) \in PlainSteps)
<1>1. t # <<>> => Head(t) \in PlainSteps /\ Tail(t) \in Seq(PlainSteps)
  BY TailFacts
<1>2. t \in Seq(PlainSteps \cup BoundSteps)
  OBVIOUS
<1> QED BY <1>1, <1>2 DEF TodoOK

LEMMA BoundTodo ==
  ASSUME NEW h \in BoundSteps, NEW t \in Seq(PlainSteps)
  PROVE  TodoOK(<<h>> \o t) /\ <<h>> \o t # <<>> /\ Head(<<h>> \o t) = h
<1>1. /\ <<h>> \o t # <<>> /\ Head(<<h>> \o t) = h /\ Tail(<<h>> \o t) = t
      /\ <<h>> \o t \in Seq(PlainSteps \cup {h})
  BY TodoPush
<1> DEFINE u == <<h>> \o t
<1>2. u \in Seq(PlainSteps \cup {h}) /\ Tail(u) = t
  BY <1>1
<1> HIDE DEF u
<1>3. u \in Seq(PlainSteps \cup BoundSteps)
  BY <1>2
<1>4. TodoOK(u)
  BY <1>2, <1>3 DEF TodoOK
<1> QED BY <1>1, <1>4 DEF u

\* A job whose list has only plain steps.
PlainJob == JobShape /\ job.todo \in Seq(PlainSteps)

\* No plain step is one of those that rest on the state.
LEMMA PlainHead ==
  ASSUME NEW h \in PlainSteps \cup {<<"none">>}, NEW d \in Dev
  PROVE  /\ h \notin {<<"capture_ir", d>>, <<"capture_dr", d>>, <<"extest_ir", d>>,
                      <<"extest_dr", d>>, <<"idcode_dr", d>>, <<"sample_ir", d, "answer_all">>}
         /\ \A use \in Uses : h # <<"sample_dr", d, use>> /\ h # <<use, d>>
  BY DEF PlainSteps, Uses

LEMMA PlainJobOK == ASSUME PlainJob' PROVE JobOK' /\ HeadOK'
<1>1. PICK t : t = job'.todo
  OBVIOUS
<1>2. t \in Seq(PlainSteps)
  BY <1>1 DEF PlainJob
<1>3. TodoOK(t) /\ (t # <<>> => Head(t) \in PlainSteps)
  BY <1>2, PlainTodo
<1>4. PICK h : h = IF t = <<>> THEN <<"none">> ELSE Head(t)
  OBVIOUS
<1>5. h \in PlainSteps \cup {<<"none">>} /\ Head1' = h
  BY <1>1, <1>3, <1>4 DEF Head1, Ended
<1>6. HeadOK'
  BY <1>5, PlainHead DEF HeadOK
<1>7. JobOK'
  BY <1>1, <1>3 DEF JobOK, PlainJob, TodoOK
<1> QED BY <1>6, <1>7

\* The first step of a list that is not done.
LEMMA HeadFacts ==
  ASSUME JobOK, Head1 # <<"none">>
  PROVE  /\ job.todo # <<>> /\ Head(job.todo) = Head1
         /\ Tail(job.todo) \in Seq(PlainSteps)
         /\ Head1 \in PlainSteps => job.todo \in Seq(PlainSteps)
<1>1. job.todo # <<>> /\ Head(job.todo) = Head1
  BY DEF Head1, Ended
<1> QED BY <1>1, TodoFacts DEF JobOK

\* How a step leaves the list.
LEMMA GoPlain ==
  ASSUME JobOK, Head1 # <<"none">>, NEW steps \in Seq(PlainSteps), Go(steps)
  PROVE  PlainJob'
<1>1. PICK t : t = Tail(job.todo)
  OBVIOUS
<1>2. t \in Seq(PlainSteps)
  BY <1>1, HeadFacts
<1>3. steps \o t \in Seq(PlainSteps)
  BY <1>2, ConcatFacts
<1>4. job' = [job EXCEPT !.todo = steps \o t]
  BY <1>1 DEF Go, Then
<1> QED BY <1>3, <1>4 DEF PlainJob, JobShape, JobOK, Idle

LEMMA DonePlain ==
  ASSUME JobOK, Head1 # <<"none">>, Done
  PROVE  PlainJob'
<1>1. <<>> \in Seq(PlainSteps)
  OBVIOUS
<1> QED BY <1>1, GoPlain DEF Done

LEMMA ThrowPlain ==
  ASSUME JobOK, Throw
  PROVE  PlainJob'
<1>1. <<>> \in Seq(PlainSteps)
  OBVIOUS
<1> QED BY <1>1 DEF Throw, PlainJob, JobShape, JobOK, Idle

LEMMA GoBound ==
  ASSUME JobOK, Head1 # <<"none">>, NEW h \in BoundSteps, Go(<<h>>)
  PROVE  JobOK' /\ Head1' = h
<1>1. PICK t : t = Tail(job.todo)
  OBVIOUS
<1>2. t \in Seq(PlainSteps)
  BY <1>1, HeadFacts
<1>3. PICK u : u = <<h>> \o t
  OBVIOUS
<1>4. TodoOK(u) /\ u # <<>> /\ Head(u) = h
  BY <1>2, <1>3, BoundTodo
<1>5. job' = [job EXCEPT !.todo = u]
  BY <1>1, <1>3 DEF Go, Then
<1>6. job'.todo = u /\ JobShape'
  BY <1>5 DEF JobShape, JobOK, Idle
<1> QED BY <1>4, <1>6 DEF JobOK, TodoOK, Head1, Ended

\* The greatest and the least of some positions.
LEMMA Extremes ==
  ASSUME NEW n \in Nat, NEW T \in SUBSET (1 .. n), T # {}
  PROVE  /\ Max(T) \in T /\ \A y \in T : y <= Max(T)
         /\ Min(T) \in T /\ \A y \in T : Min(T) <= y
<1> DEFINE Has(S) == /\ \E x \in S : \A y \in S : x >= y
                     /\ \E x \in S : \A y \in S : x <= y
           U == {m \in Nat : \A S \in SUBSET (1 .. m) : S # {} => Has(S)}
<1>1. 0 \in U
  <2>1. \A S \in SUBSET (1 .. 0) : S = {}
    OBVIOUS
  <2> QED BY <2>1
<1>2. ASSUME NEW m \in Nat, m \in U PROVE m + 1 \in U
  <2> SUFFICES ASSUME NEW S \in SUBSET (1 .. m + 1), S # {} PROVE Has(S)
    OBVIOUS
  <2> DEFINE R == S \ {m + 1}
  <2>1. R \in SUBSET (1 .. m) /\ \A x \in S : x \in Int /\ x <= m + 1
    OBVIOUS
  <2>2. CASE R = {}
    <3>1. S = {m + 1}
      BY <2>2
    <3> QED BY <3>1
  <2>3. CASE R # {}
    <3>1. Has(R)
      BY <2>1, <2>3, <1>2
    <3>2. PICK a \in R : \A y \in R : a >= y
      BY <3>1
    <3>3. PICK b \in R : \A y \in R : b <= y
      BY <3>1
    <3>4. CASE m + 1 \in S
      <4>1. \A y \in S : m + 1 >= y
        BY <2>1
      <4>2. \A y \in S : b <= y
        <5>1. b <= m + 1
          BY <2>1, <3>3
        <5> QED BY <5>1, <3>3
      <4> QED BY <4>1, <4>2, <3>3, <3>4
    <3>5. CASE m + 1 \notin S
      <4>1. S = R
        BY <3>5
      <4> QED BY <4>1, <3>1
    <3> QED BY <3>4, <3>5
  <2> QED BY <2>2, <2>3
<1> HIDE DEF U
<1>3. Nat \subseteq U
  BY <1>1, <1>2, NatSetInduction
<1>4. Has(T)
  BY <1>3 DEF U
<1>5. Max(T) \in T /\ \A y \in T : Max(T) >= y
  BY <1>4 DEF Max
<1>6. Min(T) \in T /\ \A y \in T : Min(T) <= y
  BY <1>4 DEF Min
<1>7. \A y \in T : y \in Int
  OBVIOUS
<1> QED BY <1>5, <1>6, <1>7

LEMMA AbortPlain ==
  ASSUME JobOK, Head1 # <<"none">>, Abort
  PROVE  PlainJob'
<1>1. CASE Throw
  BY <1>1, ThrowPlain
<1>2. CASE job' = [job EXCEPT !.todo = Resume(Tail(@)), !.steps = Append(@, FALSE), !.ok = FALSE]
  <2>1. PICK t : t = Tail(job.todo)
    OBVIOUS
  <2>2. t \in Seq(PlainSteps)
    BY <2>1, HeadFacts
  <2>3. Resume(t) \in Seq(PlainSteps)
    <3> DEFINE next == {i \in 1 .. Len(t) : t[i][1] \in {"drive", "script"}}
               from == Min(next) + (IF job.tool = "suite" THEN 1 ELSE 0)
    <3>1. CASE next = {}
      <4>1. Resume(t) = <<>>
        BY <3>1 DEF Resume
      <4> QED BY <4>1
    <3>2. CASE next # {}
      <4>1. Resume(t) = SubSeq(t, from, Len(t))
        BY <3>2 DEF Resume
      <4>2. Len(t) \in Nat /\ next \in SUBSET (1 .. Len(t))
        BY <2>2
      <4>3. Min(next) \in 1 .. Len(t)
        BY <3>2, <4>2, Extremes
      <4>4. from \in Nat /\ from >= 1
        <5> HIDE DEF next
        <5> QED BY <4>2, <4>3
      <4> HIDE DEF from
      <4>5. SubSeq(t, from, Len(t)) \in Seq(PlainSteps)
        BY <4>2, <4>4, <2>2
      <4> QED BY <4>1, <4>5
    <3> QED BY <3>1, <3>2
  <2>4. PICK u : u = Resume(t)
    OBVIOUS
  <2>5. DOMAIN job' = DOMAIN job /\ job'.samples = job.samples /\ job'.todo = u
    <3>1. DOMAIN job = DOMAIN Idle
      BY DEF JobOK, JobShape
    <3>2. PICK a : a = Append(job.steps, FALSE)
      OBVIOUS
    <3>3. job' = [job EXCEPT !.todo = u, !.steps = a, !.ok = FALSE]
      BY <1>2, <2>1, <2>4, <3>2
    <3> QED BY <3>1, <3>3 DEF Idle
  <2> QED BY <2>3, <2>4, <2>5 DEF PlainJob, JobShape, JobOK
<1> QED BY <1>1, <1>2 DEF Abort

-----------------------------------------------------------------------------
(* What the scans do to the board                                          *)

LEMMA OnlyIs ==
  ASSUME NEW d \in Dev, NEW i \in Instructions
  PROVE  /\ Only(d, i) \in [Dev -> Kinds]
         /\ Only(d, i)[d] = i
         /\ \A e \in Dev : Only(d, i)[e] = "EXTEST" => e = d /\ i = "EXTEST"
  BY DEF Only, Kinds, Instructions

\* An instruction reaches its device, or the scan failed before it did.
LEMMA SelectStep ==
  ASSUME ChainOK, IrOK, NEW d \in Dev, InRange(d), NEW i \in Instructions,
         Board[d].live => i # "EXTEST"
  PROVE  /\ Select(d, Board[d].ops[i]) =>
              ir' = Only(d, i) /\ IrOK' /\ UNCHANGED <<devices, latch>>
         /\ SelectFails(d, Board[d].ops[i]) => IrOK' /\ UNCHANGED <<devices, latch>>
<1>1. IrAfter(IrData(d, Board[d].ops[i])) = Only(d, i)
  BY SelectIs DEF ChainOK
<1>2. ASSUME ir' = Only(d, i) PROVE IrOK'
  BY <1>2, OnlyIs DEF IrOK, NoLiveExtest
<1>3. ASSUME ir' = ir PROVE IrOK'
  BY <1>3 DEF IrOK, NoLiveExtest
<1>4. Select(d, Board[d].ops[i]) => ir' = Only(d, i) /\ UNCHANGED <<devices, latch>>
  BY <1>1 DEF Select
<1>5. SelectFails(d, Board[d].ops[i]) => ir' \in {ir, Only(d, i)} /\ UNCHANGED <<devices, latch>>
  BY <1>1 DEF SelectFails
<1> QED BY <1>2, <1>3, <1>4, <1>5

\* A scan of the data registers keeps the latches as long as the registers.
LEMMA ScanStep ==
  ASSUME LatchOK(latch), NEW d \in Dev, NEW i \in Instructions, ir = Only(d, i),
         NEW image \in Images, NEW in \in Seq(Bits),
         latch' \in {latch, DrScan(image, in).latch}
  PROVE  LatchOK(latch)'
<1>1. PICK l : l = latch'
  OBVIOUS
<1>2. LatchOK(l)
  BY <1>1, DrScanLatch
<1> QED BY <1>1, <1>2 DEF LatchOK

LEMMA SeenStep ==
  ASSUME LatchOK(seen), NEW d \in Dev, NEW image \in Images,
         seen' \in {seen, [seen EXCEPT ![d] = image[d]]}
  PROVE  LatchOK(seen)'
<1>1. image[d] \in [1 .. Len(Cells(d)) -> Bits]
  BY ImagesAssumption
<1> QED BY <1>1 DEF LatchOK

\* What a step leaves alone stays well formed.
LEMMA BoardFrame ==
  ASSUME BoardOK
  PROVE  /\ UNCHANGED devices => /\ ChainOK'
                                 /\ UNCHANGED scanners => ScannersOK'
                                 /\ UNCHANGED drivers => DriversOK'
         /\ UNCHANGED ir => IrOK'
         /\ UNCHANGED <<latch, seen>> => LatchesOK'
<1>1. UNCHANGED devices => ChainOK'
  BY DEF BoardOK, ChainOK
<1>2. ASSUME UNCHANGED devices, UNCHANGED scanners PROVE ScannersOK'
  BY <1>2 DEF BoardOK, ScannersOK, InRange
<1>3. ASSUME UNCHANGED devices, UNCHANGED drivers PROVE DriversOK'
  BY <1>3 DEF BoardOK, DriversOK, InRange, Ready
<1>4. UNCHANGED ir => IrOK'
  BY DEF BoardOK, IrOK, NoLiveExtest
<1>5. UNCHANGED <<latch, seen>> => LatchesOK'
  BY DEF BoardOK, LatchesOK, LatchOK
<1> QED BY <1>1, <1>2, <1>3, <1>4, <1>5

\* A scanner changes its filter or its error, a pin driver its buffer.
LEMMA ScannerStep ==
  ASSUME BoardOK, UNCHANGED devices, NEW d \in Dev, NEW f \in Filters \cup {{}}, NEW e,
         scanners' \in {[scanners EXCEPT ![d].filter = f], [scanners EXCEPT ![d].error = e]}
  PROVE  ScannersOK'
  BY DEF BoardOK, ScannersOK, InRange, NoScanner

LEMMA DriverStep ==
  ASSUME BoardOK, UNCHANGED devices, NEW d \in Dev, Ready(d),
         NEW bsr \in [1 .. Len(Cells(d)) -> Bits],
         drivers' = [drivers EXCEPT ![d].bsr = bsr]
  PROVE  DriversOK'
  BY DEF BoardOK, DriversOK, InRange, Ready, NoDriver

-----------------------------------------------------------------------------
(* The boundary register                                                   *)

\* The cells of a pin are positions of the register.
LEMMA CellFacts ==
  ASSUME NEW d \in Dev, NEW p
  PROVE  /\ InputCells(Cells(d), p) # {} =>
              /\ Max(InputCells(Cells(d), p)) \in InputCells(Cells(d), p)
              /\ Max(InputCells(Cells(d), p)) \in 1 .. Len(Cells(d))
         /\ OutputCells(Cells(d), p) # {} =>
              /\ Min(OutputCells(Cells(d), p)) \in OutputCells(Cells(d), p)
              /\ Min(OutputCells(Cells(d), p)) \in 1 .. Len(Cells(d))
<1>1. Len(Cells(d)) \in Nat
  BY DeviceFacts
<1>2. /\ InputCells(Cells(d), p) \in SUBSET (1 .. Len(Cells(d)))
      /\ OutputCells(Cells(d), p) \in SUBSET (1 .. Len(Cells(d)))
  BY DEF InputCells, OutputCells
<1> QED BY <1>1, <1>2, Extremes

\* setBit() inside the register
LEMMA SetBitIs ==
  ASSUME NEW m \in Nat, NEW buf \in [1 .. m -> Bits], NEW pos \in 1 .. m, NEW bit \in Bits
  PROVE  SetBit(buf, pos, bit) = [buf EXCEPT ![pos] = bit]
<1>1. Len(buf) = m /\ buf = [i \in 1 .. m |-> buf[i]]
  OBVIOUS
<1>2. SetBit(buf, pos, bit) = [i \in 1 .. m |-> IF i = pos THEN bit ELSE buf[i]]
  BY <1>1 DEF SetBit
<1> QED BY <1>1, <1>2

\* stagePinOutput() and stagePinHighZ(): a value that can be staged is staged,
\* whatever control cell it goes through.
LEMMA StageIs ==
  ASSUME NEW d \in Dev, NEW bsr \in [1 .. Len(Cells(d)) -> Bits], NEW p, NEW v \in -1 .. 1,
         Stage(bsr, Cells(d), p, v) # <<>>
  PROVE  /\ Stage(bsr, Cells(d), p, v) \in [1 .. Len(Cells(d)) -> Bits]
         /\ Stage(bsr, Cells(d), p, v) # <<>>
         /\ OutputCells(Cells(d), p) # {}
         /\ GetStagedPinValue(Stage(bsr, Cells(d), p, v), Cells(d), p) = v
<1> DEFINE m == Len(Cells(d))
           out == Min(OutputCells(Cells(d), p))
           ctl == Cells(d)[out].disabled_by
           off == Cells(d)[out].disable_value
           S == Stage(bsr, Cells(d), p, v)
<1>1. m \in Nat /\ m >= 1
  BY DeviceFacts
<1>2. OutputCells(Cells(d), p) # {}
  BY DEF Stage, CanHighZ
<1>3. out \in 1 .. m
  BY <1>2, CellFacts
<1>4. ctl # 0 => ctl \in 1 .. m /\ ctl # out /\ off \in Bits
  BY <1>3, CellsAssumption
<1>5. GetStagedPinValue(S, Cells(d), p) =
        IF ctl # 0 /\ (IF GetBit(S, ctl) THEN 1 ELSE 0) = off THEN -1
        ELSE IF GetBit(S, out) THEN 1 ELSE 0
  BY <1>2 DEF GetStagedPinValue, Output
<1>6. ASSUME NEW buf \in [1 .. m -> Bits], NEW i \in 1 .. m
      PROVE  (IF GetBit(buf, i) THEN 1 ELSE 0) = buf[i]
  <2>1. Len(buf) = m /\ buf[i] \in Bits
    BY <1>1
  <2> QED BY <2>1 DEF GetBit, Bits
<1>7. CASE v < 0
  <2>1. S = SetBit(bsr, ctl, IF off = 0 THEN 0 ELSE 1) /\ ctl # 0 /\ v = -1
    BY <1>7 DEF Stage, StagePinHighZ, CanHighZ, Output
  <2>2. (IF off = 0 THEN 0 ELSE 1) = off
    BY <1>4, <2>1 DEF Bits
  <2> HIDE DEF m, out, ctl, off, S
  <2>3. S = [bsr EXCEPT ![ctl] = off] /\ off \in Bits /\ ctl \in 1 .. m
    <3>1. bsr \in [1 .. m -> Bits]
      BY DEF m
    <3>2. ctl \in 1 .. m /\ off \in Bits
      BY <1>4, <2>1
    <3>3. SetBit(bsr, ctl, off) = [bsr EXCEPT ![ctl] = off]
      BY <3>1, <3>2, <1>1, SetBitIs
    <3>4. S = SetBit(bsr, ctl, off)
      BY <2>1, <2>2
    <3> QED BY <3>2, <3>3, <3>4
  <2>4. S \in [1 .. m -> Bits] /\ S[ctl] = off
    <3>1. bsr \in [1 .. m -> Bits]
      BY DEF m
    <3> QED BY <3>1, <2>3
  <2>5. (IF GetBit(S, ctl) THEN 1 ELSE 0) = off
    BY <1>6, <2>3, <2>4
  <2> QED BY <1>1, <1>2, <1>5, <2>1, <2>4, <2>5 DEF m, S
<1>8. CASE ~(v < 0)
  <2> DEFINE set == SetBit(bsr, out, v)
             on == IF off = 0 THEN 1 ELSE 0
  <2>1. v \in Bits
    BY <1>8 DEF Bits
  <2>2. S = IF ctl = 0 THEN set ELSE SetBit(set, ctl, on)
    BY <1>8, <1>2 DEF Stage, StagePinOutput, Output
  <2> HIDE DEF m, out, ctl, off, S
  <2>3. set \in [1 .. m -> Bits] /\ set[out] = v
    <3>1. bsr \in [1 .. m -> Bits]
      BY DEF m
    <3>2. set = [bsr EXCEPT ![out] = v]
      BY <3>1, <1>1, <1>3, <2>1, SetBitIs
    <3> QED BY <3>1, <3>2, <1>3, <2>1
  <2> HIDE DEF set
  <2>4. CASE ctl = 0
    <3>1. S = set /\ (IF GetBit(S, out) THEN 1 ELSE 0) = v
      BY <2>2, <2>3, <2>4, <1>3, <1>6
    <3> QED BY <1>1, <1>2, <1>5, <2>3, <2>4, <3>1 DEF m, S
  <2>5. CASE ctl # 0
    <3>1. on \in Bits /\ on # off
      BY <1>4, <2>5 DEF Bits
    <3> HIDE DEF on
    <3>2. S = [set EXCEPT ![ctl] = on] /\ ctl \in 1 .. m /\ ctl # out
      <4>1. ctl \in 1 .. m /\ ctl # out
        BY <1>4, <2>5
      <4>2. SetBit(set, ctl, on) = [set EXCEPT ![ctl] = on]
        BY <4>1, <2>3, <3>1, <1>1, SetBitIs
      <4>3. S = SetBit(set, ctl, on)
        BY <2>2, <2>5 DEF on
      <4> QED BY <4>1, <4>2, <4>3
    <3>3. S \in [1 .. m -> Bits] /\ S[ctl] = on /\ S[out] = v
      BY <3>1, <3>2, <2>3, <1>3
    <3>4. (IF GetBit(S, ctl) THEN 1 ELSE 0) = on /\ (IF GetBit(S, out) THEN 1 ELSE 0) = v
      BY <3>2, <3>3, <1>3, <1>6
    <3> QED BY <1>1, <1>2, <1>5, <3>1, <3>3, <3>4 DEF m, S
  <2> QED BY <2>4, <2>5
<1> QED BY <1>7, <1>8

\* applyBsrSnapshot() and initBsrFromSafe() fill the register.
LEMMA SnapshotIs ==
  ASSUME NEW d \in Dev, NEW raw
  PROVE  /\ ApplyBsrSnapshot(Cells(d), raw) \in [1 .. Len(Cells(d)) -> Bits]
         /\ InitBsrFromSafeValues(Cells(d)) \in [1 .. Len(Cells(d)) -> Bits]
  BY DEF ApplyBsrSnapshot, InitBsrFromSafeValues, Bits

\* decodeBoundaryScan() after a partial read: the positions read include the
\* cell of every pin that is kept.
LEMMA DecodeScanIs ==
  ASSUME NEW d \in Dev, NEW filter, NEW image \in Images, NEW p \in ObservablePins(Cells(d))
  PROVE  LET partial == MaxNeededBsrBits(Cells(d), filter)
             raw == [k \in 1 .. ReadLen(d, partial) |-> image[d][k]]
         IN  /\ partial \in Nat
             /\ GetPin(DecodeBoundaryScan(Cells(d), filter, raw), p) =
                  IF filter = {} \/ p \in filter
                  THEN IF image[d][PinCell(d, p)] = 1 THEN "high" ELSE "low" ELSE "unknown"
<1> DEFINE m == Len(Cells(d))
           wanted == {i \in 1 .. Len(Cells(d)) : hasPin(Cells(d)[i]) /\ Cells(d)[i].pin \in filter}
           partial == MaxNeededBsrBits(Cells(d), filter)
           len == ReadLen(d, partial)
           raw == [k \in 1 .. len |-> image[d][k]]
           c == PinCell(d, p)
<1>1. m \in Nat /\ m >= 1
  BY DeviceFacts
<1>2. c \in 1 .. m /\ Cells(d)[c].pin = p /\ hasPin(Cells(d)[c]) /\ c = DecodedCell(Cells(d), p)
  <2>1. c = DecodedCell(Cells(d), p)
    BY DEF PinCell, DecodedCell
  <2>2. InputCells(Cells(d), p) # {} \/ OutputCells(Cells(d), p) # {}
    BY DEF ObservablePins, InputCells, OutputCells
  <2>3. c \in InputCells(Cells(d), p) \cup OutputCells(Cells(d), p)
    BY <2>2, CellFacts DEF PinCell
  <2>4. c \in 1 .. m /\ Cells(d)[c].pin = p
    BY <2>3 DEF InputCells, OutputCells
  <2>5. p # NoPin
    BY DEF ObservablePins, hasPin
  <2> QED BY <2>1, <2>4, <2>5 DEF hasPin
<1>3. partial \in Nat /\ (partial = 0 \/ \A i \in wanted : i <= partial) /\ (wanted = {} => partial = 0)
      /\ partial <= m
  <2>1. wanted \in SUBSET (1 .. m)
    OBVIOUS
  <2>2. partial = IF wanted = {} THEN 0 ELSE Max(wanted)
    BY DEF MaxNeededBsrBits
  <2> HIDE DEF m, wanted, partial
  <2>3. wanted # {} => Max(wanted) \in 1 .. m /\ \A i \in wanted : i <= Max(wanted)
    BY <2>1, <1>1, Extremes
  <2> QED BY <2>2, <2>3, <1>1
<1>4. len = IF partial > 0 /\ partial < m THEN partial ELSE m
  BY DEF ReadLen, Cells
<1>5. filter = {} => wanted = {}
  OBVIOUS
<1>6. p \in filter => c \in wanted
  BY <1>2
<1>7. DecodeBoundaryScan(Cells(d), filter, raw) =
        [q \in {q \in ObservablePins(Cells(d)) : raw # <<>> /\ (filter = {} \/ q \in filter)} |->
           IF GetBit(raw, DecodedCell(Cells(d), q)) THEN "high" ELSE "low"]
  BY DEF DecodeBoundaryScan
<1> HIDE DEF m, wanted, partial, len, c
<1>8. len \in 1 .. m /\ (filter = {} \/ p \in filter => c <= len)
  BY <1>1, <1>2, <1>3, <1>4, <1>5, <1>6
<1>9. raw # <<>> /\ Len(raw) = len /\ \A k \in 1 .. len : raw[k] = image[d][k]
  <2>1. len \in Nat /\ len >= 1
    BY <1>1, <1>8
  <2>2. Len(raw) = len
    BY <2>1
  <2> QED BY <2>1, <2>2
<1> HIDE DEF raw
<1>10. CASE filter = {} \/ p \in filter
  <2>1. GetPin(DecodeBoundaryScan(Cells(d), filter, raw), p) =
          IF GetBit(raw, c) THEN "high" ELSE "low"
    BY <1>2, <1>7, <1>9, <1>10 DEF GetPin
  <2>2. GetBit(raw, c) <=> image[d][c] = 1
    BY <1>2, <1>8, <1>9, <1>10 DEF GetBit
  <2> QED BY <1>3, <1>10, <2>1, <2>2 DEF partial, raw, len, c
<1>11. CASE ~(filter = {} \/ p \in filter)
  <2>1. GetPin(DecodeBoundaryScan(Cells(d), filter, raw), p) = "unknown"
    BY <1>7, <1>11 DEF GetPin
  <2> QED BY <1>3, <1>11, <2>1 DEF partial, raw, len, c
<1> QED BY <1>10, <1>11

-----------------------------------------------------------------------------
(* The invariant is inductive: calls, and steps that only touch the job    *)

LEMMA PlainIs ==
  /\ {<<"detect">>, <<"wrong">>} \subseteq PlainSteps
  /\ \A d \in Dev :
       /\ {<<"scanner", d>>, <<"driver", d>>, <<"script", d>>, <<"idcode_ir", d>>, <<"sample_all", d>>,
           <<"load", d>>, <<"apply", d>>, <<"safe", d>>} \subseteq PlainSteps
       /\ \A use \in {"answer", "sampled", "keep"} : <<"sample_ir", d, use>> \in PlainSteps
       /\ \A f \in Filters : <<"capture", d, f>> \in PlainSteps
       /\ \A p \in Pins, v \in -1 .. 1 : <<"stage", d, p, v>> \in PlainSteps
       /\ \A p \in Pins, v \in ExpectedValues : <<"expect", d, p, v>> \in PlainSteps
       /\ \A net \in Nets, v \in 0 .. 1 : <<"try_stage", d, net.driver[2], v>> \in PlainSteps
  /\ \A d \in SampledDevices : <<"sample_ir", d, "keep">> \in PlainSteps
  /\ \A net \in Nets, v \in 0 .. 1 :
       {<<"drive", net, v>>, <<"observe", net, v>>, <<"check", net, v>>} \subseteq PlainSteps
<1>1. {<<"detect">>, <<"wrong">>} \subseteq PlainSteps
  BY DEF PlainSteps
<1>2. ASSUME NEW d \in Dev
      PROVE {<<"scanner", d>>, <<"driver", d>>, <<"script", d>>, <<"idcode_ir", d>>, <<"sample_all", d>>,
             <<"load", d>>, <<"apply", d>>, <<"safe", d>>} \subseteq PlainSteps
  BY DEF PlainSteps
<1>3. ASSUME NEW d \in SampledDevices, NEW use \in {"answer", "sampled", "keep"}
      PROVE <<"sample_ir", d, use>> \in PlainSteps
  BY DEF PlainSteps
<1>4. Dev \subseteq SampledDevices
  BY DEF SampledDevices
<1>5. ASSUME NEW d \in Dev, NEW f \in Filters PROVE <<"capture", d, f>> \in PlainSteps
  BY DEF PlainSteps
<1>6. ASSUME NEW d \in Dev, NEW p \in Pins, NEW v \in -1 .. 1 PROVE <<"stage", d, p, v>> \in PlainSteps
  BY DEF PlainSteps
<1>7. ASSUME NEW d \in Dev, NEW p \in Pins, NEW v \in ExpectedValues
      PROVE <<"expect", d, p, v>> \in PlainSteps
  BY DEF PlainSteps
<1>8. ASSUME NEW d \in Dev, NEW net \in Nets, NEW v \in 0 .. 1
      PROVE <<"try_stage", d, net.driver[2], v>> \in PlainSteps
  BY DEF PlainSteps
<1>9. ASSUME NEW net \in Nets, NEW v \in 0 .. 1
      PROVE {<<"drive", net, v>>, <<"observe", net, v>>, <<"check", net, v>>} \subseteq PlainSteps
  BY DEF PlainSteps
<1> QED BY <1>1, <1>2, <1>3, <1>4, <1>5, <1>6, <1>7, <1>8, <1>9

LEMMA PlainEnd ==
  ASSUME BoardOK', PlainJob'
  PROVE  ToolsInv'
  BY PlainJobOK DEF ToolsInv

LEMMA JobOnly ==
  ASSUME ToolsInv, PlainJob', UNCHANGED <<devices, ir, latch, scanners, drivers, seen>>
  PROVE  ToolsInv'
<1>1. BoardOK
  BY DEF ToolsInv
<1>2. BoardOK'
  BY <1>1, BoardFrame DEF BoardOK
<1> QED BY <1>2, PlainEnd

LEMMA BeginInv ==
  ASSUME ToolsInv, NEW tool, NEW d, NEW p, NEW v, NEW todo \in Seq(PlainSteps),
         BeginPin(tool, d, p, v, todo)
  PROVE  ToolsInv'
<1>1. job' = [Idle EXCEPT !.tool = tool, !.dev = d, !.pin = p, !.value = v, !.todo = todo]
  BY DEF BeginPin
<1>2. DOMAIN Idle.samples = Dev
  BY DEF Idle
<1>3. PlainJob'
  BY <1>1, <1>2 DEF PlainJob, JobShape, Idle
<1> QED BY <1>3, JobOnly DEF BeginPin

\* The steps a new job may be given.
FirstSteps == {s \in PlainSteps : s[1] # "check"}
Begun == \E tool, d, p, v : \E todo \in Seq(FirstSteps) : BeginPin(tool, d, p, v, todo)

LEMMA FirstIs ==
  /\ <<"detect">> \in FirstSteps
  /\ \A d \in Dev :
       /\ {<<"scanner", d>>, <<"driver", d>>, <<"script", d>>, <<"idcode_ir", d>>, <<"sample_all", d>>,
           <<"load", d>>, <<"apply", d>>, <<"sample_ir", d, "answer">>} \subseteq FirstSteps
       /\ \A f \in Filters : <<"capture", d, f>> \in FirstSteps
       /\ \A p \in Pins, v \in -1 .. 1 : <<"stage", d, p, v>> \in FirstSteps
  /\ \A net \in Nets, v \in 0 .. 1 : <<"drive", net, v>> \in FirstSteps
<1>1. \A s \in PlainSteps : s[1] # "check" => s \in FirstSteps
  BY DEF FirstSteps
<1>2. <<"detect">> \in FirstSteps
  BY <1>1, PlainIs
<1>3. ASSUME NEW d \in Dev
      PROVE {<<"scanner", d>>, <<"driver", d>>, <<"script", d>>, <<"idcode_ir", d>>, <<"sample_all", d>>,
             <<"load", d>>, <<"apply", d>>, <<"sample_ir", d, "answer">>} \subseteq FirstSteps
  BY <1>1, PlainIs
<1>4. ASSUME NEW d \in Dev, NEW f \in Filters PROVE <<"capture", d, f>> \in FirstSteps
  BY <1>1, PlainIs
<1>5. ASSUME NEW d \in Dev, NEW p \in Pins, NEW v \in -1 .. 1 PROVE <<"stage", d, p, v>> \in FirstSteps
  BY <1>1, PlainIs
<1>6. ASSUME NEW net \in Nets, NEW v \in 0 .. 1 PROVE <<"drive", net, v>> \in FirstSteps
  BY <1>1, PlainIs
<1> QED BY <1>2, <1>3, <1>4, <1>5, <1>6

LEMMA CallList == ASSUME Call PROVE Begun
<1>0. \A S : \A a, b, c, e \in S : /\ <<a>> \in Seq(S) /\ <<a, b>> \in Seq(S)
                                   /\ <<a, b, c>> \in Seq(S) /\ <<a, b, c, e>> \in Seq(S)
  OBVIOUS
<1>7. ASSUME NEW tool, NEW d, NEW p, NEW v, NEW todo \in Seq(FirstSteps), BeginPin(tool, d, p, v, todo)
      PROVE Begun
  BY <1>7 DEF Begun
<1>1. ASSUME DetectDevices PROVE Begun
  <2>1. << <<"detect">> >> \in Seq(FirstSteps)
    BY FirstIs, <1>0
  <2> QED BY <1>1, <2>1, <1>7 DEF DetectDevices, Begin
<1>2. ASSUME NEW d \in Dev, \/ LoadBsdlFile(d) \/ ListPins(d) \/ SampleBsr(d) \/ ReadIdCode(d)
                            \/ RunScript(d) \/ RunSuite(d)
      PROVE Begun
  <2>1. /\ << <<"load", d>> >> \in Seq(FirstSteps)
        /\ << <<"scanner", d>> >> \in Seq(FirstSteps)
        /\ << <<"scanner", d>>, <<"sample_all", d>> >> \in Seq(FirstSteps)
        /\ << <<"scanner", d>>, <<"idcode_ir", d>> >> \in Seq(FirstSteps)
        /\ << <<"scanner", d>>, <<"driver", d>>, <<"script", d>> >> \in Seq(FirstSteps)
        /\ << <<"scanner", d>>, <<"driver", d>>, <<"script", d>>, <<"script", d>> >> \in Seq(FirstSteps)
    BY FirstIs, <1>0
  <2> QED BY <1>2, <2>1, <1>7 DEF LoadBsdlFile, ListPins, SampleBsr, ReadIdCode, RunScript, RunSuite, Begin
<1>3. ASSUME NEW d \in Dev, NEW p \in Pins, ReadPin(d, p) PROVE Begun
  <2>1. << <<"scanner", d>> >> \o Sampling(d, "answer") \in Seq(FirstSteps)
    <3>1. << <<"scanner", d>> >> \in Seq(FirstSteps) /\ << <<"sample_ir", d, "answer">> >> \in Seq(FirstSteps)
      BY FirstIs, <1>0
    <3> QED BY <3>1, ConcatFacts DEF Sampling
  <2> QED BY <1>3, <2>1, <1>7 DEF ReadPin
<1>4. ASSUME NEW d \in Dev, NEW p \in Pins, NEW v \in -1 .. 1, SetPin(d, p, v) PROVE Begun
  <2>1. << <<"driver", d>>, <<"stage", d, p, v>> >> \o Applying(d) \in Seq(FirstSteps)
    <3>1. << <<"driver", d>>, <<"stage", d, p, v>> >> \in Seq(FirstSteps) /\ << <<"apply", d>> >> \in Seq(FirstSteps)
      BY FirstIs, <1>0
    <3> QED BY <3>1, ConcatFacts DEF Applying
  <2> QED BY <1>4, <2>1, <1>7 DEF SetPin
<1>5. ASSUME NEW d \in Dev, NEW f \in Filters, CaptureStart(d, f) PROVE Begun
  <2>1. << <<"scanner", d>>, <<"capture", d, f>> >> \in Seq(FirstSteps)
    BY FirstIs, <1>0
  <2> QED BY <1>5, <2>1, <1>7 DEF CaptureStart, Begin
<1>6. ASSUME NEW net \in Nets, RunInterconnectTest(net) PROVE Begun
  <2> DEFINE x == [d \in Dev |-> IF Ready(d) THEN << <<"scanner", d>>, <<"driver", d>> >> ELSE <<>>]
             y == << <<"drive", net, 0>>, <<"drive", net, 1>> >>
  <2>1. \A d \in Dev : x[d] \in Seq(FirstSteps)
    <3>1. ASSUME NEW d \in Dev PROVE << <<"scanner", d>>, <<"driver", d>> >> \in Seq(FirstSteps)
      BY FirstIs, <1>0
    <3>2. <<>> \in Seq(FirstSteps)
      OBVIOUS
    <3> QED BY <3>1, <3>2
  <2>2. x \in Seq(Seq(FirstSteps))
    <3>1. x \in [1 .. Len(Board) -> Seq(FirstSteps)]
      BY <2>1 DEF Dev
    <3> HIDE DEF x
    <3> QED BY <3>1, BoardAssumption, IsSeq
  <2>3. y \in Seq(FirstSteps)
    <3>1. 0 \in 0 .. 1 /\ 1 \in 0 .. 1
      OBVIOUS
    <3>2. <<"drive", net, 0>> \in FirstSteps /\ <<"drive", net, 1>> \in FirstSteps
      BY <3>1, FirstIs
    <3> QED BY <3>2, <1>0
  <2> HIDE DEF x, y
  <2>4. FlattenSeq(x) \o y \in Seq(FirstSteps)
    BY <2>2, <2>3, FlattenFacts, ConcatFacts
  <2> QED BY <1>6, <2>4, <1>7 DEF RunInterconnectTest, Begin, x, y
<1> QED BY <1>1, <1>2, <1>3, <1>4, <1>5, <1>6 DEF Call

LEMMA CallInv == ASSUME ToolsInv, Call PROVE ToolsInv'
<1>1. PICK tool, d, p, v : \E todo \in Seq(FirstSteps) : BeginPin(tool, d, p, v, todo)
  BY CallList DEF Begun
<1>2. PICK todo \in Seq(FirstSteps) : BeginPin(tool, d, p, v, todo)
  BY <1>1
<1>3. todo \in Seq(PlainSteps)
  BY DEF FirstSteps
<1> QED BY <1>2, <1>3, BeginInv

\* The steps that end in a plain list and touch nothing but the job.
LEMMA AnswerSampleInv == ASSUME ToolsInv, AnswerSample PROVE ToolsInv'
<1>1. JobOK /\ Head1 # <<"none">> /\ (Done \/ Throw)
  BY DEF AnswerSample, ToolsInv
<1>2. PlainJob'
  BY <1>1, DonePlain, ThrowPlain
<1> QED BY <1>2, JobOnly DEF AnswerSample

LEMMA WrongInv == ASSUME ToolsInv, Wrong PROVE ToolsInv'
<1>1. JobOK /\ Head1 # <<"none">> /\ Abort
  BY DEF Wrong, ToolsInv
<1>2. PlainJob'
  BY <1>1, AbortPlain
<1> QED BY <1>2, JobOnly DEF Wrong

LEMMA ExpectInv == ASSUME ToolsInv, Expect PROVE ToolsInv'
<1>1. JobOK /\ Head1 # <<"none">> /\ (Done \/ Abort)
  BY DEF Expect, ToolsInv
<1>2. PlainJob'
  BY <1>1, AbortPlain, DonePlain
<1> QED BY <1>2, JobOnly DEF Expect

\* Steps put before a list of plain steps.
LEMMA PrependPlain ==
  ASSUME JobOK, job.todo \in Seq(PlainSteps), NEW steps \in Seq(PlainSteps),
         job' = [job EXCEPT !.todo = steps \o @]
  PROVE  PlainJob'
<1>1. PICK u : u = steps \o job.todo
  OBVIOUS
<1>2. u \in Seq(PlainSteps)
  BY <1>1, ConcatFacts
<1>3. DOMAIN job' = DOMAIN job /\ job'.samples = job.samples /\ job'.todo = u
  BY <1>1 DEF JobOK, JobShape, Idle
<1> QED BY <1>2, <1>3 DEF PlainJob, JobShape, JobOK

LEMMA CommandIs ==
  ASSUME NEW d \in Dev, NEW c \in Command(d)
  PROVE  c \in Seq(PlainSteps)
<1>0. \A S : \A a, b \in S : <<a>> \in Seq(S)
  OBVIOUS
<1>1. /\ Sampling(d, "sampled") \in Seq(PlainSteps) /\ Applying(d) \in Seq(PlainSteps)
      /\ << <<"safe", d>> >> \in Seq(PlainSteps) /\ << <<"wrong">> >> \in Seq(PlainSteps)
  BY <1>0, PlainIs DEF Sampling, Applying
<1>2. << <<"safe", d>> >> \o Applying(d) \in Seq(PlainSteps)
  BY <1>1, ConcatFacts
<1>3. ASSUME NEW p \in Pins, NEW v \in DriveValues PROVE << <<"stage", d, p, v>> >> \in Seq(PlainSteps)
  BY <1>0, PlainIs DEF DriveValues
<1>4. ASSUME NEW p \in Pins, NEW v \in ExpectedValues
      PROVE Sampling(d, "sampled") \o << <<"expect", d, p, v>> >> \in Seq(PlainSteps)
  <2>1. << <<"expect", d, p, v>> >> \in Seq(PlainSteps)
    BY <1>0, PlainIs
  <2> QED BY <1>1, <2>1, ConcatFacts
<1>5. \/ c \in {Sampling(d, "sampled"), Applying(d), << <<"safe", d>> >> \o Applying(d), << <<"wrong">> >>}
      \/ \E p \in Pins, v \in DriveValues : c = << <<"stage", d, p, v>> >>
      \/ \E p \in Pins, v \in ExpectedValues : c = Sampling(d, "sampled") \o << <<"expect", d, p, v>> >>
  <2> DEFINE A == {Sampling(d, "sampled"), Applying(d), << <<"safe", d>> >> \o Applying(d), << <<"wrong">> >>}
             St(p, v) == << <<"stage", d, p, v>> >>
             Ex(p, v) == Sampling(d, "sampled") \o << <<"expect", d, p, v>> >>
  <2>1. Command(d) = (A \cup {St(p, v) : p \in Pins, v \in DriveValues})
                       \cup {Ex(p, v) : p \in Pins, v \in ExpectedValues}
    BY DEF Command
  <2>2. c \in Command(d)
    OBVIOUS
  <2> HIDE DEF A, St, Ex
  <2>3. c \in A \/ (\E p \in Pins, v \in DriveValues : c = St(p, v))
          \/ (\E p \in Pins, v \in ExpectedValues : c = Ex(p, v))
    BY <2>1, <2>2
  <2> QED BY <2>3 DEF A, St, Ex
<1>6. CASE c \in {Sampling(d, "sampled"), Applying(d), << <<"safe", d>> >> \o Applying(d), << <<"wrong">> >>}
  BY <1>1, <1>2, <1>6
<1>7. CASE \E p \in Pins, v \in DriveValues : c = << <<"stage", d, p, v>> >>
  BY <1>3, <1>7
<1>8. CASE \E p \in Pins, v \in ExpectedValues : c = Sampling(d, "sampled") \o << <<"expect", d, p, v>> >>
  BY <1>4, <1>8
<1> QED BY <1>5, <1>6, <1>7, <1>8

LEMMA ScriptInv == ASSUME ToolsInv, Script PROVE ToolsInv'
<1>1. PICK d \in Dev : /\ Head1 = <<"script", d>>
                       /\ \/ \E c \in Command(d) : job' = [job EXCEPT !.todo = c \o @]
                          \/ job' = [job EXCEPT !.todo = Tail(@), !.steps = Append(@, TRUE)]
                       /\ UNCHANGED <<devices, chain_error, ir, latch, scanners, drivers, seen>>
  BY DEF Script
<1>2. JobOK /\ Head1 # <<"none">> /\ Head1 \in PlainSteps
  BY <1>1, PlainIs DEF ToolsInv
<1>3. job.todo \in Seq(PlainSteps) /\ Tail(job.todo) \in Seq(PlainSteps)
  BY <1>2, HeadFacts
<1>4. ASSUME NEW c \in Command(d), job' = [job EXCEPT !.todo = c \o @] PROVE PlainJob'
  BY <1>2, <1>3, <1>4, CommandIs, PrependPlain
<1>5. ASSUME job' = [job EXCEPT !.todo = Tail(@), !.steps = Append(@, TRUE)] PROVE PlainJob'
  <2>1. PICK t, a : t = Tail(job.todo) /\ a = Append(job.steps, TRUE)
    OBVIOUS
  <2>2. job' = [job EXCEPT !.todo = t, !.steps = a]
    BY <1>5, <2>1
  <2>3. DOMAIN job' = DOMAIN job /\ job'.samples = job.samples /\ job'.todo = t
    BY <1>2, <2>2 DEF JobOK, JobShape, Idle
  <2> QED BY <1>2, <1>3, <2>1, <2>3 DEF PlainJob, JobShape, JobOK
<1>6. PlainJob'
  BY <1>1, <1>4, <1>5
<1> QED BY <1>1, <1>6, JobOnly

LEMMA CheckInv == ASSUME ToolsInv, Check PROVE ToolsInv'
<1>1. PICK net \in Nets, v \in 0 .. 1 :
        /\ Head1 = <<"check", net, v>>
        /\ \E pass : job' = [job EXCEPT !.todo = Tail(@), !.steps = Append(@, pass), !.ok = @ /\ pass]
        /\ UNCHANGED <<devices, chain_error, ir, latch, scanners, drivers, seen, used>>
  BY DEF Check
<1>2. PICK t, a, ok : t = Tail(job.todo) /\ job' = [job EXCEPT !.todo = t, !.steps = a, !.ok = ok]
  <2>1. PICK pass : job' = [job EXCEPT !.todo = Tail(job.todo), !.steps = Append(job.steps, pass),
                                       !.ok = job.ok /\ pass]
    BY <1>1
  <2> QED BY <2>1, Zenon
<1>3. JobOK /\ Head1 # <<"none">>
  BY <1>1 DEF ToolsInv
<1>4. DOMAIN job' = DOMAIN job /\ job'.samples = job.samples /\ job'.todo = t
  BY <1>2, <1>3 DEF JobOK, JobShape, Idle
<1>5. PlainJob'
  BY <1>2, <1>3, <1>4, HeadFacts DEF PlainJob, JobShape, JobOK
<1> QED BY <1>1, <1>5, JobOnly

LEMMA KeepInv == ASSUME ToolsInv, Keep PROVE ToolsInv'
<1>1. PICK d \in Dev :
        /\ Head1 = <<"keep", d>>
        /\ job' = [job EXCEPT !.todo = Tail(@), !.samples[d] = job.states]
        /\ UNCHANGED <<devices, chain_error, ir, latch, scanners, drivers, seen, used>>
  BY DEF Keep
<1>2. JobOK /\ Head1 # <<"none">>
  BY <1>1 DEF ToolsInv
<1>3. PICK t : t = Tail(job.todo)
  OBVIOUS
<1>4. PICK s : s = [job.samples EXCEPT ![d] = job.states]
  OBVIOUS
<1>5. job' = [job EXCEPT !.todo = t, !.samples = s]
  BY <1>1, <1>3, <1>4
<1>6. DOMAIN job' = DOMAIN job /\ job'.samples = s /\ job'.todo = t
  BY <1>2, <1>5 DEF JobOK, JobShape, Idle
<1>7. DOMAIN s = Dev
  BY <1>2, <1>4 DEF JobOK, JobShape
<1>8. PlainJob'
  BY <1>2, <1>3, <1>6, <1>7, HeadFacts DEF PlainJob, JobShape, JobOK
<1> QED BY <1>1, <1>8, JobOnly

\* The devices of a net's receivers can be counted.
LEMMA ReceiversFinite ==
  ASSUME NEW net \in Nets
  PROVE  Cardinality(ReceiverDevices(net)) \in Nat
<1> DEFINE n == Len(net.receivers)
           f == [i \in 1 .. n |-> net.receivers[i][1]]
<1>1. n \in Nat
  BY NetsAssumption
<1>2. ReceiverDevices(net) = {f[i] : i \in 1 .. n}
  BY DEF ReceiverDevices
<1>3. f \in Surjection(1 .. n, ReceiverDevices(net))
  <2>1. f \in [1 .. n -> ReceiverDevices(net)]
    BY <1>2
  <2>2. \A e \in ReceiverDevices(net) : \E i \in 1 .. n : f[i] = e
    BY <1>2
  <2> QED BY <2>1, <2>2 DEF Surjection
<1>4. IsFiniteSet(1 .. n)
  BY <1>1, FS_Interval
<1> HIDE DEF n, f
<1>5. IsFiniteSet(ReceiverDevices(net))
  BY <1>3, <1>4, FS_Surjection
<1> QED BY <1>5, FS_CardinalityType

LEMMA ObserveInv == ASSUME ToolsInv, Observe PROVE ToolsInv'
<1> DEFINE n(net) == Cardinality(ReceiverDevices(net))
           x(net) == [i \in 1 .. n(net) |->
                       LET d == InOrder(net)[i]
                       IN  IF scanners[d].made THEN Sampling(d, "keep") ELSE <<>>]
           y(net, v) == << <<"check", net, v>> >>
<1>1. PICK net \in Nets, v \in 0 .. 1 :
        /\ Head1 = <<"observe", net, v>>
        /\ job' = [job EXCEPT !.samples = Idle.samples, !.todo = Then(FlattenSeq(x(net)) \o y(net, v))]
        /\ UNCHANGED <<devices, chain_error, ir, latch, scanners, drivers, seen, used>>
  BY DEF Observe
<1>2. JobOK /\ Head1 # <<"none">>
  BY <1>1 DEF ToolsInv
<1>3. \A i \in 1 .. n(net) : x(net)[i] \in Seq(PlainSteps)
  <2> SUFFICES ASSUME NEW i \in 1 .. n(net) PROVE x(net)[i] \in Seq(PlainSteps)
    OBVIOUS
  <2>1. PICK d : d = InOrder(net)[i]
    OBVIOUS
  <2>2. d \in SampledDevices
    BY <2>1 DEF SampledDevices
  <2>3. x(net)[i] = Sampling(d, "keep") \/ x(net)[i] = <<>>
    BY <2>1
  <2>4. Sampling(d, "keep") \in Seq(PlainSteps)
    <3>1. <<"sample_ir", d, "keep">> \in PlainSteps
      BY <2>2, PlainIs
    <3> QED BY <3>1 DEF Sampling
  <2>5. <<>> \in Seq(PlainSteps)
    OBVIOUS
  <2> HIDE DEF x
  <2> QED BY <2>3, <2>4, <2>5
<1>4. x(net) \in Seq(Seq(PlainSteps))
  <2>1. n(net) \in Nat
    BY ReceiversFinite
  <2>2. DOMAIN x(net) = 1 .. n(net) /\ x(net) = [i \in 1 .. n(net) |-> x(net)[i]]
    OBVIOUS
  <2> HIDE DEF n, x
  <2>3. x(net) \in [1 .. n(net) -> Seq(PlainSteps)]
    BY <2>2, <1>3
  <2> QED BY <2>1, <2>3, IsSeq
<1>5. y(net, v) \in Seq(PlainSteps)
  <2>1. <<"check", net, v>> \in PlainSteps
    BY PlainIs
  <2> QED BY <2>1
<1> HIDE DEF n, x, y
<1>6. PICK u : u = Then(FlattenSeq(x(net)) \o y(net, v))
  OBVIOUS
<1>7. u \in Seq(PlainSteps)
  <2>1. FlattenSeq(x(net)) \o y(net, v) \in Seq(PlainSteps)
    BY <1>4, <1>5, FlattenFacts, ConcatFacts
  <2> QED BY <2>1, <1>2, <1>6, HeadFacts, ConcatFacts DEF Then
<1>8. job' = [job EXCEPT !.samples = Idle.samples, !.todo = u]
  BY <1>1, <1>6
<1>9. DOMAIN job' = DOMAIN job /\ job'.samples = Idle.samples /\ job'.todo = u
  BY <1>2, <1>8 DEF JobOK, JobShape, Idle
<1>10. DOMAIN Idle.samples = Dev
  BY DEF Idle
<1>11. PlainJob'
  BY <1>2, <1>7, <1>9, <1>10 DEF PlainJob, JobShape, JobOK
<1> QED BY <1>1, <1>11, JobOnly

LEMMA DriveInv == ASSUME ToolsInv, Drive PROVE ToolsInv'
<1>1. PICK net \in Nets, v \in 0 .. 1 :
        /\ Head1 = <<"drive", net, v>>
        /\ IF ExtestAllowed(net.driver[1])
           THEN Go(<< <<"try_stage", net.driver[1], net.driver[2], v>> >> \o Applying(net.driver[1])
                   \o << <<"observe", net, v>> >>)
           ELSE Abort
        /\ UNCHANGED <<devices, chain_error, ir, latch, scanners, drivers, seen, used>>
  BY DEF Drive
<1>2. JobOK /\ Head1 # <<"none">>
  BY <1>1 DEF ToolsInv
<1>3. CASE ExtestAllowed(net.driver[1])
  <2> DEFINE a == << <<"try_stage", net.driver[1], net.driver[2], v>> >>
             b == Applying(net.driver[1])
             c == << <<"observe", net, v>> >>
  <2>1. net.driver[1] \in Dev
    <3>1. ChainOK
      BY DEF ToolsInv, BoardOK
    <3>2. Len(Board) \in Nat /\ Len(devices) \in {0, Len(Board)}
      BY <3>1, FoundFacts DEF ChainOK
    <3> QED BY <1>3, <3>2 DEF ExtestAllowed, Ready, InRange, Dev
  <2>2. a \in Seq(PlainSteps) /\ b \in Seq(PlainSteps) /\ c \in Seq(PlainSteps)
    <3>1. /\ <<"try_stage", net.driver[1], net.driver[2], v>> \in PlainSteps
          /\ <<"apply", net.driver[1]>> \in PlainSteps
          /\ <<"observe", net, v>> \in PlainSteps
      BY <2>1, PlainIs
    <3> QED BY <3>1 DEF Applying
  <2>3. Go(a \o b \o c)
    BY <1>1, <1>3
  <2> HIDE DEF a, b, c
  <2>4. a \o b \o c \in Seq(PlainSteps)
    BY <2>2, ConcatFacts
  <2>5. PlainJob'
    BY <2>3, <2>4, <1>2, GoPlain
  <2> QED BY <1>1, <2>5, JobOnly
<1>4. CASE Abort
  <2>1. PlainJob'
    BY <1>2, <1>4, AbortPlain
  <2> QED BY <1>1, <2>1, JobOnly
<1> QED BY <1>1, <1>3, <1>4

-----------------------------------------------------------------------------
(* The invariant is inductive: steps without a scan                        *)

\* A step that puts a capture in front of the list.
LEMMA CaptureFirst ==
  ASSUME ToolsInv, NEW d \in Dev, Ready(d), Head1 \in PlainSteps, Head1 # <<"none">>,
         job' = [job EXCEPT !.todo = Capturing(d) \o @],
         UNCHANGED <<devices, ir, latch, scanners, drivers, seen>>
  PROVE  ToolsInv'
<1>1. BoardOK'
  BY BoardFrame DEF ToolsInv, BoardOK
<1>2. JobOK /\ job.todo \in Seq(PlainSteps)
  BY HeadFacts DEF ToolsInv
<1>3. PICK h, u : h = <<"capture_ir", d>> /\ u = <<h>> \o job.todo
  OBVIOUS
<1>4. h \in BoundSteps
  BY <1>3 DEF BoundSteps
<1>5. TodoOK(u) /\ u # <<>> /\ Head(u) = h
  BY <1>2, <1>3, <1>4, BoundTodo
<1>6. job' = [job EXCEPT !.todo = u]
  BY <1>3 DEF Capturing
<1>7. job'.todo = u /\ JobShape'
  BY <1>2, <1>6 DEF JobOK, JobShape, Idle
<1>8. JobOK' /\ Head1' = h
  BY <1>5, <1>7 DEF JobOK, TodoOK, Head1, Ended
<1>9. Ready(d)'
  BY DEF Ready, InRange
<1>10. HeadOK'
  BY <1>3, <1>8, <1>9 DEF HeadOK, Uses
<1> QED BY <1>1, <1>8, <1>10 DEF ToolsInv

LEMMA StagePinInv == ASSUME ToolsInv, StagePin PROVE ToolsInv'
<1>1. PICK d \in Dev, p \in Pins, v \in -1 .. 1 :
        /\ Head1 = <<"stage", d, p, v>>
        /\ LET staged == Stage(drivers[d].bsr, Cells(d), p, v)
           IN  IF ~ExtestAllowed(d) THEN Abort /\ UNCHANGED drivers
               ELSE IF drivers[d].bsr = <<>>
                 THEN job' = [job EXCEPT !.todo = Capturing(d) \o @] /\ UNCHANGED drivers
               ELSE IF staged = <<>> THEN Abort /\ UNCHANGED drivers
                 ELSE Done /\ drivers' = [drivers EXCEPT ![d].bsr = staged]
        /\ UNCHANGED <<devices, chain_error, ir, latch, scanners, seen, used>>
  BY DEF StagePin
<1>2. JobOK /\ Head1 # <<"none">> /\ Head1 \in PlainSteps /\ BoardOK
  BY <1>1, PlainIs DEF ToolsInv
<1>3. CASE Abort /\ UNCHANGED drivers
  <2>1. PlainJob'
    BY <1>2, <1>3, AbortPlain
  <2> QED BY <1>1, <1>3, <2>1, JobOnly
<1>4. CASE ExtestAllowed(d) /\ job' = [job EXCEPT !.todo = Capturing(d) \o @] /\ UNCHANGED drivers
  BY <1>1, <1>2, <1>4, CaptureFirst DEF ExtestAllowed
<1>5. CASE ExtestAllowed(d) /\ drivers[d].bsr # <<>> /\ Stage(drivers[d].bsr, Cells(d), p, v) # <<>>
           /\ Done /\ drivers' = [drivers EXCEPT ![d].bsr = Stage(drivers[d].bsr, Cells(d), p, v)]
  <2>1. drivers[d].bsr \in [1 .. Len(Cells(d)) -> Bits]
    BY <1>2, <1>5 DEF BoardOK, DriversOK
  <2>2. Stage(drivers[d].bsr, Cells(d), p, v) \in [1 .. Len(Cells(d)) -> Bits]
    BY <1>5, <2>1, StageIs
  <2>3. DriversOK'
    BY <1>1, <1>2, <1>5, <2>2, DriverStep DEF ExtestAllowed
  <2>4. PlainJob'
    BY <1>2, <1>5, DonePlain
  <2>5. BoardOK'
    BY <1>1, <1>2, <2>3, BoardFrame DEF BoardOK
  <2> QED BY <2>4, <2>5, PlainEnd
<1> QED BY <1>1, <1>3, <1>4, <1>5, Zenon

LEMMA TryStageInv == ASSUME ToolsInv, TryStage PROVE ToolsInv'
<1>1. PICK d \in Dev, p \in Pins, v \in 0 .. 1 :
        /\ Head1 = <<"try_stage", d, p, v>>
        /\ LET staged == Stage(drivers[d].bsr, Cells(d), p, v)
           IN  IF ~ExtestAllowed(d) THEN Done /\ UNCHANGED drivers
               ELSE IF drivers[d].bsr = <<>>
                 THEN job' = [job EXCEPT !.todo = Capturing(d) \o @] /\ UNCHANGED drivers
               ELSE Done /\ drivers' = [drivers EXCEPT ![d].bsr = IF staged = <<>> THEN @ ELSE staged]
        /\ UNCHANGED <<devices, chain_error, ir, latch, scanners, seen, used>>
  BY DEF TryStage
<1>2. JobOK /\ Head1 # <<"none">> /\ BoardOK
  BY <1>1 DEF ToolsInv
<1>3. CASE Done /\ UNCHANGED drivers
  <2>1. PlainJob'
    BY <1>2, <1>3, DonePlain
  <2> QED BY <1>1, <1>3, <2>1, JobOnly
<1>4. CASE ExtestAllowed(d) /\ job' = [job EXCEPT !.todo = Capturing(d) \o @] /\ UNCHANGED drivers
  <2>1. Head1 \in PlainSteps
    <3>1. job.todo # <<>> /\ Head(job.todo) = Head1 /\ TodoOK(job.todo)
      BY <1>2, HeadFacts DEF JobOK
    <3>2. Head1 \in PlainSteps \cup BoundSteps
      BY <3>1, TodoFacts
    <3>3. <<"try_stage", d, p, v>> \notin BoundSteps
      BY DEF BoundSteps, Uses
    <3> QED BY <3>2, <3>3, <1>1
  <2> QED BY <1>1, <1>2, <1>4, <2>1, CaptureFirst DEF ExtestAllowed
<1>5. CASE ExtestAllowed(d) /\ drivers[d].bsr # <<>> /\ Done
           /\ drivers' = [drivers EXCEPT ![d].bsr = IF Stage(drivers[d].bsr, Cells(d), p, v) = <<>> THEN @
                                                    ELSE Stage(drivers[d].bsr, Cells(d), p, v)]
  <2>1. drivers[d].bsr \in [1 .. Len(Cells(d)) -> Bits]
    BY <1>2, <1>5 DEF BoardOK, DriversOK
  <2>2. PICK bsr : bsr = IF Stage(drivers[d].bsr, Cells(d), p, v) = <<>> THEN drivers[d].bsr
                         ELSE Stage(drivers[d].bsr, Cells(d), p, v)
    OBVIOUS
  <2>3. bsr \in [1 .. Len(Cells(d)) -> Bits]
    <3>1. v \in -1 .. 1
      OBVIOUS
    <3> QED BY <3>1, <2>1, <2>2, StageIs
  <2>4. drivers' = [drivers EXCEPT ![d].bsr = bsr]
    BY <1>5, <2>2
  <2>5. DriversOK'
    BY <1>1, <1>2, <1>5, <2>3, <2>4, DriverStep DEF ExtestAllowed
  <2>6. PlainJob'
    BY <1>2, <1>5, DonePlain
  <2>7. BoardOK'
    BY <1>1, <1>2, <2>5, BoardFrame DEF BoardOK
  <2> QED BY <2>6, <2>7, PlainEnd
<1> QED BY <1>1, <1>3, <1>4, <1>5, Zenon

LEMMA ApplyInv == ASSUME ToolsInv, Apply PROVE ToolsInv'
<1>1. PICK d \in Dev :
        /\ Head1 = <<"apply", d>>
        /\ IF ~ExtestAllowed(d) THEN Abort
           ELSE IF drivers[d].bsr = <<>> THEN job' = [job EXCEPT !.todo = Capturing(d) \o @]
           ELSE Go(<< <<"extest_ir", d>> >>)
        /\ UNCHANGED <<devices, chain_error, ir, latch, scanners, drivers, seen, used>>
  BY DEF Apply
<1>2. JobOK /\ Head1 # <<"none">> /\ Head1 \in PlainSteps
  BY <1>1, PlainIs DEF ToolsInv
<1>3. CASE Abort
  <2>1. PlainJob'
    BY <1>2, <1>3, AbortPlain
  <2> QED BY <1>1, <2>1, JobOnly
<1>4. CASE ExtestAllowed(d) /\ job' = [job EXCEPT !.todo = Capturing(d) \o @]
  BY <1>1, <1>2, <1>4, CaptureFirst DEF ExtestAllowed
<1>5. CASE ExtestAllowed(d) /\ drivers[d].bsr # <<>> /\ Go(<< <<"extest_ir", d>> >>)
  <2>1. <<"extest_ir", d>> \in BoundSteps
    BY DEF BoundSteps
  <2>2. JobOK' /\ Head1' = <<"extest_ir", d>>
    BY <1>2, <1>5, <2>1, GoBound
  <2>3. BoardOK'
    BY <1>1, BoardFrame DEF ToolsInv, BoardOK
  <2>4. ExtestAllowed(d)' /\ drivers'[d].bsr # <<>>
    BY <1>1, <1>5 DEF ExtestAllowed, Ready, InRange
  <2>5. HeadOK'
    BY <2>2, <2>4 DEF HeadOK, Uses
  <2> QED BY <2>2, <2>3, <2>5 DEF ToolsInv
<1> QED BY <1>1, <1>3, <1>4, <1>5, Zenon

LEMMA FramesInv == ASSUME ToolsInv, Frames PROVE ToolsInv'
<1>1. PICK d \in Dev :
        /\ Head1 = <<"frames", d>>
        /\ \/ job' = [job EXCEPT !.todo = Then(Sampling(d, "frames")), !.n = @ + 1]
           \/ Done
        /\ UNCHANGED <<devices, chain_error, ir, latch, scanners, drivers, seen, used>>
  BY DEF Frames
<1>2. JobOK /\ Head1 # <<"none">>
  BY <1>1 DEF ToolsInv
<1>3. CASE Done
  <2>1. PlainJob'
    BY <1>2, <1>3, DonePlain
  <2> QED BY <1>1, <2>1, JobOnly
<1>4. CASE job' = [job EXCEPT !.todo = Then(Sampling(d, "frames")), !.n = @ + 1]
  <2>1. PICK h, t, u : /\ h = <<"sample_ir", d, "frames">> /\ t = Tail(job.todo)
                       /\ u = <<h>> \o t
    OBVIOUS
  <2>2. h \in BoundSteps /\ t \in Seq(PlainSteps)
    BY <2>1, <1>2, HeadFacts DEF BoundSteps
  <2>3. TodoOK(u) /\ u # <<>> /\ Head(u) = h
    BY <2>1, <2>2, BoundTodo
  <2>4. job'.todo = u /\ JobShape'
    <3>1. PICK k : k = job.n + 1
      OBVIOUS
    <3>2. job' = [job EXCEPT !.todo = u, !.n = k]
      BY <1>4, <2>1, <3>1 DEF Then, Sampling
    <3> QED BY <1>2, <3>2 DEF JobOK, JobShape, Idle
  <2>5. JobOK' /\ Head1' = h
    BY <2>3, <2>4 DEF JobOK, TodoOK, Head1, Ended
  <2>6. BoardOK'
    BY <1>1, BoardFrame DEF ToolsInv, BoardOK
  <2>7. HeadOK'
    BY <2>1, <2>5 DEF HeadOK, Uses
  <2> QED BY <2>5, <2>6, <2>7 DEF ToolsInv
<1> QED BY <1>1, <1>3, <1>4

LEMMA SampledInv == ASSUME ToolsInv, Sampled PROVE ToolsInv'
<1>1. PICK d \in Dev :
        /\ Head1 = <<"sampled", d>>
        /\ \/ /\ job.raw # <<>>
              /\ drivers' = [drivers EXCEPT ![d].bsr = ApplyBsrSnapshot(Cells(d), job.raw)]
              /\ Done
           \/ (Abort \/ Done) /\ UNCHANGED drivers
        /\ UNCHANGED <<devices, chain_error, ir, latch, scanners, seen, used>>
  BY DEF Sampled
<1>2. JobOK /\ Head1 # <<"none">> /\ BoardOK
  BY <1>1 DEF ToolsInv
<1>3. PlainJob'
  BY <1>1, <1>2, DonePlain, AbortPlain
<1>4. CASE UNCHANGED drivers
  BY <1>1, <1>3, <1>4, JobOnly
<1>5. CASE job.raw # <<>> /\ drivers' = [drivers EXCEPT ![d].bsr = ApplyBsrSnapshot(Cells(d), job.raw)]
  <2>1. Ready(d)
    BY <1>1, <1>5 DEF ToolsInv, HeadOK, Uses
  <2>2. DriversOK'
    BY <1>1, <1>2, <1>5, <2>1, SnapshotIs, DriverStep
  <2>3. BoardOK'
    BY <1>1, <1>2, <2>2, BoardFrame DEF BoardOK
  <2> QED BY <1>3, <2>3, PlainEnd
<1> QED BY <1>1, <1>4, <1>5

LEMMA ResetToSafeInv == ASSUME ToolsInv, ResetToSafe PROVE ToolsInv'
<1>1. PICK d \in Dev :
        /\ Head1 = <<"safe", d>>
        /\ drivers' = [drivers EXCEPT ![d].bsr = IF Ready(d) THEN InitBsrFromSafeValues(Cells(d)) ELSE @]
        /\ Done
        /\ UNCHANGED <<devices, chain_error, ir, latch, scanners, seen, used>>
  BY DEF ResetToSafe
<1>2. JobOK /\ Head1 # <<"none">> /\ BoardOK
  BY <1>1 DEF ToolsInv
<1>3. PlainJob'
  BY <1>1, <1>2, DonePlain
<1>4. CASE Ready(d)
  <2>1. drivers' = [drivers EXCEPT ![d].bsr = InitBsrFromSafeValues(Cells(d))]
    BY <1>1, <1>4
  <2>2. DriversOK'
    BY <1>1, <1>2, <1>4, <2>1, SnapshotIs, DriverStep
  <2>3. BoardOK'
    BY <1>1, <1>2, <2>2, BoardFrame DEF BoardOK
  <2> QED BY <1>3, <2>3, PlainEnd
<1>5. CASE ~Ready(d)
  <2>1. DriversOK'
    <3>1. drivers' = [drivers EXCEPT ![d].bsr = drivers[d].bsr]
      BY <1>1, <1>5
    <3>2. DriversOK
      BY <1>2 DEF BoardOK
    <3>3. DOMAIN drivers' = Dev /\ \A e \in Dev : /\ DOMAIN drivers'[e] = DOMAIN drivers[e]
                                                /\ drivers'[e].made = drivers[e].made
                                                /\ drivers'[e].bsr = drivers[e].bsr
      BY <3>1, <3>2 DEF DriversOK, NoDriver
    <3>4. \A e \in Dev : (InRange(e) => InRange(e)') /\ (Ready(e) => Ready(e)')
      BY <1>1 DEF InRange, Ready
    <3> QED BY <3>2, <3>3, <3>4 DEF DriversOK
  <2>2. BoardOK'
    BY <1>1, <1>2, <2>1, BoardFrame DEF BoardOK
  <2> QED BY <1>3, <2>2, PlainEnd
<1> QED BY <1>4, <1>5

-----------------------------------------------------------------------------
(* The invariant is inductive: detection, scanners and drivers             *)

LEMMA DetectInv == ASSUME ToolsInv, DoDetect PROVE ToolsInv'
<1>1. /\ Head1 = <<"detect">>
      /\ Detect \/ \E step \in 1 .. 3 : DetectFails(step)
      /\ scanners' = [d \in Dev |-> NoScanner]
      /\ drivers' = [d \in Dev |-> NoDriver]
      /\ Done
      /\ UNCHANGED seen
  BY DEF DoDetect
<1>2. JobOK /\ Head1 # <<"none">> /\ BoardOK
  BY <1>1 DEF ToolsInv
<1>3. PlainJob'
  BY <1>1, <1>2, DonePlain
<1>4. IrReset \in [Dev -> Kinds] /\ \A d \in Dev : IrReset[d] # "EXTEST"
  BY DEF IrReset, Kinds, Instructions
<1>5. ir' \in {ir, IrReset} /\ UNCHANGED latch
  BY <1>1 DEF Detect, DetectFails
<1>6. IrOK'
  BY <1>2, <1>4, <1>5 DEF BoardOK, IrOK, NoLiveExtest
<1>7. ChainOK'
  <2>1. CASE Detect
    <3>1. devices' = [d \in Dev |-> [idcode |-> Board[d].idcode, ir_length |-> Board[d].ir_length,
                                     bsdl |-> FALSE]]
      BY <2>1, Readable DEF Detect
    <3>2. PICK loaded \in [Dev -> BOOLEAN] : loaded = [d \in Dev |-> FALSE]
      OBVIOUS
    <3>3. devices' = Found(loaded)
      BY <3>1, <3>2 DEF Found
    <3> QED BY <3>3 DEF ChainOK, ChainStates
  <2>2. CASE \E step \in 1 .. 3 : DetectFails(step)
    BY <2>2 DEF DetectFails, ChainOK, ChainStates
  <2> QED BY <1>1, <2>1, <2>2
<1>8. ScannersOK' /\ DriversOK'
  BY <1>1 DEF ScannersOK, DriversOK, NoScanner, NoDriver
<1>9. LatchesOK'
  BY <1>1, <1>2, <1>5, BoardFrame
<1>10. BoardOK'
  BY <1>6, <1>7, <1>8, <1>9 DEF BoardOK
<1> QED BY <1>3, <1>10, PlainEnd

\* loadBsdl() in the record of one device
LEMMA LoadedRecord ==
  ASSUME NEW a, NEW b, NEW c
  PROVE  [[[idcode |-> a, ir_length |-> b, bsdl |-> c] EXCEPT !.bsdl = TRUE] EXCEPT !.ir_length = b]
           = [idcode |-> a, ir_length |-> b, bsdl |-> TRUE]
<1> DEFINE F == {"idcode", "ir_length", "bsdl"}
           old == [idcode |-> a, ir_length |-> b, bsdl |-> c]
           new == [idcode |-> a, ir_length |-> b, bsdl |-> TRUE]
           x == [[old EXCEPT !.bsdl = TRUE] EXCEPT !.ir_length = b]
           value(f) == IF f = "ir_length" THEN b ELSE IF f = "bsdl" THEN TRUE ELSE old[f]
<1>1. DOMAIN old = F /\ old.idcode = a
  OBVIOUS
<1>2. DOMAIN new = F /\ new = [f \in F |-> new[f]] /\ new.idcode = a /\ new.ir_length = b /\ new.bsdl = TRUE
  OBVIOUS
<1>3. x = [f \in DOMAIN old |-> value(f)]
  OBVIOUS
<1> HIDE DEF old, new, x
<1>4. \A f \in F : value(f) = new[f]
  BY <1>1, <1>2
<1>5. [f \in F |-> value(f)] = [f \in F |-> new[f]]
  BY <1>4
<1>6. x = new
  BY <1>1, <1>2, <1>3, <1>5
<1> QED BY <1>6 DEF x, old, new

LEMMA LoadInv == ASSUME ToolsInv, DoLoad PROVE ToolsInv'
<1>1. PICK d \in Dev, parses \in BOOLEAN :
        /\ Head1 = <<"load", d>>
        /\ LoadBsdl(d, parses)
        /\ Done \/ Throw
        /\ UNCHANGED <<scanners, drivers, seen, used>>
  BY DEF DoLoad
<1>2. JobOK /\ Head1 # <<"none">> /\ BoardOK
  BY <1>1 DEF ToolsInv
<1>3. PlainJob'
  BY <1>1, <1>2, DonePlain, ThrowPlain
<1>4. IrOK' /\ LatchesOK'
  BY <1>1, <1>2, BoardFrame DEF LoadBsdl
<1>5. CASE UNCHANGED devices
  <2>1. BoardOK'
    BY <1>1, <1>2, <1>4, <1>5, BoardFrame DEF BoardOK
  <2> QED BY <1>3, <2>1, PlainEnd
<1>6. CASE InRange(d) /\ devices' = [devices EXCEPT ![d].bsdl = TRUE, ![d].ir_length = Board[d].ir_length]
  <2>1. devices # <<>> /\ devices \in ChainStates
    <3>1. Len(<<>>) = 0 /\ d \in Nat /\ 1 <= d
      BY DeviceFacts
    <3> QED BY <3>1, <1>2, <1>6 DEF InRange, BoardOK, ChainOK
  <2>2. PICK loaded \in [Dev -> BOOLEAN] : devices = Found(loaded)
    BY <2>1 DEF ChainStates
  <2>3. PICK more \in [Dev -> BOOLEAN] : more = [loaded EXCEPT ![d] = TRUE]
    OBVIOUS
  <2>4. devices' = Found(more)
    <3>1. devices' = [e \in Dev |-> IF e = d THEN [idcode |-> Board[e].idcode,
                                                   ir_length |-> Board[e].ir_length, bsdl |-> TRUE]
                                    ELSE devices[e]]
      <4> DEFINE old == [idcode |-> Board[d].idcode, ir_length |-> Board[d].ir_length, bsdl |-> loaded[d]]
                 new == [idcode |-> Board[d].idcode, ir_length |-> Board[d].ir_length, bsdl |-> TRUE]
      <4>1. devices = [e \in Dev |-> devices[e]] /\ devices[d] = old
        BY <2>2 DEF Found
      <4>2. [[old EXCEPT !.bsdl = TRUE] EXCEPT !.ir_length = Board[d].ir_length] = new
        BY LoadedRecord
      <4>3. devices' = [devices EXCEPT ![d] = [[devices[d] EXCEPT !.bsdl = TRUE]
                                                 EXCEPT !.ir_length = Board[d].ir_length]]
        BY <1>6, <4>1
      <4> HIDE DEF old, new
      <4>4. devices' = [devices EXCEPT ![d] = new]
        BY <4>1, <4>2, <4>3
      <4>5. devices' = [e \in Dev |-> IF e = d THEN new ELSE devices[e]]
        BY <4>1, <4>4
      <4> QED BY <4>5 DEF new
    <3>2. \A e \in Dev : (IF e = d THEN [idcode |-> Board[e].idcode,
                                          ir_length |-> Board[e].ir_length, bsdl |-> TRUE]
                           ELSE devices[e]) = Found(more)[e]
      BY <2>2, <2>3 DEF Found
    <3>3. Found(more) = [e \in Dev |-> Found(more)[e]]
      BY DEF Found
    <3> QED BY <3>1, <3>2, <3>3
  <2>5. ChainOK'
    BY <2>4 DEF ChainOK, ChainStates
  <2>6. \A e \in Dev : (InRange(e) => InRange(e)') /\ (Ready(e) => Ready(e)')
    <3>1. Len(devices) = Len(Board)
      BY <2>1, <1>6, FoundFacts
    <3>2. PICK ds : ds = devices'
      OBVIOUS
    <3>3. Len(ds) = Len(Board) /\ \A e \in Dev : ds[e].bsdl = more[e]
      BY <3>2, <2>4, BoardAssumption DEF Found, Dev
    <3>4. \A e \in Dev : devices[e].bsdl = loaded[e] /\ (loaded[e] => more[e])
      BY <2>2, <2>3 DEF Found
    <3>5. Len(devices') = Len(devices) /\ \A e \in Dev : devices[e].bsdl => devices'[e].bsdl
      BY <3>1, <3>2, <3>3, <3>4
    <3> QED BY <3>5 DEF Ready, InRange
  <2>7. ScannersOK' /\ DriversOK'
    BY <1>1, <1>2, <2>6 DEF BoardOK, ScannersOK, DriversOK
  <2>8. BoardOK'
    BY <1>4, <2>5, <2>7 DEF BoardOK
  <2> QED BY <1>3, <2>8, PlainEnd
<1> QED BY <1>1, <1>5, <1>6 DEF LoadBsdl

LEMMA GetScannerInv == ASSUME ToolsInv, GetScanner PROVE ToolsInv'
<1>1. PICK d \in Dev :
        /\ Head1 = <<"scanner", d>>
        /\ IF scanners[d].made \/ InRange(d) THEN UseScanner(d) /\ Done
           ELSE UNCHANGED scanners /\ Throw
        /\ UNCHANGED <<devices, chain_error, ir, latch, drivers, seen, used>>
  BY DEF GetScanner
<1>2. JobOK /\ Head1 # <<"none">> /\ BoardOK
  BY <1>1 DEF ToolsInv
<1>3. PlainJob'
  BY <1>1, <1>2, DonePlain, ThrowPlain
<1>4. ScannersOK'
  <2>1. CASE UNCHANGED scanners
    BY <1>1, <1>2, <2>1, BoardFrame
  <2>2. CASE (scanners[d].made \/ InRange(d)) /\ UseScanner(d)
    <3>1. InRange(d) /\ ScannersOK
      BY <1>2, <2>2 DEF BoardOK, ScannersOK
    <3>2. \A e \in Dev : scanners'[e] = IF e = d /\ ~scanners[d].made THEN NewScanner ELSE scanners[e]
      BY <2>2, <3>1 DEF UseScanner, ScannersOK
    <3>3. DOMAIN scanners' = Dev
      BY <2>2, <3>1 DEF UseScanner, ScannersOK
    <3>4. DOMAIN NewScanner = DOMAIN NoScanner /\ NewScanner.filter = {}
      BY DEF NewScanner, NoScanner
    <3>5. \A e \in Dev : InRange(e) => InRange(e)'
      BY <1>1 DEF InRange
    <3> QED BY <3>1, <3>2, <3>3, <3>4, <3>5 DEF ScannersOK
  <2> QED BY <1>1, <2>1, <2>2
<1>5. BoardOK'
  BY <1>1, <1>2, <1>4, BoardFrame DEF BoardOK
<1> QED BY <1>3, <1>5, PlainEnd

LEMMA GetDriverInv == ASSUME ToolsInv, GetDriver PROVE ToolsInv'
<1>1. PICK d \in Dev :
        /\ Head1 = <<"driver", d>>
        /\ IF ~drivers[d].made /\ ~InRange(d) THEN UNCHANGED drivers /\ Throw
           ELSE /\ drivers' = [drivers EXCEPT ![d].made = TRUE]
                /\ Go(IF ~drivers[d].made /\ Ready(d) THEN Capturing(d) ELSE <<>>)
        /\ UNCHANGED <<devices, chain_error, ir, latch, scanners, seen, used>>
  BY DEF GetDriver
<1>2. JobOK /\ Head1 # <<"none">> /\ BoardOK
  BY <1>1 DEF ToolsInv
<1>3. DriversOK'
  <2>1. CASE UNCHANGED drivers
    BY <1>1, <1>2, <2>1, BoardFrame
  <2>2. CASE (drivers[d].made \/ InRange(d)) /\ drivers' = [drivers EXCEPT ![d].made = TRUE]
    <3>1. InRange(d) /\ DriversOK
      BY <1>2, <2>2 DEF BoardOK, DriversOK
    <3>2. \A e \in Dev : (InRange(e) => InRange(e)') /\ (Ready(e) => Ready(e)')
      BY <1>1 DEF InRange, Ready
    <3> QED BY <2>2, <3>1, <3>2 DEF DriversOK, NoDriver
  <2> QED BY <1>1, <2>1, <2>2
<1>4. BoardOK'
  BY <1>1, <1>2, <1>3, BoardFrame DEF BoardOK
<1>5. CASE Throw
  <2>1. PlainJob'
    BY <1>2, <1>5, ThrowPlain
  <2> QED BY <1>4, <2>1, PlainEnd
<1>6. CASE Go(<<>>)
  <2>1. PlainJob'
    BY <1>2, <1>6, DonePlain DEF Done
  <2> QED BY <1>4, <2>1, PlainEnd
<1>7. CASE Ready(d) /\ Go(Capturing(d))
  <2>1. <<"capture_ir", d>> \in BoundSteps
    BY DEF BoundSteps
  <2>2. JobOK' /\ Head1' = <<"capture_ir", d>>
    BY <1>2, <1>7, <2>1, GoBound DEF Capturing
  <2>3. Ready(d)'
    BY <1>1, <1>7 DEF Ready, InRange
  <2>4. HeadOK'
    BY <2>2, <2>3 DEF HeadOK, Uses
  <2> QED BY <1>4, <2>2, <2>4 DEF ToolsInv
<1> QED BY <1>1, <1>5, <1>6, <1>7

-----------------------------------------------------------------------------
(* The invariant is inductive: samples                                     *)

\* How the job goes on with the use of a sample, or with the first frame.
LEMMA UseBound ==
  ASSUME JobOK, Head1 # <<"none">>, NEW h \in BoundSteps, NEW states, NEW raw,
         job' = [job EXCEPT !.todo = Then(<<h>>), !.states = states, !.raw = raw]
  PROVE  JobOK' /\ Head1' = h /\ job'.states = states /\ job'.raw = raw
<1>1. PICK t, u : t = Tail(job.todo) /\ u = <<h>> \o t
  OBVIOUS
<1>2. t \in Seq(PlainSteps)
  BY <1>1, HeadFacts
<1>3. TodoOK(u) /\ u # <<>> /\ Head(u) = h
  BY <1>1, <1>2, BoundTodo
<1>4. job' = [job EXCEPT !.todo = u, !.states = states, !.raw = raw]
  BY <1>1 DEF Then
<1>5. job'.todo = u /\ job'.states = states /\ job'.raw = raw /\ JobShape'
  BY <1>4 DEF JobShape, JobOK, Idle
<1> QED BY <1>3, <1>5 DEF JobOK, TodoOK, Head1, Ended

LEMMA SampleAllInv == ASSUME ToolsInv, SampleAll PROVE ToolsInv'
<1>1. PICK d \in Dev :
        /\ Head1 = <<"sample_all", d>>
        /\ scanners' = [scanners EXCEPT ![d].filter = {}]
        /\ Go(Sampling(d, "answer_all"))
        /\ UNCHANGED <<devices, chain_error, ir, latch, drivers, seen, used>>
  BY DEF SampleAll
<1>2. JobOK /\ Head1 # <<"none">> /\ BoardOK
  BY <1>1 DEF ToolsInv
<1>3. ScannersOK'
  BY <1>1, <1>2, ScannerStep
<1>4. BoardOK'
  BY <1>1, <1>2, <1>3, BoardFrame DEF BoardOK
<1>5. <<"sample_ir", d, "answer_all">> \in BoundSteps
  BY DEF BoundSteps
<1>6. JobOK' /\ Head1' = <<"sample_ir", d, "answer_all">>
  BY <1>1, <1>2, <1>5, GoBound DEF Sampling
<1>7. scanners'[d].filter = {}
  BY <1>1, <1>2 DEF BoardOK, ScannersOK, NoScanner
<1>8. HeadOK'
  BY <1>6, <1>7 DEF HeadOK, Uses
<1> QED BY <1>4, <1>6, <1>8 DEF ToolsInv

LEMMA StartCaptureInv == ASSUME ToolsInv, StartCapture PROVE ToolsInv'
<1>1. PICK d \in Dev, f \in Filters :
        /\ Head1 = <<"capture", d, f>>
        /\ scanners' = [scanners EXCEPT ![d].filter = f]
        /\ job' = [job EXCEPT !.todo = Then(<< <<"frames", d>> >>), !.states = <<>>, !.raw = <<>>]
        /\ UNCHANGED <<devices, chain_error, ir, latch, drivers, seen, used>>
  BY DEF StartCapture
<1>2. JobOK /\ Head1 # <<"none">> /\ BoardOK
  BY <1>1 DEF ToolsInv
<1>3. ScannersOK'
  BY <1>1, <1>2, ScannerStep
<1>4. BoardOK'
  BY <1>1, <1>2, <1>3, BoardFrame DEF BoardOK
<1>5. <<"frames", d>> \in BoundSteps
  BY DEF BoundSteps, Uses
<1>6. JobOK' /\ Head1' = <<"frames", d>> /\ job'.raw = <<>>
  BY <1>1, <1>2, <1>5, UseBound
<1>7. HeadOK'
  BY <1>6 DEF HeadOK, Uses
<1> QED BY <1>4, <1>6, <1>7 DEF ToolsInv

\* A sample that ends early says nothing.
LEMMA NoSampleStep ==
  ASSUME ToolsInv, Head1 # <<"none">>, NEW d \in Dev, NEW use \in Uses, NEW err,
         NoSample(d, use, err), use = "answer_all" => scanners[d].filter = {},
         UNCHANGED devices
  PROVE  ScannersOK' /\ JobOK' /\ HeadOK'
<1>1. JobOK /\ BoardOK
  BY DEF ToolsInv
<1>2. /\ scanners' = [scanners EXCEPT ![d].error = err]
      /\ job' = [job EXCEPT !.todo = Then(<< <<use, d>> >>), !.states = <<>>, !.raw = <<>>]
  BY DEF NoSample
<1>3. ScannersOK'
  <2>1. {} \in Filters \cup {{}}
    OBVIOUS
  <2>2. scanners' \in {[scanners EXCEPT ![d].filter = {}], [scanners EXCEPT ![d].error = err]}
    BY <1>2
  <2> QED BY <1>1, <2>1, <2>2, ScannerStep
<1>4. <<use, d>> \in BoundSteps
  BY DEF BoundSteps
<1>5. JobOK' /\ Head1' = <<use, d>> /\ job'.raw = <<>>
  BY <1>1, <1>2, <1>4, UseBound
<1>6. scanners'[d].filter = scanners[d].filter
  BY <1>1, <1>2 DEF BoardOK, ScannersOK, NoScanner
<1>7. HeadOK'
  BY <1>5, <1>6 DEF HeadOK, Uses
<1> QED BY <1>3, <1>5, <1>7

LEMMA SampleIrInv == ASSUME ToolsInv, SampleIr PROVE ToolsInv'
<1>1. PICK d \in Dev, use \in Uses :
        /\ Head1 = <<"sample_ir", d, use>>
        /\ \/ /\ Ready(d)
              /\ Select(d, Board[d].ops["SAMPLE"])
              /\ Go(<< <<"sample_dr", d, use>> >>)
              /\ UNCHANGED scanners
           \/ /\ Ready(d)
              /\ SelectFails(d, Board[d].ops["SAMPLE"])
              /\ NoSample(d, use, chain_error)
           \/ /\ NoSample(d, use, TRUE)
              /\ UNCHANGED <<devices, chain_error, ir, latch, used>>
        /\ UNCHANGED <<drivers, seen>>
  BY Zenon DEF SampleIr
<1>2. JobOK /\ Head1 # <<"none">> /\ BoardOK /\ ChainOK /\ IrOK
  BY <1>1 DEF ToolsInv, BoardOK
<1>3. use = "answer_all" => scanners[d].filter = {}
  BY <1>1 DEF ToolsInv, HeadOK
<1>4. "SAMPLE" \in Instructions /\ "SAMPLE" # "EXTEST"
  BY DEF Instructions
<1>5. CASE Ready(d) /\ Select(d, Board[d].ops["SAMPLE"]) /\ Go(<< <<"sample_dr", d, use>> >>)
           /\ UNCHANGED scanners
  <2>1. ir' = Only(d, "SAMPLE") /\ IrOK' /\ UNCHANGED <<devices, latch>>
    BY <1>2, <1>4, <1>5, SelectStep DEF Ready
  <2>2. BoardOK'
    BY <1>1, <1>2, <1>5, <2>1, BoardFrame DEF BoardOK
  <2>3. <<"sample_dr", d, use>> \in BoundSteps
    BY DEF BoundSteps
  <2>4. JobOK' /\ Head1' = <<"sample_dr", d, use>>
    BY <1>2, <1>5, <2>3, GoBound
  <2>5. Ready(d)' /\ scanners' = scanners
    BY <1>5, <2>1 DEF Ready, InRange
  <2>6. HeadOK'
    BY <1>3, <2>1, <2>4, <2>5 DEF HeadOK, Uses
  <2> QED BY <2>2, <2>4, <2>6 DEF ToolsInv
<1>6. CASE Ready(d) /\ SelectFails(d, Board[d].ops["SAMPLE"]) /\ NoSample(d, use, chain_error)
  <2>1. IrOK' /\ UNCHANGED <<devices, latch>>
    BY <1>2, <1>4, <1>6, SelectStep DEF Ready
  <2>2. ScannersOK' /\ JobOK' /\ HeadOK'
    BY <1>2, <1>3, <1>6, <2>1, NoSampleStep
  <2>3. BoardOK'
    BY <1>1, <1>2, <2>1, <2>2, BoardFrame DEF BoardOK
  <2> QED BY <2>2, <2>3 DEF ToolsInv
<1>7. CASE NoSample(d, use, TRUE) /\ UNCHANGED <<devices, chain_error, ir, latch, used>>
  <2>1. ScannersOK' /\ JobOK' /\ HeadOK'
    BY <1>2, <1>3, <1>7, NoSampleStep
  <2>2. BoardOK'
    BY <1>1, <1>2, <1>7, <2>1, BoardFrame DEF BoardOK
  <2> QED BY <2>1, <2>2 DEF ToolsInv
<1> QED BY <1>1, <1>5, <1>6, <1>7

\* What a sample decodes is what the cells captured.
LEMMA SampleDrIs ==
  ASSUME ChainOK, LatchesOK, NEW d \in Dev, Ready(d), ir = Only(d, "SAMPLE"),
         NEW image \in Images, NEW filter
  PROVE  LET partial == MaxNeededBsrBits(Cells(d), filter)
             raw == ReadOut(d, partial, DrScan(image, ReadIn(d, partial)).out)
         IN  /\ ReadIn(d, partial) \in Seq(Bits)
             /\ \A p \in ObservablePins(Cells(d)) :
                  GetPin(DecodeBoundaryScan(Cells(d), filter, raw), p) =
                    IF filter = {} \/ p \in filter
                    THEN IF image[d][PinCell(d, p)] = 1 THEN "high" ELSE "low" ELSE "unknown"
<1> DEFINE partial == MaxNeededBsrBits(Cells(d), filter)
           raw == ReadOut(d, partial, DrScan(image, ReadIn(d, partial)).out)
           read == [k \in 1 .. ReadLen(d, partial) |-> image[d][k]]
<1>1. partial \in Nat
  <2> DEFINE wanted == {i \in 1 .. Len(Cells(d)) : hasPin(Cells(d)[i]) /\ Cells(d)[i].pin \in filter}
  <2>1. Len(Cells(d)) \in Nat /\ wanted \in SUBSET (1 .. Len(Cells(d)))
    BY DeviceFacts
  <2>2. partial = IF wanted = {} THEN 0 ELSE Max(wanted)
    BY DEF MaxNeededBsrBits
  <2> HIDE DEF wanted, partial
  <2>3. wanted # {} => Max(wanted) \in 1 .. Len(Cells(d))
    BY <2>1, Extremes
  <2> QED BY <2>1, <2>2, <2>3
<1>2. ReadIn(d, partial) \in Seq(Bits) /\ raw = read
  <2> HIDE DEF partial
  <2> QED BY <1>1, ReadIs DEF ChainOK, Ready
<1>3. \A p \in ObservablePins(Cells(d)) :
        GetPin(DecodeBoundaryScan(Cells(d), filter, read), p) =
          IF filter = {} \/ p \in filter
          THEN IF image[d][PinCell(d, p)] = 1 THEN "high" ELSE "low" ELSE "unknown"
  BY DecodeScanIs
<1> QED BY <1>2, <1>3

LEMMA SampleDrInv == ASSUME ToolsInv, SampleDr PROVE ToolsInv'
<1> DEFINE partial(d) == MaxNeededBsrBits(Cells(d), scanners[d].filter)
           raw(d, image) == ReadOut(d, partial(d), DrScan(image, ReadIn(d, partial(d))).out)
<1>1. PICK d \in Dev, use \in Uses, image \in Images :
        /\ Head1 = <<"sample_dr", d, use>>
        /\ \/ /\ Read(d, partial(d), image)
              /\ job' = [job EXCEPT !.todo = Then(<< <<use, d>> >>), !.raw = raw(d, image),
                   !.states = DecodeBoundaryScan(Cells(d), scanners[d].filter, raw(d, image))]
              /\ seen' = [seen EXCEPT ![d] = image[d]]
              /\ UNCHANGED scanners
           \/ /\ ReadFails(d, partial(d), image)
              /\ NoSample(d, use, TRUE)
              /\ UNCHANGED seen
        /\ UNCHANGED drivers
  BY Zenon DEF SampleDr
<1>2. JobOK /\ Head1 # <<"none">> /\ BoardOK /\ ChainOK /\ IrOK /\ LatchesOK
  BY <1>1 DEF ToolsInv, BoardOK
<1>3. Ready(d) /\ ir = Only(d, "SAMPLE") /\ (use = "answer_all" => scanners[d].filter = {})
  BY <1>1 DEF ToolsInv, HeadOK
<1>4. PICK filter, in, out, r, states :
        /\ filter = scanners[d].filter /\ in = ReadIn(d, partial(d)) /\ out = DrScan(image, in)
        /\ r = raw(d, image) /\ states = DecodeBoundaryScan(Cells(d), filter, r)
  OBVIOUS
<1>5. in \in Seq(Bits)
      /\ \A p \in ObservablePins(Cells(d)) :
           GetPin(states, p) =
             IF filter = {} \/ p \in filter
             THEN IF image[d][PinCell(d, p)] = 1 THEN "high" ELSE "low" ELSE "unknown"
  BY <1>2, <1>3, <1>4, SampleDrIs
<1>6. UNCHANGED <<devices, ir>> /\ latch' \in {latch, DrScan(image, in).latch}
  BY <1>1, <1>4 DEF Read, ReadFails
<1>7. "SAMPLE" \in Instructions
  BY DEF Instructions
<1>8. LatchesOK'
  <2>1. LatchOK(latch) /\ LatchOK(seen)
    BY <1>2 DEF LatchesOK
  <2>2. LatchOK(latch)'
    BY <2>1, <1>3, <1>5, <1>6, <1>7, ScanStep
  <2>3. LatchOK(seen)'
    BY <2>1, <1>1, SeenStep
  <2> QED BY <2>2, <2>3 DEF LatchesOK
<1> HIDE DEF partial, raw
<1>9. CASE /\ job' = [job EXCEPT !.todo = Then(<< <<use, d>> >>), !.raw = r, !.states = states]
           /\ seen' = [seen EXCEPT ![d] = image[d]]
           /\ UNCHANGED scanners
  <2>1. BoardOK'
    BY <1>1, <1>2, <1>6, <1>8, <1>9, BoardFrame DEF BoardOK
  <2>2. <<use, d>> \in BoundSteps
    BY DEF BoundSteps
  <2>3. job' = [job EXCEPT !.todo = Then(<< <<use, d>> >>), !.states = states, !.raw = r]
    BY <1>2, <1>9 DEF JobOK, JobShape, Idle
  <2>4. JobOK' /\ Head1' = <<use, d>> /\ job'.states = states /\ job'.raw = r
    BY <1>2, <2>2, <2>3, UseBound
  <2>5. seen'[d] = image[d] /\ scanners'[d].filter = filter
    BY <1>2, <1>4, <1>9 DEF LatchesOK, LatchOK
  <2>6. SampleIs(d)'
    BY <1>5, <2>4, <2>5 DEF SampleIs, Level, PinCell, Cells
  <2>7. Ready(d)'
    BY <1>3, <1>6 DEF Ready, InRange
  <2>8. HeadOK'
    BY <1>3, <1>4, <2>4, <2>5, <2>6, <2>7 DEF HeadOK, Uses
  <2> QED BY <2>1, <2>4, <2>8 DEF ToolsInv
<1>10. CASE NoSample(d, use, TRUE) /\ UNCHANGED seen
  <2>1. ScannersOK' /\ JobOK' /\ HeadOK'
    BY <1>2, <1>3, <1>6, <1>10, NoSampleStep
  <2>2. BoardOK'
    BY <1>1, <1>2, <1>6, <1>8, <2>1, BoardFrame DEF BoardOK
  <2> QED BY <2>1, <2>2 DEF ToolsInv
<1> QED BY <1>1, <1>4, <1>9, <1>10

-----------------------------------------------------------------------------
(* The invariant is inductive: the IDCODE and the pin drivers              *)

\* An IDCODE that is not read leaves an error in the scanner.
LEMMA NoIdCodeStep ==
  ASSUME BoardOK, UNCHANGED devices, NEW d \in Dev, NEW err, NoIdCode(d, err)
  PROVE  ScannersOK'
<1>1. scanners' = [scanners EXCEPT ![d].error = err]
  BY DEF NoIdCode
<1> QED BY <1>1 DEF BoardOK, ScannersOK, InRange, NoScanner

LEMMA IdCodeIrInv == ASSUME ToolsInv, IdCodeIr PROVE ToolsInv'
<1>1. PICK d \in Dev :
        /\ Head1 = <<"idcode_ir", d>>
        /\ \/ /\ Ready(d)
              /\ Select(d, Board[d].ops["IDCODE"])
              /\ Go(<< <<"idcode_dr", d>> >>)
              /\ UNCHANGED scanners
           \/ /\ Ready(d)
              /\ SelectFails(d, Board[d].ops["IDCODE"])
              /\ NoIdCode(d, chain_error)
           \/ /\ NoIdCode(d, TRUE)
              /\ UNCHANGED <<devices, chain_error, ir, latch, used>>
        /\ UNCHANGED <<drivers, seen>>
  BY Zenon DEF IdCodeIr
<1>2. JobOK /\ Head1 # <<"none">> /\ BoardOK /\ ChainOK /\ IrOK
  BY <1>1 DEF ToolsInv, BoardOK
<1>3. "IDCODE" \in Instructions /\ "IDCODE" # "EXTEST"
  BY DEF Instructions
<1>4. CASE Ready(d) /\ Select(d, Board[d].ops["IDCODE"]) /\ Go(<< <<"idcode_dr", d>> >>)
           /\ UNCHANGED scanners
  <2>1. ir' = Only(d, "IDCODE") /\ IrOK' /\ UNCHANGED <<devices, latch>>
    BY <1>2, <1>3, <1>4, SelectStep DEF Ready
  <2>2. BoardOK'
    BY <1>1, <1>2, <1>4, <2>1, BoardFrame DEF BoardOK
  <2>3. <<"idcode_dr", d>> \in BoundSteps
    BY DEF BoundSteps
  <2>4. JobOK' /\ Head1' = <<"idcode_dr", d>>
    BY <1>2, <1>4, <2>3, GoBound
  <2>5. Ready(d)'
    BY <1>4, <2>1 DEF Ready, InRange
  <2>6. HeadOK'
    BY <2>1, <2>4, <2>5 DEF HeadOK, Uses
  <2> QED BY <2>2, <2>4, <2>6 DEF ToolsInv
<1>5. ASSUME NEW err, NoIdCode(d, err), IrOK', UNCHANGED <<devices, latch>>
      PROVE  ToolsInv'
  <2>1. ScannersOK'
    BY <1>2, <1>5, NoIdCodeStep
  <2>2. BoardOK'
    BY <1>1, <1>2, <1>5, <2>1, BoardFrame DEF BoardOK
  <2>3. PlainJob'
    BY <1>2, <1>5, ThrowPlain DEF NoIdCode
  <2> QED BY <2>2, <2>3, PlainEnd
<1>6. ASSUME Ready(d), SelectFails(d, Board[d].ops["IDCODE"]) PROVE IrOK' /\ UNCHANGED <<devices, latch>>
  BY <1>2, <1>3, <1>6, SelectStep DEF Ready
<1>7. UNCHANGED ir => IrOK'
  BY <1>2, BoardFrame
<1> QED BY <1>1, <1>4, <1>5, <1>6, <1>7

LEMMA IdCodeDrInv == ASSUME ToolsInv, IdCodeDr PROVE ToolsInv'
<1>1. PICK d \in Dev, image \in Images :
        /\ Head1 = <<"idcode_dr", d>>
        /\ latch' \in {latch, DrScan(image, Zeros(IdBits + Others)).latch}
        /\ \/ (\E raw : job' = [job EXCEPT !.todo = Tail(@), !.raw = raw]) /\ UNCHANGED scanners
           \/ NoIdCode(d, TRUE)
        /\ UNCHANGED <<devices, chain_error, ir, drivers, seen>>
  BY DEF IdCodeDr
<1>2. JobOK /\ Head1 # <<"none">> /\ BoardOK /\ ChainOK /\ LatchesOK
  BY <1>1 DEF ToolsInv, BoardOK
<1>3. ir = Only(d, "IDCODE")
  BY <1>1 DEF ToolsInv, HeadOK
<1>4. LatchesOK'
  <2>1. PICK in : in = Zeros(IdBits + Others)
    OBVIOUS
  <2>2. DrScan(image, in).latch = [e \in Dev |-> latch[e]]
    <3>1. \A e \in Dev : ~OnBoundary(e)
      BY <1>3 DEF OnBoundary, Only
    <3> QED BY <3>1 DEF DrScan
  <2>3. \A e \in Dev : latch'[e] = latch[e]
    BY <1>1, <2>1, <2>2
  <2>4. DOMAIN latch' = Dev
    BY <1>1, <1>2, <2>1, <2>2 DEF LatchesOK, LatchOK
  <2> QED BY <1>1, <1>2, <2>3, <2>4 DEF LatchesOK, LatchOK
<1>5. BoardOK'
  <2>1. ScannersOK'
    BY <1>1, <1>2, BoardFrame, NoIdCodeStep
  <2> QED BY <1>1, <1>2, <1>4, <2>1, BoardFrame DEF BoardOK
<1>6. PlainJob'
  <2>1. CASE \E raw : job' = [job EXCEPT !.todo = Tail(@), !.raw = raw]
    <3>1. PICK raw, t : t = Tail(job.todo) /\ job' = [job EXCEPT !.todo = t, !.raw = raw]
      BY <2>1
    <3>2. DOMAIN job' = DOMAIN job /\ job'.samples = job.samples /\ job'.todo = t
      BY <1>2, <3>1 DEF JobOK, JobShape, Idle
    <3> QED BY <1>2, <3>1, <3>2, HeadFacts DEF PlainJob, JobShape, JobOK
  <2> QED BY <1>1, <1>2, <2>1, ThrowPlain DEF NoIdCode
<1> QED BY <1>5, <1>6, PlainEnd

\* captureCurrentState() that failed leaves the safe values.
LEMMA NoCaptureStep ==
  ASSUME ToolsInv, Head1 # <<"none">>, NEW d \in Dev, Ready(d), NoCapture(d), UNCHANGED devices
  PROVE  DriversOK' /\ PlainJob'
<1>1. JobOK /\ BoardOK
  BY DEF ToolsInv
<1>2. drivers' = [drivers EXCEPT ![d].bsr = InitBsrFromSafeValues(Cells(d))] /\ Done
  BY DEF NoCapture
<1> QED BY <1>1, <1>2, DonePlain, DriverStep, SnapshotIs

LEMMA CaptureIrInv == ASSUME ToolsInv, CaptureIr PROVE ToolsInv'
<1>1. PICK d \in Dev :
        /\ Head1 = <<"capture_ir", d>>
        /\ \/ /\ Select(d, Board[d].ops["SAMPLE"])
              /\ Go(<< <<"capture_dr", d>> >>)
              /\ UNCHANGED drivers
           \/ /\ SelectFails(d, Board[d].ops["SAMPLE"])
              /\ NoCapture(d)
        /\ UNCHANGED <<scanners, seen>>
  BY Zenon DEF CaptureIr
<1>2. JobOK /\ Head1 # <<"none">> /\ BoardOK /\ ChainOK /\ IrOK /\ Ready(d)
  BY <1>1 DEF ToolsInv, BoardOK, HeadOK
<1>3. "SAMPLE" \in Instructions /\ "SAMPLE" # "EXTEST"
  BY DEF Instructions
<1>4. CASE Select(d, Board[d].ops["SAMPLE"]) /\ Go(<< <<"capture_dr", d>> >>) /\ UNCHANGED drivers
  <2>1. ir' = Only(d, "SAMPLE") /\ IrOK' /\ UNCHANGED <<devices, latch>>
    BY <1>2, <1>3, <1>4, SelectStep DEF Ready
  <2>2. BoardOK'
    BY <1>1, <1>2, <1>4, <2>1, BoardFrame DEF BoardOK
  <2>3. <<"capture_dr", d>> \in BoundSteps
    BY DEF BoundSteps
  <2>4. JobOK' /\ Head1' = <<"capture_dr", d>>
    BY <1>2, <1>4, <2>3, GoBound
  <2>5. Ready(d)'
    BY <1>2, <2>1 DEF Ready, InRange
  <2>6. HeadOK'
    BY <2>1, <2>4, <2>5 DEF HeadOK, Uses
  <2> QED BY <2>2, <2>4, <2>6 DEF ToolsInv
<1>5. CASE SelectFails(d, Board[d].ops["SAMPLE"]) /\ NoCapture(d)
  <2>1. IrOK' /\ UNCHANGED <<devices, latch>>
    BY <1>2, <1>3, <1>5, SelectStep DEF Ready
  <2>2. DriversOK' /\ PlainJob'
    BY <1>2, <1>5, <2>1, NoCaptureStep
  <2>3. BoardOK'
    BY <1>1, <1>2, <2>1, <2>2, BoardFrame DEF BoardOK
  <2> QED BY <2>2, <2>3, PlainEnd
<1> QED BY <1>1, <1>4, <1>5

LEMMA CaptureDrInv == ASSUME ToolsInv, CaptureDr PROVE ToolsInv'
<1>1. PICK d \in Dev, image \in Images :
        /\ Head1 = <<"capture_dr", d>>
        /\ latch' \in {latch, DrScan(image, ReadIn(d, 0)).latch}
        /\ UNCHANGED <<devices, ir>>
        /\ \/ /\ \E raw : drivers' = [drivers EXCEPT ![d].bsr = ApplyBsrSnapshot(Cells(d), raw)]
              /\ seen' = [seen EXCEPT ![d] = image[d]]
              /\ Done
           \/ NoCapture(d) /\ UNCHANGED seen
        /\ UNCHANGED scanners
  BY DEF CaptureDr, Read, ReadFails
<1>2. JobOK /\ Head1 # <<"none">> /\ BoardOK /\ ChainOK /\ IrOK /\ LatchesOK
  BY <1>1 DEF ToolsInv, BoardOK
<1>3. Ready(d) /\ ir = Only(d, "SAMPLE")
  BY <1>1 DEF ToolsInv, HeadOK
<1>4. LatchesOK'
  <2>1. LatchOK(latch) /\ LatchOK(seen) /\ "SAMPLE" \in Instructions
    BY <1>2 DEF LatchesOK, Instructions
  <2>2. ReadIn(d, 0) \in Seq(Bits)
    BY <1>2, <1>3, ReadIs DEF ChainOK, Ready
  <2>3. LatchOK(latch)'
    BY <2>1, <2>2, <1>1, <1>3, ScanStep
  <2>4. LatchOK(seen)'
    BY <2>1, <1>1, SeenStep
  <2> QED BY <2>3, <2>4 DEF LatchesOK
<1>5. DriversOK' /\ PlainJob'
  <2>1. CASE (\E raw : drivers' = [drivers EXCEPT ![d].bsr = ApplyBsrSnapshot(Cells(d), raw)]) /\ Done
    <3>1. PICK raw : drivers' = [drivers EXCEPT ![d].bsr = ApplyBsrSnapshot(Cells(d), raw)]
      BY <2>1
    <3>2. DriversOK'
      BY <1>1, <1>2, <1>3, <3>1, DriverStep, SnapshotIs
    <3>3. PlainJob'
      BY <1>2, <2>1, DonePlain
    <3> QED BY <3>2, <3>3
  <2>2. CASE NoCapture(d)
    BY <1>1, <1>2, <1>3, <2>2, NoCaptureStep
  <2> QED BY <1>1, <2>1, <2>2
<1>6. BoardOK'
  BY <1>1, <1>2, <1>4, <1>5, BoardFrame DEF BoardOK
<1> QED BY <1>5, <1>6, PlainEnd

LEMMA ExtestIrInv == ASSUME ToolsInv, ExtestIr PROVE ToolsInv'
<1>1. PICK d \in Dev :
        /\ Head1 = <<"extest_ir", d>>
        /\ \/ Select(d, Board[d].ops["EXTEST"]) /\ Go(<< <<"extest_dr", d>> >>)
           \/ SelectFails(d, Board[d].ops["EXTEST"]) /\ Abort
        /\ UNCHANGED <<scanners, drivers, seen>>
  BY Zenon DEF ExtestIr
<1>2. JobOK /\ Head1 # <<"none">> /\ BoardOK /\ ChainOK /\ IrOK
  BY <1>1 DEF ToolsInv, BoardOK
<1>3. ExtestAllowed(d) /\ drivers[d].bsr # <<>>
  BY <1>1 DEF ToolsInv, HeadOK
<1>4. "EXTEST" \in Instructions /\ ~Board[d].live /\ InRange(d)
  BY <1>3 DEF Instructions, ExtestAllowed, Ready
<1>5. CASE Select(d, Board[d].ops["EXTEST"]) /\ Go(<< <<"extest_dr", d>> >>)
  <2>1. ir' = Only(d, "EXTEST") /\ IrOK' /\ UNCHANGED <<devices, latch>>
    BY <1>2, <1>4, <1>5, SelectStep
  <2>2. BoardOK'
    BY <1>1, <1>2, <2>1, BoardFrame DEF BoardOK
  <2>3. <<"extest_dr", d>> \in BoundSteps
    BY DEF BoundSteps
  <2>4. JobOK' /\ Head1' = <<"extest_dr", d>>
    BY <1>2, <1>5, <2>3, GoBound
  <2>5. ExtestAllowed(d)' /\ drivers' = drivers
    BY <1>1, <1>3, <2>1 DEF ExtestAllowed, Ready, InRange
  <2>6. HeadOK'
    BY <1>3, <2>1, <2>4, <2>5 DEF HeadOK, Uses
  <2> QED BY <2>2, <2>4, <2>6 DEF ToolsInv
<1>6. CASE SelectFails(d, Board[d].ops["EXTEST"]) /\ Abort
  <2>1. IrOK' /\ UNCHANGED <<devices, latch>>
    BY <1>2, <1>4, <1>6, SelectStep
  <2>2. PlainJob'
    BY <1>2, <1>6, AbortPlain
  <2>3. BoardOK'
    BY <1>1, <1>2, <2>1, BoardFrame DEF BoardOK
  <2> QED BY <2>2, <2>3, PlainEnd
<1> QED BY <1>1, <1>5, <1>6

LEMMA ExtestDrInv == ASSUME ToolsInv, ExtestDr PROVE ToolsInv'
<1>1. PICK d \in Dev, image \in Images :
        /\ Head1 = <<"extest_dr", d>>
        /\ latch' \in {latch, DrScan(image, WriteIn(d, drivers[d].bsr)).latch}
        /\ UNCHANGED <<devices, ir>>
        /\ Done \/ Abort
        /\ UNCHANGED <<scanners, drivers, seen>>
  BY DEF ExtestDr, Write, WriteFails
<1>2. JobOK /\ Head1 # <<"none">> /\ BoardOK /\ ChainOK /\ LatchesOK /\ DriversOK
  BY <1>1 DEF ToolsInv, BoardOK
<1>3. ExtestAllowed(d) /\ drivers[d].bsr # <<>> /\ ir = Only(d, "EXTEST")
  BY <1>1 DEF ToolsInv, HeadOK
<1>4. LatchesOK'
  <2>1. LatchOK(latch) /\ LatchOK(seen) /\ "EXTEST" \in Instructions
    BY <1>2 DEF LatchesOK, Instructions
  <2>2. WriteIn(d, drivers[d].bsr) \in Seq(Bits)
    <3>1. drivers[d].bsr \in [1 .. Len(Cells(d)) -> Bits]
      BY <1>2, <1>3 DEF DriversOK
    <3> QED BY <3>1, <1>1, <1>2, <1>3, WriteIs DEF ChainOK, ExtestAllowed, Ready
  <2>3. LatchOK(latch)'
    BY <2>1, <2>2, <1>1, <1>3, ScanStep
  <2> QED BY <2>1, <2>3, <1>1 DEF LatchesOK, LatchOK
<1>5. BoardOK'
  BY <1>1, <1>2, <1>4, BoardFrame DEF BoardOK
<1>6. PlainJob'
  BY <1>1, <1>2, DonePlain, AbortPlain
<1> QED BY <1>5, <1>6, PlainEnd

-----------------------------------------------------------------------------
(* What the invariant gives                                                *)

LEMMA ToolsInitInv == ToolsInit => ToolsInv
<1> SUFFICES ASSUME ToolsInit PROVE ToolsInv
  OBVIOUS
<1>1. ChainOK /\ IrOK
  BY DEF ToolsInit, ChainInit, ChainOK, ChainStates, IrOK, NoLiveExtest, IrReset, Kinds, Instructions
<1>2. LatchesOK
  <2>1. \A d \in Dev : Zeros(Len(Cells(d))) \in [1 .. Len(Cells(d)) -> Bits]
    BY DEF Zeros, Bits
  <2> QED BY <2>1 DEF ToolsInit, ChainInit, LatchesOK, LatchOK, Cells
<1>3. ScannersOK /\ DriversOK
  BY DEF ToolsInit, ScannersOK, DriversOK, NoScanner, NoDriver
<1>4. job = Idle /\ job.todo = <<>>
  BY DEF ToolsInit, Idle
<1>5. JobOK
  BY <1>4 DEF JobOK, JobShape, TodoOK, Idle
<1>6. Head1 = <<"none">>
  BY <1>4 DEF Head1, Ended
<1>7. HeadOK
  BY <1>6, PlainHead DEF HeadOK
<1> QED BY <1>1, <1>2, <1>3, <1>5, <1>7 DEF ToolsInv, BoardOK

LEMMA ToolsStepInv == ToolsInv /\ [ToolsNext]_tool_vars => ToolsInv'
<1> SUFFICES ASSUME ToolsInv, [ToolsNext]_tool_vars PROVE ToolsInv'
  OBVIOUS
<1>1. CASE Call
  BY <1>1, CallInv
<1>2. CASE Step
  BY <1>2, DetectInv, LoadInv, GetScannerInv, GetDriverInv, SampleAllInv, StartCaptureInv,
     SampleIrInv, SampleDrInv, IdCodeIrInv, IdCodeDrInv, AnswerSampleInv, FramesInv,
     CaptureIrInv, CaptureDrInv, StagePinInv, ApplyInv, ExtestIrInv, ExtestDrInv,
     ScriptInv, WrongInv, SampledInv, ExpectInv, ResetToSafeInv,
     DriveInv, TryStageInv, ObserveInv, KeepInv, CheckInv DEF Step
<1>3. CASE UNCHANGED tool_vars
  <2>1. BoardOK'
    BY <1>3, BoardFrame DEF ToolsInv, BoardOK, tool_vars
  <2>2. Head1' = Head1 /\ JobOK'
    BY <1>3 DEF tool_vars, ToolsInv, JobOK, JobShape, TodoOK, Head1, Ended
  <2>3. HeadOK'
    BY <1>3, <2>2 DEF tool_vars, ToolsInv, HeadOK, Ready, InRange, ExtestAllowed, SampleIs, Level
  <2> QED BY <2>1, <2>2, <2>3 DEF ToolsInv
<1> QED BY <1>1, <1>2, <1>3 DEF ToolsNext

\* The inductive invariant: what the driver objects, the latches, the stored
\* values and the list of steps are, on every board.
THEOREM ToolsInvariant == ToolsSpec => []ToolsInv
<1> QED BY ToolsInitInv, ToolsStepInv, PTL DEF ToolsSpec

\* The safety guard holds on every board, whatever tools, scripts and tests run
\* and whichever scans fail: a device with live pins of the processing system
\* never executes EXTEST.
THEOREM ExtestGuarded == ToolsSpec => []NoLiveExtest
<1>1. ToolsInv => NoLiveExtest
  BY DEF ToolsInv, BoardOK, IrOK
<1> QED BY <1>1, ToolsInvariant, PTL

-----------------------------------------------------------------------------
(* set_pin                                                                 *)

\* The value is in the buffer of the pin driver.
Staged == /\ drivers[job.dev].bsr # <<>>
          /\ GetStagedPinValue(drivers[job.dev].bsr, Cells(job.dev), job.pin) = job.value

\* The list of hardware/set_pin, from its first step to its last.
SetPinTodo ==
  LET d == job.dev
      stage == <<"stage", d, job.pin, job.value>>
      apply == <<"apply", d>>
  IN  \/ job.todo \in {<< <<"driver", d>>, stage, apply>>, << <<"capture_ir", d>>, stage, apply>>,
                       << <<"capture_dr", d>>, stage, apply>>, <<stage, apply>>}
      \/ job.todo \in {<<apply>>, << <<"extest_ir", d>> >>, << <<"extest_dr", d>> >>} /\ Staged
      \/ job.todo = <<>> /\ (job.ok => Staged /\ ir[d] = "EXTEST" /\ latch[d] = drivers[d].bsr)
SetPinInv ==
  job.tool = "set_pin" => /\ job.dev \in Dev /\ job.pin \in Pins /\ job.value \in -1 .. 1
                          /\ SetPinTodo

\* What the driver has staged is what the pins are driven with once EXTEST is
\* selected and the latches are loaded.
LEMMA PadIs ==
  ASSUME NEW d \in Dev, NEW p, LatchOK(latch), ir[d] = "EXTEST", latch[d] = drivers[d].bsr
  PROVE  Pad(d, p) = GetStagedPinValue(drivers[d].bsr, Cells(d), p)
<1> DEFINE m == Len(Cells(d))
           out == Min(OutputCells(Cells(d), p))
           ctl == Cells(d)[out].disabled_by
           off == Cells(d)[out].disable_value
           l == latch[d]
<1>1. m \in Nat /\ l \in [1 .. m -> Bits]
  BY DeviceFacts DEF LatchOK
<1>2. CASE OutputCells(Cells(d), p) = {}
  BY <1>2 DEF Pad, GetStagedPinValue
<1>3. CASE OutputCells(Cells(d), p) # {}
  <2>1. out \in 1 .. m
    BY <1>3, CellFacts
  <2>2. ctl # 0 => ctl \in 1 .. m
    BY <2>1, CellsAssumption
  <2>3. \A i \in 1 .. m : (IF GetBit(l, i) THEN 1 ELSE 0) = l[i]
    <3> HIDE DEF m, l
    <3>1. Len(l) = m /\ \A i \in 1 .. m : l[i] \in Bits
      BY <1>1
    <3> QED BY <3>1 DEF GetBit, Bits
  <2>4. Pad(d, p) = IF ctl # 0 /\ l[ctl] = off THEN -1 ELSE l[out]
    BY <1>3 DEF Pad
  <2>5. GetStagedPinValue(l, Cells(d), p) =
          IF ctl # 0 /\ (IF GetBit(l, ctl) THEN 1 ELSE 0) = off THEN -1
          ELSE IF GetBit(l, out) THEN 1 ELSE 0
    BY <1>3 DEF GetStagedPinValue, Output
  <2> HIDE DEF m, out, ctl, off
  <2>6. Pad(d, p) = GetStagedPinValue(l, Cells(d), p)
    BY <2>1, <2>2, <2>3, <2>4, <2>5
  <2> QED BY <2>6
<1> QED BY <1>2, <1>3

\* Which job runs is settled when it begins, and what it has reported stays.
SameCall == /\ UNCHANGED <<job.tool, job.dev, job.pin, job.value>>
            /\ job.steps \in Seq(BOOLEAN) => job'.steps \in Seq(BOOLEAN)

LEMMA StepTool ==
  ASSUME JobOK, Step
  PROVE  SameCall
<1>0. \A s \in Seq(BOOLEAN), b \in BOOLEAN : Append(s, b) \in Seq(BOOLEAN)
  OBVIOUS
<1>1. ASSUME Throw PROVE SameCall
  BY <1>1 DEF SameCall, Throw, JobOK, JobShape, Idle
<1>2. ASSUME NEW steps, Go(steps)
      PROVE SameCall
  BY <1>2 DEF SameCall, Go, JobOK, JobShape, Idle
<1>3. ASSUME Done PROVE SameCall
  BY <1>2, <1>3 DEF Done
<1>4. ASSUME Abort PROVE SameCall
  BY <1>0, <1>1, <1>4 DEF SameCall, Abort, JobOK, JobShape, Idle
<1>5. ASSUME NEW steps, job' = [job EXCEPT !.todo = steps \o @]
      PROVE SameCall
  BY <1>5 DEF SameCall, JobOK, JobShape, Idle
<1>6. ASSUME DoDetect \/ DoLoad \/ GetScanner \/ GetDriver \/ SampleAll \/ IdCodeIr \/ AnswerSample
      PROVE SameCall
  BY <1>1, <1>2, <1>3, <1>6 DEF DoDetect, DoLoad, GetScanner, GetDriver, SampleAll, IdCodeIr, NoIdCode, AnswerSample
<1>7. ASSUME StartCapture \/ IdCodeDr \/ Frames
      PROVE SameCall
  BY <1>1, <1>3, <1>7 DEF SameCall, StartCapture, IdCodeDr, NoIdCode, Frames, JobOK, JobShape, Idle
<1>8. ASSUME NEW d, NEW use, NEW err, NoSample(d, use, err)
      PROVE SameCall
  BY <1>8 DEF SameCall, NoSample, JobOK, JobShape, Idle
<1>9. ASSUME SampleIr
      PROVE SameCall
  BY <1>2, <1>8, <1>9 DEF SampleIr
<1>10. ASSUME SampleDr PROVE SameCall
  <2> DEFINE partial(d) == MaxNeededBsrBits(Cells(d), scanners[d].filter)
             raw(d, image) == ReadOut(d, partial(d), DrScan(image, ReadIn(d, partial(d))).out)
  <2>1. ASSUME NEW t, NEW r, NEW s, job' = [job EXCEPT !.todo = t, !.raw = r, !.states = s]
        PROVE SameCall
    BY <2>1 DEF SameCall, JobOK, JobShape, Idle
  <2>2. PICK d \in Dev, use \in Uses, image \in Images :
          \/ job' = [job EXCEPT !.todo = Then(<< <<use, d>> >>), !.raw = raw(d, image),
                       !.states = DecodeBoundaryScan(Cells(d), scanners[d].filter, raw(d, image))]
          \/ NoSample(d, use, TRUE)
    BY <1>10, Zenon DEF SampleDr
  <2> HIDE DEF raw
  <2> QED BY <2>1, <2>2, <1>8, Zenon
<1>11. ASSUME CaptureIr \/ CaptureDr \/ ExtestIr \/ ExtestDr \/ Wrong \/ Sampled \/ Expect \/ ResetToSafe \/ Drive
      PROVE SameCall
  BY <1>2, <1>3, <1>4, <1>11, Zenon
     DEF CaptureIr, CaptureDr, ExtestIr, ExtestDr, Wrong, Sampled, Expect, ResetToSafe, Drive, NoCapture
<1>12. ASSUME StagePin \/ Apply \/ TryStage
      PROVE SameCall
  BY <1>2, <1>3, <1>4, <1>5, <1>12, Zenon DEF StagePin, Apply, TryStage
<1>13. ASSUME Script \/ Observe \/ Keep
      PROVE SameCall
  BY <1>0, <1>5, <1>13 DEF SameCall, Script, Observe, Keep, JobOK, JobShape, Idle
<1>14. ASSUME Check
      PROVE SameCall
  <2>1. PICK pass \in BOOLEAN :
          job' = [job EXCEPT !.todo = Tail(job.todo), !.steps = Append(job.steps, pass), !.ok = job.ok /\ pass]
    BY <1>14 DEF Check
  <2>2. PICK t, s, ok : s = Append(job.steps, pass) /\ job' = [job EXCEPT !.todo = t, !.steps = s, !.ok = ok]
    BY <2>1, Zenon
  <2> QED BY <1>0, <2>2 DEF SameCall, JobOK, JobShape, Idle
<1> QED BY <1>6, <1>7, <1>9, <1>10, <1>11, <1>12, <1>13, <1>14 DEF Step

\* Short lists of steps.
LEMMA SeqEq ==
  ASSUME NEW S, NEW s \in Seq(S), NEW t \in Seq(S), Len(s) = Len(t),
         \A i \in 1 .. Len(s) : s[i] = t[i]
  PROVE  s = t
  OBVIOUS

LEMMA OneAndTwo == ASSUME NEW a, NEW b, NEW c PROVE <<a>> \o <<b, c>> = <<a, b, c>>
<1> DEFINE u == <<a>> \o <<b, c>>
           w == <<a, b, c>>
           S == {a, b, c}
<1>1. Len(u) = 3 /\ u[1] = a /\ u[2] = b /\ u[3] = c
  OBVIOUS
<1>2. Len(w) = 3 /\ w[1] = a /\ w[2] = b /\ w[3] = c
  OBVIOUS
<1>3. u \in Seq(S) /\ w \in Seq(S)
  OBVIOUS
<1> HIDE DEF u, w, S
<1>4. \A i \in 1 .. 3 : u[i] = w[i]
  BY <1>1, <1>2
<1>5. u = w
  BY <1>1, <1>2, <1>3, <1>4, SeqEq
<1> QED BY <1>5 DEF u, w

LEMMA TwoAndOne == ASSUME NEW a, NEW b, NEW c PROVE <<a, b>> \o <<c>> = <<a, b, c>>
<1> DEFINE u == <<a, b>> \o <<c>>
           w == <<a, b, c>>
           S == {a, b, c}
<1>1. Len(u) = 3 /\ u[1] = a /\ u[2] = b /\ u[3] = c
  OBVIOUS
<1>2. Len(w) = 3 /\ w[1] = a /\ w[2] = b /\ w[3] = c
  OBVIOUS
<1>3. u \in Seq(S) /\ w \in Seq(S)
  OBVIOUS
<1> HIDE DEF u, w, S
<1>4. \A i \in 1 .. 3 : u[i] = w[i]
  BY <1>1, <1>2
<1>5. u = w
  BY <1>1, <1>2, <1>3, <1>4, SeqEq
<1> QED BY <1>5 DEF u, w

LEMMA ShortLists ==
  ASSUME NEW a, NEW b, NEW c
  PROVE  /\ <<a, b, c>> # <<>> /\ Head(<<a, b, c>>) = a /\ Tail(<<a, b, c>>) = <<b, c>>
         /\ <<a, b>> # <<>> /\ Head(<<a, b>>) = a /\ Tail(<<a, b>>) = <<b>>
         /\ <<a>> # <<>> /\ Head(<<a>>) = a /\ Tail(<<a>>) = <<>> /\ <<a>> \o <<>> = <<a>>
OBVIOUS

LEMMA CallSetPin ==
  ASSUME ToolsInv, Call
  PROVE  SetPinInv'
<1>1. ASSUME NEW tool, NEW d, NEW p, NEW v, NEW todo, tool # "set_pin", BeginPin(tool, d, p, v, todo)
      PROVE SetPinInv'
  <2>1. job'.tool # "set_pin"
    BY <1>1 DEF BeginPin, Idle
  <2> QED BY <2>1 DEF SetPinInv
<1>2. ASSUME NEW tool, NEW d, NEW todo, tool # "set_pin", Begin(tool, d, todo)
      PROVE SetPinInv'
  BY <1>1, <1>2 DEF Begin
<1>3. ASSUME DetectDevices PROVE SetPinInv'
  BY <1>2, <1>3 DEF DetectDevices
<1>4. ASSUME NEW d \in Dev, \/ LoadBsdlFile(d) \/ ListPins(d) \/ SampleBsr(d) \/ ReadIdCode(d)
                            \/ RunScript(d) \/ RunSuite(d)
      PROVE SetPinInv'
  BY <1>2, <1>4 DEF LoadBsdlFile, ListPins, SampleBsr, ReadIdCode, RunScript, RunSuite
<1>5. ASSUME NEW d \in Dev, NEW p \in Pins, ReadPin(d, p) PROVE SetPinInv'
  BY <1>1, <1>5 DEF ReadPin
<1>6. ASSUME NEW d \in Dev, NEW p \in Pins, NEW v \in -1 .. 1, SetPin(d, p, v) PROVE SetPinInv'
  <2>1. PICK todo : todo = << <<"driver", d>>, <<"stage", d, p, v>>, <<"apply", d>> >>
    OBVIOUS
  <2>2. << <<"driver", d>>, <<"stage", d, p, v>> >> \o << <<"apply", d>> >> = todo
    <3>1. PICK a, b, c : a = <<"driver", d>> /\ b = <<"stage", d, p, v>> /\ c = <<"apply", d>>
      OBVIOUS
    <3>2. <<a, b>> \o <<c>> = <<a, b, c>>
      BY TwoAndOne
    <3> QED BY <3>1, <3>2, <2>1
  <2>3. job' = [Idle EXCEPT !.tool = "set_pin", !.dev = d, !.pin = p, !.value = v, !.todo = todo]
    BY <1>6, <2>2 DEF SetPin, BeginPin, Applying
  <2>4. job'.dev = d /\ job'.pin = p /\ job'.value = v /\ job'.todo = todo
    BY <2>3 DEF Idle
  <2> QED BY <2>1, <2>4 DEF SetPinInv, SetPinTodo
<1>7. ASSUME NEW d \in Dev, NEW f \in Filters, CaptureStart(d, f) PROVE SetPinInv'
  BY <1>2, <1>7 DEF CaptureStart
<1>8. ASSUME NEW net \in Nets, RunInterconnectTest(net) PROVE SetPinInv'
  BY <1>2, <1>8 DEF RunInterconnectTest
<1> QED BY <1>3, <1>4, <1>5, <1>6, <1>7, <1>8 DEF Call

\* The steps a set_pin job can take.
LEMMA SetPinHead ==
  ASSUME SetPinInv, job.tool = "set_pin", Step
  PROVE  GetDriver \/ CaptureIr \/ CaptureDr \/ StagePin \/ Apply \/ ExtestIr \/ ExtestDr
<1>1. Head1[1] \in {"driver", "capture_ir", "capture_dr", "stage", "apply", "extest_ir", "extest_dr", "none"}
  <2>1. PICK d, S, A : d = job.dev /\ S = <<"stage", d, job.pin, job.value>> /\ A = <<"apply", d>>
    OBVIOUS
  <2>2. \/ job.todo \in {<< <<"driver", d>>, S, A>>, << <<"capture_ir", d>>, S, A>>,
                         << <<"capture_dr", d>>, S, A>>}
        \/ job.todo \in {<<S, A>>, <<A>>, << <<"extest_ir", d>> >>, << <<"extest_dr", d>> >>, <<>>}
    BY <2>1 DEF SetPinInv, SetPinTodo
  <2>3. Head1 \in {<<"driver", d>>, <<"capture_ir", d>>, <<"capture_dr", d>>, S, A,
                   <<"extest_ir", d>>, <<"extest_dr", d>>, <<"none">>}
    BY <2>2, ShortLists DEF Head1, Ended
  <2> QED BY <2>1, <2>3
<1>2. ~(DoDetect \/ DoLoad \/ GetScanner \/ SampleAll \/ StartCapture)
  <2>1. DoDetect => Head1 = <<"detect">>
    BY Zenon DEF DoDetect
  <2>2. DoLoad => \E d : Head1 = <<"load", d>>
    BY Zenon DEF DoLoad
  <2>3. GetScanner => \E d : Head1 = <<"scanner", d>>
    BY Zenon DEF GetScanner
  <2>4. SampleAll => \E d : Head1 = <<"sample_all", d>>
    BY Zenon DEF SampleAll
  <2>5. StartCapture => \E d, f : Head1 = <<"capture", d, f>>
    BY Zenon DEF StartCapture
  <2> QED BY <2>1, <2>2, <2>3, <2>4, <2>5, <1>1
<1>3. ~SampleIr
  <2>1. SampleIr => \E d, use : Head1 = <<"sample_ir", d, use>>
    BY Zenon DEF SampleIr
  <2> QED BY <2>1, <1>1
<1>4. ~SampleDr
  <2>1. SampleDr => \E d, use : Head1 = <<"sample_dr", d, use>>
    BY Zenon DEF SampleDr
  <2> QED BY <2>1, <1>1
<1>5. ~(IdCodeIr \/ IdCodeDr \/ AnswerSample \/ Frames)
  <2>1. IdCodeIr => \E d : Head1 = <<"idcode_ir", d>>
    BY Zenon DEF IdCodeIr
  <2>2. IdCodeDr => \E d : Head1 = <<"idcode_dr", d>>
    BY Zenon DEF IdCodeDr
  <2>3. AnswerSample => \E d : Head1 \in {<<"answer", d>>, <<"answer_all", d>>}
    BY Zenon DEF AnswerSample
  <2>4. Frames => \E d : Head1 = <<"frames", d>>
    BY Zenon DEF Frames
  <2> QED BY <2>1, <2>2, <2>3, <2>4, <1>1
<1>6. ~(Script \/ Wrong \/ Sampled \/ Expect \/ ResetToSafe)
  BY <1>1 DEF Script, Wrong, Sampled, Expect, ResetToSafe
<1>7. ~(Drive \/ TryStage \/ Keep)
  <2>1. Drive => \E net, v : Head1 = <<"drive", net, v>>
    BY Zenon DEF Drive
  <2>2. TryStage => \E d, p, v : Head1 = <<"try_stage", d, p, v>>
    BY Zenon DEF TryStage
  <2>3. Keep => \E d : Head1 = <<"keep", d>>
    BY Zenon DEF Keep
  <2> QED BY <2>1, <2>2, <2>3, <1>1
<1>8. ~(Observe \/ Check)
  <2>1. Observe \/ Check => \E net, v : Head1 \in {<<"observe", net, v>>, <<"check", net, v>>}
    BY DEF Observe, Check
  <2> QED BY <2>1, <1>1
<1> QED BY <1>2, <1>3, <1>4, <1>5, <1>6, <1>7, <1>8 DEF Step

\* Its list, by the step it begins with.
LEMMA SetPinPhase ==
  ASSUME SetPinInv, job.tool = "set_pin", Head1 # <<"none">>,
         NEW d, NEW S, NEW A, d = job.dev, S = <<"stage", d, job.pin, job.value>>, A = <<"apply", d>>
  PROVE  /\ job.dev \in Dev /\ job.pin \in Pins /\ job.value \in -1 .. 1
         /\ \A e : Head1 \in {<<"driver", e>>, <<"capture_ir", e>>, <<"capture_dr", e>>} =>
                     e = d /\ Tail(job.todo) = <<S, A>>
         /\ \A e, p, v : Head1 = <<"stage", e, p, v>> =>
                     e = d /\ p = job.pin /\ v = job.value /\ job.todo = <<S, A>>
         /\ \A e : Head1 \in {<<"apply", e>>, <<"extest_ir", e>>, <<"extest_dr", e>>} =>
                     e = d /\ Tail(job.todo) = <<>> /\ Staged /\ (Head1[1] = "apply" => job.todo = <<A>>)
<1>1. job.dev \in Dev /\ job.pin \in Pins /\ job.value \in -1 .. 1
  BY DEF SetPinInv
<1>2. Head1 = Head(job.todo) /\ job.todo # <<>>
  BY DEF Head1, Ended
<1>3. \/ job.todo \in {<< <<"driver", d>>, S, A>>, << <<"capture_ir", d>>, S, A>>,
                       << <<"capture_dr", d>>, S, A>>}
      \/ job.todo = <<S, A>>
      \/ job.todo \in {<<A>>, << <<"extest_ir", d>> >>, << <<"extest_dr", d>> >>} /\ Staged
  BY <1>2 DEF SetPinInv, SetPinTodo
<1>4. \/ /\ Head1 \in {<<"driver", d>>, <<"capture_ir", d>>, <<"capture_dr", d>>}
         /\ Tail(job.todo) = <<S, A>>
      \/ Head1 = S /\ job.todo = <<S, A>>
      \/ /\ (Head1 = A /\ job.todo = <<A>>) \/ Head1 \in {<<"extest_ir", d>>, <<"extest_dr", d>>}
         /\ Tail(job.todo) = <<>> /\ Staged
  <2>1. PICK h1, h2, h3, h4, h5 :
          /\ h1 = <<"driver", d>> /\ h2 = <<"capture_ir", d>> /\ h3 = <<"capture_dr", d>>
          /\ h4 = <<"extest_ir", d>> /\ h5 = <<"extest_dr", d>>
    OBVIOUS
  <2>2. \/ job.todo \in {<<h1, S, A>>, <<h2, S, A>>, <<h3, S, A>>}
        \/ job.todo = <<S, A>>
        \/ job.todo \in {<<A>>, <<h4>>, <<h5>>} /\ Staged
    BY <1>3, <2>1
  <2>3. \A h : Head(<<h, S, A>>) = h /\ Tail(<<h, S, A>>) = <<S, A>>
    BY ShortLists
  <2>4. \A h : Head(<<h>>) = h /\ Tail(<<h>>) = <<>>
    BY ShortLists
  <2>5. Head(<<S, A>>) = S
    BY ShortLists
  <2>6. ASSUME NEW h \in {h1, h2, h3}, job.todo = <<h, S, A>>
        PROVE  Head1 \in {h1, h2, h3} /\ Tail(job.todo) = <<S, A>>
    BY <2>3, <2>6, <1>2
  <2>7. ASSUME NEW h \in {A, h4, h5}, job.todo = <<h>>
        PROVE  Head1 = h /\ Tail(job.todo) = <<>>
    BY <2>4, <2>7, <1>2
  <2>8. \/ Head1 \in {h1, h2, h3} /\ Tail(job.todo) = <<S, A>>
        \/ Head1 = S /\ job.todo = <<S, A>>
        \/ /\ (Head1 = A /\ job.todo = <<A>>) \/ Head1 \in {h4, h5}
           /\ Tail(job.todo) = <<>> /\ Staged
    BY <2>2, <2>5, <2>6, <2>7, <1>2
  <2> QED BY <2>1, <2>8
<1>5. CASE /\ Head1 \in {<<"driver", d>>, <<"capture_ir", d>>, <<"capture_dr", d>>}
           /\ Tail(job.todo) = <<S, A>>
  BY <1>1, <1>5
<1>6. CASE Head1 = S /\ job.todo = <<S, A>>
  BY <1>1, <1>6
<1>7. CASE /\ (Head1 = A /\ job.todo = <<A>>) \/ Head1 \in {<<"extest_ir", d>>, <<"extest_dr", d>>}
           /\ Tail(job.todo) = <<>> /\ Staged
  BY <1>1, <1>7
<1> QED BY <1>4, <1>5, <1>6, <1>7

LEMMA StepSetPin ==
  ASSUME ToolsInv, SetPinInv, job.tool = "set_pin", Step
  PROVE  SetPinInv'
<1>1. BoardOK /\ JobOK /\ ChainOK /\ DriversOK
  BY DEF ToolsInv, BoardOK
<1> DEFINE Phase(t) == job'.todo = t
<1>2. PICK d, p, v, S, A : /\ d = job.dev /\ p = job.pin /\ v = job.value
                           /\ S = <<"stage", d, p, v>> /\ A = <<"apply", d>>
  OBVIOUS
<1>3. d \in Dev /\ p \in Pins /\ v \in -1 .. 1
  BY <1>2 DEF SetPinInv
<1>4. job'.tool = "set_pin" /\ job'.dev = d /\ job'.pin = p /\ job'.value = v
  BY <1>1, <1>2, StepTool DEF SameCall
<1>5. SetPinInv' <=> SetPinTodo'
  BY <1>3, <1>4 DEF SetPinInv
<1>6. SetPinTodo' <=>
        \/ job'.todo \in {<< <<"driver", d>>, S, A>>, << <<"capture_ir", d>>, S, A>>,
                          << <<"capture_dr", d>>, S, A>>, <<S, A>>}
        \/ job'.todo \in {<<A>>, << <<"extest_ir", d>> >>, << <<"extest_dr", d>> >>} /\ Staged'
        \/ job'.todo = <<>> /\ (job'.ok => Staged' /\ ir'[d] = "EXTEST" /\ latch'[d] = drivers'[d].bsr)
  BY <1>2, <1>4 DEF SetPinTodo
<1>7. Staged' <=> drivers'[d].bsr # <<>> /\ GetStagedPinValue(drivers'[d].bsr, Cells(d), p) = v
  BY <1>4 DEF Staged, Cells
<1>8. Staged <=> drivers[d].bsr # <<>> /\ GetStagedPinValue(drivers[d].bsr, Cells(d), p) = v
  BY <1>2 DEF Staged
<1>9. ASSUME Throw PROVE SetPinTodo'
  <2>1. job'.todo = <<>> /\ job'.ok = FALSE
    BY <1>9, <1>1 DEF Throw, JobOK, JobShape, Idle
  <2> QED BY <2>1, <1>6
<1>10. ASSUME Abort PROVE SetPinTodo'
  BY <1>9, <1>10 DEF Abort
<1>11. ASSUME NEW steps, Go(steps) PROVE job'.todo = steps \o Tail(job.todo) /\ job'.ok = job.ok
  BY <1>1, <1>11 DEF Go, Then, JobOK, JobShape, Idle
<1>12. ASSUME Done PROVE job'.todo = Tail(job.todo) /\ job'.ok = job.ok
  <2>1. Tail(job.todo) = <<>> \o Tail(job.todo) \/ Head1 = <<"none">>
    <3>1. CASE Head1 # <<"none">>
      <4>1. Tail(job.todo) \in Seq(PlainSteps)
        BY <3>1, <1>1, HeadFacts
      <4> QED BY <4>1
    <3> QED BY <3>1
  <2>2. Head1 # <<"none">>
    <3>1. \E e, q, w : Head1 \in {<<"driver", e>>, <<"capture_ir", e>>, <<"capture_dr", e>>,
                                <<"stage", e, q, w>>, <<"apply", e>>, <<"extest_ir", e>>, <<"extest_dr", e>>}
      <4>1. GetDriver \/ CaptureIr => \E e : Head1 \in {<<"driver", e>>, <<"capture_ir", e>>}
        BY Zenon DEF GetDriver, CaptureIr
      <4>2. CaptureDr \/ StagePin => \E e, q, w : Head1 \in {<<"capture_dr", e>>, <<"stage", e, q, w>>}
        BY Zenon DEF CaptureDr, StagePin
      <4>3. Apply \/ ExtestIr => \E e : Head1 \in {<<"apply", e>>, <<"extest_ir", e>>}
        BY Zenon DEF Apply, ExtestIr
      <4>4. ExtestDr => \E e : Head1 = <<"extest_dr", e>>
        BY Zenon DEF ExtestDr
      <4> QED BY <4>1, <4>2, <4>3, <4>4, SetPinHead
    <3> QED BY <3>1
  <2> QED BY <1>11, <1>12, <2>1, <2>2 DEF Done
<1>13. ASSUME NEW h, Tail(job.todo) = <<S, A>> PROVE <<h>> \o Tail(job.todo) = <<h, S, A>>
  <2>1. <<h>> \o <<S, A>> = <<h, S, A>>
    BY OneAndTwo
  <2> QED BY <1>13, <2>1
<1>14. CASE GetDriver
  <2>1. PICK e \in Dev : Head1 = <<"driver", e>>
          /\ (Throw \/ Go(Capturing(e)) \/ Go(<<>>))
    BY <1>14, Zenon DEF GetDriver
  <2>2. e = d /\ Tail(job.todo) = <<S, A>>
    BY <2>1, <1>2, SetPinPhase
  <2>3. CASE Go(Capturing(e))
    <3>1. job'.todo = << <<"capture_ir", d>>, S, A>>
      BY <1>11, <1>13, <2>2, <2>3 DEF Capturing
    <3> QED BY <3>1, <1>5, <1>6
  <2>4. CASE Go(<<>>)
    <3>1. job'.todo = <<S, A>>
      BY <1>12, <2>2, <2>4 DEF Done
    <3> QED BY <3>1, <1>5, <1>6
  <2> QED BY <2>1, <2>3, <2>4, <1>5, <1>9
<1>15. CASE CaptureIr
  <2>1. PICK e \in Dev : Head1 = <<"capture_ir", e>> /\ (Go(<< <<"capture_dr", e>> >>) \/ Done)
    BY <1>15, Zenon DEF CaptureIr, NoCapture
  <2>2. e = d /\ Tail(job.todo) = <<S, A>>
    BY <2>1, <1>2, SetPinPhase
  <2>3. CASE Go(<< <<"capture_dr", e>> >>)
    <3>1. job'.todo = << <<"capture_dr", d>>, S, A>>
      BY <1>11, <1>13, <2>2, <2>3
    <3> QED BY <3>1, <1>5, <1>6
  <2>4. CASE Done
    <3>1. job'.todo = <<S, A>>
      BY <1>12, <2>2, <2>4
    <3> QED BY <3>1, <1>5, <1>6
  <2> QED BY <2>1, <2>3, <2>4
<1>16. CASE CaptureDr
  <2>1. PICK e \in Dev : Head1 = <<"capture_dr", e>> /\ Done
    BY <1>16, Zenon DEF CaptureDr, NoCapture
  <2>2. Tail(job.todo) = <<S, A>>
    BY <2>1, <1>2, SetPinPhase
  <2>3. job'.todo = <<S, A>>
    BY <1>12, <2>1, <2>2
  <2> QED BY <2>3, <1>5, <1>6
<1>17. CASE StagePin
  <2>1. PICK e \in Dev, q \in Pins, w \in -1 .. 1 :
          /\ Head1 = <<"stage", e, q, w>>
          /\ \/ Abort
             \/ job' = [job EXCEPT !.todo = Capturing(e) \o @]
             \/ /\ drivers[e].bsr # <<>> /\ Stage(drivers[e].bsr, Cells(e), q, w) # <<>>
                /\ Done
                /\ drivers' = [drivers EXCEPT ![e].bsr = Stage(drivers[e].bsr, Cells(e), q, w)]
    BY <1>17, Zenon DEF StagePin
  <2>2. e = d /\ q = p /\ w = v /\ job.todo = <<S, A>>
    BY <2>1, <1>2, SetPinPhase
  <2>3. CASE job' = [job EXCEPT !.todo = Capturing(e) \o @]
    <3>1. << <<"capture_ir", d>> >> \o <<S, A>> = << <<"capture_ir", d>>, S, A>>
      <4>1. PICK h : h = <<"capture_ir", d>>
        OBVIOUS
      <4>2. <<h>> \o <<S, A>> = <<h, S, A>>
        BY OneAndTwo
      <4> QED BY <4>1, <4>2
    <3>2. job'.todo = << <<"capture_ir", d>>, S, A>>
      BY <3>1, <2>2, <2>3, <1>1 DEF Capturing, JobOK, JobShape, Idle
    <3> QED BY <3>2, <1>5, <1>6
  <2>4. CASE /\ drivers[d].bsr # <<>> /\ Stage(drivers[d].bsr, Cells(d), p, v) # <<>>
             /\ Done
             /\ drivers' = [drivers EXCEPT ![d].bsr = Stage(drivers[d].bsr, Cells(d), p, v)]
    <3>1. drivers[d].bsr \in [1 .. Len(Cells(d)) -> Bits]
      BY <2>4, <1>1, <1>3 DEF DriversOK
    <3>2. PICK staged : staged = Stage(drivers[d].bsr, Cells(d), p, v)
      OBVIOUS
    <3>3. staged # <<>> /\ GetStagedPinValue(staged, Cells(d), p) = v
      BY <3>1, <3>2, <2>4, <1>3, StageIs
    <3>4. drivers'[d].bsr = staged
      BY <3>2, <2>4, <1>1, <1>3 DEF DriversOK, NoDriver
    <3>5. job'.todo = <<A>>
      <4>1. Tail(<<S, A>>) = <<A>>
        BY ShortLists
      <4> QED BY <4>1, <1>12, <2>2, <2>4
    <3> QED BY <3>3, <3>4, <3>5, <1>5, <1>6, <1>7
  <2> QED BY <2>1, <2>2, <2>3, <2>4, <1>5, <1>10
<1>18. CASE Apply
  <2>1. PICK e \in Dev : /\ Head1 = <<"apply", e>>
                         /\ Abort \/ drivers[e].bsr = <<>> \/ Go(<< <<"extest_ir", e>> >>)
                         /\ UNCHANGED drivers
    BY <1>18, Zenon DEF Apply
  <2>2. e = d /\ Tail(job.todo) = <<>> /\ Staged
    BY <2>1, <1>2, SetPinPhase
  <2>3. CASE Go(<< <<"extest_ir", e>> >>)
    <3>1. job'.todo = << <<"extest_ir", d>> >>
      <4>1. PICK h : h = <<"extest_ir", e>>
        OBVIOUS
      <4>2. job'.todo = <<h>> \o Tail(job.todo)
        BY <4>1, <2>3, <1>11
      <4>3. <<h>> \o <<>> = <<h>>
        BY ShortLists
      <4> QED BY <4>1, <4>2, <4>3, <2>2
    <3> QED BY <3>1, <2>1, <2>2, <1>5, <1>6, <1>7, <1>8
  <2> QED BY <2>1, <2>2, <2>3, <1>5, <1>8, <1>10
<1>19. CASE ExtestIr
  <2>1. PICK e \in Dev : /\ Head1 = <<"extest_ir", e>>
                         /\ Abort \/ Go(<< <<"extest_dr", e>> >>)
                         /\ UNCHANGED drivers
    BY <1>19, Zenon DEF ExtestIr
  <2>2. e = d /\ Tail(job.todo) = <<>> /\ Staged
    BY <2>1, <1>2, SetPinPhase
  <2>3. CASE Go(<< <<"extest_dr", e>> >>)
    <3>1. job'.todo = << <<"extest_dr", d>> >>
      <4>1. PICK h : h = <<"extest_dr", e>>
        OBVIOUS
      <4>2. job'.todo = <<h>> \o Tail(job.todo)
        BY <4>1, <2>3, <1>11
      <4>3. <<h>> \o <<>> = <<h>>
        BY ShortLists
      <4> QED BY <4>1, <4>2, <4>3, <2>2
    <3> QED BY <3>1, <2>1, <2>2, <1>5, <1>6, <1>7, <1>8
  <2> QED BY <2>1, <2>2, <2>3, <1>5, <1>10
<1>20. CASE ExtestDr
  <2>1. PICK e \in Dev, image \in Images :
          /\ Head1 = <<"extest_dr", e>>
          /\ \/ latch' = DrScan(image, WriteIn(e, drivers[e].bsr)).latch /\ Done
             \/ Abort
          /\ UNCHANGED <<drivers, ir>>
    BY <1>20 DEF ExtestDr, Write, WriteFails
  <2>2. e = d /\ Tail(job.todo) = <<>> /\ Staged
    BY <2>1, <1>2, SetPinPhase
  <2>3. CASE latch' = DrScan(image, WriteIn(e, drivers[e].bsr)).latch /\ Done
    <3>1. job'.todo = <<>>
      BY <1>12, <2>2, <2>3
    <3>2. ExtestAllowed(d) /\ ir = Only(d, "EXTEST")
      BY <2>1, <2>2, <1>3 DEF ToolsInv, HeadOK
    <3>3. drivers[d].bsr \in [1 .. Len(Cells(d)) -> Bits]
      BY <2>2, <1>1, <1>3, <1>8 DEF DriversOK
    <3>4. latch'[d] = drivers[d].bsr
      BY <2>2, <2>3, <3>2, <3>3, <1>1, <1>3, WriteIs DEF ChainOK, ExtestAllowed, Ready
    <3>5. ir'[d] = "EXTEST"
      BY <2>1, <3>2, <1>3 DEF Only
    <3> QED BY <2>1, <2>2, <3>1, <3>4, <3>5, <1>5, <1>6, <1>7, <1>8
  <2> QED BY <2>1, <2>2, <2>3, <1>5, <1>10
<1> QED BY <1>14, <1>15, <1>16, <1>17, <1>18, <1>19, <1>20, SetPinHead

LEMMA SetPinStep == ToolsInv /\ SetPinInv /\ [ToolsNext]_tool_vars => SetPinInv'
<1> SUFFICES ASSUME ToolsInv, SetPinInv, [ToolsNext]_tool_vars PROVE SetPinInv'
  OBVIOUS
<1>1. CASE Call
  BY <1>1, CallSetPin
<1>2. CASE Step
  <2>1. CASE job.tool = "set_pin"
    BY <1>2, <2>1, StepSetPin
  <2>2. CASE job.tool # "set_pin"
    BY <1>2, <2>2, StepTool DEF ToolsInv, SameCall, SetPinInv
  <2> QED BY <2>1, <2>2
<1>3. CASE UNCHANGED tool_vars
  BY <1>3 DEF tool_vars, SetPinInv, SetPinTodo, Staged, Cells
<1> QED BY <1>1, <1>2, <1>3 DEF ToolsNext

\* set_pin that answers ok: the device drives the pin with the value, through
\* whatever control cell, and all its other pins as they were staged.
THEOREM SetPinHolds == ToolsSpec => []SetPinDrives
<1>1. ToolsInit => SetPinInv
  BY DEF ToolsInit, SetPinInv, Idle
<1>2. ToolsInv /\ SetPinInv => SetPinDrives
  <2> SUFFICES ASSUME ToolsInv, SetPinInv, Ended, job.tool = "set_pin", job.ok
               PROVE  /\ Pad(job.dev, job.pin) = job.value
                      /\ \A p \in DrivablePins(Cells(job.dev)) :
                           Pad(job.dev, p) = GetStagedPinValue(drivers[job.dev].bsr, Cells(job.dev), p)
    BY DEF SetPinDrives
  <2>1. /\ job.dev \in Dev /\ Staged /\ ir[job.dev] = "EXTEST"
        /\ latch[job.dev] = drivers[job.dev].bsr
    BY DEF SetPinInv, SetPinTodo, Ended
  <2>2. LatchOK(latch)
    BY DEF ToolsInv, BoardOK, LatchesOK
  <2>3. \A p : Pad(job.dev, p) = GetStagedPinValue(drivers[job.dev].bsr, Cells(job.dev), p)
    BY <2>1, <2>2, PadIs
  <2> QED BY <2>1, <2>3 DEF Staged
<1> QED BY <1>1, <1>2, SetPinStep, ToolsInvariant, PTL DEF ToolsSpec

-----------------------------------------------------------------------------
(* Scanners and pin drivers are made before they are used                  *)

Steps(t) == {t[i] : i \in 1 .. Len(t)}

\* What the step h may put into the list.
Follows(h, s) ==
  \/ h[1] \in {"driver", "stage", "apply", "try_stage"} /\ s = <<"capture_ir", h[2]>>
  \/ h[1] = "capture_ir" /\ s = <<"capture_dr", h[2]>>
  \/ h[1] = "apply" /\ s = <<"extest_ir", h[2]>>
  \/ h[1] = "extest_ir" /\ s = <<"extest_dr", h[2]>>
  \/ h[1] = "idcode_ir" /\ s = <<"idcode_dr", h[2]>>
  \/ h[1] = "sample_all" /\ s = <<"sample_ir", h[2], "answer_all">>
  \/ h[1] = "capture" /\ s = <<"frames", h[2]>>
  \/ h[1] = "frames" /\ s = <<"sample_ir", h[2], "frames">>
  \/ h[1] = "sample_ir" /\ s = <<"sample_dr", h[2], h[3]>>
  \/ h[1] \in {"sample_ir", "sample_dr"} /\ h[3] \in Uses /\ s = <<h[3], h[2]>>
  \/ h[1] = "script" /\ \/ s[1] \in {"stage", "expect", "apply", "safe"} /\ s[2] = h[2]
                        \/ s \in {<<"sample_ir", h[2], "sampled">>, <<"wrong">>}
  \/ h[1] = "drive" /\ Ready(h[2].driver[1])
                    /\ s \in {<<"try_stage", h[2].driver[1], h[2].driver[2], h[3]>>,
                              <<"apply", h[2].driver[1]>>, <<"observe", h[2], h[3]>>}
  \/ h[1] = "observe" /\ \/ s = <<"check", h[2], h[3]>>
                         \/ s[1] = "sample_ir" /\ s[3] = "keep" /\ scanners[s[2]].made

\* The steps that put others before themselves.
Stays(h) == h[1] \in {"script", "stage", "apply", "try_stage"}

Makes(s) == s[1] \in {"scanner", "driver"}
Captures(s) == s[1] \in {"capture_ir", "capture_dr"}
Alone(s) == s[1] \in {"detect", "load"}
NeedsScanner(s, d) ==
  s[1] \in {"sample_all", "capture", "frames", "script", "sample_ir", "sample_dr",
            "idcode_ir", "idcode_dr"} /\ s[2] = d
NeedsDriver(s, d) ==
  \/ s[1] \in {"capture_ir", "capture_dr", "stage", "apply", "try_stage", "sampled", "safe", "script"}
     /\ s[2] = d
  \/ s[1] \in {"sample_ir", "sample_dr"} /\ s[2] = d /\ s[3] = "sampled"
  \/ s[1] = "drive" /\ s[2].driver[1] = d /\ Ready(d)

\* An object that is not made is blank; a step that uses one comes after the
\* step that makes it; only scans of a new driver stand among those.
Blank == \A d \in Dev : /\ ~scanners[d].made => scanners[d] = NoScanner
                        /\ ~drivers[d].made => drivers[d] = NoDriver
AloneOK(t) == (\E s \in Steps(t) : Alone(s)) => Tail(t) = <<>>
Sorted(t) == \A i, j \in 1 .. Len(t) : i < j /\ Makes(t[j]) => Makes(t[i]) \/ Captures(t[i])
Supplied(t) ==
  \A s \in Steps(t), d \in Dev :
    /\ NeedsScanner(s, d) => scanners[d].made \/ <<"scanner", d>> \in Steps(t)
    /\ NeedsDriver(s, d) => drivers[d].made \/ (~Captures(s) /\ <<"driver", d>> \in Steps(t))
ListOK(t) == AloneOK(t) /\ Sorted(t) /\ Supplied(t)
MadeInv == Blank /\ ListOK(job.todo)

LEMMA StepsOne == Steps(<<>>) = {} /\ \A a : Steps(<<a>>) = {a}
BY DEF Steps

LEMMA StepsConcat ==
  ASSUME NEW S, NEW s \in Seq(S), NEW t \in Seq(S)
  PROVE  Steps(s \o t) = Steps(s) \cup Steps(t) /\ Steps(s) \subseteq S
<1> DEFINE u == s \o t
           m == Len(s)
           n == Len(t)
<1>1. /\ m \in Nat /\ n \in Nat /\ Len(u) = m + n
      /\ \A i \in 1 .. m : u[i] = s[i]
      /\ \A i \in 1 .. n : u[m + i] = t[i]
  BY ConcatFacts
<1>2. \A i \in 1 .. m : s[i] \in S
  OBVIOUS
<1> HIDE DEF u
<1>3. Steps(u) \subseteq Steps(s) \cup Steps(t)
  <2> SUFFICES ASSUME NEW i \in 1 .. Len(u) PROVE u[i] \in Steps(s) \cup Steps(t)
    BY DEF Steps
  <2>1. CASE i <= m
    <3>1. i \in 1 .. m
      BY <1>1, <2>1
    <3> QED BY <1>1, <3>1 DEF Steps
  <2>2. CASE ~(i <= m)
    <3>1. PICK j \in 1 .. n : i = m + j
      <4> HIDE DEF m, n
      <4>1. i - m \in 1 .. n /\ i = m + (i - m)
        BY <1>1, <2>2
      <4> QED BY <4>1
    <3> QED BY <1>1, <3>1 DEF Steps
  <2> QED BY <2>1, <2>2
<1>4. Steps(s) \cup Steps(t) \subseteq Steps(u)
  <2>1. \A i \in 1 .. m : i \in 1 .. Len(u)
    <3> HIDE DEF m, n
    <3> QED BY <1>1
  <2>2. \A i \in 1 .. n : m + i \in 1 .. Len(u)
    <3> HIDE DEF m, n
    <3> QED BY <1>1
  <2>3. \A i \in 1 .. m : s[i] \in Steps(u)
    BY <1>1, <2>1 DEF Steps
  <2>4. \A i \in 1 .. n : t[i] \in Steps(u)
    BY <1>1, <2>2 DEF Steps
  <2> QED BY <2>3, <2>4 DEF Steps
<1> QED BY <1>2, <1>3, <1>4 DEF u, Steps

LEMMA StepsTail ==
  ASSUME NEW S, NEW t \in Seq(S), t # <<>>
  PROVE  Steps(t) = {Head(t)} \cup Steps(Tail(t))
<1>1. Head(t) \in S /\ Tail(t) \in Seq(S) /\ t = <<Head(t)>> \o Tail(t) /\ <<Head(t)>> \in Seq(S)
  BY TailFacts
<1>2. PICK h, u : h = <<Head(t)>> /\ u = Tail(t)
  OBVIOUS
<1>3. h \in Seq(S) /\ u \in Seq(S) /\ t = h \o u
  BY <1>1, <1>2
<1>4. Steps(h \o u) = Steps(h) \cup Steps(u)
  BY <1>3, StepsConcat
<1>5. Steps(h) = {Head(t)}
  BY <1>2, StepsOne
<1> QED BY <1>2, <1>3, <1>4, <1>5

\* The list after a step has what was behind it, and at most these.
Left(A) == Steps(job'.todo) \subseteq Steps(Tail(job.todo)) \cup A

LEMMA GoAdds ==
  ASSUME JobOK, Head1 # <<"none">>
  PROVE  /\ \A S : \A steps \in Seq(S) : job'.todo = steps \o Tail(job.todo) => Left(Steps(steps))
         /\ \A S : \A steps \in Seq(S) : Go(steps) => Left(Steps(steps))
         /\ \A a : Go(<<a>>) => Left({a})
         /\ \A a : job' = [job EXCEPT !.todo = <<a>> \o @] => Left({a, Head1})
         /\ Done \/ Throw \/ Abort => Left({})
<1>1. /\ job.todo # <<>> /\ Head(job.todo) = Head1 /\ Tail(job.todo) \in Seq(PlainSteps)
      /\ job.todo \in Seq(PlainSteps \cup BoundSteps)
  BY HeadFacts DEF JobOK, TodoOK
<1>2. ASSUME NEW S, NEW steps \in Seq(S), job'.todo = steps \o Tail(job.todo) PROVE Left(Steps(steps))
  <2>1. PICK T, t : T = S \cup PlainSteps /\ t = Tail(job.todo)
    OBVIOUS
  <2>2. steps \in Seq(T) /\ t \in Seq(T)
    BY <1>1, <2>1
  <2>3. Steps(steps \o t) = Steps(steps) \cup Steps(t)
    BY <2>2, StepsConcat
  <2> QED BY <1>2, <2>1, <2>3 DEF Left
<1>3. ASSUME NEW S, NEW steps \in Seq(S), Go(steps) PROVE Left(Steps(steps))
  <2>1. job'.todo = steps \o Tail(job.todo)
    BY <1>3 DEF Go, Then, JobOK, JobShape, Idle
  <2> QED BY <1>2, <2>1
<1>4. ASSUME NEW a, Go(<<a>>) PROVE Left({a})
  <2>1. <<a>> \in Seq({a})
    OBVIOUS
  <2> QED BY <1>3, <1>4, <2>1, StepsOne
<1>5. ASSUME NEW a, job' = [job EXCEPT !.todo = <<a>> \o @] PROVE Left({a, Head1})
  <2>1. job'.todo = <<a>> \o job.todo
    BY <1>5 DEF JobOK, JobShape, Idle
  <2>2. PICK T, h, t : T = PlainSteps \cup BoundSteps \cup {a} /\ h = <<a>> /\ t = job.todo
    OBVIOUS
  <2>5. h \in Seq(T) /\ t \in Seq(T)
    BY <1>1, <2>2
  <2>6. Steps(h \o t) = Steps(h) \cup Steps(t)
    BY <2>5, StepsConcat
  <2>3. Steps(job'.todo) = {a} \cup Steps(job.todo)
    BY <2>1, <2>2, <2>6, StepsOne
  <2>4. Steps(job.todo) = {Head1} \cup Steps(Tail(job.todo))
    BY <1>1, StepsTail
  <2> QED BY <2>3, <2>4 DEF Left
<1>6. ASSUME Done PROVE Left({})
  <2>1. <<>> \in Seq({})
    OBVIOUS
  <2> QED BY <1>3, <1>6, <2>1, StepsOne DEF Done
<1>7. ASSUME Throw PROVE Left({})
  <2>1. job'.todo = <<>>
    BY <1>7 DEF Throw, JobOK, JobShape, Idle
  <2> QED BY <2>1, StepsOne DEF Left
<1>8. ASSUME Abort PROVE Left({})
  <2>1. CASE Throw
    BY <1>7, <2>1
  <2>2. CASE job' = [job EXCEPT !.todo = Resume(Tail(@)), !.steps = Append(@, FALSE), !.ok = FALSE]
    <3>1. PICK t : t = Tail(job.todo)
      OBVIOUS
    <3>2. t \in Seq(PlainSteps)
      BY <1>1, <3>1
    <3>3. Steps(Resume(t)) \subseteq Steps(t)
      <4> DEFINE next == {i \in 1 .. Len(t) : t[i][1] \in {"drive", "script"}}
                 from == Min(next) + (IF job.tool = "suite" THEN 1 ELSE 0)
      <4>1. CASE next = {}
        <5>1. Resume(t) = <<>>
          BY <4>1 DEF Resume
        <5> QED BY <5>1, StepsOne
      <4>2. CASE next # {}
        <5>1. Resume(t) = SubSeq(t, from, Len(t))
          BY <4>2 DEF Resume
        <5>2. Len(t) \in Nat /\ next \in SUBSET (1 .. Len(t))
          BY <3>2
        <5>3. Min(next) \in 1 .. Len(t)
          BY <4>2, <5>2, Extremes
        <5>4. from \in Nat /\ from >= 1
          <6> HIDE DEF next
          <6> QED BY <5>2, <5>3
        <5> HIDE DEF from
        <5>5. PICK u : u = SubSeq(t, from, Len(t))
          OBVIOUS
        <5>6. \A i \in 1 .. Len(u) : \E j \in 1 .. Len(t) : u[i] = t[j]
          <6>1. from <= Len(t) => Len(u) = Len(t) - from + 1 /\ \A i \in 1 .. Len(u) : u[i] = t[from + i - 1]
            BY <3>2, <5>2, <5>4, <5>5
          <6>2. ~(from <= Len(t)) => Len(u) = 0
            BY <3>2, <5>2, <5>4, <5>5
          <6>3. ASSUME NEW i \in 1 .. Len(u) PROVE from <= Len(t) /\ from + i - 1 \in 1 .. Len(t)
            BY <6>1, <6>2, <5>2, <5>4
          <6> QED BY <6>1, <6>3
        <5>7. Steps(u) \subseteq Steps(t)
          <6> HIDE DEF next
          <6> QED BY <5>6 DEF Steps
        <5> QED BY <5>1, <5>5, <5>7
      <4> QED BY <4>1, <4>2
    <3>4. PICK u : u = Resume(t)
      OBVIOUS
    <3>5. job'.todo = u
      <4>1. PICK a : a = Append(job.steps, FALSE)
        OBVIOUS
      <4>2. job' = [job EXCEPT !.todo = u, !.steps = a, !.ok = FALSE]
        BY <2>2, <3>1, <3>4, <4>1
      <4> QED BY <4>2 DEF JobOK, JobShape, Idle
    <3> QED BY <3>1, <3>3, <3>4, <3>5 DEF Left
  <2> QED BY <1>8, <2>1, <2>2 DEF Abort
<1> QED BY <1>2, <1>3, <1>4, <1>5, <1>6, <1>7, <1>8


\* Every step that appears in the list follows from the one that was done.
Put(s) == Follows(Head1, s) \/ (Stays(Head1) /\ s = Head1)
Grown == \A s \in Steps(job'.todo) : s \in Steps(Tail(job.todo)) \/ Put(s)

LEMMA LeftGrown ==
  ASSUME NEW A, Left(A), \A a \in A : Put(a)
  PROVE  Grown
BY DEF Left, Grown

LEMMA CommandSteps ==
  ASSUME NEW d \in Dev, NEW c \in Command(d), Head1 = <<"script", d>>
  PROVE  c \in Seq(PlainSteps) /\ \A s \in Steps(c) : Put(s)
<1> DEFINE OK(s) == \/ s[1] \in {"stage", "expect", "apply", "safe"} /\ s[2] = d
                    \/ s \in {<<"sample_ir", d, "sampled">>, <<"wrong">>}
           S == {s \in PlainSteps : OK(s)}
<1>0. \A T : \A a \in T : <<a>> \in Seq(T)
  OBVIOUS
<1>1. /\ <<"sample_ir", d, "sampled">> \in S /\ <<"apply", d>> \in S /\ <<"safe", d>> \in S /\ <<"wrong">> \in S
      /\ \A p \in Pins, v \in DriveValues : <<"stage", d, p, v>> \in S
      /\ \A p \in Pins, v \in ExpectedValues : <<"expect", d, p, v>> \in S
  BY PlainIs DEF DriveValues
<1> HIDE DEF S
<1>2. /\ Sampling(d, "sampled") \in Seq(S) /\ Applying(d) \in Seq(S)
      /\ << <<"safe", d>> >> \in Seq(S) /\ << <<"wrong">> >> \in Seq(S)
      /\ \A p \in Pins, v \in DriveValues : << <<"stage", d, p, v>> >> \in Seq(S)
      /\ \A p \in Pins, v \in ExpectedValues : << <<"expect", d, p, v>> >> \in Seq(S)
  BY <1>0, <1>1 DEF Sampling, Applying
<1>3. << <<"safe", d>> >> \o Applying(d) \in Seq(S)
  BY <1>2, ConcatFacts
<1>4. \A p \in Pins, v \in ExpectedValues : Sampling(d, "sampled") \o << <<"expect", d, p, v>> >> \in Seq(S)
  BY <1>2, ConcatFacts
<1>5. c \in Seq(S)
  <2> DEFINE A == {Sampling(d, "sampled"), Applying(d), << <<"safe", d>> >> \o Applying(d), << <<"wrong">> >>}
             St(p, v) == << <<"stage", d, p, v>> >>
             Ex(p, v) == Sampling(d, "sampled") \o << <<"expect", d, p, v>> >>
  <2>1. Command(d) = (A \cup {St(p, v) : p \in Pins, v \in DriveValues})
                       \cup {Ex(p, v) : p \in Pins, v \in ExpectedValues}
    BY DEF Command
  <2>2. /\ \A a \in A : a \in Seq(S)
        /\ \A p \in Pins, v \in DriveValues : St(p, v) \in Seq(S)
        /\ \A p \in Pins, v \in ExpectedValues : Ex(p, v) \in Seq(S)
    BY <1>2, <1>3, <1>4
  <2> HIDE DEF A, St, Ex
  <2> QED BY <2>1, <2>2
<1>6. Steps(c) \subseteq S
  BY <1>5 DEF Steps
<1>7. \A s \in S : OK(s)
  BY DEF S
<1>8. \A s : OK(s) => Put(s)
  BY DEF Put, Follows
<1> QED BY <1>6, <1>7, <1>8, CommandIs

LEMMA StepTodo == ASSUME ToolsInv, Step PROVE Grown
<1>1. JobOK /\ ChainOK
  BY DEF ToolsInv, BoardOK
<1>2. ASSUME Head1 # <<"none">>, Done \/ Throw \/ Abort PROVE Grown
  BY <1>1, <1>2, GoAdds, LeftGrown
<1>3. ASSUME Head1 # <<"none">>, NEW a, Go(<<a>>), Put(a) PROVE Grown
  <2>1. Left({a})
    BY <1>1, <1>3, GoAdds
  <2> QED BY <1>3, <2>1, LeftGrown
<1>4. ASSUME Head1 # <<"none">>, NEW a, job' = [job EXCEPT !.todo = <<a>> \o @], Stays(Head1), Put(a)
      PROVE Grown
  <2>1. Left({a, Head1})
    BY <1>1, <1>4, GoAdds
  <2>2. Put(Head1)
    BY <1>4 DEF Put
  <2> QED BY <1>4, <2>1, <2>2, LeftGrown
<1>5. ASSUME Head1 # <<"none">>, job'.todo = Tail(job.todo) PROVE Grown
  BY <1>5 DEF Grown
<1>6. ASSUME Head1 # <<"none">>, NEW S, NEW steps \in Seq(S), job'.todo = steps \o Tail(job.todo),
             \A s \in Steps(steps) : Put(s)
      PROVE Grown
  <2>1. Left(Steps(steps))
    BY <1>1, <1>6, GoAdds
  <2> QED BY <1>6, <2>1, LeftGrown
<1>7. ASSUME Head1 # <<"none">>, NEW a, job'.todo = <<a>> \o Tail(job.todo), Put(a) PROVE Grown
  <2>1. PICK steps : steps = <<a>>
    OBVIOUS
  <2>2. steps \in Seq({a})
    BY <2>1
  <2>3. \A s \in Steps(steps) : Put(s)
    BY <1>7, <2>1, StepsOne
  <2> QED BY <1>6, <1>7, <2>1, <2>2, <2>3
<1>10. ASSUME DoDetect \/ DoLoad \/ GetScanner \/ AnswerSample \/ CaptureDr PROVE Grown
  <2>1. Head1 # <<"none">> /\ (Done \/ Throw \/ Abort)
    <3>1. DoDetect => Head1 # <<"none">> /\ Done
      BY DEF DoDetect
    <3>2. DoLoad \/ GetScanner \/ AnswerSample => Head1 # <<"none">> /\ (Done \/ Throw)
      BY DEF DoLoad, GetScanner, AnswerSample
    <3>3. CaptureDr => Head1 # <<"none">> /\ Done
      BY DEF CaptureDr, NoCapture
    <3> QED BY <1>10, <3>1, <3>2, <3>3
  <2> QED BY <1>2, <2>1
<1>11. ASSUME ExtestDr \/ Wrong \/ Sampled \/ Expect \/ ResetToSafe PROVE Grown
  <2>1. Head1 # <<"none">> /\ (Done \/ Throw \/ Abort)
    <3>1. ExtestDr => Head1 # <<"none">> /\ (Done \/ Abort)
      BY DEF ExtestDr
    <3>2. Wrong \/ Sampled \/ Expect => Head1 # <<"none">> /\ (Done \/ Abort)
      BY DEF Wrong, Sampled, Expect
    <3>3. ResetToSafe => Head1 # <<"none">> /\ Done
      BY DEF ResetToSafe
    <3> QED BY <1>11, <3>1, <3>2, <3>3
  <2> QED BY <1>2, <2>1
<1>12. ASSUME GetDriver PROVE Grown
  <2>1. PICK d \in Dev : Head1 = <<"driver", d>> /\ (Throw \/ Done \/ Go(<< <<"capture_ir", d>> >>))
    BY <1>12 DEF GetDriver, Capturing, Done
  <2>2. Put(<<"capture_ir", d>>) /\ Head1 # <<"none">>
    BY <2>1 DEF Put, Follows
  <2> QED BY <2>1, <2>2, <1>2, <1>3
<1>13. ASSUME SampleAll PROVE Grown
  <2>1. PICK d \in Dev : Head1 = <<"sample_all", d>> /\ Go(<< <<"sample_ir", d, "answer_all">> >>)
    BY <1>13 DEF SampleAll, Sampling
  <2>2. Put(<<"sample_ir", d, "answer_all">>) /\ Head1 # <<"none">>
    BY <2>1 DEF Put, Follows
  <2> QED BY <2>1, <2>2, <1>3
<1>14. ASSUME StartCapture PROVE Grown
  <2>1. PICK d \in Dev, f \in Filters :
          Head1 = <<"capture", d, f>>
          /\ job' = [job EXCEPT !.todo = Then(<< <<"frames", d>> >>), !.states = <<>>, !.raw = <<>>]
    BY <1>14 DEF StartCapture
  <2>2. job'.todo = << <<"frames", d>> >> \o Tail(job.todo)
    BY <1>1, <2>1 DEF Then, JobOK, JobShape, Idle
  <2>3. Put(<<"frames", d>>) /\ Head1 # <<"none">>
    BY <2>1 DEF Put, Follows
  <2> QED BY <2>2, <2>3, <1>7
<1>15. ASSUME NEW d, NEW use, NEW err, NoSample(d, use, err), Head1 # <<"none">>,
              Put(<<use, d>>)
       PROVE Grown
  <2>1. job'.todo = << <<use, d>> >> \o Tail(job.todo)
    BY <1>1, <1>15 DEF NoSample, Then, JobOK, JobShape, Idle
  <2> QED BY <1>7, <1>15, <2>1
<1>16. ASSUME SampleIr PROVE Grown
  <2>1. PICK d \in Dev, use \in Uses :
          Head1 = <<"sample_ir", d, use>>
          /\ (Go(<< <<"sample_dr", d, use>> >>) \/ \E err : NoSample(d, use, err))
    BY <1>16 DEF SampleIr
  <2>2. Put(<<"sample_dr", d, use>>) /\ Put(<<use, d>>) /\ Head1 # <<"none">>
    BY <2>1 DEF Put, Follows
  <2> QED BY <2>1, <2>2, <1>3, <1>15
<1>17. ASSUME SampleDr PROVE Grown
  <2> DEFINE partial(d) == MaxNeededBsrBits(Cells(d), scanners[d].filter)
             raw(d, image) == ReadOut(d, partial(d), DrScan(image, ReadIn(d, partial(d))).out)
  <2>1. PICK d \in Dev, use \in Uses, image \in Images :
          Head1 = <<"sample_dr", d, use>>
          /\ \/ job' = [job EXCEPT !.todo = Then(<< <<use, d>> >>), !.raw = raw(d, image),
                          !.states = DecodeBoundaryScan(Cells(d), scanners[d].filter, raw(d, image))]
             \/ NoSample(d, use, TRUE)
    BY <1>17, Zenon DEF SampleDr
  <2>2. Put(<<use, d>>) /\ Head1 # <<"none">>
    BY <2>1 DEF Put, Follows
  <2>3. ASSUME NEW r, NEW s, job' = [job EXCEPT !.todo = Then(<< <<use, d>> >>), !.raw = r, !.states = s]
        PROVE Grown
    <3>1. job'.todo = << <<use, d>> >> \o Tail(job.todo)
      BY <1>1, <2>3 DEF Then, JobOK, JobShape, Idle
    <3> QED BY <3>1, <2>2, <1>7
  <2> HIDE DEF raw
  <2> QED BY <2>1, <2>2, <2>3, <1>15, Zenon
<1>18. ASSUME IdCodeIr PROVE Grown
  <2>1. PICK d \in Dev : Head1 = <<"idcode_ir", d>> /\ (Throw \/ Go(<< <<"idcode_dr", d>> >>))
    BY <1>18 DEF IdCodeIr, NoIdCode
  <2>2. Put(<<"idcode_dr", d>>) /\ Head1 # <<"none">>
    BY <2>1 DEF Put, Follows
  <2> QED BY <2>1, <2>2, <1>2, <1>3
<1>19. ASSUME IdCodeDr PROVE Grown
  <2>1. PICK d, r : /\ d \in Dev
                     /\ Head1 = <<"idcode_dr", d>>
                     /\ (Throw \/ job' = [job EXCEPT !.todo = Tail(@), !.raw = r])
    BY <1>19 DEF IdCodeDr, NoIdCode
  <2>2. ASSUME job' = [job EXCEPT !.todo = Tail(@), !.raw = r] PROVE job'.todo = Tail(job.todo)
    BY <1>1, <2>2 DEF JobOK, JobShape, Idle
  <2> QED BY <2>1, <2>2, <1>2, <1>5
<1>20. ASSUME Frames PROVE Grown
  <2>1. PICK d \in Dev : Head1 = <<"frames", d>>
          /\ (Done \/ job' = [job EXCEPT !.todo = Then(Sampling(d, "frames")), !.n = @ + 1])
    BY <1>20 DEF Frames
  <2>2. Put(<<"sample_ir", d, "frames">>) /\ Head1 # <<"none">>
    BY <2>1 DEF Put, Follows
  <2>3. ASSUME job' = [job EXCEPT !.todo = Then(Sampling(d, "frames")), !.n = @ + 1]
        PROVE job'.todo = << <<"sample_ir", d, "frames">> >> \o Tail(job.todo)
    BY <1>1, <2>3 DEF Then, Sampling, JobOK, JobShape, Idle
  <2> QED BY <2>1, <2>2, <2>3, <1>2, <1>7
<1>21. ASSUME CaptureIr PROVE Grown
  <2>1. PICK d \in Dev : Head1 = <<"capture_ir", d>> /\ (Done \/ Go(<< <<"capture_dr", d>> >>))
    BY <1>21, Zenon DEF CaptureIr, NoCapture
  <2>2. Put(<<"capture_dr", d>>) /\ Head1 # <<"none">>
    BY <2>1 DEF Put, Follows
  <2> QED BY <2>1, <2>2, <1>2, <1>3
<1>22. ASSUME StagePin \/ TryStage \/ Apply PROVE Grown
  <2>1. \E d \in Dev :
          /\ \/ \E p, v : Head1 \in {<<"stage", d, p, v>>, <<"try_stage", d, p, v>>}
             \/ Head1 = <<"apply", d>>
          /\ \/ Done \/ Abort
             \/ job' = [job EXCEPT !.todo = Capturing(d) \o @]
             \/ Head1 = <<"apply", d>> /\ Go(<< <<"extest_ir", d>> >>)
    <3>1. ASSUME StagePin
          PROVE \E d \in Dev : \E p, v : Head1 = <<"stage", d, p, v>>
                  /\ (Done \/ Abort \/ job' = [job EXCEPT !.todo = Capturing(d) \o @])
      BY <3>1, Zenon DEF StagePin
    <3>2. ASSUME TryStage
          PROVE \E d \in Dev : \E p, v : Head1 = <<"try_stage", d, p, v>>
                  /\ (Done \/ job' = [job EXCEPT !.todo = Capturing(d) \o @])
      BY <3>2, Zenon DEF TryStage
    <3>3. ASSUME Apply
          PROVE \E d \in Dev : Head1 = <<"apply", d>>
                  /\ (Abort \/ job' = [job EXCEPT !.todo = Capturing(d) \o @] \/ Go(<< <<"extest_ir", d>> >>))
      BY <3>3, Zenon DEF Apply
    <3>4. CASE StagePin
      BY <3>1, <3>4
    <3>5. CASE TryStage
      BY <3>2, <3>5
    <3>6. CASE Apply
      BY <3>3, <3>6
    <3> QED BY <1>22, <3>4, <3>5, <3>6
  <2>2. PICK d \in Dev :
          /\ \/ \E p, v : Head1 \in {<<"stage", d, p, v>>, <<"try_stage", d, p, v>>}
             \/ Head1 = <<"apply", d>>
          /\ \/ Done \/ Abort
             \/ job' = [job EXCEPT !.todo = Capturing(d) \o @]
             \/ Head1 = <<"apply", d>> /\ Go(<< <<"extest_ir", d>> >>)
    BY <2>1
  <2>3. Stays(Head1) /\ Put(<<"capture_ir", d>>) /\ Head1 # <<"none">>
    BY <2>2 DEF Stays, Put, Follows
  <2>4. Head1 = <<"apply", d>> => Put(<<"extest_ir", d>>)
    BY DEF Put, Follows
  <2> QED BY <2>2, <2>3, <2>4, <1>2, <1>3, <1>4 DEF Capturing
<1>23. ASSUME ExtestIr PROVE Grown
  <2>1. PICK d \in Dev : Head1 = <<"extest_ir", d>> /\ (Abort \/ Go(<< <<"extest_dr", d>> >>))
    BY <1>23 DEF ExtestIr
  <2>2. Put(<<"extest_dr", d>>) /\ Head1 # <<"none">>
    BY <2>1 DEF Put, Follows
  <2> QED BY <2>1, <2>2, <1>2, <1>3
<1>24. ASSUME Script PROVE Grown
  <2>1. PICK d \in Dev : /\ Head1 = <<"script", d>>
                         /\ \/ \E c \in Command(d) : job' = [job EXCEPT !.todo = c \o @]
                            \/ job' = [job EXCEPT !.todo = Tail(@), !.steps = Append(@, TRUE)]
    BY <1>24 DEF Script
  <2>2. Head1 # <<"none">> /\ Put(Head1) /\ Head1 \in PlainSteps
    BY <2>1, PlainIs DEF Put, Stays
  <2>3. ASSUME job' = [job EXCEPT !.todo = Tail(@), !.steps = Append(@, TRUE)] PROVE Grown
    <3>1. job'.todo = Tail(job.todo)
      <4>1. PICK t, a : t = Tail(job.todo) /\ job' = [job EXCEPT !.todo = t, !.steps = a]
        BY <2>3
      <4> QED BY <1>1, <4>1 DEF JobOK, JobShape, Idle
    <3> QED BY <3>1, <2>2, <1>5
  <2>4. ASSUME NEW c \in Command(d), job' = [job EXCEPT !.todo = c \o @] PROVE Grown
    <3>1. job'.todo = c \o job.todo
      BY <1>1, <2>4 DEF JobOK, JobShape, Idle
    <3>2. /\ c \in Seq(PlainSteps) /\ \A s \in Steps(c) : Put(s)
          /\ job.todo \in Seq(PlainSteps) /\ job.todo # <<>> /\ Head(job.todo) = Head1
      BY <1>1, <2>1, <2>2, CommandSteps, HeadFacts
    <3>3. Steps(job'.todo) = Steps(c) \cup Steps(job.todo)
      BY <3>1, <3>2, StepsConcat
    <3>4. Steps(job.todo) = {Head1} \cup Steps(Tail(job.todo))
      BY <3>2, StepsTail
    <3> QED BY <3>2, <3>3, <3>4, <2>2 DEF Grown
  <2> QED BY <2>1, <2>3, <2>4
<1>25. ASSUME Drive PROVE Grown
  <2>1. PICK net, v, d :
          /\ net \in Nets /\ v \in 0 .. 1
          /\ d = net.driver[1] /\ Head1 = <<"drive", net, v>>
          /\ \/ Abort
             \/ ExtestAllowed(d) /\ Go(<< <<"try_stage", d, net.driver[2], v>> >> \o << <<"apply", d>> >>
                                       \o << <<"observe", net, v>> >>)
    BY <1>25 DEF Drive, Applying
  <2>2. Head1 # <<"none">>
    BY <2>1
  <2>3. CASE ExtestAllowed(d) /\ Go(<< <<"try_stage", d, net.driver[2], v>> >> \o << <<"apply", d>> >>
                                    \o << <<"observe", net, v>> >>)
    <3>1. PICK a, b, c : /\ a = <<"try_stage", d, net.driver[2], v>> /\ b = <<"apply", d>>
                         /\ c = <<"observe", net, v>>
      OBVIOUS
    <3>2. Put(a) /\ Put(b) /\ Put(c)
      BY <2>1, <2>3, <3>1 DEF ExtestAllowed, Put, Follows
    <3>3. PICK S, x, y, z : S = {a, b, c} /\ x = <<a>> /\ y = <<b>> /\ z = <<c>>
      OBVIOUS
    <3>4. x \in Seq(S) /\ y \in Seq(S) /\ z \in Seq(S)
      BY <3>3
    <3>5. x \o y \o z \in Seq(S)
      BY <3>4, ConcatFacts
    <3>6. Steps(x \o y \o z) \subseteq S
      BY <3>4, <3>5, StepsConcat
    <3>7. Go(x \o y \o z)
      BY <2>3, <3>1, <3>3
    <3>8. Left(Steps(x \o y \o z))
      BY <1>1, <2>2, <3>5, <3>7, GoAdds
    <3> QED BY <3>2, <3>3, <3>6, <3>8, LeftGrown
  <2> QED BY <2>1, <2>2, <2>3, <1>2
<1>26. ASSUME Observe PROVE Grown
  <2> DEFINE n(net) == Cardinality(ReceiverDevices(net))
             x(net) == [i \in 1 .. n(net) |->
                         LET d == InOrder(net)[i]
                         IN  IF scanners[d].made THEN Sampling(d, "keep") ELSE <<>>]
  <2>1. PICK net \in Nets, v \in 0 .. 1 :
          /\ Head1 = <<"observe", net, v>>
          /\ job' = [job EXCEPT !.samples = Idle.samples,
                                !.todo = Then(FlattenSeq(x(net)) \o << <<"check", net, v>> >>)]
    BY <1>26 DEF Observe
  <2> DEFINE S == {<<"sample_ir", d, "keep">> : d \in {e \in SampledDevices : scanners[e].made}}
  <2>2. \A i \in 1 .. n(net) : x(net)[i] \in Seq(S)
    <3> SUFFICES ASSUME NEW i \in 1 .. n(net) PROVE x(net)[i] \in Seq(S)
      OBVIOUS
    <3>1. PICK d : d = InOrder(net)[i]
      OBVIOUS
    <3>2. d \in SampledDevices
      BY <3>1 DEF SampledDevices
    <3>3. x(net)[i] = IF scanners[d].made THEN << <<"sample_ir", d, "keep">> >> ELSE <<>>
      BY <3>1 DEF Sampling
    <3>4. scanners[d].made => <<"sample_ir", d, "keep">> \in S
      BY <3>2
    <3>5. <<>> \in Seq(S) /\ \A a \in S : <<a>> \in Seq(S)
      OBVIOUS
    <3> HIDE DEF x, S
    <3> QED BY <3>3, <3>4, <3>5
  <2>3. x(net) \in Seq(Seq(S))
    <3>1. n(net) \in Nat
      BY ReceiversFinite
    <3>2. x(net) = [i \in 1 .. n(net) |-> x(net)[i]]
      OBVIOUS
    <3> HIDE DEF n, x, S
    <3>3. x(net) \in [1 .. n(net) -> Seq(S)]
      BY <3>2, <2>2
    <3> QED BY <3>1, <3>3, IsSeq
  <2> HIDE DEF n, x
  <2>4. PICK c, f, T : c = << <<"check", net, v>> >> /\ f = FlattenSeq(x(net)) /\ T = S \cup {<<"check", net, v>>}
    OBVIOUS
  <2>5. f \in Seq(S)
    BY <2>3, <2>4, FlattenFacts
  <2>6. f \in Seq(T) /\ c \in Seq(T)
    <3> HIDE DEF S
    <3> QED BY <2>4, <2>5
  <2>7. f \o c \in Seq(T) /\ Steps(f \o c) \subseteq T
    <3>1. f \o c \in Seq(T)
      BY <2>6, ConcatFacts
    <3> QED BY <3>1, <2>6, StepsConcat DEF Steps
  <2>8. \A s \in T : Put(s)
    BY <2>1, <2>4 DEF Put, Follows
  <2>9. job'.todo = (f \o c) \o Tail(job.todo) /\ Head1 # <<"none">>
    <3>1. PICK u : u = Then(FlattenSeq(x(net)) \o << <<"check", net, v>> >>)
      OBVIOUS
    <3>2. job' = [job EXCEPT !.samples = Idle.samples, !.todo = u]
      BY <2>1, <3>1
    <3>3. job'.todo = u
      BY <1>1, <3>2 DEF JobOK, JobShape, Idle
    <3> QED BY <2>1, <2>4, <3>1, <3>3 DEF Then
  <2> HIDE DEF S
  <2> QED BY <2>7, <2>8, <2>9, <1>6
<1>27. ASSUME Keep PROVE Grown
  <2>1. PICK d \in Dev : /\ Head1 = <<"keep", d>>
                         /\ job' = [job EXCEPT !.todo = Tail(@), !.samples[d] = job.states]
    BY <1>27 DEF Keep
  <2>2. PICK t, a : t = Tail(job.todo) /\ a = [job.samples EXCEPT ![d] = job.states]
    OBVIOUS
  <2>3. job' = [job EXCEPT !.todo = t, !.samples = a]
    BY <2>1, <2>2
  <2>4. job'.todo = t
    BY <1>1, <2>3 DEF JobOK, JobShape, Idle
  <2> QED BY <2>1, <2>2, <2>4, <1>5
<1>28. ASSUME Check PROVE Grown
  <2>1. PICK net \in Nets, v \in 0 .. 1 :
          /\ Head1 = <<"check", net, v>>
          /\ \E pass : job' = [job EXCEPT !.todo = Tail(@), !.steps = Append(@, pass), !.ok = @ /\ pass]
    BY <1>28 DEF Check
  <2>2. PICK pass : job' = [job EXCEPT !.todo = Tail(job.todo), !.steps = Append(job.steps, pass),
                                       !.ok = job.ok /\ pass]
    BY <2>1
  <2>3. PICK t, a, ok : t = Tail(job.todo) /\ job' = [job EXCEPT !.todo = t, !.steps = a, !.ok = ok]
    BY <2>2, Zenon
  <2>4. job'.todo = t
    BY <1>1, <2>3 DEF JobOK, JobShape, Idle
  <2> QED BY <2>1, <2>3, <2>4, <1>5
<1> QED BY <1>10, <1>11, <1>12, <1>13, <1>14, <1>16, <1>17, <1>18, <1>19, <1>20, <1>21, <1>22, <1>23,
     <1>24, <1>25, <1>26, <1>27, <1>28 DEF Step


\* What a step needs is there.
Met(s) == \A d \in Dev : /\ NeedsScanner(s, d) => scanners[d].made
                         /\ NeedsDriver(s, d) => drivers[d].made
Unmade(s) == ~Makes(s) /\ ~Alone(s)

\* Behind a step that makes nothing and captures nothing, all is made.
LEMMA AllMade ==
  ASSUME JobOK, ListOK(job.todo), Head1 # <<"none">>, ~Captures(Head1), Unmade(Head1)
  PROVE  \A s \in Steps(job.todo) : Unmade(s) /\ Met(s)
<1>1. job.todo # <<>> /\ Head(job.todo) = Head1 /\ job.todo \in Seq(PlainSteps \cup BoundSteps)
  BY HeadFacts DEF JobOK, TodoOK
<1>2. PICK t, n : t = job.todo /\ n = Len(t)
  OBVIOUS
<1>3. n \in Nat /\ n >= 1 /\ t[1] = Head1
  BY <1>1, <1>2
<1>4. ASSUME NEW j \in 1 .. n PROVE ~Makes(t[j])
  <2>1. CASE j = 1
    BY <1>3, <2>1 DEF Unmade
  <2>2. CASE j # 1
    <3>1. 1 \in 1 .. n /\ 1 < j
      BY <1>3, <2>2
    <3> QED BY <1>2, <1>3, <3>1 DEF ListOK, Sorted, Unmade
  <2> QED BY <2>1, <2>2
<1>5. ASSUME NEW j \in 1 .. n PROVE ~Alone(t[j])
  <2>1. CASE j = 1
    BY <1>3, <2>1 DEF Unmade
  <2>2. CASE j # 1
    <3>1. Tail(t) # <<>>
      <4>1. Len(Tail(t)) = n - 1
        BY <1>1, <1>2
      <4>2. n - 1 # 0
        BY <1>3, <2>2
      <4> QED BY <4>1, <4>2
    <3> QED BY <1>2, <3>1 DEF ListOK, AloneOK, Steps
  <2> QED BY <2>1, <2>2
<1>6. \A d \in Dev : <<"scanner", d>> \notin Steps(t) /\ <<"driver", d>> \notin Steps(t)
  <2>1. \A d : Makes(<<"scanner", d>>) /\ Makes(<<"driver", d>>)
    BY DEF Makes
  <2> QED BY <1>2, <1>4, <2>1 DEF Steps
<1>7. \A s \in Steps(t) : Met(s)
  BY <1>2, <1>6 DEF ListOK, Supplied, Met
<1> QED BY <1>2, <1>4, <1>5, <1>7 DEF Steps, Unmade

\* The steps a step puts into the list need no more than that step did.
LEMMA PutMade ==
  ASSUME Met(Head1), NEW s, Put(s), Head1 # <<"none">>, Unmade(Head1)
  PROVE  Unmade(s) /\ Met(s)
<1>0. CASE s = Head1
  BY <1>0
<1> DEFINE h == Head1
<1>1. CASE h[1] \in {"stage", "apply", "try_stage"} /\ s = <<"capture_ir", h[2]>>
  BY <1>1 DEF Unmade, Met, Makes, Alone, NeedsScanner, NeedsDriver
<1>2. CASE h[1] = "capture_ir" /\ s = <<"capture_dr", h[2]>>
  BY <1>2 DEF Unmade, Met, Makes, Alone, NeedsScanner, NeedsDriver
<1>3. CASE \/ h[1] = "apply" /\ s = <<"extest_ir", h[2]>>
           \/ h[1] = "extest_ir" /\ s = <<"extest_dr", h[2]>>
           \/ h[1] = "idcode_ir" /\ s = <<"idcode_dr", h[2]>>
  BY <1>3 DEF Unmade, Met, Makes, Alone, NeedsScanner, NeedsDriver
<1>4. CASE h[1] = "sample_all" /\ s = <<"sample_ir", h[2], "answer_all">>
  BY <1>4 DEF Unmade, Met, Makes, Alone, NeedsScanner, NeedsDriver
<1>5. CASE h[1] = "capture" /\ s = <<"frames", h[2]>>
  BY <1>5 DEF Unmade, Met, Makes, Alone, NeedsScanner, NeedsDriver
<1>6. CASE h[1] = "frames" /\ s = <<"sample_ir", h[2], "frames">>
  BY <1>6 DEF Unmade, Met, Makes, Alone, NeedsScanner, NeedsDriver
<1>7. CASE h[1] = "sample_ir" /\ s = <<"sample_dr", h[2], h[3]>>
  BY <1>7 DEF Unmade, Met, Makes, Alone, NeedsScanner, NeedsDriver
<1>8. CASE h[1] \in {"sample_ir", "sample_dr"} /\ h[3] \in Uses /\ s = <<h[3], h[2]>>
  BY <1>8 DEF Unmade, Met, Makes, Alone, NeedsScanner, NeedsDriver, Uses
<1>9. CASE h[1] = "script" /\ s[1] \in {"stage", "expect", "apply", "safe"} /\ s[2] = h[2]
  BY <1>9 DEF Unmade, Met, Makes, Alone, NeedsScanner, NeedsDriver
<1>10. CASE h[1] = "script" /\ s \in {<<"sample_ir", h[2], "sampled">>, <<"wrong">>}
  BY <1>10 DEF Unmade, Met, Makes, Alone, NeedsScanner, NeedsDriver
<1>11. CASE h[1] = "drive" /\ Ready(h[2].driver[1])
            /\ s \in {<<"try_stage", h[2].driver[1], h[2].driver[2], h[3]>>,
                      <<"apply", h[2].driver[1]>>, <<"observe", h[2], h[3]>>}
  BY <1>11 DEF Unmade, Met, Makes, Alone, NeedsScanner, NeedsDriver
<1>12. CASE h[1] = "observe" /\ \/ s = <<"check", h[2], h[3]>>
                                \/ s[1] = "sample_ir" /\ s[3] = "keep" /\ scanners[s[2]].made
  BY <1>12 DEF Unmade, Met, Makes, Alone, NeedsScanner, NeedsDriver
<1>13. h[1] # "driver"
  BY DEF Unmade, Makes
<1> QED BY <1>0, <1>1, <1>2, <1>3, <1>4, <1>5, <1>6, <1>7, <1>8, <1>9, <1>10, <1>11, <1>12, <1>13
     DEF Put, Follows

\* The list of the next state, by another name.
LEMMA NewTodo ==
  ASSUME NEW t, t = job'.todo, ListOK(t)'
  PROVE  ListOK(job.todo)'
<1>1. Steps(job.todo)' = Steps(t)
  BY DEF Steps
<1>2. AloneOK(job.todo)'
  BY <1>1 DEF ListOK, AloneOK
<1>3. Sorted(job.todo)'
  BY DEF ListOK, Sorted
<1>4. Supplied(job.todo)'
  BY <1>1 DEF ListOK, Supplied
<1> QED BY <1>2, <1>3, <1>4 DEF ListOK

\* Which objects there are.
SameMade == /\ UNCHANGED devices
            /\ \A d \in Dev : /\ scanners'[d].made = scanners[d].made
                              /\ drivers'[d].made = drivers[d].made

LEMMA StepMade ==
  ASSUME ToolsInv, ListOK(job.todo), Step, SameMade, Head1 # <<"none">>,
         ~Captures(Head1), Unmade(Head1)
  PROVE  ListOK(job.todo)'
<1>1. JobOK
  BY DEF ToolsInv
<1>2. \A s \in Steps(job.todo) : Unmade(s) /\ Met(s)
  BY <1>1, AllMade
<1>3. Steps(job.todo) = {Head1} \cup Steps(Tail(job.todo))
  <2>1. job.todo # <<>> /\ Head(job.todo) = Head1 /\ job.todo \in Seq(PlainSteps \cup BoundSteps)
    BY <1>1, HeadFacts DEF JobOK, TodoOK
  <2> QED BY <2>1, StepsTail
<1>4. \A s \in Steps(job'.todo) : Unmade(s) /\ Met(s)
  BY <1>2, <1>3, StepTodo, PutMade DEF Grown
<1>5. \A s : Met(s) => Met(s)'
  BY DEF SameMade, Met, NeedsScanner, NeedsDriver, Ready, InRange
<1>6. PICK t : t = job'.todo
  OBVIOUS
<1>7. \A s \in Steps(t) : Unmade(s) /\ Met(s)'
  BY <1>4, <1>5, <1>6
<1>8. ListOK(t)'
  BY <1>7 DEF ListOK, AloneOK, Sorted, Supplied, Steps, Unmade, Met
<1> QED BY <1>6, <1>8, NewTodo


\* A scanner or a pin driver that was made is changed, or none is.
LEMMA Touch ==
  ASSUME ToolsInv, Blank, UNCHANGED devices, NEW d \in Dev
  PROVE  /\ UNCHANGED <<scanners, drivers>> => Blank' /\ SameMade
         /\ \A f, e : (UNCHANGED drivers /\ scanners[d].made
               /\ scanners' \in {[scanners EXCEPT ![d].filter = f], [scanners EXCEPT ![d].error = e]})
                 => Blank' /\ SameMade
         /\ \A bsr : (UNCHANGED scanners /\ drivers[d].made /\ drivers' = [drivers EXCEPT ![d].bsr = bsr])
                 => Blank' /\ SameMade
<1>1. ScannersOK /\ DriversOK
  BY DEF ToolsInv, BoardOK
<1>2. UNCHANGED <<scanners, drivers>> => Blank' /\ SameMade
  BY DEF Blank, SameMade
<1>3. ASSUME NEW f, NEW e, UNCHANGED drivers, scanners[d].made,
             scanners' \in {[scanners EXCEPT ![d].filter = f], [scanners EXCEPT ![d].error = e]}
      PROVE  Blank' /\ SameMade
  <2>1. /\ \A c \in Dev : c # d => scanners'[c] = scanners[c]
        /\ scanners'[d].made = scanners[d].made
    BY <1>1, <1>3 DEF ScannersOK, NoScanner
  <2> QED BY <1>3, <2>1 DEF Blank, SameMade
<1>4. ASSUME NEW bsr, UNCHANGED scanners, drivers[d].made, drivers' = [drivers EXCEPT ![d].bsr = bsr]
      PROVE  Blank' /\ SameMade
  <2>1. /\ \A c \in Dev : c # d => drivers'[c] = drivers[c]
        /\ drivers'[d].made = drivers[d].made
    BY <1>1, <1>4 DEF DriversOK, NoDriver
  <2> QED BY <1>4, <2>1 DEF Blank, SameMade
<1> QED BY <1>2, <1>3, <1>4

\* The steps that come when all is made.
LaterSteps == {"sample_all", "capture", "sample_ir", "sample_dr", "idcode_ir", "idcode_dr", "answer",
               "answer_all", "frames", "sampled", "keep", "stage", "apply", "extest_ir", "extest_dr",
               "script", "wrong", "expect", "safe", "drive", "try_stage", "observe", "check"}

LEMMA LaterHead ==
  ASSUME ToolsInv, MadeInv, Head1[1] \in LaterSteps
  PROVE  Head1 # <<"none">> /\ ~Captures(Head1) /\ Unmade(Head1) /\ Met(Head1)
<1>1. Head1 # <<"none">> /\ ~Captures(Head1) /\ Unmade(Head1)
  BY DEF LaterSteps, Captures, Unmade, Makes, Alone
<1>2. JobOK
  BY DEF ToolsInv
<1>3. Head1 \in Steps(job.todo)
  <2>1. job.todo # <<>> /\ Head(job.todo) = Head1 /\ job.todo \in Seq(PlainSteps \cup BoundSteps)
    BY <1>1, <1>2, HeadFacts DEF JobOK, TodoOK
  <2> QED BY <2>1, StepsTail
<1> QED BY <1>1, <1>2, <1>3, AllMade DEF MadeInv

LEMMA LaterMade ==
  ASSUME ToolsInv, MadeInv, Step, Head1[1] \in LaterSteps, Blank' /\ SameMade
  PROVE  MadeInv'
BY LaterHead, StepMade DEF MadeInv

\* Steps that touch no scanner and no pin driver
LEMMA JobMade ==
  ASSUME ToolsInv, MadeInv,
         \/ AnswerSample \/ Frames \/ Apply \/ ExtestIr \/ ExtestDr \/ Script
         \/ Wrong \/ Expect \/ Drive \/ Observe \/ Keep \/ Check
  PROVE  MadeInv'
<1> DEFINE Quiet == UNCHANGED <<devices, scanners, drivers>> /\ Head1[1] \in LaterSteps
<1>1. ASSUME AnswerSample PROVE Quiet
  <2>1. PICK d \in Dev : /\ Head1 \in {<<"answer", d>>, <<"answer_all", d>>}
                         /\ IF scanners[d].error THEN Throw ELSE Done
                         /\ UNCHANGED <<devices, chain_error, ir, latch, scanners, drivers, seen, used>>
    BY <1>1, Zenon DEF AnswerSample
  <2> QED BY <2>1 DEF LaterSteps
<1>2. ASSUME Frames PROVE Quiet
  <2>1. \E d : Head1 = <<"frames", d>> /\ UNCHANGED <<devices, scanners, drivers>>
    BY <1>2, Zenon DEF Frames
  <2> QED BY <2>1 DEF LaterSteps
<1>3. ASSUME Apply PROVE Quiet
  <2>1. \E d : Head1 = <<"apply", d>> /\ UNCHANGED <<devices, scanners, drivers>>
    BY <1>3, Zenon DEF Apply
  <2> QED BY <2>1 DEF LaterSteps
<1>4. ASSUME ExtestIr PROVE Quiet
  <2>1. \E d : Head1 = <<"extest_ir", d>> /\ UNCHANGED <<devices, scanners, drivers>>
    BY <1>4, Zenon DEF ExtestIr, Select, SelectFails
  <2> QED BY <2>1 DEF LaterSteps
<1>5. ASSUME ExtestDr PROVE Quiet
  <2>1. \E d : Head1 = <<"extest_dr", d>> /\ UNCHANGED <<devices, scanners, drivers>>
    BY <1>5, Zenon DEF ExtestDr, Write, WriteFails
  <2> QED BY <2>1 DEF LaterSteps
<1>6. ASSUME Script PROVE Quiet
  <2>1. \E d : Head1 = <<"script", d>> /\ UNCHANGED <<devices, scanners, drivers>>
    BY <1>6, Zenon DEF Script
  <2> QED BY <2>1 DEF LaterSteps
<1>7. ASSUME Wrong PROVE Quiet
  <2>1. Head1 = <<"wrong">> /\ UNCHANGED <<devices, scanners, drivers>>
    BY <1>7, Zenon DEF Wrong
  <2> QED BY <2>1 DEF LaterSteps
<1>8. ASSUME Expect PROVE Quiet
  <2>1. \E d, p, v : Head1 = <<"expect", d, p, v>> /\ UNCHANGED <<devices, scanners, drivers>>
    BY <1>8, Zenon DEF Expect
  <2> QED BY <2>1 DEF LaterSteps
<1>9. ASSUME Drive PROVE Quiet
  <2>1. \E net, v : Head1 = <<"drive", net, v>> /\ UNCHANGED <<devices, scanners, drivers>>
    BY <1>9, Zenon DEF Drive
  <2> QED BY <2>1 DEF LaterSteps
<1>10. ASSUME Observe PROVE Quiet
  <2>1. \E net, v : Head1 = <<"observe", net, v>> /\ UNCHANGED <<devices, scanners, drivers>>
    BY <1>10, Zenon DEF Observe
  <2> QED BY <2>1 DEF LaterSteps
<1>11. ASSUME Keep PROVE Quiet
  <2>1. \E d : Head1 = <<"keep", d>> /\ UNCHANGED <<devices, scanners, drivers>>
    BY <1>11, Zenon DEF Keep
  <2> QED BY <2>1 DEF LaterSteps
<1>12. ASSUME Check PROVE Quiet
  <2>1. \E net, v : Head1 = <<"check", net, v>> /\ UNCHANGED <<devices, scanners, drivers>>
    BY <1>12, Zenon DEF Check
  <2> QED BY <2>1 DEF LaterSteps
<1>13. Quiet
  BY <1>1, <1>2, <1>3, <1>4, <1>5, <1>6, <1>7, <1>8, <1>9, <1>10, <1>11, <1>12
<1>14. Blank' /\ SameMade
  BY <1>13 DEF MadeInv, Blank, SameMade
<1>15. Step
  BY DEF Step
<1> QED BY <1>13, <1>14, <1>15, LaterMade

LEMMA ScannerMade ==
  ASSUME ToolsInv, MadeInv,
         SampleAll \/ StartCapture \/ SampleIr \/ SampleDr \/ IdCodeIr \/ IdCodeDr
  PROVE  MadeInv'
<1> DEFINE Sets(d) == \E f, e : scanners' \in {scanners, [scanners EXCEPT ![d].filter = f],
                                               [scanners EXCEPT ![d].error = e]}
           Head2(d) == \/ Head1 = <<"sample_all", d>> \/ \E f : Head1 = <<"capture", d, f>>
                       \/ \E use : Head1 \in {<<"sample_ir", d, use>>, <<"sample_dr", d, use>>}
                       \/ Head1 \in {<<"idcode_ir", d>>, <<"idcode_dr", d>>}
<1>1. \E d \in Dev : Head2(d) /\ Sets(d) /\ UNCHANGED <<devices, drivers>>
  <2>1. ASSUME SampleAll
        PROVE \E d \in Dev : Head1 = <<"sample_all", d>> /\ UNCHANGED <<devices, drivers>>
                             /\ \E f : scanners' = [scanners EXCEPT ![d].filter = f]
    BY <2>1, Zenon DEF SampleAll
  <2>2. ASSUME StartCapture
        PROVE \E d \in Dev : \E f : Head1 = <<"capture", d, f>> /\ UNCHANGED <<devices, drivers>>
                                /\ scanners' = [scanners EXCEPT ![d].filter = f]
    BY <2>2, Zenon DEF StartCapture
  <2>3. ASSUME SampleIr
        PROVE \E d \in Dev : \E use, e : Head1 = <<"sample_ir", d, use>> /\ UNCHANGED <<devices, drivers>>
                                   /\ scanners' \in {scanners, [scanners EXCEPT ![d].error = e]}
    <3>1. PICK d \in Dev, use \in Uses :
            /\ Head1 = <<"sample_ir", d, use>> /\ UNCHANGED drivers
            /\ \/ Select(d, Board[d].ops["SAMPLE"]) /\ UNCHANGED scanners
               \/ SelectFails(d, Board[d].ops["SAMPLE"]) /\ NoSample(d, use, chain_error)
               \/ NoSample(d, use, TRUE) /\ UNCHANGED devices
      BY <2>3, Zenon DEF SampleIr
    <3>2. UNCHANGED devices
      BY <3>1 DEF Select, SelectFails
    <3>3. scanners' = scanners \/ \E e : scanners' = [scanners EXCEPT ![d].error = e]
      BY <3>1, Zenon DEF NoSample
    <3> QED BY <3>1, <3>2, <3>3
  <2>4. ASSUME SampleDr
        PROVE \E d \in Dev : \E use : Head1 = <<"sample_dr", d, use>> /\ UNCHANGED <<devices, drivers>>
                 /\ (scanners' = scanners \/ \E e : scanners' = [scanners EXCEPT ![d].error = e])
    BY <2>4, Zenon DEF SampleDr, Read, ReadFails, NoSample
  <2>5. ASSUME IdCodeIr
        PROVE \E d \in Dev : Head1 = <<"idcode_ir", d>> /\ UNCHANGED <<devices, drivers>>
                 /\ (scanners' = scanners \/ \E e : scanners' = [scanners EXCEPT ![d].error = e])
    BY <2>5, Zenon DEF IdCodeIr, Select, SelectFails, NoIdCode
  <2>6. ASSUME IdCodeDr
        PROVE \E d \in Dev : Head1 = <<"idcode_dr", d>> /\ UNCHANGED <<devices, drivers>>
                 /\ (scanners' = scanners \/ \E e : scanners' = [scanners EXCEPT ![d].error = e])
    BY <2>6, Zenon DEF IdCodeDr, NoIdCode
  <2>7. CASE SampleAll
    BY <2>1, <2>7
  <2>8. CASE StartCapture
    BY <2>2, <2>8
  <2>9. CASE SampleIr
    BY <2>3, <2>9
  <2>10. CASE SampleDr
    BY <2>4, <2>10
  <2>11. CASE IdCodeIr
    BY <2>5, <2>11
  <2>12. CASE IdCodeDr
    BY <2>6, <2>12
  <2> QED BY <2>7, <2>8, <2>9, <2>10, <2>11, <2>12
<1>2. PICK d \in Dev : Head2(d) /\ Sets(d) /\ UNCHANGED <<devices, drivers>>
  BY <1>1
<1>3. Head1[1] \in LaterSteps /\ NeedsScanner(Head1, d)
  BY <1>2 DEF LaterSteps, NeedsScanner
<1>4. scanners[d].made
  BY <1>3, LaterHead DEF Met
<1>5. Blank' /\ SameMade
  <2> HIDE DEF Head2
  <2> QED BY <1>2, <1>4, Touch DEF MadeInv
<1>6. Step
  BY DEF Step
<1> QED BY <1>3, <1>5, <1>6, LaterMade

LEMMA DriverMade ==
  ASSUME ToolsInv, MadeInv, StagePin \/ TryStage \/ Sampled \/ ResetToSafe
  PROVE  MadeInv'
<1> DEFINE Sets(d) == \E bsr : drivers' \in {drivers, [drivers EXCEPT ![d].bsr = bsr]}
           Head2(d) == \/ \E p, v : Head1 \in {<<"stage", d, p, v>>, <<"try_stage", d, p, v>>}
                       \/ Head1 \in {<<"sampled", d>>, <<"safe", d>>}
<1>1. \E d \in Dev : Head2(d) /\ Sets(d) /\ UNCHANGED <<devices, scanners>>
  <2>1. ASSUME StagePin
        PROVE \E d \in Dev : \E p, v : Head1 = <<"stage", d, p, v>> /\ UNCHANGED <<devices, scanners>>
                 /\ (drivers' = drivers \/ \E bsr : drivers' = [drivers EXCEPT ![d].bsr = bsr])
    BY <2>1, Zenon DEF StagePin
  <2>2. ASSUME TryStage
        PROVE \E d \in Dev : \E p, v : Head1 = <<"try_stage", d, p, v>> /\ UNCHANGED <<devices, scanners>>
                 /\ (drivers' = drivers \/ \E bsr : drivers' = [drivers EXCEPT ![d].bsr = bsr])
    BY <2>2, Zenon DEF TryStage
  <2>3. ASSUME Sampled
        PROVE \E d \in Dev : Head1 = <<"sampled", d>> /\ UNCHANGED <<devices, scanners>>
                 /\ (drivers' = drivers \/ \E bsr : drivers' = [drivers EXCEPT ![d].bsr = bsr])
    BY <2>3, Zenon DEF Sampled
  <2>4. ASSUME ResetToSafe
        PROVE \E d \in Dev : Head1 = <<"safe", d>> /\ UNCHANGED <<devices, scanners>>
                 /\ (\E bsr : drivers' = [drivers EXCEPT ![d].bsr = bsr])
    BY <2>4, Zenon DEF ResetToSafe
  <2>5. CASE StagePin
    BY <2>1, <2>5
  <2>6. CASE TryStage
    BY <2>2, <2>6
  <2>7. CASE Sampled
    BY <2>3, <2>7
  <2>8. CASE ResetToSafe
    BY <2>4, <2>8
  <2> QED BY <2>5, <2>6, <2>7, <2>8
<1>2. PICK d \in Dev : Head2(d) /\ Sets(d) /\ UNCHANGED <<devices, scanners>>
  BY <1>1
<1>3. Head1[1] \in LaterSteps /\ NeedsDriver(Head1, d)
  BY <1>2 DEF LaterSteps, NeedsDriver
<1>4. drivers[d].made
  BY <1>3, LaterHead DEF Met
<1>5. Blank' /\ SameMade
  <2> HIDE DEF Head2
  <2> QED BY <1>2, <1>4, Touch DEF MadeInv
<1>6. Step
  BY DEF Step
<1> QED BY <1>3, <1>5, <1>6, LaterMade


\* The list without its first step, and with a capture in its place.
LEMMA PopSorted ==
  ASSUME NEW S, NEW t \in Seq(S), t # <<>>, ListOK(t), ~Alone(Head(t))
  PROVE  /\ \A s \in Steps(Tail(t)) : ~Alone(s)
         /\ AloneOK(Tail(t)) /\ Sorted(Tail(t))
         /\ \A c : Captures(c) => AloneOK(<<c>> \o Tail(t)) /\ Sorted(<<c>> \o Tail(t))
<1>1. PICK u, n : u = Tail(t) /\ n = Len(u)
  OBVIOUS
<1>2. /\ n \in Nat /\ Len(t) = n + 1 /\ u \in Seq(S) /\ \A i \in 1 .. n : u[i] = t[i + 1]
  BY <1>1
<1>3. \A i \in 1 .. n : i + 1 \in 1 .. Len(t)
  BY <1>2
<1>4. \A s \in Steps(u) : ~Alone(s)
  <2>1. CASE u = <<>>
    BY <2>1, StepsOne
  <2>2. CASE u # <<>>
    BY <1>1, <1>2, <1>3, <2>2 DEF ListOK, AloneOK, Steps
  <2> QED BY <2>1, <2>2
<1>5. Sorted(u)
  <2> SUFFICES ASSUME NEW i \in 1 .. n, NEW j \in 1 .. n, i < j, Makes(u[j])
               PROVE Makes(u[i]) \/ Captures(u[i])
    BY <1>1 DEF Sorted
  <2>1. i + 1 < j + 1
    BY <1>2
  <2> QED BY <2>1, <1>2, <1>3 DEF ListOK, Sorted
<1>6. ASSUME NEW c, Captures(c) PROVE AloneOK(<<c>> \o u) /\ Sorted(<<c>> \o u)
  <2>1. PICK T, h, w : T = S \cup {c} /\ h = <<c>> /\ w = h \o u
    OBVIOUS
  <2>2. h \in Seq(T) /\ u \in Seq(T) /\ Len(h) = 1 /\ h[1] = c
    BY <2>1, <1>2
  <2>3. Len(w) = 1 + n /\ w[1] = c /\ \A i \in 1 .. n : w[1 + i] = u[i]
    BY <2>1, <2>2, <1>1, ConcatFacts
  <2>4. Steps(w) = {c} \cup Steps(u)
    <3>1. Steps(h \o u) = Steps(h) \cup Steps(u)
      BY <2>2, StepsConcat
    <3> QED BY <3>1, <2>1, StepsOne
  <2>5. ~Alone(c)
    BY <1>6 DEF Captures, Alone
  <2>6. AloneOK(w)
    BY <2>4, <2>5, <1>4 DEF AloneOK
  <2>7. Sorted(w)
    <3> SUFFICES ASSUME NEW i \in 1 .. 1 + n, NEW j \in 1 .. 1 + n, i < j, Makes(w[j])
                 PROVE Makes(w[i]) \/ Captures(w[i])
      BY <2>3 DEF Sorted
    <3>1. CASE i = 1
      BY <3>1, <2>3, <1>6
    <3>2. CASE i # 1
      <4>1. PICK k, l : k = i - 1 /\ l = j - 1
        OBVIOUS
      <4>2. k \in 1 .. n /\ l \in 1 .. n /\ k < l /\ i = 1 + k /\ j = 1 + l
        BY <3>2, <4>1, <1>2
      <4>3. w[i] = u[k] /\ w[j] = u[l]
        BY <4>2, <2>3
      <4> QED BY <4>2, <4>3, <1>1, <1>5 DEF Sorted
    <3> QED BY <3>1, <3>2
  <2> QED BY <2>1, <2>6, <2>7
<1>7. AloneOK(u)
  BY <1>4 DEF AloneOK
<1> QED BY <1>1, <1>4, <1>5, <1>6, <1>7

\* The first steps of a job: what the first one makes, the next ones find.
LEMMA EarlyMade ==
  ASSUME ToolsInv, MadeInv, Head1 # <<"none">>, ~Alone(Head1), Blank', UNCHANGED devices,
         \A d \in Dev : /\ scanners'[d].made \/ ~scanners[d].made
                        /\ drivers'[d].made \/ ~drivers[d].made
                        /\ Head1 = <<"scanner", d>> => scanners'[d].made
                        /\ Head1 = <<"driver", d>> => drivers'[d].made,
         \/ Done
         \/ \E c : \E d \in Dev : Captures(c) /\ c[2] = d /\ drivers'[d].made /\ Go(<<c>>)
  PROVE  MadeInv'
<1>1. /\ job.todo # <<>> /\ Head(job.todo) = Head1 /\ job.todo \in Seq(PlainSteps \cup BoundSteps)
      /\ Tail(job.todo) \in Seq(PlainSteps) /\ JobOK
  BY HeadFacts DEF ToolsInv, JobOK, TodoOK
<1>2. PICK t, u : t = job.todo /\ u = Tail(t)
  OBVIOUS
<1>3. /\ \A s \in Steps(u) : ~Alone(s)
      /\ AloneOK(u) /\ Sorted(u)
      /\ \A c : Captures(c) => AloneOK(<<c>> \o u) /\ Sorted(<<c>> \o u)
  BY <1>1, <1>2, PopSorted DEF MadeInv
<1>4. Steps(t) = {Head1} \cup Steps(u)
  BY <1>1, <1>2, StepsTail
<1>5. \A s \in Steps(u), d \in Dev :
        /\ NeedsScanner(s, d) => scanners'[d].made \/ <<"scanner", d>> \in Steps(u)
        /\ NeedsDriver(s, d) => drivers'[d].made \/ (~Captures(s) /\ <<"driver", d>> \in Steps(u))
  <2> SUFFICES ASSUME NEW s \in Steps(u), NEW d \in Dev
               PROVE  /\ NeedsScanner(s, d) => scanners'[d].made \/ <<"scanner", d>> \in Steps(u)
                      /\ NeedsDriver(s, d) => drivers'[d].made \/ (~Captures(s) /\ <<"driver", d>> \in Steps(u))
    OBVIOUS
  <2>1. /\ NeedsScanner(s, d) => scanners[d].made \/ <<"scanner", d>> \in Steps(t)
        /\ NeedsDriver(s, d) => drivers[d].made \/ (~Captures(s) /\ <<"driver", d>> \in Steps(t))
    BY <1>2, <1>4 DEF MadeInv, ListOK, Supplied
  <2> QED BY <2>1, <1>4
<1>6. \A s, d : NeedsDriver(s, d)' <=> NeedsDriver(s, d)
  BY DEF NeedsDriver, Ready, InRange
<1>7. CASE Done
  <2>1. job'.todo = u
    <3>1. job'.todo = <<>> \o u
      BY <1>1, <1>2, <1>7 DEF Done, Go, Then, JobOK, JobShape, Idle
    <3>2. u \in Seq(PlainSteps)
      BY <1>1, <1>2
    <3> QED BY <3>1, <3>2
  <2>2. Supplied(u)'
    BY <1>5, <1>6 DEF Supplied, Steps, NeedsScanner
  <2>3. ListOK(u)'
    BY <1>3, <2>2 DEF ListOK, AloneOK, Sorted, Steps
  <2> QED BY <2>1, <2>3, NewTodo DEF MadeInv
<1>8. ASSUME NEW c, NEW d \in Dev, Captures(c), c[2] = d, drivers'[d].made, Go(<<c>>)
      PROVE MadeInv'
  <2>1. PICK T, h, w : T = PlainSteps \cup {c} /\ h = <<c>> /\ w = h \o u
    OBVIOUS
  <2>2. job'.todo = w
    BY <1>1, <1>2, <1>8, <2>1 DEF Go, Then, JobOK, JobShape, Idle
  <2>3. Steps(w) = {c} \cup Steps(u)
    <3>1. h \in Seq(T) /\ u \in Seq(T)
      BY <2>1, <1>1, <1>2
    <3>2. Steps(h \o u) = Steps(h) \cup Steps(u)
      BY <3>1, StepsConcat
    <3> QED BY <3>2, <2>1, StepsOne
  <2>4. AloneOK(w) /\ Sorted(w)
    BY <1>3, <1>8, <2>1
  <2>5. \A e \in Dev : ~NeedsScanner(c, e) /\ (NeedsDriver(c, e) => e = d)
    BY <1>8 DEF Captures, NeedsScanner, NeedsDriver
  <2>6. Supplied(w)'
    <3>1. \A s \in Steps(w), e \in Dev :
            /\ NeedsScanner(s, e) => scanners'[e].made \/ <<"scanner", e>> \in Steps(w)
            /\ NeedsDriver(s, e) => drivers'[e].made \/ (~Captures(s) /\ <<"driver", e>> \in Steps(w))
      BY <1>5, <1>8, <2>3, <2>5
    <3> QED BY <3>1, <1>6 DEF Supplied, Steps, NeedsScanner
  <2>7. ListOK(w)'
    BY <2>4, <2>6 DEF ListOK, AloneOK, Sorted, Steps
  <2> QED BY <2>2, <2>7, NewTodo DEF MadeInv
<1> QED BY <1>7, <1>8


LEMMA EmptyMade == ASSUME Blank', job'.todo = <<>> PROVE MadeInv'
<1>1. PICK t : t = job'.todo
  OBVIOUS
<1>2. Steps(t) = {}
  BY <1>1, StepsOne
<1>3. ListOK(t)'
  BY <1>1, <1>2 DEF ListOK, AloneOK, Sorted, Supplied, Steps
<1> QED BY <1>1, <1>3, NewTodo DEF MadeInv

LEMMA ThrowMade == ASSUME ToolsInv, Blank', Throw PROVE MadeInv'
<1>1. job'.todo = <<>>
  BY DEF ToolsInv, JobOK, Throw, JobShape, Idle
<1> QED BY <1>1, EmptyMade

\* Detection and the BSDL files: the job is over.
LEMMA AloneMade ==
  ASSUME ToolsInv, MadeInv, Alone(Head1), Head1 # <<"none">>, Blank', Done \/ Throw
  PROVE  MadeInv'
<1>1. CASE Throw
  BY <1>1, ThrowMade
<1>2. CASE Done
  <2>1. JobOK
    BY DEF ToolsInv
  <2>2. job.todo # <<>> /\ Head(job.todo) = Head1 /\ job.todo \in Seq(PlainSteps \cup BoundSteps)
    BY <2>1, HeadFacts DEF JobOK, TodoOK
  <2>3. Head1 \in Steps(job.todo)
    BY <2>2, StepsTail
  <2>4. Tail(job.todo) = <<>>
    BY <2>3 DEF MadeInv, ListOK, AloneOK
  <2>5. job'.todo = <<>> \o <<>>
    BY <1>2, <2>1, <2>4 DEF Done, Go, Then, JobOK, JobShape, Idle
  <2> QED BY <2>5, EmptyMade
<1> QED BY <1>1, <1>2

LEMMA DetectMade == ASSUME ToolsInv, MadeInv, DoDetect PROVE MadeInv'
<1>1. /\ Head1 = <<"detect">>
      /\ scanners' = [d \in Dev |-> NoScanner]
      /\ drivers' = [d \in Dev |-> NoDriver]
      /\ Done
  BY DEF DoDetect
<1>2. Blank'
  BY <1>1 DEF Blank
<1>3. Alone(Head1) /\ Head1 # <<"none">>
  BY <1>1 DEF Alone
<1> QED BY <1>1, <1>2, <1>3, AloneMade

LEMMA LoadMade == ASSUME ToolsInv, MadeInv, DoLoad PROVE MadeInv'
<1>1. PICK d \in Dev : Head1 = <<"load", d>> /\ (Done \/ Throw) /\ UNCHANGED <<scanners, drivers>>
  BY DEF DoLoad
<1>2. Blank'
  BY <1>1 DEF MadeInv, Blank
<1>3. Alone(Head1) /\ Head1 # <<"none">>
  BY <1>1 DEF Alone
<1> QED BY <1>1, <1>2, <1>3, AloneMade

LEMMA GetScannerMade == ASSUME ToolsInv, MadeInv, GetScanner PROVE MadeInv'
<1>1. PICK d \in Dev :
        /\ Head1 = <<"scanner", d>>
        /\ IF scanners[d].made \/ InRange(d) THEN UseScanner(d) /\ Done
           ELSE UNCHANGED scanners /\ Throw
        /\ UNCHANGED <<devices, chain_error, ir, latch, drivers, seen, used>>
  BY DEF GetScanner
<1>2. ScannersOK
  BY DEF ToolsInv, BoardOK
<1>3. CASE UNCHANGED scanners /\ Throw
  <2>1. Blank'
    BY <1>1, <1>3 DEF MadeInv, Blank
  <2> QED BY <1>3, <2>1, ThrowMade
<1>4. CASE UseScanner(d) /\ Done
  <2>1. \A e \in Dev : scanners'[e] = IF e = d /\ ~scanners[d].made THEN NewScanner ELSE scanners[e]
    BY <1>2, <1>4 DEF UseScanner, ScannersOK
  <2>2. NewScanner.made
    BY DEF NewScanner, NoScanner
  <2>3. scanners'[d].made
    BY <2>1, <2>2
  <2>4. Blank'
    BY <1>1, <2>1, <2>2 DEF MadeInv, Blank
  <2>5. ~Alone(Head1) /\ Head1 # <<"none">>
    BY <1>1 DEF Alone
  <2>6. \A e \in Dev : /\ scanners'[e].made \/ ~scanners[e].made
                       /\ drivers'[e].made \/ ~drivers[e].made
                       /\ Head1 = <<"scanner", e>> => scanners'[e].made
                       /\ Head1 = <<"driver", e>> => drivers'[e].made
    BY <1>1, <2>1, <2>2, <2>3
  <2> QED BY <1>1, <1>4, <2>4, <2>5, <2>6, EarlyMade
<1> QED BY <1>1, <1>3, <1>4

LEMMA GetDriverMade == ASSUME ToolsInv, MadeInv, GetDriver PROVE MadeInv'
<1>1. PICK d \in Dev :
        /\ Head1 = <<"driver", d>>
        /\ IF ~drivers[d].made /\ ~InRange(d) THEN UNCHANGED drivers /\ Throw
           ELSE /\ drivers' = [drivers EXCEPT ![d].made = TRUE]
                /\ Go(IF ~drivers[d].made /\ Ready(d) THEN Capturing(d) ELSE <<>>)
        /\ UNCHANGED <<devices, chain_error, ir, latch, scanners, seen, used>>
  BY DEF GetDriver
<1>2. DriversOK
  BY DEF ToolsInv, BoardOK
<1>3. CASE UNCHANGED drivers /\ Throw
  <2>1. Blank'
    BY <1>1, <1>3 DEF MadeInv, Blank
  <2> QED BY <1>3, <2>1, ThrowMade
<1>4. CASE /\ drivers' = [drivers EXCEPT ![d].made = TRUE]
           /\ Go(IF ~drivers[d].made /\ Ready(d) THEN Capturing(d) ELSE <<>>)
  <2>1. /\ drivers'[d].made
        /\ \A e \in Dev : e # d => drivers'[e] = drivers[e]
    BY <1>2, <1>4 DEF DriversOK, NoDriver
  <2>2. Blank'
    BY <1>1, <2>1 DEF MadeInv, Blank
  <2>3. ~Alone(Head1) /\ Head1 # <<"none">>
    BY <1>1 DEF Alone
  <2>4. \A e \in Dev : /\ scanners'[e].made \/ ~scanners[e].made
                       /\ drivers'[e].made \/ ~drivers[e].made
                       /\ Head1 = <<"scanner", e>> => scanners'[e].made
                       /\ Head1 = <<"driver", e>> => drivers'[e].made
    BY <1>1, <2>1
  <2>5. PICK c : c = <<"capture_ir", d>>
    OBVIOUS
  <2>6. Captures(c) /\ c[2] = d
    BY <2>5 DEF Captures
  <2>7. Done \/ Go(<<c>>)
    BY <1>4, <2>5 DEF Done, Capturing
  <2> QED BY <1>1, <2>1, <2>2, <2>3, <2>4, <2>6, <2>7, EarlyMade
<1> QED BY <1>1, <1>3, <1>4

\* A pin driver that captures is there.
LEMMA CapturingMade ==
  ASSUME ToolsInv, MadeInv, Captures(Head1), NEW d \in Dev, Head1[2] = d
  PROVE  drivers[d].made
<1>1. Head1 # <<"none">>
  BY DEF Captures
<1>2. job.todo # <<>> /\ Head(job.todo) = Head1 /\ job.todo \in Seq(PlainSteps \cup BoundSteps)
  BY <1>1, HeadFacts DEF ToolsInv, JobOK, TodoOK
<1>3. Head1 \in Steps(job.todo)
  BY <1>2, StepsTail
<1>4. NeedsDriver(Head1, d)
  BY DEF Captures, NeedsDriver
<1> QED BY <1>3, <1>4 DEF MadeInv, ListOK, Supplied

LEMMA CaptureMade == ASSUME ToolsInv, MadeInv, CaptureIr \/ CaptureDr PROVE MadeInv'
<1>1. \E d \in Dev : /\ Head1 = <<"capture_ir", d>> \/ Head1 = <<"capture_dr", d>>
                     /\ UNCHANGED <<devices, scanners>>
                     /\ drivers' = drivers \/ \E bsr : drivers' = [drivers EXCEPT ![d].bsr = bsr]
                     /\ Done \/ Go(<< <<"capture_dr", d>> >>)
  <2>1. ASSUME CaptureIr
        PROVE \E d \in Dev : /\ Head1 = <<"capture_ir", d>>
                             /\ UNCHANGED <<devices, scanners>>
                             /\ drivers' = drivers \/ \E bsr : drivers' = [drivers EXCEPT ![d].bsr = bsr]
                             /\ Done \/ Go(<< <<"capture_dr", d>> >>)
    BY <2>1, Zenon DEF CaptureIr, NoCapture, Select, SelectFails
  <2>2. ASSUME CaptureDr
        PROVE \E d \in Dev : /\ Head1 = <<"capture_dr", d>>
                             /\ UNCHANGED <<devices, scanners>>
                             /\ \E bsr : drivers' = [drivers EXCEPT ![d].bsr = bsr]
                             /\ Done
    BY <2>2, Zenon DEF CaptureDr, NoCapture, Read, ReadFails
  <2>3. CASE CaptureIr
    <3>1. PICK d \in Dev : /\ Head1 = <<"capture_ir", d>>
                           /\ UNCHANGED <<devices, scanners>>
                           /\ drivers' = drivers \/ \E bsr : drivers' = [drivers EXCEPT ![d].bsr = bsr]
                           /\ Done \/ Go(<< <<"capture_dr", d>> >>)
      BY <2>1, <2>3
    <3> QED BY <3>1
  <2>4. CASE CaptureDr
    <3>1. PICK d \in Dev : /\ Head1 = <<"capture_dr", d>>
                           /\ UNCHANGED <<devices, scanners>>
                           /\ \E bsr : drivers' = [drivers EXCEPT ![d].bsr = bsr]
                           /\ Done
      BY <2>2, <2>4
    <3> QED BY <3>1
  <2> QED BY <2>3, <2>4
<1>2. PICK d \in Dev : /\ Head1 = <<"capture_ir", d>> \/ Head1 = <<"capture_dr", d>>
                       /\ UNCHANGED <<devices, scanners>>
                       /\ drivers' = drivers \/ \E bsr : drivers' = [drivers EXCEPT ![d].bsr = bsr]
                       /\ Done \/ Go(<< <<"capture_dr", d>> >>)
  BY <1>1
<1>3. /\ Captures(Head1) /\ Head1[2] = d /\ Head1 # <<"none">> /\ ~Alone(Head1)
      /\ \A e : Head1 # <<"scanner", e>> /\ Head1 # <<"driver", e>>
  BY <1>2 DEF Captures, Alone
<1>4. drivers[d].made
  BY <1>3, CapturingMade
<1>5. Blank' /\ SameMade
  BY <1>2, <1>4, Touch DEF MadeInv
<1>6. PICK c : c = <<"capture_dr", d>>
  OBVIOUS
<1>7. Captures(c) /\ c[2] = d /\ (Done \/ Go(<<c>>))
  BY <1>2, <1>6 DEF Captures
<1>8. drivers'[d].made
  BY <1>4, <1>5 DEF SameMade
<1>9. \A e \in Dev : /\ scanners'[e].made \/ ~scanners[e].made
                     /\ drivers'[e].made \/ ~drivers[e].made
  BY <1>5 DEF SameMade
<1> QED BY <1>2, <1>3, <1>5, <1>7, <1>8, <1>9, EarlyMade

\* The list of a new job: the first steps make what the others need.
LEMMA FirstMakes ==
  ASSUME NEW S, NEW a \in Seq(S), NEW b \in Seq(S),
         \A s \in Steps(a) : Makes(s),
         \A s \in Steps(b) : ~Makes(s) /\ ~Captures(s) /\ ~Alone(s),
         \A s \in Steps(b), d \in Dev :
           /\ NeedsScanner(s, d) => <<"scanner", d>> \in Steps(a)
           /\ NeedsDriver(s, d) => <<"driver", d>> \in Steps(a)
  PROVE  ListOK(a \o b)
<1>1. PICK t, m, n : t = a \o b /\ m = Len(a) /\ n = Len(b)
  OBVIOUS
<1>2. /\ m \in Nat /\ n \in Nat /\ Len(t) = m + n
      /\ \A i \in 1 .. m : t[i] = a[i]
      /\ \A i \in 1 .. n : t[m + i] = b[i]
      /\ Steps(t) = Steps(a) \cup Steps(b)
  BY <1>1, ConcatFacts, StepsConcat
<1>3. \A s : Makes(s) => /\ ~Alone(s) /\ ~Captures(s)
                         /\ \A d : ~NeedsScanner(s, d) /\ ~NeedsDriver(s, d)
  BY DEF Makes, Alone, Captures, NeedsScanner, NeedsDriver
<1>4. AloneOK(t)
  BY <1>2, <1>3 DEF AloneOK
<1>5. Supplied(t)
  BY <1>2, <1>3 DEF Supplied
<1>6. Sorted(t)
  <2> SUFFICES ASSUME NEW i \in 1 .. Len(t), NEW j \in 1 .. Len(t), i < j, Makes(t[j])
               PROVE  Makes(t[i])
    BY DEF Sorted
  <2>1. j <= m
    <3> SUFFICES ASSUME ~(j <= m) PROVE FALSE
      OBVIOUS
    <3>1. PICK k : k = j - m
      OBVIOUS
    <3>2. k \in 1 .. n /\ j = m + k
      BY <1>2, <3>1
    <3>3. t[j] \in Steps(b)
      BY <1>1, <1>2, <3>2 DEF Steps
    <3> QED BY <3>3
  <2>2. i \in 1 .. m
    BY <1>2, <2>1
  <2>3. t[i] \in Steps(a)
    BY <1>1, <1>2, <2>2 DEF Steps
  <2> QED BY <2>3
<1> QED BY <1>1, <1>4, <1>5, <1>6 DEF ListOK

LEMMA BeginMade ==
  ASSUME ToolsInv, MadeInv, NEW tool, NEW d, NEW p, NEW v, NEW todo, ListOK(todo),
         BeginPin(tool, d, p, v, todo)
  PROVE  MadeInv'
<1>1. job' = [Idle EXCEPT !.tool = tool, !.dev = d, !.pin = p, !.value = v, !.todo = todo]
      /\ UNCHANGED <<devices, scanners, drivers>>
  BY DEF BeginPin
<1>2. job'.todo = todo
  BY <1>1 DEF Idle
<1>3. Blank'
  BY <1>1 DEF MadeInv, Blank
<1>4. ListOK(todo)'
  BY <1>1 DEF ListOK, AloneOK, Sorted, Supplied, Steps, NeedsScanner, NeedsDriver, Ready, InRange
<1> QED BY <1>2, <1>3, <1>4, NewTodo DEF MadeInv

LEMMA OneAndOne == ASSUME NEW a, NEW b PROVE <<a>> \o <<b>> = <<a, b>>
<1> DEFINE u == <<a>> \o <<b>>
           w == <<a, b>>
           S == {a, b}
<1>1. Len(u) = 2 /\ u[1] = a /\ u[2] = b
  OBVIOUS
<1>2. Len(w) = 2 /\ w[1] = a /\ w[2] = b
  OBVIOUS
<1>3. u \in Seq(S) /\ w \in Seq(S)
  OBVIOUS
<1> HIDE DEF u, w, S
<1>4. \A i \in 1 .. 2 : u[i] = w[i]
  BY <1>1, <1>2
<1>5. u = w
  BY <1>1, <1>2, <1>3, <1>4, SeqEq
<1> QED BY <1>5 DEF u, w

LEMMA TwoAndTwo == ASSUME NEW a, NEW b, NEW c, NEW d PROVE <<a, b>> \o <<c, d>> = <<a, b, c, d>>
<1> DEFINE u == <<a, b>> \o <<c, d>>
           w == <<a, b, c, d>>
           S == {a, b, c, d}
<1>1. Len(u) = 4 /\ u[1] = a /\ u[2] = b /\ u[3] = c /\ u[4] = d
  OBVIOUS
<1>2. Len(w) = 4 /\ w[1] = a /\ w[2] = b /\ w[3] = c /\ w[4] = d
  OBVIOUS
<1>3. u \in Seq(S) /\ w \in Seq(S)
  OBVIOUS
<1> HIDE DEF u, w, S
<1>4. \A i \in 1 .. 4 : u[i] = w[i]
  BY <1>1, <1>2
<1>5. u = w
  BY <1>1, <1>2, <1>3, <1>4, SeqEq
<1> QED BY <1>5 DEF u, w

LEMMA TwoSteps == ASSUME NEW a, NEW b PROVE Steps(<<a, b>>) = {a, b}
BY DEF Steps

LEMMA AloneList == ASSUME NEW a, Alone(a) PROVE ListOK(<<a>>)
<1>1. Tail(<<a>>) = <<>> /\ Steps(<<a>>) = {a}
  BY ShortLists, StepsOne
<1>2. \A e : ~NeedsScanner(a, e) /\ ~NeedsDriver(a, e)
  BY DEF Alone, NeedsScanner, NeedsDriver
<1>3. Sorted(<<a>>)
  BY DEF Sorted
<1> QED BY <1>1, <1>2, <1>3 DEF ListOK, AloneOK, Supplied

\* The lists of the tools that use one device.
LEMMA DeviceLists ==
  ASSUME NEW d \in Dev
  PROVE  /\ ListOK(<< <<"load", d>> >>)
         /\ ListOK(<< <<"scanner", d>> >>)
         /\ \A s : s[1] \in {"sample_all", "idcode_ir", "capture"} /\ s[2] = d
                     => ListOK(<< <<"scanner", d>>, s>>)
         /\ ListOK(<< <<"scanner", d>> >> \o Sampling(d, "answer"))
         /\ \A p, v : ListOK(<< <<"driver", d>>, <<"stage", d, p, v>> >> \o Applying(d))
         /\ ListOK(<< <<"scanner", d>>, <<"driver", d>>, <<"script", d>> >>)
         /\ ListOK(<< <<"scanner", d>>, <<"driver", d>>, <<"script", d>>, <<"script", d>> >>)
<1>2. ListOK(<< <<"load", d>> >>)
  <2>1. Alone(<<"load", d>>)
    BY DEF Alone
  <2> QED BY <2>1, AloneList
<1>3. PICK sc, dr : sc = <<"scanner", d>> /\ dr = <<"driver", d>>
  OBVIOUS
<1>4. Makes(sc) /\ Makes(dr)
  BY <1>3 DEF Makes
<1> DEFINE User(s) == ~Makes(s) /\ ~Captures(s) /\ ~Alone(s)
           Scans(s) == User(s) /\ \A e \in Dev : /\ NeedsScanner(s, e) => e = d
                                                 /\ ~NeedsDriver(s, e)
           Drives(s) == User(s) /\ \A e \in Dev : /\ NeedsDriver(s, e) => e = d
                                                  /\ ~NeedsScanner(s, e)
           Both(s) == User(s) /\ \A e \in Dev : /\ NeedsDriver(s, e) => e = d
                                                /\ NeedsScanner(s, e) => e = d
<1>5. ASSUME NEW S, NEW b \in Seq(S), \A s \in Steps(b) : Scans(s) PROVE ListOK(<<sc>> \o b)
  <2>1. PICK T, a : T = S \cup {sc} /\ a = <<sc>>
    OBVIOUS
  <2>2. a \in Seq(T) /\ b \in Seq(T) /\ Steps(a) = {sc}
    BY <2>1, StepsOne
  <2> QED BY <2>1, <2>2, <1>3, <1>4, <1>5, FirstMakes
<1>6. ASSUME NEW S, NEW b \in Seq(S), \A s \in Steps(b) : Drives(s) PROVE ListOK(<<dr>> \o b)
  <2>1. PICK T, a : T = S \cup {dr} /\ a = <<dr>>
    OBVIOUS
  <2>2. a \in Seq(T) /\ b \in Seq(T) /\ Steps(a) = {dr}
    BY <2>1, StepsOne
  <2> QED BY <2>1, <2>2, <1>3, <1>4, <1>6, FirstMakes
<1>7. ASSUME NEW S, NEW b \in Seq(S), \A s \in Steps(b) : Both(s) PROVE ListOK(<<sc, dr>> \o b)
  <2>1. PICK T, a : T = S \cup {sc, dr} /\ a = <<sc, dr>>
    OBVIOUS
  <2>2. a \in Seq(T) /\ b \in Seq(T) /\ Steps(a) = {sc, dr}
    BY <2>1, TwoSteps
  <2> QED BY <2>1, <2>2, <1>3, <1>4, <1>7, FirstMakes
<1>8. ListOK(<<sc>>)
  <2>1. <<sc>> \o <<>> = <<sc>> /\ <<>> \in Seq({}) /\ Steps(<<>>) = {}
    BY ShortLists, StepsOne
  <2>2. ListOK(<<sc>> \o <<>>)
    BY <2>1, <1>5
  <2> QED BY <2>1, <2>2
<1>9. ASSUME NEW s, s[1] \in {"sample_all", "idcode_ir", "capture"} \/ s = <<"sample_ir", d, "answer">>, s[2] = d
      PROVE  ListOK(<<sc>> \o <<s>>) /\ ListOK(<<sc, s>>)
  <2>1. Scans(s)
    BY <1>9 DEF Makes, Captures, Alone, NeedsScanner, NeedsDriver
  <2>2. <<s>> \in Seq({s}) /\ Steps(<<s>>) = {s} /\ <<sc>> \o <<s>> = <<sc, s>>
    BY StepsOne, OneAndOne
  <2>3. ListOK(<<sc>> \o <<s>>)
    BY <2>1, <2>2, <1>5
  <2> QED BY <2>2, <2>3
<1>10. ASSUME NEW p, NEW v PROVE ListOK(<<dr, <<"stage", d, p, v>> >> \o Applying(d))
  <2>1. PICK s, a : s = <<"stage", d, p, v>> /\ a = <<"apply", d>>
    OBVIOUS
  <2>2. Drives(s) /\ Drives(a)
    BY <2>1 DEF Makes, Captures, Alone, NeedsScanner, NeedsDriver
  <2>3. <<dr, s>> \o <<a>> = <<dr, s, a>> /\ <<dr>> \o <<s, a>> = <<dr, s, a>>
    BY OneAndTwo, TwoAndOne
  <2>4. <<s, a>> \in Seq({s, a}) /\ Steps(<<s, a>>) = {s, a}
    BY TwoSteps
  <2>5. ListOK(<<dr>> \o <<s, a>>)
    BY <2>2, <2>4, <1>6
  <2> QED BY <2>1, <2>3, <2>5 DEF Applying
<1>11. PICK s : s = <<"script", d>>
  OBVIOUS
<1>12. Both(s)
  BY <1>11 DEF Makes, Captures, Alone, NeedsScanner, NeedsDriver
<1>13. ListOK(<<sc, dr, s>>)
  <2>1. <<s>> \in Seq({s}) /\ Steps(<<s>>) = {s} /\ <<sc, dr>> \o <<s>> = <<sc, dr, s>>
    BY StepsOne, TwoAndOne
  <2>2. ListOK(<<sc, dr>> \o <<s>>)
    BY <2>1, <1>7, <1>12
  <2> QED BY <2>1, <2>2
<1>14. ListOK(<<sc, dr, s, s>>)
  <2>1. <<s, s>> \in Seq({s}) /\ Steps(<<s, s>>) = {s} /\ <<sc, dr>> \o <<s, s>> = <<sc, dr, s, s>>
    BY TwoSteps, TwoAndTwo
  <2>2. ListOK(<<sc, dr>> \o <<s, s>>)
    BY <2>1, <1>7, <1>12
  <2> QED BY <2>1, <2>2
<1>15. ListOK(<<sc>> \o Sampling(d, "answer"))
  <2>1. PICK a : a = <<"sample_ir", d, "answer">>
    OBVIOUS
  <2>2. a[2] = d
    BY <2>1
  <2>3. ListOK(<<sc>> \o <<a>>)
    BY <2>1, <2>2, <1>9
  <2> QED BY <2>1, <2>3 DEF Sampling
<1> HIDE DEF User, Scans, Drives, Both
<1> QED BY <1>2, <1>3, <1>8, <1>9, <1>10, <1>11, <1>13, <1>14, <1>15

\* The list of the interconnect test: a scanner and a driver for each device
\* that is ready.
LEMMA NetList ==
  ASSUME NEW net \in Nets
  PROVE  ListOK(FlattenSeq([d \in Dev |-> IF Ready(d) THEN << <<"scanner", d>>, <<"driver", d>> >>
                                          ELSE <<>>])
                \o << <<"drive", net, 0>>, <<"drive", net, 1>> >>)
<1> DEFINE x == [d \in Dev |-> IF Ready(d) THEN << <<"scanner", d>>, <<"driver", d>> >> ELSE <<>>]
           y == << <<"drive", net, 0>>, <<"drive", net, 1>> >>
           S == {"scanner", "driver"} \X Dev
           T == S \cup ({"drive"} \X Nets \X (0 .. 1))
<1>1. \A d \in Dev : x[d] \in Seq(S)
  <2>1. ASSUME NEW d \in Dev PROVE << <<"scanner", d>>, <<"driver", d>> >> \in Seq(S) /\ <<>> \in Seq(S)
    <3>1. <<"scanner", d>> \in S /\ <<"driver", d>> \in S
      OBVIOUS
    <3>2. \A a, b \in S : <<a, b>> \in Seq(S)
      OBVIOUS
    <3> HIDE DEF S
    <3> QED BY <3>1, <3>2
  <2> HIDE DEF S
  <2> QED BY <2>1
<1>2. x \in Seq(Seq(S)) /\ Len(x) = Len(Board) /\ Len(Board) \in Nat
  <2>1. x \in [1 .. Len(Board) -> Seq(S)]
    BY <1>1 DEF Dev
  <2> HIDE DEF x
  <2> QED BY <2>1, BoardAssumption, IsSeq
<1>3. PICK f : f = FlattenSeq(x)
  OBVIOUS
<1>4. f \in Seq(S)
  <2> HIDE DEF x, S
  <2> QED BY <1>2, <1>3, FlattenFacts
<1>5. \A s \in Steps(f) : Makes(s)
  <2>1. \A s \in S : Makes(s)
    BY DEF Makes
  <2> HIDE DEF S
  <2> QED BY <1>4, <2>1 DEF Steps
<1>6. ASSUME NEW d \in Dev, Ready(d) PROVE <<"driver", d>> \in Steps(f)
  <2>1. d \in 1 .. Len(x)
    BY <1>2 DEF Dev
  <2>2. PICK p, q : p = <<"scanner", d>> /\ q = <<"driver", d>>
    OBVIOUS
  <2>3. x[d] = <<p, q>>
    BY <1>6, <2>2
  <2>4. 2 \in 1 .. Len(x[d]) /\ x[d][2] = q
    <3>1. Len(<<p, q>>) = 2 /\ <<p, q>>[2] = q
      OBVIOUS
    <3> HIDE DEF x
    <3> QED BY <3>1, <2>3
  <2> HIDE DEF x, S
  <2>5. /\ Len(Ahead(x, d)) \in Nat /\ Len(x[d]) \in Nat /\ Len(f) \in Nat
        /\ Len(Ahead(x, d)) + Len(x[d]) <= Len(f)
        /\ f[Len(Ahead(x, d)) + 2] = q
    BY <1>2, <1>3, <2>1, <2>4, PartOf
  <2>6. Len(Ahead(x, d)) + 2 \in 1 .. Len(f)
    BY <2>4, <2>5
  <2> QED BY <2>2, <2>5, <2>6 DEF Steps
<1>7. PICK a, b : a = <<"drive", net, 0>> /\ b = <<"drive", net, 1>>
  OBVIOUS
<1>8. y = <<a, b>> /\ Steps(y) = {a, b}
  BY <1>7, TwoSteps
<1>9. y \in Seq(T) /\ f \in Seq(T)
  <2>1. a \in T /\ b \in T
    BY <1>7
  <2>2. S \subseteq T
    OBVIOUS
  <2> HIDE DEF S, T, y
  <2> QED BY <1>4, <1>8, <2>1, <2>2
<1>10. \A s \in {a, b} : /\ ~Makes(s) /\ ~Captures(s) /\ ~Alone(s)
                         /\ \A d \in Dev : ~NeedsScanner(s, d) /\ (NeedsDriver(s, d) => Ready(d))
  BY <1>7 DEF Makes, Captures, Alone, NeedsScanner, NeedsDriver
<1> HIDE DEF x, y, S, T
<1>11. ListOK(f \o y)
  BY <1>5, <1>6, <1>8, <1>9, <1>10, FirstMakes
<1> QED BY <1>3, <1>11 DEF x, y

LEMMA CallMade == ASSUME ToolsInv, MadeInv, Call PROVE MadeInv'
<1>1. ASSUME DetectDevices PROVE MadeInv'
  <2>1. ListOK(<< <<"detect">> >>)
    <3>1. Alone(<<"detect">>)
      BY DEF Alone
    <3> QED BY <3>1, AloneList
  <2> QED BY <1>1, <2>1, BeginMade DEF DetectDevices, Begin
<1>2. ASSUME NEW d \in Dev, \/ LoadBsdlFile(d) \/ ListPins(d) \/ SampleBsr(d) \/ ReadIdCode(d)
                            \/ RunScript(d) \/ RunSuite(d)
      PROVE MadeInv'
  <2>1. PICK s, i : s = <<"sample_all", d>> /\ i = <<"idcode_ir", d>>
    OBVIOUS
  <2>2. s[1] = "sample_all" /\ s[2] = d /\ i[1] = "idcode_ir" /\ i[2] = d
    BY <2>1
  <2>3. ListOK(<< <<"scanner", d>>, s>>) /\ ListOK(<< <<"scanner", d>>, i>>)
    BY <2>2, DeviceLists
  <2> QED BY <1>2, <2>1, <2>3, BeginMade, DeviceLists
          DEF LoadBsdlFile, ListPins, SampleBsr, ReadIdCode, RunScript, RunSuite, Begin
<1>3. ASSUME NEW d \in Dev, NEW p \in Pins, ReadPin(d, p) PROVE MadeInv'
  BY <1>3, DeviceLists, BeginMade DEF ReadPin
<1>4. ASSUME NEW d \in Dev, NEW p \in Pins, NEW v \in -1 .. 1, SetPin(d, p, v) PROVE MadeInv'
  BY <1>4, DeviceLists, BeginMade DEF SetPin
<1>5. ASSUME NEW d \in Dev, NEW f \in Filters, CaptureStart(d, f) PROVE MadeInv'
  <2>1. PICK s : s = <<"capture", d, f>>
    OBVIOUS
  <2>2. s[1] = "capture" /\ s[2] = d
    BY <2>1
  <2>3. ListOK(<< <<"scanner", d>>, s>>)
    BY <2>2, DeviceLists
  <2> QED BY <1>5, <2>1, <2>3, BeginMade DEF CaptureStart, Begin
<1>6. ASSUME NEW net \in Nets, RunInterconnectTest(net) PROVE MadeInv'
  BY <1>6, NetList, BeginMade DEF RunInterconnectTest, Begin
<1> QED BY <1>1, <1>2, <1>3, <1>4, <1>5, <1>6 DEF Call

LEMMA MadeStep == ToolsInv /\ MadeInv /\ [ToolsNext]_tool_vars => MadeInv'
<1> SUFFICES ASSUME ToolsInv, MadeInv, [ToolsNext]_tool_vars PROVE MadeInv'
  OBVIOUS
<1>1. CASE Call
  BY <1>1, CallMade
<1>2. CASE Step
  BY <1>2, DetectMade, LoadMade, GetScannerMade, GetDriverMade, CaptureMade, ScannerMade, DriverMade, JobMade
     DEF Step
<1>3. CASE UNCHANGED tool_vars
  <2>1. PICK t : t = job.todo
    OBVIOUS
  <2>2. ListOK(t) /\ t = job'.todo
    BY <1>3, <2>1 DEF MadeInv, tool_vars
  <2>3. ListOK(t)'
    BY <1>3, <2>2 DEF tool_vars, ListOK, AloneOK, Sorted, Supplied, Steps, NeedsScanner, NeedsDriver,
                      Ready, InRange
  <2>4. Blank'
    BY <1>3 DEF tool_vars, MadeInv, Blank
  <2> QED BY <2>2, <2>3, <2>4, NewTodo DEF MadeInv
<1> QED BY <1>1, <1>2, <1>3 DEF ToolsNext

LEMMA MadeInit == ToolsInit => MadeInv
<1> SUFFICES ASSUME ToolsInit PROVE MadeInv
  OBVIOUS
<1>1. Blank
  BY DEF ToolsInit, Blank
<1>2. PICK t : t = job.todo
  OBVIOUS
<1>3. t = <<>>
  BY <1>2 DEF ToolsInit, Idle
<1>4. ListOK(t)
  BY <1>3, StepsOne DEF ListOK, AloneOK, Sorted, Supplied
<1> QED BY <1>1, <1>2, <1>4 DEF MadeInv

\* What a scan, a tool, a script or a test samples is what the pins of the
\* device are at, on every board and for every board image.
LEMMA SamplesFollow == ToolsInv /\ Blank => SamplesTrue
<1> SUFFICES ASSUME ToolsInv, Blank PROVE SamplesTrue
  OBVIOUS
<1>1. devices \in ChainStates /\ IrOK /\ LatchesOK /\ ScannersOK /\ DriversOK /\ HeadOK
  BY DEF ToolsInv, BoardOK, ChainOK
<1>2. ToolsTypeOK
  <2>1. Len(devices) <= Len(Board)
    BY <1>1, FoundFacts
  <2>2. ir \in [Dev -> {"BYPASS", "IDCODE", "SAMPLE", "EXTEST"}]
    BY <1>1 DEF IrOK, Kinds, Instructions
  <2>3. \A d \in Dev : latch[d] \in [1 .. Len(Cells(d)) -> Bits] /\ seen[d] \in [1 .. Len(Cells(d)) -> Bits]
    BY <1>1 DEF LatchesOK, LatchOK
  <2>4. \A d \in Dev : /\ drivers[d].bsr \in {<<>>} \cup [1 .. Len(Cells(d)) -> Bits]
                       /\ (scanners[d].made \/ drivers[d].made) => InRange(d)
                       /\ (drivers[d].bsr # <<>> => Ready(d))
    BY <1>1 DEF ScannersOK, DriversOK
  <2> QED BY <2>1, <2>2, <2>3, <2>4 DEF ToolsTypeOK, Blank
<1>3. ASSUME NEW d \in Dev, job.raw # <<>>,
             Head1 \in {<<"answer", d>>, <<"answer_all", d>>, <<"frames", d>>, <<"sampled", d>>, <<"keep", d>>}
      PROVE  SampleIs(d) /\ (Head1[1] = "answer_all" => scanners[d].filter = {})
  <2>1. PICK use \in Uses : Head1 = <<use, d>>
    BY <1>3 DEF Uses
  <2> QED BY <1>1, <1>3, <2>1 DEF HeadOK
<1>4. ASSUME NEW d \in Dev, job.raw # <<>>,
             Head1 \in {<<"answer", d>>, <<"answer_all", d>>, <<"frames", d>>, <<"sampled", d>>, <<"keep", d>>},
             NEW p \in ObservablePins(Cells(d))
      PROVE  IF Head1[1] = "answer_all" \/ scanners[d].filter = {} \/ p \in scanners[d].filter
             THEN GetPin(job.states, p) = Level(d, p)
             ELSE GetPin(job.states, p) = "unknown"
  BY <1>3, <1>4 DEF SampleIs
<1> QED BY <1>2, <1>4 DEF SamplesTrue

\* A sample that works tells the levels the device's own cells captured, on any
\* board and in any order of calls: through the BYPASS bits of the others, the
\* partial read and the filter of the capture before it.
THEOREM SamplesHold == ToolsSpec => []SamplesTrue
<1>1. ToolsInit => ToolsInv /\ MadeInv
  BY ToolsInitInv, MadeInit
<1>2. ToolsInv /\ MadeInv /\ [ToolsNext]_tool_vars => ToolsInv' /\ MadeInv'
  BY ToolsStepInv, MadeStep
<1>3. ToolsInv /\ MadeInv => SamplesTrue
  BY SamplesFollow DEF MadeInv
<1> QED BY <1>1, <1>2, <1>3, PTL DEF ToolsSpec

-----------------------------------------------------------------------------
(* The interconnect test                                                   *)

KeepSample(s) == s[1] = "keep" \/ (s[1] \in {"sample_ir", "sample_dr"} /\ s[3] = "keep")
IsCheck(s) == s[1] = "check"
Checks(t) == \E s \in Steps(t) : IsCheck(s)

\* These states are what the cells of the device captured last.
Told(states, d) ==
  \A p : GetPin(states, p) \in {"low", "high"} =>
           p \in ObservablePins(Cells(d)) /\ GetPin(states, p) = Level(d, p)

\* Only the samples of the receivers come before a check, and each has been kept
\* but the one that has just been taken.
KeepsFirst(t) == \A i, j \in 1 .. Len(t) : i < j /\ IsCheck(t[j]) => KeepSample(t[i])
NetInv ==
  /\ job.steps \in Seq(BOOLEAN)
  /\ KeepsFirst(job.todo)
  /\ Checks(job.todo) =>
       \A d \in Dev : Told(IF Head1 = <<"keep", d>> THEN job.states ELSE job.samples[d], d)

\* The list without its first step, and with a sampling in its place.
LEMMA PopKeeps ==
  ASSUME NEW S, NEW t \in Seq(S), t # <<>>, KeepsFirst(t)
  PROVE  /\ KeepsFirst(Tail(t))
         /\ Checks(Tail(t)) => Checks(t) /\ KeepSample(Head(t))
         /\ \A c : KeepSample(c) => KeepsFirst(<<c>> \o Tail(t))
<1>1. PICK u, n : u = Tail(t) /\ n = Len(u)
  OBVIOUS
<1>2. /\ n \in Nat /\ Len(t) = n + 1 /\ u \in Seq(S) /\ \A i \in 1 .. n : u[i] = t[i + 1]
      /\ Head(t) = t[1]
  BY <1>1
<1>3. \A i \in 1 .. n : i + 1 \in 1 .. Len(t) /\ 1 < i + 1
  BY <1>2
<1>4. KeepsFirst(u)
  <2> SUFFICES ASSUME NEW i \in 1 .. n, NEW j \in 1 .. n, i < j, IsCheck(u[j])
               PROVE KeepSample(u[i])
    BY <1>1 DEF KeepsFirst
  <2>1. i + 1 < j + 1
    BY <1>2
  <2> QED BY <2>1, <1>2, <1>3 DEF KeepsFirst
<1>5. Checks(u) => Checks(t) /\ KeepSample(Head(t))
  <2> SUFFICES ASSUME NEW i \in 1 .. n, IsCheck(u[i]) PROVE Checks(t) /\ KeepSample(Head(t))
    BY <1>1 DEF Checks, Steps
  <2>1. 1 \in 1 .. Len(t)
    BY <1>2
  <2> QED BY <2>1, <1>2, <1>3 DEF KeepsFirst, Checks, Steps
<1>6. ASSUME NEW c, KeepSample(c) PROVE KeepsFirst(<<c>> \o u)
  <2>1. PICK T, h, w : T = S \cup {c} /\ h = <<c>> /\ w = h \o u
    OBVIOUS
  <2>2. h \in Seq(T) /\ u \in Seq(T) /\ Len(h) = 1 /\ h[1] = c
    BY <2>1, <1>2
  <2>3. Len(w) = 1 + n /\ w[1] = c /\ \A i \in 1 .. n : w[1 + i] = u[i]
    BY <2>1, <2>2, <1>1, ConcatFacts
  <2>4. KeepsFirst(w)
    <3> SUFFICES ASSUME NEW i \in 1 .. 1 + n, NEW j \in 1 .. 1 + n, i < j, IsCheck(w[j])
                 PROVE KeepSample(w[i])
      BY <2>3 DEF KeepsFirst
    <3>1. CASE i = 1
      BY <3>1, <2>3, <1>6
    <3>2. CASE i # 1
      <4>1. PICK k, l : k = i - 1 /\ l = j - 1
        OBVIOUS
      <4>2. k \in 1 .. n /\ l \in 1 .. n /\ k < l /\ i = 1 + k /\ j = 1 + l
        BY <3>2, <4>1, <1>2
      <4>3. w[i] = u[k] /\ w[j] = u[l]
        BY <4>2, <2>3
      <4> QED BY <4>2, <4>3, <1>1, <1>4 DEF KeepsFirst
    <3> QED BY <3>1, <3>2
  <2> QED BY <2>1, <2>4
<1> QED BY <1>1, <1>4, <1>5, <1>6

\* The first step of the list
LEMMA NetHead ==
  ASSUME ToolsInv, NetInv, Head1 # <<"none">>
  PROVE  /\ JobOK /\ KeepsFirst(Tail(job.todo))
         /\ Checks(Tail(job.todo)) => Checks(job.todo) /\ KeepSample(Head1)
         /\ \A c : KeepSample(c) => KeepsFirst(<<c>> \o Tail(job.todo))
<1>1. JobOK
  BY DEF ToolsInv
<1>2. job.todo # <<>> /\ Head(job.todo) = Head1 /\ job.todo \in Seq(PlainSteps \cup BoundSteps)
  BY <1>1, HeadFacts DEF JobOK, TodoOK
<1> QED BY <1>1, <1>2, PopKeeps DEF NetInv

\* A list without a check needs no more.
LEMMA Unchecked ==
  ASSUME (job.steps \in Seq(BOOLEAN))', NEW t, t = job'.todo, ~Checks(t)
  PROVE  NetInv'
<1>1. \A j \in 1 .. Len(t) : ~IsCheck(t[j])
  BY DEF Checks, Steps
<1>2. KeepsFirst(job.todo)'
  BY <1>1 DEF KeepsFirst
<1>3. ~Checks(job.todo)'
  BY DEF Checks, Steps
<1> QED BY <1>2, <1>3 DEF NetInv

\* Which step the list begins with.
LEMMA StepHead ==
  ASSUME Step
  PROVE  /\ Head1 # <<"none">>
         /\ Head1[1] = "observe" => Observe
         /\ Head1[1] = "check" => Check
         /\ KeepSample(Head1) => Keep \/ SampleIr \/ SampleDr
<1> DEFINE Other == Head1 # <<"none">> /\ Head1[1] \notin {"observe", "check"} /\ ~KeepSample(Head1)
<1>1. DoDetect \/ DoLoad \/ GetScanner \/ GetDriver \/ SampleAll \/ StartCapture => Other
  <2>1. DoDetect => Head1 = <<"detect">>
    BY Zenon DEF DoDetect
  <2>2. DoLoad => \E d : Head1 = <<"load", d>>
    BY Zenon DEF DoLoad
  <2>3. GetScanner => \E d : Head1 = <<"scanner", d>>
    BY Zenon DEF GetScanner
  <2>4. GetDriver => \E d : Head1 = <<"driver", d>>
    BY Zenon DEF GetDriver
  <2>5. SampleAll => \E d : Head1 = <<"sample_all", d>>
    BY Zenon DEF SampleAll
  <2>6. StartCapture => \E d, f : Head1 = <<"capture", d, f>>
    BY Zenon DEF StartCapture
  <2> QED BY <2>1, <2>2, <2>3, <2>4, <2>5, <2>6 DEF KeepSample
<1>2. IdCodeIr \/ IdCodeDr \/ Frames \/ AnswerSample => Other
  <2>1. IdCodeIr => \E d : Head1 = <<"idcode_ir", d>>
    BY Zenon DEF IdCodeIr
  <2>2. IdCodeDr => \E d : Head1 = <<"idcode_dr", d>>
    BY Zenon DEF IdCodeDr
  <2>3. Frames => \E d : Head1 = <<"frames", d>>
    BY Zenon DEF Frames
  <2>4. AnswerSample => Other
    BY DEF AnswerSample, KeepSample
  <2> QED BY <2>1, <2>2, <2>3, <2>4 DEF KeepSample
<1>3. CaptureIr \/ StagePin \/ Apply \/ ExtestIr \/ ExtestDr => Other
  <2>1. CaptureIr => \E d : Head1 = <<"capture_ir", d>>
    BY Zenon DEF CaptureIr
  <2>2. StagePin => \E d, p, v : Head1 = <<"stage", d, p, v>>
    BY Zenon DEF StagePin
  <2>3. Apply => \E d : Head1 = <<"apply", d>>
    BY Zenon DEF Apply
  <2>4. ExtestIr => \E d : Head1 = <<"extest_ir", d>>
    BY Zenon DEF ExtestIr
  <2>5. ExtestDr => \E d : Head1 = <<"extest_dr", d>>
    BY Zenon DEF ExtestDr
  <2> QED BY <2>1, <2>2, <2>3, <2>4, <2>5 DEF KeepSample
<1>4. CaptureDr => Other
  BY DEF CaptureDr, KeepSample
<1>5. Script \/ Wrong \/ Sampled \/ Expect \/ ResetToSafe => Other
  BY DEF Script, Wrong, Sampled, Expect, ResetToSafe, KeepSample
<1>6. Drive \/ TryStage => Other
  <2>1. Drive => \E net, v : Head1 = <<"drive", net, v>>
    BY Zenon DEF Drive
  <2>2. TryStage => \E d, p, v : Head1 = <<"try_stage", d, p, v>>
    BY Zenon DEF TryStage
  <2> QED BY <2>1, <2>2 DEF KeepSample
<1>7. SampleIr \/ SampleDr => Head1 # <<"none">> /\ Head1[1] \notin {"observe", "check"}
  <2>1. SampleIr => \E d, use : Head1 = <<"sample_ir", d, use>>
    BY Zenon DEF SampleIr
  <2>2. SampleDr => \E d, use : Head1 = <<"sample_dr", d, use>>
    BY Zenon DEF SampleDr
  <2> QED BY <2>1, <2>2
<1>8. Observe => Head1 # <<"none">> /\ Head1[1] = "observe" /\ ~KeepSample(Head1)
  BY DEF Observe, KeepSample
<1>9. Keep => Head1 # <<"none">> /\ Head1[1] \notin {"observe", "check"}
  BY DEF Keep
<1>10. Check => Head1 # <<"none">> /\ Head1[1] = "check" /\ ~KeepSample(Head1)
  BY DEF Check, KeepSample
<1> QED BY <1>1, <1>2, <1>3, <1>4, <1>5, <1>6, <1>7, <1>8, <1>9, <1>10 DEF Step

\* A step that takes no sample for a check leaves none behind itself.
LEMMA OtherNet ==
  ASSUME ToolsInv, NetInv, Step, Head1[1] # "observe", ~KeepSample(Head1)
  PROVE  NetInv'
<1>1. Head1 # <<"none">>
  BY StepHead
<1>2. ~Checks(Tail(job.todo))
  BY <1>1, NetHead
<1>3. \A s : Put(s) /\ IsCheck(s) => s = Head1 /\ Stays(Head1)
  BY DEF Put, Follows, IsCheck, Uses
<1>4. ~(Stays(Head1) /\ IsCheck(Head1))
  BY DEF Stays, IsCheck
<1>5. PICK t : t = job'.todo
  OBVIOUS
<1>6. ~Checks(t)
  BY <1>2, <1>3, <1>4, <1>5, StepTodo DEF Grown, Checks
<1>7. (job.steps \in Seq(BOOLEAN))'
  BY StepTool DEF SameCall, NetInv, ToolsInv
<1> QED BY <1>5, <1>6, <1>7, Unchecked

LEMMA CallNet == ASSUME ToolsInv, Call PROVE NetInv'
<1>1. PICK tool, d, p, v : \E todo \in Seq(FirstSteps) : BeginPin(tool, d, p, v, todo)
  BY CallList DEF Begun
<1>2. PICK todo \in Seq(FirstSteps) : BeginPin(tool, d, p, v, todo)
  BY <1>1
<1>3. job' = [Idle EXCEPT !.tool = tool, !.dev = d, !.pin = p, !.value = v, !.todo = todo]
  BY <1>2 DEF BeginPin
<1>4. job'.todo = todo /\ job'.steps = <<>>
  BY <1>3 DEF Idle
<1>5. ~Checks(todo)
  BY DEF Checks, Steps, FirstSteps, IsCheck
<1>6. <<>> \in Seq(BOOLEAN)
  OBVIOUS
<1> QED BY <1>4, <1>5, <1>6, Unchecked


\* Observe asks for the samples, and then for the check.
LEMMA ObserveNet == ASSUME ToolsInv, NetInv, Observe PROVE NetInv'
<1> DEFINE n(net) == Cardinality(ReceiverDevices(net))
           x(net) == [i \in 1 .. n(net) |->
                       LET d == InOrder(net)[i]
                       IN  IF scanners[d].made THEN Sampling(d, "keep") ELSE <<>>]
           S == {"sample_ir"} \X SampledDevices \X {"keep"}
<1>1. PICK net \in Nets, v \in 0 .. 1 :
        /\ Head1 = <<"observe", net, v>>
        /\ job' = [job EXCEPT !.samples = Idle.samples,
                              !.todo = Then(FlattenSeq(x(net)) \o << <<"check", net, v>> >>)]
        /\ UNCHANGED <<devices, chain_error, ir, latch, scanners, drivers, seen, used>>
  BY DEF Observe
<1>2. Head1 # <<"none">> /\ ~KeepSample(Head1)
  BY <1>1 DEF KeepSample
<1>3. JobOK /\ ~Checks(Tail(job.todo))
  BY <1>2, NetHead
<1>4. x(net) \in Seq(Seq(S))
  <2>1. \A i \in 1 .. n(net) : x(net)[i] \in Seq(S)
    <3> SUFFICES ASSUME NEW i \in 1 .. n(net) PROVE x(net)[i] \in Seq(S)
      OBVIOUS
    <3>1. PICK d : d = InOrder(net)[i]
      OBVIOUS
    <3>2. d \in SampledDevices
      BY <3>1 DEF SampledDevices
    <3>3. x(net)[i] = IF scanners[d].made THEN << <<"sample_ir", d, "keep">> >> ELSE <<>>
      BY <3>1 DEF Sampling
    <3>4. <<"sample_ir", d, "keep">> \in S
      BY <3>2
    <3>5. <<>> \in Seq(S) /\ \A a \in S : <<a>> \in Seq(S)
      OBVIOUS
    <3> HIDE DEF x, S
    <3> QED BY <3>3, <3>4, <3>5
  <2>2. n(net) \in Nat
    BY ReceiversFinite
  <2>3. x(net) = [i \in 1 .. n(net) |-> x(net)[i]]
    OBVIOUS
  <2> HIDE DEF n, x, S
  <2>4. x(net) \in [1 .. n(net) -> Seq(S)]
    BY <2>1, <2>3
  <2> QED BY <2>2, <2>4, IsSeq
<1>5. \A s \in S : KeepSample(s) /\ ~IsCheck(s) /\ \A d : s # <<"keep", d>>
  BY DEF KeepSample, IsCheck
<1> HIDE DEF n, x, S
<1>6. PICK f, k, c, t, u : /\ f = FlattenSeq(x(net)) /\ k = <<"check", net, v>> /\ c = <<k>>
                           /\ t = Tail(job.todo) /\ u = (f \o c) \o t
  OBVIOUS
<1>7. f \in Seq(S)
  BY <1>4, <1>6, FlattenFacts
<1>8. t \in Seq(PlainSteps)
  BY <1>2, <1>3, <1>6, HeadFacts
<1>9. PICK T, m, l : T = UNION {S, {k}, PlainSteps} /\ m = Len(f) /\ l = Len(t)
  OBVIOUS
<1>10. f \in Seq(T) /\ c \in Seq(T) /\ t \in Seq(T) /\ Len(c) = 1 /\ c[1] = k
  BY <1>6, <1>7, <1>8, <1>9
<1>11. PICK g : g = f \o c
  OBVIOUS
<1>12. /\ g \in Seq(T) /\ m \in Nat /\ Len(g) = m + 1 /\ g[m + 1] = k
       /\ \A i \in 1 .. m : g[i] = f[i]
  BY <1>9, <1>10, <1>11, ConcatFacts, SMTT(30)
<1>13. /\ u \in Seq(T) /\ l \in Nat /\ Len(u) = (m + 1) + l
       /\ \A i \in 1 .. m + 1 : u[i] = g[i]
       /\ \A i \in 1 .. l : u[(m + 1) + i] = t[i]
  BY <1>6, <1>9, <1>10, <1>11, <1>12, ConcatFacts
<1>14. \A i \in 1 .. m : KeepSample(u[i])
  <2>1. \A i \in 1 .. m : i \in 1 .. m + 1 /\ f[i] \in S
    BY <1>7, <1>9, <1>12
  <2> QED BY <2>1, <1>5, <1>12, <1>13
<1>15. \A j \in 1 .. Len(u) : IsCheck(u[j]) => j <= m + 1
  <2> SUFFICES ASSUME NEW j \in 1 .. Len(u), IsCheck(u[j]), ~(j <= m + 1) PROVE FALSE
    OBVIOUS
  <2>1. PICK i : i = j - (m + 1)
    OBVIOUS
  <2>2. i \in 1 .. l /\ j = (m + 1) + i
    BY <2>1, <1>12, <1>13
  <2> QED BY <2>2, <1>3, <1>6, <1>9, <1>13 DEF Checks, Steps
<1>16. KeepsFirst(u)
  <2> SUFFICES ASSUME NEW i \in 1 .. Len(u), NEW j \in 1 .. Len(u), i < j, IsCheck(u[j])
               PROVE KeepSample(u[i])
    BY DEF KeepsFirst
  <2>1. j <= m + 1
    BY <1>15
  <2>2. i \in 1 .. m
    BY <2>1, <1>12, <1>13
  <2> QED BY <2>2, <1>14
<1>17. job'.todo = u /\ job'.samples = Idle.samples
  <2>1. u = Then(FlattenSeq(x(net)) \o << <<"check", net, v>> >>)
    BY <1>6 DEF Then
  <2>2. job' = [job EXCEPT !.samples = Idle.samples, !.todo = u]
    BY <1>1, <2>1
  <2> QED BY <1>3, <2>2 DEF JobOK, JobShape, Idle
<1>18. \A d : Head1' # <<"keep", d>>
  <2>1. 1 \in 1 .. m + 1 /\ u # <<>> /\ Head(u) = u[1]
    BY <1>12, <1>13
  <2>2. Head1' = g[1]
    BY <2>1, <1>13, <1>17 DEF Head1, Ended
  <2>3. CASE m = 0
    <3>1. g[1] = k
      BY <2>3, <1>12
    <3> QED BY <3>1, <2>2, <1>6
  <2>4. CASE m # 0
    <3>1. 1 \in 1 .. m
      BY <2>4, <1>12
    <3>2. g[1] \in S
      BY <3>1, <1>7, <1>9, <1>12
    <3> QED BY <3>2, <2>2, <1>5
  <2> QED BY <2>3, <2>4
<1>19. \A d \in Dev : Told(Idle.samples[d], d)'
  <2>1. \A d \in Dev : \A p : GetPin(Idle.samples[d], p) \notin {"low", "high"}
    <3>1. \A d \in Dev : Idle.samples[d] = <<>>
      BY DEF Idle
    <3>2. DOMAIN <<>> = {}
      OBVIOUS
    <3> QED BY <3>1, <3>2 DEF GetPin
  <2> QED BY <2>1 DEF Told, Idle
<1>20. (job.steps \in Seq(BOOLEAN))'
  <2>1. Step
    BY DEF Step
  <2> QED BY <1>3, <2>1, StepTool DEF SameCall, NetInv
<1>21. KeepsFirst(job.todo)'
  BY <1>16, <1>17 DEF KeepsFirst
<1>22. \A d \in Dev : Told(IF Head1 = <<"keep", d>> THEN job.states ELSE job.samples[d], d)'
  BY <1>17, <1>18, <1>19 DEF Told
<1> QED BY <1>20, <1>21, <1>22 DEF NetInv


\* A step of the samples before a check
LEMMA KeepTodo ==
  ASSUME ToolsInv, NetInv, Step, Head1 # <<"none">>, NEW c, KeepSample(c), NEW t, t = job'.todo,
         t \in {Tail(job.todo), <<c>> \o Tail(job.todo)},
         Checks(job.todo) =>
           \A d \in Dev : Told(IF Head1 = <<"keep", d>> THEN job.states ELSE job.samples[d], d)'
  PROVE  NetInv'
<1>1. JobOK /\ KeepsFirst(t) /\ (Checks(Tail(job.todo)) => Checks(job.todo))
  BY NetHead
<1>2. Checks(t) => Checks(Tail(job.todo))
  <2>1. Left({c}) \/ t = Tail(job.todo)
    <3>1. PICK T, u, h : T = PlainSteps \cup {c} /\ u = Tail(job.todo) /\ h = <<c>>
      OBVIOUS
    <3>2. u \in Seq(T) /\ h \in Seq(T)
      BY <1>1, <3>1, HeadFacts
    <3>3. Steps(h \o u) = Steps(h) \cup Steps(u)
      BY <3>2, StepsConcat
    <3> QED BY <3>1, <3>3, StepsOne DEF Left
  <2>2. ~IsCheck(c)
    BY DEF KeepSample, IsCheck
  <2> QED BY <2>1, <2>2 DEF Left, Checks
<1>3. (job.steps \in Seq(BOOLEAN))'
  BY <1>1, StepTool DEF SameCall, NetInv
<1>4. KeepsFirst(job.todo)'
  BY <1>1 DEF KeepsFirst
<1>5. Checks(job.todo)' <=> Checks(t)
  BY DEF Checks, Steps
<1> QED BY <1>1, <1>2, <1>3, <1>4, <1>5 DEF NetInv

\* A sample of a receiver's device that ends early says nothing of it.
LEMMA NoSampleNet ==
  ASSUME ToolsInv, NetInv, Step, NEW d \in Dev, NEW err, NoSample(d, "keep", err),
         Head1 \in {<<"sample_ir", d, "keep">>, <<"sample_dr", d, "keep">>}, UNCHANGED seen
  PROVE  NetInv'
<1>1. JobOK /\ Head1 # <<"none">> /\ \A e : Head1 # <<"keep", e>>
  BY DEF ToolsInv
<1>2. PICK c, t : c = <<"keep", d>> /\ t = <<c>> \o Tail(job.todo)
  OBVIOUS
<1>3. job' = [job EXCEPT !.todo = t, !.states = <<>>, !.raw = <<>>]
  BY <1>2 DEF NoSample, Then
<1>4. job'.todo = t /\ job'.states = <<>> /\ job'.samples = job.samples
  BY <1>1, <1>3 DEF JobOK, JobShape, Idle
<1>5. KeepSample(c)
  BY <1>2 DEF KeepSample
<1>6. Head1' = c
  <2>1. Tail(job.todo) \in Seq(PlainSteps)
    BY <1>1, HeadFacts
  <2>2. t # <<>> /\ Head(t) = c
    BY <1>2, <2>1, TodoPush
  <2> QED BY <1>4, <2>2 DEF Head1, Ended
<1>7. ASSUME Checks(job.todo), NEW e \in Dev
      PROVE Told(IF Head1 = <<"keep", e>> THEN job.states ELSE job.samples[e], e)'
  <2>1. CASE e = d
    <3>1. \A p : GetPin(<<>>, p) \notin {"low", "high"}
      <4>1. DOMAIN <<>> = {}
        OBVIOUS
      <4> QED BY <4>1 DEF GetPin
    <3> QED BY <1>2, <1>4, <1>6, <2>1, <3>1 DEF Told
  <2>2. CASE e # d
    <3>1. Head1' # <<"keep", e>>
      BY <1>2, <1>6, <2>2
    <3>2. Told(job.samples[e], e)
      BY <1>1, <1>7 DEF NetInv
    <3> QED BY <1>4, <3>1, <3>2 DEF Told, Level
  <2> QED BY <2>1, <2>2
<1> QED BY <1>1, <1>2, <1>4, <1>5, <1>7, KeepTodo

LEMMA SampleIrNet == ASSUME ToolsInv, NetInv, SampleIr, KeepSample(Head1) PROVE NetInv'
<1>1. PICK d \in Dev, use \in Uses :
        /\ Head1 = <<"sample_ir", d, use>>
        /\ UNCHANGED seen
        /\ Go(<< <<"sample_dr", d, use>> >>) \/ \E err : NoSample(d, use, err)
  BY Zenon DEF SampleIr
<1>2. use = "keep" /\ Head1 # <<"none">> /\ \A e : Head1 # <<"keep", e>>
  BY <1>1 DEF KeepSample
<1>3. JobOK /\ Step
  BY DEF ToolsInv, Step
<1>4. CASE Go(<< <<"sample_dr", d, use>> >>)
  <2>1. PICK c, t : c = <<"sample_dr", d, "keep">> /\ t = <<c>> \o Tail(job.todo)
    OBVIOUS
  <2>2. job' = [job EXCEPT !.todo = t]
    BY <1>2, <1>4, <2>1 DEF Go, Then
  <2>3. job'.todo = t /\ job'.states = job.states /\ job'.samples = job.samples
    BY <1>3, <2>2 DEF JobOK, JobShape, Idle
  <2>4. KeepSample(c)
    BY <2>1 DEF KeepSample
  <2>5. Head1' = c
    <3>1. Tail(job.todo) \in Seq(PlainSteps)
      BY <1>2, <1>3, HeadFacts
    <3>2. t # <<>> /\ Head(t) = c
      BY <2>1, <3>1, TodoPush
    <3> QED BY <2>3, <3>2 DEF Head1, Ended
  <2>6. ASSUME Checks(job.todo), NEW e \in Dev
        PROVE Told(IF Head1 = <<"keep", e>> THEN job.states ELSE job.samples[e], e)'
    <3>1. Head1' # <<"keep", e>>
      BY <2>1, <2>5
    <3>2. Told(job.samples[e], e)
      BY <1>2, <2>6 DEF NetInv
    <3> QED BY <1>1, <2>3, <3>1, <3>2 DEF Told, Level
  <2> QED BY <1>2, <1>3, <2>1, <2>3, <2>4, <2>6, KeepTodo
<1>5. ASSUME NEW err, NoSample(d, use, err) PROVE NetInv'
  BY <1>1, <1>2, <1>3, <1>5, NoSampleNet
<1> QED BY <1>1, <1>4, <1>5

\* A sample that works is told by the cells it was taken from.
LEMMA SampleDrNet == ASSUME ToolsInv, NetInv, SampleDr, KeepSample(Head1) PROVE NetInv'
<1> DEFINE partial(d) == MaxNeededBsrBits(Cells(d), scanners[d].filter)
           raw(d, image) == ReadOut(d, partial(d), DrScan(image, ReadIn(d, partial(d))).out)
<1>1. PICK d \in Dev, use \in Uses, image \in Images :
        /\ Head1 = <<"sample_dr", d, use>>
        /\ \/ /\ job' = [job EXCEPT !.todo = Then(<< <<use, d>> >>), !.raw = raw(d, image),
                   !.states = DecodeBoundaryScan(Cells(d), scanners[d].filter, raw(d, image))]
              /\ seen' = [seen EXCEPT ![d] = image[d]]
           \/ NoSample(d, use, TRUE) /\ UNCHANGED seen
  BY Zenon DEF SampleDr
<1>2. use = "keep" /\ Head1 # <<"none">> /\ \A e : Head1 # <<"keep", e>>
  BY <1>1 DEF KeepSample
<1>3. /\ JobOK /\ Step /\ ChainOK /\ LatchesOK
      /\ Ready(d) /\ ir = Only(d, "SAMPLE")
  BY <1>1 DEF ToolsInv, BoardOK, HeadOK, Step
<1>4. CASE NoSample(d, use, TRUE) /\ UNCHANGED seen
  BY <1>1, <1>2, <1>3, <1>4, NoSampleNet
<1>5. CASE /\ job' = [job EXCEPT !.todo = Then(<< <<use, d>> >>), !.raw = raw(d, image),
                   !.states = DecodeBoundaryScan(Cells(d), scanners[d].filter, raw(d, image))]
           /\ seen' = [seen EXCEPT ![d] = image[d]]
  <2>1. PICK filter, r, states : /\ filter = scanners[d].filter /\ r = raw(d, image)
                                 /\ states = DecodeBoundaryScan(Cells(d), filter, r)
    OBVIOUS
  <2>2. \A p \in ObservablePins(Cells(d)) :
          GetPin(states, p) = IF filter = {} \/ p \in filter
                              THEN IF image[d][PinCell(d, p)] = 1 THEN "high" ELSE "low" ELSE "unknown"
    BY <1>3, <2>1, SampleDrIs
  <2>3. \A p : GetPin(states, p) \in {"low", "high"} => p \in ObservablePins(Cells(d))
    <3>1. DOMAIN states \subseteq ObservablePins(Cells(d))
      BY <2>1 DEF DecodeBoundaryScan
    <3> QED BY <3>1 DEF GetPin
  <2> HIDE DEF raw
  <2>4. PICK c, t : c = <<"keep", d>> /\ t = <<c>> \o Tail(job.todo)
    OBVIOUS
  <2>5. job' = [job EXCEPT !.todo = t, !.raw = r, !.states = states]
    BY <1>2, <1>5, <2>1, <2>4, Zenon DEF Then
  <2>6. job'.todo = t /\ job'.states = states /\ job'.samples = job.samples
    BY <1>3, <2>5 DEF JobOK, JobShape, Idle
  <2>7. KeepSample(c)
    BY <2>4 DEF KeepSample
  <2>8. Head1' = c
    <3>1. Tail(job.todo) \in Seq(PlainSteps)
      BY <1>2, <1>3, HeadFacts
    <3>2. t # <<>> /\ Head(t) = c
      BY <2>4, <3>1, TodoPush
    <3> QED BY <2>6, <3>2 DEF Head1, Ended
  <2>9. seen'[d] = image[d] /\ \A e \in Dev : e # d => seen'[e] = seen[e]
    BY <1>3, <1>5 DEF LatchesOK, LatchOK
  <2>10. ASSUME Checks(job.todo), NEW e \in Dev
         PROVE Told(IF Head1 = <<"keep", e>> THEN job.states ELSE job.samples[e], e)'
    <3>1. CASE e = d
      <4>1. \A p : GetPin(states, p) \in {"low", "high"} =>
                     /\ p \in ObservablePins(Cells(d))
                     /\ GetPin(states, p) = IF image[d][PinCell(d, p)] = 1 THEN "high" ELSE "low"
        BY <2>2, <2>3
      <4> QED BY <2>4, <2>6, <2>8, <2>9, <3>1, <4>1 DEF Told, Level, PinCell, Cells
    <3>2. CASE e # d
      <4>1. Head1' # <<"keep", e>>
        BY <2>4, <2>8, <3>2
      <4>2. Told(job.samples[e], e)
        BY <1>2, <2>10 DEF NetInv
      <4> QED BY <2>6, <2>9, <3>2, <4>1, <4>2 DEF Told, Level, PinCell, Cells
    <3> QED BY <3>1, <3>2
  <2> QED BY <1>2, <1>3, <2>4, <2>6, <2>7, <2>10, KeepTodo
<1> QED BY <1>1, <1>4, <1>5

LEMMA KeepNet == ASSUME ToolsInv, NetInv, Keep PROVE NetInv'
<1>1. PICK d \in Dev : /\ Head1 = <<"keep", d>>
                       /\ job' = [job EXCEPT !.todo = Tail(@), !.samples[d] = job.states]
                       /\ UNCHANGED seen
  BY DEF Keep
<1>2. JobOK /\ Head1 # <<"none">> /\ Step
  BY <1>1 DEF ToolsInv, Step
<1>3. PICK t, s, c : /\ t = Tail(job.todo) /\ s = [job.samples EXCEPT ![d] = job.states]
                     /\ c = <<"keep", d>>
  OBVIOUS
<1>4. job' = [job EXCEPT !.todo = t, !.samples = s]
  BY <1>1, <1>3
<1>5. job'.todo = t /\ job'.samples = s
  BY <1>2, <1>4 DEF JobOK, JobShape, Idle
<1>6. s[d] = job.states /\ \A e \in Dev : e # d => s[e] = job.samples[e]
  BY <1>2, <1>3 DEF JobOK, JobShape
<1>7. \A e \in Dev : Head1' # <<"keep", e>>
  <2>1. t \in Seq(PlainSteps)
    BY <1>2, <1>3, HeadFacts
  <2>2. t # <<>> => Head(t) \in PlainSteps
    BY <2>1, PlainTodo
  <2>3. Head1' \in PlainSteps \cup {<<"none">>}
    BY <1>5, <2>2 DEF Head1, Ended
  <2>4. "keep" \in Uses
    BY DEF Uses
  <2> QED BY <2>3, <2>4, PlainHead
<1>8. ASSUME Checks(job.todo), NEW e \in Dev
      PROVE Told(IF Head1 = <<"keep", e>> THEN job.states ELSE job.samples[e], e)'
  <2>1. Told(s[e], e)
    <3>1. Head1 = <<"keep", e>> <=> e = d
      BY <1>1
    <3> QED BY <1>6, <1>8, <3>1 DEF NetInv
  <2>2. Head1' # <<"keep", e>> /\ seen' = seen /\ job'.samples[e] = s[e]
    BY <1>1, <1>5, <1>7
  <2>3. PICK states : states = s[e]
    OBVIOUS
  <2>4. Told(states, e)'
    BY <2>1, <2>2, <2>3 DEF Told, Level
  <2> QED BY <2>2, <2>3, <2>4 DEF Told
<1>9. KeepSample(c)
  BY <1>3 DEF KeepSample
<1> QED BY <1>2, <1>3, <1>5, <1>8, <1>9, KeepTodo

LEMMA NetStep == ToolsInv /\ NetInv /\ [ToolsNext]_tool_vars => NetInv'
<1> SUFFICES ASSUME ToolsInv, NetInv, [ToolsNext]_tool_vars PROVE NetInv'
  OBVIOUS
<1>1. CASE Call
  BY <1>1, CallNet
<1>2. CASE Step
  <2>1. CASE KeepSample(Head1)
    BY <1>2, <2>1, StepHead, KeepNet, SampleIrNet, SampleDrNet
  <2>2. CASE Head1[1] = "observe"
    BY <1>2, <2>2, StepHead, ObserveNet
  <2>3. CASE ~KeepSample(Head1) /\ Head1[1] # "observe"
    BY <1>2, <2>3, OtherNet
  <2> QED BY <2>1, <2>2, <2>3
<1>3. CASE UNCHANGED tool_vars
  BY <1>3 DEF tool_vars, NetInv, KeepsFirst, Checks, Steps, Told, Level, Head1, Ended
<1> QED BY <1>1, <1>2, <1>3 DEF ToolsNext

LEMMA NetInit == ToolsInit => NetInv
<1> SUFFICES ASSUME ToolsInit PROVE NetInv
  OBVIOUS
<1>1. job.todo = <<>> /\ job.steps = <<>>
  BY DEF ToolsInit, Idle
<1>2. <<>> \in Seq(BOOLEAN) /\ Len(<<>>) = 0
  OBVIOUS
<1> QED BY <1>1, <1>2, StepsOne DEF NetInv, KeepsFirst, Checks

\* A value of a net passes on what the receivers' cells captured.
LEMMA CheckTrue ==
  ASSUME ToolsInv, NetInv, Step, NEW net \in Nets, NEW v \in 0 .. 1, Head1 = <<"check", net, v>>,
         job'.steps = Append(job.steps, TRUE),
         NEW i \in 1 .. Len(net.receivers)
  PROVE  seen[net.receivers[i][1]][PinCell(net.receivers[i][1], net.receivers[i][2])] = v
<1>1. JobOK /\ LatchesOK
  BY DEF ToolsInv, BoardOK
<1>2. PICK n \in Nets, w \in 0 .. 1 :
        /\ Head1 = <<"check", n, w>>
        /\ job' = [job EXCEPT !.todo = Tail(@),
             !.steps = Append(@, \A k \in 1 .. Len(n.receivers) :
                                   AsExpected(GetPin(job.samples[n.receivers[k][1]], n.receivers[k][2]), w)),
             !.ok = @ /\ \A k \in 1 .. Len(n.receivers) :
                           AsExpected(GetPin(job.samples[n.receivers[k][1]], n.receivers[k][2]), w)]
  BY StepHead DEF Check
<1>3. n = net /\ w = v
  BY <1>2
<1> DEFINE Pass == \A k \in 1 .. Len(net.receivers) :
                     AsExpected(GetPin(job.samples[net.receivers[k][1]], net.receivers[k][2]), v)
<1>4. PICK pass \in BOOLEAN : pass = Pass
  OBVIOUS
<1>5. job' = [job EXCEPT !.todo = Tail(job.todo), !.steps = Append(job.steps, pass), !.ok = job.ok /\ pass]
  BY <1>2, <1>3, <1>4
<1>6. job'.steps = Append(job.steps, pass)
  <2>1. PICK t, s, ok : s = Append(job.steps, pass) /\ job' = [job EXCEPT !.todo = t, !.steps = s, !.ok = ok]
    BY <1>5, Zenon
  <2> QED BY <1>1, <2>1 DEF JobOK, JobShape, Idle
<1>7. pass = TRUE
  <2>1. \A s \in Seq(BOOLEAN), a, b \in BOOLEAN : Append(s, a) = Append(s, b) => a = b
    <3> SUFFICES ASSUME NEW s \in Seq(BOOLEAN), NEW a \in BOOLEAN, NEW b \in BOOLEAN,
                        Append(s, a) = Append(s, b)
                 PROVE a = b
      OBVIOUS
    <3>1. Append(s, a)[Len(s) + 1] = a /\ Append(s, b)[Len(s) + 1] = b
      OBVIOUS
    <3> QED BY <3>1
  <2> QED BY <1>6, <2>1 DEF NetInv
<1>8. PICK d, p : d = net.receivers[i][1] /\ p = net.receivers[i][2]
  OBVIOUS
<1>9. d \in Dev
  BY <1>8, NetsAssumption
<1>10. GetPin(job.samples[d], p) = IF v = 0 THEN "low" ELSE "high"
  BY <1>4, <1>7, <1>8 DEF AsExpected
<1>11. Told(job.samples[d], d)
  <2>1. job.todo # <<>> /\ Head(job.todo) = Head1 /\ job.todo \in Seq(PlainSteps \cup BoundSteps)
    BY <1>1, HeadFacts DEF JobOK, TodoOK
  <2>2. Head1 \in Steps(job.todo)
    BY <2>1, StepsTail
  <2>3. Checks(job.todo)
    BY <2>2 DEF Checks, IsCheck
  <2>4. Head1 # <<"keep", d>>
    OBVIOUS
  <2> QED BY <1>9, <2>3, <2>4 DEF NetInv
<1>12. p \in ObservablePins(Cells(d)) /\ Level(d, p) = IF v = 0 THEN "low" ELSE "high"
  BY <1>10, <1>11 DEF Told
<1>13. seen[d][PinCell(d, p)] \in {0, 1}
  <2>1. InputCells(Cells(d), p) # {} \/ OutputCells(Cells(d), p) # {}
    BY <1>12 DEF ObservablePins, InputCells, OutputCells
  <2>2. PinCell(d, p) \in 1 .. Len(Cells(d))
    BY <1>9, <2>1, CellFacts DEF PinCell
  <2> QED BY <1>1, <1>9, <2>2 DEF LatchesOK, LatchOK, Bits, Cells
<1>14. v \in {0, 1}
  OBVIOUS
<1> QED BY <1>8, <1>12, <1>13, <1>14 DEF Level

\* On every board a value of a net passes only when the cells of all its
\* receivers captured it last, in samples taken after the value was applied.
THEOREM NetPasses == ToolsSpec => NetPassesTrue
<1> DEFINE True == \A net \in Nets, v \in 0 .. 1 :
        (Head1 = <<"check", net, v>> /\ ChainKnown /\ job'.steps = Append(job.steps, TRUE))
          => \A i \in 1 .. Len(net.receivers) :
               seen[net.receivers[i][1]][PinCell(net.receivers[i][1], net.receivers[i][2])] = v
<1>1. ToolsInit => ToolsInv /\ NetInv
  BY ToolsInitInv, NetInit
<1>2. ToolsInv /\ NetInv /\ [ToolsNext]_tool_vars => ToolsInv' /\ NetInv'
  BY ToolsStepInv, NetStep
<1>3. ToolsInv /\ NetInv /\ [ToolsNext]_tool_vars => [True]_tool_vars
  <2> SUFFICES ASSUME ToolsInv, NetInv, ToolsNext PROVE True
    OBVIOUS
  <2>1. CASE Call
    <3>1. Head1 = <<"none">>
      <4>1. PICK tool, d, p, v : \E todo \in Seq(FirstSteps) : BeginPin(tool, d, p, v, todo)
        BY <2>1, CallList DEF Begun
      <4> QED BY <4>1 DEF BeginPin, Head1
    <3> QED BY <3>1
  <2>2. CASE Step
    BY <2>2, CheckTrue
  <2> QED BY <2>1, <2>2 DEF ToolsNext
<1> HIDE DEF True
<1>4. ToolsSpec => [][True]_tool_vars
  BY <1>1, <1>2, <1>3, PTL DEF ToolsSpec
<1> QED BY <1>4 DEF True, NetPassesTrue

-----------------------------------------------------------------------------
(* owltap_mcp, the program that runs the tools on an executor of its own   *)
(* and shuts that executor down under a server that keeps submitting jobs: *)
(* it is still a use of the executor that the executor's theorems cover.   *)

\* The program implements the executor's specification.
THEOREM McpUsesExecutor == McpSpec => Spec
<1>1. McpInit => Init
  BY DEF McpInit
<1>2. McpNext => [Next]_vars
  <2>1. McpHost => [Next]_vars
    BY DEF McpHost, McpBoot, McpBootFails, McpShutdown, McpShutdownRest, Next, Owner
  <2>2. McpWorker => [Next]_vars
    BY DEF McpWorker, Next
  <2>3. McpCall => [Next]_vars
    BY OwltapMcpAssumption DEF McpCall, Next, Client
  <2>4. McpHandle => [Next]_vars
    BY OwltapMcpAssumption DEF McpHandle, Next, Client
  <2>5. McpRecv \/ McpEof \/ McpSend \/ McpClose => UNCHANGED vars
    BY DEF McpRecv, McpEof, McpSend, McpClose
  <2> QED BY <2>1, <2>2, <2>3, <2>4, <2>5 DEF McpNext, McpReader
<1>3. [McpNext]_ovars => [Next]_vars
  BY <1>2 DEF ovars
<1> QED BY <1>1, <1>3, PTL DEF McpSpec, Spec

\* Although jobs arrive while the executor is being shut down, none of them
\* is executed on a closed device.
THEOREM McpHardwareSafety == McpSpec => []TaskHasHardware
  BY McpUsesExecutor, HardwareSafety, PTL

=============================================================================
