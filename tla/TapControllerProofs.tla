------------------------ MODULE TapControllerProofs ------------------------
(***************************************************************************)
(* TapController: state_ is the state of the device's TAP as long as no    *)
(* transfer fails (TapInSync), a scan returns its own bits (TdoIsOwn), and *)
(* scans and idle times take neither more nor fewer clocks than asked for  *)
(* (ScansAreExact): for every length of a scan, count and chunk size.      *)
(*                                                                         *)
(* What a word of TMS bits does is defined by recursive functions over     *)
(* sequences, so all three rest on inductions: over the bits of a word     *)
(* (CourseFacts, CourseIs, CourseConcat), over the transfers of an         *)
(* operation (ClockedFacts, ListWords, ListStays, ListClocks) and over the *)
(* scans of a chunk (TimesEnds, TimesClocks). The library's induction      *)
(* theorem takes an operator, which the provers cannot instantiate;        *)
(* NatSetInduction says the same of a set.                                 *)
(***************************************************************************)
EXTENDS TapController, FiniteSetTheorems, FunctionTheorems, WellFoundedInduction, TLAPS

\* Induction over the natural numbers, for a set of them.
LEMMA NatSetInduction ==
  ASSUME NEW S, 0 \in S, \A n \in Nat : n \in S => n + 1 \in S
  PROVE  Nat \subseteq S
<1> DEFINE T == Nat \ S
           C == {0 .. n : n \in T}
           R == StrictSubsetOrdering(Nat)
<1>1. SUFFICES ASSUME T # {} PROVE FALSE
  OBVIOUS
<1>2. C \subseteq FiniteSubsetsOf(Nat)
  <2>1. \A n \in Nat : IsFiniteSet(0 .. n) /\ 0 .. n \in SUBSET Nat
    BY FS_Interval
  <2> QED BY <2>1 DEF FiniteSubsetsOf
<1>3. C # {}
  BY <1>1
<1>4. PICK c \in C : \A d \in C : ~ (<<d, c>> \in R)
  <2> HIDE DEF C, R
  <2>1. IsWellFoundedOn(R, FiniteSubsetsOf(Nat))
    BY FS_StrictSubsetOrderingWellFounded DEF R
  <2> QED BY <2>1, <1>3, <1>2, WFMin
<1>5. PICK x \in T : c = 0 .. x
  OBVIOUS
<1>6. x \in Nat /\ x # 0 /\ x - 1 \in Nat /\ (x - 1) + 1 = x
  OBVIOUS
<1>7. x - 1 \in T
  BY <1>6
<1>8. <<0 .. (x - 1), 0 .. x>> \in R
  <2>1. 0 .. (x - 1) \subseteq 0 .. x /\ x \in 0 .. x /\ x \notin 0 .. (x - 1)
    BY <1>6
  <2>2. 0 .. (x - 1) \in SUBSET Nat /\ 0 .. x \in SUBSET Nat
    BY <1>6
  <2> QED BY <2>1, <2>2 DEF StrictSubsetOrdering
<1> QED BY <1>4, <1>5, <1>7, <1>8

\* The table leads from every state to a state.
LEMMA TapNextType == \A s \in TapStates, b \in {0, 1} : TapNext(s, b) \in TapStates
  BY DEF TapNext, TapStates, kTapTransitions

\* Words of TMS bits.
Words == Seq({0, 1})

\* The states a word leads through, one after the other.
LEMMA CourseFacts ==
  ASSUME NEW s \in TapStates, NEW word \in Words
  PROVE  /\ Course(s, word) \in Seq(TapStates)
         /\ Len(Course(s, word)) = Len(word) + 1
         /\ Course(s, word)[1] = s
         /\ \A i \in 1 .. Len(word) : Course(s, word)[i + 1] = TapNext(Course(s, word)[i], word[i])
<1> DEFINE Rec(c, n) == c = [i \in 0 .. n |-> IF i = 0 THEN <<s>> ELSE Append(c[i - 1], TapNext(c[i - 1][i], word[i]))]
           S == {n \in Nat : \E c : Rec(c, n)}
<1>0. Len(word) \in Nat /\ \A i \in 1 .. Len(word) : word[i] \in {0, 1}
  BY DEF Words
<1>1. Nat \subseteq S
  <2>1. 0 \in S
    <3>1. Rec([i \in 0 .. 0 |-> <<s>>], 0)
      OBVIOUS
    <3> QED BY <3>1
  <2>2. ASSUME NEW n \in Nat, n \in S PROVE n + 1 \in S
    <3>1. PICK c : Rec(c, n)
      BY <2>2
    <3> DEFINE d == [i \in 0 .. n + 1 |-> IF i <= n THEN c[i] ELSE Append(c[n], TapNext(c[n][n + 1], word[n + 1]))]
    <3>2. Rec(d, n + 1)
      <4>1. \A i \in 0 .. n + 1 : d[i] = IF i = 0 THEN <<s>> ELSE Append(d[i - 1], TapNext(d[i - 1][i], word[i]))
        <5>1. ASSUME NEW i \in 0 .. n + 1, i <= n
              PROVE d[i] = IF i = 0 THEN <<s>> ELSE Append(d[i - 1], TapNext(d[i - 1][i], word[i]))
          <6>1. d[i] = c[i] /\ (i # 0 => d[i - 1] = c[i - 1])
            BY <5>1
          <6>2. c[i] = IF i = 0 THEN <<s>> ELSE Append(c[i - 1], TapNext(c[i - 1][i], word[i]))
            <7>1. i \in 0 .. n
              BY <5>1
            <7> QED BY <3>1, <7>1, Zenon
          <6> HIDE DEF d
          <6> QED BY <6>1, <6>2
        <5>2. d[n + 1] = Append(d[n], TapNext(d[n][n + 1], word[n + 1]))
          OBVIOUS
        <5> HIDE DEF d
        <5>3. \A i \in 0 .. n + 1 : i <= n \/ (i = n + 1 /\ i # 0 /\ i - 1 = n)
          OBVIOUS
        <5> QED BY <5>1, <5>2, <5>3
      <4> QED BY <4>1
    <3> HIDE DEF Rec, d
    <3>3. n + 1 \in Nat
      OBVIOUS
    <3> QED BY <3>2, <3>3
  <2> HIDE DEF S
  <2> QED BY <2>1, <2>2, NatSetInduction
<1> DEFINE at == CHOOSE c : Rec(c, Len(word))
<1>2. Rec(at, Len(word))
  BY <1>1, <1>0
<1>3. Course(s, word) = at[Len(word)]
  BY DEF Course
<1> HIDE DEF at
<1>4. at[0] = <<s>> /\ \A i \in 1 .. Len(word) : at[i] = Append(at[i - 1], TapNext(at[i - 1][i], word[i]))
  <2>1. \A i \in 0 .. Len(word) : at[i] = IF i = 0 THEN <<s>> ELSE Append(at[i - 1], TapNext(at[i - 1][i], word[i]))
    BY <1>2, Zenon
  <2>2. 0 \in 0 .. Len(word)
    BY <1>0
  <2>3. \A i \in 1 .. Len(word) : i \in 0 .. Len(word) /\ i # 0
    BY <1>0
  <2>4. at[0] = <<s>>
    BY <2>1, <2>2, Zenon
  <2>5. \A i \in 1 .. Len(word) : at[i] = Append(at[i - 1], TapNext(at[i - 1][i], word[i]))
    BY <2>1, <2>3, Zenon
  <2> QED BY <2>4, <2>5
<1> DEFINE P(n) == /\ at[n] \in Seq(TapStates) /\ Len(at[n]) = n + 1 /\ at[n][1] = s
                   /\ \A i \in 1 .. n : at[n][i + 1] = TapNext(at[n][i], word[i])
           U == {n \in Nat : n <= Len(word) => P(n)}
<1>5. Nat \subseteq U
  <2>1. 0 \in U
    <3>1. P(0)
      <4>1. <<s>> \in Seq(TapStates) /\ Len(<<s>>) = 1 /\ <<s>>[1] = s
        OBVIOUS
      <4> QED BY <4>1, <1>4
    <3> QED BY <3>1
  <2>2. ASSUME NEW n \in Nat, n \in U PROVE n + 1 \in U
    <3>1. SUFFICES ASSUME n + 1 <= Len(word) PROVE P(n + 1)
      OBVIOUS
    <3> DEFINE a == at[n] b == at[n + 1] t == TapNext(a[n + 1], word[n + 1])
    <3>2. P(n)
      BY <2>2, <3>1, <1>0
    <3>3. b = Append(a, t)
      <4>1. n + 1 \in 1 .. Len(word) /\ (n + 1) - 1 = n
        BY <3>1, <1>0
      <4> QED BY <1>4, <4>1
    <3>4. t \in TapStates
      <4>1. a[n + 1] \in TapStates /\ word[n + 1] \in {0, 1}
        BY <3>2, <3>1, <1>0
      <4> QED BY <4>1, TapNextType
    <3> HIDE DEF t, a, b
    <3>5. /\ b \in Seq(TapStates) /\ Len(b) = n + 2 /\ b[n + 2] = t
          /\ \A i \in 1 .. n + 1 : b[i] = a[i]
      BY <3>2, <3>3, <3>4 DEF a
    <3>6. \A i \in 1 .. n + 1 : b[i + 1] = TapNext(b[i], word[i])
      <4>1. ASSUME NEW i \in 1 .. n PROVE b[i + 1] = TapNext(b[i], word[i])
        <5>1. i \in 1 .. n + 1 /\ i + 1 \in 1 .. n + 1
          OBVIOUS
        <5>2. b[i] = a[i] /\ b[i + 1] = a[i + 1]
          BY <3>5, <5>1
        <5>3. a[i + 1] = TapNext(a[i], word[i])
          BY <3>2 DEF a
        <5> QED BY <5>2, <5>3
      <4>2. b[n + 2] = TapNext(b[n + 1], word[n + 1])
        BY <3>5 DEF t
      <4> QED BY <4>1, <4>2
    <3> QED BY <3>2, <3>5, <3>6 DEF a, b
  <2> HIDE DEF U
  <2> QED BY <2>1, <2>2, NatSetInduction
<1>6. P(Len(word))
  BY <1>5, <1>0
<1> QED BY <1>3, <1>6

\* A list of states that follows the table is the course.
LEMMA CourseIs ==
  ASSUME NEW s \in TapStates, NEW word \in Words, NEW c, NEW n \in 0 .. Len(word), c[1] = s,
         \A i \in 1 .. n : c[i + 1] = TapNext(c[i], word[i])
  PROVE  \A i \in 1 .. n + 1 : Course(s, word)[i] = c[i]
<1> DEFINE k == Course(s, word)
           U == {m \in Nat : m <= n => k[m + 1] = c[m + 1]}
<1>1. k[1] = s /\ Len(word) \in Nat /\ \A i \in 1 .. Len(word) : k[i + 1] = TapNext(k[i], word[i])
  BY CourseFacts DEF Words
<1> HIDE DEF k
<1>2. 0 \in U
  BY <1>1
<1>3. ASSUME NEW m \in Nat, m \in U PROVE m + 1 \in U
  <2>1. SUFFICES ASSUME m + 1 <= n PROVE k[(m + 1) + 1] = c[(m + 1) + 1]
    OBVIOUS
  <2>2. m + 1 \in 1 .. n /\ m + 1 \in 1 .. Len(word) /\ k[m + 1] = c[m + 1]
    BY <1>1, <1>3, <2>1
  <2> QED BY <2>2, <1>1
<1>4. Nat \subseteq U
  <2> HIDE DEF U
  <2> QED BY <1>2, <1>3, NatSetInduction
<1>5. ASSUME NEW i \in 1 .. n + 1 PROVE k[i] = c[i]
  <2>1. i - 1 \in Nat /\ i - 1 <= n /\ (i - 1) + 1 = i
    OBVIOUS
  <2>2. i - 1 \in U
    BY <2>1, <1>4
  <2> QED BY <2>1, <2>2
<1> QED BY <1>5 DEF k

\* Where a word leads is a state, and an empty word leads nowhere.
LEMMA AfterFacts ==
  ASSUME NEW s \in TapStates
  PROVE  /\ \A word \in Words : After(s, word) \in TapStates
         /\ After(s, <<>>) = s
<1>1. ASSUME NEW word \in Words PROVE After(s, word) \in TapStates
  <2>1. Len(word) \in Nat
    BY DEF Words
  <2> QED BY <2>1, CourseFacts DEF After
<1>2. <<>> \in Words /\ Len(<<>>) = 0
  BY DEF Words
<1> QED BY <1>1, <1>2, CourseFacts DEF After

\* One word after the other: the second goes on where the first has led.
LEMMA CourseConcat ==
  ASSUME NEW s \in TapStates, NEW u \in Words, NEW v \in Words
  PROVE  /\ u \o v \in Words /\ Len(u \o v) = Len(u) + Len(v)
         /\ \A i \in 1 .. Len(u) + 1 : Course(s, u \o v)[i] = Course(s, u)[i]
         /\ \A i \in 1 .. Len(v) + 1 : Course(s, u \o v)[Len(u) + i] = Course(After(s, u), v)[i]
         /\ After(s, u \o v) = After(After(s, u), v)
<1> DEFINE t == After(s, u)
           cu == Course(s, u)
           cv == Course(t, v)
           c == [i \in 1 .. Len(u) + Len(v) + 1 |-> IF i <= Len(u) THEN cu[i] ELSE cv[i - Len(u)]]
           w == u \o v
<1>1. /\ w \in Words /\ Len(w) = Len(u) + Len(v) /\ Len(u) \in Nat /\ Len(v) \in Nat
      /\ \A i \in 1 .. Len(u) : w[i] = u[i]
      /\ \A i \in 1 .. Len(v) : w[Len(u) + i] = v[i]
  BY DEF Words
<1>2. t \in TapStates /\ t = cu[Len(u) + 1]
  BY AfterFacts DEF After
<1> HIDE DEF t, w
<1>3. cu[1] = s /\ \A i \in 1 .. Len(u) : cu[i + 1] = TapNext(cu[i], u[i])
  BY CourseFacts
<1>4. cv[1] = t /\ \A i \in 1 .. Len(v) : cv[i + 1] = TapNext(cv[i], v[i])
  BY CourseFacts, <1>2
<1> HIDE DEF cu, cv
<1>5. \A i \in 1 .. Len(u) + 1 : c[i] = cu[i]
  BY <1>1, <1>2, <1>4
<1>6. \A i \in 1 .. Len(v) + 1 : c[Len(u) + i] = cv[i]
  BY <1>1
<1> HIDE DEF c
<1>7. c[1] = s
  BY <1>1, <1>3, <1>5
<1>8. ASSUME NEW i \in 1 .. Len(w) PROVE c[i + 1] = TapNext(c[i], w[i])
  <2>1. CASE i <= Len(u)
    <3>1. i \in 1 .. Len(u) /\ i \in 1 .. Len(u) + 1 /\ i + 1 \in 1 .. Len(u) + 1
      BY <1>1, <2>1
    <3> QED BY <3>1, <1>1, <1>3, <1>5
  <2>2. CASE i > Len(u)
    <3> DEFINE j == i - Len(u)
    <3>1. j \in 1 .. Len(v) /\ j \in 1 .. Len(v) + 1 /\ j + 1 \in 1 .. Len(v) + 1
          /\ i = Len(u) + j /\ i + 1 = Len(u) + (j + 1)
      BY <1>1, <2>2
    <3> HIDE DEF j
    <3>2. c[i] = cv[j] /\ c[i + 1] = cv[j + 1] /\ w[i] = v[j]
      BY <3>1, <1>1, <1>6
    <3> QED BY <3>1, <3>2, <1>4
  <2> QED BY <2>1, <2>2, <1>1
<1>9. Len(w) \in 0 .. Len(w)
  BY <1>1
<1>10. \A i \in 1 .. Len(w) + 1 : Course(s, w)[i] = c[i]
  BY ZenonT(60), <1>1, <1>7, <1>8, <1>9, CourseIs
<1>11. \A i \in 1 .. Len(u) + 1 : Course(s, w)[i] = cu[i]
  BY <1>1, <1>5, <1>10
<1>12. \A i \in 1 .. Len(v) + 1 : Course(s, w)[Len(u) + i] = cv[i]
  <2>1. ASSUME NEW i \in 1 .. Len(v) + 1 PROVE Course(s, w)[Len(u) + i] = cv[i]
    <3>1. Len(u) + i \in 1 .. Len(w) + 1
      BY <1>1
    <3> QED BY <3>1, <1>6, <1>10
  <2> QED BY <2>1
<1>13. After(s, w) = After(t, v)
  <2>1. Len(v) + 1 \in 1 .. Len(v) + 1 /\ Len(w) + 1 = Len(u) + (Len(v) + 1)
    BY <1>1
  <2> QED BY <2>1, <1>12 DEF After, cv
<1> QED BY <1>1, <1>11, <1>12, <1>13 DEF w, t, cu, cv

\* A word of one bit.
LEMMA AfterBit ==
  ASSUME NEW s \in TapStates, NEW b \in {0, 1}
  PROVE  <<b>> \in Words /\ After(s, <<b>>) = TapNext(s, b)
<1>1. <<b>> \in Words /\ Len(<<b>>) = 1 /\ <<b>>[1] = b
  BY DEF Words
<1> QED BY <1>1, CourseFacts DEF After

\* Staying: a state that TMS=0 does not leave.
LEMMA AfterZeros ==
  ASSUME NEW s \in TapStates, TapNext(s, 0) = s, NEW n \in Nat
  PROVE  /\ Repeat(n, 0) \in Words /\ Len(Repeat(n, 0)) = n
         /\ \A i \in 1 .. n + 1 : Course(s, Repeat(n, 0))[i] = s
         /\ After(s, Repeat(n, 0)) = s
<1> DEFINE w == Repeat(n, 0)
           c == [i \in 1 .. n + 1 |-> s]
<1>1. w \in Words /\ Len(w) = n /\ \A i \in 1 .. n : w[i] = 0
  BY DEF Words, Repeat
<1>2. c[1] = s /\ \A i \in 1 .. n : c[i + 1] = TapNext(c[i], w[i])
  BY <1>1
<1>3. \A i \in 1 .. n + 1 : Course(s, w)[i] = c[i]
  <2> HIDE DEF c, w
  <2>1. n \in 0 .. Len(w)
    BY <1>1
  <2> QED BY SMTT(60), <1>1, <1>2, <2>1, CourseIs
<1> QED BY <1>1, <1>3 DEF After

\* One transfer, and lists of them.
Transfers == [word : Words, bytes : Int, to : TapStates]
Lists == Seq(Transfers)

\* What the first transfers of a list clock.
LEMMA ClockedFacts ==
  ASSUME NEW t \in Lists
  PROVE  /\ Clocked(t)[0] = <<>>
         /\ \A n \in 1 .. Len(t) : Clocked(t)[n] = Clocked(t)[n - 1] \o t[n].word
         /\ \A n \in 0 .. Len(t) : Clocked(t)[n] \in Words
<1> DEFINE Rec(c, n) == c = [i \in 0 .. n |-> IF i = 0 THEN <<>> ELSE c[i - 1] \o t[i].word]
           S == {n \in Nat : \E c : Rec(c, n)}
<1>0. Len(t) \in Nat /\ \A i \in 1 .. Len(t) : t[i].word \in Words
  <2>1. Len(t) \in Nat /\ \A i \in 1 .. Len(t) : t[i] \in Transfers
    BY DEF Lists
  <2> QED BY <2>1 DEF Transfers
<1>1. Nat \subseteq S
  <2>1. 0 \in S
    <3>1. Rec([i \in 0 .. 0 |-> <<>>], 0)
      OBVIOUS
    <3> QED BY <3>1
  <2>2. ASSUME NEW n \in Nat, n \in S PROVE n + 1 \in S
    <3>1. PICK c : Rec(c, n)
      BY <2>2
    <3> DEFINE d == [i \in 0 .. n + 1 |-> IF i <= n THEN c[i] ELSE c[n] \o t[n + 1].word]
    <3>2. Rec(d, n + 1)
      <4>1. ASSUME NEW i \in 0 .. n + 1, i <= n
            PROVE d[i] = IF i = 0 THEN <<>> ELSE d[i - 1] \o t[i].word
        <5>1. d[i] = c[i] /\ (i # 0 => d[i - 1] = c[i - 1])
          BY <4>1
        <5>2. c[i] = IF i = 0 THEN <<>> ELSE c[i - 1] \o t[i].word
          <6>1. i \in 0 .. n
            BY <4>1
          <6> QED BY <3>1, <6>1, Zenon
        <5> HIDE DEF d
        <5> QED BY <5>1, <5>2
      <4>2. d[n + 1] = d[n] \o t[n + 1].word
        <5>1. d[n] = c[n] /\ d[n + 1] = c[n] \o t[n + 1].word
          <6> n \in 0 .. n + 1 /\ n + 1 \in 0 .. n + 1 /\ n <= n /\ ~(n + 1 <= n)
            OBVIOUS
          <6> QED OBVIOUS
        <5> QED BY <5>1
      <4>3. \A i \in 0 .. n + 1 : d[i] = IF i = 0 THEN <<>> ELSE d[i - 1] \o t[i].word
        <5> HIDE DEF d
        <5>1. \A i \in 0 .. n + 1 : i <= n \/ (i = n + 1 /\ i # 0 /\ i - 1 = n)
          OBVIOUS
        <5> QED BY <4>1, <4>2, <5>1
      <4> QED BY <4>3
    <3> HIDE DEF Rec, d
    <3>3. n + 1 \in Nat
      OBVIOUS
    <3> QED BY <3>2, <3>3
  <2> HIDE DEF S
  <2> QED BY <2>1, <2>2, NatSetInduction
<1> DEFINE at == CHOOSE c : Rec(c, Len(t))
<1>2. Rec(at, Len(t))
  BY <1>1, <1>0
<1>3. Clocked(t) = at
  BY DEF Clocked
<1> HIDE DEF at
<1>4. at[0] = <<>> /\ \A i \in 1 .. Len(t) : at[i] = at[i - 1] \o t[i].word
  <2>1. \A i \in 0 .. Len(t) : at[i] = IF i = 0 THEN <<>> ELSE at[i - 1] \o t[i].word
    BY <1>2, Zenon
  <2>2. 0 \in 0 .. Len(t)
    BY <1>0
  <2>3. \A i \in 1 .. Len(t) : i \in 0 .. Len(t) /\ i # 0
    BY <1>0
  <2>4. at[0] = <<>>
    BY <2>1, <2>2, Zenon
  <2>5. \A i \in 1 .. Len(t) : at[i] = at[i - 1] \o t[i].word
    BY <2>1, <2>3, Zenon
  <2> QED BY <2>4, <2>5
<1> DEFINE U == {n \in Nat : n <= Len(t) => at[n] \in Words}
<1>5. Nat \subseteq U
  <2>1. 0 \in U
    <3>1. <<>> \in Words
      BY DEF Words
    <3> QED BY <1>4, <3>1
  <2>2. ASSUME NEW n \in Nat, n \in U PROVE n + 1 \in U
    <3>1. SUFFICES ASSUME n + 1 <= Len(t) PROVE at[n + 1] \in Words
      OBVIOUS
    <3>2. n + 1 \in 1 .. Len(t) /\ (n + 1) - 1 = n /\ at[n] \in Words
      BY <2>2, <3>1, <1>0
    <3>3. at[n + 1] = at[n] \o t[n + 1].word /\ t[n + 1].word \in Words
      BY <3>2, <1>4, <1>0
    <3> QED BY <3>2, <3>3 DEF Words
  <2> HIDE DEF U
  <2> QED BY <2>1, <2>2, NatSetInduction
<1>6. \A n \in 0 .. Len(t) : at[n] \in Words
  <2>1. \A n \in 0 .. Len(t) : n \in Nat /\ n <= Len(t)
    BY <1>0
  <2> QED BY <1>5, <2>1
<1> QED BY <1>3, <1>4, <1>6

\* Concatenation is associative.
LEMMA ConcatAssoc ==
  ASSUME NEW R, NEW u \in Seq(R), NEW v \in Seq(R), NEW w \in Seq(R)
  PROVE  (u \o v) \o w = u \o (v \o w)
  OBVIOUS

\* Where a list of transfers leads the TAP from s, and where it leads state_.
End(s, t) == After(s, Clocked(t)[Len(t)])
Final(s, t) == IF t = <<>> THEN s ELSE t[Len(t)].to

\* What a list of transfers clocks.
Whole(t) == Clocked(t)[Len(t)]

\* What two lists in a row clock.
LEMMA ListWords ==
  ASSUME NEW a \in Lists, NEW b \in Lists
  PROVE  /\ a \o b \in Lists
         /\ Whole(a) \in Words /\ Whole(b) \in Words
         /\ Whole(a \o b) = Whole(a) \o Whole(b)
<1> DEFINE t == a \o b
           ca == Clocked(a)
           cb == Clocked(b)
           ct == Clocked(t)
<1>1. /\ t \in Lists /\ Len(t) = Len(a) + Len(b) /\ Len(a) \in Nat /\ Len(b) \in Nat
      /\ \A i \in 1 .. Len(a) : t[i] = a[i]
      /\ \A i \in 1 .. Len(b) : t[Len(a) + i] = b[i]
      /\ a = <<>> <=> Len(a) = 0 
      /\ b = <<>> <=> Len(b) = 0 
      /\ t = <<>> <=> Len(t) = 0
  BY DEF Lists
<1> HIDE DEF t
<1>2. /\ ca[0] = <<>> /\ \A n \in 1 .. Len(a) : ca[n] = ca[n - 1] \o a[n].word
      /\ \A n \in 0 .. Len(a) : ca[n] \in Words
  BY ClockedFacts
<1>3. /\ cb[0] = <<>> /\ \A n \in 1 .. Len(b) : cb[n] = cb[n - 1] \o b[n].word
      /\ \A n \in 0 .. Len(b) : cb[n] \in Words
  BY ClockedFacts
<1>4. /\ ct[0] = <<>> /\ \A n \in 1 .. Len(t) : ct[n] = ct[n - 1] \o t[n].word
  BY <1>1, ClockedFacts
<1> HIDE DEF ca, cb, ct
<1> DEFINE U == {n \in Nat : n <= Len(a) => ct[n] = ca[n]}
           G == [n \in Nat |-> ca[Len(a)] \o cb[n]]
           V == {n \in Nat : n <= Len(b) => ct[Len(a) + n] = G[n]}
<1>5. Nat \subseteq U
  <2>1. 0 \in U
    BY <1>2, <1>4
  <2>2. ASSUME NEW n \in Nat, n \in U PROVE n + 1 \in U
    <3>1. SUFFICES ASSUME n + 1 <= Len(a) PROVE ct[n + 1] = ca[n + 1]
      OBVIOUS
    <3>2. n + 1 \in 1 .. Len(a) /\ n + 1 \in 1 .. Len(t) /\ (n + 1) - 1 = n /\ ct[n] = ca[n]
      BY <2>2, <3>1, <1>1
    <3> QED BY ZenonT(60), <3>2, <1>1, <1>2, <1>4
  <2> HIDE DEF U
  <2> QED BY <2>1, <2>2, NatSetInduction
<1>6. ct[Len(a)] = ca[Len(a)]
  BY <1>5, <1>1
<1>14. \A n \in Nat : G[n] = ca[Len(a)] \o cb[n]
  OBVIOUS
<1>7. Nat \subseteq V
  <2> HIDE DEF G
  <2>1. 0 \in V
    <3>1. ca[Len(a)] \in Words /\ Len(a) + 0 = Len(a)
      BY <1>1, <1>2
    <3>2. ca[Len(a)] \o <<>> = ca[Len(a)]
      BY <3>1 DEF Words
    <3> QED BY <3>1, <3>2, <1>3, <1>6, <1>14
  <2>2. ASSUME NEW n \in Nat, n \in V PROVE n + 1 \in V
    <3>1. SUFFICES ASSUME n + 1 <= Len(b) PROVE ct[Len(a) + (n + 1)] = G[n + 1]
      OBVIOUS
    <3>2. /\ n + 1 \in 1 .. Len(b) /\ (n + 1) - 1 = n /\ n \in 0 .. Len(b)
          /\ Len(a) + (n + 1) \in 1 .. Len(t) /\ (Len(a) + (n + 1)) - 1 = Len(a) + n
      BY <3>1, <1>1
    <3>6. ct[Len(a) + n] = ca[Len(a)] \o cb[n]
      <4>1. n <= Len(b)
        BY <3>2
      <4>2. ct[Len(a) + n] = G[n]
        BY <2>2, <4>1
      <4> QED BY <4>2, <1>14
    <3>7. t[Len(a) + (n + 1)] = b[n + 1]
      BY <3>2, <1>1
    <3>3. ct[Len(a) + (n + 1)] = (ca[Len(a)] \o cb[n]) \o b[n + 1].word
      BY <3>2, <3>6, <3>7, <1>4
    <3>4. ca[Len(a)] \in Words /\ cb[n] \in Words /\ b[n + 1].word \in Words
      <4>1. b[n + 1] \in Transfers
        BY <3>2 DEF Lists
      <4> QED BY <4>1, <3>2, <1>1, <1>2, <1>3 DEF Transfers
    <3>5. (ca[Len(a)] \o cb[n]) \o b[n + 1].word = ca[Len(a)] \o (cb[n] \o b[n + 1].word)
      <4> DEFINE x == ca[Len(a)] y == cb[n] z == b[n + 1].word
      <4>1. x \in Seq({0, 1}) /\ y \in Seq({0, 1}) /\ z \in Seq({0, 1})
        BY <3>4 DEF Words
      <4> HIDE DEF x, y, z
      <4>2. (x \o y) \o z = x \o (y \o z)
        BY <4>1, ConcatAssoc
      <4> QED BY <4>2 DEF x, y, z
    <3>8. cb[n + 1] = cb[n] \o b[n + 1].word
      BY <3>2, <1>3
    <3>9. G[n + 1] = ca[Len(a)] \o cb[n + 1]
      <4>1. n + 1 \in Nat
        OBVIOUS
      <4> QED BY <4>1, <1>14, Zenon
    <3> QED
      <4> DEFINE x == ca[Len(a)] y == cb[n] z == b[n + 1].word
      <4>1. ct[Len(a) + (n + 1)] = (x \o y) \o z /\ (x \o y) \o z = x \o (y \o z)
            /\ cb[n + 1] = y \o z /\ G[n + 1] = x \o cb[n + 1]
        BY <3>3, <3>5, <3>8, <3>9
      <4> HIDE DEF x, y, z
      <4> QED BY <4>1
  <2> HIDE DEF V
  <2> QED BY <2>1, <2>2, NatSetInduction
<1>8. ct[Len(t)] = ca[Len(a)] \o cb[Len(b)] /\ ca[Len(a)] \in Words /\ cb[Len(b)] \in Words
  <2>1. Len(b) \in V
    BY <1>1, <1>7
  <2>2. ct[Len(a) + Len(b)] = ca[Len(a)] \o cb[Len(b)]
    <3>1. Len(b) <= Len(b) /\ Len(b) \in Nat
      BY <1>1
    <3>2. ct[Len(a) + Len(b)] = G[Len(b)]
      <4> HIDE DEF G
      <4> QED BY <2>1, <3>1
    <3> QED BY <3>1, <3>2, <1>14
  <2>3. Len(a) \in 0 .. Len(a) /\ Len(b) \in 0 .. Len(b)
    BY <1>1
  <2>4. ca[Len(a)] \in Words /\ cb[Len(b)] \in Words
    BY <2>3, <1>2, <1>3
  <2>5. ct[Len(t)] = ct[Len(a) + Len(b)]
    BY <1>1
  <2> QED BY <2>2, <2>4, <2>5, Zenon
<1> QED BY <1>1, <1>8 DEF Whole, t, ca, cb, ct

\* Where two lists in a row lead.
LEMMA ListConcat ==
  ASSUME NEW s \in TapStates, NEW a \in Lists, NEW b \in Lists
  PROVE  /\ a \o b \in Lists
         /\ End(s, a) \in TapStates
         /\ End(s, a \o b) = End(End(s, a), b)
         /\ Final(s, a \o b) = Final(Final(s, a), b)
<1> DEFINE t == a \o b
<1>1. /\ t \in Lists /\ Len(t) = Len(a) + Len(b) /\ Len(a) \in Nat /\ Len(b) \in Nat
      /\ \A i \in 1 .. Len(a) : t[i] = a[i]
      /\ \A i \in 1 .. Len(b) : t[Len(a) + i] = b[i]
      /\ a = <<>> <=> Len(a) = 0 
      /\ b = <<>> <=> Len(b) = 0 
      /\ t = <<>> <=> Len(t) = 0
  BY DEF Lists
<1>2. Whole(a) \in Words /\ Whole(b) \in Words /\ Whole(t) = Whole(a) \o Whole(b)
  BY ListWords
<1> HIDE DEF t
<1>9. After(s, Whole(a)) \in TapStates /\ After(s, Whole(t)) = After(After(s, Whole(a)), Whole(b))
  BY SMTT(60), <1>2, AfterFacts, CourseConcat
<1>10. Final(s, t) = Final(Final(s, a), b)
  <2>1. CASE b = <<>>
    <3>1. Len(t) = Len(a) /\ (Len(a) # 0 => t[Len(t)] = a[Len(a)])
      BY <1>1, <2>1
    <3> QED BY <3>1, <2>1, <1>1 DEF Final
  <2>2. CASE b # <<>>
    <3>1. t[Len(t)] = b[Len(b)] /\ t # <<>>
      BY <1>1, <2>2
    <3> QED BY <3>1, <2>2 DEF Final
  <2> QED BY <2>1, <2>2
<1> QED BY <1>1, <1>9, <1>10 DEF End, Whole, t

\* No transfer, and one transfer.
LEMMA ListShort ==
  ASSUME NEW s \in TapStates
  PROVE  /\ <<>> \in Lists /\ End(s, <<>>) = s /\ Final(s, <<>>) = s
         /\ \A r \in Transfers : /\ <<r>> \in Lists /\ Clocked(<<r>>)[1] = r.word
                                 /\ End(s, <<r>>) = After(s, r.word) /\ Final(s, <<r>>) = r.to
<1>1. <<>> \in Lists /\ Len(<<>>) = 0
  BY DEF Lists
<1>2. Clocked(<<>>)[0] = <<>>
  BY <1>1, ClockedFacts
<1>3. ASSUME NEW r \in Transfers
      PROVE  /\ <<r>> \in Lists /\ Clocked(<<r>>)[1] = r.word
             /\ End(s, <<r>>) = After(s, r.word) /\ Final(s, <<r>>) = r.to
  <2>1. <<r>> \in Lists /\ Len(<<r>>) = 1 /\ <<r>>[1] = r /\ r.word \in Words /\ <<r>> # <<>>
    BY DEF Lists, Transfers
  <2> DEFINE t == <<r>>
  <2> HIDE DEF t
  <2>2. t \in Lists /\ Len(t) = 1 /\ t[1] = r /\ t # <<>>
    BY <2>1 DEF t
  <2>3. Clocked(t)[1] = <<>> \o r.word
    <3>1. 1 \in 1 .. Len(t) /\ 1 - 1 = 0
      BY <2>2
    <3> QED BY <2>2, <3>1, ClockedFacts
  <2>4. <<>> \o r.word = r.word
    BY <2>1 DEF Words
  <2> QED BY <2>2, <2>3, <2>4 DEF End, Final, t
<1> QED BY <1>1, <1>2, <1>3, AfterFacts DEF End, Final

\* Transfers that all lead from s back to s.
LEMMA ListStays ==
  ASSUME NEW s \in TapStates, NEW t \in Lists,
         \A i \in 1 .. Len(t) : After(s, t[i].word) = s
  PROVE  \A n \in 0 .. Len(t) : After(s, Clocked(t)[n]) = s
<1> DEFINE c == Clocked(t)
           U == {n \in Nat : n <= Len(t) => After(s, c[n]) = s}
<1>1. Len(t) \in Nat /\ \A i \in 1 .. Len(t) : t[i].word \in Words
  <2>1. Len(t) \in Nat /\ \A i \in 1 .. Len(t) : t[i] \in Transfers
    BY DEF Lists
  <2> QED BY <2>1 DEF Transfers
<1>2. /\ c[0] = <<>> /\ \A n \in 1 .. Len(t) : c[n] = c[n - 1] \o t[n].word
      /\ \A n \in 0 .. Len(t) : c[n] \in Words
  BY ClockedFacts
<1> HIDE DEF c
<1>3. 0 \in U
  BY <1>2, AfterFacts
<1>4. ASSUME NEW n \in Nat, n \in U PROVE n + 1 \in U
  <2>1. SUFFICES ASSUME n + 1 <= Len(t) PROVE After(s, c[n + 1]) = s
    OBVIOUS
  <2>2. n + 1 \in 1 .. Len(t) /\ (n + 1) - 1 = n /\ n \in 0 .. Len(t) /\ After(s, c[n]) = s
    BY <1>1, <1>4, <2>1
  <2>3. c[n + 1] = c[n] \o t[n + 1].word /\ c[n] \in Words /\ t[n + 1].word \in Words
    BY <2>2, <1>1, <1>2
  <2>4. After(s, c[n + 1]) = After(After(s, c[n]), t[n + 1].word)
    BY <2>3, CourseConcat
  <2>5. After(s, t[n + 1].word) = s
    BY <2>2
  <2> QED BY <2>2, <2>4, <2>5
<1>5. Nat \subseteq U
  <2> HIDE DEF U
  <2> QED BY <1>3, <1>4, NatSetInduction
<1>6. \A n \in 0 .. Len(t) : n \in Nat /\ n <= Len(t)
  BY <1>1
<1> QED BY <1>5, <1>6 DEF c

---------------------------------------------------------------------------
(* The operations                                                          *)

\* Transfers that lead state_ and a TAP in the same state to the same state.
Agrees(s, t) == t \in Lists /\ Final(s, t) \in TapStates /\ End(s, t) = Final(s, t)

\* Two such lists in a row.
LEMMA AgreesConcat ==
  ASSUME NEW s \in TapStates, NEW a, NEW b, Agrees(s, a), Agrees(Final(s, a), b)
  PROVE  Agrees(s, a \o b) /\ Final(s, a \o b) = Final(Final(s, a), b)
  BY ListConcat DEF Agrees

\* Three states: where five TMS=1 lead, and where a zero stays.
LEMMA Table ==
  /\ {"TEST_LOGIC_RESET", "RUN_TEST_IDLE", "SHIFT_DR", "SHIFT_IR", "EXIT1_DR", "EXIT1_IR"} \subseteq TapStates
  /\ TapNext("RUN_TEST_IDLE", 0) = "RUN_TEST_IDLE" /\ TapNext("TEST_LOGIC_RESET", 0) = "RUN_TEST_IDLE"
  /\ TapNext("SHIFT_DR", 0) = "SHIFT_DR" /\ TapNext("SHIFT_DR", 1) = "EXIT1_DR"
  /\ TapNext("SHIFT_IR", 0) = "SHIFT_IR" /\ TapNext("SHIFT_IR", 1) = "EXIT1_IR"
  /\ \A s \in TapStates :
       TapNext(TapNext(TapNext(TapNext(TapNext(s, 1), 1), 1), 1), 1) = "TEST_LOGIC_RESET"
<1> DEFINE A == {"EXIT2_IR", "PAUSE_IR", "EXIT2_DR", "PAUSE_DR"}
           B == {"SHIFT_DR", "CAPTURE_DR", "SHIFT_IR", "CAPTURE_IR"}
           C == {"EXIT1_DR", "EXIT1_IR", "EXIT2_DR", "EXIT2_IR"}
           D == {"UPDATE_DR", "UPDATE_IR", "RUN_TEST_IDLE"}
           E == {"SELECT_DR_SCAN"}
           F == {"SELECT_IR_SCAN"}
           G == {"TEST_LOGIC_RESET"}
<1>1. TapStates = A \cup B \cup C \cup D \cup E \cup F \cup G
  BY DEF TapStates, kTapTransitions
<1>2. \A s \in A : TapNext(s, 1) \in C \cup D
  BY DEF TapNext, kTapTransitions
<1>3. \A s \in B : TapNext(s, 1) \in C
  BY DEF TapNext, kTapTransitions
<1>4. \A s \in C : TapNext(s, 1) \in D
  BY DEF TapNext, kTapTransitions
<1>5. \A s \in D : TapNext(s, 1) \in E
  BY DEF TapNext, kTapTransitions
<1>6. \A s \in E : TapNext(s, 1) \in F
  BY DEF TapNext, kTapTransitions
<1>7. \A s \in F \cup G : TapNext(s, 1) \in G
  BY DEF TapNext, kTapTransitions
<1>8. /\ TapNext("RUN_TEST_IDLE", 0) = "RUN_TEST_IDLE" /\ TapNext("TEST_LOGIC_RESET", 0) = "RUN_TEST_IDLE"
      /\ TapNext("SHIFT_DR", 0) = "SHIFT_DR" /\ TapNext("SHIFT_DR", 1) = "EXIT1_DR"
      /\ TapNext("SHIFT_IR", 0) = "SHIFT_IR" /\ TapNext("SHIFT_IR", 1) = "EXIT1_IR"
  BY DEF TapNext, kTapTransitions
<1>9. \A s \in A : TapNext(TapNext(s, 1), 1) \in D \cup E
  BY <1>2, <1>4, <1>5
<1>10. \A s \in TapStates :
       TapNext(TapNext(TapNext(TapNext(TapNext(s, 1), 1), 1), 1), 1) \in G
  <2> HIDE DEF A, B, C, D, E, F, G
  <2>1. \A s \in TapStates : TapNext(s, 1) \in C \cup D \cup E \cup F \cup G
    BY <1>1, <1>2, <1>3, <1>4, <1>5, <1>6, <1>7
  <2>2. \A s \in C \cup D \cup E \cup F \cup G : TapNext(s, 1) \in D \cup E \cup F \cup G
    BY <1>4, <1>5, <1>6, <1>7
  <2>3. \A s \in D \cup E \cup F \cup G : TapNext(s, 1) \in E \cup F \cup G
    BY <1>5, <1>6, <1>7
  <2>4. \A s \in E \cup F \cup G : TapNext(s, 1) \in F \cup G
    BY <1>6, <1>7
  <2> QED BY <2>1, <2>2, <2>3, <2>4, <1>7
<1>11. {"TEST_LOGIC_RESET", "RUN_TEST_IDLE", "SHIFT_DR", "SHIFT_IR", "EXIT1_DR", "EXIT1_IR"} \subseteq TapStates
  BY <1>1
<1> QED BY <1>8, <1>10, <1>11

\* A word with one more bit.
LEMMA AfterAppend ==
  ASSUME NEW s \in TapStates, NEW w \in Words, NEW b \in {0, 1}
  PROVE  w \o <<b>> \in Words /\ After(s, w \o <<b>>) = TapNext(After(s, w), b)
<1>1. <<b>> \in Words /\ After(s, w) \in TapStates
  BY AfterBit, AfterFacts
<1> DEFINE v == <<b>>
<1>2. After(After(s, w), v) = TapNext(After(s, w), b)
  BY <1>1, AfterBit
<1>3. v \in Words
  BY <1>1
<1> HIDE DEF v
<1>4. w \o v \in Words /\ After(s, w \o v) = After(After(s, w), v)
  BY <1>3, CourseConcat
<1> QED BY <1>2, <1>4 DEF v

\* reset() leads to RUN_TEST_IDLE from every state.
LEMMA ResetEnds ==
  /\ ResetTransfers \in Lists
  /\ \A s \in TapStates : End(s, ResetTransfers) = "RUN_TEST_IDLE" /\ Final(s, ResetTransfers) = "RUN_TEST_IDLE"
<1> DEFINE w == <<1, 1, 1, 1, 1>> \o <<0>>
           r == [word |-> w, bytes |-> 0, to |-> "RUN_TEST_IDLE"]
<1>1. ResetTransfers = <<r>>
  BY DEF ResetTransfers, Transfer, clockTms
<1>2. ASSUME NEW s \in TapStates PROVE After(s, w) = "RUN_TEST_IDLE" /\ w \in Words
  <2> DEFINE w1 == <<1>> w2 == w1 \o <<1>> w3 == w2 \o <<1>> w4 == w3 \o <<1>> w5 == w4 \o <<1>>
             w6 == w5 \o <<0>>
  <2>1. w6 = w
    OBVIOUS
  <2>2. w1 \in Words /\ After(s, w1) = TapNext(s, 1)
    BY AfterBit
  <2> HIDE DEF w1
  <2>3. w2 \in Words /\ After(s, w2) = TapNext(After(s, w1), 1)
    BY <2>2, AfterAppend
  <2> HIDE DEF w2
  <2>4. w3 \in Words /\ After(s, w3) = TapNext(After(s, w2), 1)
    BY <2>3, AfterAppend
  <2> HIDE DEF w3
  <2>5. w4 \in Words /\ After(s, w4) = TapNext(After(s, w3), 1)
    BY <2>4, AfterAppend
  <2> HIDE DEF w4
  <2>6. w5 \in Words /\ After(s, w5) = TapNext(After(s, w4), 1)
    BY <2>5, AfterAppend
  <2> HIDE DEF w5
  <2>7. w6 \in Words /\ After(s, w6) = TapNext(After(s, w5), 0)
    BY <2>6, AfterAppend
  <2> HIDE DEF w6
  <2>8. After(s, w5) = "TEST_LOGIC_RESET"
    BY <2>2, <2>3, <2>4, <2>5, <2>6, Table
  <2> HIDE DEF w
  <2> QED BY <2>1, <2>7, <2>8, Table
<1>3. w \in Words
  BY <1>2, Table
<1>4. r \in Transfers
  <2> HIDE DEF w
  <2> QED BY <1>3, Table DEF Transfers
<1> HIDE DEF w
<1>5. r.word = w /\ r.to = "RUN_TEST_IDLE"
  OBVIOUS
<1> HIDE DEF r
<1>6. ASSUME NEW s \in TapStates
      PROVE <<r>> \in Lists /\ End(s, <<r>>) = "RUN_TEST_IDLE" /\ Final(s, <<r>>) = "RUN_TEST_IDLE"
  BY <1>2, <1>4, <1>5, ListShort
<1> QED BY <1>1, <1>6, Table

\* The word found for a target, as clockTms() takes it.
LEMMA FoundWord ==
  ASSUME NEW s \in TapStates, NEW to \in Found, s # to
  PROVE  /\ clockTms(TmsPaths[s, to]) \in Words
         /\ After(s, clockTms(TmsPaths[s, to])) = to
<1> DEFINE path == TmsPaths[s, to]
<1>1. path \in Words /\ Len(path) <= 7 /\ After(s, path) = to
  BY DEF Found, Words, MaxTms
<1> HIDE DEF path
<1>2. path # <<>>
  BY <1>1, AfterFacts
<1>3. clockTms(path) = path
  <2>1. Len(path) \in Nat /\ Len(path) # 0
    BY <1>1, <1>2 DEF Words
  <2>2. Len(path) \in 1 .. 7
    <3> DEFINE m == Len(path)
    <3>1. m \in Nat /\ m # 0 /\ m <= 7
      BY <1>1, <2>1
    <3> HIDE DEF m
    <3>2. m \in 1 .. 7
      BY <3>1
    <3> QED BY <3>2 DEF m
  <2> QED BY <2>2 DEF clockTms
<1> QED BY <1>1, <1>3 DEF path

\* gotoState() leads to its target, when the search finds one.
LEMMA GotoEnds ==
  ASSUME NEW s \in TapStates, NEW to \in Found
  PROVE  /\ Agrees(s, GotoTransfers(s, to)) /\ Final(s, GotoTransfers(s, to)) = to
         /\ GotoTransfers(s, to) = <<>> <=> s = to
<1>0. to \in TapStates
  BY DEF Found
<1>1. CASE s = to
  BY <1>1, <1>0, ListShort DEF GotoTransfers, Agrees
<1>2. CASE s # to
  <2> DEFINE r == [word |-> clockTms(TmsPaths[s, to]), bytes |-> 0, to |-> to]
  <2>1. GotoTransfers(s, to) = <<r>>
    BY <1>2 DEF GotoTransfers, Transfer
  <2>2. r \in Transfers /\ After(s, r.word) = to /\ r.to = to
    <3> DEFINE w == clockTms(TmsPaths[s, to])
    <3>1. w \in Words /\ After(s, w) = to
      BY <1>2, FoundWord
    <3> HIDE DEF w
    <3>2. r = [word |-> w, bytes |-> 0, to |-> to]
      BY DEF w
    <3> HIDE DEF r
    <3> QED BY <3>1, <3>2, <1>0 DEF Transfers
  <2> HIDE DEF r
  <2>3. <<r>> \in Lists /\ End(s, <<r>>) = to /\ Final(s, <<r>>) = to
    BY <2>2, ListShort
  <2> QED BY <2>1, <2>3, <1>0, <1>2 DEF Agrees
<1> QED BY <1>1, <1>2

\* Division with remainder, as the provers need it.
LEMMA DivMod ==
  ASSUME NEW a \in Nat, NEW n \in Nat \ {0}
  PROVE  a = n * (a \div n) + (a % n) /\ a \div n \in Nat /\ a % n \in 0 .. n - 1
  BY SMT

\* Quotient and remainder are determined.
LEMMA ModUnique ==
  ASSUME NEW n \in Nat \ {0}, NEW q \in Nat, NEW r \in 0 .. n - 1
  PROVE  (n * q + r) % n = r
  BY SMT

\* The next remainder.
LEMMA ModStep ==
  ASSUME NEW a \in Nat, NEW n \in Nat \ {0}
  PROVE  (a + 1) % n = IF (a % n) + 1 < n THEN (a % n) + 1 ELSE 0
<1> DEFINE q == a \div n
           r == a % n
<1>1. a = n * q + r /\ q \in Nat /\ r \in 0 .. n - 1
  BY DivMod
<1>2. CASE r + 1 < n
  <2>1. a + 1 = n * q + (r + 1) /\ r + 1 \in 0 .. n - 1
    BY <1>1, <1>2, SMT
  <2> QED BY <1>1, <1>2, <2>1, ModUnique
<1>3. CASE ~(r + 1 < n)
  <2>1. q + 1 \in Nat /\ n * (q + 1) = n * q + n
    BY <1>1, SMT
  <2>2. a + 1 = n * (q + 1) + 0
    <3> HIDE DEF q, r
    <3> QED BY <1>1, <1>3, <2>1, SMT
  <2>3. (n * (q + 1) + 0) % n = 0
    BY <2>1, ModUnique
  <2> QED BY <2>2, <2>3, <1>3
<1> QED BY <1>2, <1>3

\* clkIdle() stays in RUN_TEST_IDLE.
LEMMA IdleEnds ==
  ASSUME NEW cycles \in Int
  PROVE  /\ Agrees("RUN_TEST_IDLE", IdleTransfers(cycles))
         /\ Final("RUN_TEST_IDLE", IdleTransfers(cycles)) = "RUN_TEST_IDLE"
<1> DEFINE t == IdleTransfers(cycles)
           n == IF cycles <= 0 THEN 0 ELSE (cycles + 6) \div 7
           part(i) == IF cycles - 7 * (i - 1) > 7 THEN 7 ELSE cycles - 7 * (i - 1)
           r(i) == [word |-> Repeat(part(i), 0), bytes |-> 0, to |-> "RUN_TEST_IDLE"]
<1>1. n \in Nat /\ \A i \in 1 .. n : part(i) \in 1 .. 7
  OBVIOUS
<1>2. ASSUME NEW i \in 1 .. n
      PROVE  r(i) \in Transfers /\ After("RUN_TEST_IDLE", r(i).word) = "RUN_TEST_IDLE"
             /\ clockTms(Repeat(part(i), 0)) = Repeat(part(i), 0)
  <2> DEFINE p == part(i)
  <2>1. p \in 1 .. 7 /\ p \in Nat
    BY <1>1
  <2> HIDE DEF p
  <2>2. Repeat(p, 0) \in Words /\ Len(Repeat(p, 0)) = p
        /\ After("RUN_TEST_IDLE", Repeat(p, 0)) = "RUN_TEST_IDLE"
    BY <2>1, Table, AfterZeros
  <2>3. clockTms(Repeat(p, 0)) = Repeat(p, 0)
    BY <2>1, <2>2 DEF clockTms
  <2>4. [word |-> Repeat(p, 0), bytes |-> 0, to |-> "RUN_TEST_IDLE"] \in Transfers
    BY <2>2, Table DEF Transfers
  <2> QED BY <2>2, <2>3, <2>4 DEF p
<1>3. t = [i \in 1 .. n |-> r(i)]
  <2>1. \A i \in 1 .. n : clockTms(Repeat(part(i), 0)) = Repeat(part(i), 0)
    BY <1>2
  <2> HIDE DEF n
  <2>2. t = [i \in 1 .. n |-> Transfer(clockTms(Repeat(part(i), 0)), 0, "RUN_TEST_IDLE")]
    BY DEF IdleTransfers, n
  <2>3. \A i \in 1 .. n : Transfer(clockTms(Repeat(part(i), 0)), 0, "RUN_TEST_IDLE") = r(i)
    BY <2>1 DEF Transfer
  <2> HIDE DEF t, r, part
  <2> QED BY <2>2, <2>3
<1> HIDE DEF n, part, r, t
<1>4. t \in Lists /\ Len(t) = n /\ \A i \in 1 .. n : t[i] = r(i)
  BY <1>1, <1>2, <1>3 DEF Lists
<1>5. End("RUN_TEST_IDLE", t) = "RUN_TEST_IDLE"
  <2>1. \A i \in 1 .. Len(t) : After("RUN_TEST_IDLE", t[i].word) = "RUN_TEST_IDLE"
    BY <1>2, <1>4
  <2>2. Len(t) \in 0 .. Len(t)
    BY <1>1, <1>4
  <2> QED BY <1>4, <2>1, <2>2, Table, ListStays DEF End
<1>6. Final("RUN_TEST_IDLE", t) = "RUN_TEST_IDLE"
  <2>1. t # <<>> => Len(t) \in 1 .. n
    BY <1>1, <1>4 DEF Lists
  <2> QED BY <2>1, <1>4 DEF Final, r
<1> QED BY <1>4, <1>5, <1>6, Table DEF Agrees, t

\* The shift of a scan clocks as many times as it has bits, the last time
\* into the exit state.
LEMMA ShiftWordEnds ==
  ASSUME NEW bits \in Nat \ {0}, NEW s \in TapStates, TapNext(s, 0) = s
  PROVE  /\ ShiftWord(bits) \in Words /\ Len(ShiftWord(bits)) = bits
         /\ \A i \in 1 .. bits : Course(s, ShiftWord(bits))[i] = s
         /\ After(s, ShiftWord(bits)) = TapNext(s, 1)
<1> DEFINE u == Repeat(8 * Bulk(bits), 0)
           v == Repeat(Remaining(bits), 0)
           w == u \o v
<1>1. Bulk(bits) \in Nat /\ Remaining(bits) \in Nat /\ 8 * Bulk(bits) + Remaining(bits) = bits - 1
      /\ 8 * Bulk(bits) \in Nat
  BY DEF Bulk, Remaining
<1>2. ShiftWord(bits) = w \o <<1>>
  BY DEF ShiftWord, shiftInOut, clockTms
<1>3. /\ u \in Words /\ Len(u) = 8 * Bulk(bits) /\ After(s, u) = s
      /\ \A i \in 1 .. Len(u) + 1 : Course(s, u)[i] = s
  BY <1>1, AfterZeros
<1>4. /\ v \in Words /\ Len(v) = Remaining(bits) /\ After(s, v) = s
      /\ \A i \in 1 .. Len(v) + 1 : Course(s, v)[i] = s
  BY <1>1, AfterZeros
<1> HIDE DEF u, v
<1>5. /\ w \in Words /\ Len(w) = bits - 1 /\ After(s, w) = s
      /\ \A i \in 1 .. Len(u) + 1 : Course(s, w)[i] = s
      /\ \A i \in 1 .. Len(v) + 1 : Course(s, w)[Len(u) + i] = s
  <2>1. /\ w \in Words /\ Len(w) = Len(u) + Len(v) /\ After(s, w) = After(After(s, u), v)
        /\ \A i \in 1 .. Len(u) + 1 : Course(s, w)[i] = Course(s, u)[i]
        /\ \A i \in 1 .. Len(v) + 1 : Course(s, w)[Len(u) + i] = Course(After(s, u), v)[i]
    BY ZenonT(60), <1>3, <1>4, CourseConcat
  <2> HIDE DEF w
  <2>2. Len(w) = bits - 1
    BY <1>1, <1>3, <1>4, <2>1
  <2> QED BY <1>3, <1>4, <2>1, <2>2
<1>10. Len(u) \in Nat /\ Len(v) \in Nat /\ Len(u) + Len(v) = bits - 1
  BY <1>1, <1>3, <1>4
<1>6. \A i \in 1 .. bits : Course(s, w)[i] = s
  <2>1. ASSUME NEW i \in 1 .. bits, i > Len(u) PROVE Course(s, w)[i] = s
    <3>1. i - Len(u) \in 1 .. Len(v) + 1 /\ Len(u) + (i - Len(u)) = i
      <4> DEFINE a == Len(u) b == Len(v)
      <4>1. a \in Nat /\ b \in Nat /\ a + b = bits - 1 /\ i > a
        BY <1>10, <2>1
      <4> HIDE DEF a, b
      <4>2. i - a \in 1 .. b + 1 /\ a + (i - a) = i
        BY <4>1
      <4> QED BY <4>2 DEF a, b
    <3> QED BY <3>1, <1>5
  <2>2. ASSUME NEW i \in 1 .. bits, ~(i > Len(u)) PROVE Course(s, w)[i] = s
    <3>1. i \in 1 .. Len(u) + 1
      BY <1>1, <1>3, <2>2
    <3> QED BY <3>1, <1>5
  <2> QED BY <2>1, <2>2
<1> HIDE DEF w
<1>7. w \o <<1>> \in Words /\ After(s, w \o <<1>>) = TapNext(s, 1)
  BY <1>5, AfterAppend
<1> DEFINE o == <<1>>
<1>8. o \in Words /\ Len(o) = 1
  BY AfterBit
<1> HIDE DEF o
<1>9. Len(w \o o) = bits /\ \A i \in 1 .. bits : Course(s, w \o o)[i] = s
  <2>1. /\ Len(w \o o) = Len(w) + Len(o)
        /\ \A i \in 1 .. Len(w) + 1 : Course(s, w \o o)[i] = Course(s, w)[i]
    BY <1>5, <1>8, CourseConcat
  <2>2. Len(w) + 1 = bits /\ Len(w) + Len(o) = bits
    BY <1>5, <1>8
  <2> QED BY <2>1, <2>2, <1>6
<1> QED BY <1>2, <1>7, <1>9 DEF o

\* shiftIR() and shiftDR(): into the shift state, through the scan, and back.
LEMMA ShiftEnds ==
  ASSUME state \in TapStates, NEW shift, NEW exit1, NEW bits \in Nat \ {0}, NEW read_back \in BOOLEAN,
         <<shift, exit1>> \in {<<"SHIFT_DR", "EXIT1_DR">>, <<"SHIFT_IR", "EXIT1_IR">>}
  PROVE  /\ Agrees(state, ShiftTransfers(shift, exit1, bits, read_back))
         /\ Final(state, ShiftTransfers(shift, exit1, bits, read_back)) = "RUN_TEST_IDLE"
<1> DEFINE a == GotoTransfers(state, shift)
           w == ShiftWord(bits)
           n == IF read_back THEN ReadBytes(bits) ELSE 0
           r == [word |-> w, bytes |-> n, to |-> exit1]
           b == <<r>>
           c == GotoTransfers(exit1, "RUN_TEST_IDLE")
<1>1. /\ shift \in Found /\ exit1 \in TapStates /\ shift \in TapStates /\ "RUN_TEST_IDLE" \in Found
      /\ TapNext(shift, 0) = shift /\ TapNext(shift, 1) = exit1
  <2>1. CASE shift = "SHIFT_DR" /\ exit1 = "EXIT1_DR"
    BY <2>1, Table, PathsAssumption
  <2>2. CASE shift = "SHIFT_IR" /\ exit1 = "EXIT1_IR"
    BY <2>2, Table, PathsAssumption
  <2> QED BY <2>1, <2>2
<1>2. ShiftTransfers(shift, exit1, bits, read_back) = a \o b \o c
  BY DEF ShiftTransfers, Transfer
<1>3. Agrees(state, a) /\ Final(state, a) = shift
  BY <1>1, GotoEnds
<1>4. Agrees(shift, b) /\ Final(shift, b) = exit1
  <2>1. w \in Words /\ After(shift, w) = exit1
    BY <1>1, ShiftWordEnds
  <2>2. n \in Int
    BY DEF ReadBytes, Bulk
  <2>3. r \in Transfers /\ r.word = w /\ r.to = exit1
    <3> HIDE DEF w, n
    <3> QED BY <2>1, <2>2, <1>1 DEF Transfers
  <2> HIDE DEF r
  <2> QED BY <2>1, <2>3, <1>1, ListShort DEF Agrees
<1>5. Agrees(exit1, c) /\ Final(exit1, c) = "RUN_TEST_IDLE"
  BY <1>1, GotoEnds
<1> HIDE DEF a, b, c
<1> DEFINE ab == a \o b
<1>6. Agrees(state, ab) /\ Final(state, ab) = exit1
  BY <1>3, <1>4, AgreesConcat
<1> HIDE DEF ab
<1>7. Agrees(state, ab \o c) /\ Final(state, ab \o c) = "RUN_TEST_IDLE"
  BY <1>5, <1>6, AgreesConcat
<1> QED BY <1>2, <1>7 DEF ab

\* Two lists in a row.
LEMMA TwoParts ==
  ASSUME NEW R, NEW u \in Seq(R), NEW v \in Seq(R)
  PROVE  /\ u \o v \in Seq(R) /\ Len(u \o v) = Len(u) + Len(v)
         /\ \A i \in 1 .. Len(u) : (u \o v)[i] = u[i]
         /\ \A i \in 1 .. Len(v) : (u \o v)[Len(u) + i] = v[i]
  OBVIOUS

\* Words of the same bits are the same.
LEMMA SameWord ==
  ASSUME NEW u \in Words, NEW v \in Words, Len(u) = Len(v), \A i \in 1 .. Len(u) : u[i] = v[i]
  PROVE  u = v
  BY DEF Words

\* The bits of two words in a row.
LEMMA TwoWords ==
  ASSUME NEW u \in Words, NEW v \in Words
  PROVE  /\ u \o v \in Words /\ Len(u \o v) = Len(u) + Len(v) /\ Len(u) \in Nat /\ Len(v) \in Nat
         /\ \A i \in 1 .. Len(u) : (u \o v)[i] = u[i]
         /\ \A i \in 1 .. Len(v) : (u \o v)[Len(u) + i] = v[i]
<1> DEFINE R == {0, 1}
<1>1. u \in Seq(R) /\ v \in Seq(R) /\ Words = Seq(R)
  BY DEF Words
<1> HIDE DEF R
<1>2. Len(u) \in Nat /\ Len(v) \in Nat
  BY <1>1
<1> QED BY <1>1, <1>2, TwoParts

\* A word clocked n times.
Times(scan, n) == [k \in 1 .. n * Len(scan) |-> scan[((k - 1) % Len(scan)) + 1]]

\* The bits of such a word.
LEMMA TimesFacts ==
  ASSUME NEW scan \in Words, Len(scan) > 0, NEW n \in Nat
  PROVE  /\ Times(scan, n) \in Words /\ Len(Times(scan, n)) = n * Len(scan)
         /\ n * Len(scan) \in Nat
         /\ \A k \in 1 .. n * Len(scan) : Times(scan, n)[k] = scan[((k - 1) % Len(scan)) + 1]
<1> DEFINE L == Len(scan)
           m == n * L
           w == Times(scan, n)
<1>1. L \in Nat \ {0} /\ \A i \in 1 .. L : scan[i] \in {0, 1}
  BY DEF Words
<1>2. w = [k \in 1 .. m |-> scan[((k - 1) % L) + 1]]
  BY DEF Times
<1> HIDE DEF L, w
<1>3. m \in Nat
  BY <1>1, SMT
<1> HIDE DEF m
<1>4. ASSUME NEW k \in 1 .. m PROVE scan[((k - 1) % L) + 1] \in {0, 1}
  <2>1. k - 1 \in Nat
    BY <1>3
  <2>2. (k - 1) % L \in 0 .. L - 1
    BY <2>1, <1>1, DivMod
  <2> QED BY <2>2, <1>1
<1>5. w \in Words /\ Len(w) = m /\ \A k \in 1 .. m : w[k] = scan[((k - 1) % L) + 1]
  BY <1>2, <1>3, <1>4 DEF Words
<1> QED BY <1>3, <1>5 DEF m, L, w

\* Once more is the word once more at the end.
LEMMA TimesNext ==
  ASSUME NEW scan \in Words, Len(scan) > 0, NEW n \in Nat
  PROVE  Times(scan, n + 1) = Times(scan, n) \o scan
<1> DEFINE L == Len(scan)
           m == n * L
           u == Times(scan, n)
           v == Times(scan, n + 1)
           w == u \o scan
<1>1. L \in Nat \ {0}
  BY DEF Words
<1>2. /\ u \in Words /\ Len(u) = m /\ m \in Nat
      /\ \A k \in 1 .. m : u[k] = scan[((k - 1) % L) + 1]
  BY TimesFacts
<1>3. /\ v \in Words /\ Len(v) = (n + 1) * L
      /\ \A k \in 1 .. (n + 1) * L : v[k] = scan[((k - 1) % L) + 1]
  <2>1. n + 1 \in Nat
    OBVIOUS
  <2> QED BY <2>1, TimesFacts
<1>4. /\ w \in Words /\ Len(w) = Len(u) + L
      /\ \A k \in 1 .. Len(u) : w[k] = u[k]
      /\ \A k \in 1 .. L : w[Len(u) + k] = scan[k]
  BY <1>2, TwoWords
<1> HIDE DEF L, u, v, w
<1>5. (n + 1) * L = m + L
  BY <1>1, SMT
<1>6. m = L * n
  BY <1>1, SMT
<1> HIDE DEF m
<1>7. ASSUME NEW k \in 1 .. m + L PROVE v[k] = w[k]
  <2>1. v[k] = scan[((k - 1) % L) + 1]
    BY <1>3, <1>5
  <2>2. CASE k <= m
    <3>1. k \in 1 .. m
      BY <2>2, <1>2
    <3> QED BY <3>1, <2>1, <1>2, <1>4
  <2>3. CASE k > m
    <3> DEFINE j == k - m
    <3>1. j \in 1 .. L /\ k = m + j /\ j - 1 \in 0 .. L - 1 /\ k - 1 = m + (j - 1)
      BY <1>1, <1>2, <2>3
    <3> HIDE DEF j
    <3>2. (L * n + (j - 1)) % L = j - 1
      BY <3>1, <1>1, ModUnique
    <3>3. (k - 1) % L = j - 1
      BY <3>1, <3>2, <1>6
    <3>4. ((k - 1) % L) + 1 = j
      BY <3>1, <3>3
    <3>5. w[k] = scan[j]
      BY <3>1, <1>2, <1>4
    <3> QED BY <2>1, <3>4, <3>5
  <2> QED BY <2>2, <2>3, <1>2
<1>8. Len(v) = Len(w) /\ \A k \in 1 .. Len(v) : v[k] = w[k]
  BY <1>2, <1>3, <1>4, <1>5, <1>7
<1>9. v = w
  BY <1>3, <1>4, <1>8, SameWord
<1> QED BY <1>9 DEF u, v, w

\* A word that leads back to where it began does so as often as it is clocked.
LEMMA TimesEnds ==
  ASSUME NEW s \in TapStates, NEW scan \in Words, Len(scan) > 0, After(s, scan) = s, NEW n \in Nat
  PROVE  Times(scan, n) \in Words /\ After(s, Times(scan, n)) = s
<1> DEFINE w == [m \in Nat |-> Times(scan, m)]
           S == {m \in Nat : After(s, w[m]) = s}
<1>1. \A m \in Nat : w[m] = Times(scan, m) /\ w[m + 1] = Times(scan, m + 1)
  OBVIOUS
<1> HIDE DEF w
<1>2. \A m \in Nat : w[m] \in Words /\ w[m + 1] = w[m] \o scan
  <2>1. ASSUME NEW m \in Nat PROVE Times(scan, m) \in Words /\ Times(scan, m + 1) = Times(scan, m) \o scan
    BY TimesFacts, TimesNext
  <2> QED BY <2>1, <1>1
<1>3. w[0] = <<>>
  <2>1. 0 \in Nat /\ 0 * Len(scan) = 0
    BY DEF Words
  <2>2. Times(scan, 0) \in Words /\ Len(Times(scan, 0)) = 0 * Len(scan)
    BY <2>1, TimesFacts
  <2>3. w[0] \in Words /\ Len(w[0]) = 0
    BY <2>1, <2>2, <1>1
  <2> QED BY <2>3 DEF Words
<1>4. 0 \in S
  BY <1>3, AfterFacts
<1>5. ASSUME NEW m \in Nat, m \in S PROVE m + 1 \in S
  <2> DEFINE u == w[m]
  <2>1. u \in Words /\ w[m + 1] = u \o scan /\ After(s, u) = s
    BY <1>2, <1>5
  <2> HIDE DEF u
  <2>2. After(s, u \o scan) = After(After(s, u), scan)
    BY <2>1, CourseConcat
  <2>3. After(s, w[m + 1]) = s
    BY <2>1, <2>2, Zenon
  <2> QED BY <2>3
<1>6. n \in S
  <2> HIDE DEF S
  <2> QED BY <1>4, <1>5, NatSetInduction
<1> QED BY <1>1, <1>2, <1>6

\* The chunks of a repeated scan: at least one, and the last is not negative.
LEMMA ChunkCount ==
  ASSUME NEW count \in Nat \ {0}
  PROVE  LET chunks == (count + kChunk - 1) \div kChunk
         IN  chunks \in Nat \ {0} /\ kChunk \in Nat /\ count - kChunk * (chunks - 1) \in Nat
<1> DEFINE y == count + kChunk - 1
           q == y \div kChunk
<1>1. kChunk \in Nat \ {0} /\ y \in Nat /\ y >= kChunk
  BY BoundsAssumption
<1>2. y = kChunk * q + (y % kChunk) /\ q \in Nat /\ y % kChunk \in 0 .. kChunk - 1
  <2> HIDE DEF y
  <2> QED BY <1>1, DivMod
<1>3. q # 0
  BY <1>1, <1>2, SMT
<1>4. kChunk * (q - 1) = kChunk * q - kChunk
  BY <1>1, <1>2, SMT
<1>5. kChunk * q \in Nat
  BY <1>1, <1>2, SMT
<1>6. count - kChunk * (q - 1) \in Nat
  <2> DEFINE z == kChunk * q
             rem == y % kChunk
  <2>1. z \in Nat /\ rem \in 0 .. kChunk - 1 /\ y = z + rem
    BY <1>2, <1>5
  <2> HIDE DEF z, rem
  <2>2. count - (z - kChunk) \in Nat
    BY <2>1, <1>1
  <2> QED BY <2>2, <1>4 DEF z
<1> QED BY <1>1, <1>2, <1>3, <1>6

\* shiftDRRepeat(): every chunk leads from RUN_TEST_IDLE back to it, and state_ is
\* RUN_TEST_IDLE after the last.
LEMMA RepeatEnds ==
  ASSUME state \in TapStates, NEW count \in Nat \ {0}, NEW bits \in Nat \ {0}
  PROVE  /\ RepeatTransfers(count, bits) \in Lists
         /\ End("RUN_TEST_IDLE", RepeatTransfers(count, bits)) = "RUN_TEST_IDLE"
         /\ Final(state, RepeatTransfers(count, bits)) = "RUN_TEST_IDLE"
<1> DEFINE a == clockTms(TmsPaths["RUN_TEST_IDLE", "SHIFT_DR"])
           w == ShiftWord(bits)
           b == clockTms(TmsPaths["EXIT1_DR", "RUN_TEST_IDLE"])
           scan == a \o w \o b
           chunks == (count + kChunk - 1) \div kChunk
           size(i) == IF i < chunks THEN kChunk ELSE count - kChunk * (chunks - 1)
           word(n) == Times(scan, n)
           to(i) == IF i = chunks THEN "RUN_TEST_IDLE" ELSE state
           r(i) == [word |-> word(size(i)), bytes |-> size(i) * ReadBytes(bits), to |-> to(i)]
           t == RepeatTransfers(count, bits)
<1>1. scan \in Words /\ Len(scan) > 0 /\ After("RUN_TEST_IDLE", scan) = "RUN_TEST_IDLE"
  <2>1. a \in Words /\ After("RUN_TEST_IDLE", a) = "SHIFT_DR"
    BY Table, PathsAssumption, FoundWord
  <2>2. w \in Words /\ Len(w) = bits /\ After("SHIFT_DR", w) = "EXIT1_DR"
    BY Table, ShiftWordEnds
  <2>3. b \in Words /\ After("EXIT1_DR", b) = "RUN_TEST_IDLE"
    BY Table, PathsAssumption, FoundWord
  <2> HIDE DEF a, w, b
  <2> DEFINE aw == a \o w
  <2>4. aw \in Words /\ Len(aw) = Len(a) + bits /\ After("RUN_TEST_IDLE", aw) = "EXIT1_DR"
    <3>1. "RUN_TEST_IDLE" \in TapStates
      BY Table
    <3>2. aw \in Words /\ Len(aw) = Len(a) + Len(w)
          /\ After("RUN_TEST_IDLE", aw) = After(After("RUN_TEST_IDLE", a), w)
      BY <2>1, <2>2, <3>1, CourseConcat
    <3> HIDE DEF aw
    <3> QED BY <2>1, <2>2, <3>2
  <2> HIDE DEF aw
  <2>5. aw \o b \in Words /\ Len(aw \o b) = Len(aw) + Len(b)
        /\ After("RUN_TEST_IDLE", aw \o b) = "RUN_TEST_IDLE"
    <3> DEFINE awb == aw \o b
    <3>1. "RUN_TEST_IDLE" \in TapStates
      BY Table
    <3>2. awb \in Words /\ Len(awb) = Len(aw) + Len(b)
          /\ After("RUN_TEST_IDLE", awb) = After(After("RUN_TEST_IDLE", aw), b)
      BY <2>3, <2>4, <3>1, CourseConcat
    <3> HIDE DEF awb
    <3>3. After("RUN_TEST_IDLE", awb) = "RUN_TEST_IDLE"
      BY <2>3, <2>4, <3>2
    <3> QED BY <3>2, <3>3 DEF awb
  <2>6. Len(a) \in Nat /\ Len(b) \in Nat
    BY <2>1, <2>3 DEF Words
  <2> QED BY <2>4, <2>5, <2>6 DEF aw
<1>2. chunks \in Nat \ {0} /\ \A i \in 1 .. chunks : size(i) \in Nat
  <2>1. chunks \in Nat \ {0} /\ kChunk \in Nat /\ count - kChunk * (chunks - 1) \in Nat
    BY ChunkCount
  <2> HIDE DEF chunks
  <2> QED BY <2>1
<1> HIDE DEF scan, chunks, size
<1>3. ASSUME NEW n \in Nat PROVE word(n) \in Words /\ After("RUN_TEST_IDLE", word(n)) = "RUN_TEST_IDLE"
  BY <1>1, Table, TimesEnds
<1> HIDE DEF word
<1>4. ASSUME NEW i \in 1 .. chunks
      PROVE r(i) \in Transfers /\ After("RUN_TEST_IDLE", r(i).word) = "RUN_TEST_IDLE"
  <2>1. word(size(i)) \in Words /\ After("RUN_TEST_IDLE", word(size(i))) = "RUN_TEST_IDLE"
    BY <1>2, <1>3
  <2>2. size(i) * ReadBytes(bits) \in Int
    <3>1. size(i) \in Int /\ ReadBytes(bits) \in Int
      BY <1>2 DEF ReadBytes, Bulk
    <3> QED BY <3>1, SMT
  <2>3. to(i) \in TapStates
    BY Table
  <2> QED BY <2>1, <2>2, <2>3 DEF Transfers
<1>5. t = [i \in 1 .. chunks |-> r(i)]
  BY DEF RepeatTransfers, Transfer, Times, chunks, size, word, scan
<1>6. r(chunks).to = "RUN_TEST_IDLE"
  OBVIOUS
<1> HIDE DEF r, t
<1>7. t \in Lists /\ Len(t) = chunks /\ (\A i \in 1 .. chunks : t[i] = r(i)) /\ t # <<>>
  <2>1. t \in Lists /\ Len(t) = chunks /\ \A i \in 1 .. chunks : t[i] = r(i)
    BY <1>2, <1>4, <1>5 DEF Lists
  <2> QED BY <2>1, <1>2
<1>8. End("RUN_TEST_IDLE", t) = "RUN_TEST_IDLE"
  <2>1. \A i \in 1 .. Len(t) : After("RUN_TEST_IDLE", t[i].word) = "RUN_TEST_IDLE"
    BY <1>4, <1>7
  <2>2. Len(t) \in 0 .. Len(t)
    BY <1>2, <1>7
  <2> QED BY <1>7, <2>1, <2>2, Table, ListStays DEF End
<1>9. Final(state, t) = "RUN_TEST_IDLE"
  <2>1. chunks \in 1 .. chunks
    BY <1>2
  <2> QED BY <2>1, <1>6, <1>7 DEF Final
<1> QED BY <1>7, <1>8, <1>9 DEF t

---------------------------------------------------------------------------
(* state_ and the TAP                                                      *)

\* What a successful operation leaves.
LEMMA SucceedFacts ==
  ASSUME TypeOK, NEW op, NEW n, NEW t \in Lists, NEW own \in BOOLEAN, Succeed(op, n, t, own)
  PROVE  /\ hw' = End(hw, t) /\ state' = Final(state, t)
         /\ hw' \in TapStates /\ state' \in TapStates
         /\ UNCHANGED <<is_open, late, clean>>
         /\ last'.ok = TRUE /\ last'.own = own
<1> DEFINE w == Clocked(t)[Len(t)]
           course == Course(hw, w)
<1>1. Len(t) \in Nat /\ (t # <<>> => t[Len(t)] \in Transfers)
  BY DEF Lists
<1>2. w \in Words
  <2>1. Len(t) \in 0 .. Len(t)
    BY <1>1
  <2> QED BY <2>1, ClockedFacts
<1>3. hw \in TapStates /\ state \in TapStates
  BY DEF TypeOK
<1> HIDE DEF w
<1>4. Len(course) = Len(w) + 1
  BY <1>2, <1>3, CourseFacts
<1>5. course[Len(course)] = After(hw, w) /\ After(hw, w) \in TapStates
  BY <1>2, <1>3, <1>4, AfterFacts DEF After
<1>6. hw' = course[Len(course)]
  BY DEF Succeed, w
<1>7. state' = Final(state, t)
  BY DEF Succeed, Final
<1>8. Final(state, t) \in TapStates
  BY <1>1, <1>3 DEF Final, Transfers
<1>9. UNCHANGED <<is_open, late, clean>>
  BY DEF Succeed
<1>10. last'.ok = TRUE /\ last'.own = own
  BY DEF Succeed
<1> QED BY <1>5, <1>6, <1>7, <1>8, <1>9, <1>10 DEF End, w

\* What a failed one leaves: the TAP in some state, and sync lost unless nothing
\* was clocked.
LEMMA FailFacts ==
  ASSUME TypeOK, NEW op, NEW t \in Lists, Fail(op, t)
  PROVE  TypeOK' /\ last'.ok = FALSE
         /\ \/ UNCHANGED <<is_open, state, hw, late, sync, clean>>
            \/ sync' # "ok" /\ clean' = FALSE
<1>1. CASE Refuse(op)
  BY <1>1 DEF Refuse, Failed, TypeOK
<1>2. ASSUME NEW i \in DOMAIN t, FailAt(op, t, i)
      PROVE  TypeOK' /\ last'.ok = FALSE /\ sync' # "ok" /\ clean' = FALSE
  <2> DEFINE u == Clocked(t)[i - 1]
             v == t[i].word
             w == Clocked(t)[i]
             course == Course(hw, w)
  <2>1. Len(t) \in Nat /\ i \in 1 .. Len(t) /\ \A j \in 1 .. Len(t) : t[j] \in Transfers
    BY DEF Lists
  <2>2. i - 1 \in 0 .. Len(t) /\ i \in 0 .. Len(t) /\ (i # 1 => i - 1 \in 1 .. Len(t))
    BY <2>1
  <2>3. u \in Words /\ v \in Words /\ w \in Words /\ w = u \o v
    BY <2>1, <2>2, ClockedFacts DEF Transfers
  <2>4. hw \in TapStates /\ state \in TapStates /\ late \in 0 .. MaxLate
    BY DEF TypeOK
  <2>5. Len(w) = Len(u) + Len(v) /\ Len(u) \in Nat /\ Len(v) \in Nat
    BY <2>3 DEF Words
  <2> HIDE DEF u, v, w
  <2>6. Len(course) = Len(w) + 1 /\ course \in Seq(TapStates)
    BY <2>3, <2>4, CourseFacts
  <2>7. \A j \in 1 .. Len(course) : course[j] \in TapStates
    BY <2>6
  <2> HIDE DEF course
  <2>8. state' \in TapStates
    <3>1. i # 1 => t[i - 1].to \in TapStates
      BY <2>1, <2>2 DEF Transfers
    <3>2. state' = IF i = 1 THEN state ELSE t[i - 1].to
      BY <1>2 DEF FailAt
    <3> QED BY <3>1, <3>2, <2>4
  <2>9. t[i].bytes \in Int /\ MaxLate \in Nat
    BY <2>1, BoundsAssumption DEF Transfers
  <2>10. hw' \in TapStates /\ late' \in 0 .. MaxLate
    <3>0. late' <= MaxLate
      BY <1>2 DEF FailAt
    <3>1. CASE \E k \in 0 .. Len(v) : /\ hw' = course[Len(course) - Len(v) + k]
                                      /\ late' \in late .. late + (IF k < t[i].bytes THEN k ELSE t[i].bytes)
      <4>1. PICK k \in 0 .. Len(v) : /\ hw' = course[Len(course) - Len(v) + k]
                                      /\ late' \in late .. late + (IF k < t[i].bytes THEN k ELSE t[i].bytes)
        BY <3>1
      <4>2. Len(course) - Len(v) + k \in 1 .. Len(course)
        BY <2>5, <2>6
      <4>3. late' \in Int /\ late <= late'
        <5> DEFINE hi == late + (IF k < t[i].bytes THEN k ELSE t[i].bytes)
        <5>1. late \in Int /\ hi \in Int
          BY <2>4, <2>5, <2>9
        <5>2. late' \in late .. hi
          BY <4>1
        <5> HIDE DEF hi
        <5> QED BY <5>1, <5>2
      <4> QED BY <2>4, <2>7, <2>9, <3>0, <4>1, <4>2, <4>3
    <3>2. CASE hw' = course[Len(course)] /\ late' \in 0 .. late + t[i].bytes
      <4>1. Len(course) \in 1 .. Len(course)
        BY <2>5, <2>6
      <4>2. late + t[i].bytes \in Int
        BY <2>4, <2>9
      <4> QED BY <2>7, <2>9, <3>0, <3>2, <4>1, <4>2
    <3> QED BY <1>2, <3>1, <3>2 DEF FailAt, course, v, w
  <2>11. sync' \in {"unknown", "ok", "lost"} /\ sync' # "ok"
    BY <1>2 DEF FailAt, TypeOK
  <2>12. is_open' \in BOOLEAN /\ clean' = FALSE /\ last'.ok = FALSE /\ last'.own = FALSE
    BY <1>2 DEF FailAt, TypeOK, Failed
  <2> QED BY <2>8, <2>10, <2>11, <2>12 DEF TypeOK
<1> QED BY <1>1, <1>2 DEF Fail

\* One step keeps the types, and state_ with the TAP.
LEMMA InSyncStep == ASSUME InSync, [Next]_vars PROVE InSync'
<1>1. TypeOK /\ (sync = "ok" => hw = state) /\ state \in TapStates /\ hw \in TapStates
  BY DEF InSync, TypeOK
\* An operation whose transfers keep the two together.
<1>2. ASSUME NEW op, NEW n, NEW t, NEW own \in BOOLEAN, Agrees(state, t),
             (Succeed(op, n, t, own) /\ UNCHANGED sync) \/ Fail(op, t)
      PROVE  InSync'
  <2>1. t \in Lists
    BY <1>2 DEF Agrees
  <2>2. CASE Succeed(op, n, t, own) /\ UNCHANGED sync
    <3>1. /\ hw' = End(hw, t) /\ state' = Final(state, t) /\ hw' \in TapStates /\ state' \in TapStates
          /\ UNCHANGED <<is_open, late, clean>> /\ last'.ok = TRUE /\ last'.own = own
      BY <1>1, <2>1, <2>2, SucceedFacts
    <3> QED BY <1>1, <1>2, <2>2, <3>1 DEF InSync, TypeOK, Agrees
  <2>3. CASE Fail(op, t)
    BY <1>1, <2>1, <2>3, FailFacts DEF InSync
  <2> QED BY <1>2, <2>2, <2>3
\* One that returns before it reaches the device.
<1>3. ASSUME UNCHANGED <<is_open, state, hw, late, sync, clean>>, last'.ok \in BOOLEAN, last'.own \in BOOLEAN
      PROVE  InSync'
  BY <1>1, <1>3 DEF InSync, TypeOK
<1>4. CASE Reset
  <2>1. ResetTransfers \in Lists /\ End(hw, ResetTransfers) = "RUN_TEST_IDLE"
        /\ Final(state, ResetTransfers) = "RUN_TEST_IDLE"
    BY <1>1, ResetEnds
  <2>2. CASE Succeed("reset", 0, ResetTransfers, TRUE) /\ sync' = "ok"
    <3> DEFINE t == ResetTransfers
    <3> HIDE DEF t
    <3>1. /\ hw' = End(hw, t) /\ state' = Final(state, t) /\ hw' \in TapStates /\ state' \in TapStates
          /\ UNCHANGED <<is_open, late, clean>> /\ last'.ok = TRUE /\ last'.own = TRUE
      BY <1>1, <2>1, <2>2, SucceedFacts DEF t
    <3> QED BY <1>1, <2>1, <2>2, <3>1 DEF InSync, TypeOK, t
  <2>3. CASE Fail("reset", ResetTransfers)
    BY <1>1, <2>1, <2>3, FailFacts DEF InSync
  <2> QED BY <1>4, <2>2, <2>3 DEF Reset
<1>5. ASSUME NEW target \in Targets, GotoState(target) PROVE InSync'
  <2>1. Agrees(state, GotoTransfers(state, target))
    BY <1>1, GotoEnds, TargetsAssumption
  <2> QED BY <1>2, <1>5, <2>1 DEF GotoState
<1>6. ASSUME NEW cycles \in Cycles, ClkIdle(cycles) PROVE InSync'
  <2> DEFINE a == GotoTransfers(state, "RUN_TEST_IDLE")
             b == IdleTransfers(cycles)
  <2>1. Agrees(state, a) /\ Final(state, a) = "RUN_TEST_IDLE"
    BY <1>1, GotoEnds, PathsAssumption
  <2>2. Agrees("RUN_TEST_IDLE", b)
    BY IdleEnds, ScansAssumption
  <2> HIDE DEF a, b
  <2>3. Agrees(state, a \o b)
    BY <1>1, <2>1, <2>2, AgreesConcat
  <2> QED BY <1>2, <1>6, <2>3 DEF ClkIdle, a, b
<1>7. ASSUME NEW bits \in Bits, ShiftIR(bits) PROVE InSync'
  <2>1. CASE bits <= 0 /\ Refuse("shiftIR")
    BY <1>3, <2>1 DEF Refuse, Failed
  <2>2. CASE bits > 0
    <3>1. bits \in Nat \ {0}
      BY <2>2, ScansAssumption
    <3>2. Agrees(state, ShiftTransfers("SHIFT_IR", "EXIT1_IR", bits, FALSE))
      BY <1>1, <3>1, ShiftEnds
    <3>3. ~(bits <= 0)
      BY <3>1
    <3> QED BY <1>2, <1>7, <3>2, <3>3 DEF ShiftIR
  <2> QED BY <1>7, <2>1, <2>2 DEF ShiftIR
<1>8. ASSUME NEW bits \in Bits, NEW read_back \in BOOLEAN, ShiftDR(bits, read_back) PROVE InSync'
  <2>1. CASE bits <= 0 /\ Refuse("shiftDR")
    BY <1>3, <2>1 DEF Refuse, Failed
  <2>2. CASE bits > 0
    <3>1. bits \in Nat \ {0}
      BY <2>2, ScansAssumption
    <3>2. Agrees(state, ShiftTransfers("SHIFT_DR", "EXIT1_DR", bits, read_back))
      BY <1>1, <3>1, ShiftEnds
    <3>3. ~(bits <= 0) /\ (read_back => OwnTdo(bits)) \in BOOLEAN
      BY <3>1
    <3> QED BY <1>2, <1>8, <3>2, <3>3 DEF ShiftDR
  <2> QED BY <1>8, <2>1, <2>2 DEF ShiftDR
<1>9. ASSUME NEW count \in Counts, NEW bits \in Bits, ShiftDRRepeat(count, bits) PROVE InSync'
  <2> DEFINE t == RepeatTransfers(count, bits)
  <2>1. CASE /\ count <= 0 \/ bits <= 0
             /\ last' = [Failed("nothing") EXCEPT !.ok = TRUE, !.own = TRUE]
             /\ UNCHANGED <<is_open, state, hw, late, sync, clean>>
    BY <1>3, <2>1 DEF Failed
  <2>2. CASE count > 0 /\ bits > 0
    <3>1. count \in Nat \ {0} /\ bits \in Nat \ {0}
      BY <2>2, ScansAssumption
    <3>2. t \in Lists /\ End("RUN_TEST_IDLE", t) = "RUN_TEST_IDLE" /\ Final(state, t) = "RUN_TEST_IDLE"
      BY <1>1, <3>1, RepeatEnds
    <3> HIDE DEF t
    <3>3. CASE /\ Succeed("shiftDRRepeat", count * bits, t, OwnTdo(bits))
               /\ sync' = IF sync = "ok" /\ state # "RUN_TEST_IDLE" THEN "lost" ELSE sync
      <4>1. OwnTdo(bits) \in BOOLEAN
        BY DEF OwnTdo
      <4>2. /\ hw' = End(hw, t) /\ state' = Final(state, t) /\ hw' \in TapStates /\ state' \in TapStates
            /\ UNCHANGED <<is_open, late, clean>> /\ last'.ok = TRUE /\ last'.own = OwnTdo(bits)
        BY <1>1, <3>2, <3>3, <4>1, SucceedFacts
      <4> QED BY <1>1, <3>2, <3>3, <4>1, <4>2 DEF InSync, TypeOK
    <3>4. CASE Fail("shiftDRRepeat", t)
      BY <1>1, <3>2, <3>4, FailFacts DEF InSync
    <3>5. ~(count <= 0) /\ ~(bits <= 0)
      BY <3>1
    <3> QED BY <1>9, <3>3, <3>4, <3>5 DEF ShiftDRRepeat, t
  <2> QED BY <1>9, <2>1, <2>2 DEF ShiftDRRepeat
<1>10. CASE Open
  <2>1. 0 \in 0 .. MaxLate
    BY BoundsAssumption
  <2> QED BY <1>1, <1>10, <2>1 DEF Open, FtdiOpen, InitMpsse, Failed, InSync, TypeOK
<1>11. CASE Close
  BY <1>1, <1>11 DEF Close, FtdiClose, Failed, InSync, TypeOK
<1>12. CASE OtherProcess
  BY <1>1, <1>12 DEF OtherProcess, InSync, TypeOK
<1>13. CASE UNCHANGED vars
  BY <1>1, <1>13 DEF vars, InSync, TypeOK
<1> QED
  BY <1>4, <1>5, <1>6, <1>7, <1>8, <1>9, <1>10, <1>11, <1>12, <1>13 DEF Next

\* The initial states: sync is not yet claimed.
LEMMA InitInSync == Init => InSync
<1>1. "TEST_LOGIC_RESET" \in TapStates
  BY Table
<1>2. 0 \in 0 .. MaxLate
  BY BoundsAssumption
<1>3. Failed("none").ok = FALSE /\ Failed("none").own = FALSE
  BY DEF Failed
<1> QED BY <1>1, <1>2, <1>3 DEF Init, InSync, TypeOK

\* tap_controller.cpp: after a reset() that worked, and until a transfer fails
\* or the adapter is closed and used by another process, state_ is the state of
\* the device's TAP, whatever operations ran in between and however a scan or
\* an idle time was cut into transfers.
THEOREM TapInSync == Spec => []InSync
<1>1. Init => InSync
  BY InitInSync
<1>2. InSync /\ [Next]_vars => InSync'
  BY InSyncStep
<1> QED BY <1>1, <1>2, PTL DEF Spec

---------------------------------------------------------------------------
(* The TDO of a scan                                                       *)

\* Three of them.
LEMMA ThreeParts ==
  ASSUME NEW R, NEW u \in Seq(R), NEW v \in Seq(R), NEW w \in Seq(R)
  PROVE  /\ (u \o v) \o w \in Seq(R)
         /\ Len((u \o v) \o w) = Len(u) + Len(v) + Len(w)
         /\ \A i \in 1 .. Len(u) : ((u \o v) \o w)[i] = u[i]
         /\ \A i \in 1 .. Len(v) : ((u \o v) \o w)[Len(u) + i] = v[i]
         /\ \A i \in 1 .. Len(w) : ((u \o v) \o w)[Len(u) + Len(v) + i] = w[i]
         /\ SubSeq(<<>> \o ((u \o v) \o w), 1, Len(u) + Len(v) + Len(w)) = (u \o v) \o w
<1> DEFINE x == u \o v
           y == x \o w
<1>1. /\ x \in Seq(R) /\ Len(x) = Len(u) + Len(v)
      /\ \A i \in 1 .. Len(u) : x[i] = u[i]
      /\ \A i \in 1 .. Len(v) : x[Len(u) + i] = v[i]
  BY TwoParts
<1> HIDE DEF x
<1>2. /\ y \in Seq(R) /\ Len(y) = Len(x) + Len(w)
      /\ \A i \in 1 .. Len(x) : y[i] = x[i]
      /\ \A i \in 1 .. Len(w) : y[Len(x) + i] = w[i]
  <2>1. x \in Seq(R)
    BY <1>1
  <2> QED BY ONLY <2>1, w \in Seq(R), TwoParts
<1> HIDE DEF y
<1>3. <<>> \o y = y /\ SubSeq(y, 1, Len(y)) = y
  BY <1>2
<1>4. Len(u) \in Nat /\ Len(v) \in Nat /\ Len(w) \in Nat
  OBVIOUS
<1>5. Len(y) = Len(u) + Len(v) + Len(w)
  BY <1>1, <1>2, <1>4
<1>6. \A i \in 1 .. Len(u) : y[i] = u[i]
  BY <1>1, <1>2, <1>4
<1>7. \A i \in 1 .. Len(v) : y[Len(u) + i] = v[i]
  BY <1>1, <1>2, <1>4
<1>8. \A i \in 1 .. Len(w) : y[Len(u) + Len(v) + i] = w[i]
  BY <1>1, <1>2, <1>4
<1>9. SubSeq(<<>> \o y, 1, Len(u) + Len(v) + Len(w)) = y
  BY <1>3, <1>5
<1> QED BY <1>2, <1>5, <1>6, <1>7, <1>8, <1>9 DEF y, x

\* doShift() and shiftDRRepeat() put the bits of a scan back in their order.
LEMMA OwnWhenClean ==
  ASSUME late = 0, NEW bits \in Nat \ {0}
  PROVE  OwnTdo(bits)
<1> DEFINE B == Bulk(bits)
           r == Remaining(bits)
           R == [0 .. 7 -> Int]
           bulk == [i \in 1 .. B |-> [j \in 0 .. 7 |-> 8 * (i - 1) + j]]
           partial == [j \in 0 .. 7 |-> IF j >= 8 - r THEN 8 * B + j - (8 - r) ELSE -1]
           mid == IF r > 0 THEN <<partial>> ELSE <<>>
           last_bit == [j \in 0 .. 7 |-> IF j = 7 THEN bits - 1 ELSE -1]
           end == <<last_bit>>
           raw == bulk \o mid \o end
           n == ReadBytes(bits)
<1>1. B \in Nat /\ r \in 0 .. 7 /\ bits - 1 = 8 * B + r
  BY DEF Bulk, Remaining
<1>2. n = B + (IF r > 0 THEN 1 ELSE 0) + 1
  BY DEF ReadBytes
<1>3. Answer(bits) = raw
  BY DEF Answer
<1>4. partial \in R /\ last_bit \in R
  <2> HIDE DEF B, r
  <2> QED BY <1>1
<1>5. bulk \in Seq(R) /\ Len(bulk) = B /\ \A i \in 1 .. B : bulk[i] = [j \in 0 .. 7 |-> 8 * (i - 1) + j]
  <2> HIDE DEF B
  <2>1. \A i \in 1 .. B : [j \in 0 .. 7 |-> 8 * (i - 1) + j] \in R
    BY <1>1
  <2> HIDE DEF R
  <2> QED BY <1>1, <2>1
<1>6. end \in Seq(R) /\ Len(end) = 1 /\ end[1] = last_bit
  <2> HIDE DEF R, last_bit
  <2> QED BY <1>4
<1>7. mid \in Seq(R) /\ Len(mid) = (IF r > 0 THEN 1 ELSE 0) /\ (r > 0 => mid[1] = partial)
  <2> HIDE DEF R, partial, r
  <2> QED BY <1>4
<1> HIDE DEF bulk, mid, end, R, n
<1>8. /\ Len(raw) = n /\ SubSeq(<<>> \o raw, 1, n) = raw
      /\ \A i \in 1 .. B : raw[i] = [j \in 0 .. 7 |-> 8 * (i - 1) + j]
      /\ r > 0 => raw[B + 1] = partial
      /\ raw[n] = last_bit
  <2> HIDE DEF B, r, partial, last_bit
  <2>1. /\ Len(raw) = Len(bulk) + Len(mid) + Len(end)
        /\ \A i \in 1 .. Len(bulk) : raw[i] = bulk[i]
        /\ \A i \in 1 .. Len(mid) : raw[Len(bulk) + i] = mid[i]
        /\ \A i \in 1 .. Len(end) : raw[Len(bulk) + Len(mid) + i] = end[i]
        /\ SubSeq(<<>> \o raw, 1, Len(bulk) + Len(mid) + Len(end)) = raw
    <3>1. bulk \in Seq(R) /\ mid \in Seq(R) /\ end \in Seq(R)
      BY <1>5, <1>6, <1>7
    <3> QED BY ONLY <3>1, ThreeParts
  <2> HIDE DEF raw
  <2>2. n = Len(bulk) + Len(mid) + Len(end)
    BY <1>1, <1>2, <1>5, <1>6, <1>7
  <2>3. raw[n] = last_bit
    BY <2>1, <2>2, <1>6
  <2>4. r > 0 => raw[B + 1] = partial
    BY <2>1, <1>5, <1>7
  <2> QED BY <2>1, <2>2, <2>3, <2>4, <1>5
<1> HIDE DEF raw
<1>9. Reassemble(bits, raw) = [k \in 0 .. bits - 1 |-> k]
  <2> DEFINE bit(k) == CASE k < 8 * B -> raw[k \div 8 + 1][k % 8]
                         [] k >= 8 * B /\ k < bits - 1 -> raw[B + 1][(k % 8) + (8 - r)]
                         [] k = bits - 1 -> raw[n][7]
  <2>1. Reassemble(bits, raw) = [k \in 0 .. bits - 1 |-> bit(k)]
    BY DEF Reassemble, n
  <2> HIDE DEF B, r
  <2>2. ASSUME NEW k \in 0 .. bits - 1 PROVE bit(k) = k
    <3>1. CASE k < 8 * B
      <4>1. k \div 8 + 1 \in 1 .. B /\ k % 8 \in 0 .. 7 /\ 8 * (k \div 8) + (k % 8) = k
            /\ (k \div 8 + 1) - 1 = k \div 8
        BY <1>1, <3>1
      <4>2. raw[k \div 8 + 1][k % 8] = 8 * ((k \div 8 + 1) - 1) + (k % 8)
        <5> DEFINE i == k \div 8 + 1
                   j == k % 8
        <5>1. i \in 1 .. B /\ j \in 0 .. 7
          BY <4>1
        <5> HIDE DEF i, j
        <5>2. raw[i] = [h \in 0 .. 7 |-> 8 * (i - 1) + h]
          BY <5>1, <1>8
        <5>3. raw[i][j] = 8 * (i - 1) + j
          BY <5>1, <5>2
        <5> QED BY <5>3 DEF i, j
      <4>3. ~(k >= 8 * B) /\ k # bits - 1
        BY <1>1, <3>1
      <4> QED BY <3>1, <4>1, <4>2, <4>3
    <3>2. CASE k >= 8 * B /\ k < bits - 1
      <4> DEFINE j == (k % 8) + (8 - r)
      <4>1. k = 8 * B + (k % 8) /\ k % 8 < r /\ k % 8 \in 0 .. 7
        BY <1>1, <3>2
      <4>2. j \in 0 .. 7 /\ j >= 8 - r /\ r > 0 /\ 8 * B + j - (8 - r) = k
        BY <1>1, <4>1
      <4> HIDE DEF j
      <4>3. raw[B + 1][j] = k
        BY <4>2, <1>8
      <4>4. ~(k < 8 * B) /\ k # bits - 1
        BY <1>1, <3>2
      <4> QED BY <3>2, <4>3, <4>4 DEF j
    <3>3. CASE k = bits - 1
      <4>1. raw[n][7] = k
        BY <1>8, <3>3
      <4>2. ~(k < 8 * B) /\ ~(k < bits - 1)
        BY <1>1, <3>3
      <4> QED BY <3>3, <4>1, <4>2
    <3> QED BY <1>1, <3>1, <3>2, <3>3
  <2> HIDE DEF bit
  <2> QED BY <2>1, <2>2
<1>10. Repeat(late, [j \in 0 .. 7 |-> -1]) = <<>>
  BY DEF Repeat
<1> QED BY <1>3, <1>8, <1>9, <1>10 DEF OwnTdo, n

\* While no transfer has failed since open(), nothing is late.
TdoInv == InSync /\ (clean => late = 0) /\ TdoOwn

\* What an operation does to TdoInv, when it would return its own bits.
LEMMA TdoStep ==
  ASSUME TdoInv, NEW op, NEW n, NEW t \in Lists, NEW own \in BOOLEAN, late = 0 => own,
         Succeed(op, n, t, own) \/ Fail(op, t)
  PROVE  (clean => late = 0)' /\ TdoOwn'
<1>1. TypeOK
  BY DEF TdoInv, InSync
<1>2. CASE Succeed(op, n, t, own)
  BY <1>1, <1>2, SucceedFacts DEF TdoInv, TdoOwn
<1>3. CASE Fail(op, t)
  BY <1>1, <1>3, FailFacts DEF TdoInv, TdoOwn
<1> QED BY <1>2, <1>3

\* doShift() and shiftDRRepeat(): a scan that succeeds returns the bits of this
\* scan in their order, from every byte the adapter sends for it, as long as no
\* transfer has failed since the adapter was opened; a close and an open in
\* between restore this.
THEOREM TdoIsOwn == Spec => []TdoOwn
<1>1. Init => TdoInv
  <2>1. Init => InSync
    BY InitInSync
  <2>2. Init => (clean => late = 0) /\ TdoOwn
    <3>1. Failed("none").ok = FALSE
      BY DEF Failed
    <3> QED BY <3>1 DEF Init, TdoOwn
  <2> QED BY <2>1, <2>2 DEF TdoInv
<1>2. TdoInv /\ [Next]_vars => TdoInv'
  <2> SUFFICES ASSUME TdoInv, [Next]_vars PROVE TdoInv'
    OBVIOUS
  <2>1. InSync /\ InSync'
    BY InSyncStep DEF TdoInv
  <2>2. state \in TapStates /\ late \in 0 .. MaxLate
    BY <2>1 DEF InSync, TypeOK
  <2> SUFFICES (clean => late = 0)' /\ TdoOwn'
    BY <2>1 DEF TdoInv
  <2>3. ASSUME NEW op, Refuse(op) PROVE (clean => late = 0)' /\ TdoOwn'
    BY <2>3 DEF Refuse, Failed, TdoInv, TdoOwn
  <2>4. CASE Reset
    BY <2>4, ResetEnds, TdoStep DEF Reset
  <2>5. ASSUME NEW target \in Targets, GotoState(target) PROVE (clean => late = 0)' /\ TdoOwn'
    <3>1. GotoTransfers(state, target) \in Lists
      BY <2>2, GotoEnds, TargetsAssumption DEF Agrees
    <3> QED BY <2>5, <3>1, TdoStep DEF GotoState
  <2>6. ASSUME NEW cycles \in Cycles, ClkIdle(cycles) PROVE (clean => late = 0)' /\ TdoOwn'
    <3> DEFINE a == GotoTransfers(state, "RUN_TEST_IDLE")
               b == IdleTransfers(cycles)
    <3>1. a \in Lists /\ b \in Lists
      BY <2>2, GotoEnds, PathsAssumption, IdleEnds, ScansAssumption DEF Agrees
    <3> HIDE DEF a, b
    <3>2. a \o b \in Lists
      BY <2>2, <3>1, ListConcat
    <3> QED BY <2>6, <3>2, TdoStep DEF ClkIdle, a, b
  <2>7. ASSUME NEW bits \in Bits, ShiftIR(bits) PROVE (clean => late = 0)' /\ TdoOwn'
    <3>1. CASE bits <= 0 /\ Refuse("shiftIR")
      BY <2>3, <3>1
    <3>2. CASE bits > 0
      <4>1. bits \in Nat \ {0} /\ ~(bits <= 0)
        BY <3>2, ScansAssumption
      <4>2. ShiftTransfers("SHIFT_IR", "EXIT1_IR", bits, FALSE) \in Lists
        BY <2>2, <4>1, ShiftEnds DEF Agrees
      <4> QED BY <2>7, <4>1, <4>2, TdoStep DEF ShiftIR
    <3> QED BY <2>7, <3>1, <3>2 DEF ShiftIR
  <2>8. ASSUME NEW bits \in Bits, NEW read_back \in BOOLEAN, ShiftDR(bits, read_back)
        PROVE (clean => late = 0)' /\ TdoOwn'
    <3>1. CASE bits <= 0 /\ Refuse("shiftDR")
      BY <2>3, <3>1
    <3>2. CASE bits > 0
      <4> DEFINE own == read_back => OwnTdo(bits)
      <4>1. bits \in Nat \ {0} /\ ~(bits <= 0)
        BY <3>2, ScansAssumption
      <4>2. ShiftTransfers("SHIFT_DR", "EXIT1_DR", bits, read_back) \in Lists
        BY <2>2, <4>1, ShiftEnds DEF Agrees
      <4>3. own \in BOOLEAN /\ (late = 0 => own)
        BY <4>1, OwnWhenClean
      <4> HIDE DEF own
      <4> QED BY <2>8, <4>1, <4>2, <4>3, TdoStep DEF ShiftDR, own
    <3> QED BY <2>8, <3>1, <3>2 DEF ShiftDR
  <2>9. ASSUME NEW count \in Counts, NEW bits \in Bits, ShiftDRRepeat(count, bits)
        PROVE (clean => late = 0)' /\ TdoOwn'
    <3>1. CASE /\ count <= 0 \/ bits <= 0
               /\ last' = [Failed("nothing") EXCEPT !.ok = TRUE, !.own = TRUE]
               /\ UNCHANGED <<is_open, state, hw, late, sync, clean>>
      BY <3>1 DEF Failed, TdoInv, TdoOwn
    <3>2. CASE count > 0 /\ bits > 0
      <4>1. bits \in Nat \ {0} /\ count \in Nat \ {0} /\ ~(bits <= 0) /\ ~(count <= 0)
        BY <3>2, ScansAssumption
      <4>2. RepeatTransfers(count, bits) \in Lists
        BY <2>2, <4>1, RepeatEnds
      <4>3. OwnTdo(bits) \in BOOLEAN
        BY DEF OwnTdo
      <4>4. late = 0 => OwnTdo(bits)
        BY <4>1, OwnWhenClean
      <4> QED BY <2>9, <4>1, <4>2, <4>3, <4>4, TdoStep DEF ShiftDRRepeat
    <3> QED BY <2>9, <3>1, <3>2 DEF ShiftDRRepeat
  <2>10. CASE Open
    BY <2>10 DEF Open, InitMpsse, Failed, TdoOwn
  <2>11. CASE Close
    BY <2>11 DEF Close, Failed, TdoInv, TdoOwn
  <2>12. CASE OtherProcess
    BY <2>12 DEF OtherProcess, TdoInv, TdoOwn
  <2>13. CASE UNCHANGED vars
    BY <2>13 DEF vars, TdoInv, TdoOwn
  <2> QED
    BY <2>4, <2>5, <2>6, <2>7, <2>8, <2>9, <2>10, <2>11, <2>12, <2>13 DEF Next
<1>3. TdoInv => TdoOwn
  BY DEF TdoInv
<1> QED BY <1>1, <1>2, <1>3, PTL DEF Spec

---------------------------------------------------------------------------
(* The clocks of a scan                                                    *)

\* The clocks of a word taken in x, when it begins in s.
At(s, word, x) == {i \in 1 .. Len(word) : Course(s, word)[i] = x}
Clocks(s, word, x) == Cardinality(At(s, word, x))

\* They are finitely many.
LEMMA ClocksType ==
  ASSUME NEW s \in TapStates, NEW word \in Words, NEW x
  PROVE  Clocks(s, word, x) \in Nat /\ IsFiniteSet(At(s, word, x)) /\ Len(word) \in Nat
<1>1. Len(word) \in Nat
  BY DEF Words
<1>2. IsFiniteSet(1 .. Len(word))
  <2>1. 1 \in Int /\ Len(word) \in Int
    BY <1>1
  <2> QED BY <2>1, FS_Interval
<1>3. At(s, word, x) \in SUBSET (1 .. Len(word))
  BY DEF At
<1>4. IsFiniteSet(At(s, word, x))
  BY <1>2, <1>3, FS_Subset
<1> QED BY <1>1, <1>4, FS_CardinalityType DEF Clocks

\* One word after the other: their clocks add up.
LEMMA ClocksConcat ==
  ASSUME NEW s \in TapStates, NEW u \in Words, NEW v \in Words, NEW x
  PROVE  Clocks(s, u \o v, x) = Clocks(s, u, x) + Clocks(After(s, u), v, x)
<1> DEFINE m == After(s, u)
           A == At(s, u, x)
           B == At(m, v, x)
           shift == [i \in B |-> Len(u) + i]
           C == {Len(u) + i : i \in B}
<1>1. m \in TapStates
  BY AfterFacts
<1>2. /\ u \o v \in Words /\ Len(u \o v) = Len(u) + Len(v)
      /\ \A i \in 1 .. Len(u) + 1 : Course(s, u \o v)[i] = Course(s, u)[i]
      /\ \A i \in 1 .. Len(v) + 1 : Course(s, u \o v)[Len(u) + i] = Course(m, v)[i]
  BY CourseConcat
<1> HIDE DEF m
<1>3. /\ IsFiniteSet(A) /\ IsFiniteSet(B) /\ Len(u) \in Nat /\ Len(v) \in Nat
      /\ Cardinality(A) \in Nat /\ Cardinality(B) \in Nat
  BY <1>1, ClocksType DEF Clocks
<1>4. IsFiniteSet(C) /\ Cardinality(C) = Cardinality(B)
  <2>1. \A i \in B : i \in Int
    BY <1>3 DEF At
  <2> HIDE DEF B
  <2>2. shift \in [B -> C] /\ \A i \in B : shift[i] = Len(u) + i
    OBVIOUS
  <2>3. \A i, j \in B : shift[i] = shift[j] => i = j
    BY <2>1, <2>2, <1>3
  <2>4. \A c \in C : \E i \in B : shift[i] = c
    BY <2>2
  <2> HIDE DEF shift, C
  <2>5. shift \in Bijection(B, C)
    BY <2>2, <2>3, <2>4, Fun_IsBij
  <2>6. ExistsBijection(B, C)
    BY <2>5 DEF ExistsBijection
  <2> QED BY <2>6, <1>3, FS_Bijection
<1>5. At(s, u \o v, x) = A \cup C
  <2> DEFINE w == u \o v
             k == Course(s, w)
  <2> HIDE DEF w
  <2>1. At(s, w, x) = {i \in 1 .. Len(u) + Len(v) : k[i] = x}
    BY <1>2 DEF At, w
  <2>2. /\ \A i \in 1 .. Len(u) + 1 : k[i] = Course(s, u)[i]
        /\ \A i \in 1 .. Len(v) + 1 : k[Len(u) + i] = Course(m, v)[i]
    BY <1>2 DEF w
  <2> HIDE DEF k
  <2>3. ASSUME NEW i \in 1 .. Len(u) + Len(v), k[i] = x PROVE i \in A \cup C
    <3>1. CASE i <= Len(u)
      <4>1. i \in 1 .. Len(u) /\ i \in 1 .. Len(u) + 1
        BY <1>3, <3>1
      <4>2. Course(s, u)[i] = x
        BY <4>1, <2>2, <2>3
      <4> QED BY <4>1, <4>2 DEF At
    <3>2. CASE i > Len(u)
      <4> DEFINE j == i - Len(u)
      <4>1. j \in 1 .. Len(v) /\ j \in 1 .. Len(v) + 1 /\ i = Len(u) + j
        BY <1>3, <3>2
      <4> HIDE DEF j
      <4>2. Course(m, v)[j] = x
        BY <4>1, <2>2, <2>3
      <4>3. j \in B
        BY <4>1, <4>2 DEF At
      <4> HIDE DEF B
      <4> QED BY <4>1, <4>3
    <3> QED BY <3>1, <3>2, <1>3
  <2>4. ASSUME NEW i \in A PROVE i \in 1 .. Len(u) + Len(v) /\ k[i] = x
    <3>1. i \in 1 .. Len(u) /\ Course(s, u)[i] = x
      BY DEF At
    <3>2. i \in 1 .. Len(u) + 1 /\ i \in 1 .. Len(u) + Len(v)
      BY <3>1, <1>3
    <3> QED BY <3>1, <3>2, <2>2
  <2>5. ASSUME NEW c \in C PROVE c \in 1 .. Len(u) + Len(v) /\ k[c] = x
    <3>1. PICK j \in B : c = Len(u) + j
      <4> HIDE DEF B
      <4> QED OBVIOUS
    <3>2. j \in 1 .. Len(v) /\ Course(m, v)[j] = x
      BY DEF At
    <3>3. j \in 1 .. Len(v) + 1 /\ c \in 1 .. Len(u) + Len(v)
      BY <3>1, <3>2, <1>3
    <3> QED BY <3>1, <3>2, <3>3, <2>2
  <2> HIDE DEF A, B, C
  <2>6. At(s, w, x) = A \cup C
    BY <2>1, <2>3, <2>4, <2>5
  <2> QED BY <2>6 DEF w
<1>6. A \cap C = {}
  <2>1. ASSUME NEW i \in A PROVE i \in 1 .. Len(u)
    BY DEF At
  <2>2. ASSUME NEW c \in C PROVE \E j \in 1 .. Len(v) : c = Len(u) + j
    BY DEF At
  <2> HIDE DEF A, C
  <2>3. \A c \in C : c \notin 1 .. Len(u)
    BY <2>2, <1>3
  <2> QED BY <2>1, <2>3
<1> HIDE DEF A, B, C
<1>7. Cardinality(A \cup C) = Cardinality(A) + Cardinality(B)
  <2>1. Cardinality(A \cup C) = Cardinality(A) + Cardinality(C) - Cardinality(A \cap C)
    BY <1>3, <1>4, FS_Union
  <2>2. Cardinality(A \cap C) = 0
    BY <1>6, FS_EmptySet
  <2> QED BY <2>1, <2>2, <1>3, <1>4
<1> QED BY <1>5, <1>7 DEF Clocks, A, B, m

\* A word of which every clock is taken in one state.
LEMMA ClocksConst ==
  ASSUME NEW s \in TapStates, NEW word \in Words, NEW y, NEW x,
         At(s, word, y) = 1 .. Len(word)
  PROVE  Clocks(s, word, x) = IF x = y THEN Len(word) ELSE 0
<1>1. Len(word) \in Nat
  BY DEF Words
<1>2. CASE x = y
  <2>1. At(s, word, x) = 1 .. Len(word)
    BY <1>2 DEF At
  <2>2. Cardinality(1 .. Len(word)) = Len(word)
    <3> DEFINE n == Len(word)
    <3>1. n \in Nat
      BY <1>1
    <3> HIDE DEF n
    <3>2. 1 \in Int /\ n \in Int
      BY <3>1
    <3>3. Cardinality(1 .. n) = IF 1 > n THEN 0 ELSE n - 1 + 1
      BY <3>2, FS_Interval
    <3>4. (IF 1 > n THEN 0 ELSE n - 1 + 1) = n
      BY <3>1
    <3> QED BY <3>3, <3>4 DEF n
  <2> QED BY <1>2, <2>1, <2>2 DEF Clocks
<1>3. CASE x # y
  <2>1. At(s, word, x) = {}
    BY <1>3 DEF At
  <2> QED BY <1>3, <2>1, FS_EmptySet DEF Clocks
<1> QED BY <1>2, <1>3

\* One bit more.
LEMMA ClocksBit ==
  ASSUME NEW s \in TapStates, NEW word \in Words, NEW b \in {0, 1}, NEW x
  PROVE  /\ word \o <<b>> \in Words
         /\ Clocks(s, word \o <<b>>, x) = Clocks(s, word, x) + (IF x = After(s, word) THEN 1 ELSE 0)
<1> DEFINE v == <<b>>
           m == After(s, word)
<1>1. v \in Words /\ Len(v) = 1 /\ m \in TapStates
  BY AfterBit, AfterFacts
<1> HIDE DEF v, m
<1>2. Course(m, v)[1] = m
  BY <1>1, CourseFacts
<1>3. At(m, v, m) = 1 .. Len(v)
  BY <1>1, <1>2 DEF At
<1>4. Clocks(m, v, x) = IF x = m THEN 1 ELSE 0
  <2>1. Clocks(m, v, x) = IF x = m THEN Len(v) ELSE 0
    BY <1>1, <1>3, ClocksConst
  <2> QED BY <2>1, <1>1
<1>5. Clocks(s, word \o v, x) = Clocks(s, word, x) + Clocks(m, v, x)
  BY <1>1, ClocksConcat DEF m
<1>6. word \o v \in Words
  BY <1>1, CourseConcat
<1> QED BY <1>4, <1>5, <1>6 DEF v, m

\* No bit, no clocks.
LEMMA ClocksNone ==
  ASSUME NEW s \in TapStates, NEW x
  PROVE  <<>> \in Words /\ Clocks(s, <<>>, x) = 0
<1>1. <<>> \in Words /\ Len(<<>>) = 0
  BY DEF Words
<1>2. At(s, <<>>, x) = {}
  BY <1>1 DEF At
<1> QED BY <1>1, <1>2, FS_EmptySet DEF Clocks

\* A clock taken in y, counted for x.
One(x, y) == IF x = y THEN 1 ELSE 0

\* Where a word leads, and how many of its clocks are taken in x.
Leads(s, word, to, x, n) == word \in Words /\ After(s, word) = to /\ Clocks(s, word, x) = n

\* The clock of a bit is taken in the state where the word has led.
LEMMA LeadsBit ==
  ASSUME NEW s \in TapStates, NEW b \in {0, 1}, NEW x \in Watched
  PROVE  /\ Leads(s, <<b>>, TapNext(s, b), x, One(x, s))
         /\ \A word, to, n : Leads(s, word, to, x, n)
              => Leads(s, word \o <<b>>, TapNext(to, b), x, n + One(x, to))
<1>1. ASSUME NEW word, NEW to, NEW n, Leads(s, word, to, x, n)
      PROVE  Leads(s, word \o <<b>>, TapNext(to, b), x, n + One(x, to))
  BY <1>1, AfterAppend, ClocksBit DEF Leads, One
<1>2. Leads(s, <<b>>, TapNext(s, b), x, One(x, s))
  <2> DEFINE v == <<b>>
  <2>1. v \in Words /\ Len(v) = 1 /\ After(s, v) = TapNext(s, b)
    BY AfterBit
  <2> HIDE DEF v
  <2>2. At(s, v, s) = 1 .. Len(v)
    BY <2>1, CourseFacts DEF At
  <2>3. Clocks(s, v, x) = IF x = s THEN Len(v) ELSE 0
    BY <2>1, <2>2, ClocksConst
  <2> QED BY <2>1, <2>3 DEF Leads, One, v
<1> QED BY <1>1, <1>2

\* The words the search finds for a scan, put together bit by bit.
LEMMA FewBits ==
  /\ <<1>> \o <<0>> = <<1, 0>>
  /\ <<1>> \o <<0>> \o <<0>> = <<1, 0, 0>>
  /\ <<1>> \o <<1>> \o <<0>> \o <<0>> = <<1, 1, 0, 0>>
<1> DEFINE u == <<1>>  z == <<0>>  a == u \o z  b == u \o u  c == a \o z  d == b \o z  e == d \o z
           f == <<1, 0>>  g == <<1, 0, 0>>  h == <<1, 1, 0, 0>>
<1>1. u \in Words /\ Len(u) = 1 /\ u[1] = 1 /\ z \in Words /\ Len(z) = 1 /\ z[1] = 0
  BY DEF Words
<1>2. f \in Words /\ Len(f) = 2 /\ f[1] = 1 /\ f[2] = 0
  BY DEF Words
<1>3. g \in Words /\ Len(g) = 3 /\ g[1] = 1 /\ g[2] = 0 /\ g[3] = 0
  BY DEF Words
<1>4. h \in Words /\ Len(h) = 4 /\ h[1] = 1 /\ h[2] = 1 /\ h[3] = 0 /\ h[4] = 0
  BY DEF Words
<1> HIDE DEF u, z, f, g, h
<1>5. a \in Words /\ Len(a) = 2 /\ a[1] = 1 /\ a[2] = 0
  <2>1. /\ a \in Words /\ Len(a) = Len(u) + Len(z)
        /\ \A i \in 1 .. Len(u) : a[i] = u[i]
        /\ \A i \in 1 .. Len(z) : a[Len(u) + i] = z[i]
    BY <1>1, TwoWords
  <2> HIDE DEF a
  <2> QED BY <1>1, <2>1
<1>6. b \in Words /\ Len(b) = 2 /\ b[1] = 1 /\ b[2] = 1
  <2>1. /\ b \in Words /\ Len(b) = Len(u) + Len(u)
        /\ \A i \in 1 .. Len(u) : b[i] = u[i]
        /\ \A i \in 1 .. Len(u) : b[Len(u) + i] = u[i]
    BY <1>1, TwoWords
  <2> HIDE DEF b
  <2> QED BY <1>1, <2>1
<1> HIDE DEF a, b
<1>7. c \in Words /\ Len(c) = 3 /\ c[1] = 1 /\ c[2] = 0 /\ c[3] = 0
  <2>1. /\ c \in Words /\ Len(c) = Len(a) + Len(z)
        /\ \A i \in 1 .. Len(a) : c[i] = a[i]
        /\ \A i \in 1 .. Len(z) : c[Len(a) + i] = z[i]
    BY <1>1, <1>5, TwoWords
  <2> HIDE DEF c
  <2> QED BY <1>1, <1>5, <2>1
<1>8. d \in Words /\ Len(d) = 3 /\ d[1] = 1 /\ d[2] = 1 /\ d[3] = 0
  <2>1. /\ d \in Words /\ Len(d) = Len(b) + Len(z)
        /\ \A i \in 1 .. Len(b) : d[i] = b[i]
        /\ \A i \in 1 .. Len(z) : d[Len(b) + i] = z[i]
    BY <1>1, <1>6, TwoWords
  <2> HIDE DEF d
  <2> QED BY <1>1, <1>6, <2>1
<1> HIDE DEF c, d
<1>9. e \in Words /\ Len(e) = 4 /\ e[1] = 1 /\ e[2] = 1 /\ e[3] = 0 /\ e[4] = 0
  <2>1. /\ e \in Words /\ Len(e) = Len(d) + Len(z)
        /\ \A i \in 1 .. Len(d) : e[i] = d[i]
        /\ \A i \in 1 .. Len(z) : e[Len(d) + i] = z[i]
    BY <1>1, <1>8, TwoWords
  <2> HIDE DEF e
  <2> QED BY <1>1, <1>8, <2>1
<1> HIDE DEF e
<1>10. a = f
  BY <1>2, <1>5, SameWord
<1>11. c = g
  BY <1>3, <1>7, SameWord
<1>12. e = h
  BY <1>4, <1>9, SameWord
<1> QED BY <1>10, <1>11, <1>12 DEF a, b, c, d, e, f, g, h, u, z

\* The words found for the way to a scan and back from it.
LEMMA WayClocks ==
  ASSUME NEW x \in Watched
  PROVE  /\ LET w == clockTms(TmsPaths["RUN_TEST_IDLE", "SHIFT_DR"])
            IN  w \in Words /\ After("RUN_TEST_IDLE", w) = "SHIFT_DR"
                /\ Clocks("RUN_TEST_IDLE", w, x) = One(x, "RUN_TEST_IDLE")
         /\ LET w == clockTms(TmsPaths["RUN_TEST_IDLE", "SHIFT_IR"])
            IN  w \in Words /\ After("RUN_TEST_IDLE", w) = "SHIFT_IR"
                /\ Clocks("RUN_TEST_IDLE", w, x) = One(x, "RUN_TEST_IDLE")
         /\ LET w == clockTms(TmsPaths["EXIT1_DR", "RUN_TEST_IDLE"])
            IN  w \in Words /\ After("EXIT1_DR", w) = "RUN_TEST_IDLE"
                /\ Clocks("EXIT1_DR", w, x) = One(x, "UPDATE_DR")
         /\ LET w == clockTms(TmsPaths["EXIT1_IR", "RUN_TEST_IDLE"])
            IN  w \in Words /\ After("EXIT1_IR", w) = "RUN_TEST_IDLE"
                /\ Clocks("EXIT1_IR", w, x) = One(x, "UPDATE_IR")
<1>1. /\ TapNext("RUN_TEST_IDLE", 1) = "SELECT_DR_SCAN" /\ TapNext("SELECT_DR_SCAN", 0) = "CAPTURE_DR"
      /\ TapNext("CAPTURE_DR", 0) = "SHIFT_DR"
      /\ TapNext("SELECT_DR_SCAN", 1) = "SELECT_IR_SCAN" /\ TapNext("SELECT_IR_SCAN", 0) = "CAPTURE_IR"
      /\ TapNext("CAPTURE_IR", 0) = "SHIFT_IR"
      /\ TapNext("EXIT1_DR", 1) = "UPDATE_DR" /\ TapNext("UPDATE_DR", 0) = "RUN_TEST_IDLE"
      /\ TapNext("EXIT1_IR", 1) = "UPDATE_IR" /\ TapNext("UPDATE_IR", 0) = "RUN_TEST_IDLE"
  BY DEF TapNext, kTapTransitions
<1>2. x \notin {"SELECT_DR_SCAN", "CAPTURE_DR", "SELECT_IR_SCAN", "CAPTURE_IR", "EXIT1_DR", "EXIT1_IR"}
  BY DEF Watched
<1>3. /\ clockTms(TmsPaths["RUN_TEST_IDLE", "SHIFT_DR"]) = <<1, 0, 0>>
      /\ clockTms(TmsPaths["RUN_TEST_IDLE", "SHIFT_IR"]) = <<1, 1, 0, 0>>
      /\ clockTms(TmsPaths["EXIT1_DR", "RUN_TEST_IDLE"]) = <<1, 0>>
      /\ clockTms(TmsPaths["EXIT1_IR", "RUN_TEST_IDLE"]) = <<1, 0>>
  <2>1. /\ Len(<<1, 0, 0>>) = 3 /\ Len(<<1, 1, 0, 0>>) = 4 /\ Len(<<1, 0>>) = 2
        /\ 2 \in 1 .. 7 /\ 3 \in 1 .. 7 /\ 4 \in 1 .. 7
    OBVIOUS
  <2>2. clockTms(<<1, 0, 0>>) = <<1, 0, 0>>
    BY <2>1 DEF clockTms
  <2>3. clockTms(<<1, 1, 0, 0>>) = <<1, 1, 0, 0>>
    BY <2>1 DEF clockTms
  <2>4. clockTms(<<1, 0>>) = <<1, 0>>
    BY <2>1 DEF clockTms
  <2> QED BY <2>2, <2>3, <2>4, ScanPathsAssumption
<1>4. Leads("RUN_TEST_IDLE", <<1, 0, 0>>, "SHIFT_DR", x, One(x, "RUN_TEST_IDLE") + One(x, "SELECT_DR_SCAN") + One(x, "CAPTURE_DR"))
  <2>1. Leads("RUN_TEST_IDLE", <<1>>, "SELECT_DR_SCAN", x, One(x, "RUN_TEST_IDLE"))
    BY <1>1, LeadsBit, Table, Zenon
  <2>2. Leads("RUN_TEST_IDLE", <<1>> \o <<0>>, "CAPTURE_DR", x, One(x, "RUN_TEST_IDLE") + One(x, "SELECT_DR_SCAN"))
    BY <2>1, <1>1, LeadsBit, Table, Zenon
  <2>3. Leads("RUN_TEST_IDLE", <<1>> \o <<0>> \o <<0>>, "SHIFT_DR", x, One(x, "RUN_TEST_IDLE") + One(x, "SELECT_DR_SCAN") + One(x, "CAPTURE_DR"))
    BY <2>2, <1>1, LeadsBit, Table, Zenon
  <2> QED BY <2>3, FewBits, Zenon
<1>5. Leads("RUN_TEST_IDLE", <<1, 1, 0, 0>>, "SHIFT_IR", x, One(x, "RUN_TEST_IDLE") + One(x, "SELECT_DR_SCAN") + One(x, "SELECT_IR_SCAN") + One(x, "CAPTURE_IR"))
  <2>1. Leads("RUN_TEST_IDLE", <<1>>, "SELECT_DR_SCAN", x, One(x, "RUN_TEST_IDLE"))
    BY <1>1, LeadsBit, Table, Zenon
  <2>2. Leads("RUN_TEST_IDLE", <<1>> \o <<1>>, "SELECT_IR_SCAN", x, One(x, "RUN_TEST_IDLE") + One(x, "SELECT_DR_SCAN"))
    BY <2>1, <1>1, LeadsBit, Table, Zenon
  <2>3. Leads("RUN_TEST_IDLE", <<1>> \o <<1>> \o <<0>>, "CAPTURE_IR", x, One(x, "RUN_TEST_IDLE") + One(x, "SELECT_DR_SCAN") + One(x, "SELECT_IR_SCAN"))
    BY <2>2, <1>1, LeadsBit, Table, Zenon
  <2>4. Leads("RUN_TEST_IDLE", <<1>> \o <<1>> \o <<0>> \o <<0>>, "SHIFT_IR", x, One(x, "RUN_TEST_IDLE") + One(x, "SELECT_DR_SCAN") + One(x, "SELECT_IR_SCAN") + One(x, "CAPTURE_IR"))
    BY <2>3, <1>1, LeadsBit, Table, Zenon
  <2> QED BY <2>4, FewBits, Zenon
<1>6. Leads("EXIT1_DR", <<1, 0>>, "RUN_TEST_IDLE", x, One(x, "EXIT1_DR") + One(x, "UPDATE_DR"))
  <2>1. Leads("EXIT1_DR", <<1>>, "UPDATE_DR", x, One(x, "EXIT1_DR"))
    BY <1>1, LeadsBit, Table, Zenon
  <2>2. Leads("EXIT1_DR", <<1>> \o <<0>>, "RUN_TEST_IDLE", x, One(x, "EXIT1_DR") + One(x, "UPDATE_DR"))
    BY <2>1, <1>1, LeadsBit, Table, Zenon
  <2> QED BY <2>2, FewBits, Zenon
<1>9. Leads("EXIT1_IR", <<1, 0>>, "RUN_TEST_IDLE", x, One(x, "EXIT1_IR") + One(x, "UPDATE_IR"))
  <2>1. Leads("EXIT1_IR", <<1>>, "UPDATE_IR", x, One(x, "EXIT1_IR"))
    BY <1>1, LeadsBit, Table, Zenon
  <2>2. Leads("EXIT1_IR", <<1>> \o <<0>>, "RUN_TEST_IDLE", x, One(x, "EXIT1_IR") + One(x, "UPDATE_IR"))
    BY <2>1, <1>1, LeadsBit, Table, Zenon
  <2> QED BY <2>2, FewBits, Zenon
<1>7. /\ One(x, "SELECT_DR_SCAN") = 0 /\ One(x, "CAPTURE_DR") = 0 /\ One(x, "SELECT_IR_SCAN") = 0
      /\ One(x, "CAPTURE_IR") = 0 /\ One(x, "EXIT1_DR") = 0 /\ One(x, "EXIT1_IR") = 0
      /\ One(x, "RUN_TEST_IDLE") \in Nat /\ One(x, "UPDATE_DR") \in Nat /\ One(x, "UPDATE_IR") \in Nat
  BY <1>2 DEF One
<1> HIDE DEF One
<1>8. /\ Clocks("RUN_TEST_IDLE", <<1, 0, 0>>, x) = One(x, "RUN_TEST_IDLE")
      /\ Clocks("RUN_TEST_IDLE", <<1, 1, 0, 0>>, x) = One(x, "RUN_TEST_IDLE")
      /\ Clocks("EXIT1_DR", <<1, 0>>, x) = One(x, "UPDATE_DR")
      /\ Clocks("EXIT1_IR", <<1, 0>>, x) = One(x, "UPDATE_IR")
  BY <1>4, <1>5, <1>6, <1>9, <1>7 DEF Leads
<1> QED BY <1>3, <1>4, <1>5, <1>6, <1>8, <1>9, Zenon DEF Leads

\* A scan of DR or IR between one RUN_TEST_IDLE and the next.
ScanWord(shift, exit1, bits) ==
  clockTms(TmsPaths["RUN_TEST_IDLE", shift]) \o ShiftWord(bits) \o clockTms(TmsPaths[exit1, "RUN_TEST_IDLE"])

\* The state a scan shifts in, the one it leaves that by, and the one it takes
\* effect in.
ScanStates(shift, exit1, update) ==
  \/ shift = "SHIFT_DR" /\ exit1 = "EXIT1_DR" /\ update = "UPDATE_DR"
  \/ shift = "SHIFT_IR" /\ exit1 = "EXIT1_IR" /\ update = "UPDATE_IR"

\* The clocks of a scan of that many bits in x.
ScanCount(shift, update, bits, x) ==
  IF x = shift THEN bits ELSE IF x \in {"RUN_TEST_IDLE", update} THEN 1 ELSE 0

\* A scan of n bits takes n clocks in its shift state, one in its update state and one
\* in RUN_TEST_IDLE.
LEMMA ScanClocks ==
  ASSUME NEW shift, NEW exit1, NEW update, NEW bits \in Nat \ {0}, NEW x \in Watched,
         ScanStates(shift, exit1, update)
  PROVE  /\ ScanWord(shift, exit1, bits) \in Words
         /\ Len(ScanWord(shift, exit1, bits)) > 0
         /\ After("RUN_TEST_IDLE", ScanWord(shift, exit1, bits)) = "RUN_TEST_IDLE"
         /\ Clocks("RUN_TEST_IDLE", ScanWord(shift, exit1, bits), x)
              = ScanCount(shift, update, bits, x)
<1> DEFINE a == clockTms(TmsPaths["RUN_TEST_IDLE", shift])
           w == ShiftWord(bits)
           b == clockTms(TmsPaths[exit1, "RUN_TEST_IDLE"])
           aw == a \o w
           R == "RUN_TEST_IDLE"
<1>1. /\ shift \in TapStates /\ exit1 \in TapStates /\ R \in TapStates
      /\ TapNext(shift, 0) = shift /\ TapNext(shift, 1) = exit1
      /\ a \in Words /\ After(R, a) = shift /\ Clocks(R, a, x) = One(x, R)
      /\ b \in Words /\ After(exit1, b) = R /\ Clocks(exit1, b, x) = One(x, update)
      /\ shift # R /\ update # R /\ shift # update
  <2>1. CASE shift = "SHIFT_DR" /\ exit1 = "EXIT1_DR" /\ update = "UPDATE_DR"
    BY <2>1, Table, WayClocks
  <2>2. CASE shift = "SHIFT_IR" /\ exit1 = "EXIT1_IR" /\ update = "UPDATE_IR"
    BY <2>2, Table, WayClocks
  <2> QED BY <2>1, <2>2 DEF ScanStates
<1> HIDE DEF a, b, R
<1>2. /\ w \in Words /\ Len(w) = bits /\ After(shift, w) = exit1
      /\ At(shift, w, shift) = 1 .. Len(w)
  <2>1. /\ w \in Words /\ Len(w) = bits /\ After(shift, w) = exit1
        /\ \A i \in 1 .. bits : Course(shift, w)[i] = shift
    BY <1>1, ShiftWordEnds
  <2> HIDE DEF w
  <2> QED BY <2>1 DEF At
<1> HIDE DEF w
<1>3. Clocks(shift, w, x) = IF x = shift THEN bits ELSE 0
  BY <1>1, <1>2, ClocksConst
<1>4. /\ aw \in Words /\ Len(aw) = Len(a) + bits /\ After(R, aw) = exit1
      /\ Clocks(R, aw, x) = Clocks(R, a, x) + Clocks(shift, w, x)
  <2>0. R \in TapStates /\ a \in Words /\ w \in Words
    BY <1>1, <1>2
  <2>1. aw \in Words /\ Len(aw) = Len(a) + Len(w) /\ After(R, aw) = After(After(R, a), w)
    BY ONLY <2>0, CourseConcat
  <2>2. Clocks(R, aw, x) = Clocks(R, a, x) + Clocks(After(R, a), w, x)
    BY ONLY <2>0, ClocksConcat
  <2> HIDE DEF aw
  <2> QED BY <1>1, <1>2, <2>1, <2>2
<1> HIDE DEF aw
<1> DEFINE s == aw \o b
<1>5. /\ s \in Words /\ Len(s) = Len(aw) + Len(b) /\ After(R, s) = R
      /\ Clocks(R, s, x) = Clocks(R, aw, x) + Clocks(exit1, b, x)
  <2>0. R \in TapStates /\ aw \in Words /\ b \in Words
    BY <1>1, <1>4
  <2>1. s \in Words /\ Len(s) = Len(aw) + Len(b) /\ After(R, s) = After(After(R, aw), b)
    BY ONLY <2>0, CourseConcat
  <2>2. Clocks(R, s, x) = Clocks(R, aw, x) + Clocks(After(R, aw), b, x)
    BY ONLY <2>0, ClocksConcat
  <2> HIDE DEF s
  <2> QED BY <1>1, <1>4, <2>1, <2>2
<1> HIDE DEF s
<1>6. Len(a) \in Nat /\ Len(b) \in Nat
  BY <1>1, ClocksType
<1>7. Clocks(R, s, x) = IF x = shift THEN bits ELSE IF x \in {R, update} THEN 1 ELSE 0
  <2>1. Clocks(R, s, x) = One(x, R) + (IF x = shift THEN bits ELSE 0) + One(x, update)
    BY <1>1, <1>3, <1>4, <1>5
  <2>2. /\ (x = R => One(x, R) = 1) /\ (x # R => One(x, R) = 0)
        /\ (x = update => One(x, update) = 1) /\ (x # update => One(x, update) = 0)
    BY DEF One
  <2> QED BY <2>1, <2>2, <1>1
<1>8. ScanWord(shift, exit1, bits) = s
  BY DEF ScanWord, s, aw, a, w, b
<1>9. Len(s) > 0
  BY <1>4, <1>5, <1>6
<1> QED BY <1>5, <1>7, <1>8, <1>9 DEF R, ScanCount

\* Its clocks are those of the word, n times.
LEMMA TimesClocks ==
  ASSUME NEW s \in TapStates, NEW scan \in Words, Len(scan) > 0, After(s, scan) = s,
         NEW x, NEW c \in Nat, Clocks(s, scan, x) = c, NEW n \in Nat
  PROVE  Clocks(s, Times(scan, n), x) = n * c
<1> DEFINE w == [m \in Nat |-> Times(scan, m)]
           S == {m \in Nat : Clocks(s, w[m], x) = m * c}
<1>1. \A m \in Nat : w[m] = Times(scan, m) /\ w[m + 1] = Times(scan, m + 1)
  OBVIOUS
<1> HIDE DEF w
<1>2. \A m \in Nat : w[m] \in Words /\ w[m + 1] = w[m] \o scan /\ After(s, w[m]) = s
  <2>1. ASSUME NEW m \in Nat
        PROVE  /\ Times(scan, m) \in Words /\ Times(scan, m + 1) = Times(scan, m) \o scan
               /\ After(s, Times(scan, m)) = s
    BY TimesEnds, TimesNext
  <2> QED BY <2>1, <1>1
<1>3. w[0] = <<>>
  <2>1. 0 \in Nat /\ 0 * Len(scan) = 0
    BY DEF Words
  <2>2. Times(scan, 0) \in Words /\ Len(Times(scan, 0)) = 0 * Len(scan)
    BY <2>1, TimesFacts
  <2>3. w[0] \in Words /\ Len(w[0]) = 0
    BY <2>1, <2>2, <1>1
  <2> QED BY <2>3 DEF Words
<1>4. 0 \in S
  BY <1>3, ClocksNone
<1>5. ASSUME NEW m \in Nat, m \in S PROVE m + 1 \in S
  <2> DEFINE u == w[m]
  <2>1. u \in Words /\ w[m + 1] = u \o scan /\ After(s, u) = s /\ Clocks(s, u, x) = m * c
    BY <1>2, <1>5
  <2> HIDE DEF u
  <2>2. Clocks(s, u \o scan, x) = Clocks(s, u, x) + Clocks(After(s, u), scan, x)
    BY <2>1, ClocksConcat
  <2>3. m * c + c = (m + 1) * c
    BY SMT
  <2>4. Clocks(s, w[m + 1], x) = (m + 1) * c
    BY <2>1, <2>2, <2>3, Zenon
  <2> QED BY <2>4
<1>6. n \in S
  <2> HIDE DEF S
  <2> QED BY <1>4, <1>5, NatSetInduction
<1> QED BY <1>1, <1>6

\* Transfers that all lead from s back to s: their clocks add up.
LEMMA ListClocks ==
  ASSUME NEW s \in TapStates, NEW t \in Lists, NEW x, NEW f,
         \A i \in 1 .. Len(t) : After(s, t[i].word) = s,
         f[0] = 0, \A i \in 1 .. Len(t) : f[i] = f[i - 1] + Clocks(s, t[i].word, x)
  PROVE  Clocks(s, Whole(t), x) = f[Len(t)]
<1> DEFINE c == Clocked(t)
           U == {n \in Nat : n <= Len(t) => Clocks(s, c[n], x) = f[n]}
<1>1. Len(t) \in Nat /\ \A i \in 1 .. Len(t) : t[i].word \in Words
  <2>1. Len(t) \in Nat /\ \A i \in 1 .. Len(t) : t[i] \in Transfers
    BY DEF Lists
  <2> QED BY <2>1 DEF Transfers
<1>2. /\ c[0] = <<>> /\ \A n \in 1 .. Len(t) : c[n] = c[n - 1] \o t[n].word
      /\ \A n \in 0 .. Len(t) : c[n] \in Words
      /\ \A n \in 0 .. Len(t) : After(s, c[n]) = s
  BY ClockedFacts, ListStays
<1> HIDE DEF c
<1>3. 0 \in U
  BY <1>2, ClocksNone
<1>4. ASSUME NEW n \in Nat, n \in U PROVE n + 1 \in U
  <2>1. SUFFICES ASSUME n + 1 <= Len(t) PROVE Clocks(s, c[n + 1], x) = f[n + 1]
    OBVIOUS
  <2>2. n + 1 \in 1 .. Len(t) /\ (n + 1) - 1 = n /\ n \in 0 .. Len(t) /\ Clocks(s, c[n], x) = f[n]
    BY <1>1, <1>4, <2>1
  <2> DEFINE v == t[n + 1].word
  <2>3. c[n + 1] = c[n] \o v /\ c[n] \in Words /\ v \in Words /\ After(s, c[n]) = s
    BY <2>2, <1>1, <1>2
  <2>4. f[n + 1] = f[n] + Clocks(s, v, x)
    BY <2>2
  <2> HIDE DEF v
  <2>5. Clocks(s, c[n] \o v, x) = Clocks(s, c[n], x) + Clocks(After(s, c[n]), v, x)
    BY <2>3, ClocksConcat
  <2> QED BY <2>2, <2>3, <2>4, <2>5
<1>5. Len(t) \in U
  <2> HIDE DEF U
  <2> QED BY <1>1, <1>3, <1>4, NatSetInduction
<1> QED BY <1>1, <1>5 DEF Whole, c

\* clkIdle() spends its clocks in RUN_TEST_IDLE, whatever portions they come in.
LEMMA IdleClocks ==
  ASSUME NEW cycles \in Int
  PROVE  Clocks("RUN_TEST_IDLE", Whole(IdleTransfers(cycles)), "RUN_TEST_IDLE")
           = IF cycles > 0 THEN cycles ELSE 0
<1> DEFINE R == "RUN_TEST_IDLE"
           t == IdleTransfers(cycles)
           n == IF cycles <= 0 THEN 0 ELSE (cycles + 6) \div 7
           part(i) == IF cycles - 7 * (i - 1) > 7 THEN 7 ELSE cycles - 7 * (i - 1)
           sum(i) == IF cycles <= 0 THEN 0 ELSE IF 7 * i < cycles THEN 7 * i ELSE cycles
           f == [i \in 0 .. n |-> sum(i)]
<1>1. n \in Nat /\ (\A i \in 1 .. n : part(i) \in 1 .. 7)
  OBVIOUS
<1>2. sum(0) = 0 /\ sum(n) = (IF cycles > 0 THEN cycles ELSE 0)
  OBVIOUS
<1>3. \A i \in 1 .. n : sum(i) = sum(i - 1) + part(i)
  OBVIOUS
<1>4. t \in Lists
  BY IdleEnds DEF Agrees
<1>5. Len(t) = n /\ \A i \in 1 .. n : t[i].word = clockTms(Repeat(part(i), 0))
  <2> HIDE DEF n
  <2>1. t = [i \in 1 .. n |-> Transfer(clockTms(Repeat(part(i), 0)), 0, "RUN_TEST_IDLE")]
    BY DEF IdleTransfers, n
  <2> HIDE DEF t, part
  <2>2. Len(t) = n /\ \A i \in 1 .. n : t[i] = Transfer(clockTms(Repeat(part(i), 0)), 0, "RUN_TEST_IDLE")
    BY <2>1, <1>1, <1>4 DEF Lists
  <2> QED BY <2>2 DEF Transfer
<1> HIDE DEF t
<1>6. ASSUME NEW i \in 1 .. n
      PROVE  After(R, t[i].word) = R /\ Clocks(R, t[i].word, R) = part(i)
  <2> DEFINE p == part(i)
  <2>1. p \in 1 .. 7 /\ p \in Nat
    BY <1>1
  <2>2. t[i].word = clockTms(Repeat(p, 0))
    BY <1>5
  <2> HIDE DEF p
  <2> DEFINE w == Repeat(p, 0)
  <2>3. w \in Words /\ Len(w) = p /\ After(R, w) = R /\ \A k \in 1 .. p + 1 : Course(R, w)[k] = R
    BY <2>1, Table, AfterZeros
  <2> HIDE DEF w
  <2>4. At(R, w, R) = 1 .. Len(w)
    BY <2>1, <2>3 DEF At
  <2>5. Clocks(R, w, R) = Len(w)
    BY <2>3, <2>4, Table, ClocksConst
  <2>6. clockTms(w) = w
    BY <2>1, <2>3 DEF clockTms
  <2> QED BY <2>2, <2>3, <2>5, <2>6 DEF w, p
<1>7. f[0] = 0 /\ f[n] = (IF cycles > 0 THEN cycles ELSE 0)
      /\ \A i \in 1 .. n : f[i] = f[i - 1] + part(i)
  <2> HIDE DEF n, sum, part
  <2>1. 0 \in 0 .. n /\ n \in 0 .. n /\ \A i \in 1 .. n : i \in 0 .. n /\ i - 1 \in 0 .. n
    BY <1>1
  <2>2. \A i \in 0 .. n : f[i] = sum(i)
    OBVIOUS
  <2> HIDE DEF f
  <2> QED BY <1>2, <1>3, <2>1, <2>2
<1> HIDE DEF f, part, n
<1>8. /\ \A i \in 1 .. Len(t) : After(R, t[i].word) = R
      /\ \A i \in 1 .. Len(t) : f[i] = f[i - 1] + Clocks(R, t[i].word, R)
  BY <1>5, <1>6, <1>7
<1>9. Clocks(R, Whole(t), R) = f[Len(t)]
  <2>1. R \in TapStates
    BY Table
  <2> HIDE DEF R
  <2> QED BY <2>1, <1>4, <1>7, <1>8, ListClocks
<1> QED BY <1>5, <1>7, <1>9 DEF t

\* shiftDRRepeat(): as many scans as asked for, whatever chunks they come in.
LEMMA RepeatClocks ==
  ASSUME state \in TapStates, NEW count \in Nat \ {0}, NEW bits \in Nat \ {0}, NEW x \in Watched
  PROVE  Clocks("RUN_TEST_IDLE", Whole(RepeatTransfers(count, bits)), x)
           = count * ScanCount("SHIFT_DR", "UPDATE_DR", bits, x)
<1> DEFINE R == "RUN_TEST_IDLE"
           scan == ScanWord("SHIFT_DR", "EXIT1_DR", bits)
           chunks == (count + kChunk - 1) \div kChunk
           size(i) == IF i < chunks THEN kChunk ELSE count - kChunk * (chunks - 1)
           c == ScanCount("SHIFT_DR", "UPDATE_DR", bits, x)
           t == RepeatTransfers(count, bits)
           sum(i) == IF i < chunks THEN kChunk * i ELSE count
           f == [i \in 0 .. chunks |-> sum(i) * c]
<1>1. /\ scan \in Words /\ Len(scan) > 0 /\ After(R, scan) = R /\ Clocks(R, scan, x) = c
      /\ c \in Nat /\ R \in TapStates
  <2>1. ScanStates("SHIFT_DR", "EXIT1_DR", "UPDATE_DR")
    BY DEF ScanStates
  <2>2. /\ scan \in Words /\ Len(scan) > 0 /\ After(R, scan) = R /\ Clocks(R, scan, x) = c
    BY <2>1, ScanClocks
  <2>3. c \in Nat
    BY DEF ScanCount
  <2> QED BY <2>2, <2>3, Table
<1>2. chunks \in Nat \ {0} /\ kChunk \in Nat /\ count - kChunk * (chunks - 1) \in Nat
  BY ChunkCount
<1>3. t \in Lists
  BY RepeatEnds
<1>4. Len(t) = chunks /\ \A i \in 1 .. chunks : t[i].word = Times(scan, size(i))
  <2> DEFINE to(i) == IF i = chunks THEN "RUN_TEST_IDLE" ELSE state
             r(i) == [word |-> Times(scan, size(i)), bytes |-> size(i) * ReadBytes(bits), to |-> to(i)]
  <2>1. t = [i \in 1 .. chunks |-> r(i)]
    BY DEF RepeatTransfers, Transfer, Times, ScanWord
  <2>2. \A i \in 1 .. chunks : r(i).word = Times(scan, size(i))
    OBVIOUS
  <2> HIDE DEF t, r, chunks
  <2>3. Len(t) = chunks /\ \A i \in 1 .. chunks : t[i] = r(i)
    BY <2>1, <1>2, <1>3 DEF Lists
  <2> QED BY <2>2, <2>3
<1> HIDE DEF chunks, scan, t, c
<1>5. \A i \in 1 .. chunks : size(i) \in Nat
  BY <1>2
<1>6. ASSUME NEW i \in 1 .. chunks
      PROVE  After(R, t[i].word) = R /\ Clocks(R, t[i].word, x) = size(i) * c
  <2>1. size(i) \in Nat /\ t[i].word = Times(scan, size(i))
    BY <1>4, <1>5
  <2> HIDE DEF size, R
  <2> QED BY <2>1, <1>1, TimesEnds, TimesClocks
<1>7. sum(0) = 0 /\ sum(chunks) = count /\ \A i \in 0 .. chunks : sum(i) \in Nat
  <2>1. kChunk * 0 = 0 /\ \A i \in 0 .. chunks : kChunk * i \in Nat
    BY <1>2, SMT
  <2> QED BY <2>1, <1>2
<1>8. ASSUME NEW i \in 1 .. chunks PROVE sum(i) = sum(i - 1) + size(i)
  <2>1. i - 1 < chunks /\ sum(i - 1) = kChunk * (i - 1)
    BY <1>2
  <2>2. CASE i < chunks
    <3>1. kChunk * i = kChunk * (i - 1) + kChunk
      BY <1>2, SMT
    <3> QED BY <3>1, <2>1, <2>2
  <2>3. CASE ~(i < chunks)
    <3>1. i = chunks
      BY <1>2, <2>3
    <3> DEFINE z == kChunk * (chunks - 1)
    <3>2. z \in Int
      BY <1>2, SMT
    <3>3. sum(i - 1) = z /\ sum(i) = count /\ size(i) = count - z
      BY <2>1, <3>1
    <3> HIDE DEF z, sum, size
    <3> QED BY <3>2, <3>3
  <2> QED BY <2>2, <2>3
<1>9. /\ f[0] = 0 /\ f[chunks] = count * c
      /\ \A i \in 1 .. chunks : f[i] = f[i - 1] + size(i) * c
  <2> HIDE DEF sum, size
  <2>1. 0 \in 0 .. chunks /\ chunks \in 0 .. chunks /\ \A i \in 1 .. chunks : i \in 0 .. chunks /\ i - 1 \in 0 .. chunks
    BY <1>2
  <2>2. \A i \in 0 .. chunks : f[i] = sum(i) * c
    OBVIOUS
  <2> HIDE DEF f
  <2>3. \A a, b \in Nat : (a + b) * c = a * c + b * c
    BY <1>1, SMT
  <2>4. 0 * c = 0
    BY <1>1, SMT
  <2>5. \A i \in 1 .. chunks : f[i] = f[i - 1] + size(i) * c
    <3>1. ASSUME NEW i \in 1 .. chunks PROVE f[i] = f[i - 1] + size(i) * c
      <4>1. sum(i) = sum(i - 1) + size(i) /\ sum(i - 1) \in Nat /\ size(i) \in Nat
        BY <1>5, <1>7, <1>8, <2>1
      <4>2. (sum(i - 1) + size(i)) * c = sum(i - 1) * c + size(i) * c
        BY <4>1, <2>3
      <4>3. f[i] = sum(i) * c /\ f[i - 1] = sum(i - 1) * c
        BY <2>1, <2>2
      <4> QED BY <4>1, <4>2, <4>3
    <3> QED BY <3>1
  <2> QED BY <1>7, <2>1, <2>2, <2>4, <2>5
<1> HIDE DEF f, sum, size
<1>10. Clocks(R, Whole(t), x) = f[Len(t)]
  <2>1. /\ \A i \in 1 .. Len(t) : After(R, t[i].word) = R
        /\ \A i \in 1 .. Len(t) : f[i] = f[i - 1] + Clocks(R, t[i].word, x)
    BY <1>4, <1>6, <1>9
  <2> HIDE DEF R
  <2> QED BY <2>1, <1>1, <1>3, <1>9, ListClocks
<1> QED BY <1>4, <1>9, <1>10 DEF t, c

\* shiftIR() and shiftDR() from RUN_TEST_IDLE.
LEMMA ShiftClocks ==
  ASSUME state = "RUN_TEST_IDLE", NEW shift, NEW exit1, NEW update, NEW bits \in Nat \ {0},
         NEW read_back, NEW x \in Watched,
         ScanStates(shift, exit1, update)
  PROVE  Clocks("RUN_TEST_IDLE", Whole(ShiftTransfers(shift, exit1, bits, read_back)), x)
           = ScanCount(shift, update, bits, x)
<1> DEFINE R == "RUN_TEST_IDLE"
           a == GotoTransfers(R, shift)
           n == IF read_back THEN ReadBytes(bits) ELSE 0
           w == ShiftWord(bits)
           r == [word |-> w, bytes |-> n, to |-> exit1]
           b == <<r>>
           c == GotoTransfers(exit1, R)
           wa == clockTms(TmsPaths[R, shift])
           wc == clockTms(TmsPaths[exit1, R])
           ra == [word |-> wa, bytes |-> 0, to |-> shift]
           rc == [word |-> wc, bytes |-> 0, to |-> R]
<1>1. /\ shift \in TapStates /\ exit1 \in TapStates /\ R \in TapStates /\ shift # R /\ exit1 # R
      /\ wa \in Words /\ wc \in Words /\ TapNext(shift, 0) = shift
  <2>1. CASE shift = "SHIFT_DR" /\ exit1 = "EXIT1_DR" /\ update = "UPDATE_DR"
    BY <2>1, Table, WayClocks
  <2>2. CASE shift = "SHIFT_IR" /\ exit1 = "EXIT1_IR" /\ update = "UPDATE_IR"
    BY <2>2, Table, WayClocks
  <2> QED BY <2>1, <2>2 DEF ScanStates
<1>2. ShiftTransfers(shift, exit1, bits, read_back) = a \o b \o c
  BY DEF ShiftTransfers, Transfer
<1>3. a = <<ra>> /\ c = <<rc>>
  BY <1>1 DEF GotoTransfers, Transfer
<1>4. ra \in Transfers /\ r \in Transfers /\ rc \in Transfers
      /\ ra.word = wa /\ r.word = w /\ rc.word = wc
  <2>1. w \in Words
    BY <1>1, ShiftWordEnds
  <2>2. n \in Int
    BY DEF ReadBytes, Bulk
  <2> HIDE DEF w, n, wa, wc
  <2> QED BY <2>1, <2>2, <1>1 DEF Transfers
<1> HIDE DEF ra, r, rc
<1>5. \A q \in Transfers : <<q>> \in Lists /\ Whole(<<q>>) = q.word
  <2>1. ASSUME NEW q \in Transfers PROVE <<q>> \in Lists /\ Whole(<<q>>) = q.word
    <3>1. <<q>> \in Lists /\ Clocked(<<q>>)[1] = q.word
      BY Table, ListShort
    <3>2. Len(<<q>>) = 1
      OBVIOUS
    <3> QED BY <3>1, <3>2 DEF Whole
  <2> QED BY <2>1
<1>6. /\ a \in Lists /\ b \in Lists /\ c \in Lists
      /\ Whole(a) = wa /\ Whole(b) = w /\ Whole(c) = wc
  BY <1>3, <1>4, <1>5, Zenon
<1> HIDE DEF a, b, c, w, wa, wc
<1> DEFINE ab == a \o b
<1>7. ab \in Lists /\ Whole(ab) = wa \o w
  BY <1>6, ListWords
<1> HIDE DEF ab
<1>8. Whole(ab \o c) = (wa \o w) \o wc
  BY <1>6, <1>7, ListWords
<1>9. ScanWord(shift, exit1, bits) = (wa \o w) \o wc
  BY DEF ScanWord, wa, w, wc
<1>10. Clocks(R, ScanWord(shift, exit1, bits), x) = ScanCount(shift, update, bits, x)
  BY ScanClocks
<1> HIDE DEF R
<1> QED BY <1>2, <1>8, <1>9, <1>10 DEF ab, R

\* What a successful operation reports, when its clocks are counted.
LEMMA SucceedClocks ==
  ASSUME InSync, NEW op, NEW n, NEW t \in Lists, NEW own, Succeed(op, n, t, own)
  PROVE  /\ last'.op = op
         /\ last'.counted => /\ state = "RUN_TEST_IDLE" /\ last'.n = n
                             /\ \A x \in Watched : last'.clocks[x] = Clocks("RUN_TEST_IDLE", Whole(t), x)
<1> DEFINE w == Whole(t)
           course == Course(hw, w)
           counted == sync = "ok" /\ state = "RUN_TEST_IDLE"
<1>1. hw \in TapStates /\ (sync = "ok" => hw = state)
  BY DEF InSync, TypeOK
<1>2. w \in Words
  BY ListWords
<1>3. last' = [op |-> op, ok |-> TRUE, own |-> own, counted |-> counted, n |-> IF counted THEN n ELSE 0,
               clocks |-> IF counted THEN ClocksIn(course) ELSE NoClocks]
  BY DEF Succeed, Whole
<1> HIDE DEF w
<1>4. Len(course) = Len(w) + 1 /\ Len(w) \in Nat
  BY <1>1, <1>2, CourseFacts, ClocksType
<1>5. \A x \in Watched : ClocksIn(course)[x] = Clocks(hw, w, x)
  <2>1. Len(course) - 1 = Len(w)
    BY <1>4
  <2> QED BY <2>1 DEF ClocksIn, Clocks, At
<1> HIDE DEF course
<1>6. last'.op = op /\ last'.counted = counted
  BY <1>3
<1>7. ASSUME counted
      PROVE  /\ state = "RUN_TEST_IDLE" /\ last'.n = n
             /\ \A x \in Watched : last'.clocks[x] = Clocks("RUN_TEST_IDLE", w, x)
  <2>1. last'.n = n /\ last'.clocks = ClocksIn(course)
    BY <1>3, <1>7
  <2>2. hw = "RUN_TEST_IDLE"
    BY <1>1, <1>7
  <2> QED BY <1>5, <1>7, <2>1, <2>2
<1> QED BY <1>6, <1>7 DEF w

\* A step that succeeds makes the clocks it has to make.
LEMMA ExactStep ==
  ASSUME InSync, ScanExact, [Next]_vars
  PROVE  ScanExact'
<1>1. state \in TapStates /\ InSync
  BY DEF InSync, TypeOK
<1>2. {"RUN_TEST_IDLE", "SHIFT_DR", "UPDATE_DR", "SHIFT_IR", "UPDATE_IR"} \subseteq Watched
  BY DEF Watched
\* A failed operation reports nothing.
<1>3. ASSUME last'.ok = FALSE \/ last'.counted = FALSE PROVE ScanExact'
  BY <1>3 DEF ScanExact
<1>4. ASSUME NEW op, Refuse(op) PROVE ScanExact'
  BY <1>3, <1>4 DEF Refuse, Failed
<1>5. ASSUME NEW op, NEW t \in Lists, Fail(op, t) PROVE ScanExact'
  BY <1>1, <1>3, <1>5, FailFacts DEF InSync
<1>6. CASE Reset
  <2>1. ResetTransfers \in Lists
    BY ResetEnds
  <2>2. CASE Succeed("reset", 0, ResetTransfers, TRUE)
    <3>1. last'.op = "reset"
      BY <2>1, <2>2, SucceedClocks
    <3> QED BY <3>1 DEF ScanExact
  <2> QED BY <1>5, <1>6, <2>1, <2>2 DEF Reset
<1>7. ASSUME NEW target \in Targets, GotoState(target) PROVE ScanExact'
  <2> DEFINE t == GotoTransfers(state, target)
  <2>1. t \in Lists
    BY <1>1, GotoEnds, TargetsAssumption DEF Agrees
  <2>2. Succeed("gotoState", 0, t, TRUE) \/ Fail("gotoState", t)
    BY <1>7 DEF GotoState
  <2> HIDE DEF t
  <2>3. CASE Succeed("gotoState", 0, t, TRUE)
    <3>1. last'.op = "gotoState"
      BY <2>1, <2>3, SucceedClocks
    <3> QED BY <3>1 DEF ScanExact
  <2> QED BY <1>5, <2>1, <2>2, <2>3
<1>8. ASSUME NEW cycles \in Cycles, ClkIdle(cycles) PROVE ScanExact'
  <2> DEFINE a == GotoTransfers(state, "RUN_TEST_IDLE")
             b == IdleTransfers(cycles)
             t == a \o b
  <2>0. cycles \in Int
    BY ScansAssumption
  <2>1. a \in Lists /\ b \in Lists
    BY <1>1, <2>0, GotoEnds, PathsAssumption, IdleEnds DEF Agrees
  <2>2. Succeed("clkIdle", cycles, t, TRUE) \/ Fail("clkIdle", t)
    BY <1>8 DEF ClkIdle
  <2>3. state = "RUN_TEST_IDLE" => Whole(t) = Whole(b)
    <3>1. SUFFICES ASSUME state = "RUN_TEST_IDLE" PROVE t = b
      OBVIOUS
    <3>2. a = <<>>
      BY <3>1 DEF GotoTransfers
    <3> HIDE DEF a, b
    <3> QED BY <2>1, <3>2 DEF Lists
  <2>4. t \in Lists
    <3> HIDE DEF a, b
    <3> QED BY <2>1, ListWords
  <2>5. Clocks("RUN_TEST_IDLE", Whole(b), "RUN_TEST_IDLE") = IF cycles > 0 THEN cycles ELSE 0
    BY <2>0, IdleClocks
  <2> HIDE DEF a, b, t
  <2>6. CASE Succeed("clkIdle", cycles, t, TRUE)
    <3>1. last'.op = "clkIdle"
          /\ (last'.counted => /\ last'.n = cycles
                               /\ last'.clocks["RUN_TEST_IDLE"] = IF cycles > 0 THEN cycles ELSE 0)
      BY <1>1, <1>2, <2>3, <2>4, <2>5, <2>6, SucceedClocks
    <3> QED BY <3>1 DEF ScanExact
  <2> QED BY <1>5, <2>2, <2>4, <2>6
<1>9. ASSUME NEW bits \in Bits, ShiftIR(bits) PROVE ScanExact'
  <2> DEFINE t == ShiftTransfers("SHIFT_IR", "EXIT1_IR", bits, FALSE)
  <2>1. CASE bits <= 0 /\ Refuse("shiftIR")
    BY <1>4, <2>1
  <2>2. CASE bits > 0 /\ (Succeed("shiftIR", bits, t, TRUE) \/ Fail("shiftIR", t))
    <3>1. bits \in Nat \ {0}
      BY <2>2, ScansAssumption
    <3>2. t \in Lists
      BY <1>1, <3>1, ShiftEnds DEF Agrees
    <3>3. CASE Succeed("shiftIR", bits, t, TRUE)
      <4>1. ScanStates("SHIFT_IR", "EXIT1_IR", "UPDATE_IR")
        BY DEF ScanStates
      <4>2. ASSUME state = "RUN_TEST_IDLE", NEW x \in Watched
            PROVE  Clocks("RUN_TEST_IDLE", Whole(t), x) = ScanCount("SHIFT_IR", "UPDATE_IR", bits, x)
        <5> DEFINE read_back == FALSE
        <5>1. t = ShiftTransfers("SHIFT_IR", "EXIT1_IR", bits, read_back)
          OBVIOUS
        <5> HIDE DEF read_back, t
        <5>2. Clocks("RUN_TEST_IDLE", Whole(ShiftTransfers("SHIFT_IR", "EXIT1_IR", bits, read_back)), x)
                = ScanCount("SHIFT_IR", "UPDATE_IR", bits, x)
          BY <3>1, <4>1, <4>2, ShiftClocks
        <5> QED BY <5>1, <5>2
      <4> HIDE DEF t
      <4>3. /\ last'.op = "shiftIR"
            /\ last'.counted => /\ last'.n = bits
                                /\ \A x \in Watched : last'.clocks[x] = ScanCount("SHIFT_IR", "UPDATE_IR", bits, x)
        BY <1>1, <3>2, <3>3, <4>2, SucceedClocks
      <4> QED BY <1>2, <4>3 DEF ScanExact, ScanCount
    <3> QED BY <1>5, <2>2, <3>2, <3>3
  <2> QED BY <1>9, <2>1, <2>2 DEF ShiftIR
<1>10. ASSUME NEW bits \in Bits, NEW read_back \in BOOLEAN, ShiftDR(bits, read_back) PROVE ScanExact'
  <2> DEFINE t == ShiftTransfers("SHIFT_DR", "EXIT1_DR", bits, read_back)
             own == read_back => OwnTdo(bits)
  <2>1. CASE bits <= 0 /\ Refuse("shiftDR")
    BY <1>4, <2>1
  <2>2. CASE bits > 0 /\ (Succeed("shiftDR", bits, t, own) \/ Fail("shiftDR", t))
    <3>1. bits \in Nat \ {0}
      BY <2>2, ScansAssumption
    <3>2. t \in Lists
      BY <1>1, <3>1, ShiftEnds DEF Agrees
    <3>3. CASE Succeed("shiftDR", bits, t, own)
      <4>1. ScanStates("SHIFT_DR", "EXIT1_DR", "UPDATE_DR")
        BY DEF ScanStates
      <4>2. ASSUME state = "RUN_TEST_IDLE", NEW x \in Watched
            PROVE  Clocks("RUN_TEST_IDLE", Whole(t), x) = ScanCount("SHIFT_DR", "UPDATE_DR", bits, x)
        BY <3>1, <4>1, <4>2, ShiftClocks
      <4> HIDE DEF t, own
      <4>3. /\ last'.op = "shiftDR"
            /\ last'.counted => /\ last'.n = bits
                                /\ \A x \in Watched : last'.clocks[x] = ScanCount("SHIFT_DR", "UPDATE_DR", bits, x)
        BY <1>1, <3>2, <3>3, <4>2, SucceedClocks
      <4> QED BY <1>2, <4>3 DEF ScanExact, ScanCount
    <3> QED BY <1>5, <2>2, <3>2, <3>3
  <2> QED BY <1>10, <2>1, <2>2 DEF ShiftDR
<1>11. ASSUME NEW count \in Counts, NEW bits \in Bits, ShiftDRRepeat(count, bits) PROVE ScanExact'
  <2> DEFINE t == RepeatTransfers(count, bits)
             own == OwnTdo(bits)
  <2>1. CASE last' = [Failed("nothing") EXCEPT !.ok = TRUE, !.own = TRUE]
    <3>1. last'.counted = FALSE
      BY <2>1 DEF Failed
    <3> QED BY <3>1, <1>3
  <2>2. CASE count > 0 /\ bits > 0 /\ (Succeed("shiftDRRepeat", count * bits, t, own) \/ Fail("shiftDRRepeat", t))
    <3>1. bits \in Nat \ {0} /\ count \in Nat \ {0}
      BY <2>2, ScansAssumption
    <3>2. t \in Lists
      BY <1>1, <3>1, RepeatEnds
    <3>3. CASE Succeed("shiftDRRepeat", count * bits, t, own)
      <4>1. \A x \in Watched : Clocks("RUN_TEST_IDLE", Whole(t), x)
                                 = count * ScanCount("SHIFT_DR", "UPDATE_DR", bits, x)
        BY <1>1, <3>1, RepeatClocks
      <4> HIDE DEF t, own
      <4>2. /\ last'.op = "shiftDRRepeat"
            /\ last'.counted =>
                 /\ last'.n = count * bits
                 /\ \A x \in Watched : last'.clocks[x] = count * ScanCount("SHIFT_DR", "UPDATE_DR", bits, x)
        BY <1>1, <3>2, <3>3, <4>1, SucceedClocks
      <4>3. /\ ScanCount("SHIFT_DR", "UPDATE_DR", bits, "SHIFT_DR") = bits
            /\ ScanCount("SHIFT_DR", "UPDATE_DR", bits, "UPDATE_DR") = 1
            /\ ScanCount("SHIFT_DR", "UPDATE_DR", bits, "RUN_TEST_IDLE") = 1
            /\ ScanCount("SHIFT_DR", "UPDATE_DR", bits, "SHIFT_IR") = 0
        BY DEF ScanCount
      <4>4. count * 0 = 0
        BY <3>1
      <4> QED BY <1>2, <4>2, <4>3, <4>4 DEF ScanExact
    <3> QED BY <1>5, <2>2, <3>2, <3>3
  <2> QED BY <1>11, <2>1, <2>2 DEF ShiftDRRepeat
<1>12. CASE Open \/ Close
  <2>1. last' = Failed("none")
    BY <1>12 DEF Open, Close
  <2>2. last'.ok = FALSE
    BY <2>1 DEF Failed
  <2> QED BY <2>2, <1>3
<1>13. CASE OtherProcess
  BY <1>13 DEF OtherProcess, ScanExact
<1>14. CASE UNCHANGED vars
  BY <1>14 DEF vars, ScanExact
<1> QED
  BY <1>6, <1>7, <1>8, <1>9, <1>10, <1>11, <1>12, <1>13, <1>14 DEF Next

\* tap_controller.cpp: shiftIR(), shiftDR(), shiftDRRepeat() and clkIdle(), in sync
\* and from RUN_TEST_IDLE, clock the TAP exactly as often as they are asked to in
\* the state where it counts, and pass the update state once per scan, for every
\* length of a scan, number of scans, size of a chunk and length of an idle time.
THEOREM ScansAreExact == Spec => []ScanExact
<1>1. Init => InSync /\ ScanExact
  <2>1. Init => ScanExact
    <3>1. Failed("none").ok = FALSE
      BY DEF Failed
    <3> QED BY <3>1 DEF Init, ScanExact
  <2> QED BY <2>1, InitInSync
<1>2. InSync /\ ScanExact /\ [Next]_vars => (InSync /\ ScanExact)'
  BY InSyncStep, ExactStep
<1> QED BY <1>1, <1>2, PTL DEF Spec
=============================================================================
