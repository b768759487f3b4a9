----------------------- MODULE FlashProgrammerProofs -----------------------
(***************************************************************************)
(* Safety of PL configuration and flash programming. ProgInv follows the   *)
(* run: where program() is, what the PL and the chip are meanwhile, and    *)
(* how much of the image the chip holds; each action keeps it. That the    *)
(* parser's image is the one of the file is shown record by record, by     *)
(* induction over a set of numbers.                                        *)
(***************************************************************************)
EXTENDS FlashProgrammer, FiniteSetTheorems, WellFoundedInduction, TLAPS

\* Induction over the natural numbers, for a set of them.
LEMMA NatSetInduction ==
  ASSUME NEW S, 0 \in S, \A n \in Nat : n \in S => n + 1 \in S
  PROVE  Nat \subseteq S
<1> DEFINE T == Nat \ S
           C == {0 .. n : n \in T}
           R == StrictSubsetOrdering(Nat)
<1>1. SUFFICES ASSUME T # {} PROVE FALSE
  OBVIOUS
<1>2. C \subseteq FiniteSubsetsOf(Nat)
  <2>1. \A n \in Nat : IsFiniteSet(0 .. n) /\ 0 .. n \in SUBSET Nat
    BY FS_Interval
  <2> QED BY <2>1 DEF FiniteSubsetsOf
<1>3. C # {}
  BY <1>1
<1>4. PICK c \in C : \A d \in C : ~ (<<d, c>> \in R)
  <2> HIDE DEF C, R
  <2>1. IsWellFoundedOn(R, FiniteSubsetsOf(Nat))
    BY FS_StrictSubsetOrderingWellFounded DEF R
  <2> QED BY <2>1, <1>3, <1>2, WFMin
<1>5. PICK x \in T : c = 0 .. x
  OBVIOUS
<1>6. x \in Nat /\ x # 0 /\ x - 1 \in Nat /\ (x - 1) + 1 = x
  OBVIOUS
<1>7. x - 1 \in T
  BY <1>6
<1>8. <<0 .. (x - 1), 0 .. x>> \in R
  <2>1. 0 .. (x - 1) \subseteq 0 .. x /\ x \in 0 .. x /\ x \notin 0 .. (x - 1)
    BY <1>6
  <2>2. 0 .. (x - 1) \in SUBSET Nat /\ 0 .. x \in SUBSET Nat
    BY <1>6
  <2> QED BY <2>1, <2>2 DEF StrictSubsetOrdering
<1> QED BY <1>4, <1>5, <1>7, <1>8

\* Recursion over the natural numbers up to N, with a step that is a function.
Iterates(c, x0, N, step) == c[0] = x0 /\ \A k \in 1 .. N : c[k] = step[<<k, c[k - 1]>>]
LEMMA NatRecursion ==
  ASSUME NEW X, NEW x0 \in X, NEW N \in Nat, NEW step \in [(1 .. N) \X X -> X]
  PROVE  \E c \in [0 .. N -> X] : Iterates(c, x0, N, step)
<1> DEFINE Rec(c, n) == c[0] = x0 /\ \A k \in 1 .. n : c[k] = step[<<k, c[k - 1]>>]
           S == {n \in Nat : n <= N => \E c \in [0 .. n -> X] : Rec(c, n)}
<1>1. 0 \in S
  <2>1. [k \in 0 .. 0 |-> x0] \in [0 .. 0 -> X] /\ Rec([k \in 0 .. 0 |-> x0], 0)
    OBVIOUS
  <2> HIDE DEF Rec
  <2> QED BY <2>1
<1>2. ASSUME NEW n \in Nat, n \in S PROVE n + 1 \in S
  <2>1. SUFFICES ASSUME n + 1 <= N PROVE \E c \in [0 .. n + 1 -> X] : Rec(c, n + 1)
    OBVIOUS
  <2>2. PICK c \in [0 .. n -> X] : Rec(c, n)
    BY <1>2, <2>1
  <2> DEFINE d == [k \in 0 .. n + 1 |-> IF k <= n THEN c[k] ELSE step[<<n + 1, c[n]>>]]
  <2>3. step[<<n + 1, c[n]>>] \in X
    <3>1. <<n + 1, c[n]>> \in (1 .. N) \X X
      BY <2>1
    <3> QED BY <3>1
  <2>4. d \in [0 .. n + 1 -> X]
    BY <2>3
  <2>5. Rec(d, n + 1)
    <3>1. d[0] = x0
      BY <2>2
    <3>2. ASSUME NEW k \in 1 .. n + 1 PROVE d[k] = step[<<k, d[k - 1]>>]
      <4>1. CASE k <= n
        <5>1. k \in 1 .. n /\ d[k] = c[k] /\ d[k - 1] = c[k - 1]
          BY <4>1
        <5> HIDE DEF d
        <5> QED BY <5>1, <2>2
      <4>2. CASE k = n + 1
        <5>1. d[n + 1] = step[<<n + 1, c[n]>>] /\ d[n] = c[n] /\ k - 1 = n
          BY <4>2
        <5> HIDE DEF d
        <5> QED BY <5>1, <4>2
      <4> QED BY <4>1, <4>2
    <3> QED BY <3>1, <3>2
  <2> HIDE DEF Rec, d
  <2> QED BY <2>4, <2>5
<1>3. Nat \subseteq S
  <2> HIDE DEF S
  <2> QED BY <1>1, <1>2, NatSetInduction
<1>4. \E c \in [0 .. N -> X] : Rec(c, N)
  BY <1>3
<1> QED BY <1>4 DEF Iterates

---------------------------------------------------------------------------
(* The loaders                                                             *)

\* What upper | rec.addr is made of are numbers.
LEMMA OrType == ASSUME NEW m, NEW n PROVE Or(m, n) \in Nat
<1> DEFINE Start == [low |-> 0, unit |-> 1]
           Set(o) == \E x \in {m, n} : (x \div o.unit) % 2 = 1
           Turn(o) == [low |-> o.low + (IF Set(o) THEN o.unit ELSE 0), unit |-> 2 * o.unit]
           X == [low : Nat, unit : Nat]
           Rec(c) == c = [k \in 0 .. AddrBits |-> IF k = 0 THEN Start ELSE Turn(c[k - 1])]
           or == CHOOSE c : Rec(c)
<1>0. AddrBits \in Nat
  BY McsAssumption
<1>1. Or(m, n) = or[AddrBits].low
  BY DEF Or
<1>2. Start \in X /\ \A o \in X : Turn(o) \in X
  <2>1. ASSUME NEW o \in X PROVE Turn(o) \in X
    <3>1. o.low \in Nat /\ o.unit \in Nat
      OBVIOUS
    <3>2. (IF Set(o) THEN o.unit ELSE 0) \in Nat
      BY <3>1
    <3> HIDE DEF Set
    <3> QED BY <3>1, <3>2
  <2> QED BY <2>1
<1> HIDE DEF Start, Turn, X
<1>3. \E c : Rec(c)
  <2> DEFINE step == [p \in (1 .. AddrBits) \X X |-> Turn(p[2])]
  <2>1. step \in [(1 .. AddrBits) \X X -> X]
    BY <1>2
  <2>2. \A k \in 1 .. AddrBits, o \in X : step[<<k, o>>] = Turn(o)
    OBVIOUS
  <2> HIDE DEF step
  <2>3. PICK c \in [0 .. AddrBits -> X] :
          c[0] = Start /\ \A k \in 1 .. AddrBits : c[k] = step[<<k, c[k - 1]>>]
    <3>1. Start \in X
      BY <1>2
    <3>2. \E c \in [0 .. AddrBits -> X] : Iterates(c, Start, AddrBits, step)
      BY <2>1, <3>1, <1>0, NatRecursion, Zenon
    <3> QED BY <3>2, Zenon DEF Iterates
  <2>4. \A k \in 0 .. AddrBits : c[k] = IF k = 0 THEN Start ELSE Turn(c[k - 1])
    <3>1. ASSUME NEW k \in 1 .. AddrBits PROVE c[k] = Turn(c[k - 1])
      <4>1. k - 1 \in 0 .. AddrBits /\ c[k - 1] \in X
        BY <1>0, <2>3
      <4> QED BY <4>1, <2>2, <2>3
    <3> QED BY <3>1, <2>3, <1>0
  <2>5. Rec(c)
    BY <2>4
  <2> QED BY <2>5
<1>4. Rec(or)
  BY <1>3
<1>5. or[0] = Start /\ \A k \in 1 .. AddrBits : or[k] = Turn(or[k - 1])
  <2> HIDE DEF or
  <2>1. \A k \in 0 .. AddrBits : or[k] = IF k = 0 THEN Start ELSE Turn(or[k - 1])
    BY <1>4, Zenon
  <2>2. 0 \in 0 .. AddrBits /\ \A k \in 1 .. AddrBits : k \in 0 .. AddrBits /\ k # 0
    BY <1>0
  <2> QED BY <2>1, <2>2, Zenon
<1> HIDE DEF or
<1> DEFINE S == {k \in Nat : k <= AddrBits => or[k] \in X}
<1>6. 0 \in S
  BY <1>5, <1>2
<1>7. ASSUME NEW k \in Nat, k \in S PROVE k + 1 \in S
  <2>1. SUFFICES ASSUME k + 1 <= AddrBits PROVE or[k + 1] \in X
    OBVIOUS
  <2>2. k + 1 \in 1 .. AddrBits /\ (k + 1) - 1 = k /\ or[k] \in X
    BY <2>1, <1>7, <1>0
  <2> QED BY <2>2, <1>5, <1>2
<1>8. Nat \subseteq S
  <2> HIDE DEF S
  <2> QED BY <1>6, <1>7, NatSetInduction
<1> QED BY <1>8, <1>0, <1>1 DEF X

\* Addresses are numbers modulo AddrSpan, and themselves when they are below it.
LEMMA ModFacts ==
  ASSUME NEW x \in Nat
  PROVE  x % AddrSpan \in Nat /\ (x < AddrSpan => x % AddrSpan = x)
<1>1. ASSUME NEW d \in Nat \ {0}
      PROVE  x % d \in Nat /\ (x < d => x % d = x)
  OBVIOUS
<1>2. AddrSpan \in Nat \ {0}
  BY McsAssumption
<1> QED BY <1>1, <1>2, Zenon

\* A record that is put into an image: its bytes, the ones before, and the
\* erased byte where there were none.
LEMMA PutFacts ==
  ASSUME NEW out \in Seq(Bytes), NEW base \in Nat, NEW end \in Nat, NEW data \in Seq(Bytes)
  PROVE  /\ Put(out, base, end, data) \in Seq(Bytes)
         /\ Len(Put(out, base, end, data)) = Size(out, end)
         /\ \A i \in 1 .. Len(Put(out, base, end, data)) :
              Put(out, base, end, data)[i] = IF i \in base + 1 .. base + Len(data) THEN data[i - base]
                                        ELSE IF i <= Len(out) THEN out[i] ELSE Erased
<1> DEFINE n == Size(out, end)
           Byte(i) == IF i \in base + 1 .. base + Len(data) THEN data[i - base]
                    ELSE IF i <= Len(out) THEN out[i] ELSE Erased
<1>1. n \in Nat
  BY DEF Size
<1>2. \A i \in 1 .. n : Byte(i) \in Bytes
  <2>1. ASSUME NEW i \in 1 .. n PROVE Byte(i) \in Bytes
    <3>1. CASE i \in base + 1 .. base + Len(data)
      <4>1. i - base \in 1 .. Len(data)
        BY <3>1
      <4> QED BY <4>1, <3>1
    <3>2. CASE i \notin base + 1 .. base + Len(data)
      <4>1. Erased \in Bytes
        BY DEF Erased, Bytes
      <4> QED BY <3>2, <4>1
    <3> QED BY <3>1, <3>2
  <2> QED BY <2>1
<1>3. Put(out, base, end, data) = [i \in 1 .. n |-> Byte(i)]
  BY DEF Put
<1> HIDE DEF n, Byte
<1>4. [i \in 1 .. n |-> Byte(i)] \in Seq(Bytes) /\ Len([i \in 1 .. n |-> Byte(i)]) = n
  BY <1>1, <1>2
<1>5. \A i \in 1 .. n : [j \in 1 .. n |-> Byte(j)][i] = Byte(i)
  OBVIOUS
<1> QED BY <1>1, <1>3, <1>4, <1>5 DEF n, Byte

\* The states of the parser's loop over the lines.
Uppers == {0} \cup {Upper(rec) : rec \in Records}
ParserStates == [more : BOOLEAN, ok : BOOLEAN, upper : Uppers, out : Seq(Bytes), wild : BOOLEAN]
FirstParserState == [more |-> TRUE, ok |-> TRUE, upper |-> 0, out |-> <<>>, wild |-> FALSE]

LEMMA ParseRecordType ==
  ASSUME NEW s \in ParserStates, NEW rec \in Records
  PROVE  ParseRecord(s, rec) \in ParserStates
<1> DEFINE base == Or(s.upper, rec.addr)
           end == (base + Len(rec.data)) % AddrSpan
           fail == [s EXCEPT !.more = FALSE, !.ok = FALSE]
           put == [s EXCEPT !.out = Put(@, base, end, rec.data), !.wild = @ \/ Wild(s.out, base, end, rec.data)]
<1>1. s = [more |-> s.more, ok |-> s.ok, upper |-> s.upper, out |-> s.out, wild |-> s.wild]
      /\ s.more \in BOOLEAN /\ s.ok \in BOOLEAN /\ s.upper \in Uppers /\ s.out \in Seq(Bytes)
      /\ s.wild \in BOOLEAN
  BY DEF ParserStates
<1>2. rec.bad \in BOOLEAN /\ rec.type \in {"data", "eof", "ela", "esa", "start"}
  BY DEF Records, Record
<1>3. fail \in ParserStates /\ [s EXCEPT !.more = FALSE] \in ParserStates
  BY <1>1 DEF ParserStates
<1>4. [s EXCEPT !.upper = Upper(rec)] \in ParserStates
  <2>1. Upper(rec) \in Uppers
    BY DEF Uppers
  <2> QED BY <2>1, <1>1 DEF ParserStates
<1>5. ASSUME rec.type = "data" PROVE put \in ParserStates
  <2>1. rec.data \in Seq(Bytes)
    BY <1>5 DEF Records, Record
  <2>2. base \in Nat
    BY OrType
  <2>3. end \in Nat
    <3>1. Len(rec.data) \in Nat
      <4> HIDE DEF end
      <4> QED BY <2>1
    <3>2. base + Len(rec.data) \in Nat
      <4> HIDE DEF base, end
      <4> QED BY <3>1, <2>2
    <3> QED BY <3>2, ModFacts
  <2>4. Put(s.out, base, end, rec.data) \in Seq(Bytes)
    <3> HIDE DEF end
    <3> QED BY <2>1, <2>2, <2>3, <1>1, PutFacts
  <2>5. (s.wild \/ Wild(s.out, base, end, rec.data)) \in BOOLEAN
    OBVIOUS
  <2> DEFINE out == Put(s.out, base, end, rec.data)
             wild == s.wild \/ Wild(s.out, base, end, rec.data)
  <2>6. put = [[s EXCEPT !.out = out] EXCEPT !.wild = wild]
    OBVIOUS
  <2> HIDE DEF out, wild, put
  <2> QED BY <2>4, <2>5, <2>6, <1>1 DEF ParserStates, out, wild
<1>6. CASE ~s.more
  BY <1>6 DEF ParseRecord
<1>7. CASE s.more /\ rec.bad
  BY <1>7, <1>3 DEF ParseRecord
<1>8. CASE s.more /\ ~rec.bad
  <2>1. CASE rec.type = "eof"
    BY <2>1, <1>8, <1>3 DEF ParseRecord
  <2>2. CASE rec.type \in {"ela", "esa"}
    BY <2>2, <1>8, <1>3, <1>4 DEF ParseRecord
  <2>3. CASE rec.type = "data"
    <3>1. ParseRecord(s, rec) = IF end > Capacity THEN fail ELSE put
      BY <2>3, <1>8 DEF ParseRecord
    <3> HIDE DEF end, fail, base, put
    <3> QED BY <3>1, <1>3, <1>5, <2>3
  <2>4. CASE rec.type = "start"
    BY <2>4, <1>8 DEF ParseRecord
  <2> QED BY <2>1, <2>2, <2>3, <2>4, <1>2
<1> QED BY <1>6, <1>7, <1>8, <1>1, <1>2

\* The parser goes from state to state, a record at a time.
Parses(p, records) ==
  /\ p \in [0 .. Len(records) -> ParserStates]
  /\ p[0] = FirstParserState
  /\ \A k \in 1 .. Len(records) : p[k] = ParseRecord(p[k - 1], records[k])

LEMMA ParseFacts ==
  ASSUME NEW records \in Seq(Records)
  PROVE  \E p : /\ Parses(p, records)
                /\ ParseMcsToImage(records) =
                     [p[Len(records)] EXCEPT !.ok = @ /\ p[Len(records)].out # <<>>]
<1> DEFINE N == Len(records)
           Rec(c) == c = [k \in 0 .. N |-> IF k = 0 THEN FirstParserState ELSE ParseRecord(c[k - 1], records[k])]
           p == CHOOSE c : Rec(c)
<1>0. N \in Nat /\ \A k \in 1 .. N : records[k] \in Records
  OBVIOUS
<1>1. ParseMcsToImage(records) = [p[N] EXCEPT !.ok = @ /\ p[N].out # <<>>]
  BY DEF ParseMcsToImage, FirstParserState
<1>2. FirstParserState \in ParserStates
  <2>1. <<>> \in Seq(Bytes)
    OBVIOUS
  <2> QED BY <2>1 DEF FirstParserState, ParserStates, Uppers
<1>3. \E c \in [0 .. N -> ParserStates] : Rec(c)
  <2> DEFINE step == [q \in (1 .. N) \X ParserStates |-> ParseRecord(q[2], records[q[1]])]
  <2>1. step \in [(1 .. N) \X ParserStates -> ParserStates]
    <3>1. \A q \in (1 .. N) \X ParserStates : q[2] \in ParserStates /\ records[q[1]] \in Records
      BY <1>0
    <3>2. \A q \in (1 .. N) \X ParserStates : ParseRecord(q[2], records[q[1]]) \in ParserStates
      BY <3>1, ParseRecordType
    <3> QED BY <3>2
  <2>2. \A k \in 1 .. N, o \in ParserStates : step[<<k, o>>] = ParseRecord(o, records[k])
    OBVIOUS
  <2> HIDE DEF step, N
  <2>3. PICK c \in [0 .. N -> ParserStates] : Iterates(c, FirstParserState, N, step)
    BY <2>1, <1>2, <1>0, NatRecursion, Zenon
  <2>4. \A k \in 0 .. N : c[k] = IF k = 0 THEN FirstParserState ELSE ParseRecord(c[k - 1], records[k])
    <3>1. ASSUME NEW k \in 1 .. N PROVE c[k] = ParseRecord(c[k - 1], records[k])
      <4>1. k - 1 \in 0 .. N /\ c[k - 1] \in ParserStates
        BY <1>0, <2>3
      <4> QED BY <4>1, <2>2, <2>3 DEF Iterates
    <3> QED BY <3>1, <2>3, <1>0 DEF Iterates
  <2>5. Rec(c)
    BY <2>4
  <2> QED BY <2>5
<1>4. Rec(p)
  BY <1>3
<1> HIDE DEF p
<1>5. p[0] = FirstParserState /\ \A k \in 1 .. N : p[k] = ParseRecord(p[k - 1], records[k])
  <2>1. \A k \in 0 .. N : p[k] = IF k = 0 THEN FirstParserState ELSE ParseRecord(p[k - 1], records[k])
    BY <1>4, Zenon
  <2>2. 0 \in 0 .. N /\ \A k \in 1 .. N : k \in 0 .. N /\ k # 0
    BY <1>0
  <2> QED BY <2>1, <2>2, Zenon
<1> DEFINE S == {k \in Nat : k <= N => p[k] \in ParserStates}
<1>6. 0 \in S
  BY <1>5, <1>2
<1>7. ASSUME NEW k \in Nat, k \in S PROVE k + 1 \in S
  <2>1. SUFFICES ASSUME k + 1 <= N PROVE p[k + 1] \in ParserStates
    OBVIOUS
  <2>2. k + 1 \in 1 .. N /\ (k + 1) - 1 = k /\ p[k] \in ParserStates
    BY <2>1, <1>7, <1>0
  <2> QED BY <2>2, <1>5, <1>0, ParseRecordType
<1>8. Nat \subseteq S
  <2> HIDE DEF S
  <2> QED BY <1>6, <1>7, NatSetInduction
<1>9. p \in [0 .. N -> ParserStates]
  <2>1. DOMAIN p = 0 .. N /\ p = [k \in 0 .. N |-> p[k]]
    BY <1>4
  <2>2. \A k \in 0 .. N : p[k] \in ParserStates
    BY <1>8, <1>0
  <2> QED BY <2>1, <2>2
<1> QED BY <1>1, <1>5, <1>9 DEF Parses

\* What the loaders return.
LEMMA LoadType ==
  ASSUME NEW f \in Files
  PROVE  LoadImageFile(f) \in [ok : BOOLEAN, out : Seq(Bytes), wild : BOOLEAN]
<1>1. CASE f.kind = "bin"
  <2>1. f.content \in Seq(Bytes)
    BY <1>1 DEF Files
  <2> QED BY <1>1, <2>1 DEF LoadImageFile, LoadBinFile
<1>2. CASE f.kind = "mcs"
  <2>1. f.content \in Seq(Records)
    BY <1>2 DEF Files
  <2> DEFINE records == f.content
             r == ParseMcsToImage(records)
  <2>2. PICK p : /\ Parses(p, records)
                 /\ r = [p[Len(records)] EXCEPT !.ok = @ /\ p[Len(records)].out # <<>>]
    BY <2>1, ParseFacts
  <2>3. p[Len(records)] \in ParserStates
    <3>1. Len(records) \in 0 .. Len(records)
      BY <2>1
    <3> QED BY <2>2, <3>1 DEF Parses
  <2>4. r.ok \in BOOLEAN /\ r.out \in Seq(Bytes) /\ r.wild \in BOOLEAN
    BY <2>2, <2>3 DEF ParserStates
  <2> HIDE DEF r
  <2>5. LoadImageFile(f) = IF ~f.there THEN [ok |-> FALSE, out |-> <<>>, wild |-> FALSE]
                           ELSE [ok |-> r.ok, out |-> r.out, wild |-> r.wild]
    BY <1>2 DEF LoadImageFile, r
  <2> QED BY <2>4, <2>5
<1> QED BY <1>1, <1>2 DEF Files

---------------------------------------------------------------------------
(* What an Intel HEX file means                                            *)

\* The first k records are good, and the file has not ended.
Plain(f, k) == \A i \in 1 .. k : ~f[i].bad /\ f[i].type # "eof"
DataBefore(f, k) == {j \in 1 .. k : f[j].type = "data"}
Covering(f, k, x) == {j \in DataBefore(f, k) : x \in First(f, j) .. First(f, j) + Len(f[j].data) - 1}

\* The image of the first k records.
Image(f, k, out) ==
  /\ \A x \in 0 .. Len(out) - 1 :
       /\ Covering(f, k, x) = {} => out[x + 1] = Erased
       /\ \A j \in Covering(f, k, x) :
            (\A i \in Covering(f, k, x) : i <= j) => out[x + 1] = f[j].data[x - First(f, j) + 1]
  /\ \A j \in DataBefore(f, k) : First(f, j) + Len(f[j].data) <= Len(out)
  /\ out = <<>> \/ \E j \in DataBefore(f, k) : First(f, j) + Len(f[j].data) = Len(out)

\* A set of numbers up to n has a greatest one.
LEMMA GreatestExists ==
  ASSUME NEW n \in Nat, NEW T \in SUBSET (1 .. n), T # {}
  PROVE  \E m \in T : \A j \in T : j <= m
<1> DEFINE S == {k \in Nat : \A U \in SUBSET (1 .. k) : U # {} => \E m \in U : \A j \in U : j <= m}
<1>1. 0 \in S
  <2>1. 1 .. 0 = {}
    OBVIOUS
  <2>2. \A U \in SUBSET (1 .. 0) : U = {}
    BY <2>1
  <2> QED BY <2>2
<1>2. ASSUME NEW k \in Nat, k \in S PROVE k + 1 \in S
  <2>1. SUFFICES ASSUME NEW U \in SUBSET (1 .. k + 1), U # {} PROVE \E m \in U : \A j \in U : j <= m
    OBVIOUS
  <2>2. CASE k + 1 \in U
    <3> DEFINE top == k + 1
    <3>1. top \in U /\ \A j \in U : j <= top
      BY <2>2
    <3> HIDE DEF top
    <3> QED BY <3>1
  <2>3. CASE k + 1 \notin U
    <3>1. U \in SUBSET (1 .. k)
      BY <2>3
    <3> QED BY <2>1, <3>1, <1>2
  <2> QED BY <2>2, <2>3
<1>3. Nat \subseteq S
  <2> HIDE DEF S
  <2> QED BY <1>1, <1>2, NatSetInduction
<1> QED BY <1>3

\* The segment of the next record.
LEMMA SegmentNext ==
  ASSUME NEW f \in Seq(Records), NEW k \in Nat, k + 1 <= Len(f)
  PROVE  /\ f[k + 1].type \in {"ela", "esa"} => Segment(f, k + 2) = Upper(f[k + 1])
         /\ f[k + 1].type \notin {"ela", "esa"} => Segment(f, k + 2) = Segment(f, k + 1)
<1> DEFINE E(n) == {i \in 1 .. n - 1 : f[i].type \in {"ela", "esa"}}
<1>1. ASSUME f[k + 1].type \in {"ela", "esa"} PROVE Segment(f, k + 2) = Upper(f[k + 1])
  <2>1. k + 1 \in E(k + 2) /\ \A j \in E(k + 2) : j <= k + 1
    BY <1>1
  <2>2. \A i \in E(k + 2) : (\A j \in E(k + 2) : j <= i) => i = k + 1
    BY <2>1
  <2> DEFINE last == CHOOSE i \in E(k + 2) : \A j \in E(k + 2) : j <= i
  <2>3. last = k + 1
    <3> HIDE DEF E
    <3> QED BY <2>1, <2>2
  <2>4. Segment(f, k + 2) = IF E(k + 2) = {} THEN 0 ELSE Upper(f[last])
    BY DEF Segment
  <2> HIDE DEF E, last
  <2> QED BY <2>1, <2>3, <2>4
<1>2. ASSUME f[k + 1].type \notin {"ela", "esa"} PROVE Segment(f, k + 2) = Segment(f, k + 1)
  <2>1. E(k + 2) = E(k + 1)
    BY <1>2
  <2>2. \A n : Segment(f, n) = IF E(n) = {} THEN 0 ELSE Upper(f[CHOOSE i \in E(n) : \A j \in E(n) : j <= i])
    BY DEF Segment
  <2> HIDE DEF E
  <2> QED BY <2>1, <2>2
<1> QED BY <1>1, <1>2

\* A record that writes no byte leaves the image as it is.
LEMMA ImageOther ==
  ASSUME NEW f \in Seq(Records), NEW k \in Nat, k + 1 <= Len(f), f[k + 1].type # "data",
         NEW out, Image(f, k, out)
  PROVE  Image(f, k + 1, out)
<1>1. DataBefore(f, k + 1) = DataBefore(f, k)
  BY DEF DataBefore
<1>2. \A x : Covering(f, k + 1, x) = Covering(f, k, x)
  BY <1>1 DEF Covering
<1> QED BY <1>1, <1>2 DEF Image

\* A data record adds its bytes.
LEMMA ImageData ==
  ASSUME NEW f \in Seq(Records), NEW k \in Nat, k + 1 <= Len(f), f[k + 1].type = "data",
         NEW out \in Seq(Bytes), Image(f, k, out), First(f, k + 1) \in Nat,
         \A j \in DataBefore(f, k) : First(f, j) \in Nat
  PROVE  Image(f, k + 1, Put(out, First(f, k + 1), First(f, k + 1) + Len(f[k + 1].data), f[k + 1].data))
<1> DEFINE n == k + 1
           base == First(f, n)
           data == f[n].data
           put == Put(out, base, base + Len(data), data)
<1>1. base \in Nat /\ data \in Seq(Bytes) /\ Len(data) \in Nat /\ Len(out) \in Nat /\ n \in Nat
  <2>1. f[n] \in Records
    OBVIOUS
  <2>2. data \in Seq(Bytes)
    BY <2>1 DEF Records, Record
  <2> QED BY <2>2
<1>2. /\ put \in Seq(Bytes)
      /\ Len(put) = IF base + Len(data) > Len(out) THEN base + Len(data) ELSE Len(out)
      /\ \A i \in 1 .. Len(put) :
           put[i] = IF i \in base + 1 .. base + Len(data) THEN data[i - base]
                    ELSE IF i <= Len(out) THEN out[i] ELSE Erased
  <2> DEFINE end == base + Len(data)
  <2> HIDE DEF base, data
  <2>1. end \in Nat
    BY <1>1
  <2>2. put = Put(out, base, end, data)
    OBVIOUS
  <2>3. Size(out, end) = IF base + Len(data) > Len(out) THEN base + Len(data) ELSE Len(out)
    BY DEF Size
  <2> HIDE DEF put
  <2>4. /\ put \in Seq(Bytes) /\ Len(put) = Size(out, end)
        /\ \A i \in 1 .. Len(put) :
             put[i] = IF i \in base + 1 .. base + Len(data) THEN data[i - base]
                      ELSE IF i <= Len(out) THEN out[i] ELSE Erased
    <3> HIDE DEF end
    <3> QED BY <1>1, <2>1, <2>2, PutFacts
  <2> QED BY <2>3, <2>4
<1>3. DataBefore(f, n) = DataBefore(f, k) \cup {n} /\ n \notin DataBefore(f, k)
  BY DEF DataBefore
<1>4. \A j \in DataBefore(f, k) : j \in Nat /\ j < n /\ Len(f[j].data) \in Nat
  <2>1. \A j \in DataBefore(f, k) : j \in 1 .. k /\ f[j] \in Records
    BY DEF DataBefore
  <2>2. \A j \in DataBefore(f, k) : f[j].type = "data"
    BY DEF DataBefore
  <2>3. \A j \in DataBefore(f, k) : f[j].data \in Seq(Bytes)
    BY <2>1, <2>2 DEF Records, Record
  <2> QED BY <2>1, <2>3
<1>5. \A x : Covering(f, n, x) = Covering(f, k, x) \cup (IF x \in base .. base + Len(data) - 1 THEN {n} ELSE {})
  BY <1>3 DEF Covering
<1>6. \A x : Covering(f, k, x) \subseteq DataBefore(f, k)
  BY DEF Covering
<1> HIDE DEF base, data, put
<1>7. ASSUME NEW x \in 0 .. Len(put) - 1
      PROVE  /\ Covering(f, n, x) = {} => put[x + 1] = Erased
             /\ \A j \in Covering(f, n, x) :
                  (\A i \in Covering(f, n, x) : i <= j) => put[x + 1] = f[j].data[x - First(f, j) + 1]
  <2>1. x + 1 \in 1 .. Len(put) /\ x \in Nat
    BY <1>1, <1>2
  <2>2. CASE x \in base .. base + Len(data) - 1
    <3>1. Covering(f, n, x) = Covering(f, k, x) \cup {n}
      BY <1>5, <2>2
    <3>2. put[x + 1] = data[x - base + 1]
      <4>1. x + 1 \in base + 1 .. base + Len(data) /\ (x + 1) - base = x - base + 1
        BY <2>2, <1>1, <2>1
      <4> QED BY <4>1, <2>1, <1>2
    <3>3. \A j \in Covering(f, n, x) : (\A i \in Covering(f, n, x) : i <= j) => j = n
      <4>1. \A j \in Covering(f, k, x) : j < n /\ j \in Nat
        BY <1>6, <1>4
      <4> QED BY <3>1, <4>1, <1>1
    <3> QED BY <3>1, <3>2, <3>3 DEF data, base
  <2>3. CASE x \notin base .. base + Len(data) - 1
    <3>1. Covering(f, n, x) = Covering(f, k, x)
      BY <1>5, <2>3
    <3>2. put[x + 1] = IF x + 1 <= Len(out) THEN out[x + 1] ELSE Erased
      <4>1. x + 1 \notin base + 1 .. base + Len(data)
        BY <2>3, <1>1, <2>1
      <4> QED BY <4>1, <2>1, <1>2
    <3>3. CASE x + 1 <= Len(out)
      <4>1. x \in 0 .. Len(out) - 1
        BY <3>3, <2>1, <1>1
      <4> QED BY <4>1, <3>1, <3>2, <3>3 DEF Image
    <3>4. CASE x + 1 > Len(out)
      <4>1. Covering(f, k, x) = {}
        <5>1. SUFFICES ASSUME NEW j \in Covering(f, k, x) PROVE FALSE
          OBVIOUS
        <5>2. j \in DataBefore(f, k)
          BY <1>6
        <5>3. First(f, j) + Len(f[j].data) <= Len(out)
          BY <5>2 DEF Image
        <5>4. x <= First(f, j) + Len(f[j].data) - 1
          BY DEF Covering
        <5>5. First(f, j) \in Nat /\ Len(f[j].data) \in Nat
          BY <5>2, <1>4
        <5> DEFINE b == First(f, j)
                   l == Len(f[j].data)
        <5>6. b + l <= Len(out) /\ x <= b + l - 1 /\ b \in Nat /\ l \in Nat /\ x + 1 > Len(out)
          BY <5>3, <5>4, <5>5, <3>4
        <5> HIDE DEF b, l
        <5> QED BY SMTT(60), <5>6, <1>1, <2>1
      <4> QED BY <4>1, <3>1, <3>2, <3>4, <1>1, <2>1
    <3> QED BY <3>3, <3>4, <1>1, <2>1
  <2> QED BY <2>2, <2>3
<1>8. ASSUME NEW j \in DataBefore(f, n) PROVE First(f, j) + Len(f[j].data) <= Len(put)
  <2>1. CASE j = n
    BY <2>1, <1>1, <1>2 DEF base, data
  <2>2. CASE j \in DataBefore(f, k)
    <3>1. First(f, j) + Len(f[j].data) <= Len(out)
      BY <2>2 DEF Image
    <3>2. First(f, j) \in Nat /\ Len(f[j].data) \in Nat
      BY <2>2, <1>4
    <3> QED BY <3>1, <3>2, <1>1, <1>2
  <2> QED BY <2>1, <2>2, <1>3
<1>9. put = <<>> \/ \E j \in DataBefore(f, n) : First(f, j) + Len(f[j].data) = Len(put)
  <2>1. CASE base + Len(data) > Len(out)
    BY <2>1, <1>1, <1>2, <1>3 DEF base, data
  <2>2. CASE ~(base + Len(data) > Len(out))
    <3>1. Len(put) = Len(out)
      BY <2>2, <1>2
    <3>2. CASE out = <<>>
      <4>1. Len(put) = 0
        BY <3>1, <3>2
      <4> QED BY <4>1, <1>2
    <3>3. CASE \E j \in DataBefore(f, k) : First(f, j) + Len(f[j].data) = Len(out)
      BY <3>1, <3>3, <1>3
    <3> QED BY <3>2, <3>3 DEF Image
  <2> QED BY <2>1, <2>2
<1> QED BY <1>7, <1>8, <1>9 DEF Image, put, base, data

\* What the parser has made of the first k records.
Parsed(f, k, s) ==
  IF s.more THEN s.ok /\ Plain(f, k) /\ s.upper = Segment(f, k + 1) /\ Image(f, k, s.out)
  ELSE s.ok => \E e \in 1 .. k : /\ f[e].type = "eof" /\ ~f[e].bad /\ Plain(f, e - 1)
                                 /\ Image(f, e - 1, s.out)

\* No record of such a file ends past the address range, so that none is written
\* behind the image.
Tame(f, k, s) == ~s.wild /\ (s.more => s.upper = Segment(f, k + 1))

LEMMA TameStep ==
  ASSUME NEW f \in Seq(Records), NoWrap(f), NEW k \in Nat, k + 1 <= Len(f),
         NEW s \in ParserStates, Tame(f, k, s)
  PROVE  /\ Tame(f, k + 1, ParseRecord(s, f[k + 1]))
         /\ s.more /\ f[k + 1].type = "data" =>
              LET base == Or(s.upper, f[k + 1].addr)
              IN (base + Len(f[k + 1].data)) % AddrSpan = base + Len(f[k + 1].data)
<1> DEFINE rec == f[k + 1]
           base == Or(s.upper, rec.addr)
           end == (base + Len(rec.data)) % AddrSpan
           fail == [s EXCEPT !.more = FALSE, !.ok = FALSE]
           put == [s EXCEPT !.out = Put(@, base, end, rec.data), !.wild = @ \/ Wild(s.out, base, end, rec.data)]
           t == ParseRecord(s, rec)
<1>1. s = [more |-> s.more, ok |-> s.ok, upper |-> s.upper, out |-> s.out, wild |-> s.wild]
      /\ s.more \in BOOLEAN /\ s.ok \in BOOLEAN /\ s.out \in Seq(Bytes) /\ ~s.wild
  BY DEF ParserStates, Tame
<1>2. rec \in Records /\ rec.bad \in BOOLEAN /\ rec.type \in {"data", "eof", "ela", "esa", "start"}
  <2>1. rec \in Records
    OBVIOUS
  <2> HIDE DEF rec
  <2> QED BY <2>1 DEF Records, Record
<1>3. (k + 1) + 1 = k + 2 /\ k + 1 \in DOMAIN f
  OBVIOUS
<1>4. ASSUME ~t.more, ~t.wild PROVE Tame(f, k + 1, t)
  BY <1>4 DEF Tame
<1>5. ASSUME s.more, rec.type = "data" PROVE end = base + Len(rec.data) /\ base \in Nat /\ Len(rec.data) \in Nat
  <2>1. s.upper = Segment(f, k + 1)
    BY <1>5 DEF Tame
  <2>2. base + Len(rec.data) < AddrSpan
    BY <1>3, <1>5, <2>1 DEF NoWrap
  <2>3. base \in Nat
    BY OrType
  <2>4. Len(rec.data) \in Nat
    <3>1. rec.data \in Seq(Bytes)
      <4> HIDE DEF rec
      <4> QED BY <1>2, <1>5 DEF Records, Record
    <3> QED BY <3>1
  <2>5. base + Len(rec.data) \in Nat
    <3> HIDE DEF base, rec
    <3> QED BY <2>3, <2>4
  <2> QED BY <2>2, <2>3, <2>4, <2>5, ModFacts
<1>6. CASE ~s.more
  <2>1. t = s
    BY <1>6 DEF ParseRecord
  <2>2. ~t.more /\ ~t.wild
    BY <1>1, <1>6, <2>1, Zenon
  <2>3. Tame(f, k + 1, t)
    BY <1>4, <2>2, Zenon
  <2> QED BY <1>6, <2>3, Zenon
<1>7. CASE s.more /\ rec.bad
  <2>1. t = fail
    BY <1>7 DEF ParseRecord
  <2>2. ~fail.more /\ ~fail.wild
    BY <1>1
  <2>3. ~t.more /\ ~t.wild
    <3> HIDE DEF t, fail
    <3> QED BY <2>1, <2>2
  <2>4. Tame(f, k + 1, t)
    BY <1>4, <2>3, Zenon
  <2> QED BY <1>5, <1>7, <2>4
<1>8. CASE s.more /\ ~rec.bad
  <2>1. s.upper = Segment(f, k + 1)
    BY <1>8 DEF Tame
  <2>2. Tame(f, k + 1, t)
    <3>1. CASE rec.type = "eof"
      <4>1. t = [s EXCEPT !.more = FALSE]
        BY <3>1, <1>8 DEF ParseRecord
      <4>2. ~t.more /\ ~t.wild
        BY <4>1, <1>1
      <4> QED BY <4>2, <1>4
    <3>2. CASE rec.type \in {"ela", "esa"}
      <4>1. t = IF Len(rec.data) # 1 THEN fail ELSE [s EXCEPT !.upper = Upper(rec)]
        BY <3>2, <1>8 DEF ParseRecord
      <4>2. Segment(f, k + 2) = Upper(rec)
        BY <3>2, SegmentNext
      <4>3. CASE t = fail
        <5>1. ~t.more /\ ~t.wild
          BY <4>3, <1>1
        <5> QED BY <5>1, <1>4
      <4>4. CASE t = [s EXCEPT !.upper = Upper(rec)]
        <5>1. ~t.wild /\ t.upper = Upper(rec)
          BY <4>4, <1>1
        <5> HIDE DEF t
        <5> QED BY <5>1, <4>2, <1>3 DEF Tame
      <4> QED BY <4>1, <4>3, <4>4
    <3>3. CASE rec.type = "start"
      <4>1. t = s
        BY <3>3, <1>8 DEF ParseRecord
      <4>2. Segment(f, k + 2) = Segment(f, k + 1)
        BY <3>3, SegmentNext
      <4> HIDE DEF t
      <4> QED BY <4>1, <4>2, <2>1, <1>1, <1>3 DEF Tame
    <3>4. CASE rec.type = "data"
      <4>1. t = IF end > Capacity THEN fail ELSE put
        BY <3>4, <1>8 DEF ParseRecord
      <4>2. Segment(f, k + 2) = Segment(f, k + 1)
        BY <3>4, SegmentNext
      <4>3. CASE t = fail
        <5>1. ~t.more /\ ~t.wild
          BY <4>3, <1>1
        <5> QED BY <5>1, <1>4
      <4>4. CASE t = put
        <5>1. ~Wild(s.out, base, end, rec.data)
          <6>1. end = base + Len(rec.data) /\ base \in Nat /\ Len(rec.data) \in Nat /\ Len(s.out) \in Nat
            BY <1>1, <1>5, <1>8, <3>4
          <6> HIDE DEF base, end, rec
          <6> QED BY <6>1 DEF Wild, Size
        <5>2. t.upper = s.upper /\ t.wild = (s.wild \/ Wild(s.out, base, end, rec.data))
          <6> HIDE DEF base, end, rec, t
          <6> QED BY <4>4, <1>1
        <5> HIDE DEF t, base, end
        <5> QED BY <5>1, <5>2, <4>2, <2>1, <1>1, <1>3 DEF Tame
      <4> QED BY <4>1, <4>3, <4>4
    <3> QED BY <3>1, <3>2, <3>3, <3>4, <1>2
  <2> QED BY <1>5, <2>2
<1> QED BY <1>6, <1>7, <1>8, <1>1, <1>2

LEMMA ParsedStep ==
  ASSUME NEW f \in Seq(Records), NoWrap(f), NoCarry(f), NEW k \in Nat, k + 1 <= Len(f),
         NEW s \in ParserStates, Tame(f, k, s), Parsed(f, k, s)
  PROVE  Parsed(f, k + 1, ParseRecord(s, f[k + 1]))
<1> DEFINE rec == f[k + 1]
           base == Or(s.upper, rec.addr)
           end == (base + Len(rec.data)) % AddrSpan
           fail == [s EXCEPT !.more = FALSE, !.ok = FALSE]
           put == [s EXCEPT !.out = Put(@, base, end, rec.data), !.wild = @ \/ Wild(s.out, base, end, rec.data)]
           t == ParseRecord(s, rec)
<1> SUFFICES Parsed(f, k + 1, t)
  OBVIOUS
<1>1. s = [more |-> s.more, ok |-> s.ok, upper |-> s.upper, out |-> s.out, wild |-> s.wild]
      /\ s.more \in BOOLEAN /\ s.ok \in BOOLEAN /\ s.out \in Seq(Bytes)
  BY DEF ParserStates
<1>2. rec \in Records /\ rec.bad \in BOOLEAN /\ rec.type \in {"data", "eof", "ela", "esa", "start"}
  <2>1. rec \in Records
    OBVIOUS
  <2> HIDE DEF rec
  <2> QED BY <2>1 DEF Records, Record
<1>3. ~fail.more /\ ~fail.ok
  BY <1>1
<1>4. ASSUME ~t.more, ~t.ok PROVE Parsed(f, k + 1, t)
  BY <1>4 DEF Parsed
<1>5. CASE ~s.more
  <2>1. t = s
    BY <1>5 DEF ParseRecord
  <2>2. 1 .. k \subseteq 1 .. k + 1
    OBVIOUS
  <2> HIDE DEF t
  <2> QED BY <2>1, <2>2, <1>5 DEF Parsed
<1>6. CASE s.more /\ rec.bad
  <2>1. t = fail
    BY <1>6 DEF ParseRecord
  <2> QED BY <2>1, <1>3, <1>4
<1>7. CASE s.more /\ ~rec.bad
  <2>1. s.ok /\ Plain(f, k) /\ s.upper = Segment(f, k + 1) /\ Image(f, k, s.out)
    BY <1>7 DEF Parsed
  <2>2. rec.type # "eof" => Plain(f, k + 1)
    <3>1. \A i \in 1 .. k + 1 : i \in 1 .. k \/ i = k + 1
      OBVIOUS
    <3> QED BY <3>1, <2>1, <1>7 DEF Plain
  <2>3. CASE rec.type = "eof"
    <3>1. t = [s EXCEPT !.more = FALSE]
      BY <2>3, <1>7 DEF ParseRecord
    <3>2. ~t.more /\ t.ok /\ t.out = s.out
      BY <3>1, <1>1, <2>1
    <3>3. k + 1 \in 1 .. k + 1 /\ (k + 1) - 1 = k
      OBVIOUS
    <3> HIDE DEF t
    <3> QED BY <3>2, <3>3, <2>1, <2>3, <1>7 DEF Parsed
  <2>4. CASE rec.type \in {"ela", "esa"}
    <3>1. t = IF Len(rec.data) # 1 THEN fail ELSE [s EXCEPT !.upper = Upper(rec)]
      BY <2>4, <1>7 DEF ParseRecord
    <3>2. CASE t = fail
      BY <3>2, <1>3, <1>4
    <3>3. CASE t = [s EXCEPT !.upper = Upper(rec)]
      <4>1. t.more /\ t.ok /\ t.out = s.out /\ t.upper = Upper(rec)
        BY <3>3, <1>1, <2>1, <1>7
      <4>2. Segment(f, (k + 1) + 1) = Upper(rec)
        <5>1. Segment(f, k + 2) = Upper(f[k + 1])
          BY <2>4, SegmentNext
        <5>2. (k + 1) + 1 = k + 2
          OBVIOUS
        <5> QED BY <5>1, <5>2
      <4>3. Image(f, k + 1, s.out)
        BY <2>1, <2>4, ImageOther
      <4> HIDE DEF t
      <4> QED BY <4>1, <4>2, <4>3, <2>2, <2>4 DEF Parsed
    <3> QED BY <3>1, <3>2, <3>3
  <2>5. CASE rec.type = "start"
    <3>1. t = s
      BY <2>5, <1>7 DEF ParseRecord
    <3>2. Segment(f, k + 2) = Segment(f, k + 1) /\ (k + 1) + 1 = k + 2
      <4>1. Segment(f, k + 2) = Segment(f, k + 1)
        BY <2>5, SegmentNext
      <4>2. (k + 1) + 1 = k + 2
        OBVIOUS
      <4> QED BY <4>1, <4>2
    <3>3. Image(f, k + 1, s.out)
      BY <2>1, <2>5, ImageOther
    <3> HIDE DEF t
    <3> QED BY <3>1, <3>2, <3>3, <2>1, <2>2, <2>5, <1>7 DEF Parsed
  <2>6. CASE rec.type = "data"
    <3>1. t = IF end > Capacity THEN fail ELSE put
      BY <2>6, <1>7 DEF ParseRecord
    <3>2. CASE t = fail
      BY <3>2, <1>3, <1>4
    <3>3. CASE t = put
      <4>0. t.more /\ t.ok /\ t.upper = s.upper /\ t.out = Put(s.out, base, base + Len(rec.data), rec.data)
        <5>1. end = base + Len(rec.data)
          BY <1>7, <2>6, TameStep
        <5> HIDE DEF t, base, rec, end
        <5> QED BY <3>3, <5>1, <1>1, <2>1, <1>7
      <4>1. \A j \in 1 .. k + 1 : f[j].type = "data" => First(f, j) = Or(Segment(f, j), f[j].addr)
        BY DEF NoCarry, First
      <4>2. First(f, k + 1) = base /\ base \in Nat
        BY <4>1, <2>1, <2>6, OrType
      <4>3. \A j \in DataBefore(f, k) : First(f, j) \in Nat
        <5>1. \A j \in DataBefore(f, k) : j \in 1 .. k + 1 /\ f[j].type = "data"
          BY DEF DataBefore
        <5> QED BY <5>1, <4>1, OrType
      <4>4. Image(f, k + 1, Put(s.out, base, base + Len(rec.data), rec.data))
        <5> HIDE DEF base
        <5> QED BY <4>2, <4>3, <2>1, <2>6, <1>1, ImageData
      <4>5. Segment(f, k + 2) = Segment(f, k + 1) /\ (k + 1) + 1 = k + 2
        BY <2>6, SegmentNext
      <4> HIDE DEF t, base
      <4> QED BY <4>0, <4>4, <4>5, <2>1, <2>2, <2>6 DEF Parsed
    <3> QED BY <3>1, <3>2, <3>3
  <2> QED BY <2>3, <2>4, <2>5, <2>6, <1>2
<1> QED BY <1>5, <1>6, <1>7, <1>1, <1>2

\* The loop over the lines, from the first to the last one.
LEMMA ParsedAll ==
  ASSUME NEW f \in Seq(Records), NoWrap(f), NEW p, Parses(p, f)
  PROVE  Tame(f, Len(f), p[Len(f)]) /\ (NoCarry(f) => Parsed(f, Len(f), p[Len(f)]))
<1> DEFINE Inv(k) == Tame(f, k, p[k]) /\ (NoCarry(f) => Parsed(f, k, p[k]))
           S == {k \in Nat : k <= Len(f) => Inv(k)}
<1>0. Len(f) \in Nat
  OBVIOUS
<1>1. 0 \in S
  <2>1. p[0] = FirstParserState
    BY DEF Parses
  <2>2. Segment(f, 1) = 0 /\ Plain(f, 0)
    <3>1. 1 .. 1 - 1 = {} /\ 1 .. 0 = {}
      OBVIOUS
    <3> QED BY <3>1 DEF Segment, Plain
  <2>3. Image(f, 0, <<>>)
    <3>1. 0 .. Len(<<>>) - 1 = {} /\ 1 .. 0 = {}
      OBVIOUS
    <3> QED BY <3>1 DEF Image, DataBefore
  <2>4. Parsed(f, 0, FirstParserState)
    BY <2>2, <2>3 DEF Parsed, FirstParserState
  <2>5. Tame(f, 0, FirstParserState)
    BY <2>2 DEF Tame, FirstParserState
  <2> QED BY <2>1, <2>4, <2>5
<1>2. ASSUME NEW k \in Nat, k \in S PROVE k + 1 \in S
  <2>1. SUFFICES ASSUME k + 1 <= Len(f) PROVE Inv(k + 1)
    OBVIOUS
  <2>2. k + 1 \in 1 .. Len(f) /\ (k + 1) - 1 = k /\ k \in 0 .. Len(f)
    BY <2>1, <1>0
  <2>3. p[k] \in ParserStates /\ p[k + 1] = ParseRecord(p[k], f[k + 1])
    BY <2>2 DEF Parses
  <2>4. Inv(k)
    BY <1>2, <2>1, <1>0
  <2> QED BY <2>1, <2>3, <2>4, TameStep, ParsedStep
<1>3. Nat \subseteq S
  <2> HIDE DEF S
  <2> QED BY <1>1, <1>2, NatSetInduction
<1>4. Inv(Len(f))
  BY <1>3, <1>0
<1> QED BY <1>4

\* A file that is parsed has the meaning of its records.
LEMMA ParsedMeaning ==
  ASSUME NEW f \in Seq(Records), NEW r, NEW n \in 0 .. Len(f), NEW last \in 0 .. Len(f), n <= last,
         Counted(f) = 1 .. last, \A i \in 1 .. last : ~f[i].bad,
         \A i \in 1 .. last : i <= n \/ f[i].type # "data",
         r.out \in Seq(Bytes), r.out # <<>>, Image(f, n, r.out)
  PROVE  McsMeaning(f, r)
<1>0. Len(f) \in Nat
  OBVIOUS
<1>1. DataRecords(f) = DataBefore(f, n)
  BY DEF DataRecords, DataBefore
<1>2. \A x : Writers(f, x) = Covering(f, n, x)
  BY <1>1 DEF Writers, Covering
<1>3. DataRecords(f) # {} /\ \E j \in DataBefore(f, n) : First(f, j) + Len(f[j].data) = Len(r.out)
  BY <1>1 DEF Image
<1>4. \A j \in DataBefore(f, n) : First(f, j) + Len(f[j].data) <= Len(r.out)
  BY DEF Image
<1>5. ASSUME NEW x \in 0 .. Len(r.out) - 1, Writers(f, x) # {}
      PROVE r.out[x + 1] = LET k == CHOOSE k \in Writers(f, x) : \A j \in Writers(f, x) : j <= k
                           IN f[k].data[x - First(f, k) + 1]
  <2> DEFINE T == Writers(f, x)
             k == CHOOSE k \in T : \A j \in T : j <= k
  <2>1. T \in SUBSET (1 .. n)
    BY <1>2 DEF Covering, DataBefore
  <2>2. \E m \in T : \A j \in T : j <= m
    <3> HIDE DEF T
    <3>1. T # {}
      BY <1>5 DEF T
    <3>2. n \in Nat
      OBVIOUS
    <3> QED BY <2>1, <3>1, <3>2, GreatestExists
  <2>3. k \in T /\ \A j \in T : j <= k
    BY <2>2
  <2> HIDE DEF k
  <2>4. r.out[x + 1] = f[k].data[x - First(f, k) + 1]
    BY <2>3, <1>2 DEF Image
  <2> QED BY <2>4 DEF k
<1>6. ~\E k \in Counted(f) : f[k].bad
  OBVIOUS
<1>7. \A x \in 0 .. Len(r.out) - 1 : Writers(f, x) = {} => r.out[x + 1] = Erased
  BY <1>2 DEF Image
<1>8. /\ \A x \in 0 .. Len(r.out) - 1 :
           r.out[x + 1] = IF Writers(f, x) = {} THEN Erased
                          ELSE LET k == CHOOSE k \in Writers(f, x) : \A j \in Writers(f, x) : j <= k
                               IN f[k].data[x - First(f, k) + 1]
  BY <1>5, <1>7
<1> QED BY <1>1, <1>3, <1>4, <1>6, <1>8 DEF McsMeaning

LEMMA McsParserRight ==
  ASSUME NEW f \in Files, f.there, f.kind = "mcs", NoWrap(f.content)
  PROVE  /\ ~LoadImageFile(f).wild
         /\ NoCarry(f.content) => McsMeaning(f.content, LoadImageFile(f))
<1> DEFINE g == f.content
           N == Len(g)
           r == ParseMcsToImage(g)
           l == LoadImageFile(f)
<1>1. g \in Seq(Records) /\ N \in Nat
  <2>1. g \in Seq(Records)
    BY DEF Files
  <2> QED BY <2>1
<1>2. PICK p : Parses(p, g) /\ r = [p[N] EXCEPT !.ok = @ /\ p[N].out # <<>>]
  BY <1>1, ParseFacts
<1> DEFINE s == p[N]
<1>3. s \in ParserStates
  BY <1>1, <1>2 DEF Parses
<1>4. r.ok = (s.ok /\ s.out # <<>>) /\ r.out = s.out /\ s.out \in Seq(Bytes) /\ s.more \in BOOLEAN
      /\ r.wild = s.wild
  <2> HIDE DEF r, s, N
  <2>1. r = [s EXCEPT !.ok = @ /\ s.out # <<>>]
    BY <1>2 DEF s
  <2> QED BY <2>1, <1>3 DEF ParserStates
<1>5. l = [ok |-> r.ok, out |-> r.out, wild |-> r.wild]
  BY DEF LoadImageFile
<1>6. Tame(g, N, s) /\ (NoCarry(g) => Parsed(g, N, s))
  <2> HIDE DEF g
  <2> QED BY <1>1, <1>2, ParsedAll DEF g
<1> HIDE DEF g, r, l, s
<1>7. l.ok = r.ok /\ l.out = r.out /\ ~l.wild
  BY <1>4, <1>5, <1>6 DEF Tame
<1>8. SUFFICES ASSUME NoCarry(g) PROVE McsMeaning(g, l)
  BY <1>7 DEF g, l
<1>9. CASE ~l.ok
  <2>1. \A c \in Counted(g) : TRUE
    OBVIOUS
  <2> QED BY <1>9 DEF McsMeaning
<1>10. CASE l.ok
  <2>1. s.ok /\ l.out = s.out /\ l.out # <<>> /\ l.out \in Seq(Bytes)
    BY <1>10, <1>7, <1>4
  <2>2. CASE s.more
    <3>1. Plain(g, N) /\ Image(g, N, l.out)
      BY <2>2, <2>1, <1>6, <1>8 DEF Parsed
    <3>2. Counted(g) = 1 .. N /\ (\A i \in 1 .. N : ~g[i].bad) /\ N \in 0 .. N
          /\ \A i \in 1 .. N : i <= N \/ g[i].type # "data"
      BY <3>1, <1>1 DEF Plain, Counted
    <3>3. McsMeaning(g, l)
      BY <3>1, <3>2, <2>1, <1>1, ParsedMeaning
    <3> QED BY <3>3
  <2>3. CASE ~s.more
    <3>1. PICK e \in 1 .. N : /\ g[e].type = "eof" /\ ~g[e].bad /\ Plain(g, e - 1)
                              /\ Image(g, e - 1, l.out)
      BY <2>3, <2>1, <1>6, <1>8 DEF Parsed
    <3>2. Counted(g) = 1 .. e
      <4>1. \A k \in 1 .. e : k \in Counted(g)
        <5>1. \A k \in 1 .. e : \A i \in 1 .. k - 1 : i \in 1 .. e - 1
          BY <1>1
        <5> QED BY <5>1, <3>1, <1>1 DEF Plain, Counted
      <4>2. ASSUME NEW k \in Counted(g) PROVE k \in 1 .. e
        <5>1. k \in 1 .. N /\ \A i \in 1 .. k - 1 : g[i].type # "eof"
          BY <1>1 DEF Counted
        <5>2. e \notin 1 .. k - 1
          BY <5>1, <3>1
        <5> QED BY <5>1, <5>2, <1>1
      <4> QED BY <4>1, <4>2
    <3>3. (\A i \in 1 .. e : ~g[i].bad) /\ \A i \in 1 .. e : i <= e - 1 \/ g[i].type # "data"
      <4>1. \A i \in 1 .. e : i \in 1 .. e - 1 \/ i = e
        BY <1>1
      <4>2. \A i \in 1 .. e - 1 : i <= e - 1
        BY <1>1
      <4> QED BY <4>1, <4>2, <3>1 DEF Plain
    <3>4. e - 1 \in 0 .. N /\ e \in 0 .. N /\ e - 1 <= e
      BY <1>1
    <3>5. McsMeaning(g, l)
      BY <3>1, <3>2, <3>3, <3>4, <2>1, <1>1, ParsedMeaning
    <3> QED BY <3>5
  <2> QED BY <2>2, <2>3, <1>4
<1> QED BY <1>9, <1>10
---------------------------------------------------------------------------
(* The configuration of the PL                                             *)

\* The states of the PL before its startup clocks.
Unstarted == {"clearing", "clear", "spoiled", "short", "crc", "loaded"}

PlTypeOK ==
  /\ pc \in {"idle", "load", "jprogram", "wait", "cfg_in", "shift", "jstart", "startup", "bypass",
             "poll", "returned"}
  /\ pl \in [state : Unstarted \cup {"old", "starting", "started"}, locked : BOOLEAN]
  /\ bits \in [there : BOOLEAN, words : Seq(Words)]
  /\ poll \in [attempt : 0 .. MaxPolls, status : {"zero", "done", "crc", "waiting"},
               any_nonzero : BOOLEAN, read : BOOLEAN]
  /\ result \in {"none", "true", "false"}
  /\ fault \in Nat /\ late \in BOOLEAN
  /\ pc # "returned" => poll.attempt < MaxPolls
  /\ pc = "returned" <=> result # "none"

\* The port locks only after DONE, so that a STAT register that reads zero says
\* that DONE is high.
LockInv ==
  /\ pl.locked => PlDone
  /\ pc \in {"wait", "cfg_in", "shift", "jstart", "startup"} => pl.state \in Unstarted
  /\ poll.read => pc \in {"poll", "returned"}
  /\ ~poll.any_nonzero => poll.status = "zero"
  /\ poll.read /\ pc = "poll" /\ poll.status = "zero" => pl.locked
  /\ poll.read /\ result = "true" => PlDone

\* What the PL is when no call failed and the bitstream is good.
CleanInv ==
  fault = 0 =>
    /\ pc \in {"cfg_in", "shift"} => pl.state = "clear"
    /\ Good(bits.words) =>
         /\ pc \in {"jstart", "startup"} => pl.state = "loaded"
         /\ pc \in {"bypass", "poll"} => pl.state \in {"starting", "started"}
         /\ result = "true" => pl.state = "started"
         /\ result = "false" /\ bits.there => late

---------------------------------------------------------------------------
(* The flash                                                               *)

\* The first n bytes of the image are in the flash, and nothing else is.
Holds(n) == \A x \in 0 .. Capacity - 1 : chip.mem[x] = IF x < n THEN image[x + 1] ELSE Erased

Early == {"bridge", "reset", "id"}
Idle == {"image", "erase_wren", "erase", "page_wren", "page", "verify"}
Late == Idle \cup {"erase_wait", "page_wait"}
Write == {"erase_wren", "erase", "erase_wait", "page_wren", "page", "page_wait", "verify"}

ChipOK(c) ==
  /\ c = [jedec |-> c.jedec, mem |-> c.mem, wel |-> c.wel, op |-> c.op]
  /\ c.mem \in [0 .. Capacity - 1 -> Bytes] /\ c.wel \in BOOLEAN

FlashTypeOK ==
  /\ tool \in {"none", "pl", "flash"} /\ answer \in {"none", "true", "false", "crashed"}
  /\ fp \in Early \cup Late \cup {"off", "ended"}
  /\ fp \in Early \cup Late <=> tool = "flash" /\ answer = "none"
  /\ loaded \in [ok : BOOLEAN, out : Seq(Bytes), wild : BOOLEAN] /\ image \in Seq(Bytes) /\ Len(image) <= Capacity
  /\ off \in 0 .. Capacity + Chunk
  /\ {user1, expired, busy0} \subseteq BOOLEAN
  /\ ChipOK(chip)
  /\ tool = "flash" => bits = [there |-> TRUE, words |-> Bridge]

\* Where program() is, the bridge it talks through and the state of the chip.
BridgeInv ==
  /\ fp \in (Early \cup Late) \ {"bridge"} => result = "true"
  /\ tool = "flash" /\ fp # "bridge" => result # "none"
  /\ fp \in Late => user1 /\ Spi /\ chip.jedec = Jedec
  /\ fp \in Early => ~user1
  /\ fp \in Early /\ Wip => busy0
  /\ fp \in Idle => ~Wip
  /\ fp \in {"erase", "page"} => chip.wel
  /\ fp \in {"erase_wait", "page_wait"} /\ expired => late

\* What the chip holds.
ContentInv ==
  /\ fp \in Write => image = loaded.out /\ Fits
  /\ fp \in Early \cup {"image", "erase_wren", "erase", "erase_wait"} => off = 0
  /\ fp = "erase_wait" => IF Wip THEN chip.op = <<"BULK_ERASE">> ELSE Holds(0)
  /\ fp \in {"page_wren", "page", "page_wait"} => off % Page = 0 /\ off <= Len(image)
  /\ fp \in {"page_wren", "page"} => Holds(off)
  /\ fp = "page_wait" => IF Wip THEN /\ chip.op = <<"PAGE_PROGRAM", off, SubSeq(image, off + 1, off + PageLen)>>
                                     /\ Holds(off)
                         ELSE Holds(off + PageLen)
  /\ fp = "verify" => Holds(Len(image)) /\ off <= Len(image)
  /\ tool = "flash" /\ answer = "true" => Holds(Len(image)) /\ ~Wip /\ image = loaded.out
  /\ tool = "flash" /\ answer = "false" /\ fault = 0 /\ ~late /\ ~busy0 =>
       chip.jedec # Jedec \/ ~Fits

PlInv == PlTypeOK /\ LockInv /\ CleanInv
FlashInv == FlashTypeOK /\ BridgeInv /\ ContentInv
ProgInv == PlInv /\ FlashInv

\* One sequence after another.
LEMMA Joined ==
  ASSUME NEW S, NEW s \in Seq(S), NEW t \in Seq(S)
  PROVE  /\ s \o t \in Seq(S) /\ Len(s \o t) = Len(s) + Len(t)
         /\ \A i \in 1 .. Len(s) + Len(t) : (s \o t)[i] = IF i <= Len(s) THEN s[i] ELSE t[i - Len(s)]
  OBVIOUS

LEMMA ZerosFacts ==
  ASSUME NEW m \in Nat
  PROVE  /\ Zeros(m) \in Seq(Words \cup {"0"}) /\ Len(Zeros(m)) = m
         /\ \A i \in 1 .. m : Zeros(m)[i] = "0"
  BY DEF Zeros

\* A good bitstream configures the PL: what the BYPASS registers add comes
\* before the sync word and after the frames.
LEMMA ConfiguredGood ==
  ASSUME NEW words \in Seq(Words), Good(words)
  PROVE  Configured(Received(Tdi(words))) = "loaded"
<1>1. PICK g \in DOMAIN words : /\ words[g] = "sync" /\ \A j \in 1 .. g - 1 : words[j] # "sync"
                                /\ SubSeq(words, g + 1, Len(words)) = Frames
  BY DEF Good
<1>2. g \in 1 .. Len(words) /\ Len(words) \in Nat /\ Before \in Nat /\ After \in Nat
  BY PlAssumption
<1> DEFINE n == Len(words) - g + 1
           body == LoadBitstream(words)
           tdi == Tdi(words)
           got == Received(tdi)
<1>3. body = SubSeq(words, g, Len(words))
  <2> DEFINE at == {i \in DOMAIN words : words[i] = "sync"}
  <2>1. g \in at /\ \A j \in at : g <= j
    BY <1>1, <1>2
  <2>2. (CHOOSE i \in at : \A j \in at : i <= j) = g
    <3>1. at \subseteq Nat
      BY <1>2
    <3> HIDE DEF at
    <3>2. \A i \in at : (\A j \in at : i <= j) => i = g
      BY <2>1, <3>1
    <3> QED BY <2>1, <3>2
  <2> HIDE DEF at
  <2>3. LoadBitstream(words) = IF at = {} THEN words
                               ELSE SubSeq(words, CHOOSE i \in at : \A j \in at : i <= j, Len(words))
    BY DEF LoadBitstream, at
  <2> QED BY <2>1, <2>2, <2>3
<1>4. body \in Seq(Words) /\ Len(body) = n /\ \A i \in 1 .. n : body[i] = words[g + i - 1]
  <2> HIDE DEF body
  <2> QED BY <1>2, <1>3
<1>5. n \in Nat /\ n >= 1
  BY <1>2
<1> HIDE DEF body, n
<1> DEFINE b == Before a == After
           z == Zeros(b + a)
           y == Zeros(a)
<1>7. /\ Len(tdi) = n + b + a
      /\ \A i \in 1 .. n + b + a : tdi[i] = IF i <= n THEN body[i] ELSE "0"
      /\ tdi \in Seq(Words \cup {"0"})
  <2>1. z \in Seq(Words \cup {"0"}) /\ Len(z) = b + a /\ \A i \in 1 .. b + a : z[i] = "0"
    <3>1. b + a \in Nat
      BY <1>2
    <3> DEFINE c == b + a
    <3> HIDE DEF c
    <3>2. Zeros(c) \in Seq(Words \cup {"0"}) /\ Len(Zeros(c)) = c /\ \A i \in 1 .. c : Zeros(c)[i] = "0"
      BY <3>1, ZerosFacts DEF c
    <3> QED BY <3>2 DEF c
  <2>2. tdi = body \o z /\ body \in Seq(Words \cup {"0"})
    BY <1>4 DEF Tdi, body
  <2> HIDE DEF z
  <2>3. /\ body \o z \in Seq(Words \cup {"0"}) /\ Len(body \o z) = Len(body) + Len(z)
        /\ \A i \in 1 .. Len(body) + Len(z) :
             (body \o z)[i] = IF i <= Len(body) THEN body[i] ELSE z[i - Len(body)]
    BY <2>1, <2>2, Joined
  <2> DEFINE joined == body \o z
  <2>4. joined = tdi
    BY <2>2
  <2> HIDE DEF tdi, joined
  <2>5. Len(joined) = n + b + a
    BY <2>1, <2>3, <1>2, <1>4, <1>5 DEF joined
  <2>6. ASSUME NEW i \in 1 .. n + b + a PROVE joined[i] = IF i <= n THEN body[i] ELSE "0"
    <3>1. i \in 1 .. Len(body) + Len(z) /\ Len(body) = n
      BY <2>1, <1>2, <1>4, <1>5
    <3>2. joined[i] = IF i <= n THEN body[i] ELSE z[i - n]
      BY <3>1, <2>3 DEF joined
    <3>3. ~(i <= n) => i - n \in 1 .. b + a
      BY <1>2, <1>5
    <3> QED BY <3>2, <3>3, <2>1
  <2>7. joined \in Seq(Words \cup {"0"})
    BY <2>3 DEF joined
  <2> QED BY <2>4, <2>5, <2>6, <2>7
<1>8. /\ Len(got) = n + b + a
      /\ \A i \in 1 .. n + b + a : got[i] = IF i <= a THEN "0" ELSE tdi[i - a]
  <2>1. y \in Seq(Words \cup {"0"}) /\ Len(y) = a /\ \A i \in 1 .. a : y[i] = "0"
    BY <1>2, ZerosFacts
  <2>2. got = SubSeq(y \o tdi, 1, n + b + a)
    BY <1>7 DEF Received
  <2> DEFINE w == y \o tdi
  <2>3. w \in Seq(Words \cup {"0"}) /\ Len(w) = a + (n + b + a)
        /\ \A i \in 1 .. a + (n + b + a) : w[i] = IF i <= a THEN y[i] ELSE tdi[i - a]
    <3> HIDE DEF y, tdi
    <3>1. /\ y \o tdi \in Seq(Words \cup {"0"}) /\ Len(y \o tdi) = Len(y) + Len(tdi)
          /\ \A i \in 1 .. Len(y) + Len(tdi) :
               (y \o tdi)[i] = IF i <= Len(y) THEN y[i] ELSE tdi[i - Len(y)]
      BY ZenonT(60), <1>7, <2>1, Joined
    <3>2. Len(y) + Len(tdi) = a + (n + b + a) /\ Len(y) = a
      BY <1>7, <2>1
    <3> QED BY <3>1, <3>2
  <2> HIDE DEF w, y, got, tdi
  <2>4. got = SubSeq(w, 1, n + b + a)
    BY <2>2 DEF w
  <2>5. Len(got) = n + b + a /\ \A i \in 1 .. n + b + a : got[i] = w[i]
    BY <2>3, <2>4, <1>2, <1>5
  <2> QED BY <2>1, <2>3, <2>5, <1>2, <1>5
<1> HIDE DEF tdi, got, b, a
<1>9. b \in Nat /\ a \in Nat
  BY <1>2 DEF b, a
<1>10. \A i \in 1 .. n + b + a :
         got[i] = IF i <= a \/ i > a + n THEN "0" ELSE words[g + (i - a) - 1]
  <2>1. ASSUME NEW i \in 1 .. n + b + a, i > a, i <= a + n PROVE got[i] = words[g + (i - a) - 1]
    <3>1. i - a \in 1 .. n /\ i - a \in 1 .. n + b + a
      BY <2>1, <1>9, <1>5
    <3>2. got[i] = tdi[i - a]
      BY <2>1, <1>8, <1>9, <1>5
    <3> QED BY <3>1, <3>2, <1>7, <1>4
  <2>2. ASSUME NEW i \in 1 .. n + b + a, i > a + n PROVE got[i] = "0"
    <3>1. i - a \in 1 .. n + b + a /\ ~(i - a <= n)
      BY <2>2, <1>9, <1>5
    <3>2. got[i] = tdi[i - a]
      BY <2>2, <1>8, <1>9, <1>5
    <3> QED BY <3>1, <3>2, <1>7
  <2> QED BY <2>1, <2>2, <1>8, <1>9, <1>5
<1> DEFINE at == {i \in DOMAIN got : got[i] = "sync"}
           first == CHOOSE i \in at : \A j \in at : i <= j
           rest == SubSeq(got, first + 1, Len(got))
<1>11. got \in Seq(Words \cup {"0"}) /\ DOMAIN got = 1 .. n + b + a
  <2>1. got = SubSeq(Zeros(After) \o tdi, 1, Len(tdi))
    BY DEF got, Received, tdi
  <2>2. Zeros(After) \in Seq(Words \cup {"0"})
    BY <1>2, ZerosFacts
  <2>3. got \in Seq(Words \cup {"0"})
    <3> DEFINE zz == Zeros(After)
    <3> HIDE DEF zz
    <3>1. zz \o tdi \in Seq(Words \cup {"0"}) /\ Len(tdi) \in Nat /\ Len(tdi) <= Len(zz \o tdi)
      BY <2>2, <1>7 DEF zz
    <3> QED BY <2>1, <3>1 DEF zz
  <2> QED BY <2>3, <1>8
<1>12. first = a + 1
  <2>1. a + 1 \in at
    <3>1. a + 1 \in 1 .. n + b + a /\ ~(a + 1 <= a \/ a + 1 > a + n)
      BY <1>5, <1>9
    <3>2. g + ((a + 1) - a) - 1 = g
      BY <1>2, <1>9
    <3>3. got[a + 1] = words[g + ((a + 1) - a) - 1]
      BY <3>1, <1>10
    <3> QED BY <3>1, <3>2, <3>3, <1>1, <1>11
  <2>2. \A j \in at : j \in Nat /\ a + 1 <= j
    <3>1. ASSUME NEW j \in at PROVE a + 1 <= j
      <4>1. j \in 1 .. n + b + a /\ got[j] = "sync"
        BY <1>11
      <4>2. ~(j <= a)
        BY <4>1, <1>10
      <4> QED BY <4>1, <4>2, <1>9, <1>5
    <3> QED BY <3>1, <1>11
  <2> HIDE DEF at
  <2>3. \A i \in at : (\A j \in at : i <= j) => i = a + 1
    BY <2>1, <2>2, <1>9
  <2> QED BY <2>1, <2>2, <2>3
<1>13. at # {}
  <2>1. a + 1 \in at
    <3>1. a + 1 \in 1 .. n + b + a /\ ~(a + 1 <= a \/ a + 1 > a + n)
      BY <1>5, <1>9
    <3>2. g + ((a + 1) - a) - 1 = g
      BY <1>2, <1>9
    <3>3. got[a + 1] = words[g + ((a + 1) - a) - 1]
      BY <3>1, <1>10
    <3> QED BY <3>1, <3>2, <3>3, <1>1, <1>11
  <2> QED BY <2>1
<1>14. /\ Len(Frames) = n - 1
       /\ \A i \in 1 .. n - 1 : Frames[i] = words[g + i]
  <2>1. Frames = SubSeq(words, g + 1, Len(words))
    BY <1>1
  <2> QED BY <2>1, <1>2 DEF n
<1> HIDE DEF first, at
<1>15. /\ rest \in Seq(Words \cup {"0"}) /\ Len(rest) = n + b - 1
       /\ \A i \in 1 .. n + b - 1 : rest[i] = IF i <= n - 1 THEN Frames[i] ELSE "0"
  <2>1. rest = SubSeq(got, a + 2, n + b + a)
    BY <1>8, <1>12, <1>9
  <2> HIDE DEF rest
  <2>2. rest \in Seq(Words \cup {"0"}) /\ Len(rest) = n + b - 1 /\ \A i \in 1 .. n + b - 1 : rest[i] = got[i + a + 1]
    BY <2>1, <1>11, <1>8, <1>9, <1>5
  <2>3. ASSUME NEW i \in 1 .. n + b - 1 PROVE got[i + a + 1] = IF i <= n - 1 THEN Frames[i] ELSE "0"
    <3>1. i + a + 1 \in 1 .. n + b + a /\ i + a + 1 > a /\ (i + a + 1 > a + n <=> ~(i <= n - 1))
      BY <1>9, <1>5
    <3>2. g + ((i + a + 1) - a) - 1 = g + i
      BY <1>9, <1>2
    <3>3. i <= n - 1 => i \in 1 .. n - 1
      BY <1>5, <1>9
    <3> QED BY <3>1, <3>2, <3>3, <1>10, <1>14, <1>9, <1>5
  <2> QED BY <2>2, <2>3
<1> HIDE DEF rest
<1>16. ~\E i \in DOMAIN rest : rest[i] = "bad"
  <2>1. \A i \in 1 .. n - 1 : Frames[i] # "bad"
    BY PlAssumption, <1>14
  <2>2. DOMAIN rest = 1 .. n + b - 1
    BY <1>15
  <2>3. \A i \in 1 .. n + b - 1 : i <= n - 1 => i \in 1 .. n - 1
    BY <1>5, <1>9
  <2> QED BY <1>15, <2>1, <2>2, <2>3
<1>17. IsPrefix(Frames, rest)
  <2>1. Len(Frames) <= Len(rest)
    BY <1>14, <1>15, <1>9, <1>5
  <2>2. SubSeq(rest, 1, Len(Frames)) = Frames
    <3>1. SubSeq(rest, 1, n - 1) \in Seq(Words \cup {"0"}) /\ Len(SubSeq(rest, 1, n - 1)) = n - 1
          /\ \A i \in 1 .. n - 1 : SubSeq(rest, 1, n - 1)[i] = rest[i]
      BY <1>15, <1>5, <1>9
    <3>2. \A i \in 1 .. n - 1 : rest[i] = Frames[i]
      BY <1>15, <1>5, <1>9
    <3>3. Frames \in Seq(Words \cup {"0"})
      BY PlAssumption
    <3> DEFINE u == SubSeq(rest, 1, n - 1)
    <3> HIDE DEF u
    <3>4. u \in Seq(Words \cup {"0"}) /\ Len(u) = Len(Frames) /\ \A i \in 1 .. Len(Frames) : u[i] = Frames[i]
      BY <3>1, <3>2, <1>14 DEF u
    <3>5. u = Frames
      BY <3>3, <3>4
    <3> QED BY <3>5, <1>14 DEF u
  <2> QED BY <2>1, <2>2 DEF IsPrefix
<1> QED
  <2>1. Configured(got) = CASE at = {} -> "short"
                            [] at # {} /\ (\E i \in DOMAIN rest : rest[i] = "bad") -> "crc"
                            [] at # {} /\ IsPrefix(Frames, rest) -> "loaded"
                            [] OTHER -> "short"
    BY DEF Configured, at, first, rest
  <2>2. Configured(got) = "loaded"
    BY <2>1, <1>13, <1>16, <1>17
  <2> QED BY <2>2 DEF got, tdi

\* The scan of the body gives the PL a configuration it takes when the bitstream
\* is good: the bits the BYPASS registers add come before the sync word and
\* after the frames.
LEMMA ConfiguredType == ASSUME NEW s PROVE Configured(s) \in {"short", "crc", "loaded"}
  BY DEF Configured

LEMMA PlStatesKept ==
  ASSUME PlTypeOK
  PROVE  pl = [state |-> pl.state, locked |-> pl.locked]
  BY DEF PlTypeOK

\* A step of program() does not touch the flash.
LEMMA FlashUntouched ==
  ASSUME ProgInv, result = "none", UNCHANGED <<bits, flash_vars>>
  PROVE  FlashInv'
<1> USE DEF ProgInv, FlashInv, flash_vars
<1>1. UNCHANGED <<bits, tool, file, loaded, fp, user1, image, off, expired, answer, chip, busy0, runs>>
  OBVIOUS
<1>2. fp \in Early \cup Late => fp = "bridge"
  BY DEF BridgeInv
<1>3. tool = "flash" => fp = "bridge" /\ answer = "none"
  BY <1>2 DEF BridgeInv, FlashTypeOK
<1>4. FlashTypeOK'
  BY <1>1 DEF FlashTypeOK
<1>5. fp \notin Late /\ fp \notin Write /\ fp \notin Idle /\ (fp \in Early => fp = "bridge")
      /\ fp \notin {"image", "erase_wren", "erase", "erase_wait", "page_wren", "page", "page_wait", "verify"}
  BY <1>2 DEF Early, Late, Idle, Write
<1>6. BridgeInv'
  BY <1>1, <1>2, <1>3, <1>5 DEF BridgeInv, Wip, NoOp
<1>7. ContentInv'
  BY <1>1, <1>3, <1>5 DEF ContentInv
<1> QED BY <1>4, <1>6, <1>7

LEMMA LoadStep == ASSUME PlInv, Load PROVE PlInv'
<1> USE DEF PlInv, Load, Return
<1>1. PlTypeOK'
  BY DEF PlTypeOK
<1>2. LockInv'
  BY DEF PlTypeOK, LockInv, PlDone
<1>3. CleanInv'
  <2>1. Good(bits.words) => bits.words # <<>>
    BY DEF Good
  <2> QED BY <2>1 DEF PlTypeOK, CleanInv
<1> QED BY <1>1, <1>2, <1>3

LEMMA JProgramStep == ASSUME PlInv, JProgram PROVE PlInv'
<1> USE DEF PlInv, JProgram, Scan, Return, Loads
<1>1. PlTypeOK'
  <2>1. pl' = [state |-> "clearing", locked |-> FALSE] \/ pl' = pl
    OBVIOUS
  <2>2. pl' \in [state : Unstarted \cup {"old", "starting", "started"}, locked : BOOLEAN]
    <3>1. "clearing" \in Unstarted
      BY DEF Unstarted
    <3>2. pl \in [state : Unstarted \cup {"old", "starting", "started"}, locked : BOOLEAN]
      BY DEF PlTypeOK
    <3>3. [state |-> "clearing", locked |-> FALSE] \in [state : Unstarted \cup {"old", "starting", "started"},
                                                        locked : BOOLEAN]
      BY <3>1
    <3> QED BY <2>1, <3>2, <3>3, Zenon
  <2>3. /\ pc = "jprogram" /\ UNCHANGED <<bits, poll, late>>
        /\ \/ pc' = "wait" /\ UNCHANGED <<result, fault>>
           \/ pc' = "returned" /\ result' = "false" /\ fault' = fault + 1
    OBVIOUS
  <2> QED BY ONLY <2>2, <2>3, PlTypeOK DEF PlTypeOK
<1>2. LockInv'
  BY DEF PlTypeOK, LockInv, PlDone, Unstarted
<1>3. CleanInv'
  BY DEF PlTypeOK, CleanInv
<1> QED BY <1>1, <1>2, <1>3

LEMMA WaitInitBStep == ASSUME PlInv, WaitInitB PROVE PlInv'
<1> USE DEF PlInv, WaitInitB, Idling, ToState
<1>0. pl' = pl \/ (pl' = [state |-> "clear", locked |-> pl.locked] /\ pl.locked \in BOOLEAN)
  BY PlStatesKept DEF PlTypeOK
<1>1. PlTypeOK'
  BY <1>0 DEF PlTypeOK, Unstarted
<1>2. LockInv'
  BY <1>0 DEF PlTypeOK, LockInv, PlDone, Unstarted
<1>3. CleanInv'
  BY PlStatesKept DEF PlTypeOK, CleanInv
<1> QED BY <1>1, <1>2, <1>3

LEMMA CfgInStep == ASSUME PlInv, CfgIn PROVE PlInv'
<1> USE DEF PlInv, CfgIn, Scan, Return, Loads, ToState
<1> DEFINE s == IF pl.state = "clearing" THEN "spoiled" ELSE pl.state
<1>0. pl' = pl \/ pl' = [state |-> s, locked |-> pl.locked]
  BY PlStatesKept DEF PlTypeOK
<1>1. PlTypeOK'
  BY <1>0, PlStatesKept DEF PlTypeOK, Unstarted
<1>2. LockInv'
  BY <1>0 DEF PlTypeOK, LockInv, PlDone, Unstarted
<1>3. CleanInv'
  BY PlStatesKept DEF PlTypeOK, CleanInv
<1> QED BY <1>1, <1>2, <1>3

LEMMA ShiftBodyStep == ASSUME PlInv, ShiftBody PROVE PlInv'
<1> USE DEF PlInv
<1> DEFINE c == Configured(Received(Tdi(bits.words)))
           s == IF pl.state = "clear" THEN c ELSE pl.state
<1>a. c \in {"short", "crc", "loaded"}
  BY ConfiguredType
<1>b. Good(bits.words) => c = "loaded"
  BY ConfiguredGood DEF PlTypeOK
<1>c. /\ pc = "shift" /\ UNCHANGED <<ir, bits, poll, late>>
      /\ \/ pl' = [pl EXCEPT !.state = s] /\ pc' = "jstart" /\ UNCHANGED <<result, fault>>
         \/ (pl' = [pl EXCEPT !.state = s] \/ UNCHANGED pl) /\ result' = "false" /\ pc' = "returned" /\ fault' = fault + 1
  BY DEF ShiftBody, Scan, Return, ToState
<1> HIDE DEF c
<1>0. pl' = pl \/ pl' = [state |-> s, locked |-> pl.locked]
  BY <1>c, PlStatesKept DEF PlTypeOK
<1>1. PlTypeOK'
  BY <1>0, <1>a, <1>c, PlStatesKept DEF PlTypeOK, Unstarted
<1>2. LockInv'
  BY <1>0, <1>a, <1>c DEF PlTypeOK, LockInv, PlDone, Unstarted
<1>3. CleanInv'
  BY <1>a, <1>b, <1>c, PlStatesKept DEF PlTypeOK, CleanInv
<1> QED BY <1>1, <1>2, <1>3

LEMMA JStartStep == ASSUME PlInv, JStart PROVE PlInv'
<1> USE DEF PlInv, JStart, Scan, Return, Loads
<1>1. PlTypeOK'
  BY DEF PlTypeOK
<1>2. LockInv'
  BY DEF PlTypeOK, LockInv, PlDone, Unstarted
<1>3. CleanInv'
  BY DEF PlTypeOK, CleanInv
<1> QED BY <1>1, <1>2, <1>3

LEMMA StartupStep == ASSUME PlInv, StartupClocks PROVE PlInv'
<1> USE DEF PlInv, StartupClocks, Idling, ToState
<1> DEFINE s == IF pl.state = "loaded" THEN "starting" ELSE pl.state
<1>0. pl' = pl \/ pl' = [state |-> s, locked |-> pl.locked]
  BY PlStatesKept DEF PlTypeOK
<1>1. PlTypeOK'
  BY <1>0, PlStatesKept DEF PlTypeOK, Unstarted
<1>2. LockInv'
  BY <1>0 DEF PlTypeOK, LockInv, PlDone, Unstarted
<1>3. CleanInv'
  BY PlStatesKept DEF PlTypeOK, CleanInv
<1> QED BY <1>1, <1>2, <1>3

LEMMA LoadBypassStep == ASSUME PlInv, LoadBypass PROVE PlInv'
<1> USE DEF PlInv, LoadBypass, Scan, Return, Loads
<1>1. PlTypeOK'
  BY DEF PlTypeOK
<1>2. LockInv'
  BY DEF PlTypeOK, LockInv, PlDone, Unstarted
<1>3. CleanInv'
  BY DEF PlTypeOK, CleanInv
<1> QED BY <1>1, <1>2, <1>3

LEMMA PollStep == ASSUME PlInv, Poll PROVE PlInv'
<1> USE DEF PlInv
<1>0. PICK s \in {Stat, "unread"} :
        LET p == IF s = "unread" THEN [poll EXCEPT !.attempt = @ + 1]
                 ELSE [attempt |-> poll.attempt + 1, status |-> s, read |-> TRUE,
                       any_nonzero |-> poll.any_nonzero \/ s # "zero"]
            over == s = "crc" \/ p.attempt = MaxPolls
        IN /\ poll' = p
           /\ fault' = IF s = "unread" THEN fault + 1 ELSE fault
           /\ late' = (over /\ pl.state = "starting")
           /\ CASE s = "done" -> Return("true")
                [] s # "done" /\ over -> Return(PollEnd(p))
                [] OTHER -> UNCHANGED <<pc, result>>
  BY DEF Poll
<1>1. pc = "poll" /\ UNCHANGED <<pl, bits>> /\ result = "none"
  BY DEF Poll, PlTypeOK
<1> DEFINE a == poll.attempt + 1
           over == s = "crc" \/ a = MaxPolls
<1>2. Stat \in {"zero", "done", "crc", "waiting"}
  BY DEF Stat
<1>3. a \in 0 .. MaxPolls /\ a \in Nat
  BY <1>1, PlAssumption DEF PlTypeOK
<1>4. poll = [attempt |-> poll.attempt, status |-> poll.status, any_nonzero |-> poll.any_nonzero,
              read |-> poll.read]
      /\ poll.status \in {"zero", "done", "crc", "waiting"} /\ poll.any_nonzero \in BOOLEAN
      /\ poll.read \in BOOLEAN
  BY DEF PlTypeOK
<1>5. CASE s = "unread"
  <2>1. poll' = [attempt |-> a, status |-> poll.status, any_nonzero |-> poll.any_nonzero, read |-> poll.read]
    BY <1>0, <1>4, <1>5
  <2>2. poll'.attempt = a /\ poll'.status = poll.status /\ poll'.any_nonzero = poll.any_nonzero
        /\ poll'.read = poll.read
    BY <2>1
  <2>3. fault' = fault + 1 /\ late' = (a = MaxPolls /\ pl.state = "starting")
    BY <1>0, <1>5, <2>1
  <2>4. \/ a = MaxPolls /\ result' = PollEnd(poll') /\ pc' = "returned"
        \/ a # MaxPolls /\ UNCHANGED <<pc, result>>
    BY <1>0, <1>5, <2>1 DEF Return
  <2>5. PollEnd(poll') = IF poll.status = "crc" THEN "false"
                         ELSE IF ~poll.any_nonzero \/ poll.status = "zero" THEN "true" ELSE "false"
    BY <2>2 DEF PollEnd
  <2>6. PlTypeOK'
    <3>1. poll' \in [attempt : 0 .. MaxPolls, status : {"zero", "done", "crc", "waiting"},
                     any_nonzero : BOOLEAN, read : BOOLEAN]
      BY <2>1, <1>3, <1>4
    <3>2. pc' # "returned" => poll'.attempt < MaxPolls
      BY <2>2, <2>4, <1>3, PlAssumption
    <3>3. late' \in BOOLEAN
      BY <2>3
    <3>4. PollEnd(poll') \in {"true", "false"}
      BY <2>5
    <3>5. result' \in {"none", "true", "false"} /\ (pc' = "returned" <=> result' # "none")
          /\ pc' \in {"poll", "returned"}
      BY <1>1, <2>4, <3>4
    <3>6. fault' \in Nat
      BY <2>3 DEF PlTypeOK
    <3> QED BY ONLY <1>1, <3>1, <3>2, <3>3, <3>5, <3>6, PlTypeOK DEF PlTypeOK
  <2>7. LockInv'
    BY <1>1, <1>3, <1>4, <2>2, <2>4, <2>5 DEF LockInv, PlTypeOK, PlDone
  <2>8. CleanInv'
    BY <1>1, <2>3 DEF CleanInv, PlTypeOK
  <2> QED BY <2>6, <2>7, <2>8
<1>6. CASE s = Stat
  <2>0. s # "unread" /\ s \in {"zero", "done", "crc", "waiting"}
    BY <1>6, <1>2
  <2> DEFINE any == poll.any_nonzero \/ s # "zero"
  <2>1. poll' = [attempt |-> a, status |-> s, read |-> TRUE, any_nonzero |-> any]
    BY <1>0, <2>0
  <2>2. poll'.attempt = a /\ poll'.status = s /\ poll'.any_nonzero = any /\ poll'.read = TRUE
    BY <2>1
  <2>3. fault' = fault /\ late' = (over /\ pl.state = "starting")
    BY <1>0, <2>0, <2>1
  <2>4. \/ s = "done" /\ result' = "true" /\ pc' = "returned"
        \/ s # "done" /\ over /\ result' = PollEnd(poll') /\ pc' = "returned"
        \/ s # "done" /\ ~over /\ UNCHANGED <<pc, result>>
    BY <1>0, <2>0, <2>1 DEF Return
  <2>5. PollEnd(poll') = IF s = "crc" THEN "false"
                         ELSE IF ~any \/ s = "zero" THEN "true" ELSE "false"
    BY <2>2 DEF PollEnd
  <2>6. PlTypeOK'
    <3>1. any \in BOOLEAN
      BY <1>4
    <3>2. poll' \in [attempt : 0 .. MaxPolls, status : {"zero", "done", "crc", "waiting"},
                     any_nonzero : BOOLEAN, read : BOOLEAN]
      BY <2>1, <2>0, <1>3, <3>1
    <3>3. pc' # "returned" => poll'.attempt < MaxPolls
      BY <2>2, <2>4, <1>3, PlAssumption
    <3>4. late' \in BOOLEAN
      BY <2>3
    <3> HIDE DEF any
    <3> QED BY <1>1, <2>3, <2>4, <2>5, <3>2, <3>3, <3>4 DEF PlTypeOK
  <2>7. (s = "zero" <=> pl.locked) /\ (s = "done" => PlDone) /\ (s = "crc" => pl.state = "crc")
        /\ (s = "waiting" => ~PlDone /\ pl.state # "crc")
    BY <1>6 DEF Stat, PlDone
  <2>8. LockInv'
    BY <1>1, <2>0, <2>2, <2>4, <2>5, <2>7 DEF LockInv, PlTypeOK, PlDone
  <2>9. CleanInv'
    <3>1. fault = 0 /\ Good(bits.words) => pl.state \in {"starting", "started"}
      BY <1>1 DEF CleanInv
    <3>2. fault = 0 /\ Good(bits.words) /\ result' = "true" => pl.state = "started"
      BY <3>1, <1>1, <2>0, <2>4, <2>5, <2>7 DEF LockInv, PlDone
    <3>3. fault = 0 /\ Good(bits.words) /\ result' = "false" => late'
      BY <3>1, <1>1, <2>0, <2>3, <2>4, <2>5, <2>7 DEF LockInv, PlDone
    <3> QED BY <1>1, <2>3, <2>4, <3>1, <3>2, <3>3 DEF CleanInv
  <2> QED BY <2>6, <2>8, <2>9
<1> QED BY <1>0, <1>5, <1>6

\* A step of the flash's side leaves the PL alone; a call may fail.
LEMMA PlUntouched ==
  ASSUME PlInv, UNCHANGED <<pc, pl, bits, poll, result, late>>, fault' = fault \/ fault' = fault + 1
  PROVE  PlInv'
<1> USE DEF PlInv
<1>1. PlTypeOK'
  BY DEF PlTypeOK
<1>2. LockInv'
  BY DEF LockInv, PlDone
<1>3. CleanInv'
  BY DEF PlTypeOK, CleanInv
<1> QED BY <1>1, <1>2, <1>3

\* What the driver programs, page by page.
LEMMA DivMod ==
  ASSUME NEW a \in Nat, NEW n \in Nat \ {0}
  PROVE  a = n * (a \div n) + (a % n) /\ a \div n \in Nat /\ a % n \in 0 .. n - 1
  BY SMT

LEMMA ModUnique ==
  ASSUME NEW n \in Nat \ {0}, NEW q \in Nat, NEW r \in 0 .. n - 1
  PROVE  (n * q + r) % n = r
  BY SMT

\* An offset in the page that starts at a.
LEMMA InPage ==
  ASSUME NEW n \in Nat \ {0}, NEW a \in Nat, a % n = 0, NEW r \in 0 .. n - 1
  PROVE  (a + r) % n = r
<1> DEFINE q == a \div n
<1>1. a = n * q + 0 /\ q \in Nat
  <2>1. a = n * q + (a % n) /\ q \in Nat
    BY DivMod
  <2> HIDE DEF q
  <2> QED BY <2>1
<1>2. a + r = n * q + r
  <2> HIDE DEF q
  <2> QED BY <1>1
<1>3. (n * q + r) % n = r
  BY <1>1, ModUnique
<1> QED BY <1>2, <1>3

\* The next page starts at a page again.
LEMMA NextPage ==
  ASSUME NEW n \in Nat \ {0}, NEW a \in Nat, a % n = 0
  PROVE  (a + n) % n = 0
<1> DEFINE q == a \div n
<1>1. a = n * q + 0 /\ q \in Nat
  <2>1. a = n * q + (a % n) /\ q \in Nat
    BY DivMod
  <2> HIDE DEF q
  <2> QED BY <2>1
<1>2. a + n = n * (q + 1) + 0 /\ q + 1 \in Nat
  <2> HIDE DEF q
  <2>1. n * (q + 1) = n * q + n
    BY <1>1
  <2> QED BY <1>1, <2>1
<1>3. (n * (q + 1) + 0) % n = 0
  BY <1>2, ModUnique
<1> QED BY <1>2, <1>3

\* A page of an erased flash takes the bytes it is given and no other.
LEMMA PageProgrammed ==
  ASSUME FlashTypeOK, Holds(off), off % Page = 0, off <= Len(image)
  PROVE  \A x \in 0 .. Capacity - 1 :
           Programmed(chip.mem, off, SubSeq(image, off + 1, off + PageLen))[x]
             = IF x < off + PageLen THEN image[x + 1] ELSE Erased
<1> DEFINE mem == chip.mem
           data == SubSeq(image, off + 1, off + PageLen)
           start == off - (off % Page)
           at(i) == start + ((off + i - 1) % Page)
           L == PageLen
<1>1. /\ image \in Seq(Bytes) /\ Len(image) \in Nat /\ Len(image) <= Capacity /\ off \in Nat
      /\ Page \in Nat \ {0} /\ Capacity \in Nat /\ DOMAIN mem = 0 .. Capacity - 1
  BY FlashAssumption, McsAssumption DEF FlashTypeOK, ChipOK
<1>2. L \in Nat /\ L <= Page /\ off + L <= Len(image)
  BY <1>1 DEF PageLen
<1> HIDE DEF L
<1>3. data \in Seq(Bytes) /\ DOMAIN data = 1 .. L /\ \A i \in 1 .. L : data[i] = image[off + i]
  <2>1. data = SubSeq(image, off + 1, off + L)
    BY DEF L
  <2> HIDE DEF data
  <2> QED BY <2>1, <1>1, <1>2
<1>4. \A i \in 1 .. L : at(i) = off + i - 1
  <2>1. ASSUME NEW i \in 1 .. L PROVE at(i) = off + i - 1
    <3>1. i - 1 \in 0 .. Page - 1
      BY <1>1, <1>2
    <3>2. (off + (i - 1)) % Page = i - 1
      BY <3>1, <1>1, InPage
    <3>3. off + i - 1 = off + (i - 1)
      BY <1>1
    <3> QED BY <3>2, <3>3, <1>1
  <2> QED BY <2>1
<1>5. Programmed(mem, off, data) =
        [x \in DOMAIN mem |->
           LET w == {i \in DOMAIN data : at(i) = x}
           IN IF w = {} THEN mem[x] ELSE mem[x] \cap data[CHOOSE i \in w : \A j \in w : j <= i]]
  BY DEF Programmed
<1> HIDE DEF data, at, start, mem
<1> SUFFICES ASSUME NEW x \in 0 .. Capacity - 1
             PROVE  Programmed(mem, off, data)[x] = IF x < off + L THEN image[x + 1] ELSE Erased
  BY DEF mem, data, L
<1> DEFINE w == {i \in DOMAIN data : at(i) = x}
           last == CHOOSE i \in w : \A j \in w : j <= i
<1>6. Programmed(mem, off, data)[x] = IF w = {} THEN mem[x] ELSE mem[x] \cap data[last]
  BY <1>1, <1>5
<1>7. mem[x] = IF x < off THEN image[x + 1] ELSE Erased
  BY DEF Holds, mem
<1>8. CASE off <= x /\ x < off + L
  <2> DEFINE k == x - off + 1
  <2>1. k \in 1 .. L /\ k \in w /\ \A i \in w : i = k
    <3>1. k \in 1 .. L
      BY <1>8, <1>1, <1>2
    <3>2. at(k) = x
      BY <3>1, <1>4, <1>1
    <3>3. \A i \in w : i \in 1 .. L /\ off + i - 1 = x
      BY <1>3, <1>4
    <3> QED BY SMTT(60), <3>1, <3>2, <3>3, <1>1, <1>3
  <2> HIDE DEF w
  <2>2. last = k /\ w # {}
    <3>1. \A j \in w : j <= k
      BY <2>1
    <3> QED BY <2>1, <3>1
  <2>3. data[k] = image[x + 1]
    <3>1. off + k = x + 1
      BY <1>1
    <3> QED BY <2>1, <1>3, <3>1
  <2>4. Erased \cap image[x + 1] = image[x + 1]
    <3>1. x + 1 \in 1 .. Len(image)
      BY <1>8, <1>1, <1>2
    <3>2. image[x + 1] \in Bytes
      BY <3>1, <1>1
    <3> QED BY <3>2 DEF Bytes, Erased
  <2>5. mem[x] = Erased
    BY <1>7, <1>8, <1>1
  <2> QED BY <1>6, <2>2, <2>3, <2>4, <2>5, <1>8
<1>9. CASE ~(off <= x /\ x < off + L)
  <2>1. w = {}
    <3>1. \A i \in 1 .. L : at(i) # x
      BY <1>4, <1>9, <1>1, <1>2
    <3> QED BY <3>1, <1>3
  <2> QED BY <1>6, <1>7, <1>9, <2>1, <1>1, <1>2
<1> QED BY <1>8, <1>9

LEMMA ChipTypes ==
  ASSUME ChipOK(chip)
  PROVE  /\ \A cmd : ChipOK(Obeys(cmd)) /\ Obeys(cmd).jedec = chip.jedec /\ Obeys(cmd).mem = chip.mem
         /\ Obeys(<<"READ_ID">>) = chip /\ Obeys(<<"READ_STATUS">>) = chip
         /\ \A x : Obeys(<<"READ", x>>) = chip
         /\ ~Wip => Obeys(<<"WREN">>).wel = TRUE /\ Obeys(<<"WREN">>).op = chip.op
         /\ ~Wip /\ chip.wel => /\ Obeys(<<"BULK_ERASE">>).op = <<"BULK_ERASE">>
                                /\ \A x, y : Obeys(<<"PAGE_PROGRAM", x, y>>).op = <<"PAGE_PROGRAM", x, y>>
<1> DEFINE c1 == [chip EXCEPT !.wel = TRUE]
           c2(cmd) == [chip EXCEPT !.op = cmd]
<1>0. chip = [jedec |-> chip.jedec, mem |-> chip.mem, wel |-> chip.wel, op |-> chip.op]
  BY DEF ChipOK
<1>a. chip.mem \in [0 .. Capacity - 1 -> Bytes] /\ chip.wel \in BOOLEAN
  BY DEF ChipOK
<1>1. ChipOK(c1) /\ c1.jedec = chip.jedec /\ c1.mem = chip.mem /\ c1.wel = TRUE /\ c1.op = chip.op
  <2>1. c1 = [jedec |-> chip.jedec, mem |-> chip.mem, wel |-> TRUE, op |-> chip.op]
    <3>1. \A v : [chip EXCEPT !.wel = v] = [jedec |-> chip.jedec, mem |-> chip.mem, wel |-> v, op |-> chip.op]
      BY <1>0
    <3> QED BY <3>1, Zenon
  <2> HIDE DEF c1
  <2>2. c1.jedec = chip.jedec /\ c1.mem = chip.mem /\ c1.wel = TRUE /\ c1.op = chip.op
    BY <2>1
  <2> QED BY <2>1, <2>2, <1>a DEF ChipOK
<1>2. \A cmd : ChipOK(c2(cmd)) /\ c2(cmd).jedec = chip.jedec /\ c2(cmd).mem = chip.mem /\ c2(cmd).op = cmd
  <2>1. ASSUME NEW cmd
        PROVE ChipOK(c2(cmd)) /\ c2(cmd).jedec = chip.jedec /\ c2(cmd).mem = chip.mem /\ c2(cmd).op = cmd
    <3> DEFINE c == c2(cmd)
    <3>1. c = [jedec |-> chip.jedec, mem |-> chip.mem, wel |-> chip.wel, op |-> cmd]
      BY <1>0
    <3> HIDE DEF c
    <3>2. c.jedec = chip.jedec /\ c.mem = chip.mem /\ c.wel = chip.wel /\ c.op = cmd
      BY <3>1
    <3>3. ChipOK(c) /\ c.jedec = chip.jedec /\ c.mem = chip.mem /\ c.op = cmd
      BY <3>1, <3>2, <1>a DEF ChipOK
    <3> QED BY <3>3 DEF c
  <2> QED BY <2>1
<1>3. \A cmd : Obeys(cmd) = c1 \/ Obeys(cmd) = c2(cmd) \/ Obeys(cmd) = chip
  BY DEF Obeys
<1>4. \A cmd : ChipOK(Obeys(cmd)) /\ Obeys(cmd).jedec = chip.jedec /\ Obeys(cmd).mem = chip.mem
  <2>1. ChipOK(chip)
    OBVIOUS
  <2> HIDE DEF c1, c2
  <2> QED BY ONLY <1>1, <1>2, <1>3, <2>1
<1>5. Obeys(<<"READ_ID">>) = chip /\ Obeys(<<"READ_STATUS">>) = chip /\ \A x : Obeys(<<"READ", x>>) = chip
  BY DEF Obeys
<1>6. ~Wip => Obeys(<<"WREN">>) = c1
  BY DEF Obeys
<1>7. ~Wip /\ chip.wel => Obeys(<<"BULK_ERASE">>) = c2(<<"BULK_ERASE">>)
  BY DEF Obeys
<1>8. ~Wip /\ chip.wel => \A x, y : Obeys(<<"PAGE_PROGRAM", x, y>>) = c2(<<"PAGE_PROGRAM", x, y>>)
  BY DEF Obeys
<1> HIDE DEF c1, c2
<1>9. ~Wip => Obeys(<<"WREN">>).wel = TRUE /\ Obeys(<<"WREN">>).op = chip.op
  BY <1>1, <1>6
<1>10. ~Wip /\ chip.wel => /\ Obeys(<<"BULK_ERASE">>).op = <<"BULK_ERASE">>
                            /\ \A x, y : Obeys(<<"PAGE_PROGRAM", x, y>>).op = <<"PAGE_PROGRAM", x, y>>
  BY <1>2, <1>7, <1>8
<1> QED BY ONLY <1>4, <1>5, <1>9, <1>10

\* program() ends with a failure, which is owed when no call failed.
LEMMA FlashFails ==
  ASSUME ProgInv, tool = "flash", result # "none", Answer("false"),
         fault' = fault \/ fault' = fault + 1,
         fault' = fault /\ fault = 0 /\ ~late /\ ~busy0 => chip'.jedec # Jedec \/ ~Fits,
         ChipOK(chip'), user1' \in BOOLEAN, UNCHANGED <<pc, pl, bits, poll, result, late>>,
         UNCHANGED <<tool, file, loaded, busy0, runs, image>>,
         expired' \in BOOLEAN, off' \in 0 .. Capacity + Chunk
  PROVE  ProgInv'
<1>1. PlInv'
  BY PlUntouched DEF ProgInv
<1>2. fp' = "ended" /\ answer' = "false"
  BY DEF Answer
<1>3. FlashTypeOK'
  BY <1>2 DEF ProgInv, FlashInv, FlashTypeOK, Early, Late, Idle
<1>4. BridgeInv'
  BY <1>2 DEF BridgeInv, Early, Late, Idle
<1>5. ContentInv'
  <2>1. fault \in Nat
    BY DEF ProgInv, PlInv, PlTypeOK
  <2>2. fault' = 0 => fault' = fault /\ fault = 0
    BY <2>1
  <2>3. fault' = 0 /\ ~late /\ ~busy0 => chip'.jedec # Jedec \/ ~Fits
    BY <2>2
  <2> QED BY <1>2, <2>3 DEF ContentInv, Write, Fits, Early
<1> QED BY <1>1, <1>3, <1>4, <1>5 DEF ProgInv, FlashInv

\* The process ends in program(): what it answers is not asked.
LEMMA FlashCrashes ==
  ASSUME ProgInv, tool = "flash", result # "none", Answer("crashed"),
         UNCHANGED <<pc, pl, bits, poll, result, fault, late>>,
         UNCHANGED <<tool, file, loaded, user1, image, off, expired, chip, busy0, runs>>
  PROVE  ProgInv'
<1>1. PlInv'
  BY PlUntouched DEF ProgInv
<1>2. fp' = "ended" /\ answer' = "crashed"
  BY DEF Answer
<1>3. FlashTypeOK'
  BY <1>2 DEF ProgInv, FlashInv, FlashTypeOK, ChipOK, Early, Late, Idle
<1>4. BridgeInv'
  BY <1>2 DEF BridgeInv, Early, Late, Idle
<1>5. ContentInv'
  BY <1>2 DEF ContentInv, Write, Early
<1> QED BY <1>1, <1>3, <1>4, <1>5 DEF ProgInv, FlashInv

\* program() goes on; the bridge is as it was.
LEMMA FlashWorks ==
  ASSUME ProgInv, fp \in Late, fp' \in Write, UNCHANGED <<pc, pl, bits, poll, result, late, fault>>,
         UNCHANGED <<ir, tool, file, loaded, busy0, runs, answer, user1>>,
         ChipOK(chip'), chip'.jedec = chip.jedec, image' \in Seq(Bytes), Len(image') <= Capacity,
         off' \in 0 .. Capacity + Chunk, expired' \in BOOLEAN,
         fp' \in Idle => ~Wip', fp' \in {"erase", "page"} => chip'.wel,
         fp' \in {"erase_wait", "page_wait"} /\ expired' => late, ContentInv'
  PROVE  ProgInv'
<1> USE DEF ProgInv, FlashInv
<1>1. PlInv'
  BY PlUntouched
<1>2. fp' \in Late /\ fp' \notin Early /\ fp' # "bridge" /\ fp \notin Early /\ fp # "bridge"
  BY DEF Write, Late, Early, Idle
<1>3. FlashTypeOK'
  BY <1>2 DEF FlashTypeOK
<1>4. user1 /\ Spi /\ chip.jedec = Jedec /\ result = "true"
  BY <1>2 DEF BridgeInv
<1>5. BridgeInv'
  BY <1>2, <1>4 DEF BridgeInv, Spi
<1> QED BY <1>1, <1>3, <1>5

\* A transfer through a bridge that works.
LEMMA TransferLate ==
  ASSUME ProgInv, fp \in Late, NEW cmd, NEW ACTION next, Transfer(cmd, next)
  PROVE  /\ UNCHANGED <<pc, pl, bits, poll, result, late>>
         /\ UNCHANGED <<ir, user1, tool, file, loaded, busy0, runs>>
         /\ ChipOK(chip') /\ chip'.jedec = chip.jedec /\ user1' \in BOOLEAN
         /\ \/ chip' = Obeys(cmd) /\ next /\ fault' = fault
            \/ Answer("false") /\ fault' = fault + 1
<1>1. user1 /\ Spi /\ user1 \in BOOLEAN /\ ChipOK(chip)
  BY DEF ProgInv, FlashInv, BridgeInv, FlashTypeOK
<1>2. ChipOK(Obeys(cmd)) /\ Obeys(cmd).jedec = chip.jedec
  BY <1>1, ChipTypes
<1>3. user1 = TRUE
  BY <1>1
<1>4. UNCHANGED <<pc, pl, bits, poll, result, late, tool, file, loaded, busy0, runs>>
  BY DEF Transfer
<1>5. \/ ir' = ir /\ user1' = TRUE /\ chip' = Obeys(cmd) /\ next /\ fault' = fault
      \/ ir' = ir /\ user1' = TRUE /\ chip' = Obeys(cmd) /\ Answer("false") /\ fault' = fault + 1
      \/ ir' = ir /\ user1' = user1 /\ chip' = chip /\ Answer("false") /\ fault' = fault + 1
  BY <1>1, <1>3 DEF Transfer
<1> QED BY <1>1, <1>2, <1>3, <1>4, <1>5

\* What every late step starts from.
LEMMA LateFacts ==
  ASSUME ProgInv, fp \in Late
  PROVE  /\ tool = "flash" /\ answer = "none" /\ result = "true" /\ Spi /\ user1
         /\ ChipOK(chip) /\ chip.jedec = Jedec
         /\ image \in Seq(Bytes) /\ Len(image) \in Nat /\ Len(image) <= Capacity
         /\ off \in 0 .. Capacity + Chunk /\ expired \in BOOLEAN
         /\ Capacity \in Nat \ {0} /\ Page \in Nat \ {0} /\ Chunk \in Nat \ {0}
         /\ fp \in Idle => ~Wip
  BY FlashAssumption, McsAssumption DEF ProgInv, FlashInv, FlashTypeOK, BridgeInv, Late, Idle, Early

LEMMA BridgeLoadedStep == ASSUME ProgInv, BridgeLoaded PROVE ProgInv'
<1> USE DEF ProgInv, FlashInv
<1>1. fp = "bridge" /\ tool = "flash" /\ result # "none" /\ fault \in Nat
  BY DEF BridgeLoaded, At, PlInv, PlTypeOK
<1>2. /\ UNCHANGED <<pc, pl, ir, bits, poll, result, fault, late>>
      /\ UNCHANGED <<tool, file, loaded, user1, image, off, expired, chip, busy0, runs>>
  BY DEF BridgeLoaded, pl_vars
<1>3. CASE result = "true"
  <2>1. fp' = "reset" /\ UNCHANGED answer
    BY <1>3 DEF BridgeLoaded, Goes
  <2>2. PlInv'
    BY <1>2, PlUntouched
  <2>3. FlashTypeOK'
    BY <1>1, <1>2, <2>1 DEF FlashTypeOK, Early
  <2>4. BridgeInv'
    BY <1>1, <1>2, <1>3, <2>1 DEF BridgeInv, Early, Late, Idle, Wip
  <2>5. ContentInv'
    BY <1>1, <1>2, <2>1 DEF ContentInv, FlashTypeOK, Write, Early
  <2> QED BY <2>2, <2>3, <2>4, <2>5
<1>4. CASE result # "true"
  <2>1. Answer("false")
    BY <1>4 DEF BridgeLoaded
  <2>2. result = "false"
    BY <1>1, <1>4 DEF PlInv, PlTypeOK
  <2>3. bits.there /\ Good(bits.words)
    <3>1. bits = [there |-> TRUE, words |-> Bridge]
      BY <1>1 DEF FlashTypeOK
    <3>2. Good(Bridge)
      BY FlashAssumption
    <3>3. bits.there = TRUE /\ bits.words = Bridge
      BY <3>1
    <3> QED BY <3>2, <3>3
  <2>4. fault = 0 => late
    BY <2>2, <2>3 DEF PlInv, CleanInv
  <2>5. ChipOK(chip) /\ user1 \in BOOLEAN /\ expired \in BOOLEAN /\ off \in 0 .. Capacity + Chunk
    BY DEF FlashTypeOK
  <2> QED BY <1>1, <1>2, <2>1, <2>4, <2>5, FlashFails
<1> QED BY <1>3, <1>4

LEMMA ResetTapStep == ASSUME ProgInv, ResetTap PROVE ProgInv'
<1> USE DEF ProgInv, FlashInv
<1>1. fp = "reset" /\ tool = "flash" /\ result = "true" /\ fault \in Nat
  BY DEF ResetTap, At, PlInv, PlTypeOK, BridgeInv, Early
<1>2. /\ UNCHANGED <<pc, pl, bits, poll, result, late>>
      /\ UNCHANGED <<tool, file, loaded, user1, image, off, expired, chip, busy0, runs>>
  BY DEF ResetTap
<1>3. CASE Goes("id") /\ UNCHANGED fault
  <2>1. fp' = "id" /\ UNCHANGED answer
    BY <1>3 DEF Goes
  <2>2. PlInv'
    BY <1>2, <1>3, PlUntouched
  <2>3. FlashTypeOK'
    BY <1>1, <1>2, <2>1 DEF FlashTypeOK, Early
  <2>4. BridgeInv'
    BY <1>1, <1>2, <2>1 DEF BridgeInv, Early, Late, Idle, Wip
  <2>5. ContentInv'
    BY <1>1, <1>2, <2>1 DEF ContentInv, FlashTypeOK, Write, Early
  <2> QED BY <2>2, <2>3, <2>4, <2>5
<1>4. CASE Answer("false") /\ fault' = fault + 1
  <2>1. ChipOK(chip) /\ user1 \in BOOLEAN /\ expired \in BOOLEAN /\ off \in 0 .. Capacity + Chunk
    BY DEF FlashTypeOK
  <2> QED BY <1>1, <1>2, <1>4, <2>1, FlashFails
<1> QED BY <1>3, <1>4 DEF ResetTap

\* The JEDEC id is read by a chip that is there, idle and behind the bridge.
LEMMA ReadIdStep == ASSUME ProgInv, ReadId PROVE ProgInv'
<1> USE DEF ProgInv, FlashInv
<1>1. fp = "id" /\ tool = "flash" /\ result = "true" /\ fault \in Nat /\ user1 = FALSE
  BY DEF ReadId, At, PlInv, PlTypeOK, BridgeInv, FlashTypeOK, Early
<1>2. /\ UNCHANGED <<pc, pl, bits, poll, result, late>>
      /\ UNCHANGED <<tool, file, loaded, image, off, expired, busy0, runs>>
  BY DEF ReadId, Transfer, LoopVars
<1>3. ChipOK(chip) /\ Obeys(<<"READ_ID">>) = chip
  BY ChipTypes DEF FlashTypeOK
<1>4. /\ UNCHANGED chip /\ user1' \in BOOLEAN
      /\ \/ /\ ir' = "USER1" /\ user1' = TRUE /\ UNCHANGED fault
            /\ IF IdSeen = Jedec THEN Goes("image") ELSE Answer("false")
         \/ Answer("false") /\ fault' = fault + 1
  BY <1>1, <1>3 DEF ReadId, Transfer
<1>5. expired \in BOOLEAN /\ off \in 0 .. Capacity + Chunk
  BY DEF FlashTypeOK
<1>6. CASE Answer("false") /\ fault' = fault + 1
  BY <1>1, <1>2, <1>3, <1>4, <1>5, <1>6, FlashFails
<1>7. CASE Answer("false") /\ IdSeen # Jedec /\ UNCHANGED fault
  <2>1. fault = 0 /\ ~busy0 => Spi /\ ~Wip
    <3>1. bits.words = Bridge /\ Good(bits.words)
      BY <1>1, FlashAssumption DEF FlashTypeOK
    <3>2. fault = 0 => pl.state = "started"
      BY <1>1, <3>1 DEF PlInv, CleanInv
    <3>3. ~busy0 => ~Wip
      BY <1>1 DEF BridgeInv, Early
    <3> QED BY <1>1, <3>1, <3>2, <3>3 DEF Spi
  <2>2. fault = 0 /\ ~busy0 => chip.jedec # Jedec
    BY <2>1, <1>7 DEF IdSeen
  <2> QED BY <1>1, <1>2, <1>3, <1>4, <1>5, <1>7, <2>2, FlashFails
<1>8. CASE Goes("image") /\ IdSeen = Jedec /\ UNCHANGED fault /\ ir' = "USER1" /\ user1' = TRUE
  <2>1. Spi /\ ~Wip /\ chip.jedec = Jedec
    BY <1>8, FlashAssumption DEF IdSeen
  <2>2. fp' = "image" /\ UNCHANGED answer
    BY <1>8 DEF Goes
  <2>3. PlInv'
    BY <1>2, <1>8, PlUntouched
  <2>4. FlashTypeOK'
    BY <1>1, <1>2, <1>4, <2>2 DEF FlashTypeOK, Early, Late, Idle
  <2>5. BridgeInv'
    BY <1>1, <1>2, <1>4, <1>8, <2>1, <2>2 DEF BridgeInv, Early, Late, Idle, Wip, Spi
  <2>6. ContentInv'
    BY <1>1, <1>2, <2>2 DEF ContentInv, FlashTypeOK, Write, Early, Late
  <2> QED BY <2>3, <2>4, <2>5, <2>6
<1> QED BY <1>4, <1>6, <1>7, <1>8

LEMMA LoadImageStep == ASSUME ProgInv, LoadImage PROVE ProgInv'
<1>1. fp = "image" /\ fp \in Late /\ fp \in Idle
  BY DEF LoadImage, At, Late, Idle
<1>2. /\ UNCHANGED <<pc, pl, ir, bits, poll, result, fault, late>>
      /\ UNCHANGED <<tool, file, loaded, user1, off, expired, chip, busy0, runs>>
  BY DEF LoadImage, pl_vars
<1>3. off = 0 /\ loaded.out \in Seq(Bytes) /\ ~Wip /\ user1 \in BOOLEAN
  BY <1>1 DEF ProgInv, FlashInv, ContentInv, FlashTypeOK, BridgeInv
<1>4. CASE Fits /\ image' = loaded.out /\ Goes("erase_wren")
  <2>1. image' = loaded.out /\ fp' = "erase_wren" /\ UNCHANGED answer
    BY <1>4 DEF Goes
  <2>2. ContentInv'
    BY <1>1, <1>2, <1>3, <1>4, <2>1, LateFacts DEF ContentInv, Write, Early, Fits
  <2>3. ~Wip'
    BY <1>2, <1>3 DEF Wip
  <2>4. fp' \in Write /\ Len(image') <= Capacity /\ image' \in Seq(Bytes)
    BY <2>1, <1>3, <1>4 DEF Write, Fits
  <2> QED BY <1>1, <1>2, <2>1, <2>2, <2>3, <2>4, LateFacts, FlashWorks
<1>5. CASE ~Fits /\ Answer("false") /\ UNCHANGED image
  BY <1>1, <1>2, <1>3, <1>5, LateFacts, FlashFails
<1>6. CASE Answer("crashed") /\ UNCHANGED image
  BY <1>1, <1>2, <1>6, LateFacts, FlashCrashes
<1> QED BY <1>4, <1>5, <1>6 DEF LoadImage

\* The two ways in which a call of program() ends.
LEMMA Ended ==
  ASSUME ProgInv, fp \in Late, UNCHANGED <<pc, pl, bits, poll, result, late>>,
         UNCHANGED <<ir, user1, tool, file, loaded, busy0, runs, image>>,
         ChipOK(chip'), expired' \in BOOLEAN, off' \in 0 .. Capacity + Chunk,
         Answer("false"), fault' = fault + 1 \/ (fault' = fault /\ (late \/ chip'.jedec # Jedec \/ ~Fits))
  PROVE  ProgInv'
<1>1. fault \in Nat /\ user1 \in BOOLEAN
  BY DEF ProgInv, PlInv, PlTypeOK, FlashInv, FlashTypeOK
<1> QED BY <1>1, LateFacts, FlashFails

LEMMA EraseEnableStep == ASSUME ProgInv, EraseEnable PROVE ProgInv'
<1>1. fp = "erase_wren" /\ fp \in Late /\ fp \in Idle /\ UNCHANGED <<image, off, expired>>
  BY DEF EraseEnable, At, Late, Idle, LoopVars
<1>2. Transfer(<<"WREN">>, Goes("erase"))
  BY DEF EraseEnable
<1>3. /\ UNCHANGED <<pc, pl, bits, poll, result, late>>
      /\ UNCHANGED <<ir, user1, tool, file, loaded, busy0, runs>>
      /\ ChipOK(chip') /\ chip'.jedec = chip.jedec
      /\ \/ chip' = Obeys(<<"WREN">>) /\ Goes("erase") /\ fault' = fault
         \/ Answer("false") /\ fault' = fault + 1
  BY <1>1, <1>2, TransferLate
<1>4. CASE chip' = Obeys(<<"WREN">>) /\ Goes("erase") /\ fault' = fault
  <2>1. fp' = "erase" /\ UNCHANGED answer
    BY <1>4 DEF Goes
  <2>2. chip'.wel = TRUE /\ chip'.op = chip.op /\ ~Wip
    BY <1>1, <1>4, LateFacts, ChipTypes
  <2>3. ~Wip'
    BY <2>2 DEF Wip
  <2>4. ContentInv'
    BY <1>1, <1>3, <2>1, LateFacts DEF ProgInv, FlashInv, ContentInv, Write, Early, Fits
  <2>5. fp' \in Write
    BY <2>1 DEF Write
  <2> QED BY <1>1, <1>3, <1>4, <2>1, <2>2, <2>3, <2>4, <2>5, LateFacts, FlashWorks
<1>5. CASE Answer("false") /\ fault' = fault + 1
  BY <1>1, <1>3, <1>5, LateFacts, Ended
<1> QED BY <1>3, <1>4, <1>5

LEMMA EraseStep == ASSUME ProgInv, Erase PROVE ProgInv'
<1>1. fp = "erase" /\ fp \in Late /\ fp \in Idle /\ UNCHANGED <<image, off>> /\ expired' = FALSE
  BY DEF Erase, At, Late, Idle
<1>2. Transfer(<<"BULK_ERASE">>, Goes("erase_wait"))
  BY DEF Erase
<1>3. /\ UNCHANGED <<pc, pl, bits, poll, result, late>>
      /\ UNCHANGED <<ir, user1, tool, file, loaded, busy0, runs>>
      /\ ChipOK(chip') /\ chip'.jedec = chip.jedec
      /\ \/ chip' = Obeys(<<"BULK_ERASE">>) /\ Goes("erase_wait") /\ fault' = fault
         \/ Answer("false") /\ fault' = fault + 1
  BY <1>1, <1>2, TransferLate
<1>4. CASE chip' = Obeys(<<"BULK_ERASE">>) /\ Goes("erase_wait") /\ fault' = fault
  <2>1. fp' = "erase_wait" /\ UNCHANGED answer
    BY <1>4 DEF Goes
  <2>2. chip.wel /\ ~Wip
    BY <1>1, LateFacts DEF ProgInv, FlashInv, BridgeInv
  <2>3. chip'.op = <<"BULK_ERASE">>
    BY <1>4, <2>2, LateFacts, <1>1, ChipTypes
  <2>4. Wip'
    BY <2>3 DEF Wip, NoOp
  <2>5. ContentInv'
    BY <1>1, <1>3, <2>1, <2>3, <2>4, LateFacts DEF ProgInv, FlashInv, ContentInv, Write, Early, Fits
  <2>6. fp' \in Write /\ fp' \notin Idle
    BY <2>1 DEF Write, Idle
  <2> QED BY <1>1, <1>3, <1>4, <2>1, <2>5, <2>6, LateFacts, FlashWorks
<1>5. CASE Answer("false") /\ fault' = fault + 1
  BY <1>1, <1>3, <1>5, LateFacts, Ended
<1> QED BY <1>3, <1>4, <1>5

\* waitWipClear() goes on after the chip, or fails after its time.
LEMMA WaitFacts ==
  ASSUME ProgInv, fp \in {"erase_wait", "page_wait"}, NEW p, NEW ACTION next, WaitWipClear(p, next)
  PROVE  /\ fp = p /\ UNCHANGED <<pc, pl, bits, poll, result, late>>
         /\ UNCHANGED <<ir, user1, tool, file, loaded, busy0, runs, expired, chip>>
         /\ \/ ~Wip /\ next /\ fault' = fault
            \/ Goes(p) /\ fault' = fault
            \/ Answer("false") /\ (fault' = fault + 1 \/ (fault' = fault /\ late))
<1> DEFINE after == IF ~WipSeen THEN next ELSE IF expired THEN Answer("false") ELSE Goes(p)
<1>1. At(p) /\ Transfer(<<"READ_STATUS">>, after) /\ UNCHANGED expired
  BY DEF WaitWipClear
<1>2. fp \in Late /\ fp = p
  BY <1>1 DEF Late, Idle, At
<1>3. Obeys(<<"READ_STATUS">>) = chip
  BY <1>2, LateFacts, ChipTypes
<1>4. expired => late
  BY DEF ProgInv, FlashInv, BridgeInv
<1>5. WipSeen <=> Wip
  BY <1>2, LateFacts DEF WipSeen
<1>6. /\ UNCHANGED <<pc, pl, bits, poll, result, late>>
      /\ UNCHANGED <<ir, user1, tool, file, loaded, busy0, runs>>
      /\ \/ chip' = chip /\ after /\ fault' = fault
         \/ chip' = chip /\ Answer("false") /\ fault' = fault + 1
  <2>1. user1 = TRUE /\ Spi
    BY <1>2, LateFacts DEF ProgInv, FlashInv, FlashTypeOK
  <2>2. UNCHANGED <<pc, pl, bits, poll, result, late, tool, file, loaded, busy0, runs>>
    BY <1>1 DEF Transfer
  <2>3. /\ ir' = ir /\ user1' = user1
        /\ \/ chip' = chip /\ after /\ fault' = fault
           \/ chip' = chip /\ Answer("false") /\ fault' = fault + 1
    <3> HIDE DEF after
    <3> QED BY <1>1, <1>3, <2>1 DEF Transfer
  <2> QED BY <2>2, <2>3
<1> QED BY <1>1, <1>2, <1>4, <1>5, <1>6

LEMMA EraseWaitStep == ASSUME ProgInv, EraseWait PROVE ProgInv'
<1>1. fp = "erase_wait" /\ fp \in Late /\ fp \in Write /\ UNCHANGED <<image, off>>
  BY DEF EraseWait, WaitWipClear, At, Late, Write
<1>2. /\ UNCHANGED <<pc, pl, bits, poll, result, late>>
      /\ UNCHANGED <<ir, user1, tool, file, loaded, busy0, runs, expired, chip>>
      /\ \/ ~Wip /\ Goes("page_wren") /\ fault' = fault
         \/ Goes("erase_wait") /\ fault' = fault
         \/ Answer("false") /\ (fault' = fault + 1 \/ (fault' = fault /\ late))
  BY <1>1, WaitFacts DEF EraseWait
<1>3. CASE ~Wip /\ Goes("page_wren") /\ fault' = fault
  <2>1. fp' = "page_wren" /\ UNCHANGED answer
    BY <1>3 DEF Goes
  <2>2. Holds(0) /\ off = 0 /\ image = loaded.out /\ Fits
    BY <1>1, <1>3 DEF ProgInv, FlashInv, ContentInv
  <2>3. Holds(off)' /\ off' = 0 /\ off' % Page = 0
    BY <1>1, <1>2, <2>2, LateFacts DEF Holds
  <2>4. ContentInv'
    BY <1>1, <1>2, <2>1, <2>2, <2>3, LateFacts DEF ContentInv, Early, Fits
  <2>5. fp' \in Write /\ ~Wip'
    BY <2>1, <1>2, <1>3 DEF Write, Wip
  <2> QED BY <1>1, <1>2, <1>3, <2>1, <2>4, <2>5, LateFacts, FlashWorks
<1>4. CASE Goes("erase_wait") /\ fault' = fault
  <2>1. fp' = fp /\ UNCHANGED answer
    BY <1>1, <1>4 DEF Goes
  <2>2. ContentInv'
    BY <1>1, <1>2, <1>4, <2>1 DEF ProgInv, FlashInv, ContentInv, Wip, Holds, Fits, PageLen
  <2>3. expired => late
    BY <1>1 DEF ProgInv, FlashInv, BridgeInv
  <2>4. fp' \notin Idle
    BY <1>1, <2>1 DEF Idle
  <2> QED BY <1>1, <1>2, <1>4, <2>1, <2>2, <2>3, <2>4, LateFacts, FlashWorks
<1>5. CASE Answer("false") /\ (fault' = fault + 1 \/ (fault' = fault /\ late))
  BY <1>1, <1>2, <1>5, LateFacts, Ended
<1> QED BY <1>2, <1>3, <1>4, <1>5

LEMMA PageEnableStep == ASSUME ProgInv, PageEnable PROVE ProgInv'
<1>1. fp = "page_wren" /\ fp \in Late /\ fp \in Idle /\ fp \in Write /\ UNCHANGED <<image, off, expired>>
  BY DEF PageEnable, At, Late, Idle, Write, LoopVars
<1>2. Transfer(<<"WREN">>, Goes("page"))
  BY DEF PageEnable
<1>3. /\ UNCHANGED <<pc, pl, bits, poll, result, late>>
      /\ UNCHANGED <<ir, user1, tool, file, loaded, busy0, runs>>
      /\ ChipOK(chip') /\ chip'.jedec = chip.jedec
      /\ \/ chip' = Obeys(<<"WREN">>) /\ Goes("page") /\ fault' = fault
         \/ Answer("false") /\ fault' = fault + 1
  BY <1>1, <1>2, TransferLate
<1>4. CASE chip' = Obeys(<<"WREN">>) /\ Goes("page") /\ fault' = fault
  <2>1. fp' = "page" /\ UNCHANGED answer
    BY <1>4 DEF Goes
  <2>2. chip'.wel = TRUE /\ chip'.op = chip.op /\ chip'.mem = chip.mem /\ ~Wip
    BY <1>1, <1>4, LateFacts, ChipTypes
  <2>3. ~Wip'
    BY <2>2 DEF Wip
  <2>4. ContentInv'
    BY <1>1, <1>3, <2>1, <2>2, LateFacts DEF ProgInv, FlashInv, ContentInv, Early, Fits, Holds
  <2>5. fp' \in Write
    BY <2>1 DEF Write
  <2> QED BY <1>1, <1>3, <1>4, <2>1, <2>2, <2>3, <2>4, <2>5, LateFacts, FlashWorks
<1>5. CASE Answer("false") /\ fault' = fault + 1
  BY <1>1, <1>3, <1>5, LateFacts, Ended
<1> QED BY <1>3, <1>4, <1>5

LEMMA PageProgramStep == ASSUME ProgInv, PageProgram PROVE ProgInv'
<1> DEFINE data == SubSeq(image, off + 1, off + PageLen)
           cmd == <<"PAGE_PROGRAM", off, data>>
<1>1. fp = "page" /\ fp \in Late /\ fp \in Idle /\ fp \in Write /\ UNCHANGED <<image, off>> /\ expired' = FALSE
  BY DEF PageProgram, At, Late, Idle, Write
<1>2. Transfer(cmd, Goes("page_wait"))
  BY DEF PageProgram
<1> HIDE DEF data
<1>3. /\ UNCHANGED <<pc, pl, bits, poll, result, late>>
      /\ UNCHANGED <<ir, user1, tool, file, loaded, busy0, runs>>
      /\ ChipOK(chip') /\ chip'.jedec = chip.jedec
      /\ \/ chip' = Obeys(cmd) /\ Goes("page_wait") /\ fault' = fault
         \/ Answer("false") /\ fault' = fault + 1
  BY <1>1, <1>2, TransferLate
<1>4. CASE chip' = Obeys(cmd) /\ Goes("page_wait") /\ fault' = fault
  <2>1. fp' = "page_wait" /\ UNCHANGED answer
    BY <1>4 DEF Goes
  <2>2. chip.wel /\ ~Wip
    BY <1>1, LateFacts DEF ProgInv, FlashInv, BridgeInv
  <2>3. chip'.op = cmd /\ chip'.mem = chip.mem
    BY <1>1, <1>4, <2>2, LateFacts, ChipTypes
  <2>4. Wip'
    BY <2>3 DEF Wip, NoOp
  <2>5. cmd = <<"PAGE_PROGRAM", off, SubSeq(image, off + 1, off + PageLen)>>'
    BY <1>1 DEF data, PageLen
  <2> HIDE DEF cmd
  <2>6. ContentInv'
    BY <1>1, <1>3, <2>1, <2>3, <2>4, <2>5, LateFacts DEF ProgInv, FlashInv, ContentInv, Early, Fits, Holds
  <2>7. fp' \in Write /\ fp' \notin Idle
    BY <2>1 DEF Write, Idle
  <2> QED BY <1>1, <1>3, <1>4, <2>1, <2>6, <2>7, LateFacts, FlashWorks
<1>5. CASE Answer("false") /\ fault' = fault + 1
  BY <1>1, <1>3, <1>5, LateFacts, Ended
<1> QED BY <1>3, <1>4, <1>5

LEMMA PageWaitStep == ASSUME ProgInv, PageWait PROVE ProgInv'
<1> DEFINE more == off + Page < Len(image)
           next == IF more THEN "page_wren" ELSE "verify"
<1>1. fp = "page_wait" /\ fp \in Late /\ fp \in Write /\ UNCHANGED image
  BY DEF PageWait, WaitWipClear, At, Late, Write
<1>2. /\ UNCHANGED <<pc, pl, bits, poll, result, late>>
      /\ UNCHANGED <<ir, user1, tool, file, loaded, busy0, runs, expired, chip>>
      /\ \/ ~Wip /\ Goes(next) /\ fault' = fault
         \/ Goes("page_wait") /\ fault' = fault
         \/ Answer("false") /\ (fault' = fault + 1 \/ (fault' = fault /\ late))
  <2>1. WaitWipClear("page_wait", Goes(next))
    BY DEF PageWait
  <2> HIDE DEF next
  <2> QED BY <1>1, <2>1, WaitFacts
<1>3. off' = IF fp' = "page_wren" THEN off + Page ELSE IF fp' = "verify" THEN 0 ELSE off
  BY DEF PageWait
<1>4. /\ off % Page = 0 /\ off <= Len(image) /\ off \in Nat /\ image = loaded.out /\ Fits
      /\ ~Wip => Holds(off + PageLen)
      /\ Wip => /\ chip.op = <<"PAGE_PROGRAM", off, SubSeq(image, off + 1, off + PageLen)>>
                /\ Holds(off)
  BY <1>1, LateFacts DEF ProgInv, FlashInv, ContentInv
<1>5. CASE ~Wip /\ Goes(next) /\ fault' = fault
  <2>1. fp' = next /\ UNCHANGED answer
    BY <1>5 DEF Goes
  <2>2. CASE more
    <3>1. fp' = "page_wren" /\ off' = off + Page /\ PageLen = Page /\ off' <= Len(image)
      BY <1>1, <1>3, <1>4, <2>1, <2>2, LateFacts DEF PageLen
    <3>2. off' % Page = 0
      BY <1>1, <1>4, <3>1, LateFacts, NextPage
    <3>3. Holds(off)'
      BY <1>1, <1>2, <1>4, <1>5, <3>1 DEF Holds
    <3>4. ContentInv'
      <4>1. answer' = "none" /\ image' = loaded'.out /\ Fits'
        BY <1>1, <1>2, <1>4, <2>1, LateFacts DEF Fits
      <4>2. fp' \notin Early \cup {"image", "erase_wren", "erase", "erase_wait", "page_wait", "verify"}
        BY <3>1 DEF Early
      <4>3. off' % Page = 0 /\ off' <= Len(image')
        BY <1>1, <3>1, <3>2
      <4> HIDE DEF more, next
      <4> QED BY ONLY <3>3, <4>1, <4>2, <4>3 DEF ContentInv
    <3>5. fp' \in Write /\ ~Wip'
      BY <3>1, <1>2, <1>5 DEF Write, Wip
    <3>6. off' \in 0 .. Capacity + Chunk
      BY <1>1, <1>4, <3>1, LateFacts
    <3> QED BY <1>1, <1>2, <1>5, <2>1, <3>1, <3>4, <3>5, <3>6, LateFacts, FlashWorks
  <2>3. CASE ~more
    <3>1. fp' = "verify" /\ off' = 0 /\ off + PageLen = Len(image)
      BY <1>1, <1>3, <1>4, <2>1, <2>3, LateFacts DEF PageLen
    <3>2. Holds(Len(image))'
      BY <1>1, <1>2, <1>4, <1>5, <3>1 DEF Holds
    <3>3. ContentInv'
      <4>1. answer' = "none" /\ image' = loaded'.out /\ Fits'
        BY <1>1, <1>2, <1>4, <2>1, LateFacts DEF Fits
      <4>2. fp' \notin Early \cup {"image", "erase_wren", "erase", "erase_wait", "page_wren", "page", "page_wait"}
        BY <3>1 DEF Early
      <4>3. off' <= Len(image')
        BY <1>1, <3>1, LateFacts
      <4> HIDE DEF more, next
      <4> QED BY ONLY <3>2, <4>1, <4>2, <4>3 DEF ContentInv
    <3>4. fp' \in Write /\ ~Wip'
      BY <3>1, <1>2, <1>5 DEF Write, Wip
    <3>5. off' \in 0 .. Capacity + Chunk
      BY <1>1, <3>1, LateFacts
    <3> QED BY <1>1, <1>2, <1>5, <2>1, <3>1, <3>3, <3>4, <3>5, LateFacts, FlashWorks
  <2> QED BY <2>2, <2>3
<1>6. CASE Goes("page_wait") /\ fault' = fault
  <2>1. fp' = fp /\ UNCHANGED <<answer, off>>
    BY <1>1, <1>3, <1>6 DEF Goes
  <2>2. ContentInv'
    BY <1>1, <1>2, <1>6, <2>1 DEF ProgInv, FlashInv, ContentInv, Wip, Holds, Fits, PageLen
  <2>3. expired => late
    BY <1>1 DEF ProgInv, FlashInv, BridgeInv
  <2>4. fp' \notin Idle
    BY <1>1, <2>1 DEF Idle
  <2> QED BY <1>1, <1>2, <1>6, <2>1, <2>2, <2>3, <2>4, LateFacts, FlashWorks
<1>7. CASE Answer("false") /\ (fault' = fault + 1 \/ (fault' = fault /\ late))
  <2>1. off' = off
    BY <1>3, <1>7 DEF Answer
  <2> QED BY <1>1, <1>2, <1>7, <2>1, LateFacts, Ended
<1> QED BY <1>2, <1>5, <1>6, <1>7

\* What is read back is the image, chunk by chunk.
LEMMA VerifyStep == ASSUME ProgInv, Verify PROVE ProgInv'
<1> DEFINE cmd == <<"READ", off>>
           wanted == SubSeq(image, off + 1, off + ChunkLen)
           more == off + Chunk < Len(image)
           next == IF more THEN Goes("verify") ELSE Answer("true")
<1>1. fp = "verify" /\ fp \in Late /\ fp \in Idle /\ fp \in Write /\ UNCHANGED <<image, expired>>
      /\ off' = off + Chunk
  BY DEF Verify, At, Late, Idle, Write
<1>2. Holds(Len(image)) /\ off <= Len(image) /\ image = loaded.out /\ Fits /\ off \in Nat
  BY <1>1, LateFacts DEF ProgInv, FlashInv, ContentInv
<1>3. ReadBack(off, ChunkLen) = wanted
  <2>1. ChunkLen \in Nat /\ off + ChunkLen <= Len(image)
    BY <1>1, <1>2, LateFacts DEF ChunkLen
  <2> DEFINE n == ChunkLen
  <2> HIDE DEF n
  <2>2. ReadBack(off, n) = [i \in 1 .. n |-> chip.mem[off + i - 1]]
    BY <1>1, LateFacts DEF ReadBack
  <2>3. \A i \in 1 .. n : chip.mem[off + i - 1] = image[off + i]
    <3>1. ASSUME NEW i \in 1 .. n PROVE chip.mem[off + i - 1] = image[off + i]
      <4>1. off + i - 1 \in 0 .. Capacity - 1 /\ off + i - 1 < Len(image) /\ (off + i - 1) + 1 = off + i
        BY <1>1, <1>2, <2>1, LateFacts DEF n
      <4> QED BY <4>1, <1>2 DEF Holds
    <3> QED BY <3>1
  <2>4. SubSeq(image, off + 1, off + n) = [i \in 1 .. n |-> image[off + i]]
    BY <1>1, <1>2, <2>1, LateFacts DEF n
  <2>5. ReadBack(off, n) = SubSeq(image, off + 1, off + n)
    BY <2>2, <2>3, <2>4
  <2> QED BY <2>5 DEF n
<1>4. Transfer(cmd, next)
  <2> DEFINE back == ReadBack(off, ChunkLen)
             chosen == CASE back # wanted -> Answer("false") [] back = wanted -> next
  <2>1. Transfer(cmd, chosen)
    BY DEF Verify
  <2>2. chosen <=> next
    <3> HIDE DEF next
    <3> QED BY <1>3
  <2> HIDE DEF chosen, next
  <2> QED BY <2>1, <2>2 DEF Transfer
<1> HIDE DEF next
<1>5. /\ UNCHANGED <<pc, pl, bits, poll, result, late>>
      /\ UNCHANGED <<ir, user1, tool, file, loaded, busy0, runs>>
      /\ ChipOK(chip') /\ chip'.jedec = chip.jedec
      /\ \/ chip' = Obeys(cmd) /\ next /\ fault' = fault
         \/ Answer("false") /\ fault' = fault + 1
  BY <1>1, <1>4, TransferLate
<1>6. off' \in 0 .. Capacity + Chunk
  BY <1>1, <1>2, LateFacts
<1>7. CASE chip' = Obeys(cmd) /\ next /\ fault' = fault
  <2>1. chip' = chip /\ ~Wip
    BY <1>1, <1>7, LateFacts, ChipTypes
  <2>2. Holds(Len(image))' /\ ~Wip'
    BY <1>1, <1>2, <2>1 DEF Holds, Wip
  <2>3. CASE more
    <3>1. fp' = "verify" /\ UNCHANGED answer
      BY <1>7, <2>3 DEF next, Goes
    <3>2. ContentInv'
      <4>1. off' <= Len(image') /\ image' = loaded'.out /\ Fits' /\ answer' = "none"
        BY <1>1, <1>2, <1>5, <2>3, <3>1, LateFacts DEF Fits
      <4>2. fp' \notin Early \cup {"image", "erase_wren", "erase", "erase_wait", "page_wren", "page", "page_wait"}
        BY <3>1 DEF Early
      <4>3. Holds(Len(image))' /\ off' <= Len(image') /\ (fp' \in Write => image' = loaded'.out /\ Fits')
        BY <2>2, <4>1
      <4>4. answer' # "true" /\ answer' # "false"
        BY <4>1
      <4> HIDE DEF more
      <4> QED BY ONLY <4>2, <4>3, <4>4 DEF ContentInv
    <3>3. fp' \in Write
      BY <3>1 DEF Write
    <3> QED BY <1>1, <1>5, <1>6, <1>7, <2>2, <3>1, <3>2, <3>3, LateFacts, FlashWorks
  <2>4. CASE ~more
    <3>1. fp' = "ended" /\ answer' = "true"
      BY <1>7, <2>4 DEF next, Answer
    <3>2. fp' \notin Early \cup Late /\ fp' \notin Write
      BY <3>1 DEF Early, Late, Idle, Write
    <3>3. PlInv'
      BY <1>5, <1>7, PlUntouched DEF ProgInv
    <3>4. FlashTypeOK'
      BY <1>1, <1>5, <1>6, <3>1, <3>2 DEF ProgInv, FlashInv, FlashTypeOK
    <3>5. BridgeInv'
      BY <1>1, <1>5, <3>1, LateFacts DEF BridgeInv, Early, Late, Idle
    <3>6. ContentInv'
      <4>1. image' = loaded'.out
        BY <1>1, <1>2, <1>5
      <4>2. /\ fp' \notin Early \cup {"image", "erase_wren", "erase", "erase_wait", "page_wren", "page",
                                      "page_wait", "verify"}
            /\ fp' \notin Write
        BY <3>1 DEF Early, Write
      <4>3. answer' = "true"
        BY <3>1
      <4> HIDE DEF more
      <4> QED BY ONLY <2>2, <4>1, <4>2, <4>3 DEF ContentInv
    <3> QED BY <3>3, <3>4, <3>5, <3>6 DEF ProgInv, FlashInv
  <2> QED BY <2>3, <2>4
<1>8. CASE Answer("false") /\ fault' = fault + 1
  BY <1>1, <1>5, <1>6, <1>8, LateFacts, Ended
<1> QED BY <1>5, <1>7, <1>8

LEMMA PlStepStep == ASSUME ProgInv, PlStep, UNCHANGED flash_vars PROVE ProgInv'
<1> USE DEF ProgInv
<1>1. pc # "returned" /\ result = "none" /\ UNCHANGED bits
  BY DEF PlStep, Load, JProgram, WaitInitB, CfgIn, ShiftBody, JStart, StartupClocks, LoadBypass, Poll,
         PlInv, PlTypeOK
<1>2. FlashInv'
  BY <1>1, FlashUntouched
<1>3. PlInv'
  BY LoadStep, JProgramStep, WaitInitBStep, CfgInStep, ShiftBodyStep, JStartStep, StartupStep,
     LoadBypassStep, PollStep DEF PlStep
<1> QED BY <1>2, <1>3

\* The PL by itself. It can only lock its port while program() writes the flash:
\* what has started stays so.
LEMMA PlDeviceStep == ASSUME ProgInv, PlDevice, UNCHANGED flash_vars PROVE ProgInv'
<1> USE DEF ProgInv, PlInv, FlashInv
<1>0. pl = [state |-> pl.state, locked |-> pl.locked] /\ pl.locked \in BOOLEAN
  BY PlStatesKept DEF PlTypeOK
<1>1. UNCHANGED <<pc, ir, bits, poll, result, fault, late>>
  BY DEF PlDevice, PlStarts, PortLocks
<1>2. \/ pl.state = "starting" /\ pl' = [state |-> "started", locked |-> pl.locked]
      \/ PlDone /\ pl' = [state |-> pl.state, locked |-> TRUE]
  <2>1. CASE PlStarts
    <3>1. pl.state = "starting" /\ pl' = [pl EXCEPT !.state = "started"]
      BY <2>1 DEF PlStarts, ToState
    <3> QED BY <1>0, <3>1
  <2>2. CASE PortLocks
    <3>1. PlDone /\ pl' = [pl EXCEPT !.locked = TRUE]
      BY <2>2 DEF PortLocks
    <3>2. \A v : [pl EXCEPT !.locked = v] = [state |-> pl.state, locked |-> v]
      BY <1>0
    <3>3. pl' = [state |-> pl.state, locked |-> TRUE]
      BY <3>1, <3>2, Zenon
    <3> QED BY <3>1, <3>3
  <2> QED BY <2>1, <2>2 DEF PlDevice
<1>3. \/ pl.state = "starting" /\ pl'.state = "started" /\ pl'.locked = pl.locked
      \/ pl.state \in {"old", "started"} /\ pl'.state = pl.state
  BY <1>2 DEF PlDone
<1>4. PlTypeOK'
  <2> DEFINE States == Unstarted \cup {"old", "starting", "started"}
  <2>1. pl.state \in States /\ "started" \in States
    BY DEF PlTypeOK
  <2> HIDE DEF States
  <2>2. \A s \in States, l \in BOOLEAN : [state |-> s, locked |-> l] \in [state : States, locked : BOOLEAN]
    OBVIOUS
  <2>3. pl' \in [state : States, locked : BOOLEAN]
    <3>1. TRUE \in BOOLEAN
      OBVIOUS
    <3> QED BY <1>0, <1>2, <2>1, <2>2, <3>1, Zenon
  <2>4. pl' \in [state : Unstarted \cup {"old", "starting", "started"}, locked : BOOLEAN]
    BY <2>3 DEF States
  <2> QED BY <1>1, <2>4 DEF PlTypeOK
<1>5. LockInv'
  <2>1. PlDone' /\ (pl.locked => pl'.locked) /\ (PlDone \/ pl.state = "starting")
    <3>1. \A s, l : [state |-> s, locked |-> l].state = s /\ [state |-> s, locked |-> l].locked = l
      OBVIOUS
    <3> QED BY <1>0, <1>2, <1>3, <3>1 DEF PlDone
  <2>2. pl.state \notin Unstarted
    BY <1>3 DEF Unstarted
  <2> QED BY <1>1, <2>1, <2>2 DEF LockInv
<1>6. CleanInv'
  BY <1>1, <1>3 DEF CleanInv
<1>7. UNCHANGED <<tool, file, loaded, fp, user1, image, off, expired, answer, chip, busy0, runs>>
  BY DEF flash_vars
<1>8. FlashTypeOK'
  BY <1>1, <1>7 DEF FlashTypeOK
<1>9. BridgeInv'
  BY <1>1, <1>3, <1>7 DEF BridgeInv, Spi, Wip
<1>10. ContentInv'
  BY <1>1, <1>7 DEF ContentInv, Holds, Wip, Fits, PageLen
<1> QED BY <1>4, <1>5, <1>6, <1>8, <1>9, <1>10

\* The chip ends what it does: it is erased, or a page is written.
LEMMA ChipStep == ASSUME ProgInv, ChipFinishes PROVE ProgInv'
<1> USE DEF ProgInv, FlashInv
<1> DEFINE mem == IF chip.op[1] = "BULK_ERASE" THEN [x \in DOMAIN chip.mem |-> Erased]
                  ELSE Programmed(chip.mem, chip.op[2], chip.op[3])
<1>1. /\ UNCHANGED <<pc, pl, ir, bits, poll, result, fault, late>>
      /\ UNCHANGED <<tool, file, loaded, fp, user1, image, off, expired, answer, busy0, runs>> /\ Wip
  BY DEF ChipFinishes, pl_vars
<1>2. /\ chip = [jedec |-> chip.jedec, mem |-> chip.mem, wel |-> chip.wel, op |-> chip.op]
      /\ chip.mem \in [0 .. Capacity - 1 -> Bytes]
  BY DEF FlashTypeOK, ChipOK
<1>3. mem \in [0 .. Capacity - 1 -> Bytes]
  <2>1. [x \in DOMAIN chip.mem |-> Erased] \in [0 .. Capacity - 1 -> Bytes]
    BY <1>2 DEF Bytes, Erased
  <2>2. ASSUME NEW addr, NEW data PROVE Programmed(chip.mem, addr, data) \in [0 .. Capacity - 1 -> Bytes]
    <3> DEFINE w(x) == {i \in DOMAIN data : (addr - (addr % Page)) + ((addr + i - 1) % Page) = x}
               d(x) == data[CHOOSE i \in w(x) : \A j \in w(x) : j <= i]
               new(x) == IF w(x) = {} THEN chip.mem[x] ELSE chip.mem[x] \cap d(x)
    <3>1. Programmed(chip.mem, addr, data) = [x \in DOMAIN chip.mem |-> new(x)]
      BY DEF Programmed
    <3> HIDE DEF w, d
    <3>2. \A x \in 0 .. Capacity - 1 : new(x) \in Bytes
      <4>1. ASSUME NEW x \in 0 .. Capacity - 1 PROVE new(x) \in Bytes
        <5>1. chip.mem[x] \in SUBSET Bits
          BY <1>2 DEF Bytes
        <5>2. new(x) \subseteq chip.mem[x]
          OBVIOUS
        <5> QED BY <5>1, <5>2 DEF Bytes
      <4> QED BY <4>1
    <3> HIDE DEF new
    <3> QED BY <3>1, <3>2, <1>2
  <2> QED BY <2>1, <2>2
<1>4. chip' = [jedec |-> chip.jedec, mem |-> mem, wel |-> FALSE, op |-> NoOp]
  <2>1. chip' = [chip EXCEPT !.op = NoOp, !.wel = FALSE, !.mem = mem]
    BY DEF ChipFinishes
  <2> HIDE DEF mem
  <2> DEFINE none == FALSE
             c1 == [chip EXCEPT !.op = NoOp]
             c2 == [c1 EXCEPT !.wel = none]
             c3 == [c2 EXCEPT !.mem = mem]
  <2> HIDE DEF none
  <2>2. chip' = c3
    BY <2>1 DEF none
  <2>3. c1 = [jedec |-> chip.jedec, mem |-> chip.mem, wel |-> chip.wel, op |-> NoOp]
    BY <1>2
  <2> HIDE DEF c1
  <2>4. c2 = [jedec |-> chip.jedec, mem |-> chip.mem, wel |-> none, op |-> NoOp]
    BY <2>3
  <2> HIDE DEF c2
  <2>5. c3 = [jedec |-> chip.jedec, mem |-> mem, wel |-> none, op |-> NoOp]
    BY <2>4
  <2> HIDE DEF c3
  <2> QED BY <2>2, <2>5 DEF none
<1>5. chip'.jedec = chip.jedec /\ chip'.mem = mem /\ chip'.wel = FALSE /\ chip'.op = NoOp
  BY <1>4
<1>6. ~Wip' /\ ChipOK(chip')
  <2>1. ~Wip'
    BY <1>5 DEF Wip
  <2> HIDE DEF mem
  <2>2. chip' = [jedec |-> chip'.jedec, mem |-> chip'.mem, wel |-> chip'.wel, op |-> chip'.op]
    BY <1>4, <1>5
  <2> QED BY <2>1, <2>2, <1>3, <1>5 DEF ChipOK
<1>7. fp \notin Idle
  BY <1>1 DEF BridgeInv
<1>8. PlInv'
  BY <1>1, PlUntouched
<1>9. FlashTypeOK'
  BY <1>1, <1>6 DEF FlashTypeOK
<1>10. BridgeInv'
  BY <1>1, <1>5, <1>6, <1>7 DEF BridgeInv, Spi, Idle
<1>11. ContentInv'
  <2>1. CASE fp = "erase_wait"
    <3>1. chip.op = <<"BULK_ERASE">> /\ image = loaded.out /\ Fits /\ off = 0
      BY <1>1, <2>1 DEF ContentInv, Write
    <3>2. \A x \in 0 .. Capacity - 1 : chip'.mem[x] = Erased
      <4>1. chip.op[1] = "BULK_ERASE"
        BY <3>1
      <4>2. mem = [x \in 0 .. Capacity - 1 |-> Erased]
        BY <1>2, <4>1
      <4> HIDE DEF mem
      <4> QED BY <1>5, <4>2
    <3>3. Holds(0)'
      BY <3>2, McsAssumption DEF Holds
    <3>4. answer = "none"
      BY <2>1 DEF FlashTypeOK, Late
    <3> QED BY <1>1, <1>6, <2>1, <3>1, <3>3, <3>4 DEF ContentInv, Fits
  <2>2. CASE fp = "page_wait"
    <3>1. /\ chip.op = <<"PAGE_PROGRAM", off, SubSeq(image, off + 1, off + PageLen)>>
          /\ Holds(off) /\ off % Page = 0 /\ off <= Len(image) /\ image = loaded.out /\ Fits
      BY <1>1, <2>2 DEF ContentInv, Write
    <3>2. mem = Programmed(chip.mem, off, SubSeq(image, off + 1, off + PageLen))
      <4> DEFINE data == SubSeq(image, off + 1, off + PageLen)
      <4> HIDE DEF data
      <4>1. chip.op = <<"PAGE_PROGRAM", off, data>>
        BY <3>1 DEF data
      <4>2. chip.op[1] = "PAGE_PROGRAM" /\ chip.op[2] = off /\ chip.op[3] = data
        BY <4>1
      <4> QED BY <4>2 DEF data
    <3>3. \A x \in 0 .. Capacity - 1 : chip'.mem[x] = IF x < off + PageLen THEN image[x + 1] ELSE Erased
      BY <3>1, <3>2, <1>5, PageProgrammed
    <3>4. Holds(off + PageLen)'
      BY <1>1, <3>3 DEF Holds, PageLen
    <3>5. answer = "none"
      BY <2>2 DEF FlashTypeOK, Late
    <3> QED BY <1>1, <1>6, <2>2, <3>1, <3>4, <3>5 DEF ContentInv, Fits, Early
  <2>3. CASE fp \notin {"erase_wait", "page_wait"}
    <3>1. ~(tool = "flash" /\ answer = "true")
      BY <1>1 DEF ContentInv
    <3>2. fp \notin Write
      BY <1>7, <2>3 DEF Write, Idle
    <3> QED BY <1>1, <1>5, <2>3, <3>1, <3>2 DEF ContentInv, Fits, Write, Early
  <2> QED BY <2>1, <2>2, <2>3
<1> QED BY <1>8, <1>9, <1>10, <1>11

LEMMA TimeoutStep == ASSUME ProgInv, TimeoutPasses PROVE ProgInv'
<1> USE DEF ProgInv, PlInv, FlashInv
<1>1. /\ UNCHANGED <<pc, pl, ir, bits, poll, result, fault>> /\ late' = TRUE /\ expired' = TRUE
      /\ UNCHANGED <<tool, file, loaded, fp, user1, image, off, answer, chip, busy0, runs>>
  BY DEF TimeoutPasses
<1>2. PlTypeOK'
  BY <1>1 DEF PlTypeOK
<1>3. LockInv'
  BY <1>1 DEF LockInv, PlDone
<1>4. CleanInv'
  BY <1>1 DEF CleanInv
<1>5. FlashTypeOK'
  BY <1>1 DEF FlashTypeOK
<1>6. BridgeInv'
  BY <1>1 DEF BridgeInv, Spi, Wip
<1>7. ContentInv'
  BY <1>1 DEF ContentInv, Holds, Wip, Fits, PageLen
<1> QED BY <1>2, <1>3, <1>4, <1>5, <1>6, <1>7

\* A new program starts when none runs.
LEMMA StartFacts ==
  ASSUME ProgInv, CanStart
  PROVE  fp \notin Early \cup Late /\ fp \notin Write
<1>1. ~(tool = "flash" /\ answer = "none")
  BY DEF CanStart, Running
<1>2. fp \notin Early \cup Late
  BY <1>1 DEF ProgInv, FlashInv, FlashTypeOK
<1> QED BY <1>2 DEF Write, Late, Idle

LEMMA RefusedStep == ASSUME ProgInv, Refused PROVE ProgInv'
<1> USE DEF ProgInv, PlInv, FlashInv
<1>1. fp \notin Early \cup Late /\ fp \notin Write /\ tool' = "none"
  BY StartFacts DEF Refused
<1>2. /\ UNCHANGED <<pc, pl, ir, bits, poll, result, fault, late>>
      /\ UNCHANGED <<file, loaded, fp, user1, image, off, expired, answer, chip, busy0>>
  BY DEF Refused, pl_vars
<1>3. PlInv'
  BY <1>2, PlUntouched
<1>4. FlashTypeOK'
  BY <1>1, <1>2 DEF FlashTypeOK
<1>5. BridgeInv'
  BY <1>1, <1>2 DEF BridgeInv, Idle, Late
<1>6. ContentInv'
  BY <1>1, <1>2 DEF ContentInv, Write, Late, Idle
<1> QED BY <1>3, <1>4, <1>5, <1>6

\* PlConfig::program() begins anew, whatever the PL does.
LEMMA PlStartStep ==
  ASSUME PlInv, NEW f \in [there : BOOLEAN, words : Seq(Words)], PlStart(f), UNCHANGED pl
  PROVE  PlInv'
<1> USE DEF PlInv
<1>1. /\ bits' = f /\ pc' = "load" /\ result' = "none" /\ fault' = 0 /\ late' = FALSE
      /\ poll' = [attempt |-> 0, status |-> "zero", any_nonzero |-> FALSE, read |-> FALSE]
  BY DEF PlStart
<1>2. poll'.attempt = 0 /\ poll'.status = "zero" /\ poll'.read = FALSE /\ poll'.any_nonzero = FALSE
  BY <1>1
<1>3. PlTypeOK'
  <2>1. poll' \in [attempt : 0 .. MaxPolls, status : {"zero", "done", "crc", "waiting"},
                   any_nonzero : BOOLEAN, read : BOOLEAN]
    BY <1>1, PlAssumption
  <2>2. pl' \in [state : Unstarted \cup {"old", "starting", "started"}, locked : BOOLEAN]
    BY DEF PlTypeOK
  <2>3. bits' \in [there : BOOLEAN, words : Seq(Words)]
    BY <1>1
  <2>4. 0 < MaxPolls
    BY PlAssumption
  <2> QED BY ONLY <1>1, <1>2, <2>1, <2>2, <2>3, <2>4 DEF PlTypeOK
<1>4. LockInv'
  BY <1>1, <1>2 DEF LockInv, PlDone
<1>5. CleanInv'
  BY <1>1 DEF CleanInv
<1> QED BY <1>3, <1>4, <1>5

LEMMA ProgramPlStep == ASSUME ProgInv, NEW f \in BitFiles, ProgramPl(f) PROVE ProgInv'
<1> USE DEF ProgInv, FlashInv
<1>1. fp \notin Early \cup Late /\ fp \notin Write /\ tool' = "pl"
  BY StartFacts DEF ProgramPl
<1>2. UNCHANGED <<pl, ir, file, loaded, fp, user1, image, off, expired, answer, chip>> /\ busy0' = Wip
  BY DEF ProgramPl
<1>3. PlInv'
  <2>1. PlStart(f) /\ f \in [there : BOOLEAN, words : Seq(Words)]
    BY FlashAssumption DEF ProgramPl
  <2> QED BY <1>2, <2>1, PlStartStep
<1>4. FlashTypeOK'
  BY <1>1, <1>2 DEF FlashTypeOK, Wip
<1>5. BridgeInv'
  BY <1>1, <1>2 DEF BridgeInv, Idle, Late
<1>6. ContentInv'
  BY <1>1, <1>2 DEF ContentInv, Write, Late, Idle
<1> QED BY <1>3, <1>4, <1>5, <1>6

LEMMA ProgramFlashStep == ASSUME ProgInv, NEW f \in ImageFiles, ProgramFlash(f) PROVE ProgInv'
<1> USE DEF ProgInv, FlashInv
<1>1. /\ tool' = "flash" /\ fp' = "bridge" /\ answer' = "none" /\ busy0' = Wip /\ user1' = FALSE
      /\ image' = <<>> /\ off' = 0 /\ expired' = FALSE /\ UNCHANGED <<pl, ir, chip>>
      /\ loaded' = LoadImageFile(f) /\ PlStart([there |-> TRUE, words |-> Bridge])
  BY DEF ProgramFlash
<1>2. [there |-> TRUE, words |-> Bridge] \in [there : BOOLEAN, words : Seq(Words)]
  BY FlashAssumption
<1>3. PlInv'
  BY <1>1, <1>2, PlStartStep
<1>4. bits' = [there |-> TRUE, words |-> Bridge]
  BY <1>1 DEF PlStart
<1>5. FlashTypeOK'
  <2>1. LoadImageFile(f) \in [ok : BOOLEAN, out : Seq(Bytes), wild : BOOLEAN]
    BY FlashAssumption, LoadType
  <2>2. <<>> \in Seq(Bytes) /\ Len(<<>>) = 0
    OBVIOUS
  <2>3. image' \in Seq(Bytes) /\ Len(image') <= Capacity /\ off' \in 0 .. Capacity + Chunk
    BY <1>1, <2>2, FlashAssumption, McsAssumption
  <2>4. ChipOK(chip') /\ busy0' \in BOOLEAN
    BY <1>1 DEF FlashTypeOK, Wip
  <2> QED BY <1>1, <1>4, <2>1, <2>3, <2>4 DEF FlashTypeOK, Early
<1>6. BridgeInv'
  BY <1>1 DEF BridgeInv, Early, Late, Idle, Wip
<1>7. ContentInv'
  BY <1>1 DEF ContentInv, Early, Write
<1> QED BY <1>3, <1>5, <1>6, <1>7

LEMMA VerboseStep == ASSUME ProgInv, VerboseStatus PROVE ProgInv'
<1> USE DEF ProgInv, FlashInv
<1>1. /\ UNCHANGED <<pc, pl, bits, poll, result, fault, late>> /\ tool = "pl"
      /\ UNCHANGED <<tool, file, loaded, fp, user1, image, off, expired, answer, chip, busy0, runs>>
  BY DEF VerboseStatus, flash_vars
<1>2. fp \notin Early \cup Late
  BY <1>1 DEF FlashTypeOK
<1>3. PlInv'
  BY <1>1, PlUntouched
<1>4. FlashTypeOK'
  BY <1>1 DEF FlashTypeOK
<1>5. BridgeInv'
  BY <1>1, <1>2 DEF BridgeInv, Wip, Idle, Late
<1>6. ContentInv'
  BY <1>1 DEF ContentInv, Holds, Wip, Fits, PageLen
<1> QED BY <1>3, <1>4, <1>5, <1>6

LEMMA StutterStep == ASSUME ProgInv, UNCHANGED prog_vars PROVE ProgInv'
<1>1. /\ UNCHANGED <<pc, pl, ir, bits, poll, result, fault, late>>
      /\ UNCHANGED <<tool, file, loaded, fp, user1, image, off, expired, answer, chip, busy0, runs>>
  BY DEF prog_vars, pl_vars, flash_vars
<1>2. PlInv'
  BY <1>1, PlUntouched DEF ProgInv
<1>3. FlashTypeOK'
  BY <1>1 DEF ProgInv, FlashInv, FlashTypeOK
<1>4. BridgeInv'
  BY <1>1 DEF ProgInv, FlashInv, BridgeInv, Spi, Wip
<1>5. ContentInv'
  BY <1>1 DEF ProgInv, FlashInv, ContentInv, Holds, Wip, Fits, PageLen
<1> QED BY <1>2, <1>3, <1>4, <1>5 DEF ProgInv, FlashInv

LEMMA ProgInvStep == ASSUME ProgInv, [Next]_prog_vars PROVE ProgInv'
<1>1. ASSUME NEW f \in BitFiles, NEW d \in Indices,
             ProgramBitstream(f, d) \/ HardwareProgramPl(f, d) \/ PlProgramMain(f, d)
      PROVE  ProgInv'
  <2>1. Refused \/ ProgramPl(f)
    BY <1>1 DEF ProgramBitstream, HardwareProgramPl, PlProgramMain
  <2> QED BY <2>1, RefusedStep, ProgramPlStep
<1>2. ASSUME NEW f \in ImageFiles, NEW d \in Indices, FlashProgramMain(f, d) PROVE ProgInv'
  <2>1. Refused \/ ProgramFlash(f)
    BY <1>2 DEF FlashProgramMain
  <2> QED BY <2>1, RefusedStep, ProgramFlashStep
<1>3. CASE FlashStep
  BY <1>3, BridgeLoadedStep, ResetTapStep, ReadIdStep, LoadImageStep, EraseEnableStep, EraseStep,
     EraseWaitStep, PageEnableStep, PageProgramStep, PageWaitStep, VerifyStep DEF FlashStep
<1>4. CASE PlStep /\ UNCHANGED flash_vars
  BY <1>4, PlStepStep
<1>5. CASE PlDevice /\ UNCHANGED flash_vars
  BY <1>5, PlDeviceStep
<1>6. CASE VerboseStatus \/ ChipFinishes \/ TimeoutPasses
  BY <1>6, VerboseStep, ChipStep, TimeoutStep
<1>7. CASE UNCHANGED prog_vars
  BY <1>7, StutterStep
<1> QED BY <1>1, <1>2, <1>3, <1>4, <1>5, <1>6, <1>7 DEF Next, ProgramSteps

LEMMA InitProgInv == Init => ProgInv
<1> SUFFICES ASSUME Init PROVE ProgInv
  OBVIOUS
<1>1. /\ pc = "idle" /\ ir = "IDCODE" /\ result = "none" /\ fault = 0 /\ late = FALSE
      /\ pl = [state |-> "old", locked |-> FALSE] /\ bits = [there |-> FALSE, words |-> <<>>]
      /\ poll = [attempt |-> 0, status |-> "zero", any_nonzero |-> FALSE, read |-> FALSE]
  BY DEF Init, PlInit
<1>2. /\ tool = "none" /\ loaded = [ok |-> FALSE, out |-> <<>>, wild |-> FALSE] /\ fp = "off" /\ user1 = FALSE
      /\ image = <<>> /\ off = 0 /\ expired = FALSE /\ answer = "none" /\ busy0 = FALSE
  BY DEF Init
<1>3. PICK j \in Chips : chip = [jedec |-> j, mem |-> [x \in 0 .. Capacity - 1 |-> Stale],
                                 wel |-> FALSE, op |-> NoOp]
  BY DEF Init
<1>4. <<>> \in Seq(Bytes) /\ <<>> \in Seq(Words) /\ Len(<<>>) = 0
  OBVIOUS
<1>5. PlTypeOK
  <2>1. poll \in [attempt : 0 .. MaxPolls, status : {"zero", "done", "crc", "waiting"},
                  any_nonzero : BOOLEAN, read : BOOLEAN] /\ poll.attempt = 0
    BY <1>1, PlAssumption
  <2>2. bits \in [there : BOOLEAN, words : Seq(Words)]
    BY <1>1, <1>4
  <2>3. pl \in [state : Unstarted \cup {"old", "starting", "started"}, locked : BOOLEAN]
    <3>1. "old" \in Unstarted \cup {"old", "starting", "started"} /\ FALSE \in BOOLEAN
      OBVIOUS
    <3> QED BY <1>1, <3>1
  <2>4. 0 < MaxPolls
    BY PlAssumption
  <2> QED BY ONLY <1>1, <2>1, <2>2, <2>3, <2>4 DEF PlTypeOK
<1>6. LockInv /\ CleanInv
  BY <1>1 DEF LockInv, CleanInv, PlDone
<1>7. FlashTypeOK
  <2>1. ChipOK(chip)
    <3>1. chip.jedec = j /\ chip.mem = [x \in 0 .. Capacity - 1 |-> Stale] /\ chip.wel = FALSE /\ chip.op = NoOp
      BY <1>3
    <3>2. Stale \in Bytes
      BY FlashAssumption
    <3> QED BY <1>3, <3>1, <3>2 DEF ChipOK
  <2>2. loaded \in [ok : BOOLEAN, out : Seq(Bytes), wild : BOOLEAN] /\ image \in Seq(Bytes) /\ Len(image) <= Capacity
        /\ off \in 0 .. Capacity + Chunk
    BY <1>2, <1>4, FlashAssumption, McsAssumption
  <2> QED BY <1>2, <2>1, <2>2 DEF FlashTypeOK, Early, Late, Idle
<1>8. BridgeInv /\ ContentInv
  BY <1>1, <1>2 DEF BridgeInv, ContentInv, Early, Late, Idle, Write
<1> QED BY <1>5, <1>6, <1>7, <1>8 DEF ProgInv, PlInv, FlashInv

\* FlashProgrammer::program() returns true only when the chip holds the image and
\* nothing else, PlConfig::program() only when DONE is high.
THEOREM SuccessIsReal == ProgSpec => []SuccessIsTrue
<1>1. ASSUME ProgInv PROVE SuccessIsTrue
  <2> USE DEF ProgInv, PlInv, FlashInv
  <2>1. ProgTypeOK
    BY <1>1 DEF ProgTypeOK, PlTypeOK, FlashTypeOK, ChipOK, Unstarted
  <2>2. ASSUME tool = "flash", answer = "true", NEW x \in 0 .. Capacity - 1
        PROVE  chip.mem[x] = IF x < Len(loaded.out) THEN loaded.out[x + 1] ELSE Erased
    BY <1>1, <2>2 DEF ContentInv, Holds
  <2>3. result = "true" /\ poll.read => PlDone
    BY <1>1 DEF LockInv, PlTypeOK
  <2> QED BY <2>1, <2>2, <2>3 DEF SuccessIsTrue
<1> QED BY <1>1, InitProgInv, ProgInvStep, PTL DEF ProgSpec

\* Without a failed cable call or a late chip, program() fails only for a file
\* or a chip that is wrong: the orders it sends are complete and in order.
THEOREM FailureIsOwed == ProgSpec => []NoSpuriousFailure
<1>1. ASSUME ProgInv PROVE NoSpuriousFailure
  BY <1>1 DEF ProgInv, PlInv, FlashInv, CleanInv, ContentInv, NoSpuriousFailure
<1> QED BY <1>1, InitProgInv, ProgInvStep, PTL DEF ProgSpec

---------------------------------------------------------------------------
(* The image of the file                                                   *)

\* What is loaded is the file of this run.
FileInv == file.there => file \in ImageFiles /\ loaded = LoadImageFile(file)

\* loadImageFile() writes no byte of an Intel HEX file whose records end below
\* 2^32 behind its image; and where upper | rec.addr loses no carry either, the
\* image is the one that the records describe, whatever they are.
THEOREM McsImage == ProgSpec => []McsImageRight
<1>1. Init => FileInv
  <2> SUFFICES ASSUME Init PROVE FileInv
    OBVIOUS
  <2>1. file = [kind |-> "bin", there |-> FALSE, content |-> <<>>]
    BY DEF Init
  <2>2. ~file.there
    BY <2>1
  <2> QED BY <2>2 DEF FileInv
<1>2. ASSUME FileInv, [Next]_prog_vars PROVE FileInv'
  <2>1. CASE UNCHANGED <<file, loaded>>
    BY <1>2, <2>1 DEF FileInv
  <2>2. CASE \E f \in ImageFiles : ProgramFlash(f)
    BY <2>2 DEF ProgramFlash, FileInv
  <2>3. UNCHANGED <<file, loaded>> \/ \E f \in ImageFiles : ProgramFlash(f)
    <3> USE DEF flash_vars
    <3>1. CASE \E f \in BitFiles, d \in Indices :
                 ProgramBitstream(f, d) \/ HardwareProgramPl(f, d) \/ PlProgramMain(f, d)
      BY <3>1 DEF ProgramBitstream, HardwareProgramPl, PlProgramMain, ProgramPl, Refused
    <3>2. CASE \E f \in ImageFiles, d \in Indices : FlashProgramMain(f, d)
      BY <3>2 DEF FlashProgramMain, Refused
    <3>3. CASE FlashStep
      BY <3>3 DEF FlashStep, BridgeLoaded, ResetTap, ReadId, LoadImage, EraseEnable, Erase, EraseWait,
                  PageEnable, PageProgram, PageWait, Verify, WaitWipClear, Transfer
    <3>4. CASE UNCHANGED flash_vars
      BY <3>4
    <3>5. CASE VerboseStatus \/ ChipFinishes \/ TimeoutPasses
      BY <3>5 DEF VerboseStatus, ChipFinishes, TimeoutPasses
    <3>6. CASE UNCHANGED prog_vars
      BY <3>6 DEF prog_vars
    <3> QED BY <1>2, <3>1, <3>2, <3>3, <3>4, <3>5, <3>6 DEF Next, ProgramSteps
  <2> QED BY <2>1, <2>2, <2>3
<1>3. ASSUME FileInv PROVE McsImageRight
  <2>1. SUFFICES ASSUME file.there, file.kind = "mcs", NoWrap(file.content)
                 PROVE  ~loaded.wild /\ (NoCarry(file.content) => McsMeaning(file.content, loaded))
    BY DEF McsImageRight
  <2>2. file \in Files /\ loaded = LoadImageFile(file)
    BY <1>3, <2>1, FlashAssumption DEF FileInv
  <2> QED BY <2>1, <2>2, McsParserRight
<1> QED BY <1>1, <1>2, <1>3, PTL DEF ProgSpec
=============================================================================
