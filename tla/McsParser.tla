----------------------------- MODULE McsParser -----------------------------
(***************************************************************************)
(* The loaders of flash images: parseMcsToImage() of src/flash/mcs_parser  *)
(* for Intel HEX files and loadBinFile() of src/flash/flash_programmer.cpp *)
(* for raw ones. A byte is the set of its one bits, so that programming a  *)
(* flash cell is an intersection.                                          *)
(***************************************************************************)
EXTENDS Naturals, Sequences

CONSTANTS Bits,       \* the bits of a byte
          Capacity,   \* kCapacityBytes
          SegSpan,    \* 65536: what the address of a record spans
          EsaUnit,    \* 16: the unit of an extended segment address
          AddrBits,   \* 32: addresses are uint32_t
          AddrSpan    \* 2^32

ASSUME McsAssumption == /\ {Capacity, SegSpan, EsaUnit, AddrSpan} \subseteq Nat \ {0}
                        /\ AddrBits \in Nat /\ AddrSpan = 2 ^ AddrBits

Erased == Bits      \* 0xFF

\* "bad" is a record that parseMcsRecord() refuses: a short line, a digit that
\* is no hex digit, a wrong checksum. The address of an extended address record
\* is its one data word.
Bytes == SUBSET Bits
Record(types, words) ==
  [type : types, addr : 0 .. SegSpan - 1, data : Seq(words), bad : BOOLEAN]
Records == Record({"data"}, Bytes) \cup Record({"eof", "ela", "esa", "start"}, 0 .. SegSpan - 1)

Upper(rec) == (rec.data[1] * (IF rec.type = "ela" THEN SegSpan ELSE EsaUnit)) % AddrSpan

\* upper | rec.addr, from the lowest bit on; unit is 2^k.
Or(m, n) ==
  LET or[k \in 0 .. AddrBits] ==
        IF k = 0 THEN [low |-> 0, unit |-> 1]
        ELSE LET o == or[k - 1]
                 set == \E x \in {m, n} : (x \div o.unit) % 2 = 1
             IN [low |-> o.low + (IF set THEN o.unit ELSE 0), unit |-> 2 * o.unit]
  IN or[AddrBits].low

\* out.resize(end, 0xFF) when end is past the image, then memcpy() to base: of
\* the bytes that go behind the image nothing is known but that they do (Wild).
Size(out, end) == IF end > Len(out) THEN end ELSE Len(out)
Wild(out, base, end, data) == base + Len(data) > Size(out, end)
\* Mutant: the gap before a record is not filled.
PutNoGap(out, base, end, data) ==
  [i \in 1 .. Size(out, end) |-> IF i \in base + 1 .. base + Len(data) THEN data[i - base]
                                ELSE IF i <= Len(out) THEN out[i] ELSE {}]
Put(out, base, end, data) ==
  [i \in 1 .. Size(out, end) |-> IF i \in base + 1 .. base + Len(data) THEN data[i - base]
                                ELSE IF i <= Len(out) THEN out[i] ELSE Erased]

\* One turn of the loop over the lines. s.more is FALSE once a record ended it,
\* s.wild is TRUE once memcpy() wrote behind the image: end is a uint32_t, and a
\* record that crosses 2^32 ends at a low address.
ParseRecord(s, rec) ==
  LET fail == [s EXCEPT !.more = FALSE, !.ok = FALSE]
      base == Or(s.upper, rec.addr)
      end  == (base + Len(rec.data)) % AddrSpan
  IN CASE ~s.more -> s
       [] s.more /\ rec.bad -> fail
       [] s.more /\ ~rec.bad /\ rec.type = "eof" -> [s EXCEPT !.more = FALSE]
       [] s.more /\ ~rec.bad /\ rec.type \in {"ela", "esa"} ->
            IF Len(rec.data) # 1 THEN fail ELSE [s EXCEPT !.upper = Upper(rec)]
       [] s.more /\ ~rec.bad /\ rec.type = "data" ->
            IF end > Capacity THEN fail
            ELSE [s EXCEPT !.out = Put(@, base, end, rec.data),
                           !.wild = @ \/ Wild(s.out, base, end, rec.data)]
       [] OTHER -> s       \* start address records

ParseMcsToImage(records) ==
  LET parsed[k \in 0 .. Len(records)] ==
        IF k = 0 THEN [more |-> TRUE, ok |-> TRUE, upper |-> 0, out |-> <<>>, wild |-> FALSE]
        ELSE ParseRecord(parsed[k - 1], records[k])
      end == parsed[Len(records)]
  IN [end EXCEPT !.ok = @ /\ end.out # <<>>]

\* A raw image is its bytes.
Files == [kind : {"bin"}, there : BOOLEAN, content : Seq(Bytes)]
         \cup [kind : {"mcs"}, there : BOOLEAN, content : Seq(Records)]
LoadBinFile(file) == [ok |-> file.content # <<>>, out |-> file.content, wild |-> FALSE]

\* A file that cannot be opened fails; the extension picks the loader.
LoadImageFile(file) ==
  IF ~file.there THEN [ok |-> FALSE, out |-> <<>>, wild |-> FALSE]
  ELSE LET r == IF file.kind = "mcs" THEN ParseMcsToImage(file.content) ELSE LoadBinFile(file)
       IN [ok |-> r.ok, out |-> r.out, wild |-> r.wild]

---------------------------------------------------------------------------
(* What an Intel HEX file means, record by record and byte by byte         *)

Counted(f) == {k \in DOMAIN f : \A i \in 1 .. k - 1 : f[i].type # "eof"}
Segment(f, k) ==
  LET e == {i \in 1 .. k - 1 : f[i].type \in {"ela", "esa"}}
  IN IF e = {} THEN 0 ELSE Upper(f[CHOOSE i \in e : \A j \in e : j <= i])
First(f, k) == Segment(f, k) + f[k].addr
DataRecords(f) == {k \in Counted(f) : f[k].type = "data"}
Writers(f, a) == {k \in DataRecords(f) : a \in First(f, k) .. First(f, k) + Len(f[k].data) - 1}

\* No record's address shares a bit with its segment: upper | rec.addr is then
\* the sum that the format means.
NoCarry(f) == \A k \in DOMAIN f :
                f[k].type = "data" => Or(Segment(f, k), f[k].addr) = First(f, k)

\* Every record ends below 2^32: the sum of its address and length is its end.
NoWrap(f) == \A k \in DOMAIN f : f[k].type = "data" =>
               Or(Segment(f, k), f[k].addr) + Len(f[k].data) < AddrSpan

\* The parser's image has, at every address, the byte of the last record that
\* writes there and the erased byte where none does, and it ends with the last
\* record; a file with a bad record before its end is refused.
McsMeaning(f, r) ==
  IF (\E k \in Counted(f) : f[k].bad) \/ DataRecords(f) = {} THEN ~r.ok
  ELSE r.ok =>
       /\ \A a \in 0 .. Len(r.out) - 1 :
            r.out[a + 1] = IF Writers(f, a) = {} THEN Erased
                           ELSE LET k == CHOOSE k \in Writers(f, a) :
                                           \A j \in Writers(f, a) : j <= k
                                IN f[k].data[a - First(f, k) + 1]
       /\ \A k \in DataRecords(f) : First(f, k) + Len(f[k].data) <= Len(r.out)
       /\ \E k \in DataRecords(f) : First(f, k) + Len(f[k].data) = Len(r.out)
=============================================================================
