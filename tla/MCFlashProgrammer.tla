------------------------- MODULE MCFlashProgrammer -------------------------
(***************************************************************************)
(* A PL with a device on either side, a flash of eight bytes of two bits   *)
(* in pages of two, and image files of both kinds: of one byte to one too  *)
(* many, with gaps, overlaps, both kinds of extended addresses (one that   *)
(* carries too), records after the end, bad records and one that crosses   *)
(* the end of the address range.                                           *)
(***************************************************************************)
EXTENDS FlashProgrammer

TheFrames == <<"f1", "f2">>
TheBridge == <<"hdr", "sync", "f1", "f2">>
TheBitFiles == {[there |-> t, words |-> w] : t \in {TRUE},
                  w \in {<<>>, <<"sync", "f1", "f2">>, <<"hdr", "sync", "f1">>, <<"f1", "f2">>,
                         <<"hdr", "sync", "f1", "bad">>}}
               \cup {[there |-> FALSE, words |-> <<>>]}

Rec(type, addr, data) == [type |-> type, addr |-> addr, data |-> data, bad |-> FALSE]
Data(addr, data) == Rec("data", addr, data)
Mcs(records) == [kind |-> "mcs", there |-> TRUE, content |-> records]
Bin(bytes) == [kind |-> "bin", there |-> TRUE, content |-> bytes]
Eof == Rec("eof", 0, <<>>)
a == {0}
b == {1}
BinFiles == {Bin(<<>>), Bin(<<{}>>), Bin(<<a>>), Bin(<<a, b, {}>>), Bin(<<a, b, a, a, b>>),
             Bin(<<b, a, b, a, b, a, b, a>>), Bin(<<a, a, a, a, a, a, a, a, a>>)}
McsFiles == {Mcs(<<Data(1, <<a, b>>), Eof>>),
             Mcs(<<Data(0, <<a, a>>), Data(1, <<b>>), Data(3, <<{}>>)>>),
             Mcs(<<Data(0, <<a>>), Rec("ela", 0, <<1>>), Data(1, <<b, a>>), Eof, Data(0, <<{}>>)>>),
             Mcs(<<Rec("esa", 0, <<2>>), Data(2, <<b>>), Rec("ela", 0, <<0>>), Data(3, <<a, a>>)>>),
             Mcs(<<Rec("start", 0, <<>>), Data(3, <<a>>), Data(0, <<b>>), Eof>>),
             Mcs(<<Rec("ela", 0, <<1>>), Data(3, <<a, b>>)>>),
             Mcs(<<Rec("ela", 0, <<1, 0>>), Data(0, <<a>>)>>),
             Mcs(<<Data(0, <<b, a>>), Rec("ela", 0, <<3>>), Data(3, <<a, b>>)>>),
             Mcs(<<Rec("esa", 0, <<1>>), Data(2, <<b>>)>>),
             Mcs(<<Data(0, <<a>>), [Data(1, <<b>>) EXCEPT !.bad = TRUE]>>),
             Mcs(<<Eof, Data(0, <<a>>)>>)}
TheImageFiles == BinFiles \cup McsFiles \cup {[kind |-> "mcs", there |-> FALSE, content |-> <<>>]}
=============================================================================
