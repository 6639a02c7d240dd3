------------------------------ MODULE MCResolver ------------------------------
(***************************************************************************)
(* Pages of 8 bytes.  The code is main at 9..12 and f at 17..20; data lies *)
(* at 20..33.  The binary is loaded at 64, blocks lie from 104 on, and the *)
(* library is at 200.                                                      *)
(***************************************************************************)
EXTENDS Resolver

Elf(n, a, s, k) == [name |-> n, address |-> a, size |-> s, kind |-> k]
Variable(n, a, s, t) == [tag |-> "variable", name |-> n, address |-> a, size |-> s, type |-> t]
M(n, o, s) == [name |-> n, location |-> o, bit |-> -1, size |-> 0, typeSize |-> s]
TypeOf(n, s, ms) == [tag |-> "type", name |-> n, size |-> s, members |-> ms]
Sub(n, a, len, ts) ==
  [tag |-> "subprogram", name |-> n, linkage |-> NoName, low |-> a, length |-> len,
   locals |-> {[name |-> 1, target |-> t] : t \in ts}]
Entry(a, s, l, pcs) == [addr |-> a, size |-> s, live |-> l, pcs |-> pcs]

Pair == TypeOf(1, 4, <<M(1, 0, 2), M(2, 2, 2)>>)
Union == TypeOf(3, 4, <<M(1, 0, 2), M(2, 0, 4), [M(3, 0, 0) EXCEPT !.bit = 16, !.size = 1]>>)
Typedef == TypeOf(1, 0, <<>>)
Headless == TypeOf(2, 8, <<M(0, 0, 4), M(1, 4, 2), M(2, 6, 0)>>)
Nameless == TypeOf(0, 4, <<M(1, 0, 4)>>)
Wide == TypeOf(1, 8, <<M(1, 0, 2), M(2, 4, 4)>>)
Linked == [Sub(6, 17, 4, {1, 2}) EXCEPT !.linkage = 9]

CodeElf == <<Elf(5, 9, 4, "FUNC"), Elf(8, 10, 2, "OTHER"), Elf(0, 12, 1, "FUNC")>>
DataElf(k) == <<Elf(7, 20, 4, k), Elf(0, 22, 0, k), Elf(4, 0, 0, k)>>
Variables ==
  {<<>>, <<Variable(7, 20, 4, 1)>>, <<Variable(7, 20, 4, 1), Variable(7, 22, 2, 0)>>,
   <<Variable(7, 20, 6, 3), Variable(7, 26, 4, 1)>>, <<Variable(7, 26, 4, 1), Variable(0, 20, 4, 1)>>,
   <<Variable(7, 28, 0, 1), Variable(8, 22, 6, 3)>>, <<Variable(7, 20, 4, 1), Variable(8, 20, 2, 3)>>,
   <<Variable(7, 22, 4, 3), Variable(8, 30, 4, 3), Variable(7, 0, 4, 1)>>}
TypeDies ==
  {<<Pair>>, <<Union, Pair, Nameless>>, <<Pair, Typedef>>, <<Typedef, Pair, Headless>>,
   <<Headless>>, <<Headless, Headless>>, <<Wide, Pair>>}
Functions ==
  {<<Sub(5, 9, 4, {1})>>, <<Sub(5, 9, 4, {}), Sub(6, 17, 4, {1, 2})>>,
   <<Sub(6, 0, 0, {3}), Sub(5, 9, 4, {1, 3}), Linked>>}

SmallBinary == [elf |-> <<Elf(5, 9, 4, "FUNC")>>, dies |-> <<Pair>>]
Exe(e, t, f, v) == [elf |-> e, dies |-> t \o f \o v]
MCBinaries ==
  {SmallBinary}
    \cup {Exe(CodeElf \o DataElf("OBJECT"), <<Pair>>, <<Sub(5, 9, 4, {1})>>, v) : v \in Variables}
    \cup {Exe(<<Elf(5, 9, 4, "FUNC")>>, t, f, <<>>) : t \in TypeDies, f \in Functions}
    \cup {Exe(<<Elf(7, 17, 4, "FUNC")>>, <<Union, Pair>>, f, v) : f \in Functions, v \in Variables}

Pcs == {<<>>, <<0, 201, 0, 75>>, <<201, 75, 83>>, <<201, 83>>, <<201, 202, 12>>}
Rows ==
  {Entry(104, 8, l, p) : l \in BOOLEAN, p \in Pcs}
    \cup {Entry(a, s, l, <<201, 75>>) : a \in {104, 106, 109}, s \in {0, 2, 4}, l \in BOOLEAN}
    \cup {Entry(108, s, TRUE, <<>>) : s \in {4, 16}}
Line(m, c, r) == [malloc |-> m, calloc |-> c, realloc |-> r]
Sources == {[a \in {} |-> 0], [a \in {10, 18} |-> Line({}, IF a = 10 THEN {3, 1} ELSE {}, {2})]}

FewFiles == {<<Entry(104, 8, TRUE, p)>> : p \in Pcs} \cup {<<Entry(109, 4, TRUE, <<>>), Entry(104, 16, TRUE, <<201, 75>>)>>}
ManyFiles == {<<r, s>> : r, s \in Rows} \cup {<<r>> : r \in Rows} \cup {<<>>}

MCInputs ==
  [file: MCBinaries, csv: FewFiles, source: Sources]
    \cup [file: {SmallBinary}, csv: ManyFiles, source: {[a \in {} |-> 0]}]
==============================================================================
