---------------------------- MODULE ResolverProofs ----------------------------
(***************************************************************************)
(* Proofs about the tables and the searches of the resolver, for every     *)
(* binary, every CSV file and every value of the other constants.          *)
(***************************************************************************)
EXTENDS Resolver, IndexLemmas, FiniteSetTheorems

(***************************************************************************)
(* The vector of symbols and its index.                                    *)
(***************************************************************************)
\* The vector is typed from the first entry on; once loaded it is sorted and indexed.
SymbolInv ==
  /\ file \in Binary
  /\ entries \in Nat
  /\ symbols \in Seq(Symbol)
  /\ Loaded => /\ \A i, j \in DOMAIN symbols : i < j => ~Before(symbols[j], symbols[i])
               /\ addrIndex = IndexOf(symbols)

\* std::sort keeps the type of a vector.
LEMMA OrdersType ==
  ASSUME NEW E, NEW s \in Seq(E), NEW t \in Orders(s)
  PROVE  /\ t \in Seq(E)
         /\ \A i, j \in DOMAIN t : i < j => ~Before(t[j], t[i])
<1>1. SortedFrom(s, t)
  BY DEF Orders
<1>2. PICK p \in Bijection(DOMAIN s, DOMAIN s) : t = [i \in DOMAIN s |-> s[p[i]]]
  BY <1>1 DEF SortedFrom
<1>3. p \in [DOMAIN s -> DOMAIN s]
  BY DEF Bijection, Injection
<1>4. DOMAIN s = 1 .. Len(s) /\ Len(s) \in Nat /\ \A i \in 1 .. Len(s) : s[i] \in E
  OBVIOUS
<1>5. t \in [1 .. Len(s) -> E]
  BY <1>2, <1>3, <1>4
<1>6. t \in Seq(E)
  BY <1>4, <1>5, SMT
<1> QED
  BY <1>1, <1>6 DEF SortedFrom

\* Indexing one more symbol keeps the vector typed.
LEMMA AddSymbolType ==
  ASSUME symbols \in Seq(Symbol), NEW s \in Symbol, AddSymbol(s)
  PROVE  symbols' \in Seq(Symbol)
  BY DEF AddSymbol

\* The tables are empty when loading starts.
LEMMA SymbolInit == ResolverInit => SymbolInv
  BY BinariesAssumption DEF ResolverInit, LoadInit, SymbolInv, Loaded

\* Every step keeps the vector typed and leaves a loaded one alone; the last sort of
\* load_binary makes it sorted and indexed.
LEMMA SymbolStep ==
  ASSUME SymbolInv, [Next]_vars
  PROVE  SymbolInv'
<1> USE DEF SymbolInv
<1>1. CASE ReadElfSymbol
  <2> DEFINE s == file.elf[entries + 1]
  <2>1. s \in ElfSymbol
    BY <1>1 DEF ReadElfSymbol, Binary
  <2>2. symbols' \in Seq(Symbol)
    <3>1. CASE s.address = 0 \/ s.name = NoName
      BY <1>1, <3>1 DEF ReadElfSymbol, symbolTable
    <3>2. CASE ~(s.address = 0 \/ s.name = NoName)
      <4> DEFINE e == [name |-> s.name, address |-> s.address, size |-> s.size,
                       kind |-> s.kind, type |-> NoName]
      <4>1. e \in Symbol
        BY <2>1 DEF ElfSymbol, Symbol, NoName
      <4>2. AddSymbol(e)
        BY <1>1, <3>2 DEF ReadElfSymbol
      <4> QED
        BY <4>1, <4>2, AddSymbolType
    <3> QED
      BY <3>1, <3>2
  <2> QED
    BY <1>1, <2>2 DEF ReadElfSymbol, Loaded
<1>2. CASE SortElf
  <2>1. symbols' \in Seq(Symbol)
    BY <1>2, OrdersType DEF SortElf
  <2> QED
    BY <1>2, <2>1 DEF SortElf, Loaded
<1>3. CASE ReadVariable
  <2> DEFINE d == file.dies[entries + 1]
  <2>1. d \in VariableDie \cup TypeDie \cup FunctionDie /\ d.tag = "variable"
    BY <1>3 DEF ReadVariable, Visit, Binary
  <2>2. d \in VariableDie
    BY <2>1 DEF TypeDie, FunctionDie
  <2>3. symbols' \in Seq(Symbol)
    <3>1. CASE d.address = 0 \/ d.name = NoName
      BY <1>3, <3>1 DEF ReadVariable, symbolTable
    <3>2. CASE ~(d.address = 0 \/ d.name = NoName)
      <4> DEFINE e == [name |-> d.name, address |-> d.address, size |-> d.size,
                       kind |-> "OBJECT", type |-> d.type]
      <4>1. e \in Symbol
        BY <2>2 DEF VariableDie, Symbol
      <4>2. AddSymbol(e)
        BY <1>3, <3>2 DEF ReadVariable
      <4> QED
        BY <4>1, <4>2, AddSymbolType
    <3> QED
      BY <3>1, <3>2
  <2> QED
    BY <1>3, <2>3 DEF ReadVariable, Visit, Loaded
<1>4. CASE ReadType
  BY <1>4 DEF ReadType, Visit, symbolTable, Loaded
<1>5. CASE ReadFunction
  BY <1>5 DEF ReadFunction, Visit, symbolTable, Loaded
<1>6. CASE FinishLoad
  <2>1. /\ symbols' \in Seq(Symbol)
        /\ \A i, j \in DOMAIN symbols' : i < j => ~Before(symbols'[j], symbols'[i])
    BY <1>6, OrdersType DEF FinishLoad
  <2>2. addrIndex' = IndexOf(symbols)' /\ file' = file /\ entries' = entries
    BY <1>6 DEF FinishLoad, IndexOf
  <2> QED
    BY <2>1, <2>2
<1>7. CASE LoadCsv \/ BatchRow \/ UNCHANGED vars
  <2>1. /\ file' = file /\ entries' = entries /\ symbols' = symbols /\ addrIndex' = addrIndex
        /\ Loaded' => Loaded
    BY <1>7 DEF LoadCsv, BatchRow, vars, loadVars, symbolTable, Loaded
  <2>2. IndexOf(symbols') = IndexOf(symbols)
    BY <2>1
  <2> QED
    BY <2>1, <2>2 DEF IndexOf
<1> QED
  BY <1>1, <1>2, <1>3, <1>4, <1>5, <1>6, <1>7 DEF Next, LoadBinary, LoadStep

\* In a sorted vector the last symbol of an address has a type when any has.
LEMMA SortedIndex ==
  ASSUME SymbolInv, Loaded
  PROVE  /\ DOMAIN addrIndex = {symbols[i].address : i \in DOMAIN symbols}
         /\ \A a \in DOMAIN addrIndex :
              /\ addrIndex[a] \in DOMAIN symbols
              /\ symbols[addrIndex[a]].address = a
              /\ \A i \in DOMAIN symbols :
                   symbols[i].address = a /\ symbols[i].type # NoName =>
                     symbols[addrIndex[a]].type # NoName
<1>1. addrIndex = IndexOf(symbols) /\ DOMAIN symbols = 1 .. Len(symbols) /\ Len(symbols) \in Nat
  BY DEF SymbolInv
<1>2. DOMAIN addrIndex = {symbols[i].address : i \in DOMAIN symbols}
  BY <1>1 DEF IndexOf
<1>3. ASSUME NEW a \in DOMAIN addrIndex
      PROVE  /\ addrIndex[a] \in DOMAIN symbols
             /\ symbols[addrIndex[a]].address = a
             /\ \A i \in DOMAIN symbols :
                  symbols[i].address = a /\ symbols[i].type # NoName =>
                    symbols[addrIndex[a]].type # NoName
  <2> DEFINE S == {i \in DOMAIN symbols : symbols[i].address = a}
             k == Max(S)
  <2>1. S \subseteq 1 .. Len(symbols) /\ S # {}
    BY <1>1, <1>2
  <2>2. k \in S /\ \A x \in S : x <= k
    BY <1>1, <2>1, MaxOfIndices
  <2>3. addrIndex[a] = k
    BY <1>1, <1>2 DEF IndexOf
  <2> HIDE DEF k
  <2>4. ASSUME NEW i \in DOMAIN symbols, symbols[i].address = a, symbols[i].type # NoName
        PROVE  symbols[k].type # NoName
    <3>1. i = k \/ i < k
      BY <1>1, <2>2, <2>4
    <3>2. i < k => ~Before(symbols[k], symbols[i])
      BY <2>2 DEF SymbolInv
    <3> QED
      BY <2>2, <2>4, <3>1, <3>2 DEF Before
  <2> QED
    BY <2>2, <2>3, <2>4
<1> QED
  BY <1>2, <1>3

\* find_symbol_by_addr in a loaded table.
LEMMA NearestSymbol ==
  ASSUME SymbolInv, Loaded, NEW a \in Int
  PROVE  SymbolExactAt(a)
<1> DEFINE k == FindSymbol(a)
           n == Len(symbols)
<1>1. /\ n \in Nat /\ DOMAIN symbols = 1 .. n
      /\ \A i \in 1 .. n : symbols[i].address \in Nat /\ symbols[i].size \in Nat
  <2>1. n \in Nat /\ DOMAIN symbols = 1 .. n /\ \A i \in 1 .. n : symbols[i] \in Symbol
    BY DEF SymbolInv
  <2> HIDE DEF n
  <2> QED
    BY <2>1 DEF Symbol
<1>2. \A i, j \in 1 .. n : i < j => symbols[i].address <= symbols[j].address
  BY <1>1 DEF SymbolInv, Before
<1>3. CASE a \in DOMAIN addrIndex
  <2>1. k = addrIndex[a]
    BY <1>3 DEF FindSymbol
  <2>2. /\ k \in 1 .. n /\ symbols[k].address = a
        /\ \A i \in 1 .. n : symbols[i].address = a /\ symbols[i].type # NoName =>
             symbols[k].type # NoName
    BY <1>1, <1>3, <2>1, SortedIndex
  <2> HIDE DEF k
  <2>3. ~StartsAfter(symbols[k], a)
    BY <1>1, <2>2 DEF StartsAfter
  <2>4. ASSUME NEW i \in 1 .. n, symbols[i].type # NoName, symbols[i].address <= a
        PROVE  \/ StartsAfter(symbols[i], a)
               \/ symbols[k].address = symbols[i].address /\ symbols[k].type # NoName
    BY <1>1, <2>2, <2>4 DEF StartsAfter
  <2> USE DEF k
  <2> QED
    BY <1>1, <2>2, <2>3, <2>4 DEF SymbolExactAt
<1>4. CASE a \notin DOMAIN addrIndex
  <2> DEFINE upTo == {i \in DOMAIN symbols : symbols[i].address <= a}
             m == Max(upTo)
  <2>1. CASE upTo = {}
    <3>1. k = 0
      BY <1>4, <2>1 DEF FindSymbol
    <3> QED
      BY <2>1, <3>1 DEF SymbolExactAt
  <2>2. CASE upTo # {}
    <3>1. upTo \subseteq 1 .. n
      BY <1>1
    <3>2. m \in upTo /\ \A x \in upTo : x <= m
      BY <1>1, <2>2, <3>1, MaxOfIndices
    <3>3. k = IF a < End(symbols[m]) THEN m ELSE 0
      BY <1>4, <2>2 DEF FindSymbol
    <3> HIDE DEF m, k
    <3>4. m \in 1 .. n /\ symbols[m].address <= a
      BY <1>1, <3>2
    <3>5. \A i \in 1 .. n : symbols[i].address <= a => symbols[i].address <= symbols[m].address
      BY <1>1, <1>2, <3>2, <3>4
    <3>6. ~StartsAfter(symbols[m], a)
      BY <1>1, <3>4, <3>5 DEF StartsAfter
    <3>7. \A i \in 1 .. n : symbols[i].address <= a /\ ~StartsAfter(symbols[i], a) =>
            symbols[i].address = symbols[m].address
      BY <1>1, <3>4, <3>5 DEF StartsAfter
    <3>8. symbols[m].address # a
      BY <1>1, <1>4, <3>4, SortedIndex
    <3>9. ASSUME NEW i \in 1 .. n, symbols[i].type # NoName,
                 symbols[i].address <= a, a < End(symbols[i]), ~StartsAfter(symbols[i], a)
          PROVE  \/ k # 0 /\ symbols[k].address = symbols[i].address /\ symbols[k].type # NoName
                 \/ \E j \in 1 .. n : /\ symbols[j].type # NoName
                                      /\ symbols[j].address = symbols[i].address
                                      /\ a >= End(symbols[j])
      <4>1. symbols[i].address = symbols[m].address /\ i <= m
        <5>1. i \in upTo
          BY <1>1, <3>9
        <5> QED
          BY <3>2, <3>7, <3>9, <5>1
      <4>2. symbols[m].type # NoName
        <5>1. i < m => ~Before(symbols[m], symbols[i])
          BY <1>1, <3>4 DEF SymbolInv
        <5> QED
          BY <1>1, <3>4, <3>9, <4>1, <5>1 DEF Before
      <4>3. CASE a < End(symbols[m])
        BY <1>1, <3>3, <3>4, <4>1, <4>2, <4>3
      <4>4. CASE ~(a < End(symbols[m]))
        BY <1>1, <3>4, <4>1, <4>2, <4>4 DEF End
      <4> QED
        BY <4>3, <4>4
    <3>10. k # 0 => k = m /\ a < End(symbols[m])
      BY <3>3
    <3> USE DEF k
    <3> QED
      BY <1>1, <3>4, <3>6, <3>9, <3>10 DEF SymbolExactAt
  <2> QED
    BY <2>1, <2>2
<1> QED
  BY <1>3, <1>4

\* The invariant of the vector of symbols.
LEMMA SymbolInvariant == Spec => []SymbolInv
  BY SymbolInit, SymbolStep, PTL DEF Spec

(***************************************************************************)
(* The loaded index covers every address and leads to a typed symbol       *)
(* where there is one (dwarf_analyzer.cpp:84-93).                          *)
(***************************************************************************)
THEOREM IndexIsExact == Spec => []AddrIndexExact
<1>1. SymbolInv => AddrIndexExact
  <2> SUFFICES ASSUME SymbolInv, Loaded PROVE AddrIndexExact
    BY DEF AddrIndexExact
  <2> QED
    BY SortedIndex DEF AddrIndexExact
<1> QED
  BY <1>1, SymbolInvariant, PTL

(***************************************************************************)
(* find_symbol_by_addr answers with the nearest symbol, for every address  *)
(* (dwarf_analyzer.cpp:683-702).                                           *)
(***************************************************************************)
THEOREM NearestSymbolFound == Spec => []SymbolExact
<1>1. SymbolInv => SymbolExact
  <2> SUFFICES ASSUME SymbolInv, Loaded, NEW i \in DOMAIN symbols,
                      NEW a \in 0 .. End(symbols[i]) + 1
               PROVE  SymbolExactAt(a)
    BY DEF SymbolExact, SymbolPlaces
  <2>1. symbols[i] \in Symbol
    BY DEF SymbolInv
  <2>2. a \in Int
    BY <2>1 DEF Symbol, End
  <2> QED
    BY <2>2, NearestSymbol
<1> QED
  BY <1>1, SymbolInvariant, PTL
------------------------------------------------------------------------------
(***************************************************************************)
(* The loops over vectors.                                                 *)
(***************************************************************************)
\* What is kept of a vector has its type.
LEMMA KeptType ==
  ASSUME NEW E, NEW s \in Seq(E), NEW keep
  PROVE  Kept(s, keep) \in Seq(E)
<1> DEFINE n == Len(s)
           none == <<>>
           S == Seq(E)
           Turn(i, v) == IF i \in keep THEN Append(v, s[i]) ELSE v
           F == [i \in 1 .. n |-> [v \in S |-> Turn(i, v)]]
           Is(g) == g = [i \in 0 .. n |-> IF i = 0 THEN none ELSE Turn(i, g[i - 1])]
           h == CHOOSE g : Is(g)
           P == {i \in 0 .. n : h[i] \in S}
<1>1. n \in Nat /\ \A i \in 1 .. n : s[i] \in E
  OBVIOUS
<1>2. \A i \in 1 .. n : \A v \in S : Turn(i, v) \in S
  <2> HIDE DEF n
  <2> QED
    BY <1>1
<1>3. F \in [1 .. n -> [S -> S]] /\ \A i \in 1 .. n : \A v \in S : F[i][v] = Turn(i, v)
  <2> HIDE DEF n, Turn, S
  <2> QED
    BY <1>2
<1>4. PICK g \in [0 .. n -> S] : g[0] = none /\ \A i \in 1 .. n : g[i] = F[i][g[i - 1]]
  <2>1. none \in S
    OBVIOUS
  <2> HIDE DEF n, F, none, S
  <2>2. Traces(n, S, none, F) # {}
    BY <1>1, <1>3, <2>1, LoopRuns
  <2> QED
    BY <2>2 DEF Traces
<1>5. Is(g)
  <2> HIDE DEF n, F, Turn, none, S
  <2>1. \A i \in 1 .. n : g[i] = Turn(i, g[i - 1])
    <3> SUFFICES ASSUME NEW i \in 1 .. n PROVE g[i] = Turn(i, g[i - 1])
      OBVIOUS
    <3>1. g[i - 1] \in S
      BY <1>1, <1>4
    <3> QED
      BY <1>3, <1>4, <3>1
  <2>2. \A i \in 0 .. n : g[i] = IF i = 0 THEN none ELSE Turn(i, g[i - 1])
    BY <1>1, <1>4, <2>1
  <2> QED
    BY <1>4, <2>2
<1>6. Is(h)
  <2> HIDE DEF Is
  <2> QED
    BY <1>5
<1>7. h[0] = none /\ \A i \in 1 .. n : h[i] = Turn(i, h[i - 1])
  <2> HIDE DEF n, Turn, h, none
  <2> QED
    BY <1>1, <1>6
<1>8. 0 .. n \subseteq P
  <2>1. 0 \in P
    <3>1. none \in S
      OBVIOUS
    <3> HIDE DEF h, n, none, S
    <3> QED
      BY <1>1, <1>7, <3>1
  <2>2. \A i \in 1 .. n : i - 1 \in P => i \in P
    <3> HIDE DEF h, n, Turn, none, S
    <3> QED
      BY <1>1, <1>2, <1>7
  <2> HIDE DEF P, n, h, S
  <2> QED
    BY <1>1, <2>1, <2>2, UpTo
<1>9. Kept(s, keep) = h[n]
  BY Zenon DEF Kept
<1> QED
  <2>1. n \in P
    <3> HIDE DEF P, n
    <3> QED
      BY <1>1, <1>8
  <2> HIDE DEF h, n
  <2> QED
    BY <2>1, <1>9

\* What the first i fields make of an offset.
BestOf(fields, off, i, s) ==
  LET Covers(j) == fields[j].offset <= off /\ off < fields[j].offset + fields[j].size
      Fits(j) == Covers(j) \/ fields[j].offset = off
  IN /\ s.best \in 0 .. i /\ s.dist \in Nat
     /\ s.best = 0 => s.dist = off + 1 /\ \A j \in 1 .. i : ~Fits(j)
     /\ s.best # 0 => /\ Fits(s.best) /\ s.dist = off - fields[s.best].offset
                      /\ \A j \in 1 .. i : Covers(j) => fields[j].offset <= fields[s.best].offset
                      /\ \A j \in 1 .. i :
                           fields[j].offset = off /\ fields[s.best].offset = off =>
                             fields[j].size <= fields[s.best].size

\* One turn of the loop takes the next field into account.
LEMMA ConsiderField ==
  ASSUME NEW n \in Nat, NEW fields, NEW off \in Nat, NEW i \in 1 .. n, NEW s,
         \A j \in 1 .. n : fields[j].offset \in Nat /\ fields[j].size \in Nat,
         BestOf(fields, off, i - 1, s)
  PROVE  BestOf(fields, off, i, Consider(fields, off, i, s))
<1> DEFINE f == fields[i]
           exact == off = f.offset /\ (s.best = 0 \/ f.size > fields[s.best].size)
           t == IF exact THEN [best |-> i, dist |-> 0] ELSE s
           u == Consider(fields, off, i, s)
<1>1. /\ f.offset \in Nat /\ f.size \in Nat /\ s.best \in 0 .. i - 1 /\ s.dist \in Nat
      /\ \A j \in 1 .. i : j = i \/ j \in 1 .. i - 1
  BY DEF BestOf
<1>2. u = IF f.offset <= off /\ off < f.offset + f.size /\ off - f.offset < t.dist
          THEN [best |-> i, dist |-> off - f.offset] ELSE t
  BY Zenon DEF Consider
<1>3. \/ /\ u.best = i /\ u.dist = off - f.offset
         /\ f.offset <= off /\ off < f.offset + f.size /\ off - f.offset < s.dist
      \/ /\ u.best = i /\ u.dist = 0 /\ exact
      \/ /\ u = s /\ ~exact
         /\ ~(f.offset <= off /\ off < f.offset + f.size /\ off - f.offset < s.dist)
  <2>1. t.dist = IF exact THEN 0 ELSE s.dist
    OBVIOUS
  <2> HIDE DEF u, f, exact
  <2> QED
    BY <1>1, <1>2, <2>1
<1> SUFFICES BestOf(fields, off, i, u)
  OBVIOUS
<1> HIDE DEF u, t
<1> DEFINE O(j) == fields[j].offset
           Z(j) == fields[j].size
           Covers(j) == O(j) <= off /\ off < O(j) + Z(j)
           Fits(j) == Covers(j) \/ O(j) = off
           Best(k, m) == /\ Fits(k)
                         /\ \A j \in 1 .. m : Covers(j) => O(j) <= O(k)
                         /\ \A j \in 1 .. m : O(j) = off /\ O(k) = off => Z(j) <= Z(k)
<1>4. /\ s.best = 0 => s.dist = off + 1 /\ \A j \in 1 .. i - 1 : ~Fits(j)
      /\ s.best # 0 => s.dist = off - O(s.best) /\ Best(s.best, i - 1)
  BY DEF BestOf
<1>5. \A j \in 1 .. n : O(j) \in Nat /\ Z(j) \in Nat
  OBVIOUS
<1>6. f.offset = O(i) /\ f.size = Z(i) /\ fields[s.best].size = Z(s.best)
  OBVIOUS
<1>7. ASSUME u.best = i, u.dist = off - O(i), u.dist \in Nat, Best(i, i) PROVE BestOf(fields, off, i, u)
  BY <1>7 DEF BestOf
<1>8. ASSUME u = s, s.best = 0, \A j \in 1 .. i : ~Fits(j) PROVE BestOf(fields, off, i, u)
  <2>1. s.best \in 0 .. i /\ s.dist = off + 1
    BY <1>1, <1>4, <1>8
  <2> QED
    BY <1>8, <2>1 DEF BestOf
<1>9. ASSUME u = s, s.best # 0, Best(s.best, i) PROVE BestOf(fields, off, i, u)
  <2>1. s.best \in 0 .. i /\ s.dist = off - O(s.best) /\ s.dist \in Nat
    BY <1>1, <1>4, <1>9
  <2> QED
    BY <1>9, <2>1 DEF BestOf
<1>10. s.best # 0 => s.best \in 1 .. n
  BY <1>1
<1> HIDE DEF O, Z, f
<1>11. CASE /\ u.best = i /\ u.dist = off - f.offset
           /\ f.offset <= off /\ off < f.offset + f.size /\ off - f.offset < s.dist
  <2>1. Fits(i) /\ u.dist = off - O(i) /\ u.dist \in Nat
    BY <1>5, <1>6, <1>11
  <2>2. ASSUME NEW j \in 1 .. i, Covers(j) PROVE O(j) <= O(i)
    BY <1>1, <1>4, <1>5, <1>6, <1>10, <1>11, <2>2
  <2>3. ASSUME NEW j \in 1 .. i, O(j) = off, O(i) = off PROVE Z(j) <= Z(i)
    BY <1>1, <1>4, <1>5, <1>6, <1>10, <1>11, <2>3
  <2>4. Best(i, i)
    BY <2>1, <2>2, <2>3
  <2> HIDE DEF Best
  <2> QED
    BY <1>7, <1>11, <2>1, <2>4
<1>12. CASE u.best = i /\ u.dist = 0 /\ exact
  <2>1. Fits(i) /\ u.dist = off - O(i) /\ u.dist \in Nat
    BY <1>5, <1>6, <1>12
  <2>2. ASSUME NEW j \in 1 .. i, Covers(j) PROVE O(j) <= O(i)
    BY <1>1, <1>5, <1>6, <1>12, <2>2
  <2>3. ASSUME NEW j \in 1 .. i, O(j) = off, O(i) = off PROVE Z(j) <= Z(i)
    BY <1>1, <1>4, <1>5, <1>6, <1>10, <1>12, <2>3
  <2>4. Best(i, i)
    BY <2>1, <2>2, <2>3
  <2> HIDE DEF Best
  <2> QED
    BY <1>7, <1>12, <2>1, <2>4
<1>13. CASE /\ u = s /\ ~exact
            /\ ~(f.offset <= off /\ off < f.offset + f.size /\ off - f.offset < s.dist)
  <2>1. CASE s.best = 0
    <3>1. ~Fits(i)
      BY <1>1, <1>4, <1>5, <1>6, <1>13, <2>1
    <3>2. \A j \in 1 .. i : ~Fits(j)
      BY <1>1, <1>4, <2>1, <3>1
    <3> HIDE DEF Fits
    <3> QED
      BY <1>13, <1>8, <2>1, <3>2
  <2>2. CASE s.best # 0
    <3>1. ASSUME NEW j \in 1 .. i, Covers(j) PROVE O(j) <= O(s.best)
      BY <1>1, <1>4, <1>5, <1>6, <1>10, <1>13, <2>2, <3>1
    <3>2. ASSUME NEW j \in 1 .. i, O(j) = off, O(s.best) = off PROVE Z(j) <= Z(s.best)
      BY <1>1, <1>4, <1>5, <1>6, <1>10, <1>13, <2>2, <3>2
    <3>3. Best(s.best, i)
      BY <1>4, <2>2, <3>1, <3>2
    <3> HIDE DEF Best
    <3> QED
      BY <1>13, <1>9, <2>2, <3>3
  <2> QED
    BY <2>1, <2>2
<1> QED
  BY <1>3, <1>11, <1>12, <1>13

\* The loop of resolve_field_at_offset finds the best field.
LEMMA BestField ==
  ASSUME NEW fields \in Seq(Field), NEW off \in Nat
  PROVE  FieldAt(fields, off) \in 0 .. Len(fields) /\ FieldExactAt(fields, off)
<1> DEFINE n == Len(fields)
           none == [best |-> 0, dist |-> off + 1]
           S == [best: 0 .. n, dist: Nat]
           Turn(i, s) == Consider(fields, off, i, s)
           F == [i \in 1 .. n |-> [s \in S |-> Turn(i, s)]]
           Is(g) == g = [i \in 0 .. n |-> IF i = 0 THEN none ELSE Turn(i, g[i - 1])]
           h == CHOOSE g : Is(g)
           P == {i \in 0 .. n : BestOf(fields, off, i, h[i])}
<1>1. /\ n \in Nat /\ DOMAIN fields = 1 .. n
      /\ \A i \in 1 .. n : fields[i].offset \in Nat /\ fields[i].size \in Nat
  <2>1. n \in Nat /\ DOMAIN fields = 1 .. n /\ \A i \in 1 .. n : fields[i] \in Field
    OBVIOUS
  <2> HIDE DEF n
  <2> QED
    BY <2>1 DEF Field
<1>2. ASSUME NEW i \in 1 .. n, NEW s \in S PROVE Turn(i, s) \in S
  <2> DEFINE d == off - fields[i].offset
  <2>1. /\ fields[i].offset <= off => [best |-> i, dist |-> d] \in S
        /\ [best |-> i, dist |-> 0] \in S
    BY <1>1
  <2> HIDE DEF S, n
  <2> QED
    BY <1>2, <2>1 DEF Consider
<1>3. F \in [1 .. n -> [S -> S]] /\ \A i \in 1 .. n : \A s \in S : F[i][s] = Turn(i, s)
  <2> HIDE DEF n, Turn, S
  <2> QED
    BY <1>2
<1>4. none \in S
  BY <1>1
<1>5. PICK g \in [0 .. n -> S] : g[0] = none /\ \A i \in 1 .. n : g[i] = F[i][g[i - 1]]
  <2> HIDE DEF n, F, none, S
  <2>1. Traces(n, S, none, F) # {}
    BY <1>1, <1>3, <1>4, LoopRuns
  <2> QED
    BY <2>1 DEF Traces
<1>6. Is(g)
  <2> HIDE DEF n, F, Turn, none, S
  <2>1. \A i \in 1 .. n : g[i] = Turn(i, g[i - 1])
    <3> SUFFICES ASSUME NEW i \in 1 .. n PROVE g[i] = Turn(i, g[i - 1])
      OBVIOUS
    <3>1. g[i - 1] \in S
      BY <1>1, <1>5
    <3> QED
      BY <1>3, <1>5, <3>1
  <2>2. \A i \in 0 .. n : g[i] = IF i = 0 THEN none ELSE Turn(i, g[i - 1])
    BY <1>1, <1>5, <2>1
  <2> QED
    BY <1>5, <2>2
<1>7. Is(h)
  <2> HIDE DEF Is
  <2> QED
    BY <1>6
<1>8. h[0] = none /\ \A i \in 1 .. n : h[i] = Turn(i, h[i - 1])
  <2> HIDE DEF n, Turn, h, none
  <2>1. \A i \in 0 .. n : h[i] = IF i = 0 THEN none ELSE Turn(i, h[i - 1])
    BY <1>7
  <2>2. 0 \in 0 .. n /\ \A i \in 1 .. n : i \in 0 .. n /\ i # 0
    BY <1>1
  <2> QED
    BY <2>1, <2>2
<1>9. 0 .. n \subseteq P
  <2>1. 0 \in P
    <3>1. BestOf(fields, off, 0, none)
      BY DEF BestOf
    <3> HIDE DEF h, n, none
    <3> QED
      BY <1>1, <1>8, <3>1
  <2>2. ASSUME NEW i \in 1 .. n, i - 1 \in P PROVE i \in P
    <3> HIDE DEF h, n
    <3>1. BestOf(fields, off, i, Turn(i, h[i - 1]))
      BY <1>1, <2>2, ConsiderField
    <3> HIDE DEF Turn
    <3> QED
      BY <1>8, <2>2, <3>1
  <2> HIDE DEF P, n
  <2> QED
    BY <1>1, <2>1, <2>2, UpTo
<1>10. BestOf(fields, off, n, h[n])
  <2>1. n \in P
    <3> HIDE DEF P, n
    <3> QED
      BY <1>1, <1>9
  <2> HIDE DEF h, n
  <2> QED
    BY <2>1
<1>11. FieldAt(fields, off) = h[n].best
  BY Zenon DEF FieldAt, FieldScan
<1>12. PICK s : s = h[n]
  OBVIOUS
<1>13. BestOf(fields, off, n, s) /\ FieldAt(fields, off) = s.best
  BY <1>10, <1>11, <1>12
<1> HIDE DEF h, n
<1> DEFINE O(j) == fields[j].offset
           Z(j) == fields[j].size
           Covers(j) == O(j) <= off /\ off < O(j) + Z(j)
           Fits(j) == Covers(j) \/ O(j) = off
           k == FieldAt(fields, off)
<1>14. /\ k \in 0 .. n
       /\ k = 0 => \A j \in 1 .. n : ~Fits(j)
       /\ k # 0 => /\ Fits(k)
                   /\ \A j \in 1 .. n : Covers(j) => O(j) <= O(k)
                   /\ \A j \in 1 .. n : O(j) = off /\ O(k) = off => Z(j) <= Z(k)
  <2>1. k = s.best
    BY <1>13
  <2> HIDE DEF k
  <2> QED
    BY <1>13, <2>1 DEF BestOf
<1>15. FieldExactAt(fields, off)
  BY <1>1, <1>14, Zenon DEF FieldExactAt
<1> QED
  BY <1>14, <1>15 DEF n
------------------------------------------------------------------------------
(***************************************************************************)
(* The tables of types and functions.                                      *)
(***************************************************************************)
\* The index of types leads to a type of the name, and has the name of every type.
TypesInv ==
  /\ types \in Seq(Type)
  /\ DOMAIN typeIndex \subseteq Nat
  /\ \A n \in DOMAIN typeIndex : typeIndex[n] \in DOMAIN types /\ types[typeIndex[n]].name = n
  /\ \A t \in DOMAIN types : types[t].name \in DOMAIN typeIndex

FunctionsInv ==
  /\ functions \in Seq(Function)
  /\ DOMAIN funcIndex \subseteq Nat
  /\ \A n \in DOMAIN funcIndex : funcIndex[n] \in DOMAIN functions

\* A member that is kept is a field.
LEMMA FieldType ==
  ASSUME NEW m \in Member
  PROVE  FieldOf(m) \in Field
<1>1. m.bit # -1 => m.bit \div 8 \in Nat
  BY DEF Member
<1> QED
  BY <1>1 DEF Member, Field, FieldOf

\* The tables are empty when loading starts.
LEMMA TypesInit == ResolverInit => TypesInv /\ FunctionsInv
  BY BinariesAssumption DEF ResolverInit, LoadInit, TypesInv, FunctionsInv, NoEntries

\* Only process_type_die changes the table of types.
LEMMA TypesStep ==
  ASSUME SymbolInv, TypesInv, [Next]_vars
  PROVE  TypesInv'
<1> DEFINE d == file.dies[entries + 1]
           n == Len(types)
<1>1. CASE ReadType /\ d.name # NoName
  <2> DEFINE named == Kept(d.members, {i \in DOMAIN d.members : d.members[i].name # NoName})
             fs == [i \in DOMAIN named |-> FieldOf(named[i])]
             e == [name |-> d.name, size |-> d.size, fields |-> fs]
  <2>1. types' = Append(types, e) /\ typeIndex' = Put(typeIndex, d.name, n + 1)
    BY <1>1, Zenon DEF ReadType, Visit
  <2>2. d \in VariableDie \cup TypeDie \cup FunctionDie /\ d.tag = "type"
    BY <1>1 DEF ReadType, Visit, SymbolInv, Binary
  <2>3. d \in TypeDie
    BY <2>2 DEF VariableDie, FunctionDie
  <2>4. d.name \in Nat /\ d.size \in Nat /\ d.members \in Seq(Member)
    BY <2>3 DEF TypeDie
  <2>5. named \in Seq(Member)
    BY <2>4, KeptType
  <2>6. fs \in Seq(Field)
    <3> HIDE DEF named
    <3>1. Len(named) \in Nat /\ DOMAIN named = 1 .. Len(named) /\ \A i \in 1 .. Len(named) : named[i] \in Member
      BY <2>5
    <3>2. fs \in [1 .. Len(named) -> Field]
      BY <3>1, FieldType
    <3> HIDE DEF fs
    <3> QED
      BY <3>1, <3>2
  <2>7. e \in Type /\ e.name = d.name
    <3> HIDE DEF fs
    <3> QED
      BY <2>4, <2>6 DEF Type
  <2> HIDE DEF e, n
  <2>8. n \in Nat /\ DOMAIN types = 1 .. n /\ n = Len(types)
    BY DEF TypesInv, n
  <2>9. /\ types' \in Seq(Type) /\ DOMAIN types' = 1 .. n + 1
        /\ \A t \in 1 .. n : types'[t] = types[t]
        /\ types'[n + 1] = e
    BY <2>1, <2>7, <2>8 DEF TypesInv
  <2>10. /\ DOMAIN typeIndex' = DOMAIN typeIndex \cup {d.name}
         /\ typeIndex'[d.name] = n + 1
         /\ \A x \in DOMAIN typeIndex \ {d.name} : typeIndex'[x] = typeIndex[x]
    BY <2>1 DEF Put
  <2> HIDE DEF d
  <2>11. \A x \in DOMAIN typeIndex' : typeIndex'[x] \in DOMAIN types' /\ types'[typeIndex'[x]].name = x
    BY <2>7, <2>8, <2>9, <2>10 DEF TypesInv
  <2>12. \A t \in DOMAIN types' : types'[t].name \in DOMAIN typeIndex'
    BY <2>7, <2>8, <2>9, <2>10 DEF TypesInv
  <2> QED
    BY <2>1, <2>4, <2>9, <2>10, <2>11, <2>12 DEF TypesInv
<1>2. CASE ~(ReadType /\ d.name # NoName)
  <2>1. types' = types /\ typeIndex' = typeIndex
    BY <1>2 DEF Next, LoadBinary, LoadStep, ReadElfSymbol, SortElf, ReadVariable, ReadType, ReadFunction,
                FinishLoad, Visit, LoadCsv, BatchRow, vars, loadVars, typeTable
  <2> QED
    BY <2>1 DEF TypesInv
<1> QED
  BY <1>1, <1>2

\* Only process_subprogram_die changes the table of functions.
LEMMA FunctionsStep ==
  ASSUME SymbolInv, FunctionsInv, [Next]_vars
  PROVE  FunctionsInv'
<1> DEFINE d == file.dies[entries + 1]
           n == Len(functions)
<1>1. CASE ReadFunction
  <2> DEFINE to == {l.target : l \in {v \in d.locals : v.name # NoName}} \ {NoName}
             e == [name |-> d.name, low |-> d.low, high |-> d.low + d.length, targets |-> to]
             index == Put(funcIndex, d.name, n + 1)
  <2>1. /\ functions' = Append(functions, e)
        /\ funcIndex' = IF d.linkage = NoName THEN index ELSE Put(index, d.linkage, n + 1)
    BY <1>1, Zenon DEF ReadFunction, Visit
  <2>2. d \in VariableDie \cup TypeDie \cup FunctionDie /\ d.tag = "subprogram"
    BY <1>1 DEF ReadFunction, Visit, SymbolInv, Binary
  <2>3. d \in FunctionDie
    BY <2>2 DEF VariableDie, TypeDie
  <2>4. /\ d.name \in Nat /\ d.linkage \in Nat /\ d.low \in Nat /\ d.length \in Nat
        /\ \A l \in d.locals : l.target \in Nat
    BY <2>3 DEF FunctionDie, Local
  <2>5. to \subseteq Nat
    BY <2>4
  <2>6. e \in Function
    <3> HIDE DEF to
    <3> QED
      BY <2>4, <2>5 DEF Function
  <2> HIDE DEF e, n
  <2>7. n \in Nat /\ DOMAIN functions = 1 .. n /\ n = Len(functions)
    BY DEF FunctionsInv, n
  <2>8. functions' \in Seq(Function) /\ DOMAIN functions' = 1 .. n + 1
    BY <2>1, <2>6, <2>7 DEF FunctionsInv
  <2>9. \A x \in DOMAIN index : x \in Nat /\ index[x] \in 1 .. n + 1
    BY <2>4, <2>7 DEF Put, FunctionsInv
  <2>10. \A x \in DOMAIN funcIndex' : x \in Nat /\ funcIndex'[x] \in 1 .. n + 1
    <3>1. CASE d.linkage = NoName
      BY <2>1, <2>9, <3>1
    <3>2. CASE d.linkage # NoName
      <4> HIDE DEF index, d
      <4> QED
        BY <2>1, <2>4, <2>7, <2>9, <3>2 DEF Put
    <3> QED
      BY <3>1, <3>2
  <2> QED
    BY <2>1, <2>8, <2>10 DEF FunctionsInv
<1>2. CASE ~ReadFunction
  <2>1. functions' = functions /\ funcIndex' = funcIndex
    BY <1>2 DEF Next, LoadBinary, LoadStep, ReadElfSymbol, SortElf, ReadVariable, ReadType,
                FinishLoad, Visit, LoadCsv, BatchRow, vars, loadVars, functionTable
  <2> QED
    BY <2>1 DEF FunctionsInv
<1> QED
  BY <1>1, <1>2

\* The invariants of the two tables.
LEMMA TablesInvariant == Spec => [](TypesInv /\ FunctionsInv)
  BY TypesInit, SymbolInvariant, TypesStep, FunctionsStep, PTL DEF Spec

(***************************************************************************)
(* resolve_field_at_offset names the best field of a type, at every offset *)
(* (dwarf_analyzer.cpp:721-753).                                           *)
(***************************************************************************)
THEOREM BestFieldFound == Spec => []FieldExact
<1>1. TypesInv => FieldExact
  <2> SUFFICES ASSUME TypesInv, NEW t \in DOMAIN types, NEW o \in 0 .. types[t].size
               PROVE  FieldExactAt(types[t].fields, o)
    BY DEF FieldExact
  <2>1. types[t] \in Type
    BY DEF TypesInv
  <2>2. types[t].fields \in Seq(Field) /\ o \in Nat
    BY <2>1 DEF Type
  <2> QED
    BY <2>2, BestField
<1> QED
  BY <1>1, TablesInvariant, PTL
------------------------------------------------------------------------------
(***************************************************************************)
(* The sorted copy of the CSV file and find_alloc.                         *)
(***************************************************************************)
\* The copy has the rows of the file, sorted by address.
AllocInv ==
  /\ csv \in Seq(Row)
  /\ allocs \in Seq(Row)
  /\ \A i, j \in DOMAIN allocs : i < j => allocs[i].addr <= allocs[j].addr
  /\ stage = "batch" =>
       \E p \in Bijection(DOMAIN csv, DOMAIN csv) : allocs = [i \in DOMAIN csv |-> Parsed(csv[p[i]])]

\* A row is read with its place and its size.
LEMMA ParsedType ==
  ASSUME NEW r \in Row
  PROVE  Parsed(r) \in Row /\ Parsed(r).addr = r.addr /\ Parsed(r).size = r.size /\ Parsed(r).live = r.live
<1> DEFINE q == Kept(r.pcs, {i \in DOMAIN r.pcs : r.pcs[i] # 0})
<1>1. q \in Seq(Nat)
  <2>1. r.pcs \in Seq(Nat)
    BY DEF Row
  <2> QED
    BY <2>1, KeptType
<1>2. Parsed(r) = [r EXCEPT !.pcs = q]
  BY Zenon DEF Parsed
<1> HIDE DEF q
<1> QED
  BY <1>1, <1>2 DEF Row

\* No file has been read at first.
LEMMA AllocInit == ResolverInit => AllocInv
<1> SUFFICES ASSUME ResolverInit PROVE AllocInv
  OBVIOUS
<1>1. csv \in Seq(Row) /\ allocs = <<>> /\ stage = "elf"
  BY ResolverAssumption DEF ResolverInit, LoadInit
<1> QED
  BY <1>1 DEF AllocInv

\* Only load_csv changes the copy, and it sorts it.
LEMMA AllocStep ==
  ASSUME AllocInv, [Next]_vars
  PROVE  AllocInv'
<1>1. CASE LoadCsv
  <2> DEFINE rows == [i \in DOMAIN csv |-> Parsed(csv[i])]
             n == Len(csv)
  <2>1. /\ csv' = csv
        /\ \E p \in Bijection(DOMAIN rows, DOMAIN rows) :
             /\ allocs' = [i \in DOMAIN rows |-> rows[p[i]]]
             /\ \A i, j \in DOMAIN rows : i < j => rows[p[i]].addr <= rows[p[j]].addr
    BY <1>1, Zenon DEF LoadCsv
  <2>2. n \in Nat /\ DOMAIN csv = 1 .. n /\ \A i \in 1 .. n : csv[i] \in Row
    BY DEF AllocInv
  <2>3. DOMAIN rows = 1 .. n /\ \A i \in 1 .. n : rows[i] = Parsed(csv[i])
    BY <2>2, Zenon
  <2> HIDE DEF rows
  <2>4. \A i \in 1 .. n : rows[i] \in Row
    BY <2>2, <2>3, ParsedType
  <2>5. PICK p \in Bijection(DOMAIN rows, DOMAIN rows) :
          /\ allocs' = [i \in DOMAIN rows |-> rows[p[i]]]
          /\ \A i, j \in DOMAIN rows : i < j => rows[p[i]].addr <= rows[p[j]].addr
    BY <2>1
  <2>6. p \in [1 .. n -> 1 .. n] /\ p \in Bijection(DOMAIN csv, DOMAIN csv)
    BY <2>2, <2>3 DEF Bijection, Injection
  <2>7. DOMAIN allocs' = 1 .. n /\ \A i \in 1 .. n : allocs'[i] = rows[p[i]]
    BY <2>3, <2>5
  <2>8. \A i, j \in 1 .. n : i < j => allocs'[i].addr <= allocs'[j].addr
    BY <2>3, <2>5, <2>7
  <2>9. allocs' \in [1 .. n -> Row]
    BY <2>3, <2>4, <2>5, <2>6
  <2>10. allocs' \in Seq(Row)
    BY <2>2, <2>9
  <2>11. allocs' = [i \in DOMAIN csv |-> Parsed(csv[p[i]])]
    BY <2>2, <2>3, <2>5, <2>6
  <2> HIDE DEF n
  <2> QED
    BY <2>1, <2>6, <2>7, <2>8, <2>10, <2>11 DEF AllocInv
<1>2. CASE LoadBinary
  <2>1. csv' = csv /\ allocs' = allocs /\ stage' # "batch"
    BY <1>2 DEF LoadBinary, resolverVars, LoadStep, ReadElfSymbol, SortElf, ReadVariable, ReadType,
                ReadFunction, FinishLoad, Visit
  <2> QED
    BY <2>1 DEF AllocInv
<1>3. CASE BatchRow \/ UNCHANGED vars
  <2>1. csv' = csv /\ allocs' = allocs /\ stage' = stage
    BY <1>3 DEF BatchRow, vars, loadVars, resolverVars
  <2> QED
    BY <2>1 DEF AllocInv
<1> QED
  BY <1>1, <1>2, <1>3 DEF Next

(***************************************************************************)
(* find_alloc answers with the last live block that contains the address,  *)
(* and misses one only behind a row that starts inside it without          *)
(* containing the address (address_resolver.cpp:86-109).                   *)
(***************************************************************************)
THEOREM LastBlockFound == Spec => []FindsExact
<1>1. ASSUME AllocInv PROVE FindsExact
  <2> SUFFICES ASSUME NEW b \in DOMAIN csv, NEW a \in csv[b].addr .. csv[b].addr + csv[b].size
               PROVE  LET k == FindAlloc(a)
                          live == {i \in DOMAIN allocs : allocs[i].live /\ Contains(allocs[i], a)}
                      IN IF k # 0
                         THEN k \in live /\ \A i \in live : allocs[i].addr <= allocs[k].addr
                         ELSE \A i \in live : \E j \in DOMAIN allocs :
                                /\ ~Contains(allocs[j], a)
                                /\ allocs[i].addr <= allocs[j].addr /\ allocs[j].addr <= a
    BY DEF FindsExact, RowPlaces
  <2>1. a \in Int
    BY <1>1 DEF AllocInv, Row
  <2>2. PICK n \in Nat :
          /\ DOMAIN allocs = 1 .. n
          /\ \A i \in 1 .. n : allocs[i].addr \in Nat /\ allocs[i].size \in Nat
          /\ \A i, j \in 1 .. n : i < j => allocs[i].addr <= allocs[j].addr
    <3>1. /\ Len(allocs) \in Nat /\ DOMAIN allocs = 1 .. Len(allocs)
          /\ \A i \in 1 .. Len(allocs) : allocs[i] \in Row
      BY <1>1 DEF AllocInv
    <3> QED
      BY <1>1, <3>1 DEF AllocInv, Row
  <2> DEFINE k == FindAlloc(a)
             below == {j \in DOMAIN allocs : allocs[j].addr <= a}
             hits == {i \in below : /\ allocs[i].live /\ Contains(allocs[i], a)
                                    /\ \A j \in below : j > i => ~StopsAt(allocs[j], a)}
  <2>3. k = IF hits = {} THEN 0 ELSE Max(hits)
    BY DEF FindAlloc
  <2>4. hits \subseteq 1 .. n
    BY <2>2
  <2>5. hits # {} => Max(hits) \in hits /\ \A x \in hits : x <= Max(hits)
    BY <2>4, MaxOfIndices
  <2>6. CASE hits # {}
    <3>1. k \in hits /\ \A x \in hits : x <= k
      BY <2>3, <2>5, <2>6
    <3> HIDE DEF k
    <3>2. /\ k \in 1 .. n /\ allocs[k].live /\ Contains(allocs[k], a)
          /\ \A j \in below : j > k => ~StopsAt(allocs[j], a)
      BY <2>2, <3>1
    <3>3. ASSUME NEW i \in 1 .. n, allocs[i].live, Contains(allocs[i], a)
          PROVE  allocs[i].addr <= allocs[k].addr
      <4>1. CASE i <= k
        BY <2>2, <3>2, <4>1
      <4>2. CASE i > k
        <5>1. i \in below
          BY <2>2, <3>3 DEF Contains
        <5>2. \A j \in below : j > i => ~StopsAt(allocs[j], a)
          BY <2>2, <3>2, <4>2
        <5>3. i \in hits
          BY <3>3, <5>1, <5>2
        <5> QED
          BY <3>1, <3>2, <4>2, <5>3
      <4> QED
        BY <3>2, <4>1, <4>2
    <3> USE DEF k
    <3> QED
      BY <2>2, <3>2, <3>3
  <2>7. CASE hits = {}
    <3>1. k = 0
      BY <2>3, <2>7
    <3>2. ASSUME NEW i \in 1 .. n, allocs[i].live, Contains(allocs[i], a)
          PROVE  \E j \in 1 .. n : /\ ~Contains(allocs[j], a)
                                   /\ allocs[i].addr <= allocs[j].addr /\ allocs[j].addr <= a
      <4>1. i \in below
        BY <2>2, <3>2 DEF Contains
      <4>2. PICK j \in below : j > i /\ StopsAt(allocs[j], a)
        BY <2>7, <3>2, <4>1
      <4> QED
        BY <2>1, <2>2, <4>2 DEF Contains, StopsAt
    <3> QED
      BY <2>2, <3>1, <3>2
  <2> QED
    BY <2>6, <2>7
<1> QED
  BY <1>1, AllocInit, AllocStep, PTL DEF Spec

------------------------------------------------------------------------------
(***************************************************************************)
(* The report.                                                             *)
(***************************************************************************)
\* While the tables and the source files stay, so do the answers.
LEMMA SameAnswers ==
  ASSUME UNCHANGED <<loadVars, source>>
  PROVE  /\ \A a : ResolveGlobal(a)' = ResolveGlobal(a)
         /\ \A r : InferType(r)' = InferType(r)
<1>1. /\ symbols' = symbols /\ addrIndex' = addrIndex /\ types' = types /\ typeIndex' = typeIndex
      /\ functions' = functions /\ funcIndex' = funcIndex /\ source' = source
  BY DEF loadVars
<1>2. ASSUME NEW a PROVE FindSymbol(a)' = FindSymbol(a)
  BY <1>1, Zenon DEF FindSymbol, End
<1>3. BinaryRange' = BinaryRange
  BY <1>1, Zenon DEF BinaryRange
<1>4. ASSUME NEW n PROVE FindType(n)' = FindType(n)
  BY <1>1, Zenon DEF FindType
<1>5. ASSUME NEW n PROVE FindFunction(n)' = FindFunction(n)
  BY <1>1, Zenon DEF FindFunction
<1>6. ASSUME NEW n PROVE PointerTargets(n)' = PointerTargets(n)
  BY <1>1, Zenon DEF PointerTargets
<1>7. ASSUME NEW a PROVE GuessSlide(a)' = GuessSlide(a)
  <2> DEFINE voters == {i \in DOMAIN symbols : Votes(symbols[i], a)}
             SlideOf(i) == a - InPage(PageOf(symbols[i].address), a)
             Support(s) == Cardinality({i \in voters : SlideOf(i) = s})
             slides == {SlideOf(i) : i \in voters}
             best == {s \in slides : \A t \in slides : Support(t) <= Support(s)}
  <2>1. voters' = voters
    BY <1>1, Zenon
  <2>2. ASSUME NEW i PROVE SlideOf(i)' = SlideOf(i)
    BY <1>1, Zenon
  <2> HIDE DEF voters
  <2>3. slides' = slides
    BY <1>1, <2>1, Zenon
  <2>4. ASSUME NEW s PROVE Support(s)' = Support(s)
    BY <1>1, <2>1, Zenon
  <2> HIDE DEF slides, Support
  <2>5. best' = best
    BY <2>3, <2>4, Zenon
  <2>6. GuessSlide(a) = IF voters = {} THEN 0 ELSE Min(best)
    BY Zenon DEF GuessSlide, voters, slides, Support
  <2>7. GuessSlide(a)' = IF voters' = {} THEN 0 ELSE Min(best')
    BY Zenon DEF GuessSlide, voters, slides, Support
  <2> HIDE DEF best
  <2> QED
    BY <2>1, <2>5, <2>6, <2>7, Zenon
<1>8. ASSUME NEW a PROVE ResolveGlobal(a)' = ResolveGlobal(a)
  BY <1>1, <1>2, <1>7, Zenon DEF ResolveGlobal
<1>9. ASSUME NEW a PROVE FileOffset(a)' = FileOffset(a)
  BY <1>1, <1>3, Zenon DEF FileOffset, Placements
<1>10. ASSUME NEW a PROVE InTarget(a)' = InTarget(a)
  BY <1>1, <1>3, Zenon DEF InTarget, Mapped
<1>11. ASSUME NEW f PROVE SourceType(f)' = SourceType(f)
  BY <1>1, Zenon DEF SourceType
<1>12. ASSUME NEW pc PROVE CallSite(pc)' = CallSite(pc)
  BY <1>9, Zenon DEF CallSite
<1>13. ASSUME NEW size PROVE SizeCandidates(size)' = SizeCandidates(size)
  BY <1>1, Zenon DEF SizeCandidates
<1>14. ASSUME NEW n, NEW size PROVE Counted(n, size)' = Counted(n, size)
  BY <1>1, <1>4, Zenon DEF Counted
<1>15. ASSUME NEW names, NEW size PROVE Choose(names, size)' = Choose(names, size)
  BY <1>1, <1>13, Zenon DEF Choose
<1>16. ASSUME NEW names, NEW size PROVE ChooseAtCall(names, size)' = ChooseAtCall(names, size)
  BY <1>1, <1>13, <1>14, <1>15, Zenon DEF ChooseAtCall
<1>17. ASSUME NEW f, NEW size PROVE AtCall(f, size)' = AtCall(f, size)
  BY <1>6, <1>11, <1>14, <1>16, Zenon DEF AtCall
<1>18. ASSUME NEW pcs PROVE TellingFrames(pcs)' = TellingFrames(pcs)
  BY <1>6, <1>10, <1>11, <1>12, Zenon DEF TellingFrames
<1>19. ASSUME NEW pcs PROVE FrameNames(pcs)' = FrameNames(pcs)
  BY <1>1, <1>2, <1>9, Zenon DEF FrameNames
<1>20. ASSUME NEW pcs PROVE StackTargets(pcs)' = StackTargets(pcs)
  <2> DEFINE found == {FindFunction(n) : n \in FrameNames(pcs)}
  <2>1. found' = found
    BY <1>5, <1>19, Zenon
  <2> HIDE DEF found
  <2>2. StackTargets(pcs) = UNION {functions[f].targets : f \in found \ {0}}
    BY Zenon DEF StackTargets, found
  <2>3. StackTargets(pcs)' = UNION {functions'[f].targets : f \in found' \ {0}}
    BY Zenon DEF StackTargets, found
  <2> QED
    BY <1>1, <2>1, <2>2, <2>3, Zenon
<1>21. ASSUME NEW size PROVE ArrayMatch(size)' = ArrayMatch(size)
  BY <1>1, Zenon DEF ArrayMatch
<1>22. ASSUME NEW size PROVE BySize(size)' = BySize(size)
  BY <1>1, <1>13, <1>21, Zenon DEF BySize
<1>23. ASSUME NEW r PROVE InferType(r)' = InferType(r)
  BY <1>12, <1>15, <1>14, <1>17, <1>18, <1>20, <1>22, Zenon DEF InferType
<1> QED
  BY <1>8, <1>23

\* find_alloc finds a live row that shares its address with no other.
LEMMA OwnBlock ==
  ASSUME AllocInv, stage = "batch", NEW i \in DOMAIN csv,
         csv[i].live, csv[i].size > 0, Sharing(i) = {i}
  PROVE  FindAlloc(csv[i].addr) # 0 /\ allocs[FindAlloc(csv[i].addr)] = Parsed(csv[i])
<1> DEFINE n == Len(csv)
           a == csv[i].addr
           below == {j \in DOMAIN allocs : allocs[j].addr <= a}
           hits == {k \in below : /\ allocs[k].live /\ Contains(allocs[k], a)
                                  /\ \A j \in below : j > k => ~StopsAt(allocs[j], a)}
<1>1. n \in Nat /\ DOMAIN csv = 1 .. n /\ \A j \in 1 .. n : csv[j] \in Row
  BY DEF AllocInv
<1>2. PICK p \in Bijection(1 .. n, 1 .. n) : allocs = [j \in 1 .. n |-> Parsed(csv[p[j]])]
  BY <1>1 DEF AllocInv
<1>3. /\ p \in [1 .. n -> 1 .. n]
      /\ \A j, k \in 1 .. n : p[j] = p[k] => j = k
      /\ \A j \in 1 .. n : \E k \in 1 .. n : p[k] = j
  BY DEF Bijection, Injection, Surjection, IsInjective
<1> HIDE DEF n
<1>4. PICK m \in 1 .. n : p[m] = i
  BY <1>1, <1>3
<1>5. /\ DOMAIN allocs = 1 .. n
      /\ \A j \in 1 .. n : /\ allocs[j] = Parsed(csv[p[j]])
                           /\ allocs[j].addr = csv[p[j]].addr /\ csv[p[j]].addr \in Nat
                           /\ allocs[j].size = csv[p[j]].size /\ csv[p[j]].size \in Nat
                           /\ allocs[j].live = csv[p[j]].live
  <2>1. \A r \in Row : r.addr \in Nat /\ r.size \in Nat
    BY DEF Row
  <2> QED
    BY <1>1, <1>2, <1>3, <2>1, ParsedType
<1>6. ASSUME NEW j \in 1 .. n, j > m PROVE allocs[j].addr > a
  <2>1. allocs[m].addr <= allocs[j].addr
    BY <1>5, <1>6 DEF AllocInv
  <2>2. p[j] # i
    BY <1>3, <1>4, <1>6
  <2>3. csv[p[j]].addr # a
    BY <1>1, <1>3, <2>2 DEF Sharing
  <2> QED
    BY <1>4, <1>5, <2>1, <2>3
<1>7. m \in hits /\ \A k \in hits : k <= m
  <2>1. m \in below /\ \A j \in below : j \in 1 .. n /\ j <= m
    BY <1>4, <1>5, <1>6
  <2>2. allocs[m].live /\ Contains(allocs[m], a)
    BY <1>4, <1>5 DEF Contains
  <2> QED
    BY <2>1, <2>2
<1>8. hits \subseteq 1 .. n /\ n \in Nat
  BY <1>1, <1>5
<1>9. FindAlloc(a) = IF hits = {} THEN 0 ELSE Max(hits)
  BY Zenon DEF FindAlloc
<1> HIDE DEF hits
<1>10. Max(hits) = m
  <2>1. Max(hits) \in hits /\ \A x \in hits : x <= Max(hits)
    BY <1>7, <1>8, MaxOfIndices
  <2>2. m <= Max(hits) /\ Max(hits) <= m /\ Max(hits) \in 1 .. n
    BY <1>7, <1>8, <2>1
  <2> QED
    BY <1>8, <2>2
<1> QED
  BY <1>4, <1>5, <1>7, <1>9, <1>10

------------------------------------------------------------------------------
(***************************************************************************)
(* Pages and the load offset.                                              *)
(***************************************************************************)
\* The constants are numbers.
LEMMA Numbers ==
  /\ PageSize \in Nat \ {0} /\ MinSlide \in Nat \ {0} /\ MaxSlide \in Nat
  /\ LowVa \in Nat /\ HighVa \in Nat /\ MinElem \in Nat \ {0} /\ MaxElems \in Nat
  /\ Slide \in Nat \ {0} /\ MinSlide <= Slide /\ Slide < MaxSlide /\ Slide % PageSize = 0
<1>1. {PageSize, LowVa, HighVa, MinSlide, MaxSlide, MinElem, MaxElems} \subseteq Nat \ {0}
  BY ResolverAssumption
<1>2. Slide \in MinSlide .. MaxSlide - 1 /\ Slide % PageSize = 0
  BY ResolverAssumption
<1> QED
  BY <1>1, <1>2

\* An address is its page and its place in the page.
LEMMA Paged ==
  ASSUME NEW c \in Nat
  PROVE  /\ PageOf(c) \in Nat /\ c % PageSize \in Nat
         /\ c = PageOf(c) + (c % PageSize)
         /\ \A a : a % PageSize = c % PageSize => InPage(PageOf(c), a) = c
<1>1. PICK q \in Nat, r \in 0 .. PageSize - 1 : r = c % PageSize /\ c = PageSize * q + r
  <2>1. PageSize \in Nat \ {0}
    BY Numbers
  <2>2. /\ c \div PageSize \in Nat /\ c % PageSize \in 0 .. PageSize - 1
        /\ c = PageSize * (c \div PageSize) + (c % PageSize)
    BY <2>1, Divided
  <2> QED
    BY <2>2
<1>2. PageOf(c) = PageSize * q /\ PageSize * q \in Nat /\ r \in Nat
  BY <1>1, Numbers DEF PageOf
<1> QED
  BY <1>1, <1>2 DEF InPage

\* What the tables hold.
LEMMA SymbolsTyped ==
  ASSUME SymbolInv
  PROVE  /\ Len(symbols) \in Nat /\ DOMAIN symbols = 1 .. Len(symbols)
         /\ \A i \in DOMAIN symbols :
              symbols[i].address \in Nat /\ symbols[i].size \in Nat /\ symbols[i].type \in Nat
<1>1. /\ Len(symbols) \in Nat /\ DOMAIN symbols = 1 .. Len(symbols)
      /\ \A i \in DOMAIN symbols : symbols[i] \in Symbol
  BY DEF SymbolInv
<1> QED
  BY <1>1 DEF Symbol

\* The symbols that vote on the load offset of an address, and their votes.
Voters(a) == {i \in DOMAIN symbols : Votes(symbols[i], a)}
VoteOf(i, a) == a - InPage(PageOf(symbols[i].address), a)
Support(s, a) == {i \in Voters(a) : VoteOf(i, a) = s}

\* A guess is one of the offsets with the most votes.
LEMMA GuessFacts ==
  ASSUME SymbolInv, NEW a \in Nat
  PROVE  \/ Voters(a) = {} /\ GuessSlide(a) = 0
         \/ /\ \E i \in Voters(a) : GuessSlide(a) = VoteOf(i, a)
            /\ GuessSlide(a) \in MinSlide .. MaxSlide
            /\ \A i \in Voters(a) :
                 Cardinality(Support(VoteOf(i, a), a)) <= Cardinality(Support(GuessSlide(a), a))
<1> DEFINE n == Len(symbols)
           slides == {VoteOf(i, a) : i \in Voters(a)}
           best == {s \in slides : \A t \in slides : Cardinality(Support(t, a)) <= Cardinality(Support(s, a))}
<1>1. GuessSlide(a) = IF Voters(a) = {} THEN 0 ELSE Min(best)
  BY Zenon DEF GuessSlide, Voters, VoteOf, Support
<1>2. n \in Nat /\ IsFiniteSet(1 .. n) /\ Cardinality(1 .. n) = n
  <2>1. n \in Nat
    BY SymbolsTyped
  <2> HIDE DEF n
  <2> QED
    BY <2>1, FS_Interval
<1>3. \A s : Cardinality(Support(s, a)) \in 0 .. n
  <2> SUFFICES ASSUME NEW s PROVE Cardinality(Support(s, a)) \in 0 .. n
    OBVIOUS
  <2>1. Support(s, a) \in SUBSET (1 .. n)
    BY SymbolsTyped DEF Support, Voters
  <2> HIDE DEF n
  <2>2. IsFiniteSet(Support(s, a)) /\ Cardinality(Support(s, a)) <= n
    BY <1>2, <2>1, FS_Subset
  <2>3. Cardinality(Support(s, a)) \in Nat
    BY <2>2, FS_CardinalityType
  <2> QED
    BY <1>2, <2>2, <2>3
<1>4. slides \subseteq MinSlide .. MaxSlide
  BY DEF Voters, Votes, VoteOf
<1>5. CASE Voters(a) # {}
  <2> DEFINE T == {n - Cardinality(Support(s, a)) : s \in slides}
  <2>1. T \subseteq Nat /\ T # {}
    <3> HIDE DEF n
    <3> QED
      BY <1>2, <1>3, <1>5
  <2>2. PICK t \in T : \A x \in T : t <= x
    <3> HIDE DEF T
    <3> QED
      BY <2>1, MinOfNaturals
  <2>3. PICK s \in slides : t = n - Cardinality(Support(s, a))
    OBVIOUS
  <2>4. ASSUME NEW u \in slides PROVE Cardinality(Support(u, a)) <= Cardinality(Support(s, a))
    <3>1. n - Cardinality(Support(u, a)) \in T
      OBVIOUS
    <3>2. n - Cardinality(Support(s, a)) <= n - Cardinality(Support(u, a))
      BY <2>2, <2>3, <3>1
    <3> HIDE DEF n
    <3> QED
      BY <1>2, <1>3, <3>2
  <2>5. best \subseteq Nat /\ best # {}
    BY <1>4, <2>4, Numbers
  <2>6. Min(best) \in best
    <3> HIDE DEF best
    <3> QED
      BY <2>5, MinOfNaturals
  <2>7. GuessSlide(a) \in best
    BY <1>1, <1>5, <2>6
  <2> QED
    BY <1>4, <2>7
<1> QED
  BY <1>1, <1>5

\* A global whose page has the most objects at its place is resolved to its own symbol.
LEMMA OwnGlobal ==
  ASSUME SymbolInv, NEW c \in Nat, FindSymbol(c + Slide) = 0,
         Cardinality(Covering(PageOf(c), c + Slide)) > 0,
         \A p \in {PageOf(symbols[j].address) : j \in DOMAIN symbols} \ {PageOf(c)} :
           Cardinality(Covering(p, c + Slide)) < Cardinality(Covering(PageOf(c), c + Slide))
  PROVE  /\ ResolveGlobal(c + Slide).symbol = FindSymbol(c)
         /\ FindSymbol(c) # 0 => ResolveGlobal(c + Slide).offset = c - symbols[FindSymbol(c)].address
<1> DEFINE a == c + Slide
           mine == PageOf(c)
           At(p) == {i \in Voters(a) : PageOf(symbols[i].address) = p}
<1>1. a \in Nat /\ a % PageSize = c % PageSize /\ InPage(mine, a) = c /\ a - c = Slide
  <2>1. a % PageSize = c % PageSize
    BY Numbers, SameRemainder
  <2> QED
    BY <2>1, Numbers, Paged
<1>2. \A i \in Voters(a) : PageOf(symbols[i].address) \in Nat
  BY SymbolsTyped, Paged DEF Voters
<1>3. a % PageSize \in Nat
  BY <1>1, Paged
<1> HIDE DEF a
<1>4. ASSUME NEW i \in Voters(a) PROVE Support(VoteOf(i, a), a) = At(PageOf(symbols[i].address))
  <2>1. \A j \in Voters(a) :
          VoteOf(j, a) = VoteOf(i, a) <=> PageOf(symbols[j].address) = PageOf(symbols[i].address)
    BY <1>1, <1>2, <1>3 DEF VoteOf, InPage
  <2> QED
    BY <2>1 DEF Support
<1>5. \A p : At(p) \subseteq Covering(p, a)
  BY SymbolsTyped DEF Covering, Voters, Votes
<1>6. At(mine) = Covering(mine, a)
  <2>1. ASSUME NEW i \in Covering(mine, a) PROVE i \in Voters(a)
    BY <1>1, <2>1, SymbolsTyped, Numbers DEF Covering, Voters, Votes, End
  <2> QED
    BY <1>5, <2>1 DEF Covering
<1>7. PICK m \in At(mine) : TRUE
  <2>1. Covering(mine, a) # {}
    BY FS_EmptySet DEF a
  <2> QED
    BY <1>6, <2>1
<1>8. VoteOf(m, a) = Slide
  BY <1>1, <1>7 DEF VoteOf
<1>9. GuessSlide(a) = Slide
  <2>1. PICK i \in Voters(a) : GuessSlide(a) = VoteOf(i, a)
    BY <1>1, <1>7, GuessFacts
  <2>2. Cardinality(Support(Slide, a)) <= Cardinality(Support(GuessSlide(a), a))
    BY <1>1, <1>7, <1>8, GuessFacts
  <2> DEFINE p == PageOf(symbols[i].address)
  <2>3. CASE p = mine
    BY <1>1, <2>1, <2>3 DEF VoteOf
  <2>4. CASE p # mine
    <3>1. Support(Slide, a) = Covering(mine, a)
      BY <1>4, <1>6, <1>7, <1>8
    <3>2. Support(GuessSlide(a), a) \in SUBSET Covering(p, a)
      BY <1>4, <1>5, <2>1
    <3>3. IsFiniteSet(Covering(p, a)) /\ IsFiniteSet(Covering(mine, a))
      <4>1. PICK n \in Nat : DOMAIN symbols = 1 .. n
        BY SymbolsTyped
      <4>2. Covering(p, a) \in SUBSET (1 .. n) /\ Covering(mine, a) \in SUBSET (1 .. n)
        BY <4>1 DEF Covering
      <4>3. IsFiniteSet(1 .. n)
        BY FS_Interval
      <4> QED
        BY <4>2, <4>3, FS_Subset
    <3>4. Cardinality(Support(GuessSlide(a), a)) <= Cardinality(Covering(p, a))
      BY <3>2, <3>3, FS_Subset
    <3>5. Cardinality(Covering(p, a)) < Cardinality(Covering(mine, a))
      BY <2>1, <2>4 DEF a, Voters
    <3>6. /\ Cardinality(Support(GuessSlide(a), a)) \in Nat
          /\ Cardinality(Covering(p, a)) \in Nat /\ Cardinality(Covering(mine, a)) \in Nat
      BY <3>2, <3>3, FS_Subset, FS_CardinalityType
    <3> QED
      BY <2>2, <3>1, <3>4, <3>5, <3>6
  <2> QED
    BY <2>3, <2>4
<1>10. FindSymbol(a) = 0 /\ a - Slide = c
  BY <1>1, Numbers DEF a
<1>11. ResolveGlobal(a) =
         [symbol |-> FindSymbol(c),
          offset |-> IF FindSymbol(c) = 0 THEN 0 ELSE c - symbols[FindSymbol(c)].address]
  BY <1>9, <1>10, Numbers, Zenon DEF ResolveGlobal
<1> QED
  BY <1>11 DEF a

(***************************************************************************)
(* A global of a binary loaded at Slide is resolved to its own symbol and  *)
(* offset when its page has the most objects at its place in a page        *)
(* (address_resolver.cpp:377-419).                                         *)
(***************************************************************************)
THEOREM GlobalFound == Spec => []GlobalResolved
<1>1. SymbolInv => GlobalResolved
  <2> SUFFICES ASSUME SymbolInv, NEW i \in DOMAIN symbols,
                      NEW c \in symbols[i].address .. End(symbols[i]) - 1,
                      FindSymbol(c + Slide) = 0,
                      Cardinality(Covering(PageOf(c), c + Slide)) > 0,
                      \A p \in {PageOf(symbols[j].address) : j \in DOMAIN symbols} \ {PageOf(c)} :
                        Cardinality(Covering(p, c + Slide)) < Cardinality(Covering(PageOf(c), c + Slide))
               PROVE  /\ ResolveGlobal(c + Slide).symbol = FindSymbol(c)
                      /\ FindSymbol(c) # 0 =>
                           ResolveGlobal(c + Slide).offset = c - symbols[FindSymbol(c)].address
    BY Zenon DEF GlobalResolved
  <2>1. c \in Nat
    BY SymbolsTyped DEF End
  <2> QED
    BY <2>1, OwnGlobal
<1> QED
  BY <1>1, SymbolInvariant, PTL

(***************************************************************************)
(* Where the binary lies.                                                  *)
(***************************************************************************)
\* A bounded set of naturals has a greatest one.
LEMMA MaxOfBounded ==
  ASSUME NEW S, S \subseteq Nat \ {0}, S # {}, NEW m \in Nat, \A x \in S : x <= m
  PROVE  Max(S) \in S /\ \A x \in S : x <= Max(S)
<1>1. S \subseteq 1 .. m
  OBVIOUS
<1> QED
  BY <1>1, MaxOfIndices

\* What the functions' table holds.
LEMMA FunctionsTyped ==
  ASSUME FunctionsInv
  PROVE  /\ Len(functions) \in Nat /\ DOMAIN functions = 1 .. Len(functions)
         /\ \A i \in DOMAIN functions :
              functions[i].low \in Nat /\ functions[i].high \in Nat /\ functions[i].targets \subseteq Nat
<1>1. /\ Len(functions) \in Nat /\ DOMAIN functions = 1 .. Len(functions)
      /\ \A i \in DOMAIN functions : functions[i] \in Function
  BY DEF FunctionsInv
<1> QED
  BY <1>1 DEF Function

\* The range of the binary has the addresses of every function.
LEMMA InRange ==
  ASSUME SymbolInv, FunctionsInv, NEW i \in DOMAIN functions, functions[i].low # 0,
         NEW c \in functions[i].low .. functions[i].high - 1
  PROVE  /\ BinaryRange.start \in Nat /\ BinaryRange.end \in Nat
         /\ BinaryRange.start <= c /\ c < BinaryRange.end
<1> DEFINE code == {j \in DOMAIN functions : functions[j].low # 0 /\ functions[j].low < functions[j].high}
           starts == {functions[j].low : j \in code} \cup {symbols[j].address : j \in DOMAIN symbols}
           Past(j) == symbols[j].address + Max({symbols[j].size, 1})
           ends == {functions[j].high : j \in code} \cup {Past(j) : j \in DOMAIN symbols}
<1>1. BinaryRange = IF starts = {} THEN [start |-> 0, end |-> 0] ELSE [start |-> Min(starts), end |-> Max(ends)]
  BY Zenon DEF BinaryRange
<1>2. i \in code
  BY FunctionsTyped
<1>3. starts \subseteq Nat /\ functions[i].low \in starts
  BY <1>2, SymbolsTyped, FunctionsTyped
<1>4. Min(starts) \in Nat /\ Min(starts) <= functions[i].low
  <2> HIDE DEF starts
  <2>1. Min(starts) \in starts /\ \A x \in starts : Min(starts) <= x
    BY <1>3, MinOfNaturals
  <2> QED
    BY <1>3, <2>1
<1>5. \A j \in DOMAIN symbols : Past(j) \in Nat \ {0}
  <2> SUFFICES ASSUME NEW j \in DOMAIN symbols PROVE Past(j) \in Nat \ {0}
    OBVIOUS
  <2>1. symbols[j].address \in Nat /\ symbols[j].size \in Nat
    BY SymbolsTyped
  <2>2. Max({symbols[j].size, 1}) \in Nat \ {0}
    <3> DEFINE s == symbols[j].size
    <3>1. \E x \in {s, 1} : \A y \in {s, 1} : x >= y
      BY <2>1
    <3>2. Max({s, 1}) \in {s, 1} /\ \A y \in {s, 1} : Max({s, 1}) >= y
      <4> HIDE DEF s
      <4> QED
        BY <3>1 DEF Max
    <3> QED
      BY <2>1, <3>2
  <2> QED
    BY <2>1, <2>2
<1> HIDE DEF Past
<1>6. PICK m1 \in Nat : \A j \in DOMAIN functions : functions[j].high <= m1
  <2> DEFINE f == [j \in DOMAIN functions |-> functions[j].high]
             n == Len(functions)
  <2>1. n \in Nat /\ DOMAIN functions = 1 .. n /\ \A j \in 1 .. n : f[j] \in Nat
    BY FunctionsTyped
  <2>2. PICK m \in Nat : \A j \in 1 .. n : f[j] <= m
    <3> HIDE DEF f, n
    <3> QED
      BY <2>1, BoundOf
  <2> QED
    BY <2>1, <2>2
<1>7. PICK m2 \in Nat : \A j \in DOMAIN symbols : Past(j) <= m2
  <2> DEFINE f == [j \in DOMAIN symbols |-> Past(j)]
             n == Len(symbols)
  <2>1. n \in Nat /\ DOMAIN symbols = 1 .. n /\ \A j \in 1 .. n : f[j] \in Nat
    BY <1>5, SymbolsTyped
  <2>2. PICK m \in Nat : \A j \in 1 .. n : f[j] <= m
    <3> HIDE DEF f, n
    <3> QED
      BY <2>1, BoundOf
  <2> QED
    BY <2>1, <2>2
<1>8. ends \subseteq Nat \ {0} /\ functions[i].high \in ends
  BY <1>2, <1>5, FunctionsTyped
<1>9. PICK m \in Nat : \A x \in ends : x <= m
  <2>1. \A j \in code : functions[j].high <= m1 + m2
    BY <1>6, FunctionsTyped
  <2>2. \A j \in DOMAIN symbols : Past(j) <= m1 + m2
    BY <1>5, <1>7
  <2> QED
    BY <2>1, <2>2
<1>10. Max(ends) \in Nat /\ functions[i].high <= Max(ends)
  <2> HIDE DEF ends
  <2>1. Max(ends) \in ends /\ \A x \in ends : x <= Max(ends)
    BY <1>8, <1>9, MaxOfBounded
  <2> QED
    BY <1>8, <2>1
<1>11. BinaryRange.start = Min(starts) /\ BinaryRange.end = Max(ends)
  <2>1. starts # {}
    BY <1>3
  <2> HIDE DEF starts, ends
  <2> QED
    BY <1>1, <2>1
<1> HIDE DEF starts, ends
<1> QED
  BY <1>4, <1>10, <1>11, FunctionsTyped

(***************************************************************************)
(* va_to_file_offset keeps the place in a page, does not go above the      *)
(* address meant, and is right within a page of the binary's start         *)
(* (address_resolver.cpp:428-466).                                         *)
(***************************************************************************)
THEOREM OffsetNotAbove == Spec => []FileOffsetRight
<1>1. SymbolInv /\ FunctionsInv => FileOffsetRight
  <2> SUFFICES ASSUME SymbolInv, FunctionsInv, NEW i \in DOMAIN functions,
                      NEW c \in functions[i].low .. functions[i].high - 1,
                      functions[i].low # 0, c + Slide \in LowVa .. HighVa - 1
               PROVE  LET f == FileOffset(c + Slide) IN
                      /\ f % PageSize = c % PageSize /\ BinaryRange.start <= f /\ f <= c
                      /\ c < BinaryRange.start + PageSize => f = c
    BY Zenon DEF FileOffsetRight
  <2> DEFINE va == c + Slide
             f == FileOffset(va)
             start == BinaryRange.start
  <2>1. c \in Nat /\ start \in Nat /\ start <= c /\ c < BinaryRange.end /\ BinaryRange.end \in Nat
    BY InRange, FunctionsTyped
  <2>2. va \in Nat /\ va % PageSize = c % PageSize /\ va - c = Slide /\ ~(va < LowVa \/ va >= HighVa)
    <3>1. va % PageSize = c % PageSize
      BY <2>1, Numbers, SameRemainder
    <3> QED
      BY <2>1, <3>1, Numbers
  <2> HIDE DEF va
  <2>3. c \in start .. BinaryRange.end - 1
    BY <2>1
  <2>4. c \in Placements(va)
    BY <2>2, <2>3, Numbers DEF Placements
  <2>5. Placements(va) \subseteq Nat
    BY <2>1 DEF Placements
  <2>6. Min(Placements(va)) \in Placements(va) /\ Min(Placements(va)) <= c
    BY <2>4, <2>5, MinOfNaturals
  <2>7. f = Min(Placements(va))
    BY <2>2, <2>4 DEF FileOffset
  <2> HIDE DEF f
  <2>8. f \in Nat /\ f <= c /\ start <= f /\ f % PageSize = c % PageSize
    <3>1. f \in Placements(va) /\ f <= c
      BY <2>6, <2>7
    <3> QED
      BY <2>1, <2>2, <2>5, <3>1 DEF Placements
  <2>9. c < start + PageSize => f = c
    <3>1. c < start + PageSize => c - f < PageSize /\ f - c < PageSize
      BY <2>1, <2>8, Numbers
    <3> QED
      BY <2>1, <2>8, <3>1, Numbers, SamePlace
  <2> QED
    BY <2>8, <2>9 DEF f, va
<1> QED
  BY <1>1, SymbolInvariant, TablesInvariant, PTL

------------------------------------------------------------------------------
(***************************************************************************)
(* The inferred types.                                                     *)
(***************************************************************************)
\* What the types' table holds.
LEMMA TypesTyped ==
  ASSUME TypesInv
  PROVE  /\ Len(types) \in Nat /\ DOMAIN types = 1 .. Len(types)
         /\ \A t \in DOMAIN types :
              types[t].name \in Nat /\ types[t].size \in Nat /\ types[t].fields \in Seq(Field)
         /\ \A n : FindType(n) # 0 => FindType(n) \in DOMAIN types /\ n \in Nat
<1>1. /\ Len(types) \in Nat /\ DOMAIN types = 1 .. Len(types)
      /\ \A t \in DOMAIN types : types[t] \in Type
  BY DEF TypesInv
<1>2. \A n : FindType(n) # 0 => FindType(n) \in DOMAIN types /\ n \in Nat
  BY DEF FindType, TypesInv
<1> QED
  BY <1>1, <1>2 DEF Type

\* An array has as many elements as the size of its type, or of a namesake, divides the block into.
Fills(inferred, size) ==
  \/ inferred.count = 1
  \/ inferred.type = Ambiguous
  \/ \E u \in DOMAIN types :
       /\ types[u].size > 0 /\ size % types[u].size = 0
       /\ inferred.count = size \div types[u].size
       /\ \/ u = FindType(inferred.type)
          \/ types[u].name = inferred.type /\ types[u].fields # <<>>

\* The type is told by name.
LEMMA CountedFills ==
  ASSUME TypesInv, NEW n, NEW size \in Nat
  PROVE  Fills(Counted(n, size), size)
<1> DEFINE t == FindType(n)
           fit == t # 0 /\ types[t].size > 0 /\ size % types[t].size = 0
<1>1. /\ Counted(n, size).type = n
      /\ Counted(n, size).count = IF fit THEN size \div types[t].size ELSE 1
  BY DEF Counted, Inferred
<1>2. t # 0 => t \in DOMAIN types
  BY TypesTyped
<1> QED
  BY <1>1, <1>2 DEF Fills

\* The type is told by a call.
LEMMA AtCallFills ==
  ASSUME TypesInv, NEW f, NEW size \in Nat
  PROVE  Fills(AtCall(f, size), size)
<1>1. ASSUME NEW names PROVE Fills(ChooseAtCall(names, size), size)
  <2>1. ASSUME NEW n PROVE Fills(Inferred(n, 1), size)
    BY DEF Fills, Inferred
  <2> QED
    BY <2>1, CountedFills, Zenon DEF ChooseAtCall
<1> QED
  BY <1>1, CountedFills, Zenon DEF AtCall

\* The type is told by the size.
LEMMA BySizeFills ==
  ASSUME TypesInv, NEW size \in Nat
  PROVE  Fills(BySize(size), size)
<1>1. ASSUME NEW n PROVE Fills(Inferred(n, 1), size)
  BY DEF Fills, Inferred
<1>2. Fills(ArrayMatch(size), size)
  <2> DEFINE fits == {t \in DOMAIN types :
                        /\ types[t].fields # <<>> /\ types[t].size >= MinElem
                        /\ size % types[t].size = 0 /\ size \div types[t].size \in 2 .. MaxElems}
             u == Min(fits)
             n == IF Cardinality(fits) = 1 THEN types[u].name ELSE Ambiguous
  <2>1. ArrayMatch(size) = IF fits = {} THEN Inferred(NoName, 1) ELSE Inferred(n, size \div types[u].size)
    BY Zenon DEF ArrayMatch
  <2>2. CASE fits = {}
    BY <1>1, <2>1, <2>2
  <2>3. CASE fits # {}
    <3>1. fits \subseteq Nat
      BY TypesTyped
    <3>2. u \in fits
      <4> HIDE DEF fits
      <4> QED
        BY <2>3, <3>1, MinOfNaturals
    <3> HIDE DEF u
    <3>3. u \in DOMAIN types /\ types[u].fields # <<>> /\ types[u].size >= MinElem /\ size % types[u].size = 0
      BY <3>2
    <3>4. types[u].size > 0
      BY <3>3, Numbers, TypesTyped
    <3>5. n = Ambiguous \/ n = types[u].name
      OBVIOUS
    <3> HIDE DEF n, fits
    <3>6. ArrayMatch(size).type = n /\ ArrayMatch(size).count = size \div types[u].size
      BY <2>1, <2>3 DEF Inferred
    <3> QED
      BY <3>3, <3>4, <3>5, <3>6, Zenon DEF Fills
  <2> QED
    BY <2>2, <2>3
<1> QED
  BY <1>1, <1>2, Zenon DEF BySize

\* Whatever tells the type.
LEMMA InferFills ==
  ASSUME TypesInv, NEW r, r.size \in Nat
  PROVE  Fills(InferType(r), r.size)
  BY AtCallFills, BySizeFills, CountedFills, Zenon DEF InferType

\* The places of an array's elements are looked up within the element.
LEMMA Elements ==
  ASSUME TypesInv, NEW inferred, inferred.count > 1, FindType(inferred.type) # 0,
         types[FindType(inferred.type)].size > 0, NEW o \in Nat
  PROVE  LET t == FindType(inferred.type)
             size == types[t].size
             f == types[t].fields[HeapField(inferred, o)]
         IN /\ HeapField(inferred, o) # 0 => /\ f.offset <= o % size
                                             /\ f.offset = o % size \/ o % size < f.offset + f.size
            /\ HeapField(inferred, o + size) = HeapField(inferred, o)
<1> DEFINE t == FindType(inferred.type)
           size == types[t].size
           k == HeapField(inferred, o)
<1>1. t \in DOMAIN types /\ size \in Nat \ {0} /\ types[t].fields \in Seq(Field)
  BY TypesTyped
<1>2. ASSUME NEW x PROVE HeapField(inferred, x) = FieldAt(types[t].fields, x % size)
  BY Zenon DEF HeapField, ResolveField
<1>3. o % size \in Nat /\ (o + size) % size = o % size
  <2> HIDE DEF size
  <2>1. o % size \in Nat
    BY <1>1, Divided
  <2>2. (size * 1 + 0) % size = 0
    BY <1>1, Remainder
  <2>3. size % size = 0
    BY <1>1, <2>2
  <2> QED
    BY <1>1, <2>1, <2>3, SameRemainder
<1>4. FieldExactAt(types[t].fields, o % size)
  BY <1>1, <1>3, BestField
<1>5. k = FieldAt(types[t].fields, o % size)
  BY <1>2
<1>6. HeapField(inferred, o + size) = k
  BY <1>2, <1>3
<1> HIDE DEF k, size, t
<1>7. k # 0 => /\ types[t].fields[k].offset <= o % size
               /\ \/ types[t].fields[k].offset = o % size
                  \/ o % size < types[t].fields[k].offset + types[t].fields[k].size
  BY <1>1, <1>3, <1>4, <1>5 DEF FieldExactAt
<1> QED
  BY <1>6, <1>7 DEF k, size, t

(***************************************************************************)
(* Whatever field is named contains the place the address has in its       *)
(* element, the elements of an array are named alike, and an array fills   *)
(* its block unless another structure took over its name                   *)
(* (address_resolver.cpp:840-884).                                         *)
(***************************************************************************)
THEOREM ArraysAlike == Spec => []ElementsAlike
<1>1. TypesInv /\ AllocInv => ElementsAlike
  <2> SUFFICES ASSUME TypesInv, AllocInv, NEW i \in DOMAIN allocs,
                      InferType(allocs[i]).count > 1,
                      FindType(InferType(allocs[i]).type) # 0,
                      types[FindType(InferType(allocs[i]).type)].size > 0
               PROVE  LET r == allocs[i]
                          inferred == InferType(r)
                          t == FindType(inferred.type)
                          size == types[t].size
                          namesakes == {u \in DOMAIN types : types[u].name = inferred.type /\ types[u].fields # <<>>}
                          Named(o) == HeapField(inferred, o)
                      IN /\ (\A u \in namesakes : types[u].size = size) => inferred.count * size = r.size
                         /\ \A o \in 0 .. r.size - 1 :
                              LET f == types[t].fields[Named(o)] IN
                              /\ Named(o) # 0 => /\ f.offset <= o % size
                                                 /\ f.offset = o % size \/ o % size < f.offset + f.size
                              /\ o + size < r.size => Named(o + size) = Named(o)
    BY DEF ElementsAlike
  <2> DEFINE r == allocs[i]
             inferred == InferType(r)
             t == FindType(inferred.type)
             size == types[t].size
             namesakes == {u \in DOMAIN types : types[u].name = inferred.type /\ types[u].fields # <<>>}
  <2>1. r.size \in Nat
    <3>1. r \in Row
      BY DEF AllocInv
    <3> QED
      BY <3>1 DEF Row
  <2>2. t \in DOMAIN types /\ size \in Nat /\ inferred.type \in Nat
    BY TypesTyped
  <2>3. ASSUME \A u \in namesakes : types[u].size = size PROVE inferred.count * size = r.size
    <3>1. Fills(inferred, r.size)
      BY <2>1, InferFills
    <3>2. PICK u \in DOMAIN types : /\ types[u].size > 0 /\ r.size % types[u].size = 0
                                    /\ inferred.count = r.size \div types[u].size
                                    /\ u = t \/ u \in namesakes
      BY <2>2, <3>1 DEF Fills, Ambiguous
    <3>3. types[u].size = size /\ size \in Nat \ {0}
      BY <2>2, <2>3, <3>2
    <3> HIDE DEF r, inferred, size, t, namesakes
    <3>4. r.size = size * (r.size \div size) + (r.size % size) /\ r.size \div size \in Nat
      BY <2>1, <3>3, Divided
    <3> QED
      BY <2>1, <2>2, <3>2, <3>3, <3>4
  <2>4. ASSUME NEW o \in 0 .. r.size - 1
        PROVE  LET f == types[t].fields[HeapField(inferred, o)] IN
               /\ HeapField(inferred, o) # 0 => /\ f.offset <= o % size
                                                /\ f.offset = o % size \/ o % size < f.offset + f.size
               /\ HeapField(inferred, o + size) = HeapField(inferred, o)
    <3>1. o \in Nat
      BY <2>1
    <3> QED
      BY <3>1, Elements, Zenon
  <2> QED
    BY <2>3, <2>4, Zenon
<1> QED
  BY <1>1, TablesInvariant, AllocInit, AllocStep, PTL DEF Spec

------------------------------------------------------------------------------
(***************************************************************************)
(* The types of the answers.                                               *)
(***************************************************************************)
\* The source files do not change.
SourceInv == \A f \in DOMAIN source : source[f] \in SourceLine

\* Every run has source files like these.
LEMMA SourceInvariant == Spec => []SourceInv
<1>1. ResolverInit => SourceInv
  BY ResolverAssumption DEF ResolverInit, SourceInv
<1>2. SourceInv /\ [Next]_vars => SourceInv'
  <2> SUFFICES ASSUME SourceInv, [Next]_vars PROVE SourceInv'
    OBVIOUS
  <2>1. source' = source
    BY DEF Next, LoadBinary, LoadCsv, BatchRow, vars, resolverVars
  <2> QED
    BY <2>1 DEF SourceInv
<1> QED
  BY <1>1, <1>2, PTL DEF Spec

\* One name of several is one of them.
LEMMA ChooseType ==
  ASSUME NEW names, names \subseteq Nat, names # {}, NEW size
  PROVE  Choose(names, size) \in Nat /\ ChooseAtCall(names, size).type \in Nat
<1> DEFINE fit == names \cap {types[t].name : t \in SizeCandidates(size)}
           from == IF fit # {} THEN fit ELSE names
<1>1. from \subseteq Nat /\ from # {}
  OBVIOUS
<1>2. Min(from) \in Nat
  <2> HIDE DEF from
  <2> QED
    BY <1>1, MinOfNaturals
<1>3. Choose(names, size) = Min(from)
  BY Zenon DEF Choose
<1> HIDE DEF from, fit
<1>4. ChooseAtCall(names, size).type = Choose(names, size)
  <2>1. \A n, c : Inferred(n, c).type = n
    BY DEF Inferred
  <2>2. \A n : Counted(n, size).type = n
    BY <2>1, Zenon DEF Counted
  <2> QED
    BY <2>1, <2>2, Zenon DEF ChooseAtCall
<1> QED
  BY <1>2, <1>3, <1>4

\* A type that a source line names.
LEMMA SourceTypeType ==
  ASSUME SourceInv, NEW f
  PROVE  SourceType(f) \in Nat
<1>1. CASE f \notin DOMAIN source
  BY <1>1 DEF SourceType, NoName
<1>2. CASE f \in DOMAIN source
  <2> DEFINE l == source[f]
  <2>1. l.malloc \subseteq Nat /\ l.calloc \subseteq Nat /\ l.realloc \subseteq Nat
    BY <1>2 DEF SourceInv, SourceLine, Names
  <2>2. /\ l.malloc # {} => Min(l.malloc) \in Nat
        /\ l.calloc # {} => Min(l.calloc) \in Nat
        /\ l.realloc # {} => Min(l.realloc) \in Nat
    BY <2>1, MinOfNaturals
  <2>3. NoName \in Nat
    BY DEF NoName
  <2> QED
    BY <1>2, <2>2, <2>3, Zenon DEF SourceType
<1> QED
  BY <1>1, <1>2

\* The types a function's pointers point to.
LEMMA TargetsType ==
  ASSUME FunctionsInv
  PROVE  /\ \A a : PointerTargets(a) \subseteq Nat
         /\ \A pcs : StackTargets(pcs) \subseteq Nat
<1>1. ASSUME NEW a PROVE PointerTargets(a) \subseteq Nat
  <2> DEFINE here == {i \in DOMAIN functions : functions[i].low <= a /\ a < functions[i].high}
  <2>1. PointerTargets(a) = IF here = {} THEN {} ELSE functions[Min(here)].targets
    BY Zenon DEF PointerTargets
  <2>2. here \subseteq Nat /\ here \subseteq DOMAIN functions
    BY FunctionsTyped
  <2>3. here # {} => Min(here) \in here
    <3> HIDE DEF here
    <3> QED
      BY <2>2, MinOfNaturals
  <2> HIDE DEF here
  <2> QED
    BY <2>1, <2>2, <2>3, FunctionsTyped
<1>2. ASSUME NEW pcs PROVE StackTargets(pcs) \subseteq Nat
  <2>1. \A n : FindFunction(n) # 0 => FindFunction(n) \in DOMAIN functions
    BY DEF FindFunction, FunctionsInv
  <2> QED
    BY <2>1, FunctionsTyped DEF StackTargets
<1> QED
  BY <1>1, <1>2

\* The inferred type is a name, or ambiguous.
LEMMA InferTypeType ==
  ASSUME TypesInv, FunctionsInv, SourceInv, NEW r \in Row
  PROVE  InferType(r).type \in Nat \cup {Ambiguous}
<1>1. \A n, c : Inferred(n, c).type = n
  BY DEF Inferred
<1>2. \A n, s : Counted(n, s).type = n
  BY <1>1, Zenon DEF Counted
<1>3. CASE TellingFrames(r.pcs) # {}
  <2> DEFINE i == Min(TellingFrames(r.pcs))
             f == CallSite(r.pcs[i])
  <2>1. TellingFrames(r.pcs) \subseteq Nat
    <3>1. Len(r.pcs) \in Nat
      BY DEF Row
    <3> QED
      BY <3>1 DEF TellingFrames
  <2>2. i \in TellingFrames(r.pcs)
    BY <1>3, <2>1, MinOfNaturals
  <2> HIDE DEF i
  <2>3. SourceType(f) # NoName \/ PointerTargets(f) # {}
    BY <2>2 DEF TellingFrames
  <2> HIDE DEF f
  <2>4. AtCall(f, r.size).type \in Nat
    <3>1. SourceType(f) = NoName => ChooseAtCall(PointerTargets(f), r.size).type \in Nat
      BY <2>3, TargetsType, ChooseType
    <3>2. SourceType(f) \in Nat
      BY SourceTypeType
    <3> QED
      BY <1>2, <3>1, <3>2, Zenon DEF AtCall
  <2>5. InferType(r) = AtCall(f, r.size)
    BY <1>3, Zenon DEF InferType, f, i
  <2> QED
    BY <2>4, <2>5
<1>4. CASE TellingFrames(r.pcs) = {} /\ StackTargets(r.pcs) # {}
  <2>1. Choose(StackTargets(r.pcs), r.size) \in Nat
    BY <1>4, TargetsType, ChooseType
  <2>2. InferType(r) = Counted(Choose(StackTargets(r.pcs), r.size), r.size)
    BY <1>4, Zenon DEF InferType
  <2> QED
    BY <1>2, <2>1, <2>2
<1>5. CASE TellingFrames(r.pcs) = {} /\ StackTargets(r.pcs) = {}
  <2> DEFINE size == r.size
             fits == {t \in DOMAIN types :
                        /\ types[t].fields # <<>> /\ types[t].size >= MinElem
                        /\ size % types[t].size = 0 /\ size \div types[t].size \in 2 .. MaxElems}
             n == IF Cardinality(fits) = 1 THEN types[Min(fits)].name ELSE Ambiguous
  <2>1. InferType(r) = BySize(size)
    BY <1>5, Zenon DEF InferType
  <2>2. ArrayMatch(size) =
          IF fits = {} THEN Inferred(NoName, 1) ELSE Inferred(n, size \div types[Min(fits)].size)
    BY Zenon DEF ArrayMatch
  <2>3. ASSUME NEW S, S \subseteq DOMAIN types, S # {} PROVE types[Min(S)].name \in Nat
    <3>1. S \subseteq Nat
      BY <2>3, TypesTyped
    <3>2. Min(S) \in S
      BY <2>3, <3>1, MinOfNaturals
    <3> QED
      BY <2>3, <3>2, TypesTyped
  <2>4. fits \subseteq DOMAIN types
    OBVIOUS
  <2>5. ArrayMatch(size).type \in Nat \cup {Ambiguous}
    <3>1. fits # {} => types[Min(fits)].name \in Nat
      <4> HIDE DEF fits
      <4> QED
        BY <2>3, <2>4
    <3>2. fits # {} => n \in Nat \cup {Ambiguous}
      <4> HIDE DEF fits
      <4> QED
        BY <3>1
    <3>3. NoName \in Nat
      BY DEF NoName
    <3> HIDE DEF fits, n
    <3> QED
      BY <1>1, <2>2, <3>2, <3>3
  <2>6. SizeCandidates(size) # {} => types[Min(SizeCandidates(size))].name \in Nat
    <3>1. SizeCandidates(size) \subseteq DOMAIN types
      BY DEF SizeCandidates
    <3> QED
      BY <2>3, <3>1
  <2> QED
    BY <1>1, <2>1, <2>5, <2>6 DEF BySize
<1> QED
  BY <1>3, <1>4, <1>5

\* The symbol found starts at or below the address.
LEMMA FoundSymbol ==
  ASSUME SymbolInv, Loaded, NEW a \in Int, FindSymbol(a) # 0
  PROVE  FindSymbol(a) \in DOMAIN symbols /\ symbols[FindSymbol(a)].address <= a
<1> DEFINE upTo == {i \in DOMAIN symbols : symbols[i].address <= a}
<1>1. FindSymbol(a) \in DOMAIN symbols
  <2>1. CASE a \in DOMAIN addrIndex
    BY <2>1, SortedIndex DEF FindSymbol
  <2>2. CASE a \notin DOMAIN addrIndex
    <3>1. FindSymbol(a) = IF upTo # {} /\ a < End(symbols[Max(upTo)]) THEN Max(upTo) ELSE 0
      BY <2>2, Zenon DEF FindSymbol
    <3>2. upTo \subseteq 1 .. Len(symbols) /\ Len(symbols) \in Nat /\ upTo \subseteq DOMAIN symbols
      BY SymbolsTyped
    <3> HIDE DEF upTo
    <3>3. upTo # {} => Max(upTo) \in upTo
      BY <3>2, MaxOfIndices
    <3> QED
      BY <3>1, <3>2, <3>3
  <2> QED
    BY <2>1, <2>2
<1>2. SymbolExactAt(a)
  BY NearestSymbol
<1> QED
  BY <1>1, <1>2 DEF SymbolExactAt

\* resolve_global answers with a symbol and an offset in it.
LEMMA GlobalType ==
  ASSUME SymbolInv, Loaded, NEW a \in Nat, ResolveGlobal(a).symbol # 0
  PROVE  ResolveGlobal(a).symbol \in DOMAIN symbols /\ ResolveGlobal(a).offset \in Nat
<1> DEFINE direct == FindSymbol(a)
           slide == IF direct # 0 THEN 0 ELSE GuessSlide(a)
           k == IF slide = 0 THEN direct ELSE FindSymbol(a - slide)
<1>1. /\ ResolveGlobal(a).symbol = k
      /\ ResolveGlobal(a).offset = IF k = 0 THEN 0 ELSE a - slide - symbols[k].address
  BY DEF ResolveGlobal
<1>2. slide \in Nat
  BY GuessFacts, Numbers
<1>3. k = FindSymbol(a - slide)
  <2>1. slide = 0 => a - slide = a
    OBVIOUS
  <2> HIDE DEF slide
  <2> QED
    BY <2>1, Zenon
<1> HIDE DEF k, slide
<1>4. k \in DOMAIN symbols /\ symbols[k].address <= a - slide
  BY <1>1, <1>2, <1>3, FoundSymbol
<1> QED
  BY <1>1, <1>2, <1>4, SymbolsTyped

\* find_alloc answers with a row that contains the address.
LEMMA FoundBlock ==
  ASSUME AllocInv, NEW a \in Nat, FindAlloc(a) # 0
  PROVE  /\ FindAlloc(a) \in DOMAIN allocs /\ allocs[FindAlloc(a)] \in Row
         /\ a - allocs[FindAlloc(a)].addr \in Nat
<1> DEFINE below == {j \in DOMAIN allocs : allocs[j].addr <= a}
           hits == {k \in below : /\ allocs[k].live /\ Contains(allocs[k], a)
                                  /\ \A j \in below : j > k => ~StopsAt(allocs[j], a)}
<1>1. FindAlloc(a) = IF hits = {} THEN 0 ELSE Max(hits)
  BY Zenon DEF FindAlloc
<1>2. /\ Len(allocs) \in Nat /\ DOMAIN allocs = 1 .. Len(allocs)
      /\ \A i \in DOMAIN allocs : allocs[i] \in Row
  BY DEF AllocInv
<1>3. hits \subseteq 1 .. Len(allocs) /\ \A k \in hits : k \in DOMAIN allocs /\ allocs[k].addr <= a
  BY <1>2
<1> HIDE DEF hits
<1>4. PICK k \in hits : k = FindAlloc(a)
  BY <1>1, <1>2, <1>3, MaxOfIndices
<1>5. k \in DOMAIN allocs /\ allocs[k] \in Row /\ allocs[k].addr <= a
  BY <1>2, <1>3
<1>6. allocs[k].addr \in Nat
  BY <1>5 DEF Row
<1> QED
  BY <1>4, <1>5, <1>6

\* A looked up field is a place in the vector of fields.
LEMMA FieldPlace ==
  ASSUME TypesInv, NEW n, NEW o \in Nat
  PROVE  ResolveField(n, o) \in Nat
<1>1. CASE FindType(n) = 0
  BY <1>1 DEF ResolveField
<1>2. CASE FindType(n) # 0
  <2> DEFINE fs == types[FindType(n)].fields
  <2>1. fs \in Seq(Field)
    BY <1>2, TypesTyped
  <2>2. ResolveField(n, o) = FieldAt(fs, o)
    BY <1>2, Zenon DEF ResolveField
  <2> HIDE DEF fs
  <2> QED
    BY <2>1, <2>2, BestField
<1> QED
  BY <1>1, <1>2

\* An entry of the report.
Entry == [class: {"GLOBAL", "HEAP", "UNKNOWN"}, type: Nat \cup {Ambiguous}, fields: SUBSET Nat]

\* Whatever the address, the answer is of its type, and so is what is listed of it.
LEMMA AnswerType ==
  ASSUME SymbolInv, Loaded, TypesInv, FunctionsInv, SourceInv, AllocInv, NEW a \in Nat
  PROVE  [class |-> Resolve(a).class, type |-> Resolve(a).type, fields |-> Listed(Resolve(a))] \in Entry
<1> DEFINE x == Resolve(a)
           g == ResolveGlobal(a)
           k == FindAlloc(a)
<1>1. /\ x.class \in {"GLOBAL", "HEAP", "UNKNOWN"} /\ x.type \in Nat \cup {Ambiguous} /\ x.field \in Nat
  <2>1. CASE g.symbol # 0
    <3> DEFINE n == symbols[g.symbol].type
               f == IF n = NoName THEN 0 ELSE ResolveField(n, g.offset)
    <3>1. x = Answer("GLOBAL", n, f)
      BY <2>1, Zenon DEF Resolve
    <3>2. g.symbol \in DOMAIN symbols /\ g.offset \in Nat
      BY <2>1, GlobalType
    <3>3. n \in Nat
      BY <3>2, SymbolsTyped
    <3>4. f \in Nat
      BY <3>2, FieldPlace
    <3> HIDE DEF n, f, x
    <3> QED
      BY <3>1, <3>3, <3>4 DEF Answer
  <2>2. CASE g.symbol = 0 /\ k # 0
    <3> DEFINE inferred == InferType(allocs[k])
               f == HeapField(inferred, a - allocs[k].addr)
    <3>1. x = Answer("HEAP", inferred.type, f)
      BY <2>2, Zenon DEF Resolve
    <3>2. allocs[k] \in Row /\ a - allocs[k].addr \in Nat
      BY <2>2, FoundBlock
    <3>3. inferred.type \in Nat \cup {Ambiguous}
      BY <3>2, InferTypeType
    <3>4. f \in Nat
      <4> DEFINE o == a - allocs[k].addr
                 t == FindType(inferred.type)
      <4> HIDE DEF inferred, o
      <4>1. t # 0 /\ types[t].size > 0 => o % types[t].size \in Nat
        <5>1. o \in Nat
          BY <3>2 DEF o
        <5>2. t # 0 /\ types[t].size > 0 => types[t].size \in Nat \ {0}
          BY TypesTyped
        <5> QED
          BY <5>1, <5>2, Divided
      <4> QED
        BY <3>2, <4>1, FieldPlace DEF HeapField, o
    <3> HIDE DEF inferred, f, x
    <3> QED
      BY <3>1, <3>3, <3>4 DEF Answer
  <2>3. CASE g.symbol = 0 /\ k = 0
    <3>1. x = Answer("UNKNOWN", NoName, 0)
      BY <2>3, Zenon DEF Resolve
    <3> HIDE DEF x
    <3> QED
      BY <3>1 DEF Answer, NoName
  <2> QED
    BY <2>1, <2>2, <2>3
<1> HIDE DEF x
<1>2. Listed(x) \subseteq Nat
  <2>1. FindType(x.type) # 0 => DOMAIN types[FindType(x.type)].fields \subseteq Nat
    BY TypesTyped
  <2> QED
    BY <1>1, <2>1 DEF Listed
<1>3. [class |-> x.class, type |-> x.type, fields |-> Listed(x)] \in Entry
  BY <1>1, <1>2 DEF Entry
<1> QED
  BY <1>3 DEF x

\* OwnLines, with the address and the row named.
LinesAre ==
  \A i \in DOMAIN out : \A a, r :
    /\ a = csv[i].addr /\ r = Parsed(csv[i])
    /\ csv[i].live /\ csv[i].size > 0 /\ Sharing(i) = {i} /\ ResolveGlobal(a).symbol = 0
    => out[i].class = "HEAP" /\ out[i].type = InferType(r).type

\* Nothing is reported before the file is read; then one entry per row, in its order.
ReportInv ==
  /\ stage \in {"elf", "dwarf", "loaded", "batch"}
  /\ stage # "batch" => out = <<>>
  /\ out \in Seq(Entry) /\ Len(out) <= Len(csv)
  /\ LinesAre

\* Nothing is reported at first.
LEMMA ReportInit == ResolverInit => ReportInv
<1> SUFFICES ASSUME ResolverInit PROVE ReportInv
  OBVIOUS
<1>1. stage = "elf" /\ out = <<>> /\ csv \in Seq(Row)
  BY ResolverAssumption DEF ResolverInit, LoadInit
<1>2. out \in Seq(Entry) /\ Len(out) = 0 /\ Len(csv) \in Nat /\ DOMAIN out = {}
  BY <1>1
<1> QED
  BY <1>1, <1>2 DEF ReportInv, LinesAre

\* Each turn of cmd_batch reports its row, and nothing that earlier entries rest on changes.
LEMMA ReportStep ==
  ASSUME SymbolInv, TypesInv, FunctionsInv, SourceInv, AllocInv, ReportInv, [Next]_vars
  PROVE  ReportInv'
<1>1. CASE BatchRow
  <2> DEFINE m == Len(out)
             r == csv[m + 1]
             answer == Resolve(r.addr)
             e == [class |-> answer.class, type |-> answer.type, fields |-> Listed(answer)]
  <2>1. /\ stage = "batch" /\ m < Len(csv) /\ out' = Append(out, e)
        /\ stage' = stage /\ csv' = csv
        /\ UNCHANGED <<loadVars, source>>
    BY <1>1, Zenon DEF BatchRow, loadVars
  <2>2. /\ \A b : ResolveGlobal(b)' = ResolveGlobal(b)
        /\ \A s : InferType(s)' = InferType(s)
    BY <2>1, SameAnswers
  <2>3. m \in Nat /\ Len(csv) \in Nat /\ DOMAIN csv = 1 .. Len(csv) /\ r \in Row
    BY <2>1 DEF ReportInv, AllocInv
  <2>4. e \in Entry
    <3>1. r.addr \in Nat
      BY <2>3 DEF Row
    <3> QED
      BY <2>1, <3>1, AnswerType, Zenon DEF Loaded
  <2>5. ASSUME r.live, r.size > 0, Sharing(m + 1) = {m + 1}, ResolveGlobal(r.addr).symbol = 0
        PROVE  e.class = "HEAP" /\ e.type = InferType(Parsed(r)).type
    <3>1. FindAlloc(r.addr) # 0 /\ allocs[FindAlloc(r.addr)] = Parsed(r)
      BY <2>1, <2>3, <2>5, OwnBlock
    <3>2. answer = Answer("HEAP", InferType(Parsed(r)).type,
                          HeapField(InferType(Parsed(r)), r.addr - Parsed(r).addr))
      BY <2>5, <3>1, Zenon DEF Resolve
    <3> HIDE DEF answer, r
    <3> QED
      BY <3>2 DEF Answer
  <2> HIDE DEF e
  <2>6. /\ out' \in Seq(Entry) /\ Len(out') = m + 1 /\ DOMAIN out' = 1 .. m + 1
        /\ out'[m + 1] = e /\ \A i \in 1 .. m : out'[i] = out[i]
    BY <2>1, <2>3, <2>4 DEF ReportInv
  <2>7. LinesAre'
    <3> SUFFICES ASSUME NEW i \in DOMAIN out', NEW a, NEW s, a = csv'[i].addr, s = Parsed(csv'[i]),
                        csv'[i].live, csv'[i].size > 0, Sharing(i)' = {i}, ResolveGlobal(a)'.symbol = 0
                 PROVE  out'[i].class = "HEAP" /\ out'[i].type = InferType(s)'.type
      BY Zenon DEF LinesAre
    <3>0. /\ i \in 1 .. m + 1 /\ a = csv[i].addr /\ s = Parsed(csv[i])
          /\ csv[i].live /\ csv[i].size > 0 /\ Sharing(i) = {i}
      <4>1. Sharing(i)' = Sharing(i)
        BY <2>1, Zenon DEF Sharing
      <4> QED
        BY <2>1, <2>6, <4>1
    <3>1. ResolveGlobal(a).symbol = 0 /\ InferType(s)' = InferType(s)
      BY <2>2
    <3>2. CASE i = m + 1
      BY <2>5, <2>6, <3>0, <3>1, <3>2
    <3>3. CASE i \in 1 .. m
      <4>1. i \in DOMAIN out
        BY <3>3 DEF ReportInv
      <4>2. out[i].class = "HEAP" /\ out[i].type = InferType(s).type
        <5>1. LinesAre
          BY Zenon DEF ReportInv
        <5>2. \A b, q :
                b = csv[i].addr /\ q = Parsed(csv[i]) /\ csv[i].live /\ csv[i].size > 0
                /\ Sharing(i) = {i} /\ ResolveGlobal(b).symbol = 0
                => out[i].class = "HEAP" /\ out[i].type = InferType(q).type
          BY <5>1, <3>0, <3>1, <4>1, Zenon DEF LinesAre
        <5> QED
          BY <5>2, <3>0, <3>1, <4>1, Zenon
      <4> QED
        BY <2>6, <3>1, <3>3, <4>2
    <3> QED
      BY <2>3, <3>0, <3>2, <3>3
  <2> QED
    BY <2>1, <2>3, <2>6, <2>7 DEF ReportInv
<1>2. CASE ~BatchRow
  <2>1. /\ csv' = csv /\ out' = out /\ stage' \in {"elf", "dwarf", "loaded", "batch"}
        /\ stage = "batch" => stage' = "batch"
        /\ stage = "batch" => UNCHANGED vars
    BY <1>2 DEF ReportInv, Next, LoadBinary, LoadStep, ReadElfSymbol, SortElf, ReadVariable, ReadType,
                ReadFunction, FinishLoad, Visit, LoadCsv, vars, loadVars, resolverVars
  <2>2. LinesAre'
    <3>1. CASE stage # "batch"
      <4>1. DOMAIN out' = {}
        BY <2>1, <3>1 DEF ReportInv
      <4> QED
        BY <4>1 DEF LinesAre
    <3>2. CASE stage = "batch"
      <4>1. csv' = csv /\ out' = out /\ UNCHANGED <<loadVars, source>>
        BY <2>1, <3>2, Zenon DEF vars, resolverVars
      <4>2. (\A b : ResolveGlobal(b)' = ResolveGlobal(b)) /\ \A s : InferType(s)' = InferType(s)
        BY <4>1, SameAnswers
      <4> SUFFICES ASSUME NEW i \in DOMAIN out', NEW a, NEW s, a = csv'[i].addr, s = Parsed(csv'[i]),
                          csv'[i].live, csv'[i].size > 0, Sharing(i)' = {i}, ResolveGlobal(a)'.symbol = 0
                   PROVE  out'[i].class = "HEAP" /\ out'[i].type = InferType(s)'.type
        BY Zenon DEF LinesAre
      <4>3. Sharing(i)' = Sharing(i)
        BY <4>1, Zenon DEF Sharing
      <4>4. /\ i \in DOMAIN out /\ a = csv[i].addr /\ s = Parsed(csv[i])
            /\ csv[i].live /\ csv[i].size > 0 /\ Sharing(i) = {i} /\ ResolveGlobal(a).symbol = 0
        BY <4>1, <4>2, <4>3
      <4>5. out[i].class = "HEAP" /\ out[i].type = InferType(s).type
        <5>0. i \in DOMAIN out
          BY <4>4
        <5>1. LinesAre
          BY Zenon DEF ReportInv
        <5>2. \A b, q :
                b = csv[i].addr /\ q = Parsed(csv[i]) /\ csv[i].live /\ csv[i].size > 0
                /\ Sharing(i) = {i} /\ ResolveGlobal(b).symbol = 0
                => out[i].class = "HEAP" /\ out[i].type = InferType(q).type
          BY <5>0, <5>1, Zenon DEF LinesAre
        <5> QED
          BY <5>2, <4>4, Zenon
      <4> QED
        BY <4>1, <4>2, <4>5
    <3> QED
      BY <3>1, <3>2
  <2> QED
    BY <2>1, <2>2 DEF ReportInv
<1> QED
  BY <1>1, <1>2

\* The invariant of the report.
LEMMA ReportInvariant == Spec => []ReportInv
<1>1. Spec => [](SymbolInv /\ TypesInv /\ FunctionsInv /\ SourceInv)
  BY SymbolInvariant, TablesInvariant, SourceInvariant, PTL
<1>2. ResolverInit => AllocInv /\ ReportInv
  BY AllocInit, ReportInit
<1>3. AllocInv /\ [Next]_vars => AllocInv'
  BY AllocStep
<1>4. SymbolInv /\ TypesInv /\ FunctionsInv /\ SourceInv /\ AllocInv /\ ReportInv /\ [Next]_vars
      => ReportInv'
  BY ReportStep
<1> QED
  BY <1>1, <1>2, <1>3, <1>4, PTL DEF Spec

(***************************************************************************)
(* Each entry of the report is that of its own row of the file, though the *)
(* rows are looked up in a sorted copy (main.cpp:162-262).                 *)
(***************************************************************************)
THEOREM LinesAreOwn == Spec => []OwnLines
<1>1. ReportInv => OwnLines
  <2> SUFFICES ASSUME LinesAre, NEW i \in DOMAIN out,
                      csv[i].live, csv[i].size > 0, Sharing(i) = {i}, ResolveGlobal(csv[i].addr).symbol = 0
               PROVE  out[i].class = "HEAP" /\ out[i].type = InferType(Parsed(csv[i])).type
    BY Zenon DEF ReportInv, OwnLines
  <2>1. \A b, q :
          b = csv[i].addr /\ q = Parsed(csv[i]) /\ csv[i].live /\ csv[i].size > 0
          /\ Sharing(i) = {i} /\ ResolveGlobal(b).symbol = 0
          => out[i].class = "HEAP" /\ out[i].type = InferType(q).type
    BY Zenon DEF LinesAre
  <2> QED
    BY <2>1, Zenon
<1> QED
  BY <1>1, ReportInvariant, PTL

(***************************************************************************)
(* The index by address.                                                   *)
(***************************************************************************)
\* It leads into the vector, also while both grow and after each sort.
IndexInv ==
  /\ file \in Binaries
  /\ DOMAIN addrIndex \subseteq Nat
  /\ \A a \in DOMAIN addrIndex : addrIndex[a] \in DOMAIN symbols

\* One more symbol is indexed at its own place.
LEMMA AddSymbolIndexed ==
  ASSUME IndexInv, symbols \in Seq(Symbol), NEW s \in Symbol, AddSymbol(s)
  PROVE  DOMAIN addrIndex' \subseteq Nat /\ \A a \in DOMAIN addrIndex' : addrIndex'[a] \in DOMAIN symbols'
<1> DEFINE n == Len(symbols)
<1>1. /\ n \in Nat /\ DOMAIN symbols = 1 .. n /\ DOMAIN symbols' = 1 .. n + 1
  BY DEF AddSymbol
<1>2. s.address \in Nat
  BY DEF Symbol
<1>3. addrIndex' = [x \in DOMAIN addrIndex \cup {s.address} |->
                      IF x = s.address THEN n + 1 ELSE addrIndex[x]]
  BY DEF AddSymbol, Put
<1>4. \A a \in DOMAIN addrIndex : addrIndex[a] \in 1 .. n
  BY <1>1 DEF IndexInv
<1> HIDE DEF n
<1> QED
  BY <1>1, <1>2, <1>3, <1>4 DEF IndexInv

\* The loop over a vector indexes places of it.
LEMMA IndexPlaces ==
  ASSUME NEW s \in Seq(Symbol)
  PROVE  DOMAIN IndexOf(s) \subseteq Nat /\ \A a \in DOMAIN IndexOf(s) : IndexOf(s)[a] \in DOMAIN s
<1>1. PICK n \in Nat : DOMAIN s = 1 .. n
  OBVIOUS
<1>2. \A i \in DOMAIN s : s[i].address \in Nat
  <2>1. \A i \in DOMAIN s : s[i] \in Symbol
    OBVIOUS
  <2> QED
    BY <2>1 DEF Symbol
<1>3. DOMAIN IndexOf(s) = {s[i].address : i \in DOMAIN s}
  BY DEF IndexOf
<1>4. ASSUME NEW a \in DOMAIN IndexOf(s) PROVE IndexOf(s)[a] \in DOMAIN s
  <2> DEFINE S == {i \in DOMAIN s : s[i].address = a}
  <2>1. IndexOf(s)[a] = Max(S)
    BY <1>3, <1>4 DEF IndexOf
  <2>2. S \subseteq 1 .. n /\ S # {}
    BY <1>1, <1>3, <1>4
  <2> HIDE DEF S
  <2>3. Max(S) \in S
    BY <2>2, MaxOfIndices
  <2> QED
    BY <1>1, <2>1, <2>2, <2>3
<1> QED
  BY <1>2, <1>3, <1>4

\* Every step keeps the index inside the vector.
LEMMA IndexStep ==
  ASSUME SymbolInv, SymbolInv', IndexInv, [Next]_vars
  PROVE  IndexInv'
<1>1. symbols \in Seq(Symbol) /\ symbols' \in Seq(Symbol) /\ file \in Binary /\ entries \in Nat
  BY DEF SymbolInv
<1>2. CASE ReadElfSymbol \/ ReadVariable
  <2>1. file' = file
    BY <1>2 DEF ReadElfSymbol, ReadVariable, Visit
  <2>2. \/ UNCHANGED symbolTable
        \/ \E s \in Symbol : AddSymbol(s)
    <3>1. CASE ReadElfSymbol
      <4> DEFINE s == file.elf[entries + 1]
                 e == [name |-> s.name, address |-> s.address, size |-> s.size,
                       kind |-> s.kind, type |-> NoName]
      <4>1. s \in ElfSymbol
        BY <1>1, <3>1 DEF ReadElfSymbol, Binary
      <4>2. e \in Symbol
        BY <4>1 DEF ElfSymbol, Symbol, NoName
      <4>3. UNCHANGED symbolTable \/ AddSymbol(e)
        BY <3>1, Zenon DEF ReadElfSymbol
      <4> QED
        BY <4>2, <4>3, Zenon
    <3>2. CASE ReadVariable
      <4> DEFINE d == file.dies[entries + 1]
                 e == [name |-> d.name, address |-> d.address, size |-> d.size,
                       kind |-> "OBJECT", type |-> d.type]
      <4>1. d \in VariableDie
        BY <1>1, <3>2 DEF ReadVariable, Visit, Binary, VariableDie, TypeDie, FunctionDie
      <4>2. e \in Symbol
        BY <4>1 DEF VariableDie, Symbol
      <4>3. UNCHANGED symbolTable \/ AddSymbol(e)
        BY <3>2, Zenon DEF ReadVariable
      <4> QED
        BY <4>2, <4>3, Zenon
    <3> QED
      BY <1>2, <3>1, <3>2
  <2>3. CASE UNCHANGED symbolTable
    BY <2>1, <2>3 DEF IndexInv, symbolTable
  <2>4. CASE \E s \in Symbol : AddSymbol(s)
    <3>1. DOMAIN addrIndex' \subseteq Nat /\ \A a \in DOMAIN addrIndex' : addrIndex'[a] \in DOMAIN symbols'
      BY <1>1, <2>4, AddSymbolIndexed
    <3> QED
      BY <2>1, <3>1 DEF IndexInv
  <2> QED
    BY <2>2, <2>3, <2>4
<1>3. CASE SortElf \/ FinishLoad
  <2>1. file' = file /\ addrIndex' = IndexOf(symbols')
    BY <1>3 DEF SortElf, FinishLoad
  <2>2. DOMAIN IndexOf(symbols') \subseteq Nat
        /\ \A a \in DOMAIN IndexOf(symbols') : IndexOf(symbols')[a] \in DOMAIN symbols'
    BY <1>1, IndexPlaces
  <2> QED
    BY <2>1, <2>2 DEF IndexInv
<1>4. CASE ReadType \/ ReadFunction \/ LoadCsv \/ BatchRow \/ UNCHANGED vars
  <2>1. file' = file /\ addrIndex' = addrIndex /\ symbols' = symbols
    BY <1>4 DEF ReadType, ReadFunction, Visit, LoadCsv, BatchRow, vars, loadVars, symbolTable
  <2> QED
    BY <2>1 DEF IndexInv
<1> QED
  BY <1>2, <1>3, <1>4 DEF Next, LoadBinary, LoadStep

(***************************************************************************)
(* The tables, the copy of the file and the report have their types, and   *)
(* every index leads into its table.                                       *)
(***************************************************************************)
THEOREM ResolverTyped == Spec => []TypeOK
<1>1. ResolverInit => IndexInv
  BY DEF ResolverInit, LoadInit, IndexInv, NoEntries
<1>2. SymbolInv /\ SymbolInv' /\ IndexInv /\ [Next]_vars => IndexInv'
  BY IndexStep
<1>3. Spec => []IndexInv
  BY <1>1, <1>2, SymbolInvariant, PTL DEF Spec
<1>4. AllocInv /\ [Next]_vars => AllocInv'
  BY AllocStep
<1>5. Spec => []AllocInv
  BY <1>4, AllocInit, PTL DEF Spec
<1>6. SymbolInv /\ TypesInv /\ FunctionsInv /\ IndexInv /\ AllocInv /\ ReportInv => TypeOK
  BY DEF SymbolInv, TypesInv, FunctionsInv, IndexInv, AllocInv, ReportInv, Entry, LoadTypeOK, TypeOK
<1> QED
  BY <1>3, <1>5, <1>6, SymbolInvariant, TablesInvariant, ReportInvariant, PTL
==============================================================================
