----------------------------- MODULE DwarfAnalyzer -----------------------------
(***************************************************************************)
(* The tables the resolver builds from a binary (dwarf_analyzer.cpp): the  *)
(* symbols of the ELF symbol tables and of the DWARF variables, in one     *)
(* vector with an index by address; the named types; the functions.        *)
(* load_binary is one step per entry of the file, with its two sorts; the  *)
(* lookups are operators.                                                  *)
(*                                                                         *)
(* libelf and libdw are external: a binary is the sequence of its ELF      *)
(* symbols and the sequence of its DIEs in the order process_die visits    *)
(* them.  Names are numbers, ordered as std::string orders them.           *)
(***************************************************************************)
EXTENDS Integers, Sequences, FiniteSetsExt

CONSTANT Binaries      \* the files that may be given to load_binary

NoName == 0
Names == Nat \ {NoName}

ElfSymbol == [name: Nat, address: Nat, size: Nat, kind: {"FUNC", "OBJECT", "OTHER"}]

\* DW_TAG_variable, with the address of its DW_OP_addr, or 0.
VariableDie == [tag: {"variable"}, name: Nat, address: Nat, size: Nat, type: Nat]

\* A member's place is a byte offset, or a bit offset when bit is not -1; its size is
\* its own attribute, or 0 and the size of its type.
Member == [name: Nat, location: Nat, bit: Nat \cup {-1}, size: Nat, typeSize: Nat]

\* Structures, unions, enumerations, typedefs and base types.
TypeDie == [tag: {"type"}, name: Nat, size: Nat, members: Seq(Member)]

\* DW_TAG_subprogram; linkage is its name for the linker, if it has another; a local's
\* target is the type it points to, if any.
Local == [name: Nat, target: Nat]
FunctionDie ==
  [tag: {"subprogram"}, name: Nat, linkage: Nat, low: Nat, length: Nat, locals: SUBSET Local]

Binary == [elf: Seq(ElfSymbol), dies: Seq(VariableDie \cup TypeDie \cup FunctionDie)]

ASSUME BinariesAssumption == Binaries \subseteq Binary

VARIABLES file,       \* the binary being loaded
          stage,      \* "elf", "dwarf", then "loaded"
          entries,    \* entries of the stage's section read so far
          symbols,    \* symbols_
          addrIndex,  \* symbol_addr_index_
          types,      \* types_
          typeIndex,  \* type_name_index_
          functions,  \* subprograms_
          funcIndex   \* subprogram_name_index_

symbolTable == <<symbols, addrIndex>>
typeTable == <<types, typeIndex>>
functionTable == <<functions, funcIndex>>
loadVars == <<file, stage, entries, symbols, addrIndex, types, typeIndex, functions, funcIndex>>

Symbol == [name: Nat, address: Nat, size: Nat, kind: {"FUNC", "OBJECT", "OTHER"}, type: Nat]
Field == [name: Nat, offset: Nat, size: Nat]
Type == [name: Nat, size: Nat, fields: Seq(Field)]
Function == [name: Nat, low: Nat, high: Nat, targets: SUBSET Nat]

NoEntries == [x \in {} |-> 0]

\* index[key] = value of an unordered_map.
Put(index, key, value) ==
  [x \in DOMAIN index \cup {key} |-> IF x = key THEN value ELSE index[x]]

LoadInit ==
  /\ file \in Binaries
  /\ stage = "elf" /\ entries = 0
  /\ symbols = <<>> /\ addrIndex = NoEntries
  /\ types = <<>> /\ typeIndex = NoEntries
  /\ functions = <<>> /\ funcIndex = NoEntries
------------------------------------------------------------------------------
End(s) == s.address + s.size

\* Mutant: the comparator compares addresses only.
AddressBefore(x, y) == x.address < y.address

\* The comparator of both sorts: by address, then those without a type first.
Before(x, y) ==
  \/ x.address < y.address
  \/ x.address = y.address /\ x.type = NoName /\ y.type # NoName

\* std::sort: any order of the elements in which none is before an earlier one.
SortedFrom(s, t) ==
  /\ \E p \in Bijection(DOMAIN s, DOMAIN s) : t = [i \in DOMAIN s |-> s[p[i]]]
  /\ \A i, j \in DOMAIN t : i < j => ~Before(t[j], t[i])

Orders(s) ==
  {t \in {[i \in DOMAIN s |-> s[p[i]]] : p \in Bijection(DOMAIN s, DOMAIN s)} : SortedFrom(s, t)}

\* Mutant: emplace keeps the first symbol of an address.
FirstAtAddress(s) ==
  [a \in {s[i].address : i \in DOMAIN s} |-> Min({i \in DOMAIN s : s[i].address = a})]

\* The loop that rebuilds the index: the last symbol of an address stays.
IndexOf(s) ==
  [a \in {s[i].address : i \in DOMAIN s} |-> Max({i \in DOMAIN s : s[i].address = a})]

\* Mutant: the index is taken after push_back.
AddSymbolLate(s) ==
  /\ symbols' = Append(symbols, s)
  /\ addrIndex' = Put(addrIndex, s.address, Len(symbols) + 2)

\* Two statements in the code: push_back, then the index.
AddSymbol(s) ==
  /\ symbols' = Append(symbols, s)
  /\ addrIndex' = Put(addrIndex, s.address, Len(symbols) + 1)

\* One entry of .symtab or .dynsym; undefined and nameless ones are skipped.
ReadElfSymbol ==
  /\ stage = "elf" /\ entries < Len(file.elf)
  /\ LET s == file.elf[entries + 1] IN
     IF s.address = 0 \/ s.name = NoName THEN UNCHANGED symbolTable
     ELSE AddSymbol([name |-> s.name, address |-> s.address, size |-> s.size,
                     kind |-> s.kind, type |-> NoName])
  /\ entries' = entries + 1
  /\ UNCHANGED <<file, stage, typeTable, functionTable>>

\* The end of parse_symbol_table: sorted and indexed a first time.
SortElf ==
  /\ stage = "elf" /\ entries = Len(file.elf)
  /\ symbols' \in Orders(symbols)
  /\ addrIndex' = IndexOf(symbols')
  /\ stage' = "dwarf" /\ entries' = 0
  /\ UNCHANGED <<file, typeTable, functionTable>>

Visit(tag) ==
  /\ stage = "dwarf" /\ entries < Len(file.dies)
  /\ file.dies[entries + 1].tag = tag
  /\ entries' = entries + 1
  /\ UNCHANGED <<file, stage>>

\* process_variable_die: variables with a fixed address.
ReadVariable ==
  /\ Visit("variable")
  /\ LET d == file.dies[entries + 1] IN
     IF d.address = 0 \/ d.name = NoName THEN UNCHANGED symbolTable
     ELSE AddSymbol([name |-> d.name, address |-> d.address, size |-> d.size,
                     kind |-> "OBJECT", type |-> d.type])
  /\ UNCHANGED <<typeTable, functionTable>>

\* process_member_die.
FieldOf(m) ==
  [name |-> m.name,
   offset |-> IF m.bit # -1 THEN m.bit \div 8 ELSE m.location,
   size |-> IF m.size # 0 THEN m.size ELSE m.typeSize]

\* A loop over s that pushes back the elements at the places in keep.
Kept(s, keep) ==
  LET Upto[i \in 0 .. Len(s)] ==
        IF i = 0 THEN <<>> ELSE IF i \in keep THEN Append(Upto[i - 1], s[i]) ELSE Upto[i - 1]
  IN Upto[Len(s)]

\* process_type_die: anonymous types and members are skipped, a name seen before is taken over.
ReadType ==
  /\ Visit("type")
  /\ LET d == file.dies[entries + 1]
         named == Kept(d.members, {i \in DOMAIN d.members : d.members[i].name # NoName})
     IN IF d.name = NoName THEN UNCHANGED typeTable
        ELSE /\ types' = Append(types, [name |-> d.name, size |-> d.size,
                                        fields |-> [i \in DOMAIN named |-> FieldOf(named[i])]])
             /\ typeIndex' = Put(typeIndex, d.name, Len(types) + 1)
  /\ UNCHANGED <<symbolTable, functionTable>>

\* process_subprogram_die: declarations too, with an empty range.
ReadFunction ==
  /\ Visit("subprogram")
  /\ LET d == file.dies[entries + 1] IN
     /\ functions' = Append(functions,
          [name |-> d.name, low |-> d.low, high |-> d.low + d.length,
           targets |-> {l.target : l \in {v \in d.locals : v.name # NoName}} \ {NoName}])
     /\ LET index == Put(funcIndex, d.name, Len(functions) + 1) IN
        funcIndex' = IF d.linkage = NoName THEN index ELSE Put(index, d.linkage, Len(functions) + 1)
  /\ UNCHANGED <<symbolTable, typeTable>>

\* Mutant: the index built before the sort is kept.
FinishStale ==
  /\ stage = "dwarf" /\ entries = Len(file.dies)
  /\ symbols' \in Orders(symbols)
  /\ stage' = "loaded"
  /\ UNCHANGED <<file, entries, addrIndex, typeTable, functionTable>>

\* The end of load_binary: sorted and indexed again.
FinishLoad ==
  /\ stage = "dwarf" /\ entries = Len(file.dies)
  /\ symbols' \in Orders(symbols)
  /\ addrIndex' = IndexOf(symbols')
  /\ stage' = "loaded"
  /\ UNCHANGED <<file, entries, typeTable, functionTable>>

LoadStep ==
  ReadElfSymbol \/ SortElf \/ ReadVariable \/ ReadType \/ ReadFunction \/ FinishLoad
------------------------------------------------------------------------------
(***************************************************************************)
(* Lookups.  They return an index, 0 when there is none.                   *)
(***************************************************************************)
\* Mutant: the end of the symbol belongs to it.
FindSymbolPastEnd(a) ==
  IF a \in DOMAIN addrIndex THEN addrIndex[a]
  ELSE LET upTo == {i \in DOMAIN symbols : symbols[i].address <= a} IN
       IF upTo # {} /\ a <= End(symbols[Max(upTo)]) THEN Max(upTo) ELSE 0

\* find_symbol_by_addr: the index, else the element before std::upper_bound.
FindSymbol(a) ==
  IF a \in DOMAIN addrIndex THEN addrIndex[a]
  ELSE LET upTo == {i \in DOMAIN symbols : symbols[i].address <= a} IN
       IF upTo # {} /\ a < End(symbols[Max(upTo)]) THEN Max(upTo) ELSE 0

\* find_type_by_name
FindType(n) == IF n \in DOMAIN typeIndex THEN typeIndex[n] ELSE 0

\* find_subprogram_by_name
FindFunction(n) == IF n \in DOMAIN funcIndex THEN funcIndex[n] ELSE 0

\* Mutant: the first field that contains the offset.
FirstField(fields, off) ==
  LET hits == {i \in DOMAIN fields :
                 fields[i].offset <= off /\ off < fields[i].offset + fields[i].size} IN
  IF hits = {} THEN 0 ELSE Min(hits)

\* One turn of the loop of resolve_field_at_offset, at field i.
Consider(fields, off, i, s) ==
  LET f == fields[i]
      exact == off = f.offset /\ (s.best = 0 \/ f.size > fields[s.best].size)
      t == IF exact THEN [best |-> i, dist |-> 0] ELSE s
  IN IF f.offset <= off /\ off < f.offset + f.size /\ off - f.offset < t.dist
     THEN [best |-> i, dist |-> off - f.offset] ELSE t

\* The loop: after i fields the best one and its distance, at first none and one greater
\* than any.
FieldScan(fields, off) ==
  LET Scan[i \in 0 .. Len(fields)] ==
        IF i = 0 THEN [best |-> 0, dist |-> off + 1] ELSE Consider(fields, off, i, Scan[i - 1])
  IN Scan

FieldAt(fields, off) == FieldScan(fields, off)[Len(fields)].best

\* resolve_field_at_offset, by the type's name.
ResolveField(n, off) == IF FindType(n) = 0 THEN 0 ELSE FieldAt(types[FindType(n)].fields, off)

\* find_pointer_target_types_at_pc: of the first function whose range has the address.
PointerTargets(a) ==
  LET here == {i \in DOMAIN functions : functions[i].low <= a /\ a < functions[i].high} IN
  IF here = {} THEN {} ELSE functions[Min(here)].targets
------------------------------------------------------------------------------
Loaded == stage \notin {"elf", "dwarf"}

\* Types, and every index leads into its table.
LoadTypeOK ==
  /\ file \in Binaries /\ entries \in Nat
  /\ symbols \in Seq(Symbol)
  /\ DOMAIN addrIndex \subseteq Nat /\ \A a \in DOMAIN addrIndex : addrIndex[a] \in DOMAIN symbols
  /\ types \in Seq(Type)
  /\ DOMAIN typeIndex \subseteq Nat /\ \A n \in DOMAIN typeIndex : typeIndex[n] \in DOMAIN types
  /\ functions \in Seq(Function)
  /\ DOMAIN funcIndex \subseteq Nat /\ \A n \in DOMAIN funcIndex : funcIndex[n] \in DOMAIN functions

(***************************************************************************)
(* Although the vector is sorted twice, unstably, after entries were       *)
(* indexed (dwarf_analyzer.cpp:84-93, 148-157), the loaded index covers    *)
(* every address and leads to a symbol of that address, and to one with a  *)
(* type when the address has one: an ELF twin never hides a DWARF variable.*)
(***************************************************************************)
AddrIndexExact ==
  Loaded =>
    /\ DOMAIN addrIndex = {symbols[i].address : i \in DOMAIN symbols}
    /\ \A i \in DOMAIN symbols :
         LET k == addrIndex[symbols[i].address] IN
         /\ symbols[k].address = symbols[i].address
         /\ symbols[i].type # NoName => symbols[k].type # NoName

\* A symbol starts in s.address+1 .. a.
StartsAfter(s, a) ==
  \E i \in DOMAIN symbols : s.address < symbols[i].address /\ symbols[i].address <= a

(***************************************************************************)
(* find_symbol_by_addr answers with the symbol nearest below the address,  *)
(* which contains it or starts there; and a DWARF variable that contains   *)
(* the address is missed only when another symbol starts inside it, or     *)
(* a typed twin of other size at its own address is in its place.          *)
(***************************************************************************)
SymbolExactAt(a) ==
  LET k == FindSymbol(a) IN
  /\ k # 0 => /\ symbols[k].address <= a /\ ~StartsAfter(symbols[k], a)
              /\ a = symbols[k].address \/ a < End(symbols[k])
  /\ \A i \in DOMAIN symbols :
       symbols[i].type # NoName /\ symbols[i].address <= a /\ a < End(symbols[i]) =>
         \/ StartsAfter(symbols[i], a)
         \/ k # 0 /\ symbols[k].address = symbols[i].address /\ symbols[k].type # NoName
         \/ \E j \in DOMAIN symbols : /\ symbols[j].type # NoName
                                      /\ symbols[j].address = symbols[i].address
                                      /\ a >= End(symbols[j])

(***************************************************************************)
(* resolve_field_at_offset names a field that contains the offset or       *)
(* starts there; none that contains it starts nearer, among those that     *)
(* start there none is larger, and it fails only when there is none.       *)
(***************************************************************************)
FieldExactAt(fields, off) ==
  LET k == FieldAt(fields, off)
      Covers(i) == fields[i].offset <= off /\ off < fields[i].offset + fields[i].size
      Fits(i) == Covers(i) \/ fields[i].offset = off
  IN IF k = 0 THEN \A i \in DOMAIN fields : ~Fits(i)
     ELSE /\ Fits(k)
          /\ \A i \in DOMAIN fields : Covers(i) => fields[i].offset <= fields[k].offset
          /\ \A i \in DOMAIN fields :
               fields[i].offset = off /\ fields[k].offset = off => fields[i].size <= fields[k].size
==============================================================================
