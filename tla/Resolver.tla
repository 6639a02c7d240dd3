------------------------------- MODULE Resolver -------------------------------
(***************************************************************************)
(* memscope-resolver (address_resolver.cpp, resolver/main.cpp): it loads a *)
(* binary, reads the collector's CSV file and, in batch mode, reports each *)
(* row of it.  An address is looked up among the globals, then among the   *)
(* live blocks; the type of a block is inferred from its call stack, then  *)
(* from its size.                                                          *)
(*                                                                         *)
(* Runtime addresses carry the load offset of a position-independent       *)
(* binary, which the resolver is not told: it guesses.                     *)
(***************************************************************************)
EXTENDS DwarfAnalyzer, FiniteSets

CONSTANTS Inputs,          \* [file, csv, source]: what may be given to the program
          AllocatorNames,  \* skip_names
          PageSize,        \* 0x1000
          LowVa,           \* below: a compile-time address (0x100000)
          HighVa,          \* from here on: a library (0x7f0000000000)
          MinSlide,        \* the least load offset considered (0x1000000)
          MaxSlide,        \* and the largest (0x1000000000000)
          MinElem,         \* smallest element guessed by array size (8)
          MaxElems,        \* most elements guessed (100000)
          Slide            \* where the binary was loaded: known to the properties only

\* A row of the CSV file that load_csv accepts: a line of fewer than five fields is skipped
\* (main.cpp:75), one of fewer than nine has no pcs.  Rows may overlap: the collector can
\* miss a free.
Row == [addr: Nat, size: Nat, live: BOOLEAN, pcs: Seq(Nat)]

\* What the source line of a compile-time address says: the types named in its malloc,
\* calloc and realloc expressions.
SourceLine == [malloc: SUBSET Names, calloc: SUBSET Names, realloc: SUBSET Names]

ASSUME ResolverAssumption ==
  /\ \A i \in Inputs : i.csv \in Seq(Row) /\ \A a \in DOMAIN i.source : i.source[a] \in SourceLine
  /\ Binaries = {i.file : i \in Inputs}
  /\ AllocatorNames \subseteq Names
  /\ {PageSize, LowVa, HighVa, MinSlide, MaxSlide, MinElem, MaxElems} \subseteq Nat \ {0}
  /\ Slide \in MinSlide .. MaxSlide - 1 /\ Slide % PageSize = 0

VARIABLES csv,     \* the file to read
          source,  \* addr2line and the source files
          allocs,  \* allocs_
          out      \* the batch report: one entry per row of the file

resolverVars == <<csv, source, allocs, out>>
vars == <<loadVars, resolverVars>>

ResolverInit ==
  /\ LoadInit
  /\ \E i \in Inputs : file = i.file /\ csv = i.csv /\ source = i.source
  /\ allocs = <<>> /\ out = <<>>

PageOf(a) == a - (a % PageSize)
InPage(page, a) == page + (a % PageSize)
------------------------------------------------------------------------------
(***************************************************************************)
(* Where the binary lies.                                                  *)
(***************************************************************************)
\* detect_binary_ranges: the one range, end excluded; empty when nothing has an address.
BinaryRange ==
  LET code == {i \in DOMAIN functions : functions[i].low # 0 /\ functions[i].low < functions[i].high}
      starts == {functions[i].low : i \in code} \cup {symbols[i].address : i \in DOMAIN symbols}
      ends == {functions[i].high : i \in code}
                \cup {symbols[i].address + Max({symbols[i].size, 1}) : i \in DOMAIN symbols}
  IN IF starts = {} THEN [start |-> 0, end |-> 0] ELSE [start |-> Min(starts), end |-> Max(ends)]

Mapped == BinaryRange.start < BinaryRange.end

\* is_in_target_binary
InTarget(a) ==
  \/ a < LowVa
  \/ a < HighVa /\ Mapped /\ a - BinaryRange.start \in MinSlide .. MaxSlide - 1

\* The compile-time addresses va_to_file_offset accepts for a runtime address.
Placements(va) ==
  {c \in BinaryRange.start .. BinaryRange.end - 1 :
     c % PageSize = va % PageSize /\ va - c \in MinSlide .. MaxSlide - 1}

\* Mutant: the highest page is taken.
FileOffsetLast(va) ==
  IF va < LowVa \/ va >= HighVa \/ Placements(va) = {} THEN va ELSE Max(Placements(va))

\* va_to_file_offset: the lowest page that fits.
FileOffset(va) ==
  IF va < LowVa \/ va >= HighVa \/ Placements(va) = {} THEN va ELSE Min(Placements(va))
------------------------------------------------------------------------------
(***************************************************************************)
(* Globals.                                                                *)
(***************************************************************************)
\* Does the first page of the object have the address's place in a page, inside the object?
Votes(s, a) ==
  LET c == InPage(PageOf(s.address), a) IN
  /\ s.kind = "OBJECT"
  /\ s.address <= c
  /\ s.size > 0 => c < End(s)
  /\ a - c \in MinSlide .. MaxSlide

\* compute_aslr_from_global_addr: each object votes for one offset; the most votes win,
\* then the smaller offset.
GuessSlide(a) ==
  LET voters == {i \in DOMAIN symbols : Votes(symbols[i], a)}
      SlideOf(i) == a - InPage(PageOf(symbols[i].address), a)
      Support(s) == Cardinality({i \in voters : SlideOf(i) = s})
      slides == {SlideOf(i) : i \in voters}
      best == {s \in slides : \A t \in slides : Support(t) <= Support(s)}
  IN IF voters = {} THEN 0 ELSE Min(best)

\* Mutant: the symbol is looked up at the runtime address.
ResolveGlobalUnslid(a) ==
  LET direct == FindSymbol(a)
      slide == IF direct # 0 THEN 0 ELSE GuessSlide(a)
      k == FindSymbol(a)
  IN [symbol |-> k, offset |-> IF k = 0 THEN 0 ELSE a - slide - symbols[k].address]

\* resolve_global: by the address itself, else without the guessed offset.
ResolveGlobal(a) ==
  LET direct == FindSymbol(a)
      slide == IF direct # 0 THEN 0 ELSE GuessSlide(a)
      k == IF slide = 0 THEN direct ELSE FindSymbol(a - slide)
  IN [symbol |-> k, offset |-> IF k = 0 THEN 0 ELSE a - slide - symbols[k].address]
------------------------------------------------------------------------------
(***************************************************************************)
(* Blocks and their types.                                                 *)
(***************************************************************************)
Contains(r, a) == r.addr <= a /\ a < r.addr + r.size
StopsAt(r, a) == r.addr + r.size <= a

\* Mutant: a dead row that contains the address ends the search.
FindAllocFirst(a) ==
  LET below == {j \in DOMAIN allocs : allocs[j].addr <= a}
      hits == {k \in below : /\ Contains(allocs[k], a)
                             /\ \A j \in below : j > k => ~Contains(allocs[j], a) /\ ~StopsAt(allocs[j], a)}
  IN IF hits = {} \/ ~allocs[Max(hits)].live THEN 0 ELSE Max(hits)

\* find_alloc: from the last row that starts at or below the address downwards, to the first
\* live one that contains it; a row that ends at or below the address ends the search.
FindAlloc(a) ==
  LET below == {j \in DOMAIN allocs : allocs[j].addr <= a}
      hits == {k \in below : /\ allocs[k].live /\ Contains(allocs[k], a)
                             /\ \A j \in below : j > k => ~StopsAt(allocs[j], a)}
  IN IF hits = {} THEN 0 ELSE Max(hits)

\* "T (ambiguous)", a name no type has.
Ambiguous == -1

Inferred(n, c) == [type |-> n, count |-> c]

\* The block is an array when the size of the type divides its own.
Counted(n, size) ==
  LET t == FindType(n) IN
  Inferred(n, IF t # 0 /\ types[t].size > 0 /\ size % types[t].size = 0
              THEN size \div types[t].size ELSE 1)

\* build_size_index and get_size_candidates: entries of the type table, in its order.
SizeCandidates(size) ==
  {t \in DOMAIN types : types[t].size = size /\ size > 0 /\ types[t].fields # <<>>}

\* One name of several: those of the block's size first, then the least.
Choose(names, size) ==
  LET fit == names \cap {types[t].name : t \in SizeCandidates(size)} IN
  Min(IF fit # {} THEN fit ELSE names)

\* The count is left at 1 when the choice was between several equals.
ChooseAtCall(names, size) ==
  LET fit == names \cap {types[t].name : t \in SizeCandidates(size)} IN
  IF Cardinality(names) = 1 \/ Cardinality(fit) = 1 THEN Counted(Choose(names, size), size)
  ELSE Inferred(Choose(names, size), 1)

\* extract_type_from_source; its confidence is always above the threshold of the caller.
SourceType(f) ==
  IF f \notin DOMAIN source THEN NoName
  ELSE LET l == source[f] IN
       IF l.malloc # {} THEN Min(l.malloc)
       ELSE IF l.calloc # {} THEN Min(l.calloc)
       ELSE IF l.realloc # {} THEN Min(l.realloc) ELSE NoName

CallSite(pc) == FileOffset(pc - 1)

\* The frames whose call tells a type; frame 1 is in the allocator.
TellingFrames(pcs) ==
  {i \in 2 .. Len(pcs) : /\ InTarget(pcs[i] - 1)
                         /\ \/ SourceType(CallSite(pcs[i])) # NoName
                            \/ PointerTargets(CallSite(pcs[i])) # {}}

AtCall(f, size) ==
  IF SourceType(f) # NoName THEN Counted(SourceType(f), size)
  ELSE ChooseAtCall(PointerTargets(f), size)

\* resolve_function_names_from_pcs
FrameNames(pcs) ==
  LET SymbolAt(pc) == IF FindSymbol(FileOffset(pc)) # 0 THEN FindSymbol(FileOffset(pc)) ELSE FindSymbol(pc)
  IN {symbols[k].name : k \in {SymbolAt(pcs[i]) : i \in DOMAIN pcs} \ {0}} \ AllocatorNames

\* The types all functions on the stack point to.
StackTargets(pcs) ==
  UNION {functions[f].targets : f \in {FindFunction(n) : n \in FrameNames(pcs)} \ {0}}

\* try_array_size_match
ArrayMatch(size) ==
  LET fits == {t \in DOMAIN types :
                 /\ types[t].fields # <<>> /\ types[t].size >= MinElem
                 /\ size % types[t].size = 0 /\ size \div types[t].size \in 2 .. MaxElems}
  IN IF fits = {} THEN Inferred(NoName, 1)
     ELSE Inferred(IF Cardinality(fits) = 1 THEN types[Min(fits)].name ELSE Ambiguous,
                   size \div types[Min(fits)].size)

BySize(size) ==
  IF SizeCandidates(size) # {} THEN Inferred(types[Min(SizeCandidates(size))].name, 1)
  ELSE ArrayMatch(size)

\* infer_type_combined_v2: the innermost frame that tells, then the functions of the stack,
\* then the size.
InferType(r) ==
  IF TellingFrames(r.pcs) # {} THEN AtCall(CallSite(r.pcs[Min(TellingFrames(r.pcs))]), r.size)
  ELSE IF StackTargets(r.pcs) # {} THEN Counted(Choose(StackTargets(r.pcs), r.size), r.size)
  ELSE BySize(r.size)

\* Mutant: the offset is not taken within the element.
HeapFieldFlat(inferred, offset) == ResolveField(inferred.type, offset)

\* resolve_heap: the field at an offset of the block, within the element of an array.
HeapField(inferred, offset) ==
  LET t == FindType(inferred.type) IN
  IF inferred.count > 1 /\ t # 0 /\ types[t].size > 0
  THEN ResolveField(inferred.type, offset % types[t].size)
  ELSE ResolveField(inferred.type, offset)

Answer(class, type, field) == [class |-> class, type |-> type, field |-> field]

\* resolve; no command gives it stack frames, so it never answers STACK.
Resolve(a) ==
  LET g == ResolveGlobal(a)
      k == FindAlloc(a)
  IN IF g.symbol # 0
     THEN LET n == symbols[g.symbol].type IN
          Answer("GLOBAL", n, IF n = NoName THEN 0 ELSE ResolveField(n, g.offset))
     ELSE IF k # 0
     THEN LET inferred == InferType(allocs[k]) IN
          Answer("HEAP", inferred.type, HeapField(inferred, a - allocs[k].addr))
     ELSE Answer("UNKNOWN", NoName, 0)
------------------------------------------------------------------------------
(***************************************************************************)
(* memscope-resolver --batch.                                              *)
(***************************************************************************)
LoadBinary == LoadStep /\ UNCHANGED resolverVars

\* A null entry of the call stack is left out.
Parsed(r) == [r EXCEPT !.pcs = Kept(r.pcs, {i \in DOMAIN r.pcs : r.pcs[i] # 0})]

\* load_csv and set_alloc_table; std::sort compares addresses only.
LoadCsv ==
  /\ stage = "loaded"
  /\ LET rows == [i \in DOMAIN csv |-> Parsed(csv[i])] IN
     \E p \in Bijection(DOMAIN rows, DOMAIN rows) :
       /\ allocs' = [i \in DOMAIN rows |-> rows[p[i]]]
       /\ \A i, j \in DOMAIN rows : i < j => rows[p[i]].addr <= rows[p[j]].addr
  /\ stage' = "batch"
  /\ UNCHANGED <<file, entries, symbolTable, typeTable, functionTable, csv, source, out>>

\* Fields of the answer's type that cmd_batch prints: the one found, else all.
Listed(answer) ==
  IF answer.field # 0 THEN {answer.field}
  ELSE IF FindType(answer.type) = 0 THEN {} ELSE DOMAIN types[FindType(answer.type)].fields

\* Mutant: the sorted copy is walked instead of the file.
BatchSorted ==
  /\ stage = "batch" /\ Len(out) < Len(csv)
  /\ LET answer == Resolve(allocs[Len(out) + 1].addr) IN
     out' = Append(out, [class |-> answer.class, type |-> answer.type, fields |-> Listed(answer)])
  /\ UNCHANGED <<loadVars, csv, source, allocs>>

\* One turn of cmd_batch, over the rows in the order of the file.
BatchRow ==
  /\ stage = "batch" /\ Len(out) < Len(csv)
  /\ LET answer == Resolve(csv[Len(out) + 1].addr) IN
     out' = Append(out, [class |-> answer.class, type |-> answer.type, fields |-> Listed(answer)])
  /\ UNCHANGED <<loadVars, csv, source, allocs>>

Next == LoadBinary \/ LoadCsv \/ BatchRow

Spec == ResolverInit /\ [][Next]_vars
------------------------------------------------------------------------------
TypeOK ==
  /\ LoadTypeOK
  /\ stage \in {"elf", "dwarf", "loaded", "batch"}
  /\ allocs \in Seq(Row)
  /\ out \in Seq([class: {"GLOBAL", "HEAP", "UNKNOWN"}, type: Nat \cup {Ambiguous}, fields: SUBSET Nat])

\* The addresses up to the byte after each symbol, and those of the rows.
SymbolPlaces == UNION {0 .. End(symbols[i]) + 1 : i \in DOMAIN symbols}
RowPlaces == UNION {csv[i].addr .. csv[i].addr + csv[i].size : i \in DOMAIN csv}

\* The answer of find_symbol_by_addr is the nearest symbol (dwarf_analyzer.cpp:683-702).
SymbolExact == Loaded => \A a \in SymbolPlaces : SymbolExactAt(a)

\* The answer of resolve_field_at_offset is the best field (dwarf_analyzer.cpp:721-753).
FieldExact ==
  stage = "loaded" =>
    \A t \in DOMAIN types : \A o \in 0 .. types[t].size : FieldExactAt(types[t].fields, o)

(***************************************************************************)
(* find_alloc answers with a live block that contains the address, the one *)
(* that starts last; and it misses one only when a row that does not       *)
(* contain the address starts inside it below the address, or at its start *)
(* (address_resolver.cpp:86-109).                                          *)
(***************************************************************************)
FindsExact ==
  \A a \in RowPlaces :
    LET k == FindAlloc(a)
        live == {i \in DOMAIN allocs : allocs[i].live /\ Contains(allocs[i], a)}
    IN IF k # 0
       THEN k \in live /\ \A i \in live : allocs[i].addr <= allocs[k].addr
       ELSE \A i \in live : \E j \in DOMAIN allocs :
              /\ ~Contains(allocs[j], a)
              /\ allocs[i].addr <= allocs[j].addr /\ allocs[j].addr <= a

\* OBJECT symbols that start in page p and contain the place of a, or start there.
Covering(p, a) ==
  {i \in DOMAIN symbols :
     LET s == symbols[i] IN
     /\ s.kind = "OBJECT" /\ PageOf(s.address) = p
     /\ s.address <= InPage(p, a) /\ (s.size = 0 \/ InPage(p, a) < End(s))}

(***************************************************************************)
(* The load offset is guessed anew for every address from the symbols'     *)
(* first pages alone (address_resolver.cpp:377-419).  A global of a binary *)
(* loaded at Slide is still resolved to its own symbol and offset when, at *)
(* its place in a page, more objects that start in its page cover it than  *)
(* objects that start in any other page.                                   *)
(***************************************************************************)
GlobalResolved ==
  Loaded =>
    \A i \in DOMAIN symbols : \A c \in symbols[i].address .. End(symbols[i]) - 1 :
      LET a == c + Slide
          pages == {PageOf(symbols[j].address) : j \in DOMAIN symbols}
          mine == Cardinality(Covering(PageOf(c), a))
      IN /\ FindSymbol(a) = 0 /\ mine > 0
         /\ \A p \in pages \ {PageOf(c)} : Cardinality(Covering(p, a)) < mine
         => /\ ResolveGlobal(a).symbol = FindSymbol(c)
            /\ FindSymbol(c) # 0 => ResolveGlobal(a).offset = c - symbols[FindSymbol(c)].address

(***************************************************************************)
(* va_to_file_offset stops at the lowest page that fits (:428-466): for a  *)
(* code address of a binary loaded at Slide it answers with an address at  *)
(* the same place of a page and not above it, and with the address itself  *)
(* within a page of the start of the binary.                               *)
(***************************************************************************)
FileOffsetRight ==
  Loaded =>
    \A i \in DOMAIN functions : \A c \in functions[i].low .. functions[i].high - 1 :
      LET f == FileOffset(c + Slide) IN
      functions[i].low # 0 /\ c + Slide \in LowVa .. HighVa - 1 =>
        /\ f % PageSize = c % PageSize /\ BinaryRange.start <= f /\ f <= c
        /\ c < BinaryRange.start + PageSize => f = c

(***************************************************************************)
(* resolve_heap (:840-884): whatever field is named contains the place the *)
(* address has in its element, or starts there; the places of an array's   *)
(* elements are named alike; and an array fills its block, unless a        *)
(* structure of another size has taken over the name of its type.          *)
(***************************************************************************)
ElementsAlike ==
  stage = "batch" =>
    \A i \in DOMAIN allocs :
      LET r == allocs[i]
          inferred == InferType(r)
          t == FindType(inferred.type)
          size == IF t = 0 THEN 0 ELSE types[t].size
          namesakes == {u \in DOMAIN types : types[u].name = inferred.type /\ types[u].fields # <<>>}
          Named(o) == HeapField(inferred, o)
      IN inferred.count > 1 /\ size > 0 =>
           /\ (\A u \in namesakes : types[u].size = size) => inferred.count * size = r.size
           /\ \A o \in 0 .. r.size - 1 :
                LET f == types[t].fields[Named(o)] IN
                /\ Named(o) # 0 => /\ f.offset <= o % size
                                   /\ f.offset = o % size \/ o % size < f.offset + f.size
                /\ o + size < r.size => Named(o + size) = Named(o)

\* The rows of the file at the address of row i.
Sharing(i) == {j \in DOMAIN csv : csv[j].addr = csv[i].addr}

(***************************************************************************)
(* The report has one entry per row, in the order of the file, though the  *)
(* rows are looked up in a sorted copy: that of a live block which no      *)
(* other row shares, and which no object of the binary claims, is a HEAP   *)
(* entry with the type of its own call stack (main.cpp:162-262).           *)
(***************************************************************************)
OwnLines ==
  \A i \in DOMAIN out :
    LET r == csv[i] IN
    r.live /\ r.size > 0 /\ Sharing(i) = {i} /\ ResolveGlobal(r.addr).symbol = 0
      => out[i].class = "HEAP" /\ out[i].type = InferType(Parsed(r)).type

(***************************************************************************)
(* README.md:11 promises that addresses are classified as global, heap or  *)
(* stack.  A live block of its own is then a HEAP entry.                   *)
(***************************************************************************)
BlocksAreHeap ==
  \A i \in DOMAIN out :
    csv[i].live /\ csv[i].size > 0 /\ Sharing(i) = {i} => out[i].class = "HEAP"

(***************************************************************************)
(* docs/architecture.md:168 says batch mode expands all fields of the      *)
(* type, not only the one at offset 0.                                     *)
(***************************************************************************)
AllFieldsListed ==
  \A i \in DOMAIN out :
    out[i].class = "HEAP" /\ FindType(out[i].type) # 0 =>
      out[i].fields = DOMAIN types[FindType(out[i].type)].fields
==============================================================================
