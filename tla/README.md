# Verification of memscope

memscope traces the heap of running programs. BPF programs on libc's allocation functions write
events into a ring buffer; a collector turns them into a table of allocations and writes it to a
CSV file; a resolver later explains addresses with that table and with DWARF debug information.

This directory holds TLA+ models of the tracing half (probes, ring buffer, collector) and of the
resolver, TLC configurations that check them on small instances, and TLAPS proofs of their main
properties for all instances.

    tlc  -workers 2 -config MCAllocTable.cfg MCAllocTable
    tlapm AllocTableProofs.tla

Paths below are relative to the repository (`src/` in `PROJECT.json` is its root).

## 1. The system

| Component | Source | State | Operations |
|---|---|---|---|
| BPF probes | `src/bpf/memscope.bpf.c`, `src/bpf/memscope_common.h` | `pending_*` and `pending_stacks_*` by thread, `active_allocs` and `completed_allocs` by address, the one-element arrays `tmp_stack_buf` and `tmp_evt_buf`, the ring buffer, `stack_traces` | entry and return probes of malloc, calloc, realloc; entry probes of free, mmap, munmap; `on_stack_sample` |
| Allocation table | `src/collector/collector.c:30-242` | `records`, `hash_next`, `hash_buckets`, `count`, `capacity` | init, grow, insert, `find_live_alloc`, `add_alloc_record`, `handle_event` |
| Collector session | `src/collector/collector.c:244-420`, `src/collector/main.c` | BPF object, links, ring buffer, `g_running`, the target's life, the clock | init, start, poll, drain, stop, destroy, CSV dump |
| DWARF analyzer | `src/dwarf/dwarf_analyzer.cpp` | `symbols_`, `types_`, `subprograms_` and their indices by address and name | `load_binary`; lookups by address, name and offset |
| Address resolver | `src/resolver/address_resolver.cpp` | the sorted allocation table, the range of the binary | `find_alloc`, guesses of the load offset, type inference, resolution of an address |
| Resolver commands | `src/resolver/main.cpp` | the rows as read from the file | `load_csv`, `--batch`, printing commands |
| Source analyzer | `src/resolver/source_code_analyzer.cpp` | a cache of source files | finds the types named in an allocation's source line |

How they interact:

- A probe runs on the CPU of the thread that called libc. Entry and return probes of one call meet
  in the `pending_*` maps under the thread's id. All probes of all CPUs share the two scratch buffers.
- A probe copies its finished event into the ring buffer; when it is full the event is dropped and
  nobody is told.
- The collector's only thread calls `ring_buffer__poll`, which calls `handle_event` on each event.
- The CSV file is the only link between the collector and the resolver. It carries what the collector
  believed: rows of missed frees overlap later ones.
- The resolver asks the DWARF analyzer's tables about an address first, then the allocation table; the
  call stack of a row goes back to the analyzer (functions and their pointers) and to the source analyzer.

What is hard here: probes on several CPUs interleave freely and share memory; libc's own step lies
between a call's probes, so an address can be reused while an event about its last block is on its way;
a program may start before, between or after the attachment of the nine probes; every map and the
ring buffer can be full; `alloc_table_grow` can fail half-way; the target may exit, or a signal come,
between any two steps of the poll loop. In the resolver nothing runs concurrently; what is hard is that
tables are indexed before they are sorted, with an unstable sort; that symbols, fields and allocation rows
nest and overlap; and that the load offset of a position-independent binary is never known, but guessed
from the address that is being looked up.

What makes each part correct:

- *Probes*: an event describes one call, its stack and size those of that call; `active_allocs` holds the
  blocks that are allocated, no more and no fewer.
- *Allocation table*: it is a faithful history: an allocation appends a live record or is dropped
  whole, a free closes the newest live record of its address and nothing else, through collisions,
  growths and failing growths; a lookup ends.
- *Pipeline*: once nothing is under way, the live records are the blocks still allocated.
- *Session*: whatever fails, everything is released; a session ended by the target's exit has
  recorded all events that reached the ring; told to stop, it stops.
- *DWARF analyzer*: the loaded index leads to a symbol of the address, to a typed one if there is one;
  a lookup answers with the nearest symbol, a field lookup with the best field.
- *Resolver*: `find_alloc` returns the last live block that contains the address; a global is found through
  the guessed offset whenever its page is recognisable; elements of an array are named alike; the batch
  report gives each row its own answer.

The hazards, each at its line and with the properties aimed at it, are listed in `PROJECT.json`.

## 2. Modules

| Module | What it is |
|---|---|
| `AllocLedger` | abstract specification of the allocation table: an append-only log |
| `AllocTable` | the hash table and `handle_event`, step by step; implements `AllocLedger` |
| `AllocTableProofs` | theorems about `AllocTable` |
| `Probes` | the BPF programs, their maps and buffers, the threads that fire them, libc |
| `ProbesProofs` | theorems about `Probes` on one CPU |
| `HeapProofs` | theorems about `active_allocs` and the heap, on any number of CPUs |
| `MemScope` | `Probes` composed with `handle_event` through the ring buffer |
| `MemScopeProofs` | the events `handle_event` acts on, and the types of the records |
| `LedgerProofs` | the records against the traced heap |
| `Session` | the collector around the event handler: acquire, attach, poll, drain, release |
| `SessionProofs` | theorems about `Session` |
| `DwarfAnalyzer` | the tables `load_binary` builds, entry by entry, with both sorts; the lookups in them |
| `Resolver` | `DwarfAnalyzer` composed with the CSV reader, `find_alloc`, type inference and the batch command |
| `ResolverProofs` | theorems about `DwarfAnalyzer` and `Resolver` |
| `IndexLemmas` | lemmas about greatest and least indices, loops over a vector, division and remainders |
| `MC...` | constants for TLC |

### AllocTable

`records`, `count`, `capacity`, `next` (`hash_next`) and `buckets` (`hash_buckets`) are the C fields;
`recLen` and `nextLen` are the lengths really allocated, which C does not store and which differ from
`capacity` when `alloc_table_grow` fails between its two reallocs. Each event type is an action:
`OnAlloc` (room left), `OnAllocGrow` (growth succeeds), `OnAllocNoRecords` and `OnAllocNoNext` (one of
the two reallocs fails and the event is lost), `OnFree` followed by one `WalkOn`, `WalkHit` or
`WalkMiss` per link of `find_live_alloc`, `OnIgnored`, `OnFiltered` (`--pid`). The hash is any function
into the buckets. Events arrive with any timestamps: a probe reads the clock before it emits
(`memscope.bpf.c:178` and `:212`), so events of several CPUs enter the ring in another order than that of their
times, and nothing in `handle_event` compares times. A record keeps address, process, the two times and `live`; size, thread and stack,
which `handle_event` copies and never reads, are in `MemScope` where a property needs them. The
debug output of `handle_event` and `collector_dump_allocs`, which only prints, are left out.

`ImplementsLedger` instantiates `AllocLedger` on the table's own `records` and `count`; the chains and
the walk are stutters of it. The ledger knows no events: it says that only the newest live record is closed, and
not that it is the right one. `FreesPaired` does. It relates the records to `log`, a history variable that no
action reads: the allocations and frees received so far, each with the record it opened or closed. A free is paired
with the latest allocation of its address that was stored and is not paired yet; the only allocations passed over are
those that a failed growth dropped (`collector.c:153`). So a free closes an older record than its own in that case, and
in no other.

### Probes

Each probe is cut at its accesses to memory that another probe may touch. `pc[t]` names the next one:

    malloc/calloc entry   pend clear walk (deep|flat) copy
    realloc entry         pend clear walk (deep|flat) copy memset header body emit
    their returns         take memset header body stack emit
    free                  untrack delete memset header body emit
    mmap, munmap          memset header body emit

`op[t]` is the call: arguments, result, whether the entry probe ran and whether the kernel hijacked
the return address. `heap`, `LibcAlloc`, `LibcRealloc`, `LibcFree`, `LibcMap` and `Resume` are libc and
the kernel (external). A traced program is well-behaved: it frees and reallocates only blocks it owns,
that no other call in progress is using. It may free or reallocate blocks older than the trace
(`Prior`). `AttachNext` is one turn of the loop in `attach_uprobes`, success or failure.

Abstractions:

- A stack is the call it was taken in, a thread and the number of its call (`CallOf`): what the properties ask is
  *whose* it is, and a stack that a failed call of the same thread left behind is another one. A failed
  `bpf_get_stack` writes nothing (`flat`).
- A CPU runs one probe at a time: `cpu[t]` is the CPU while a probe runs, and `OneCpu` is the machine
  with one. A kernel that lets a uprobe program be preempted can interleave two probes on one CPU as
  well; it then behaves like the model with two CPUs, and `OneCpu`'s theorems do not apply to it.
- Timestamps (events have them in `AllocTable`), stack ids and the padding of events are left out; the address of a mapping is 0
  because it is never a heap block's; sizes are positive.
- The three words of the header are written in one step, as are address and size: every event writes
  all of the header, so cutting it finer adds mixtures of the same two events and no new kind.
- `realloc(NULL, n)`, `realloc(p, 0)` and libc's calls of its own functions are left out.
- `on_stack_sample` is never attached by the collector and has no action.
- `Drain` is a consumer, so that `Probes` can be checked without the collector.

### MemScope

Adds `records` and `HandleEvent`, which takes the oldest event off the ring. The records are those of
`AllocLedger` as a sequence: `AllocTable` shows separately that the C table behaves like it. Failing
growth is therefore only in `AllocTable`. The ring is large enough in these runs that no event is lost: `emit_event`
ignores that the ring is full (`memscope.bpf.c:103`), nobody counts or repairs it, and from then on records and heap
differ. No property covers that hazard; the proofs about the records state `NoDrop` as a hypothesis.

### Session

`pc` follows `main`: `init` (six steps of `collector_init`, each of which may fail and runs its own
error path), `attach`, `loop`, `poll`, `consume`, `polled`, `stop`, `destroy`, `exited`. `drains` is 0 in
the main loop and counts the final polls otherwise. A signal clears `running`, and makes a poll that is
waiting return an error. Events are reduced to the process they come from; the ring is bounded and
drops events when full. Once the first link exists every process may cause events, also those that
are not the target, since programs are attached with pid -1. Option parsing, `find_libc_path`,
verbosity and the text printed are left out; the CSV file is one step that may fail to open.

### DwarfAnalyzer

A binary is the sequence of its ELF symbols and the sequence of its DIEs in the order `process_die` visits
them: libelf and libdw are external, what they decode is the input. `ReadElfSymbol`, `ReadVariable`, `ReadType`
and `ReadFunction` are one entry each, with the code's skips; `SortElf` and `FinishLoad` are the two `std::sort`
calls with the index rebuilt after them. `std::sort` is not stable: `Orders` is the set of *all* orders
the comparator allows. An `unordered_map` is a function from keys to positions, assigned with `Put`. Names
are numbers in the order of `std::string`; `NoName` is the empty string. `FindSymbol`, `FieldAt` and the other
lookups are operators that return a position, 0 for `nullptr`. The loop of `resolve_field_at_offset` is the recursive
function `FieldScan`, one application of `Consider` per field; `Kept` is a loop that pushes back some elements of a
vector. It is written out, where `SelectSeq` would do for TLC, because the proofs need to look into it.

### Resolver

`LoadCsv` is `load_csv` and `set_alloc_table`: null frames are dropped, and the copy is sorted by address,
equal addresses in any order. `csv` holds the lines `load_csv` accepts: a malformed line, with fewer than five
fields, is skipped before anything sees it, and one with five to eight has no frames. `BatchRow` is one turn of `cmd_batch`, over the rows in *file* order, each looked
up in the sorted copy. `Resolve` is `resolve`: `ResolveGlobal` first (by the address, then without the offset
`GuessSlide` votes for), then `FindAlloc` and `InferType`, which is the cascade of `infer_type_combined_v2`.
`va_to_file_offset` and `is_in_target_binary` translate the frames of the stack.

Abstractions:

- What the source analyzer finds in a line is an input (`source`): the types named in its `malloc`, `calloc` and
  `realloc` expressions. Regular expressions, `addr2line` and the file cache are external.
- `Slide`, where the binary was really loaded, is known to the properties only, never to the model of the code.
- The resolver's statistics, confidence scores and evidence texts are left out: no answer depends on them.
- A tie between equally sized types of one name set is broken by the least name, as the `std::set` does.
- No command passes stack frames to `resolve` and no stack map is ever set, so the stack class has no action.

## 3. Runs

| Run | Question | Bounds | Result |
|---|---|---|---|
| `alloc_table` | Does the hash table implement the ledger? Is each free paired with the right allocation? | 3 addresses, two in one bucket; 2 processes, one recorded; 2 timestamps in any order; initial capacity 1; 4 allocations and frees | passes, 112 000 states |
| `probes_one_cpu` | Are events, with their sizes and stacks, exact on one CPU, also while programs attach? | 2 threads, 2 and 1 calls, 2 addresses, 2 sizes, every map with room for 1, realloc's return and the programs after it attach while the calls are made | passes, 3.8 M states |
| `probes_two_cpus` | Is `active_allocs` exact on two CPUs? | 2 threads, 2 calls each, 2 addresses, 2 sizes, an older block, maps large enough | passes, 533 000 states |
| `probes_mixed_event` | Are events exact on two CPUs? | 2 threads, malloc and free | violated |
| `memscope` | Do the records end up equal to the heap? | 3 threads in 2 processes, 4 calls, an older block, ring of 8 | passes, 656 000 states |
| `memscope_attaching` | Is a leak hidden, or a traced block missed, while programs attach? | 2 threads of one process, 3 and 1 calls, 2 addresses, any subset of programs attached | passes, 2.1 M states |
| `memscope_realloc` | The same with realloc? | 2 processes, malloc and realloc | violated |
| `memscope_all_pids` | The same with `--pid 0`? | 2 processes | violated |
| `session` | Is everything released, all drained, and does it end? | target and another process, 4 events each, ring of 2 | passes, 80 000 states |
| `resolver` | Are lookups, guesses, inference and the batch report right where they can be? | some 50 binaries of up to 6 ELF symbols and 8 DIEs, files of up to 2 rows, pages of 8 bytes, loaded at 64 | passes, 16 000 states |
| `resolver_heap_as_global` | Is a live block always a HEAP entry? | the same | violated |
| `resolver_batch` | Does the batch report expand all fields? | the same | violated |

Why the bounds are enough: in `alloc_table` four events reach two growths (1 to 2 to 4), a chain of three records, reuse
of an address with the first block freed or not, an allocation dropped by a failing growth at each size and the free
that then closes an older record; two timestamps put any two events in order, out of order or at one time. A third
growth would repeat the second.
In `Probes` two threads are all a two-party race needs; two calls of one thread give a first call that
fails and leaves its pending entry behind, and a second that meets it; maps of size one make every update
fail for the second thread; two addresses allow reuse and a move by realloc. In `MemScope` the third
thread is the process that is not recorded, and a ring of eight cannot fill with four calls of at most
two events. In `Session` four events per process and a ring of two make the ring overflow and the drain
loop see events on every one of its polls. In `Resolver` pages of 8 bytes make three pages of code and
data out of addresses up to 33, so that objects of different pages compete for a vote; the binaries have
variables with an ELF twin, two DWARF twins of one address, nested, empty and adjacent symbols, unions, bit
fields and anonymous members, a typedef and a declaration that shadow a struct or a function; two rows are
enough for all the ways in which one can hide another from `find_alloc`. Few binaries meet few files, and
one binary meets all files, which keeps the product small.

`CHECK_DEADLOCK FALSE` stands where traced threads have made all their calls, or a session has ended.

Views: `EventView` leaves out the ring, `completed_allocs` and the attached programs of functions nobody calls,
`MapView` the ring, `completed_allocs` and the event and stack buffers, `AttachView` (of `MCMemScope`)
`completed_allocs` and those programs. No guard and no value kept by the view depends on what it leaves out, so
every reachable state of the rest is still visited. What `ProbesTypeOK` says of the parts left out is checked on
the states visited; its proof covers all.

### Disagreements with the documentation

Five runs check a statement of the documentation and find a behaviour of the code that breaks it. They
are in `PROJECT.json` under `findings`, with the quoted line.

- `probes_mixed_event`: `tmp_evt_buf` is an `ARRAY` with one element for all CPUs. A probe on a second
  CPU clears or overwrites it between another probe's `memset` and `bpf_ringbuf_output`, and the event
  that reaches the collector mixes two calls. `tmp_stack_buf` is shared in the same way: the stack one call walked is
  overwritten by another's before it is saved, and is emitted with the first call's event. (Per-CPU arrays would make
  `OneCpu`'s theorem apply.)
- `memscope_realloc`: the return event of realloc carries `old_addr = 0` and `handle_event` ignores
  `REALLOC_ENTRY`, so a moved block stays live in the records at its old address.
- `memscope_all_pids`: `find_live_alloc` compares addresses only.
- `resolver_heap_as_global`: `resolve` asks for a global first, and the load offset is guessed from the address
  itself: any address whose place in its page is covered by an object of the binary is answered as GLOBAL.
- `resolver_batch`: `cmd_batch` prints all fields only when the row's own address has none; a row is resolved
  at its base, so for a type with a field at offset 0 that field is all it prints.

Not a finding, but worth knowing: malloc is traced before free, so a block allocated in between and freed in
between stays live in the records. `memscope_attaching` shows the other direction is safe: no leak is hidden,
and this is what the order of `attach_uprobes` gives.

## 4. Fairness

- `AllocTable`: weak fairness of `Walk`. The lookup runs on the collector's only thread and waits for
  nothing. Nothing is assumed about the arrival of events.
- `MemScope`: weak fairness of `HandleEvent` (the collector polls while it runs) and of each thread's
  `Libc` and `ProbeStep` (a call that was entered is executed by the scheduler; BPF programs are bounded).
  No fairness on new calls: a program need not call anything. The probes' wait for a CPU is weakly fair because
  the CPU is released after a bounded number of steps; in `memscope`, with one CPU and a bounded
  number of calls, each waiting thread gets it.
- `Resolver`: none; only safety is stated.
- `Session`: weak fairness of `Main`. Signals, exits, the clock and the events have none. `MaxEmits` also
  bounds production: `ring_buffer__poll` returns only when the ring is empty, so a producer that is always
  faster than the collector could keep it there for ever. `Terminates` does not cover that case.

## 5. Proofs

Assumptions are those named in the modules (`TableAssumption`, `ProbesAssumption`, `TargetAssumption`,
`SessionAssumption`, `BinariesAssumption`, `ResolverAssumption`); TLC evaluates them in every run.

**AllocTable.** `TableInvariant` proves `Spec => []TableInv`, with `TableInv` the conjunction of `TypeOK`,
`CapacityBacked`, `ChainsExact` and `NothingSkipped`. `ChainsExact` is what makes the rest inductive: each
bucket points to its newest record and each record to the one before it in the same bucket. Inserting at
the front preserves it because the old head is by the invariant the last of its bucket; a growth
preserves it because it copies the links of exactly the records that exist. `NothingSkipped` follows for
the cursor of a lookup: the record it moves to is the previous one of the bucket, so what it passes
over is in other buckets and has another address. From `TableInv`:

- `TableTypes`, `CapacityIsBacked`, `ChainsAreExact`, `NothingIsSkipped`: its four parts, as the run checks them;
- `TableImplementsLedger`: every step is an append, a close of the *newest* live record, or a stutter;
- `FreesArePaired`: with `PairInv`, which adds that no entry of the log names a record that is not stored and that, while a
  lookup runs, its free is the last entry and has no record yet. The record `WalkHit` closes is the newest live one of
  the address by `NothingSkipped`; a record opened later than it at that address is then dead, and by the invariant some
  earlier free closed it.

**Probes.** `ProbesTypes` proves the types for any threads, CPUs, sizes and capacities. `EventsAreExact`
holds under `OneCpu`, on the inductive invariant `OneInv`:

- `TypeInv`: types, and the call a thread is in fits the place it is at (`CallShape`);
- `CpuInv`: a thread in a probe has a CPU, and no two threads have the same one; with one CPU a thread in a probe is alone;
- `PendInv`: a pending entry of a call that is past its own `SavePending` has the call's size. This is the delicate
  part: a failed call leaves its entry in the map, so one may be there that is not the call's own, and is right only because
  the update overwrites an existing key even when the map is full, and because a function whose entry is
  present had its entry program attached, which stays attached;
- `StackInv`: the stack buffer is the walking call's; what is saved under a thread's id is its present call's once the
  entry probe is past, by the same argument as for `PendInv`. Before, it may be an earlier call's, which nobody reads;
- `EvtInv`: how far the event has been filled.

TLC refutes `EventExact` with two CPUs (`probes_mixed_event`): the assumption is needed, for the event buffer and for
the stack buffer alike. On several CPUs the code promises neither.

**The map and the heap.** `HeapProofs` holds on any number of CPUs, since every access to `active_allocs` is one atomic
map operation. `HeapInv` says what a call in progress holds: the block it is about to return or to free is there, and
no other call of the process is about the same one. Then:

- `MapHasNoGhosts` (`NoGhosts`), with `PendInv` of `ProbesProofs` and `GhostInv`: every entry describes the block that is
  there, and a free that has passed `DeleteActive` has left none. Hypotheses: free's program is attached before the
  threads start, and nobody calls realloc. Both are needed: a block freed before free is probed, and a block moved by
  realloc, leave their entries behind.
- `MapMissesNothing` (`NothingMissed`), with `MissInv`: a traced block is in the map, but while the call that made it is
  before its `TakePending`, or the one that frees it has come to its `DeleteActive`; and a call whose entry probe ran still has
  its pending entry (`Saved`). Hypotheses: one process, since the map is keyed by address only; finite threads and
  addresses, which must fit the maps. Any attachment, realloc included.

`NoGhosts` used to speak of entries of blocks no call is using. The proof showed that the exception is not needed, and the
property now says it at every moment.

**MemScope.** `RecordsTyped` proves `Spec => []TypeOK` under `OneCpu`. The
invariant `PipeInv` adds to `OneInv` that a probe which builds an event has a block to speak of (`SpeakInv`: a
result that is not NULL, or an address that is), that the events in the ring which `handle_event` acts on are complete
(`UsableEvent`), and the types of the records. Each step of the pipeline is one of `ProbesNext`, with `HandleEvent` in
the place of `Drain`, so what was proved about the probes carries over. On two CPUs a mixed event can reach the
records with address 0: the assumption is needed.

**The records and the heap.** `LedgerProofs` is about what a user reads as leaked. `Accepts` must choose one process
(`OneRecorded`, which is `--pid`), `OneCpu` makes events exact, and the ring must have room for each event: the
theorems are of the form `Spec /\ [][NoDrop]_vars => []P`, since a lost event makes the records wrong for good. The
invariants speak of an address of a process, of the live record, of the events in the ring and of the call in progress
together:

- `ToldInv`: the records are *told* of each traced block that no call is about to announce or has announced to be freed: the
  newest event in the ring about its address is a RETURN with its size and thread, or there is none and a live record has them;
- `ClosedInv`: of an address with no such block the newest event is a FREE, or there is none and no record of it is live;
- `AlternateInv`: at most one record of an address is live, and between two RETURNs, or between that record and
  the first RETURN, the ring has a FREE;
- `TracedInv`: a call whose entry probe did not run has no pending entry and announces nothing.

`LeaksAreRecorded` (`NoLeakHidden`) needs only `ToldInv`, and so holds for every order and failure of attachment, with
realloc, and while threads free each other's blocks; each thread must have room in the pending maps.
`LiveRecordsAreOne` (`OneLiveRecord`) needs `ClosedInv`, `AlternateInv` and `TracedInv`, with free's program attached first and no
realloc, but no room in the pending maps: an allocation that was not saved announces nothing. `RecordsAreExact`
(`LedgerExact`) puts the two together.

**Resolver.** Every theorem holds for any binary and any CSV file, and for every order an unstable sort may leave.

- `IndexIsExact` and `NearestSymbolFound` rest on `SymbolInv`: the vector is typed throughout, and once loaded it
  is sorted by the comparator and the index is the one rebuilt from it. Sorted by address, and at one
  address with the untyped ones first, the *last* symbol of an address, which is the one the rebuilt index keeps,
  has a type when any has (`SortedIndex`). The element before `std::upper_bound` is then the last of the nearest
  address below (`NearestSymbol`), for every address and not only those the run enumerates.
- `LastBlockFound` rests on `AllocInv`, the order of the copy: a live block that starts higher than the answer would
  have been met first, and one that is missed has a row that stopped the search between its start and the address.
- `BestFieldFound` (`FieldExact`): `BestOf` is the invariant of the loop, proved for one field in `ConsiderField` and for the
  loop in `BestField`: the field kept so far is the nearest that covers the offset, and the largest of those that start there.
- `GlobalFound` (`GlobalResolved`): the objects whose first page covers the address are exactly the voters for the offset of that
  page (`GuessFacts`), so the page with most of them wins the vote and the guess is `Slide` (`OwnGlobal`).
- `OffsetNotAbove` (`FileOffsetRight`): the function's own page is one of the `Placements`, so the least of them is not above it;
  within the first page there is no lower one (`InRange`, `Paged`).
- `ArraysAlike` (`ElementsAlike`) rests on `TypesInv`: a name's entry in the index leads to a type of that name. Every way of
  inferring a count sets it by dividing (`CountedFills` to `InferFills`); that two offsets an element apart have the same
  remainder is `SameRemainder` of `IndexLemmas`.
- `LinesAreOwn` (`OwnLines`) rests on `AllocInv`, by which the copy is a permutation of the parsed rows, sorted: the live row that is alone at
  its address is found by `find_alloc` from that address (`OwnBlock`). `ReportInv` carries this over the later turns of
  `cmd_batch`, which change nothing that an earlier answer was computed from (`SameAnswers`).
- `ResolverTyped` (`TypeOK`) adds `IndexInv`: the index leads into the vector while both grow and through both sorts; and
  the types of every answer (`AnswerType`).
- `IndexLemmas` has the greatest and the least of a set of numbers from the well-foundedness of `<`. The rule of induction for
  predicates cannot be used here, so a loop is reasoned about by induction over a *set*: `UpTo` shows that a set of numbers
  which has 0 and the successor of each of its members below n has all up to n, and `LoopRuns` that a recursive function
  over a vector is well defined.

`ElementsAlike` was false in general as first stated, and the proof found it: an array fills its block only as long as no structure
of another size has taken over the name of its type in `type_name_index_` (`dwarf_analyzer.cpp:300`), because `infer_type_combined_v2`
counts elements of one and resolves the fields of the other. The property now says so, and `MCResolver` has binaries in
which it happens: without the hypothesis TLC finds the counterexample.

**Session.** `SessionTypes` and `EverythingReleased` rest on `HeldInv`, which adds to the property what
`collector_init` holds before each of its steps (`InitHolds`): an error path releases exactly that, which the property
alone does not say until the session is over. After `collector_init` only `Destroy` ends the session, and it releases everything.
`ExitIsComplete` rests on `ExitInv`: every event of a recorded process that entered the ring is recorded or waits in it
(`CountInv`, with the lemmas `EnterCounts` and `LeaveCounts` on the number of such events in a sequence), and
after a poll that began when the target was gone none waits (`DrainedInv`), however many events other processes add.

**Only model-checked.** `LookupEnds`, `CatchesUp` and `Terminates`: liveness under fairness is out of the prover's
reach. Every invariant and every other temporal property that a passing run checks is also a theorem, under the hypotheses named
above. The runs satisfy these hypotheses; `memscope_realloc`, `memscope_all_pids` and `probes_mixed_event` show what becomes of the
properties without three of them.

## 6. Plan

Done, in this order: `AllocLedger`, `AllocTable` and its proofs; `Probes` and its proofs; `MemScope`; `Session`;
`DwarfAnalyzer`, `Resolver` and the first proofs about them.

Then the proofs about the heap (`HeapProofs`, `LedgerProofs`) and about the resolver's loops, guesses and report.

Next, most important first:

1. Proofs: what `NothingMissed` and `NoGhosts` become with several processes at one address of `active_allocs`; how far the records are
   right of each process when several are recorded but share no address.
2. The CSV columns: `load_csv` scans both timestamps into one field; nothing in the resolver reads it today.
3. Option parsing and the search for libc of the collector, if a property of them is ever stated.

Not modelled, and why:

- reading ELF and DWARF, call frame information and `find_stack_variables` (library code; no command reaches the last);
- `infer_type_from_callsite`, `infer_type_combined`, `resolve_global_field`, `resolve_heap_field` and
  `resolve_stack_field`, which nothing calls, and `find_symbol_by_name`, which only one of them uses;
- the stack class of an answer, which no command can reach;
- the regular expressions of the source analyzer, and the printed output of all commands;
- `on_stack_sample`, which the collector never attaches;
- the benchmark and test programs (they are programs to trace) and the build files.
