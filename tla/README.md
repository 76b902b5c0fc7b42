# A TLA+ model of the sold / forged linkers

The repository is a fork of mold whose own work is a linker for macOS
(`src/macho`, 12.4k lines of C++), next to the ELF linker it comes from
(`src/elf`, 27k lines, still built and tested) and code shared by both
(`src/common`). A link runs as a pipeline of passes in `macho_main`
(`src/macho/main.cc`) or `elf_main` (`src/elf/main.cc`); each pass is a set of
parallel loops (`tbb::parallel_for_each`) or of tasks that run beside the main
thread (`ctx.tg`, the archive-finish lane). The results must not depend on how
these interleave, and what one pass counts, marks or decides must be what a
later one writes, reads or decides again. That is what is hard to test here, and
what the models are about.

## 1. Inventory

| Component | State it keeps | Operations | Talks to | What makes it correct |
|---|---|---|---|---|
| Input reading, autolink frontier (`main.cc` 1301-1442, 1522-1702, 1831-2075; `mold.h` 1298-1316) | `ctx.objs`, `ctx.dylibs`, `ctx.reader`, the frontier of parsed objects, per-library caches | read an argument, parse tasks, serve LC_LINKER_OPTION, hoist re-exports, wait, deduplicate, load a member | parse tasks share `ctx.reader` and `next_dylib_priority`; resolution calls the drain | everything listed is parsed and its options served; one file per install name; the modes asked for are the modes used |
| Symbol resolution (`main.cc` 42-326, 1444-1466, 1704-1746, 2048-2109; `input-files.cc` 23-41, 1137-1301, 1989-2012) | per symbol: owner, weak, common, visibility; per file: alive | claims by objects and dylibs, marking, lazy extraction, clearing, second round of claims | loads members through the frontier, starts deferred parsing | the best live definition owns a symbol; nothing wanted is left in an archive; nothing is taken without a reason |
| Deferred parsing (`input-files.cc` 132-240, 624-683, 1303-1358; `main.cc` 694-776, 2243-2275; `mold.h` 1265-1296) | `call_once` flags, `fully_parsed`, task groups | start early or late, local symbols, relocations, wait | runs beside resolution and beside `convert_common_symbols` | exactly once, before use, never while the file is being changed |
| Object parsing (`input-files.cc` 247-560, 737-794; `input-sections.cc`; `arch-x86-64.cc` 107-195) | subsections, spans, the bucket table, relocations per subsection | split, sort, look up an address, read and attach relocations | dead stripping, merging and thunks walk the result | sections are tiled; an address is found in the subsection that covers it |
| Dead stripping (`dead-strip.cc`) | `is_alive` flags, root set, symbol tables | collect roots, mark, live-support rounds, sweep | reads relocations and unwind records | what is kept is the least closed set, on every schedule |
| Literal merging (`main.cc` 67-106, 862-1057; `common.h` ConcurrentMap) | a lock-free hash table, owners, replacers | insert, compete for ownership, erase, rewrite | layout uses the members left | one entry per contents, the highest priority wins, references stay valid |
| Range extension thunks (`thunks.cc`, `arch-arm64.cc` 330-336) | four cursors, thunk lists, per-symbol thunk index | place members, batch, scan in parallel, sort, reset | layout; relocation application reads the result | every branch arrives |
| Layout, output chunks, encoders (`output-chunks.cc`, `main.cc` 512-597, 778-859, 1107-1280) | segments, chunks, offsets, sizes, encoded tables, the file | order, compute sizes, assign offsets, encode, copy, chain, sign | everything before it; dyld, the processor and libunwind after it | the image can be mapped, its tables read back, every function unwound |
| Relocation scanning and application (`arch-*.cc`, `main.cc` 1059-1105) | GOT, stub and thread pointer slots | scan in parallel, allot, apply | reads import flags and addresses | in the loaded image every reference arrives |
| Exports, visibility, unresolved symbols (`main.cc` 328-469, 608-692) | owner, visibility, `is_exported`, `is_imported`, the internal file | export lists, racing claims of undefined symbols, imports | resolution before, slots and tables after | a symbol is claimed once, and imported or exported as its tables say |
| ELF resolution and garbage collection (`src/elf/passes.cc` 138-316, 939-966, 1233-1317, 1518-1688; `input-files.cc` 463-546, 903-1122, 1247-1400; `gc-sections.cc`; `lto-unix.cc`) | per symbol: owner, version, visibility, import and export flags; per file: alive; COMDAT owners; live sections | register undefined names, resolve, extract, eliminate groups, LTO, versions, import and export, mark, sweep, claim | the plugin adds files and everything is resolved again; output reads the flags | the best definition owns a symbol whatever the order; one copy of a group; exactly the members asked for |
| ELF relocations (`arch-*.cc`, `input-sections.cc`, `elf.h` 1687-2047; `passes.cc` 1320-1498; parts of `output-chunks.cc`) | per symbol: the table words needed; per file: a count of dynamic relocations; `.got`, `.plt`, `.plt.got`, `.copyrel`, `.relr.dyn` | scan in parallel, allot words, reserve ranges of `.rel.dyn`, copy and apply in parallel | the copy decides a second time what the scan decided | the two decisions agree: words exist, reserved entries are written once, every word is rebased once |
| ELF output (`passes.cc` 391-675, 1001-1226, 1772-2458; `output-chunks.cc`; `main.cc` 560-699; `input-files.cc` 1124-1230, 1475-1516) | output sections, chunks, headers, `.dynsym` and its hash tables, versions, `.symtab` | create sections from racing tasks, offsets, sort, size, lay out until stable, fix symbols, write | everything before it; the kernel and the dynamic loader after it | the image is what sections ask for, the loader finds every symbol, tables have room for what is written |
| Command line, YAML, TAPI, map file, Mach-O LTO, files and globs, ICF, compressed debug sections, benchmarks, vendored code | | | | not modelled, section 8 |

Where the state is hard: parse tasks reading what the main thread is changing
(`ctx.reader`, `next_dylib_priority`); results of a first pass used after a second
one (visibility after the redo of claims, spans after common symbols are
appended); work started early that must be waited for by somebody; loops that
must end although they generate their own work (autolinked libraries that
autolink, archive members that pull in members, live-support rounds); atomic
test-and-set and compare-and-swap protocols; limits and sentinel values
(`(u32)-1` offsets, `i16` thunk indexes, the 1024 limit of the lookup table); and,
in the ELF linker, pairs of passes that compute one thing twice (scan and copy of a
relocation, size and contents of a table, two resolutions around LTO) and a layout
loop whose result is its own input. `PROJECT.json` lists each of them at its line.

## 2. Modules

| Module | Models | State and actions |
|---|---|---|
| `DeadStrip` | `dead_strip` | one variable per shared structure; `visiting`, `scan`, `exam`, `found` are a worker's stack and locals. Each atomic access is a step; `visit` keeps its recursion as a set. |
| `Resolve` | `resolve_symbols` and what it calls | objects claim in one step (a parallel sort followed by a sequential apply: its result is a function of the candidates), dylibs one symbol at a time under the symbol's mutex, marking one symbol at a time, extraction between rounds. The lists of files are sets: no result may depend on their order. |
| `InputFrontier` | `read_input_files` to the end of archive extraction | the main thread is a program counter; object parse tasks and the stack of a dylib parse task (which creates re-exported dylibs) are separate processes. `DylibFile::create` is split at its unsynchronised increment; hoisting, deduplicating, redirecting and erasing go library by library. |
| `FinishParse` | the second half of parsing of archive members | the main thread with its passes, and one record per running `finish_parse` with its task group. Both architectures: `x86` is chosen in `Init`. |
| `Subsections` | one object file from its section table to its relocations | one action per pass of `ObjectFile::parse` and `finish_parse`; the algorithms are operators. |
| `MergeLiterals` | `merge_mergeable_sections` | each literal is a process: claim, fill and publish of a bucket, the owner's load and compare-and-swap are steps. |
| `Thunks` | `create_range_extension_thunks` | cursor moves are steps, relocations of a batch are scanned one at a time in any order; the sort of a thunk's symbols may leave ties in any order (`Sortings`). |
| `StripSpec` | what `-dead_strip` promises | an abstract specification: the least closed set is decided in one step, then tables are emptied. `DeadStrip` implements it (`KeepsPromise`), with `decided` (the marked set once marking is over, nothing before) for `live`. |
| `ElfTargets` | the relocation tables of the thirteen ELF targets: `arch-*.cc`, the target structs of `elf.h` | constant tables from a relocation type to the rule its case label selects in the scan, in the application, in non-alloc sections and in `.eh_frame`; what PLT entries load |
| `ElfReloc` | `scan_relocations`, the allotment of table words, `RelDynSection::update_shdr`, `construct_relr`, `write_to` | files are scanned in parallel, section by section; one thread allots words, symbol by symbol; sections are copied in parallel. The rules of `ElfTargets` get their meaning here. |
| `ElfResolve` | the passes of `elf_main` up to `claim_unresolved_symbols` | a program counter over the passes; in each parallel loop any file takes its next step, one symbol at a time where a lock is taken. LTO (external: the plugin) adds a file, and the second resolution runs. `IsLink` says which links are well-formed. |
| `ElfTables` | `.dynsym`, `.dynstr`, `.hash`, `.gnu.hash`, versions, `.symtab`, `.strtab` | sizes in one action, contents in another, per file and chunk |
| `ElfLayout` | `create_output_sections` to `set_osec_offsets`, `fix_synthetic_symbols`, `.rela.dyn` | the tasks that create output sections are processes with a private copy of the map; a layout round is one action |
| `ElfOutput` | composes `ElfTables` and `ElfLayout` in the order of `elf_main` | `Init`, `Next`, fairness, and the properties, which read the finished file as the kernel and the dynamic loader do |
| `MachImage` | `create_internal_file` to `scan_relocations` of the Mach-O linker | one action per pass; claims of undefined symbols are split at the load and the compare-and-exchange, scans are one file at a time in any order |
| `MachLayout` | `create_synthetic_chunks`, `assign_offsets`, load commands, compact unwind, `__eh_frame` | a layout is a record that chunks add to as they are reached: sizes and encodings are computed from what is known at that moment |
| `MachTables` | rebase, bind and lazy bind opcodes, chained fixups; export trie, function starts, symbol and string tables, indirect symbols, unwind pages, CIE and FDE fields | operators from slots, relocations and layout to sequences of opcodes with their sizes in bytes, or to page starts, imports and chain entries; tables as sets and sequences of records |
| `MachOutput` | composes them in the order of `macho_main`, and adds `set_offset_linkedit`, symbol values, `apply_reloc`, stubs, helpers, fixup chains, UUID and signature | `Init`, `Next`; the file is a function from the places the linker computes to what it writes there |
| `MachLoader` | dyld, the processor in a stub, libunwind (external) | reads the finished file as they do; the properties |
| `DeadStripProofs`, `ResolveProofs`, `InputFrontierProofs`, `FinishParseProofs`, `MergeLiteralsProofs`, `ThunksProofs`, `ElfResolveProofs` | | the inductive invariants and theorems of these components, section 6 |
| `NatFacts` | | lemmas on numbers that several of them use |
| `MC*` | | the inputs of the runs, as definitions substituted for `Inputs` or `Programs` |

The modules meet at their inputs. What `Subsections` builds (subsections that
tile their sections, relocations attached to them) is the shape of a `Program`
of `DeadStrip` and of the relocations of `Thunks` and `MergeLiterals`.
`InputFrontier` and `Resolve` overlap on purpose: the first has the threads and no
symbols, the second has the symbols and treats the drain of newly loaded files as
a step whose parts are claims. `FinishParse` takes the set of live members, in
any order, from `Resolve`'s marking. `ElfResolve`, `ElfReloc` and `ElfOutput` are
the three stretches of `elf_main`: the flags the first ends with (imported,
exported, absolute, the section a symbol is in) are the symbols of the links of the
second, and the slots, dynamic symbols and dynamic relocations the second ends
with are those of the outputs of the third. `MachOutput` starts where `Resolve`,
`FinishParse`, `DeadStrip` and `MergeLiterals` end: with owned symbols and live
subsections. (`macho_main` strips before `create_synthetic_chunks` and merges right after it;
neither changes what the claims leave.)

Data is abstracted to what the properties tell apart: a file is a model value,
a symbol table is a function from names to a kind (undefined, strong, weak,
common), contents of a literal are a model value with a home bucket, addresses
and sizes are small integers (thunks: units of 4 MiB; ELF: words, with pages of a few words). A
relocation of the ELF linker is its type, symbol and place; how a value is packed
into an instruction is left out. Formatting, timers,
counters and tracing are left out.

## 3. Runs that pass

All bounds are in the `.cfg` and `MC` files. Deadlock is checked in every run;
each module has an explicit final step (`Finished`, or `Ended` in `MachOutput`).

**dead_strip** (102,632 states). Two workers, three subsections in two files,
three symbols (one absolute), all 64 reference graphs, six kinds of roots, every
choice of live-support subsections. Two workers are enough for every race on one
flag; three subsections give a live-support chain that needs a second round.
`MarkedSetIsClosed` and `OnlyNeededIsMarked` together say that the result is the
least closed set, hence independent of the schedule; `KeepsPromise` is the refinement
of `StripSpec`: nothing is removed before the decision, symbols go before
subsections, and what is left is exactly what the decision says; `Terminates`
is about the do-while loop, whose flag is raised also by the loser of a race.

**resolve** (303,877 states). An object, two archive members (lazy, or one listed eagerly), a
dylib and an autolinked dylib over two symbols in 9,600 combinations of kinds; hand-picked ones where two
dylibs race for one symbol and where an unwind record asks for a personality in an archive.
`OwnedByBest`: at the end each symbol belongs to the best live definition;
`ExtractionIsRight`: no member that defines a wanted undefined symbol stays
unloaded (`NothingLeftBehind`) and none is loaded otherwise (`MembersForAReason`, which holds at every
moment: a loaded member is listed by its archive for a wanted symbol, a live one defines one);
`Terminates`.
Dylibs export strongly here; the other case is section 4.

**input_frontier** (241,757 states). 24 command lines with up to five items: re-exports two deep,
aliases of one install name, weak and needed modes, options of objects and of
archive members. `FrontierIsComplete`: when the loop leaves, every listed file is
parsed and its options served, although a parse task may finish between
the check of the frontier and the wait. `LibrariesAreMerged`: deduplication
leaves each install name once (`UniqueWhenRead`) and loses no request for a
needed library (`NeededStaysInLink`). `Terminates`.

**finish_parse** (27,616 states). Five members: plain, with common symbols, with only local symbols
to defer, and eager; any subset live, in any order, on both architectures.
`ParsedBeforeUse`, `DoneOnce`, `RelocsSeeLocals`, `NoParseWhileConverting`,
`Terminates`.

**subsections** (25,920 states). 2,880 object files of four sections (regular, literal, empty) at two
start addresses, symbols at starts, ends and inside, alternative entries,
relocations increasing, decreasing and mixed with equal offsets. The limit of the
lookup table is lowered to eight subsections and its buckets to three addresses
(`LookupMin`, `Bucket`) so that both searches happen. `SectionsAreSplit`
(`SubsectionsTile`, `SymbolsInTheirSubsection`, and `FindsCoveringSubsection`: table, walk
and bisection agree with the definition),
`RelocsLand` (`RelocsAttached`, `TargetsCoverAddress`). Members parsed
late have no common symbols here: section 4 shows why.

**merge_literals** (15,341 states). Up to four literals of two contents whose first bucket is the last
one of its shard, so that probing wraps; blocks of two for `parallel_erase_if`.
`TableIsSound` (`OneEntryPerContent`, `EntryIsFilled`),
`LiteralsAreMerged` (`HighestPriorityOwns`, `RefsReachMembers`, `PointersMerged`), `Terminates`.

**thunks** (19,919 states). Sections of 18 to 20 members (and of 0 and 1) with a distance of 25
units, a reach of 32 and batches of 4: several thunks are created, used from later
batches and reset. A stub before the section is in reach of the first members only. `BranchesArrive`: each branch reaches its target or the entry for
its target in a thunk in reach; `PassIsClean`: no overlap, all aligned
(`LayoutIsSound`), and a symbol never points to a thunk that is out of reach
(`SymbolsPointToUsableThunks`); `Terminates`.

**elf_relocs** (382,694 states). For each of the thirteen targets, one representative of every
class of relocation types with the same rules, against each kind of symbol (local, merged,
absolute, weak undefined, ifunc, exported, thread-local, discarded by garbage
collection, folded, imported function, variable with an alias, thread-local
variable), in an executable, a PIE, a library and a static executable, beside a second file that
refers to the same symbol in other ways. `SlotsExist`: what a relocation or a PLT
entry reads was allotted; `DynrelsMatch`: what the scan reserved in `.rel.dyn` is what
the copy writes, entry by entry; `ReferencesReach`, in two parts: an imported symbol is reached
only through something the dynamic linker fills in, an ifunc through its PLT entry, and
a copied variable takes its aliases along (`ReachesItsSymbol`); with `RELR` or without, every word
with an address of the image is rebased exactly once (`BasedOnce`).

**elf_resolve** (178,523 states). All combinations of kinds of two symbols over
an object, an archive member and a member or DSO, and hand-picked links
for COMDAT groups, LTO with a native file, versions, `--wrap`, visibility,
`--exclude-libs`, `--as-needed` and garbage collection with unwind records.
`BestDefinitionOwns` and `ExtractionIsExact` are the two halves of resolution; `OneCopyPerGroup`;
`KeptIsClosed` (what is kept refers only to what is kept, including language data
areas); `ReferencesAreClaimed` (every reference of a live file ends with an owner or an error, the first
file that refers to a symbol decides about it if it stayed undefined, and the strictest visibility is kept).

**elf_output** (13,717 states). Twenty-nine outputs: executables, libraries and static ones, with and
without versions, thread-local data, `-z separate-code`, `--section-order`,
`--section-start`, `--physical-image-base`, `--omagic`, `--oformat=binary`; one has a `--section-order`
that leaves out a section and ends with the error. A page is a few
words and `SHN_LORESERVE` is 18, so that pages are shared or skipped and
`.symtab_shndx` appears. `ImageIsRight` reads the program header as the kernel does
(`MemoryImage`) and compares `__init_array_*`, `__rel_iplt_*`, `__start_*` and `_end` with it
(`SymbolBounds`);
`LoaderFinds` looks every symbol up through the bloom filter, bucket and chain, or through
`.hash`, and checks the versions; `RoomForContents`: the sections that racing tasks create are one per
key, and every chunk has the room it writes; `SymtabIsWhole`: counting and writing
`.symtab` agree; `Converges`: the layout loop ends.

**macho_output** (990 states; each takes the whole of a link's data through one pass).
Fifteen links of two objects and two or three libraries: executables, dylibs and a bundle on both
processors, with chained fixups and with opcodes, calls, GOT loads, addends that fit
a chain entry and that do not, differences, own and imported thread-local variables,
Objective-C messages, `segment$end$` and `section$start$` symbols (also of sections that do not
exist), `-U`, `-undefined dynamic_lookup` with two objects racing for one symbol, export lists, flat
namespace, a bundle loader, unwind records that merge, do not merge and refer to FDEs, debug symbols,
`-order_file`, `-sectalign`, `-sectcreate`. Sizes are those of the format; pages
are 512 and 256 bytes, ADRP works on 128 (`PageSize`, `AdrPage`), a 32-bit number has 16 bits
(`Mod32`), a second-level unwind page holds 3 entries or spans 128 bytes (`MaxGroup`, `GroupSpan`), an inline
addend is at most 63 (`MaxInlineAddend`; larger ones, on one symbol, get imports of their own, which
`find_dynsym_ordinal` searches as the code does): so segments have several pages, chains
end inside and at the end of them, some pages have no fixup, unwind pages split both ways, and
the trie has offsets of one and of two bytes next to each other.
`ReferencesArrive`: every relocated word and instruction field of the loaded image leads where
its relocation says, through GOT slots, stubs, helpers and lazy programs where there are any;
`ImageIsSound`: segments, chunks and subsections are apart, inside each other and where the mapping puts
them, the header has room for its commands as they are in the end, and the signature has the
final hashes; `TablesReadBack`: symbol, string and indirect tables, export trie and function starts;
`UnwindFinds`: the first and last instruction of every function lead to its own encoding,
personality and language data.

Every property of these runs has a mutant in `PROJECT.json`: a plausible mistake
in one mapped definition with which the same run fails. The mutants stand next to the
definitions they change.

## 4. Disagreements between the code and what it says

A run with `expect: violation`:

* **macho_lazy_binding**: without chained fixups the ARM64 stub helper loads
  `dyld_stub_binder` from the GOT with an offset in bytes where the instruction counts
  words of eight bytes, and takes the page from 12 bytes before the section where the instruction is
  12 bytes after its start (`arch-arm64.cc` 102-104). Both are harmless only when the slot is
  the first of the GOT and the GOT starts a page. One GOT load of a function of the image
  puts another symbol first, and no lazy call arrives any more.

Configurations kept beside it, each violated, with the property that shows it
(`tlc -continue` reports every property of a configuration, not only the first):

| Configuration | Module | Property | What happens |
|---|---|---|---|
| `MCResolveOpen.cfg` | `MCResolve` | `OwnedByBest` | `DylibFile::resolve_symbols` ranks every export as strong but the claimed symbol as weak if it is, so of two dylibs that export a symbol the owner depends on the schedule; the comment on `get_rank` says strong goes before weak and ties are broken by priority |
| `MCResolveOpen.cfg` | `MCResolve` | `GlobalIfAnyIsGlobal` | the second round of claims resets a symbol's visibility after marking has computed it; a global definition ends up unexported |
| `MCResolveOpen.cfg` | `MCResolve` | `NothingLeftBehind` | `ObjectFile::mark_live_objects` does not list a symbol in `pending_extracts` when its member is already loaded, but not yet drained, for another symbol of the same file (`input-files.cc` 1264); if the drain then gives that other symbol to a dylib, the member stays dead and the symbol is undefined or not depending on the order of the symbol table; `docs/mold.md` 50-55 says members are pulled out "if they are needed to resolve remaining undefined symbols" |
| `MCFrontierOpen.cfg` | `MCInputFrontier` | `UniqueInOutput` | deduplication by install name runs once; a library that an archive member autolinks is read later and may repeat an install name, which the comment there says dyld refuses |
| `MCFrontierOpen.cfg` | `MCInputFrontier` | `WeakOnlyIfAsked` | the constructor of a re-exported dylib runs in a parse task and reads `ctx.reader` while the main thread sets it for the next argument |
| `MCSubsectionsCommon.cfg` | `MCSubsections` | `TargetsCoverAddress` | members with common symbols are parsed after `convert_common_symbols` has appended a subsection with address 0 to the sorted list, and `find_subsection` returns it for addresses of the last subsection |
| `MCElfOutputOpen.cfg` | `MCElfOutput` | `Converges` | with `-z norelro` there is no `.relro_padding`, and the page skipped after data that is constant after relocation depends on where it ends; the skip adds a PT_LOAD, the longer program header moves the end onto a page boundary, the skip and the PT_LOAD go away: the loop that is repeated "until converge" never ends |
| `MCElfOutputOpen.cfg` | `MCElfOutput` | `ListedAreKept` | `--retain-symbols-file` names a symbol of a collected section: it is not counted but written, over the entry of a listed symbol (`elf/input-files.cc`, `populate_symtab`) |
| `MCElfRelr.cfg` | `MCElfReloc` | `AllRelativesPacked` | `is_relr_reloc` takes words of types other than `R_ABS` out of `.rel.dyn`, `construct_relr` does not put them into `.relr.dyn` (`elf/output-chunks.cc` 967) |
| `MCElfSymver.cfg` | `MCElfResolve` | `ImportsAreMarked` | `claim_unresolved_symbols` rebinds `foo@V` to the symbol of a DSO without setting `is_imported` |
| `MCFrontierOpen.cfg` | `MCInputFrontier` | `OrderIsDeterministic` | an autolinked library precedes a hoisted one only if its object was parsed when the loop looked (`main.cc` 1405); `docs/design.md` 142 asks for deterministic output |
| `MCFrontierOpen.cfg` | `MCInputFrontier` | `PrioritiesDiffer` | `next_dylib_priority++` (`input-files.cc` 1751) is a data race; two dylibs can share a priority |
| `MCThunksOpen.cfg` | `MCThunks` | `CursorsAreOrdered` | a member of 80 to 100 MiB that D stopped before has offset `(u32)-1`; the sum at `thunks.cc` 99 wraps and C passes D, against the comment at line 77 |
| `MCThunksOpen.cfg` | `MCThunks` | `EntriesAreDeterministic` | symbols of one dylib tie in the sort (`thunks.cc` 157), which is there "to make the output deterministic" |
| `MCMergeOpen.cfg` | `MCMergeLiterals` | `OwnerIsDetermined` | of two equal literals in one file the first thread's one stays (`main.cc` 909) |
| `MCMergeOpen.cfg` | `MCMergeLiterals` | `AlignmentKept` | the largest alignment is collected (`main.cc` 913) and not given to the owner |
| `MCMachOpen.cfg` | `MCMachOutput` | `ReferencesArrive` | symbols of one library tie in the sort of `get_dynsyms`, so with an addend beyond `MAX_INLINE_ADDEND` the imports of one symbol may be apart (`printf`, `stdin`, `printf`, `stdin + 70`, `puts`); the search for one that is there stops at another symbol and the linker is at `unreachable()` (`output-chunks.cc` 1610-1618), where the comment at 1631-1638 says that such an addend is represented |
| `MCMachOpen.cfg` | `MCMachOutput` | `ReferencesArrive` | `RebaseSection` counts a lazy pointer only for a stub without a GOT slot, but lazy pointers are numbered by stub (`output-chunks.cc` 770): with `-no_fixup_chains` and a symbol that is both called and loaded from the GOT, or with `-bind_at_load`, the last ones are not slid |

The passing runs of the same modules leave out exactly these inputs.

Other differences that were met while translating and are left out of the links the
ELF runs try: types that the scan passes over but that are applied with the
symbol's address (`R_AARCH64_MOVW_UABS_*`, absolute PLT words of s390x and SPARC in PIC,
`R_386_TLS_IE` in PIC, local-exec TLS against an imported symbol); `R_ARM_MOVT_ABS` reserves dynamic
relocations nobody writes; RISC-V `ADD8` and `SUB8` advance the pointer instead
of the byte (`loc +=`); with `--unresolved-symbols=ignore-all` a GOT word is
used that was never allotted; a `-static` link with a version script writes into an
empty `.gnu.version`; `--section-order` does not align the start of thread-local data.

And of the links that `macho_output` tries (the models have the code's
behaviour; the inputs that reach it are left out, or no property reads the field):

* the x86-64 Objective-C stub adds its field offsets 3 and 9 to a pointer to
  32-bit words, so they are written at bytes 12 and 36 (`arch-x86-64.cc` 69-92).
* zero-filled thread-local data is copied to its file offset 0, over the header, unless the
  header is written again for the UUID (`main.cc` 1248).
* in a flat namespace a called symbol of the dylib itself is exported with the address of its
  stub; symbols of `-U` are exported with address 0, and looked up as weak by chained
  fixups but flat by bind opcodes.
* sections of code outside the list of `compare_chunks` come after `__unwind_info`, which then
  encodes addresses that are not final.
* the first-level entries and personalities of `__unwind_info` are not relative to the image:
  right when the image starts at 0 or at 2^32.
* symbols of `-undefined dynamic_lookup` stay local in scope, so their slots are
  marked INDIRECT_SYMBOL_LOCAL; imported thread-local variables have slots but no symbol.
* `DataInCodeSection` subtracts where it should add and looks for one entry per subsection;
  absolute symbols are rebased.

## 5. Fairness

Liveness is checked under weak fairness of the main thread's steps and of the
steps of tasks and workers, and of nothing else. The code justifies it: the main
thread waits only in TBB's `wait`, on `call_once` and on a parse latch; a TBB task group runs every task
it was given; a thread waiting in a group runs tasks itself, so one hardware
thread suffices. In `MergeLiterals` each literal has its own fairness
because `ConcurrentMap::insert` spins on another thread's marker: the operating system
must run that thread. A failing `compare_exchange_weak` is a stuttering step and
weak fairness of the rest of the insertion says it does not fail for ever.

`ElfOutput` assumes that the main thread keeps running its passes. `Progress` says that as
`[]<>(pc \in {"done", "failed"}) \/ []<><<Next>>_vars`, which is weak fairness of `Next` with its
`ENABLED` written out, because TLC needs minutes to decide whether a layout pass is
enabled. The layout loop itself gets no help from it: a round that changes the
program header is a step like any other, so that a loop that never settles
violates `Converges`, as `MCElfOutputOpen.cfg` shows.

## 6. Proofs

TLAPS proves the following for every value of the constants. Assumptions
are the named ones of the modules: the inputs are well-formed, the null pointer
is neither a subsection nor a file, the kinds of members are subsets of the members.

`DeadStripProofs`: `TypeCorrect`, `MarkIsComplete`, `MarkIsMinimal`, and the refinement
`PassKeepsPromise` (`Spec => KeepsPromise`), for
any program, any set of workers (finite or not) and any schedule. None of the
properties is inductive. The invariant `IInv` adds:
`Discipline` (which worker-local state can be in use in which phase);
`RootsKept` and `TargetsKept` (a root or a successor of a marked subsection is
marked, or in some worker's hands: this is the argument for the
test-and-set, since the loser drops a subsection only because the winner holds its
successors); `QuietRound` (while no worker of a live-support round has found
anything, the marked set has not changed since the round began, so what was
examined needs no second look: this is why `repeat` suffices); `SupportClosed`; and
`Justified` (every work item lies in every closed set). The refinement rests on
`IInv` alone: initial states map to initial states; steps of roots, marking and rounds
change nothing abstract; the step that ends the rounds is the abstract decision,
because completeness and minimality make the marked set a least closed set; and
each file's turn in the two sweeps removes what the abstract step removes.

`FinishParseProofs`: `TypeCorrect`, `FinishedIsParsed`, `ParsedOnce`, `LocalsFirst` and
`ConvertedAlone`, for any set of members of any kinds and both architectures. The
invariant has five parts: `TasksAreOwners` (one call per file, in a group that
somebody waits for, on a file that is not finished), `StartedIsOwned` (a
started and unfinished file has a call: with the first part this shows why waiting
only for the early lane is enough when nothing is pending), `LocalsGuarded` (the state of the
second `call_once`), `MainProgress` (how far the live members are at each point of
`macho_main`) and `CommonLast` (files with common symbols are not started
before the conversion is over).

`MergeLiteralsProofs`: `TableCorrect` (`TableIsSound`) and `MergeCorrect` (`LiteralsAreMerged`), for
any members, contents, home buckets and table, and any schedule. The invariant: the
buckets that an insertion has passed hold other contents for good, and all insertions of equal contents
visit the same buckets, so an entry can only be found where a second one would be made
(`OnItsPath`, with division with remainder for the wrap inside a shard); a marker belongs to
exactly one member (`MarkersAreOwned`); a published entry is owned by a member with its
contents, and the owner's priority only rises above those who have competed
(`EntriesAreOwned`, `OwnersOutrank`). The rest follows the phases: after the literals the decision
is final (`LiteralsDecided`), references are rewritten, pointers are inserted with what they now
point to. That `parallel_erase_if` keeps the order is a lemma on its blocks.

`ResolveProofs`: `BestDefinitionWins` (`OwnedByBest`), `ReasonsHold` (`MembersForAReason`) and `ExtractionExact`, for any
files, symbols, inputs and schedule. The first has a hypothesis, `WeakExportsAreUnique`: a symbol that
some dylib exports weakly, or that a `-weak-l` library exports, is exported by that dylib only. Without it
the owner does depend on the schedule (`MCResolveOpen.cfg`, section 4). The invariant says what
the queue holds in each phase, that a claimed symbol's flags are those of its owner's
definition (`ClaimsMatch`), that members have reasons, that new files wait for a drain only
(`FrontierPending`), so that nothing unclaimed is left when the second round starts, and that owners are
alive from then on; `BestSoFar` is the comparison with the candidates whose claims are not outstanding.
`ExtractionExact` (`ExtractionIsRight`) says that extraction misses nothing. That is not true of every
input (section 4), so the theorem has the hypothesis `IndexIsRight`: tables of contents list members that define the
symbol, and a member that several symbols can extract is the best definition of each, so it is kept for
each. It holds of over half of the inputs of `MCResolve`; of the two of `MCUnasked` it holds of the
one in which extraction is right. The invariant follows a symbol from
where it is looked at (`Looked`: a root, or a reference of a live object that is not
queued any more) to a live definition: until then it waits in the frontier, or a member that defines it does for
another symbol (`Settled`); a drain resolves every member before its symbol is walked (`Waits`, `Claimed`);
and a member that nothing else can outrank, dead or alive, still owns its symbol by then (`Held`),
so the walk keeps it. That dead members rank above a dylib only by priority is why the hypothesis has
priorities in it.

`InputFrontierProofs`: `FrontierComplete` (`FrontierIsComplete`) and `LibrariesMerged` (`LibrariesAreMerged`),
for any command line, libraries, re-exports, options and schedule of the parse tasks. The argument for
completeness: the root of a dylib parse task is listed and not yet parsed, roots are distinct, and what
the task creates below it is not listed before the root is parsed and hoisted (`Ids`, `Running`, `Walks`), so when
everything listed is parsed no task is left; and a wait that covered all objects leaves the whole queue
ready for the next frontier, so the loop can only leave with nothing unserved (`Queue`, `Waited`). For the
libraries: a request that was met stays met, since deduplication hands `alive` on to the dylib it
keeps, of which there is one per install name, and redirects names to it; erasing removes only dead ones
(`RequestsMet`, `Names`); names stay unique until an archive member is loaded (`Unique`), after which
section 4 shows that they need not.

`ThunksProofs`: `BranchesReach` (`BranchesArrive`), `CursorOrder` (`CursorsAreOrdered`) and `PassLeavesClean`
(`PassIsClean`), for any section, any order of the scan and any outcome of the sort. The
constants satisfy `BoundsAssumption`, as those of `thunks.cc` do: two batches and a thunk are within the
distance, the distance and the padding within the reach of a branch. The theorems are about passes
within the limits that the code takes for granted (`WithinLimits`): two members with padding and a
thunk fit into a batch, offsets stay below `(u32)-1`, and a thunk is no larger than
`MAX_THUNK_SIZE`, which its comment assumes. Beyond them `MCThunksOpen.cfg` shows C passing D. The invariant ties the
cursors to the offsets (what lies between them is within the distance), thunks to the places from where
they are still in use, and indexes of symbols to thunks that have their entry.

`ElfResolveProofs`: `BestOwns` (`BestDefinitionOwns`), `OneCopy` (`OneCopyPerGroup`), `Kept` (`KeptIsClosed`), `FirstClaims`
(`ReferencesAreClaimed`) and `ExtractionExact`, for any set of well-formed links (`LinksAssumption`: files have distinct priorities
below 2^24, a section is in one COMDAT group at most and that of a common symbol in none, DSOs and
IR files have no groups, the objects that LTO adds come only where there are IR files), with or without LTO, and any order in every parallel loop. The invariant: after the
clearing loops nobody owns anything, so the owner is the best of the files that had their turn, and
there are no others but the linked ones (`Owners`, `Best`); the priority in a group only falls,
so at the end of the loop it is the least of the live files that have the group (`Comdats`); a section
that is marked and no longer pending has had its references followed (`Collected`); a claim goes to an earlier
file or stays (`Claims`); and visibility only gets stricter (`Visible`). `ExtractionExact` (`ExtractionIsExact`)
has an invariant of its own, `Extraction`: who is linked on demand defines what a file in the link asked
for (`Reasoned`), and what a live file asks for and marking has passed is defined by a live file if by any
(`Answered`: the table has an owner for every definition registered so far, `Registered`, and every input file is
still listed then, `Listed`). The second half needs `CopiesAgree`: the copies of a COMDAT group
define the same symbols, as compilers promise. Without it TLC finds a link where the definition for which a member was
extracted goes with a discarded copy, and the reference stays open; `NothingIsExtra` holds there too and is
proved without it.

`NatFacts` has the lemmas on division with remainder, and that a set of numbers has a least
element, which takes the place of induction in the proofs.

All invariants were checked with TLC on the instances of the runs before they were
proved.

Only model-checked:

* liveness under fairness, which the prover cannot do: `Terminates`, `Converges`;
* `Subsections`, `ElfReloc`, `ElfOutput` and the `Mach` modules: what they compute is
  mostly done by folds and recursive functions over sequences (`SplitSection`, encoders, layout), whose
  results need induction over data, which is out of the prover's reach.

## 7. Plan

Done: the modules above. Next, in this order:

1. `DynrelsMatch` of `ElfReloc` for disjoint ranges and the one-section-per-key part of
   `RoomForContents`: their parallel parts need no induction.
2. ELF identical code folding and `.eh_frame`; compact unwind and the ARM64 relocation pairs in
   `Subsections`; `MachOutput` behind `Thunks`: branches out of reach.

## 8. Not modelled

The command lines, YAML and TAPI parsers are sequential text processing whose
result is the input of `InputFrontier`, `Resolve` and the `Elf` modules. Record layouts
(`macho.h`, most of `elf.h`) and the map files have no behaviour. Writing bytes and mapping
files is I/O. The LTO plugins are foreign libraries: `ElfResolve` has what the ELF one
does to the link as an external step, the restart of the process is left out.
Hashing, timers, compression and the reproduction tar do not feed
back into the link; the HyperLogLog estimate is replaced by a table with room.
Archive indexes are modelled by what they list, not
by their format. Overflow of priorities (2^24 files) and of the 16-bit thunk
indexes needs inputs beyond TLC's reach; they are listed as hazards.

Of the Mach-O inputs: a linker option is taken to name a dylib that is found. One that names a static
archive adds to the archives, in `Resolve` while symbols are being resolved when it is a member's
(`main.cc` 1490-1498, 1639-1669, 1853-1858), and one that is not found is skipped; neither is modelled. Of the
modes of a library only `needed` has a property of its own that holds (`weak` is in section 4). Unwind
records of members whose parsing is deferred are not seen by marking, so such members have no
personalities in `Resolve`. Addends of branches are left out of `Thunks`. That a symbol
that is kept never names a subsection that is erased is in `DeadStrip` a part of the refinement.

Of the Mach-O output: the fields of load commands other than their sizes, linker
optimization hints, `__objc_imageinfo`, the checks of Swift versions and the ARM64_32 variant are
left out. Sections are copied in one step: tasks write disjoint memory, which `ImageIsSound`
establishes but for the header, whose overwriting is a choice in `CopySections`.
`data_in_code` and initializer offsets have their sizes and values, but no property reads them.

Of the ELF linker: identical code folding, the contents of `.eh_frame` and
`.eh_frame_hdr`, merged strings, `--emit-relocs` and `-r`, `--gdb-index`, compressed debug sections, `--defsym`
and linker scripts are not modelled; ELF range extension thunks are taken for
reachable. In `ElfOutput` the copy-relocation sections, `__global_pointer$`, `.ARM.exidx`
and TOC symbols are left out, and the loops that fill `.symtab` and `.rela.dyn` run one writer
at a time: they write disjoint memory, which is what `SymtabIsWhole` and
`DynrelsMatch` establish. In `ElfReloc` errors and fatal errors are one
outcome, `failed`.
