------------------------------ MODULE ElfTables ------------------------------
(***************************************************************************)
(* The tables of an ELF output that programs search: .dynsym with .dynstr, *)
(* .hash and .gnu.hash, the symbol versions, and .symtab with .strtab      *)
(* (src/elf/output-chunks.cc, input-files.cc). Sizes are computed in one   *)
(* pass over chunks and files and the contents written in a later one, in  *)
(* parallel, each writer into the part that its own count reserved.        *)
(* Sizes of table entries are one unit; a string takes its length plus one.*)
(***************************************************************************)
EXTENDS Integers, Sequences, FiniteSets, FiniteSetsExt, SequencesExt

CONSTANTS
  Outputs,      \* names of the outputs to try
  OutputOf(_),  \* the output of a name: its options, files and symbols
  LOAD_FACTOR,  \* symbols per bucket of .gnu.hash
  WordBits,     \* bits in a word of its bloom filter
  BLOOM_SHIFT,
  BloomBits     \* bits of the filter per symbol

ASSUME HashAssumption == LOAD_FACTOR \in Nat \ {0} /\ WordBits \in Nat \ {0} /\ BLOOM_SHIFT \in Nat

(***************************************************************************)
(* The tables are about                                                    *)
(*   objs, dsos  sequences of files [id, locals, globals, ...]: locals and *)
(*               globals are sequences of symbols                          *)
(*   syms        per symbol its owner "file", alive (its section is, or it *)
(*               has none), undef, isec (its input section or ""), the     *)
(*               flags imported, exported and weak, mergeable (a .L symbol *)
(*               in a mergeable section), dotL, section (STT_SECTION), ver *)
(*               (ver_idx: 0 local, 1 global, then definitions; in a DSO   *)
(*               the number of its version there), the hashes djb and elf  *)
(*   scan        symbols in the order in which scan_relocations adds them  *)
(*   slots       the symbols with entries in .got, .plt, .plt.got and the  *)
(*               thunks of .text, in order, as [sym, suffix]               *)
(***************************************************************************)
VARIABLES
  link,           \* the output, fixed by Init
  pc,             \* the pass running
  work,           \* chunks or files the running loop is not done with
  chunks,         \* ctx.chunks
  dynstr,         \* DynstrSection: strings and their offsets, dynsym_offset, size
  dynsym,         \* DynsymSection::symbols, without the null symbol
  dynsym_info,    \* its sh_info
  versym,         \* VersymSection::contents, by .dynsym index
  verneed,        \* groups of VerneedSection
  counts,         \* num_local_symtab, num_global_symtab, strtab_size, output_sym_indices
  write_to_symtab,\* symbols with that flag
  symtab,         \* what has been written to .symtab, by index
  strtab          \* what has been written to .strtab, by offset

Sym(s) == link.syms[s]
ObjIds == [i \in DOMAIN link.objs |-> link.objs[i].id]
DsoIds == [i \in DOMAIN link.dsos |-> link.dsos[i].id]
Objs == Range(ObjIds)
Dsos == Range(DsoIds)
FileOf(f) == LET all == link.objs \o link.dsos IN all[CHOOSE i \in DOMAIN all : all[i].id = f]

\* Symbol::is_local.
is_local(s) == ~Sym(s).imported /\ ~Sym(s).exported

\* A stable sort by an integer key, sums, and functions written over others.
InsertBy(acc, x, key(_)) ==
  LET n == Cardinality({i \in DOMAIN acc : key(acc[i]) <= key(x)})
  IN SubSeq(acc, 1, n) \o <<x>> \o SubSeq(acc, n + 1, Len(acc))
StableSort(s, key(_)) == FoldLeft(LAMBDA acc, x : InsertBy(acc, x, key), <<>>, s)
SumOf(s, f(_)) == FoldLeft(LAMBDA acc, x : acc + f(x), 0, s)
NameSize(s) == Len(s) + 1
PlacedAt(base, s) == [j \in base..(base + Len(s) - 1) |-> s[j - base + 1]]
Over(new, old) == [j \in DOMAIN new \cup DOMAIN old |-> IF j \in DOMAIN new THEN new[j] ELSE old[j]]

-----------------------------------------------------------------------------
\* DynstrSection::add_string.
add_string(d, str) ==
  LET base == IF d.size = 0 THEN 1 ELSE d.size IN
  IF str = "" \/ str \in DOMAIN d.strings THEN [d EXCEPT !.size = base]
  ELSE [strings |-> Over([x \in {str} |-> base], d.strings), dynsym_offset |-> d.dynsym_offset,
        size |-> base + NameSize(str)]

\* elf_main: the strings that .dynamic refers to.
AddStrings ==
  /\ pc = "strings"
  /\ dynstr' = FoldLeft(add_string, dynstr,
                 [i \in DOMAIN link.dsos |-> link.dsos[i].soname] \o link.auxiliary \o link.filter
                 \o (IF link.rpaths = "" THEN <<>> ELSE <<link.rpaths>>)
                 \o (IF link.soname = "" THEN <<>> ELSE <<link.soname>>))
  /\ pc' = "scan"
  /\ UNCHANGED <<link, work, chunks, dynsym, dynsym_info, versym, verneed, counts, write_to_symtab, symtab, strtab>>

\* DynsymSection::add_symbol, for each symbol that the scan finds in need of it.
add_symbol(d, s) == IF s \in Range(d) THEN d ELSE Append(d, s)
AddDynsyms ==
  /\ pc = "scan"
  /\ dynsym' = FoldLeft(add_symbol, <<>>, link.scan)
  /\ pc' = "sizes"
  /\ UNCHANGED <<link, work, chunks, dynstr, dynsym_info, versym, verneed, counts, write_to_symtab, symtab, strtab>>

\* The number of buckets of .gnu.hash.
num_buckets(d) == Cardinality({i \in DOMAIN d : Sym(d[i]).exported}) \div LOAD_FACTOR + 1

\* DynsymSection::finalize: local symbols first; for .gnu.hash the exported
\* ones last and by bucket.
sort_dynsymUnbucketed(d) ==
  SelectSeq(d, is_local)
  \o StableSort(SelectSeq(d, LAMBDA s : ~is_local(s)), LAMBDA s : IF Sym(s).exported THEN 1 ELSE 0)
sort_dynsym(d) ==
  LET locals == SelectSeq(d, is_local)
      globals == SelectSeq(d, LAMBDA s : ~is_local(s))
      n == num_buckets(d)
      key(s) == (IF Sym(s).exported THEN n ELSE 0) + (Sym(s).djb % n)
  IN locals \o (IF link.gnu_hash THEN StableSort(globals, key) ELSE globals)

\* Where .dynamic is there .dynsym is kept, if only with the null symbol.
has_dynamic == link.shared \/ link.dsos # <<>> \/ link.pie
has_dynsym == has_dynamic \/ dynsym # <<>>
FinalizeDynsym ==
  /\ pc = "finalize"
  /\ IF ~has_dynsym THEN UNCHANGED <<dynsym, dynsym_info, dynstr>>
     ELSE /\ dynsym' = sort_dynsym(dynsym)
          /\ dynsym_info' = 1 + Len(SelectSeq(dynsym, is_local))
          /\ dynstr' = [dynstr EXCEPT !.dynsym_offset = dynstr.size,
                                      !.size = @ + SumOf(dynsym, NameSize)]
  /\ pc' = "verdef"
  /\ UNCHANGED <<link, work, chunks, versym, verneed, counts, write_to_symtab, symtab, strtab>>

\* Index in .dynsym, and where copy_buf says the name of the symbol there is.
dynsym_idx(s) == CHOOSE i \in DOMAIN dynsym : dynsym[i] = s
dynsym_name(i) == dynstr.dynsym_offset + SumOf(SubSeq(dynsym, 1, i - 1), NameSize)

-----------------------------------------------------------------------------
\* VerdefSection::construct: the file's own entry, then the definitions from 2 on.
ConstructVerdef ==
  /\ pc = "verdef"
  /\ IF link.version_definitions = <<>> THEN UNCHANGED <<versym, dynstr>>
     ELSE /\ dynstr' = FoldLeft(add_string, dynstr,
                         <<IF link.soname = "" THEN link.output ELSE link.soname>> \o link.version_definitions)
          /\ versym' = [i \in 0..Len(dynsym) |-> IF i = 0 THEN 0 ELSE Sym(dynsym[i]).ver]
  /\ pc' = "verneed"
  /\ UNCHANGED <<link, work, chunks, dynsym, dynsym_info, verneed, counts, write_to_symtab, symtab, strtab>>

\* VerneedSection::construct: symbols of DSOs by soname and version, one group
\* per file and one entry, with a new index, per version.
SlotChunks ==
  SelectSeq([i \in DOMAIN chunks |-> chunks[i].name], LAMBDA n : n \in DOMAIN link.slots)
FirstVersion == 1 + Len(link.version_definitions)
needs_version ==
  LET rank(f) == CHOOSE r \in DOMAIN link.sonames : link.sonames[r] = FileOf(f).soname
      key(s) == rank(Sym(s).file) * 100 + Sym(s).ver
  IN StableSort(SelectSeq(dynsym, LAMBDA s : Sym(s).file \in Dsos /\ Sym(s).ver > 1), key)
add_entry(acc, s) ==
  LET last == acc.groups[Len(acc.groups)]
      new == acc.idx + 1
      aux == [ver |-> Sym(s).ver, other |-> new] IN
  IF acc.groups = <<>> \/ last.file # Sym(s).file
  THEN [groups |-> Append(acc.groups, [file |-> Sym(s).file, auxs |-> <<aux>>]), idx |-> new,
        of |-> Append(acc.of, new)]
  ELSE IF last.auxs[Len(last.auxs)].ver # Sym(s).ver
  THEN [groups |-> [acc.groups EXCEPT ![Len(acc.groups)].auxs = Append(@, aux)], idx |-> new,
        of |-> Append(acc.of, new)]
  ELSE [acc EXCEPT !.of = Append(@, acc.idx)]
ConstructVerneed ==
  /\ pc = "verneed"
  /\ LET syms == needs_version
         r == FoldLeft(add_entry, [groups |-> <<>>, idx |-> FirstVersion, of |-> <<>>], syms)
         old(i) == IF i \in DOMAIN versym THEN versym[i] ELSE IF i = 0 THEN 0 ELSE 1 IN
     IF syms = <<>> THEN UNCHANGED <<versym, verneed, dynstr>>
     ELSE /\ verneed' = r.groups
          /\ versym' = [i \in 0..Len(dynsym) |->
                          IF \E j \in DOMAIN syms : dynsym_idx(syms[j]) = i
                          THEN r.of[CHOOSE j \in DOMAIN syms : dynsym_idx(syms[j]) = i] ELSE old(i)]
          /\ dynstr' = FoldLeft(add_string, dynstr, [j \in DOMAIN syms |->
                         FileOf(Sym(syms[j]).file).versions[Sym(syms[j]).ver]])
  /\ pc' = "symtab_chunks"
  /\ work' = Range(SlotChunks)
  /\ UNCHANGED <<link, chunks, dynsym, dynsym_info, counts, write_to_symtab, symtab, strtab>>

-----------------------------------------------------------------------------
\* should_write_to_local_symtab.
should_write_to_local_symtab(s) ==
  ~Sym(s).section /\ (Sym(s).dotL => ~link.discard_locals /\ ~Sym(s).mergeable)

\* ObjectFile::compute_symtab_size: symbols that become local ones, global
\* symbols demoted to local ones after the file's own, and global ones.
is_alive(s) == link.gc_sections => Sym(s).alive
kept_globals(f) ==
  SelectSeq(FileOf(f).globals,
            LAMBDA s : Sym(s).file = f /\ is_alive(s) /\ (link.retain => s \in write_to_symtab))
kept_locals(f) ==
  IF link.discard_all \/ link.retain THEN <<>>
  ELSE SelectSeq(FileOf(f).locals, LAMBDA s : is_alive(s) /\ should_write_to_local_symtab(s))
obj_symtab(f) ==
  [locals |-> kept_locals(f) \o SelectSeq(kept_globals(f), is_local),
   globals |-> SelectSeq(kept_globals(f), LAMBDA s : ~is_local(s))]

\* SharedFile::compute_symtab_size.
dso_symtab(f) ==
  [locals |-> <<>>,
   globals |-> SelectSeq(FileOf(f).globals,
                 LAMBDA s : /\ Sym(s).file = f /\ ~is_local(s)
                            /\ (link.retain => s \in write_to_symtab))]

\* GotSection, PltSection, PltGotSection and OutputSection::compute_symtab_size:
\* a name for every slot; on ARM32 three more entries for each thunk, which
\* share the names $t, $a and $d.
mapping_symbols(c) == IF c = ".text" /\ link.arm32 THEN <<"$t", "$a", "$d">> ELSE <<>>
chunk_symtabOneEach(c) ==
  IF link.strip_all \/ link.retain THEN [n |-> 0, strtab_size |-> 0]
  ELSE [n |-> Len(link.slots[c]),
        strtab_size |-> SumOf(mapping_symbols(c), NameSize)
                        + SumOf(link.slots[c], LAMBDA e : Len(e.sym) + NameSize(e.suffix))]
chunk_symtab(c) ==
  IF link.strip_all \/ link.retain THEN [n |-> 0, strtab_size |-> 0]
  ELSE [n |-> Len(link.slots[c]) * (1 + Len(mapping_symbols(c))),
        strtab_size |-> SumOf(mapping_symbols(c), NameSize)
                        + SumOf(link.slots[c], LAMBDA e : Len(e.sym) + NameSize(e.suffix))]

NoCount == [nlocal |-> 0, nglobal |-> 0, strtab_size |-> 0, locals |-> <<>>, globals |-> <<>>]

\* One chunk or file of the three loops of create_output_symtab. "locals" and
\* "globals" hold, in order, the symbols given an index in output_sym_indices.
ComputeSymtabSize(x) ==
  /\ pc \in {"symtab_chunks", "symtab_objs", "symtab_dsos"}
  /\ x \in work
  /\ IF pc = "symtab_chunks"
     THEN LET c == chunk_symtab(x) IN
          /\ counts' = [counts EXCEPT ![x] = [NoCount EXCEPT !.nlocal = c.n, !.strtab_size = c.strtab_size]]
          /\ UNCHANGED write_to_symtab
     ELSE IF link.strip_all THEN UNCHANGED <<counts, write_to_symtab>>
     ELSE LET k == IF pc = "symtab_objs" THEN obj_symtab(x) ELSE dso_symtab(x) IN
          /\ counts' = [counts EXCEPT ![x] =
               [nlocal |-> Len(k.locals), nglobal |-> Len(k.globals), locals |-> k.locals,
                globals |-> k.globals, strtab_size |-> SumOf(k.locals \o k.globals, NameSize)]]
          /\ write_to_symtab' = write_to_symtab \cup Range(k.locals \o k.globals)
  /\ work' = work \ {x}
  /\ UNCHANGED <<link, pc, chunks, dynstr, dynsym, dynsym_info, versym, verneed, symtab, strtab>>

\* SymtabSection::update_shdr and StrtabSection::update_shdr: who writes where,
\* behind nsecs section symbols. sh_info is where the globals of the first
\* object begin.
Before(s, x, f(_)) == SumOf(SubSeq(s, 1, (CHOOSE i \in DOMAIN s : s[i] = x) - 1), f)
nlocal(x) == counts[x].nlocal
nglobal(x) == counts[x].nglobal
nstr(x) == counts[x].strtab_size
local_symtab_idx(x, nsecs) == 1 + nsecs + Before(SlotChunks \o ObjIds, x, nlocal)
global_symtab_idx(x, nsecs) ==
  1 + nsecs + SumOf(SlotChunks \o ObjIds, nlocal) + Before(ObjIds \o DsoIds, x, nglobal)
symtab_info(nsecs) == global_symtab_idx(ObjIds[1], nsecs)
num_symtab(nsecs) ==
  1 + nsecs + SumOf(SlotChunks \o ObjIds, nlocal) + SumOf(ObjIds \o DsoIds, nglobal)
symtab_size(nsecs) == IF num_symtab(nsecs) = 1 THEN 0 ELSE num_symtab(nsecs)
strtab_offset(x) == 1 + Before(SlotChunks \o ObjIds \o DsoIds, x, nstr)
strtab_size ==
  LET n == SumOf(SlotChunks \o ObjIds \o DsoIds, nstr) IN IF n = 0 THEN 0 ELSE n + 1

\* Symbol::get_output_sym_idx, for a symbol with an output index.
get_output_sym_idx(s, nsecs) ==
  LET f == Sym(s).file
      own == IF is_local(s) THEN counts[f].locals ELSE counts[f].globals
      i == CHOOSE j \in DOMAIN own : own[j] = s
  IN (IF is_local(s) THEN local_symtab_idx(f, nsecs) ELSE global_symtab_idx(f, nsecs)) + i - 1

\* to_output_esym: binding, and the section by which the symbol is defined,
\* for symbols of files; slots and thunks are local to their chunk.
to_output_esym(s, name, sec_of) ==
  [sym |-> s, suffix |-> "", name |-> name,
   bind |-> IF is_local(s) THEN "local" ELSE IF Sym(s).weak THEN "weak" ELSE "global",
   sec |-> IF Sym(s).file \in Dsos \/ Sym(s).undef THEN "UNDEF"
           ELSE IF Sym(s).isec = "" THEN "ABS"
           ELSE IF Sym(s).alive THEN sec_of[Sym(s).isec] ELSE "UNDEF"]

\* Where each of the strings a file or chunk writes begins.
StringOffsets(x, sizes) == [i \in DOMAIN sizes |-> strtab_offset(x) + SumOf(SubSeq(sizes, 1, i - 1), LAMBDA n : n)]

\* ObjectFile::populate_symtab and SharedFile::populate_symtab: they go by the
\* flag of the symbol, not by what was counted, and write names in the order of
\* the file's symbols.
flagged(x) ==
  (IF x \in Objs THEN SelectSeq(FileOf(x).locals, LAMBDA s : s \in write_to_symtab) ELSE <<>>)
  \o SelectSeq(FileOf(x).globals, LAMBDA s : Sym(s).file = x /\ s \in write_to_symtab)
file_entries(x, nsecs, sec_of) ==
  LET all == flagged(x)
      off == StringOffsets(x, [i \in DOMAIN all |-> NameSize(all[i])])
      e == [i \in DOMAIN all |-> to_output_esym(all[i], off[i], sec_of)]
      as_local(y) == x \in Objs /\ is_local(y.sym)
      l == SelectSeq(e, as_local)
      g == SelectSeq(e, LAMBDA y : ~as_local(y))
  IN [entries |-> Over(PlacedAt(IF x \in Objs THEN local_symtab_idx(x, nsecs) ELSE 0, l),
                       PlacedAt(global_symtab_idx(x, nsecs), g)),
      strings |-> [o \in Range(off) |-> NameSize(all[CHOOSE i \in DOMAIN off : off[i] = o])]]

\* populate_symtab of the chunks.
chunk_entries(c, nsecs) ==
  LET slots == link.slots[c]
      maps == mapping_symbols(c)
      sizes == [i \in DOMAIN maps |-> NameSize(maps[i])]
               \o [i \in DOMAIN slots |-> Len(slots[i].sym) + NameSize(slots[i].suffix)]
      off == StringOffsets(c, sizes)
      entry(sym, suffix, o) ==
        [sym |-> sym, suffix |-> suffix, name |-> o, bind |-> "local", sec |-> c]
      of_slot(i) == <<entry(slots[i].sym, slots[i].suffix, off[Len(maps) + i])>>
                    \o [j \in DOMAIN maps |-> entry("", maps[j], off[j])]
  IN IF counts[c].strtab_size = 0 THEN [entries |-> <<>>, strings |-> <<>>]
     ELSE [entries |-> PlacedAt(local_symtab_idx(c, nsecs),
                                FoldLeft(LAMBDA acc, i : acc \o of_slot(i), <<>>, [i \in DOMAIN slots |-> i])),
           strings |-> [o \in Range(off) |-> sizes[CHOOSE i \in DOMAIN off : off[i] = o]]]

\* One chunk or file of the three loops of SymtabSection::copy_buf.
populate_symtab(x, nsecs, sec_of) ==
  LET w == IF x \in Objs \cup Dsos THEN file_entries(x, nsecs, sec_of) ELSE chunk_entries(x, nsecs) IN
  /\ symtab' = Over(w.entries, symtab)
  /\ strtab' = Over(w.strings, strtab)

-----------------------------------------------------------------------------
\* GnuHashSection: the filter, the buckets and the chains, as copy_buf fills them.
bit_ceil(n) == CHOOSE p \in {2^e : e \in 0..n} : p >= n /\ (p = 1 \/ p \div 2 < n)
exported_offset(d) == Cardinality({i \in DOMAIN d : ~Sym(d[i]).exported}) + 1
num_exported(d) == Len(d) + 1 - exported_offset(d)
num_bloom(d) == IF num_exported(d) = 0 THEN 1 ELSE bit_ceil((num_exported(d) * BloomBits) \div WordBits)
bloom_bits(h, n) ==
  {<<(h \div WordBits) % n, h % WordBits>>, <<(h \div WordBits) % n, (h \div 2^BLOOM_SHIFT) % WordBits>>}
bloom(d) == UNION {bloom_bits(Sym(d[i]).djb, num_bloom(d)) : i \in exported_offset(d)..Len(d)}
bucket_of(d, i) == Sym(d[i]).djb % num_buckets(d)
buckets(d) ==
  [b \in 0..(num_buckets(d) - 1) |->
     LET own == {i \in exported_offset(d)..Len(d) : bucket_of(d, i) = b} IN
     IF own = {} THEN 0 ELSE Min(own)]
table(d) ==
  [i \in exported_offset(d)..Len(d) |->
     [hash |-> Sym(d[i]).djb \div 2, last |-> i = Len(d) \/ bucket_of(d, i) # bucket_of(d, i + 1)]]
gnu_hash_size == 4 + num_bloom(dynsym) + num_buckets(dynsym) + num_exported(dynsym)

\* HashSection::copy_buf: each symbol is put before the ones already in its bucket.
sysv_bucket(d, i) == Sym(d[i]).elf % (Len(d) + 1)
sysv_head(d, b) == LET own == {i \in DOMAIN d : sysv_bucket(d, i) = b} IN IF own = {} THEN 0 ELSE Max(own)
sysv_next(d, i) ==
  LET own == {j \in 1..(i - 1) : sysv_bucket(d, j) = sysv_bucket(d, i)} IN IF own = {} THEN 0 ELSE Max(own)
hash_size == 2 + 2 * (Len(dynsym) + 1)
=============================================================================
