------------------------------ MODULE ElfLayout ------------------------------
(***************************************************************************)
(* From input sections to addresses (src/elf/passes.cc and                 *)
(* src/elf/output-chunks.cc): output sections are created by the tasks of  *)
(* a parallel loop over files that share a map, input sections get offsets *)
(* in them, chunks are sorted, sized, and given addresses, file offsets    *)
(* and program headers, again and again until the size of the program      *)
(* header, which is itself laid out, stays the same.                       *)
(* Sizes and addresses are in words; a page is a few words, an entry of a  *)
(* table one, the ELF header two.                                          *)
(***************************************************************************)
EXTENDS ElfTables

CONSTANTS
  PageSize,     \* ctx.page_size
  GroupSize,    \* group_size of compute_section_sizes
  SHN_LORESERVE,\* the first reserved section index
  NameOrder     \* the names of output sections, in the order of strings

ASSUME LayoutAssumption == PageSize \in Nat \ {0, 1} /\ GroupSize \in Nat \ {0}

VARIABLES
  osec_map,     \* the map of create_output_sections: the output sections in it
  cache,        \* each task's copy of it
  next,         \* per file, index of the input section its task is at; 0 before the task
  inserting,    \* files whose task did not find a key and is about to insert it
  osec_of,      \* InputSection::output_section
  members,      \* OutputSection::members
  isec_offset,  \* InputSection::offset
  shdr,         \* per chunk its addr, off, size and align
  phdrs,        \* OutputPhdr::phdrs
  symval,       \* values of linker-synthesized symbols
  reldyn        \* what has been written to .rela.dyn, by index

layoutVars == <<osec_map, cache, next, inserting, osec_of, members, isec_offset>>
tableVars == <<dynstr, dynsym, dynsym_info, versym, verneed, counts, write_to_symtab, symtab, strtab>>

-----------------------------------------------------------------------------
(* Chunks: a name, sh_type, sh_flags and who made it. *)
Chunk(name, type, flags, by) == [name |-> name, type |-> type, flags |-> flags, by |-> by]
Synth(name, type, flags) == Chunk(name, type, flags, "synthetic")
NoChunk == Chunk("", "null", {}, "nobody")
is_header(c) == c.by = "header"
is_osec(c) == c.by \in Objs
alloc(c) == "A" \in c.flags
is_nobits(c) == c.type = "nobits"
is_tbss(c) == is_nobits(c) /\ "T" \in c.flags
is_note(c) == c.type = "note" /\ alloc(c)
When(cond, c) == IF cond THEN <<c>> ELSE <<>>

\* create_synthetic_sections, in the order in which chunks are pushed. EHDR and
\* PHDR are loaded unless --section-order leaves them out.
ordered(name) == \E i \in DOMAIN link.section_order :
                   link.section_order[i].type = "section" /\ link.section_order[i].name = name
by_order == link.section_order # <<>>
header_flags(name) == IF ~by_order \/ ordered(name) THEN {"A"} ELSE {}
relro_padding == Synth(".relro_padding", "nobits", {"A", "W"})
has_relro_paddingNever == FALSE
has_relro_padding == link.relro /\ ~by_order /\ link.separate # "loadable"
create_synthetic_sections ==
  LET RW == {"A", "W"} RX == {"A", "X"} IN
  When(~link.binary, Chunk("EHDR", "null", header_flags("EHDR"), "header"))
  \o When(~link.binary, Chunk("PHDR", "null", header_flags("PHDR"), "header"))
  \o When(~link.binary, Chunk("SHDR", "null", {}, "header"))
  \o <<Synth(".got", "progbits", RW), Synth(".got.plt", "progbits", RW),
       Synth(".rela.dyn", "rela", {"A"}), Synth(".rela.plt", "rela", {"A"})>>
  \o When(link.relr >= 0, Synth(".relr.dyn", "relr", {"A"}))
  \o <<Synth(".strtab", "strtab", {}), Synth(".plt", "progbits", RX), Synth(".plt.got", "progbits", RX),
       Synth(".symtab", "symtab", {}), Synth(".dynsym", "dynsym", {"A"}), Synth(".dynstr", "strtab", {"A"}),
       Synth(".eh_frame", "progbits", {"A"})>>
  \o When(~link.binary, Synth(".shstrtab", "strtab", {}))
  \o When(link.interp, Synth(".interp", "progbits", {"A"}))
  \o When(link.build_id, Synth(".note.gnu.build-id", "note", {"A"}))
  \o When(link.eh_frame_hdr, Synth(".eh_frame_hdr", "progbits", {"A"}))
  \o When(has_relro_padding, relro_padding)
  \o When(link.sysv_hash, Synth(".hash", "hash", {"A"}))
  \o When(link.gnu_hash, Synth(".gnu.hash", "gnu_hash", {"A"}))
  \o When(link.version_definitions # <<>>, Synth(".gnu.version_d", "verdef", {"A"}))
  \o When(has_dynamic, Synth(".dynamic", "dynamic", RW))
  \o <<Synth(".gnu.version", "versym", {"A"}), Synth(".gnu.version_r", "verneed", {"A"})>>

Named(cs, name) == SelectSeq(cs, LAMBDA c : c.name = name)

-----------------------------------------------------------------------------
(* Output sections. An input section has a full name, the stem that the    *)
(* prefixes of get_output_name give it ("" if none does), type, flags,     *)
(* size, align, and the number its name ends in (prio, -1 if none).        *)
Isec(i) == link.isecs[i]
isecs_of(f) == FileOf(f).isecs

get_output_name(i) ==
  IF Isec(i).name \in link.unique \/ "M" \in Isec(i).flags \/ Isec(i).stem = ""
  THEN Isec(i).name
  ELSE IF link.keep_text_section_prefix /\ Isec(i).text_stem # "" THEN Isec(i).text_stem
  ELSE Isec(i).stem

canonicalize_type(name, type) ==
  IF type = "progbits" /\ name = ".init_array" THEN "init_array"
  ELSE IF type = "progbits" /\ name = ".fini_array" THEN "fini_array" ELSE type

get_output_section_key(i) ==
  LET name == get_output_name(i)
      type == canonicalize_type(name, Isec(i).type)
      flags == Isec(i).flags \ {"group", "retain", "compressed"}
  IN [name |-> name, type |-> type,
      flags |-> IF type \in {"init_array", "fini_array"} THEN flags \cup {"W"} ELSE flags]
has_key(o, k) == o.name = k.name /\ o.type = k.type /\ o.flags = k.flags

AtSection(f) == next[f] \in DOMAIN isecs_of(f)
Current(f) == isecs_of(f)[next[f]]
SetOsec(f, o) ==
  /\ osec_of' = [osec_of EXCEPT ![Current(f)] = o]
  /\ cache' = [cache EXCEPT ![f] = @ \cup {o}]
  /\ next' = [next EXCEPT ![f] = @ + 1]

\* The steps of a task of create_output_sections: copy the map under the shared
\* lock; look a key up in the copy, then in the map under the shared lock; and,
\* when it was in neither, insert a new section under the exclusive lock, which
\* leaves one that somebody else has inserted meanwhile.
CopyMap(f) ==
  /\ pc = "osecs" /\ next[f] = 0
  /\ cache' = [cache EXCEPT ![f] = osec_map]
  /\ next' = [next EXCEPT ![f] = 1]
  /\ UNCHANGED <<link, pc, work, chunks, osec_map, inserting, osec_of, members, isec_offset, shdr, phdrs,
                 symval, reldyn, tableVars>>

FindOsec(f) ==
  /\ pc = "osecs" /\ next[f] > 0 /\ AtSection(f) /\ f \notin inserting
  /\ IF ~Isec(Current(f)).alive
     THEN /\ next' = [next EXCEPT ![f] = @ + 1]
          /\ UNCHANGED <<osec_of, cache, inserting>>
     ELSE LET key == get_output_section_key(Current(f))
              found == {o \in cache[f] \cup osec_map : has_key(o, key)} IN
          IF found = {} THEN inserting' = inserting \cup {f} /\ UNCHANGED <<osec_of, cache, next>>
          ELSE SetOsec(f, CHOOSE o \in found : TRUE) /\ UNCHANGED inserting
  /\ UNCHANGED <<link, pc, work, chunks, osec_map, members, isec_offset, shdr, phdrs, symval, reldyn, tableVars>>

map_insertNew(key, o) == [map |-> {x \in osec_map : ~has_key(x, key)} \cup {o}, osec |-> o]
map_insert(key, o) ==
  LET old == {x \in osec_map : has_key(x, key)} IN
  IF old # {} THEN [map |-> osec_map, osec |-> CHOOSE x \in old : TRUE]
  ELSE [map |-> osec_map \cup {o}, osec |-> o]

InsertOsec(f) ==
  /\ f \in inserting
  /\ LET k == get_output_section_key(Current(f))
         r == map_insert(k, Chunk(k.name, k.type, k.flags, f)) IN
     /\ osec_map' = r.map
     /\ SetOsec(f, r.osec)
  /\ inserting' = inserting \ {f}
  /\ UNCHANGED <<link, pc, work, chunks, members, isec_offset, shdr, phdrs, symval, reldyn, tableVars>>

\* sort_init_fini, sort_ctor_dtor and shuffle_sections --reverse: the order of the
\* members of an output section.
init_fini == {".init_array", ".preinit_array", ".fini_array"}
ctor_dtor == {".ctors", ".dtors"}
init_priority(i) == IF Isec(i).prio >= 0 THEN Isec(i).prio ELSE 65536
ctor_priority(i) ==
  IF Isec(i).crt = "begin" THEN -2
  ELSE IF Isec(i).crt = "end" THEN 65536
  ELSE Isec(i).prio
sort_members(name, ms) ==
  LET reversed == link.shuffle = "reverse" IN
  IF name \in init_fini THEN StableSort(IF reversed THEN Reverse(ms) ELSE ms, init_priority)
  ELSE IF name \in ctor_dtor THEN StableSort(IF reversed THEN ms ELSE Reverse(ms), ctor_priority)
  ELSE IF reversed /\ name \notin {".init", ".fini"} THEN Reverse(ms) ELSE ms

\* The rest of create_output_sections, and the passes on members up to the scan:
\* members in the order of files, output sections by name, type and flags.
TypeNumber == [progbits |-> 1, note |-> 7, nobits |-> 8, init_array |-> 14, fini_array |-> 15, preinit_array |-> 16]
FlagNumber == [W |-> 1, A |-> 2, X |-> 4, M |-> 16, T |-> 1024]
chunk_order(c) ==
  LET n == CHOOSE k \in DOMAIN NameOrder : NameOrder[k] = c.name IN
  (n * 32 + TypeNumber[c.type]) * 2048 + MapThenSumSet(LAMBDA x : FlagNumber[x], c.flags)
AddMembers ==
  /\ pc = "osecs" /\ \A f \in Objs : next[f] > Len(isecs_of(f))
  /\ LET all == FoldLeft(LAMBDA acc, f : acc \o isecs_of(f), <<>>, ObjIds)
         in_osec(o) == SelectSeq(all, LAMBDA i : Isec(i).alive /\ osec_of[i] = o) IN
     members' = [o \in osec_map |-> sort_members(o.name, in_osec(o))]
  /\ chunks' = create_synthetic_sections
               \o FoldSet(LAMBDA o, acc : InsertBy(acc, o, chunk_order), <<>>, osec_map)
  /\ pc' = "strings"
  /\ UNCHANGED <<link, work, osec_map, cache, next, inserting, osec_of, isec_offset, shdr, phdrs, symval,
                 reldyn, tableVars>>

-----------------------------------------------------------------------------
(* Sizes. *)
align_to(val, a) == ((val + a - 1) \div a) * a
MaxAlign(s, f(_)) == FoldLeft(LAMBDA acc, x : IF f(x) > acc THEN f(x) ELSE acc, 1, s)
isec_align(i) == Isec(i).align

\* compute_section_sizes: members are taken in groups; a group is sized from
\* offset 0 and then put at an offset aligned for all of its members.
Groups(ms) ==
  [g \in 1..((Len(ms) + GroupSize - 1) \div GroupSize) |->
     SubSeq(ms, (g - 1) * GroupSize + 1, IF g * GroupSize < Len(ms) THEN g * GroupSize ELSE Len(ms))]
place(acc, i) ==
  LET o == align_to(acc.size, Isec(i).align) IN [size |-> o + Isec(i).size, at |-> Append(acc.at, o)]
group_size(g) == FoldLeft(place, [size |-> 0, at |-> <<>>], g).size
group_align(g) == MaxAlign(g, isec_align)
add_group(acc, g) ==
  LET o == align_to(acc.size, group_align(g)) IN
  [size |-> o + group_size(g), at |-> acc.at \o FoldLeft(place, [size |-> o, at |-> <<>>], g).at]
section_layout(ms) == FoldLeft(add_group, [size |-> 0, at |-> <<>>], Groups(ms))

NoShdr == [addr |-> 0, off |-> 0, size |-> 0, align |-> 1]
section_align(o) == IF o.name \in DOMAIN link.section_align THEN link.section_align[o.name] ELSE 1

ComputeSectionSizes ==
  /\ pc = "sizes"
  /\ isec_offset' = [i \in UNION {Range(members[o]) : o \in osec_map} |->
                       LET ms == members[osec_of[i]] IN
                       section_layout(ms).at[CHOOSE k \in DOMAIN ms : ms[k] = i]]
  /\ shdr' = [c \in Range(chunks) |->
       IF is_osec(c)
       THEN [NoShdr EXCEPT !.size = section_layout(members[c]).size,
                           !.align = MaxAlign(<<MaxAlign(members[c], isec_align), section_align(c)>>, LAMBDA n : n)]
       ELSE [NoShdr EXCEPT !.size = CASE c.name = "EHDR" -> 2
                                      [] c.name = ".got" -> 1 + Len(link.slots[".got"])
                                      [] c.name = ".plt.got" -> Len(link.slots[".plt.got"])
                                      [] c.name \in {"SHDR", ".interp", ".note.gnu.build-id", ".relro_padding"} -> 1
                                      [] c.name = ".eh_frame" -> link.eh_frame
                                      [] c.name = ".eh_frame_hdr" -> 1
                                      [] c.name = ".dynstr" -> dynstr.size
                                      [] OTHER -> 0,
                           !.align = IF c.name \in {".plt", ".plt.got"} THEN 2 ELSE 1]]
  /\ pc' = "sort"
  /\ UNCHANGED <<link, work, chunks, osec_map, cache, next, inserting, osec_of, members, phdrs, symval, reldyn, tableVars>>

-----------------------------------------------------------------------------
(* Order of chunks. *)
\* to_phdr_flags and is_relro.
to_phdr_flags(c) ==
  LET write == "W" \in c.flags
      exec == "X" \in c.flags IN
  IF link.omagic THEN {"R", "W", "X"}
  ELSE IF exec /\ link.execute_only THEN {"X"}
  ELSE {"R"} \cup (IF write THEN {"W"} ELSE {})
             \cup (IF exec \/ (~write /\ ~link.rosegment) THEN {"X"} ELSE {})
is_relro(c) ==
  /\ "W" \in c.flags
  /\ \/ "T" \in c.flags
     \/ c.type \in {"init_array", "fini_array", "preinit_array"}
     \/ c.name \in {".got", ".dynamic", ".relro_padding", ".toc", ".alpha_got"}
     \/ c.name = ".got.plt" /\ link.z_now
     \/ c.name \in {".data.rel.ro", ".bss.rel.ro"}

\* sort_output_sections_regular.
Leading == <<".hash", ".gnu.hash", ".dynsym", ".dynstr", ".gnu.version", ".gnu.version_r", ".rela.dyn", ".rela.plt">>
bit(cond, n) == IF cond THEN n ELSE 0
get_rank1(c) ==
  CASE c.name = "EHDR" -> 0
    [] c.name = "PHDR" -> 1
    [] c.name = ".interp" -> 2
    [] is_note(c) -> 3
    [] ~is_osec(c) /\ c.name \in Range(Leading) -> 3 + CHOOSE i \in DOMAIN Leading : Leading[i] = c.name
    [] c.name = "SHDR" -> 4096
    [] OTHER -> 1024 + bit(~alloc(c), 512) + bit("W" \in c.flags, 256) + bit("X" \in c.flags, 128)
                + bit("T" \notin c.flags, 64) + bit(~is_relro(c), 32) + bit(is_nobits(c), 16)
get_rank2(c) ==
  CASE c.type = "note" -> 0 - shdr[c].align
    [] c.name = ".got" -> 1
    [] c.name = ".toc" -> 2
    [] c.name = ".alpha_got" -> 3
    [] c.name = ".relro_padding" -> 900
    [] OTHER -> 0
rank_regular(c) == get_rank1(c) * 2000 + get_rank2(c)

\* sort_output_sections_by_order.
get_section_order_group(c) ==
  IF is_nobits(c) THEN "BSS" ELSE IF "X" \in c.flags THEN "TEXT" ELSE IF "W" \in c.flags THEN "DATA" ELSE "RODATA"
OrderAt(type, name) ==
  {j \in DOMAIN link.section_order : link.section_order[j].type = type /\ link.section_order[j].name = name}
sect_order(c) ==
  LET group == OrderAt("group", get_section_order_group(c)) IN
  IF ~alloc(c)
  THEN IF c.name = "EHDR" THEN -2 ELSE IF c.name = "PHDR" THEN -1 ELSE IF c.name = "SHDR" THEN 1001 ELSE 1000
  ELSE IF OrderAt("section", c.name) # {} THEN Min(OrderAt("section", c.name))
  ELSE IF group # {} THEN Min(group) ELSE 0
\* "missing section specification"
has_no_order(c) ==
  alloc(c) /\ OrderAt("section", c.name) = {} /\ OrderAt("group", get_section_order_group(c)) = {}

\* A link that has reported an error goes on to the next checkpoint, where it
\* drops what it has made.
SortOutputSections ==
  /\ pc = "sort"
  /\ chunks' = IF by_order THEN StableSort(chunks, sect_order) ELSE StableSort(chunks, rank_regular)
  /\ pc' = IF by_order /\ \E i \in DOMAIN chunks : has_no_order(chunks[i]) THEN "failed" ELSE "finalize"
  /\ UNCHANGED <<link, work, layoutVars, shdr, phdrs, symval, reldyn, tableVars>>

-----------------------------------------------------------------------------
(* Program headers. *)
\* Maximal runs of neighbouring elements: one begins where "begins" holds, and
\* an element joins the run before it where "joins" holds.
Runs(s, begins(_), joins(_, _)) ==
  LET step(acc, c) ==
        IF acc.open /\ joins(acc.runs[Len(acc.runs)], c)
        THEN [acc EXCEPT !.runs[Len(acc.runs)] = Append(@, c)]
        ELSE IF begins(c) THEN [runs |-> Append(acc.runs, <<c>>), open |-> TRUE]
        ELSE [acc EXCEPT !.open = FALSE]
  IN FoldLeft(step, [runs |-> <<>>, open |-> FALSE], s).runs

\* define and append of create_phdr: the segment of a run of chunks.
segment(type, flags, min_align, run, sh) ==
  LET end(c) == sh[c].addr + sh[c].size
      vaddr == sh[Head(run)].addr
      bits == SelectSeq(run, LAMBDA c : ~is_nobits(c))
  IN [type |-> type, flags |-> flags, off |-> sh[Head(run)].off, vaddr |-> vaddr, paddr |-> vaddr,
      filesz |-> IF bits = <<>> THEN 0 ELSE end(Last(bits)) - vaddr,
      memsz |-> end(Last(run)) - vaddr,
      align |-> MaxAlign(<<min_align>> \o [i \in DOMAIN run |-> sh[run[i]].align], LAMBDA n : n)]

\* PT_LOAD: chunks with the same flags, in the file at the same distance as in
\* memory, and the zero-filled ones behind them.
load_runs(cs, sh) ==
  LET is_bss(c) == is_nobits(c) /\ "T" \notin c.flags
      same_distance(a, b) == sh[b].off - sh[a].off = sh[b].addr - sh[a].addr
      joins(run, c) == /\ to_phdr_flags(c) = to_phdr_flags(Head(run))
                       /\ is_bss(c) \/ (~is_bss(Last(run)) /\ same_distance(Head(run), c))
  IN Runs(SelectSeq(cs, LAMBDA c : ~is_tbss(c)), alloc, joins)
note_runs(cs) ==
  Runs(cs, is_note, LAMBDA run, c : is_note(c) /\ to_phdr_flags(c) = to_phdr_flags(Head(run)))
tls(c) == "T" \in c.flags
Alike(cs, p(_)) == Runs(cs, p, LAMBDA run, c : p(c))

\* --physical-image-base: segments stay where they are in memory until a gap of
\* two pages, and are packed from there on.
set_paddr(loads) ==
  LET step(acc, p) ==
        IF acc.in_sync /\ acc.addr <= p.vaddr /\ p.vaddr < acc.addr + 2 * PageSize
        THEN [out |-> Append(acc.out, p), addr |-> p.vaddr + p.memsz, in_sync |-> TRUE]
        ELSE [out |-> Append(acc.out, [p EXCEPT !.paddr = acc.addr]), addr |-> acc.addr + p.memsz, in_sync |-> FALSE]
      base == link.physical_image_base
      first == [out |-> <<[Head(loads) EXCEPT !.paddr = base]>>, addr |-> base + Head(loads).memsz,
                in_sync |-> Head(loads).vaddr = base]
  IN IF base < 0 \/ loads = <<>> THEN loads ELSE FoldLeft(step, first, Tail(loads)).out

\* create_phdr.
One(type, flags, cs, sh) == [i \in DOMAIN cs |-> segment(type, flags, 1, <<cs[i]>>, sh)]
Segments(type, flags, min_align, runs, sh) == [i \in DOMAIN runs |-> segment(type, flags, min_align, runs[i], sh)]
create_phdr(cs, sh) ==
  LET loads == load_runs(cs, sh)
      notes == note_runs(cs) IN
  One("PHDR", {"R"}, SelectSeq(Named(cs, "PHDR"), alloc), sh)
  \o One("INTERP", {"R"}, Named(cs, ".interp"), sh)
  \o [i \in DOMAIN notes |-> segment("NOTE", to_phdr_flags(Head(notes[i])), 1, notes[i], sh)]
  \o set_paddr(StableSort([i \in DOMAIN loads |-> segment("LOAD", to_phdr_flags(Head(loads[i])), PageSize, loads[i], sh)],
                          LAMBDA p : p.vaddr))
  \o Segments("TLS", {"R"}, 1, Alike(cs, tls), sh)
  \o One("DYNAMIC", {"R", "W"}, SelectSeq(Named(cs, ".dynamic"), LAMBDA c : sh[c].size > 0), sh)
  \o One("GNU_EH_FRAME", {"R"}, Named(cs, ".eh_frame_hdr"), sh)
  \o <<[type |-> "GNU_STACK", flags |-> {"R", "W"}, off |-> 0, vaddr |-> 0, paddr |-> 0, filesz |-> 0,
        memsz |-> 0, align |-> 1]>>
  \o (IF link.relro
      THEN LET relro == Segments("GNU_RELRO", {"R"}, 1, Alike(cs, is_relro), sh) IN
           [i \in DOMAIN relro |-> [relro[i] EXCEPT !.align = 1]]
      ELSE <<>>)

-----------------------------------------------------------------------------
(* Section headers. *)
SizeOf(cs, sh, name) == SumOf(Named(cs, name), LAMBDA c : sh[c].size)
Present(cs, name) == Named(cs, name) # <<>>

\* create_dynamic_section: how many entries it makes. An erased chunk counts as
\* one of size 0.
dynamic_entries(cs, sh) ==
  LET n(cond, k) == IF cond THEN k ELSE 0
      sized(name, k) == n(SizeOf(cs, sh, name) > 0, k)
      typed(type) == n(\E i \in DOMAIN cs : is_osec(cs[i]) /\ cs[i].type = type, 2) IN
  Len(link.dsos) + n(link.rpaths # "", 1) + n(link.soname # "", 1) + Len(link.auxiliary) + Len(link.filter)
  + sized(".rela.dyn", 3) + n(link.relr >= 0, 3) + sized(".rela.plt", 3) + sized(".got.plt", 1)
  + sized(".dynsym", 2) + sized(".dynstr", 2)
  + typed("init_array") + typed("preinit_array") + typed("fini_array")
  + sized(".gnu.version", 1) + sized(".gnu.version_r", 2) + n(link.version_definitions # <<>>, 2)
  + n(link.init, 1) + n(link.fini, 1) + n(link.sysv_hash, 1) + n(link.gnu_hash, 1)
  + n(link.textrel, 1) + n(link.textrel \/ link.z_now, 1) + n(link.pie \/ link.z_now, 1) + n(~link.shared, 1) + 1 + link.spare_dynamic_tags

\* Chunk::update_shdr of every kind of chunk, for the chunks cs of which nsecs
\* have an index.
shstrtab_size(cs) ==
  1 + MapThenSumSet(NameSize, {cs[i].name : i \in {j \in DOMAIN cs : ~is_header(cs[j])}})
num_dynrels == SumOf(Named(chunks, ".got"), LAMBDA c : Len(link.dynrels[c.name]))
               + SumOf(ObjIds, LAMBDA f : Len(link.dynrels[f]))
update_shdr(c, cs, sh, nsecs) ==
  CASE c.name = "PHDR" -> Len(create_phdr(cs, sh))
    [] c.name = ".got.plt" -> 1 + Len(link.slots[".plt"])
    [] c.name = ".plt" -> IF link.slots[".plt"] = <<>> THEN 0 ELSE 1 + Len(link.slots[".plt"])
    [] c.name = ".rela.plt" -> Len(link.slots[".plt"])
    [] c.name = ".rela.dyn" -> num_dynrels
    [] c.name = ".relr.dyn" -> link.relr
    [] c.name = ".strtab" -> strtab_size
    [] c.name = ".symtab" -> symtab_size(nsecs)
    [] c.name = ".dynsym" -> IF has_dynsym THEN Len(dynsym) + 1 ELSE 0
    [] c.name = ".dynstr" -> dynstr.size
    [] c.name = ".hash" -> IF has_dynsym THEN hash_size ELSE 0
    [] c.name = ".gnu.hash" -> IF has_dynsym THEN gnu_hash_size ELSE 0
    [] c.name = ".gnu.version" -> Cardinality(DOMAIN versym)
    [] c.name = ".gnu.version_r" -> Len(verneed) + SumOf(verneed, LAMBDA g : Len(g.auxs))
    [] c.name = ".gnu.version_d" -> 2 * (1 + Len(link.version_definitions))
    [] c.name = ".dynamic" -> IF link.static /\ ~link.pie THEN 0 ELSE 2 * dynamic_entries(cs, sh)
    [] c.name = ".shstrtab" -> shstrtab_size(cs)
    [] OTHER -> sh[c].size
update_all(cs, sh, nsecs) ==
  FoldLeft(LAMBDA acc, c : IF is_osec(c) THEN acc ELSE [acc EXCEPT ![c].size = update_shdr(c, cs, acc, nsecs)], sh, cs)

\* shndx: the index of a chunk, 0 for headers.
Sections(cs) == SelectSeq(cs, LAMBDA c : ~is_header(c))
shndx(c) == IF is_header(c) THEN 0 ELSE CHOOSE i \in DOMAIN Sections(chunks) : Sections(chunks)[i] = c
NumSections == Len(Sections(chunks))

\* compute_section_headers: sizes, removal of empty chunks, indices, and sizes
\* again for the chunks that depend on others.
symtab_shndx == Synth(".symtab_shndx", "symtab_shndx", {})
remove_empty(first) ==
  LET kept == SelectSeq(chunks, LAMBDA c : is_osec(c) \/ first[c].size > 0)
  IN IF SHN_LORESERVE <= Len(Sections(kept)) + 1 /\ Present(kept, ".symtab")
     THEN Append(kept, symtab_shndx) ELSE kept
final_shdrs(cs, first) ==
  LET nsecs == Len(Sections(cs))
      sh == [c \in Range(cs) |-> IF c = symtab_shndx THEN [NoShdr EXCEPT !.size = symtab_size(nsecs)]
                                 ELSE IF c.name = "SHDR" THEN [first[c] EXCEPT !.size = nsecs + 1] ELSE first[c]]
  IN update_all(cs, sh, nsecs)

ComputeSectionHeaders ==
  /\ pc = "headers"
  /\ \E first \in {update_all(chunks, shdr, 0)} :
       chunks' = remove_empty(first) /\ shdr' = final_shdrs(chunks', first)
  /\ phdrs' = IF link.binary THEN <<>> ELSE create_phdr(chunks', shdr')
  /\ pc' = "layout"
  /\ UNCHANGED <<link, work, layoutVars, symval, reldyn, tableVars>>

-----------------------------------------------------------------------------
(* Addresses and file offsets. *)
\* The padding where memory attributes change from f1 to f2.
page_splitNever(addr, f1, f2) == addr
page_split(addr, f1, f2) ==
  IF f1 = f2 THEN addr
  ELSE IF link.separate = "loadable" \/ (link.separate = "code" /\ ("X" \in f1) # ("X" \in f2))
  THEN align_to(addr, PageSize)
  ELSE IF addr % PageSize # 0 THEN addr + PageSize ELSE addr
attributes(c) == to_phdr_flags(c) \cup (IF is_relro(c) THEN {"relro"} ELSE {})

\* set_virtual_addresses_regular. A .tbss takes no room: it and the ones next to
\* it are placed from "tbss" on, which starts at addr.
set_virtual_addresses_regular(cs, sh) ==
  LET tls_chunks == SelectSeq(cs, tls)
      tls_align == MaxAlign(tls_chunks, LAMBDA c : sh[c].align)
      alignment(c) == IF tls_chunks # <<>> /\ c = Head(tls_chunks) THEN tls_align ELSE sh[c].align
      put(acc, c, a) == [acc EXCEPT !.addr = a + sh[c].size, !.sh[c].addr = a, !.prev = c, !.tbss = -1]
      step(acc, c) ==
        LET split == IF acc.prev \in {NoChunk, relro_padding} THEN acc.addr
                     ELSE page_split(acc.addr, attributes(acc.prev), attributes(c))
            in_run == is_tbss(c) /\ acc.tbss >= 0
            at == align_to(IF in_run THEN acc.tbss ELSE split, alignment(c))
        IN IF ~alloc(c) THEN [acc EXCEPT !.prev = c, !.tbss = -1]
           ELSE IF c = relro_padding
           THEN [acc EXCEPT !.addr = @ + PageSize, !.prev = c, !.tbss = -1,
                            !.sh[c].addr = acc.addr,
                            !.sh[c].size = align_to(acc.addr, PageSize) - acc.addr]
           ELSE IF c.name \in DOMAIN link.section_start /\ ~in_run THEN put(acc, c, link.section_start[c.name])
           ELSE IF is_tbss(c)
           THEN [addr |-> IF in_run THEN acc.addr ELSE split, sh |-> [acc.sh EXCEPT ![c].addr = at],
                 prev |-> c, tbss |-> at + sh[c].size]
           ELSE put(acc, c, at)
  IN FoldLeft(step, [addr |-> link.image_base, sh |-> sh, prev |-> NoChunk, tbss |-> -1], cs).sh

\* set_virtual_addresses_by_order: directives in turn, each taking chunks from
\* the front of the allocated ones that are left. Without -z separate-code
\* nothing is padded.
set_virtual_addresses_by_order(cs, sh) ==
  LET assign(acc) ==
        LET i == acc.i
            c == cs[i]
            f1 == to_phdr_flags(cs[i - 1])
            f2 == to_phdr_flags(c)
            split == IF i = 1 \/ link.separate = "none" \/ f1 = f2
                        \/ (link.separate = "code" /\ ("X" \in f1) = ("X" \in f2))
                     THEN acc.addr ELSE align_to(acc.addr, PageSize)
            at == align_to(split, sh[c].align)
            later == {j \in DOMAIN cs : j > i /\ alloc(cs[j])}
        IN [acc EXCEPT !.addr = at + sh[c].size, !.sh[c].addr = at,
                       !.i = IF later = {} THEN Len(cs) + 1 ELSE Min(later)]
      ready(acc, j) == acc.i \in DOMAIN cs /\ sect_order(cs[acc.i]) = j
      step(acc, j) ==
        LET ord == link.section_order[j] IN
        CASE ord.type = "section" -> IF ready(acc, j) THEN assign(acc) ELSE acc
          [] ord.type = "group" -> FoldLeft(LAMBDA a, k : IF ready(a, j) THEN assign(a) ELSE a, acc, cs)
          [] ord.type = "addr" -> [acc EXCEPT !.addr = ord.value]
          [] ord.type = "align" -> [acc EXCEPT !.addr = align_to(@, ord.value)]
          [] ord.type = "symbol" -> [acc EXCEPT !.syms = Over([n \in {<<"symbol", ord.name>>} |-> acc.addr], @)]
      allocated == {j \in DOMAIN cs : alloc(cs[j])}
      start == [addr |-> link.image_base, sh |-> sh, i |-> IF allocated = {} THEN Len(cs) + 1 ELSE Min(allocated),
                syms |-> <<>>]
  IN FoldLeft(step, start, [j \in DOMAIN link.section_order |-> j])

\* align_with_skew and set_file_offsets: loaded chunks keep in the file the
\* distances they have in memory while these grow by less than a page.
align_with_skew(val, a, skew) ==
  LET x == (val \div a) * a + (skew % a) IN IF val <= x THEN x ELSE x + a
set_file_offsets(cs, sh) ==
  LET step(acc, c) ==
        LET joins == /\ acc.first # NoChunk
                     /\ sh[c].addr >= sh[acc.first].addr
                     /\ sh[c].addr - sh[acc.prev].addr - sh[acc.prev].size < PageSize
            start == IF sh[c].align > PageSize THEN align_to(acc.fileoff, sh[c].align)
                     ELSE align_with_skew(acc.fileoff, PageSize, sh[c].addr)
            put(o, first) == [acc EXCEPT !.sh[c].off = o, !.fileoff = o + sh[c].size, !.first = first, !.prev = c]
        IN IF ~alloc(c) THEN put(align_to(acc.fileoff, sh[c].align), NoChunk)
           ELSE IF is_nobits(c) THEN [acc EXCEPT !.first = NoChunk]
           ELSE IF joins THEN put(acc.sh[acc.first].off + sh[c].addr - sh[acc.first].addr, acc.first)
           ELSE put(start, c)
  IN FoldLeft(step, [fileoff |-> 0, sh |-> sh, first |-> NoChunk, prev |-> NoChunk], cs)

\* One round of set_osec_offsets.
SetOsecOffsets ==
  /\ pc = "layout"
  /\ LET ordered_layout == set_virtual_addresses_by_order(chunks, shdr)
         placed == IF by_order THEN ordered_layout.sh ELSE set_virtual_addresses_regular(chunks, shdr)
         sh == set_file_offsets(chunks, placed).sh
         ph == create_phdr(chunks, sh)
         phdr == Named(chunks, "PHDR")
         done == phdr = <<>> \/ sh[Head(phdr)].size = Len(ph) IN
     /\ shdr' = IF phdr = <<>> THEN sh ELSE [sh EXCEPT ![Head(phdr)].size = Len(ph)]
     /\ phdrs' = IF phdr = <<>> THEN <<>> ELSE ph
     /\ symval' = IF by_order THEN Over(ordered_layout.syms, symval) ELSE symval
     /\ pc' = IF done THEN "fix" ELSE "layout"
  /\ UNCHANGED <<link, work, chunks, layoutVars, reldyn, tableVars>>

-----------------------------------------------------------------------------
(* Symbols of the linker. *)
\* fix_synthetic_symbols: assignments in the order in which they are made; a
\* later one replaces an earlier one. A chunk that was removed is at 0. Keys are
\* pairs, the second part for __start_ and the like.
start(sym, cs) == [i \in DOMAIN cs |-> <<<<sym, "">>, shdr[cs[i]].addr>>]
stop(sym, cs) == [i \in DOMAIN cs |-> <<<<sym, "">>, shdr[cs[i]].addr + shdr[cs[i]].size>>]
AddrOf(name) == IF Present(chunks, name) THEN shdr[Head(Named(chunks, name))].addr ELSE 0
EndOf(name) == AddrOf(name) + SizeOf(chunks, shdr, name)
Loaded == SelectSeq(chunks, LAMBDA c : ~is_header(c) /\ alloc(c))
OfType(type) == SelectSeq(Loaded, LAMBDA c : c.type = type)
First(cs) == IF cs = <<>> THEN <<>> ELSE <<Head(cs)>>

get_num_irelative_relocs ==
  LET irelative(x) == Len(SelectSeq(link.dynrels[x], LAMBDA r : r.rank = 2))
  IN irelative(".got") + SumOf(ObjIds, irelative)

to_paddr(vaddr) ==
  LET in == SelectSeq(phdrs, LAMBDA p : p.type = "LOAD" /\ p.vaddr <= vaddr /\ vaddr < p.vaddr + p.memsz)
  IN IF in = <<>> THEN 0 ELSE Head(in).paddr + vaddr - Head(in).vaddr

\* get_start_stop_name: the chunks whose names are C identifiers, or every one
\* with --start-stop.
bounded(c) == alloc(c) /\ (c.name \in link.c_identifiers \/ link.start_stop)
start_stop(c) ==
  LET lo == shdr[c].addr
      size == shdr[c].size IN
  <<<<<<"__start_", c.name>>, lo>>, <<<<"__stop_", c.name>>, lo + size>>>>
  \o (IF link.physical_image_base < 0 THEN <<>>
      ELSE <<<<<<"__phys_start_", c.name>>, to_paddr(lo)>>, <<<<"__phys_stop_", c.name>>, to_paddr(lo) + size>>>>)

synthetic_values ==
  start("__bss_start", First(Named(Loaded, ".bss")))
  \o start("__ehdr_start", SelectSeq(Named(chunks, "EHDR"), alloc))
  \o start("__dso_handle", First(Loaded))
  \o (IF ~link.static \/ link.pie THEN <<>>
      ELSE <<<<<<"__rel_iplt_start", "">>, EndOf(".rela.dyn") - get_num_irelative_relocs>>,
             <<<<"__rel_iplt_end", "">>, EndOf(".rela.dyn")>>>>)
  \o start("__init_array_start", OfType("init_array")) \o stop("__init_array_end", OfType("init_array"))
  \o start("__preinit_array_start", OfType("preinit_array")) \o stop("__preinit_array_end", OfType("preinit_array"))
  \o start("__fini_array_start", OfType("fini_array")) \o stop("__fini_array_end", OfType("fini_array"))
  \o stop("_end", Loaded)
  \o stop("_etext", SelectSeq(Loaded, LAMBDA c : "X" \in c.flags))
  \o stop("_edata", SelectSeq(Loaded, LAMBDA c : ~is_nobits(c)))
  \o (IF has_dynamic THEN <<<<<<"_DYNAMIC", "">>, AddrOf(".dynamic")>>>> ELSE <<>>)
  \o <<<<<<"_GLOBAL_OFFSET_TABLE_", "">>, AddrOf(".got.plt")>>,
       <<<<"_PROCEDURE_LINKAGE_TABLE_", "">>, AddrOf(".plt")>>,
       <<<<"_TLS_MODULE_BASE_", "">>,
         LET t == SelectSeq(phdrs, LAMBDA p : p.type = "TLS") IN IF t = <<>> THEN 0 ELSE Head(t).vaddr>>>>
  \o (IF link.eh_frame_hdr THEN <<<<<<"__GNU_EH_FRAME_HDR", "">>, AddrOf(".eh_frame_hdr")>>>> ELSE <<>>)
  \o FoldLeft(LAMBDA acc, c : acc \o start_stop(c), <<>>, SelectSeq(Loaded, bounded))

FixSyntheticSymbols ==
  /\ pc = "fix"
  /\ symval' = FoldLeft(LAMBDA acc, a : Over([k \in {a[1]} |-> a[2]], acc), symval, synthetic_values)
  /\ pc' = "copy_rels"
  /\ work' = {".got"} \cup Objs
  /\ UNCHANGED <<link, chunks, layoutVars, shdr, phdrs, reldyn, tableVars>>

-----------------------------------------------------------------------------
(* Contents. *)
\* RelDynSection::update_shdr: the part of .rela.dyn of each writer; and the
\* writers, GotSection::copy_buf and the sections of an object.
reldyn_offset(x) == Before(<<".got">> \o ObjIds, x, LAMBDA y : Len(link.dynrels[y]))
CopyDynrels(x) ==
  /\ pc = "copy_rels" /\ x \in work
  /\ reldyn' = Over(PlacedAt(reldyn_offset(x), link.dynrels[x]), reldyn)
  /\ work' = work \ {x}
  /\ UNCHANGED <<link, pc, chunks, layoutVars, shdr, phdrs, symval, tableVars>>

\* SymtabSection::copy_buf: the symbols of sections, then three loops.
section_symbols ==
  [i \in 1..NumSections |->
     [sym |-> "", suffix |-> "section", name |-> 0, bind |-> "local", sec |-> Sections(chunks)[i].name]]
StartSymtab ==
  /\ pc = "copy_rels" /\ work = {}
  /\ IF Present(chunks, ".symtab")
     THEN /\ symtab' = section_symbols
          /\ strtab' = [o \in {0} |-> 1]
          /\ work' = Range(SlotChunks)
          /\ pc' = "copy_chunks"
     ELSE pc' = "sort_rels" /\ UNCHANGED <<symtab, strtab, work>>
  /\ UNCHANGED <<link, chunks, layoutVars, shdr, phdrs, symval, reldyn, dynstr, dynsym, dynsym_info, versym,
                 verneed, counts, write_to_symtab>>
PopulateSymtab(x) ==
  /\ pc \in {"copy_chunks", "copy_objs", "copy_dsos"} /\ x \in work
  /\ populate_symtab(x, NumSections, [i \in DOMAIN osec_of |-> osec_of[i].name])
  /\ work' = work \ {x}
  /\ UNCHANGED <<link, pc, chunks, layoutVars, shdr, phdrs, symval, reldyn, dynstr, dynsym, dynsym_info, versym,
                 verneed, counts, write_to_symtab>>

\* RelDynSection::sort.
reldyn_orderBySym(r) == r.sym * 100 + r.off
reldyn_order(r) == (r.rank * 100 + r.sym) * 100 + r.off
sort_reldyn(rels) == StableSort(rels, reldyn_order)
SortDynrels ==
  /\ pc = "sort_rels"
  /\ reldyn' = PlacedAt(0, sort_reldyn([i \in 1..Cardinality(DOMAIN reldyn) |-> reldyn[i - 1]]))
  /\ pc' = "done"
  /\ UNCHANGED <<link, work, chunks, layoutVars, shdr, phdrs, symval, tableVars>>

\* The end of one parallel loop and the beginning of the next.
NextLoop ==
  /\ work = {}
  /\ \/ pc = "symtab_chunks" /\ pc' = "symtab_objs" /\ work' = Objs
     \/ pc = "symtab_objs" /\ pc' = "symtab_dsos" /\ work' = Dsos
     \/ pc = "symtab_dsos" /\ pc' = "headers" /\ work' = {}
     \/ pc = "copy_chunks" /\ pc' = "copy_objs" /\ work' = Objs
     \/ pc = "copy_objs" /\ pc' = "copy_dsos" /\ work' = Dsos
     \/ pc = "copy_dsos" /\ pc' = "sort_rels" /\ work' = {}
  /\ UNCHANGED <<link, chunks, layoutVars, shdr, phdrs, symval, reldyn, tableVars>>
=============================================================================
