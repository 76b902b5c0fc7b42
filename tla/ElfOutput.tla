------------------------------ MODULE ElfOutput ------------------------------
(***************************************************************************)
(* The passes of elf_main from the creation of output sections to the      *)
(* finished file, and what makes the file right: the loader maps it as the *)
(* sections ask, finds symbols and versions in it, and the tables that are *)
(* sized in one pass and filled in another agree.                          *)
(***************************************************************************)
EXTENDS ElfLayout

NoFile == [n \in {} |-> 0]
Init ==
  /\ \E o \in Outputs : link = OutputOf(o)
  /\ pc = "osecs"
  /\ work = {}
  /\ chunks = create_synthetic_sections
  /\ osec_map = {}
  /\ cache = [f \in Objs |-> {}]
  /\ next = [f \in Objs |-> 0]
  /\ inserting = {}
  /\ osec_of = [i \in DOMAIN link.isecs |-> NoChunk]
  /\ members = NoFile
  /\ isec_offset = NoFile
  /\ shdr = NoFile
  /\ phdrs = <<>>
  /\ symval = NoFile
  /\ reldyn = NoFile
  /\ dynstr = [strings |-> NoFile, dynsym_offset |-> -1, size |-> IF has_dynamic THEN 1 ELSE 0]
  /\ dynsym = <<>>
  /\ dynsym_info = 0
  /\ versym = NoFile
  /\ verneed = <<>>
  /\ counts = [x \in {".got", ".plt", ".plt.got", ".text"} \cup Objs \cup Dsos |-> NoCount]
  /\ write_to_symtab = link.retained
  /\ symtab = NoFile
  /\ strtab = NoFile

layoutOnly == <<osec_map, cache, next, inserting, osec_of, members, isec_offset, shdr, phdrs, symval, reldyn>>
Done == pc \in {"done", "failed"} /\ UNCHANGED <<link, pc, work, chunks, layoutOnly, tableVars>>

Next ==
  \/ \E f \in Objs : CopyMap(f) \/ FindOsec(f) \/ InsertOsec(f)
  \/ AddMembers
  \/ AddStrings /\ UNCHANGED layoutOnly
  \/ AddDynsyms /\ UNCHANGED layoutOnly
  \/ ComputeSectionSizes
  \/ SortOutputSections
  \/ FinalizeDynsym /\ UNCHANGED layoutOnly
  \/ ConstructVerdef /\ UNCHANGED layoutOnly
  \/ ConstructVerneed /\ UNCHANGED layoutOnly
  \/ \E x \in work : ComputeSymtabSize(x) /\ UNCHANGED layoutOnly
  \/ ComputeSectionHeaders
  \/ SetOsecOffsets
  \/ FixSyntheticSymbols
  \/ \E x \in work : CopyDynrels(x)
  \/ StartSymtab
  \/ \E x \in work : PopulateSymtab(x)
  \/ SortDynrels
  \/ NextLoop
  \/ Done

vars == <<link, pc, work, chunks, layoutOnly, tableVars>>

\* elf_main runs its passes one after the other and the parallel loops end.
\* Progress is WF_vars(Next) with ENABLED written out: a step is possible until
\* the link has ended. (TLC takes far too long to evaluate ENABLED of the passes.)
Progress == []<>(pc \in {"done", "failed"}) \/ []<><<Next>>_vars
Spec == Init /\ [][Next]_vars /\ WF_vars(NextLoop) /\ Progress

-----------------------------------------------------------------------------
(* Properties. *)
Overlap(a, n, b, m) == n > 0 /\ m > 0 /\ a < b + m /\ b < a + n
LaidOut == pc \in {"fix", "copy_rels", "copy_chunks", "copy_objs", "copy_dsos", "sort_rels", "done"}
Loads == {i \in DOMAIN phdrs : phdrs[i].type = "LOAD"}
PageOf(a) == a \div PageSize

\* What execve and the dynamic loader make of PT_LOADs (external): a chunk is
\* mapped by the segments around it, from the file where it has contents there.
covers(p, c) ==
  /\ p.vaddr <= shdr[c].addr /\ shdr[c].addr + shdr[c].size <= p.vaddr + p.memsz
  /\ p.flags = to_phdr_flags(c)
  /\ IF is_nobits(c) THEN shdr[c].addr >= p.vaddr + p.filesz
     ELSE /\ shdr[c].addr + shdr[c].size <= p.vaddr + p.filesz
          /\ shdr[c].off - p.off = shdr[c].addr - p.vaddr

\* The image in memory is what the sections ask for: every loaded chunk is in
\* exactly one segment of its own protection, with its bytes where the file has
\* them or zero-filled; segments are congruent to their place in the file, do
\* not share pages, and those read-only after relocation share none with data
\* that stays writable; thread-local chunks are aligned in the template. (For
\* -z and --section options that promise pages; set_virtual_addresses_regular,
\* set_file_offsets and create_phdr agree on it only once the loop is over.)
MemoryImage ==
  (LaidOut /\ ~link.binary) =>
    /\ \A c \in Range(chunks) : (alloc(c) /\ ~is_tbss(c) /\ shdr[c].size > 0) =>
         Cardinality({i \in Loads : covers(phdrs[i], c)}) = 1
    /\ \A i \in Loads : (phdrs[i].off - phdrs[i].vaddr) % PageSize = 0 \/ phdrs[i].filesz = 0
    /\ \A i, j \in Loads : i < j => phdrs[i].vaddr + phdrs[i].memsz <= phdrs[j].vaddr
    /\ ~by_order => \A i, j \in Loads : (i < j /\ phdrs[i].memsz > 0) =>
         PageOf(phdrs[i].vaddr + phdrs[i].memsz - 1) < PageOf(phdrs[j].vaddr)
    /\ \A i \in DOMAIN phdrs : (phdrs[i].type = "GNU_RELRO" /\ Present(chunks, ".relro_padding")) =>
         /\ (phdrs[i].vaddr + phdrs[i].memsz) % PageSize = 0
         /\ \A c \in Range(chunks) : ("W" \in c.flags /\ alloc(c) /\ ~is_relro(c) /\ shdr[c].size > 0) =>
              ~Overlap(PageOf(phdrs[i].vaddr) * PageSize, (phdrs[i].vaddr % PageSize) + phdrs[i].memsz,
                       shdr[c].addr, shdr[c].size)
    /\ ~by_order => \A i \in DOMAIN phdrs : phdrs[i].type = "TLS" =>
         /\ phdrs[i].vaddr % phdrs[i].align = 0
         /\ \A c \in Range(chunks) : tls(c) => shdr[c].addr % shdr[c].align = 0

\* Every chunk was given the room that it writes, no two share bytes of the
\* file, and input sections are in the one output section of their key, apart
\* and aligned for wherever the section lands. (DynamicSection::copy_buf asserts
\* its part of it; two files that meet a new key at once must agree on the
\* section.)
RoomForContents ==
  /\ LaidOut =>
       /\ \A c \in Range(chunks) : ~is_osec(c) => update_shdr(c, chunks, shdr, NumSections) = shdr[c].size
       /\ \A c, d \in Range(chunks) : (c # d /\ ~is_nobits(c) /\ ~is_nobits(d)) =>
            ~Overlap(shdr[c].off, shdr[c].size, shdr[d].off, shdr[d].size)
       /\ \A i, j \in DOMAIN isec_offset : (i # j /\ osec_of[i] = osec_of[j]) =>
            ~Overlap(isec_offset[i], Isec(i).size, isec_offset[j], Isec(j).size)
       /\ \A i \in DOMAIN isec_offset :
            /\ (shdr[osec_of[i]].addr + isec_offset[i]) % Isec(i).align = 0
                 \/ osec_of[i].name \in DOMAIN link.section_start
            /\ isec_offset[i] + Isec(i).size <= shdr[osec_of[i]].size
  /\ \A i, j \in DOMAIN osec_of :
       (osec_of[i] # NoChunk /\ osec_of[j] # NoChunk /\ get_output_section_key(i) = get_output_section_key(j)) =>
         osec_of[i] = osec_of[j]

\* What the dynamic loader does with the tables (external): the bloom filter,
\* the bucket and the chain up to its end mark; or the linked list of .hash.
gnu_lookup(s) ==
  LET d == dynsym
      h == Sym(s).djb
      b == buckets(d)[h % num_buckets(d)]
      last == Min({i \in DOMAIN table(d) : i >= b /\ table(d)[i].last})
      found == {i \in b..last : table(d)[i].hash = h \div 2 /\ d[i] = s}
  IN IF ~(bloom_bits(h, num_bloom(d)) \subseteq bloom(d)) \/ b = 0 \/ found = {} THEN 0 ELSE Min(found)
sysv_chain(b) ==
  FoldLeft(LAMBDA acc, k : acc \cup {sysv_next(dynsym, i) : i \in acc \ {0}}, {sysv_head(dynsym, b)}, dynsym) \ {0}
sysv_lookup(s) ==
  LET found == {i \in sysv_chain(Sym(s).elf % (Len(dynsym) + 1)) : dynsym[i] = s}
  IN IF found = {} THEN 0 ELSE Min(found)

\* The dynamic loader finds what it should: a lookup by .gnu.hash gives the
\* exported symbols and no other, one by .hash every dynamic symbol, in spite of
\* the reordering of .dynsym after symbols were added to it; local symbols are
\* before sh_info; the version of a symbol of a library names that library and
\* version and no version defined here; and all strings of .dynstr, which is
\* filled by five passes, are apart and inside it.
LoaderFinds ==
  LaidOut =>
    /\ (link.gnu_hash /\ dynsym # <<>>) =>
         \A s \in DOMAIN link.syms : gnu_lookup(s) =
           IF s \in Range(dynsym) /\ Sym(s).exported THEN dynsym_idx(s) ELSE 0
    /\ link.sysv_hash => \A s \in DOMAIN link.syms : sysv_lookup(s) = IF s \in Range(dynsym) THEN dynsym_idx(s) ELSE 0
    /\ \A i \in DOMAIN dynsym : is_local(dynsym[i]) <=> i < dynsym_info
    /\ \A i \in DOMAIN dynsym : LET s == dynsym[i] IN
         IF Sym(s).file \in Dsos /\ Sym(s).ver > 1
         THEN /\ versym[i] > 1 + Len(link.version_definitions)
              /\ \E g \in Range(verneed) :
                   g.file = Sym(s).file /\ \E x \in Range(g.auxs) : x.other = versym[i] /\ x.ver = Sym(s).ver
         ELSE link.version_definitions # <<>> => versym[i] = Sym(s).ver
    /\ \A g, h \in Range(verneed) : \A x \in Range(g.auxs), y \in Range(h.auxs) :
         x.other = y.other => g.file = h.file /\ x.ver = y.ver
    /\ \A x, y \in DOMAIN dynstr.strings : x # y =>
         ~Overlap(dynstr.strings[x], NameSize(x), dynstr.strings[y], NameSize(y))
    /\ \A x \in DOMAIN dynstr.strings :
         /\ dynstr.strings[x] + NameSize(x) <= dynstr.size
         /\ \A i \in DOMAIN dynsym : ~Overlap(dynstr.strings[x], NameSize(x), dynsym_name(i), NameSize(dynsym[i]))
    /\ \A i \in DOMAIN dynsym : dynsym_name(i) + NameSize(dynsym[i]) <= dynstr.size

\* .symtab is whole: each of the chunks and files writes the slots it counted
\* and no others, in whatever order they run; local symbols come before sh_info
\* and global ones after it; a symbol is at the index relocations use for it and
\* names the section that holds it; and its name is where it says, apart from
\* all others and inside .strtab.
SymtabIsWhole ==
  (pc = "done" /\ Present(chunks, ".symtab")) =>
    /\ DOMAIN symtab = 1..(symtab_size(NumSections) - 1)
    /\ \A i \in DOMAIN symtab : symtab[i].bind = "local" <=> i < symtab_info(NumSections)
    /\ \A f \in Objs \cup Dsos : \A s \in Range(counts[f].locals \o counts[f].globals) :
         LET i == get_output_sym_idx(s, NumSections) IN
         /\ i \in DOMAIN symtab /\ symtab[i].sym = s /\ symtab[i].suffix = ""
         /\ symtab[i].name \in DOMAIN strtab /\ strtab[symtab[i].name] = NameSize(s)
         /\ (f \in Objs /\ Sym(s).isec # "") => symtab[i].sec = osec_of[Sym(s).isec].name
    /\ \A c \in Range(SlotChunks) : counts[c].nlocal > 0 =>
         \A x \in Range(link.slots[c]) : \E i \in DOMAIN symtab :
           symtab[i].sec = c /\ symtab[i].sym = x.sym /\ symtab[i].suffix = x.suffix
    /\ \A o \in DOMAIN strtab : o + strtab[o] <= strtab_size
    /\ \A o, q \in DOMAIN strtab : o < q => o + strtab[o] <= q

\* Code that runs before main uses the linker's symbols as bounds: those of the
\* arrays enclose every constructor and destructor of the program, in order of
\* priority, those of .rela.dyn exactly the relocations of indirect functions,
\* __start_ and __stop_ every part of their section, and _end is past the image.
SymbolBounds ==
  pc = "done" =>
    LET at(i) == shdr[osec_of[i]].addr + isec_offset[i]
        val(name) == symval[<<name, "">>]
        of_type(t) == {i \in DOMAIN isec_offset : osec_of[i].type = t} IN
    /\ \A i \in of_type("init_array") :
         /\ val("__init_array_start") <= at(i) /\ at(i) + Isec(i).size <= val("__init_array_end")
         /\ \A j \in of_type("init_array") : init_priority(i) < init_priority(j) => at(i) < at(j)
    /\ (link.static /\ ~link.pie) => \A k \in DOMAIN reldyn :
         reldyn[k].rank = 2 <=> AddrOf(".rela.dyn") + k \in val("__rel_iplt_start")..(val("__rel_iplt_end") - 1)
    /\ \A i \in DOMAIN isec_offset : osec_of[i].name \in link.c_identifiers =>
         /\ symval[<<"__start_", osec_of[i].name>>] <= at(i)
         /\ at(i) + Isec(i).size <= symval[<<"__stop_", osec_of[i].name>>]
    /\ ~by_order => \A c \in Range(chunks) : (alloc(c) /\ ~is_tbss(c)) => shdr[c].addr + shdr[c].size <= val("_end")
    /\ Cardinality(DOMAIN reldyn) = num_dynrels

\* The image in memory is right, and the linker's own symbols agree with it.
ImageIsRight == MemoryImage /\ SymbolBounds

\* The loop of set_osec_offsets ends: the program header, whose size moves the
\* sections that decide how many entries it has, reaches a size that stays
\* ("repeat it until converge").
Converges == (pc = "layout") ~> (pc = "done")

\* --retain-symbols-file keeps the listed symbols: what is live and listed is in
\* .symtab in the end.
ListedAreKept ==
  (pc = "done" /\ link.retain) =>
    \A s \in link.retained :
      (\E f \in Objs : Sym(s).file = f /\ Sym(s).alive /\ ~is_local(s)) => \E i \in DOMAIN symtab : symtab[i].sym = s
=============================================================================
