------------------------------ MODULE MachLayout ------------------------------
(***************************************************************************)
(* Chunks, their order, and the addresses they get (assign_offsets and     *)
(* OutputSegment::set_offset_regular). A chunk's compute_size runs when    *)
(* the chunk is reached, and sees the addresses of the chunks before it    *)
(* only: the others still have the values of their constructors. Exception *)
(* records are encoded then, and load commands sized.                      *)
(***************************************************************************)
EXTENDS MachImage

CONSTANTS
  OtherNames,   \* names outside the lists of compare_segments and compare_chunks, in string order
  MaxGroup,     \* max_group_size of split_records
  GroupSpan     \* 1 << 24, what an UnwindPageEntry can span

VARIABLES
  out,          \* ctx.segments with their chunks, and the members of output sections
  lay           \* hdr of chunks, cmd of segments, offsets of subsections, CIEs and FDEs, encoded unwind records

Text(n) == <<"__TEXT", n>>
Data(n) == <<"__DATA", n>>
Edit(n) == <<"__LINKEDIT", n>>
GOT == <<"__DATA_CONST", "__got">>
MachHdr == Text("__mach_header")

-----------------------------------------------------------------------------
(* create_synthetic_chunks. *)
osec_of(x) == <<subs[x].seg, subs[x].sect>>
\* Members of output sections: what -order_file lists, then the rest.
ordered_subsecs ==
  LET listed == SelectSeq([i \in DOMAIN link.order_file |-> sym[link.order_file[i]].subsec], LAMBDA x : x # <<>>)
      rest == FoldLeft(LAMBDA acc, f : acc \o subsecs_of(f), <<>>, ObjIds)
  IN FoldLeft(LAMBDA acc, x : AddTo(acc, x, TRUE), <<>>, listed \o rest)

\* Synthetic chunks with p2align and type. (The alignment of __eh_frame is
\* sizeof(Word) bits, not bytes, in the code.)
Chunk(id, p2align, type) == [id |-> id, p2align |-> p2align, type |-> type]
synthetic_chunks ==
  {Chunk(MachHdr, 0, "regular"), Chunk(Text("__stubs"), 4, "stubs"), Chunk(Text("__unwind_info"), 2, "regular"),
   Chunk(Text("__eh_frame"), Word, "regular"), Chunk(GOT, 3, "got"), Chunk(Data("__thread_ptrs"), 3, "thread_ptrs"),
   Chunk(Data("__objc_imageinfo"), 2, "regular"),
   Chunk(Edit("__export"), 0, "regular"), Chunk(Edit("__symbol_table"), 3, "regular"),
   Chunk(Edit("__ind_sym_tab"), 0, "regular"), Chunk(Edit("__string_table"), 3, "regular")}
  \cup (IF link.fixup_chains THEN {Chunk(Edit("__chainfixups"), 3, "regular")}
        ELSE {Chunk(Edit("__rebase"), 0, "regular"), Chunk(Edit("__binding"), 0, "regular"),
              Chunk(Edit("__lazy_binding"), 3, "regular"), Chunk(Text("__stub_helper"), 4, "regular"),
              Chunk(Data("__la_symbol_ptr"), 3, "lazy_ptrs")})
  \cup (IF link.function_starts THEN {Chunk(Edit("__func_starts"), 0, "regular")} ELSE {})
  \cup (IF link.data_in_code_info THEN {Chunk(Edit("__data_in_code"), 3, "regular")} ELSE {})
  \cup (IF link.init_offsets THEN {Chunk(Text("__init_offsets"), 2, "regular")} ELSE {})
  \cup (IF link.adhoc_codesign THEN {Chunk(Edit("__code_signature"), 4, "regular")} ELSE {})
  \cup (IF internal.msgsend # <<>> THEN {Chunk(Text("__objc_stubs"), 5, "regular")} ELSE {})
  \cup {Chunk(x.id, 0, "regular") : x \in link.sectcreate}

\* Output sections: aligned as their members, typed as the last one. Empty ones
\* are left out but for __data.
osec_chunk(c, m) ==
  Chunk(c, Max({0} \cup {subs[m[i]].p2align : i \in DOMAIN m}), IF m = <<>> THEN "regular" ELSE subs[m[Len(m)]].type)
sectaligned(ch) == IF ch.id \in DOMAIN link.sectalign THEN [ch EXCEPT !.p2align = link.sectalign[ch.id]] ELSE ch
is_hidden(c) == c = MachHdr \/ c[1] = "__LINKEDIT"
is_bss(ch) == ch.type \in {"zerofill", "thread_local_zerofill"}

segment_rank == <<"__TEXT", "__DATA_CONST", "__DATA">> \o OtherNames \o <<"__LINKEDIT">>
chunk_rank ==
  <<"__mach_header", "__stubs", "__text", "__stub_helper", "__gcc_except_tab", "__cstring", "__eh_frame",
    "__unwind_info", "__got", "__const", "__mod_init_func", "__la_symbol_ptr", "__thread_ptrs", "__data",
    "__objc_imageinfo", "__thread_vars", "__thread_ptr", "__thread_data", "__thread_bss", "__common", "__bss",
    "__rebase", "__binding", "__weak_binding", "__lazy_binding", "__chainfixups", "__export", "__func_starts",
    "__data_in_code", "__symbol_table", "__ind_sym_tab", "__string_table", "__code_signature">> \o OtherNames
RankIn(q, n) == CHOOSE i \in DOMAIN q : q[i] = n
compare_chunksBssInside(a, b) == RankIn(chunk_rank, a.id[2]) < RankIn(chunk_rank, b.id[2])
compare_chunks(a, b) ==
  IF is_bss(a) # is_bss(b) THEN ~is_bss(a) ELSE RankIn(chunk_rank, a.id[2]) < RankIn(chunk_rank, b.id[2])
\* create_synthetic_chunks, with sort_sections and the numbering of segments.
CreateChunks ==
  /\ pc = "chunks"
  /\ LET secs == {Data("__data")} \cup {osec_of(x) : x \in Range(ordered_subsecs)}
         mem == [c \in secs |-> SelectSeq(ordered_subsecs, LAMBDA x : osec_of(x) = c)]
         all == {sectaligned(ch) : ch \in synthetic_chunks \cup {osec_chunk(c, mem[c]) : c \in secs}}
         segs == SelectSeq(segment_rank, LAMBDA g : \E ch \in all : ch.id[1] = g) IN
     out' = [members |-> mem, segments |-> segs,
             chunks |-> [g \in Range(segs) |-> SortSeq(Enumerate({ch \in all : ch.id[1] = g}), compare_chunks)]]
  /\ pc' = "imports"
  /\ UNCHANGED <<link, work, sym, subs, internal, slots, lay>>
members(c) == out.members[c]
is_osec(c) == c \in DOMAIN out.members
segments == out.segments
chunks_of(g) == out.chunks[g]
all_chunks == FoldLeft(LAMBDA acc, g : acc \o chunks_of(g), <<>>, segments)
Chunks == Range(all_chunks)
seg_idx(g) == RankIn(segments, g) - (IF link.pagezero_size > 0 THEN 0 ELSE 1)
sect_idx(c) == Index(SelectSeq([i \in DOMAIN all_chunks |-> all_chunks[i].id], LAMBDA d : ~is_hidden(d)), c) + 1

-----------------------------------------------------------------------------
(* Addresses, in a layout L that may be unfinished. *)
sub_addr(L, x) == L.hdr[osec_of(x)].addr + L.off[x]
get_addr(L, s) ==
  IF sym[s].stub_idx # -1 THEN L.hdr[Text("__stubs")].addr + sym[s].stub_idx * stub_size
  ELSE IF sym[s].subsec # <<>> THEN sub_addr(L, sym[s].subsec) + sym[s].value ELSE sym[s].value
get_got_addr(L, s) == L.hdr[GOT].addr + sym[s].got_idx * Word
get_tlv_addr(L, s) == L.hdr[Data("__thread_ptrs")].addr + sym[s].tlv_idx * Word
image_base(L) == L.hdr[MachHdr].addr

-----------------------------------------------------------------------------
(* __eh_frame and __unwind_info. *)
eh_records(f) ==
  IF f = Internal THEN <<>>
  ELSE LET fdes == SelectSeq(ObjOf(f).fdes, LAMBDA d : subs[d.subsec].alive)
           cies == SelectSeq(ObjOf(f).cies, LAMBDA c : \E d \in Range(fdes) : d.cie = c.id)
       IN [i \in DOMAIN cies |-> [id |-> cies[i].id, size |-> cies[i].size]]
          \o [i \in DOMAIN fdes |-> [id |-> fdes[i].id, size |-> fdes[i].size]]
all_eh_records == FoldLeft(LAMBDA acc, f : acc \o eh_records(f), <<>>, ObjIds)
EhFrame_compute_size(L) ==
  LET end == FoldLeft(LAMBDA acc, r : [at |-> acc.at + r.size, eh |-> [acc.eh EXCEPT ![r.id] = acc.at]],
                      [at |-> 0, eh |-> L.eh], all_eh_records)
  IN [L EXCEPT !.eh = end.eh, !.hdr[Text("__eh_frame")].size = end.at]

func_addr(L, r) == sub_addr(L, r.subsec) + r.input_offset
unwind_records ==
  FoldLeft(LAMBDA acc, x : acc \o [i \in DOMAIN subs[x].unwind |-> subs[x].unwind[i]], <<>>,
           FoldLeft(LAMBDA acc, ch : acc \o IF is_osec(ch.id) THEN members(ch.id) ELSE <<>>, <<>>, all_chunks))
\* Personalities are numbered as they are met, from 1; a DWARF record is the
\* offset of its FDE, and says nothing of the personality.
unwind_personalities ==
  FoldLeft(LAMBDA acc, r : AddTo(acc, r.personality, r.fde = "" /\ r.personality # <<>>), <<>>, unwind_records)
Encoded(L, r) ==
  [r EXCEPT !.encoding = IF r.fde # "" THEN <<"dwarf", L.eh[r.fde]>>
                         ELSE IF r.personality = <<>> THEN <<@, 0>>
                         ELSE <<@, Index(unwind_personalities, r.personality) + 1>>]
can_mergeAll(L, a, b) == func_addr(L, a) + a.code_len = func_addr(L, b) /\ a.encoding = b.encoding
can_merge(L, a, b) ==
  /\ Arm \/ (a.encoding[1] # "stack_ind" /\ b.encoding[1] # "stack_ind")
  /\ func_addr(L, a) + a.code_len = func_addr(L, b)
  /\ a.encoding = b.encoding /\ a.personality = b.personality /\ a.fde = b.fde /\ a.lsda = <<>> /\ b.lsda = <<>>
merge_unwind_records(L, rs) ==
  FoldLeft(LAMBDA acc, r :
             IF acc # <<>> /\ can_merge(L, acc[Len(acc)], r)
             THEN [acc EXCEPT ![Len(acc)].code_len = @ + r.code_len] ELSE Append(acc, r), <<>>, rs)
split_records(L, rs) ==
  FoldLeft(LAMBDA acc, r :
             IF acc # <<>> /\ Len(acc[Len(acc)]) < MaxGroup
                /\ func_addr(L, r) < func_addr(L, acc[Len(acc)][1]) + GroupSpan
             THEN [acc EXCEPT ![Len(acc)] = Append(@, r)] ELSE Append(acc, <<r>>), <<>>, rs)
Unwind_compute(L) ==
  LET rs == [i \in DOMAIN unwind_records |-> Encoded(L, unwind_records[i])]
      sorted == SortSeq(rs, LAMBDA a, b : func_addr(L, a) < func_addr(L, b))
  IN [personalities |-> unwind_personalities, pages |-> split_records(L, merge_unwind_records(L, sorted)),
      num_lsda |-> Cardinality({i \in DOMAIN rs : rs[i].lsda # <<>>})]
page_encodings(p) == FoldLeft(LAMBDA acc, r : AddTo(acc, r.encoding, TRUE), <<>>, p)
unwind_size(u) ==
  IF u.pages = <<>> THEN 0
  ELSE 28 + 4 * Len(u.personalities) + 12 * (Len(u.pages) + 1) + 8 * u.num_lsda
       + FoldLeft(LAMBDA n, p : n + 12 + 4 * Len(p) + 4 * Len(page_encodings(p)), 0, u.pages)

-----------------------------------------------------------------------------
(* Load commands, by their sizes, as they come out with the sizes in L.    *)
nsects(g) == Cardinality({ch \in Chunks : ch.id[1] = g /\ ~is_hidden(ch.id)})
linked_dylibs == {d.install_name : d \in {x \in Range(link.dylibs) : x.dylib_idx # -1}}
sized(L, c) == c \in DOMAIN L.hdr /\ L.hdr[c].size > 0
dyld_cmds_size(L) ==
  IF sized(L, Edit("__chainfixups")) THEN 16 + (IF sized(L, Edit("__export")) THEN 16 ELSE 0) ELSE 48
load_commands_size(L) ==
  LET opt(cond, n) == IF cond THEN n ELSE 0 IN
  opt(link.pagezero_size > 0, 72)
  + FoldLeft(LAMBDA n, g : n + 72 + 80 * nsects(g), 0, segments)
  + dyld_cmds_size(L) + 24 + 80 + opt(link.uuid # "none", 24) + 32 + 16 + opt(link.function_starts, 16)
  + FoldSet(LAMBDA n, acc : acc + align_to(24 + Len(n) + 1, 8), 0, linked_dylibs)
  + FoldLeft(LAMBDA acc, n : acc + align_to(12 + n + 1, 8), 0, link.rpaths)
  + opt(link.data_in_code_info, 16) + opt(link.umbrella > 0, align_to(12 + link.umbrella + 1, 8))
  + (IF link.output_type = "execute" THEN 32 + 24
     ELSE IF link.output_type = "dylib" THEN align_to(24 + Len(link.output) + 1, 8) ELSE 0)
  + opt(link.adhoc_codesign, 16)
mach_header_size == 32

-----------------------------------------------------------------------------
(* compute_size of the chunks of regular segments, and their placement.    *)
\* What constructors and add() set before the layout.
initial_size(c) ==
  LET n == Len(slots.stubs) IN
  CASE c = Text("__stubs") -> n * stub_size
    [] c = Text("__stub_helper") -> IF n = 0 THEN 0 ELSE stub_helper_hdr_size + n * stub_helper_size
    [] c = Data("__la_symbol_ptr") -> n * Word
    [] c = GOT -> Len(slots.got) * Word
    [] c = Data("__thread_ptrs") -> Len(slots.thread_ptrs) * Word
    [] c = Data("__objc_imageinfo") -> 8
    [] c = Text("__objc_stubs") -> Len(internal.msgsend) * objc_stub_size
    [] c = Edit("__string_table") -> 1
    [] OTHER -> LET made == {x \in link.sectcreate : x.id = c} IN
                IF made = {} THEN 0 ELSE (CHOOSE x \in made : TRUE).size
NoLayout ==
  [hdr |-> [c \in {ch.id : ch \in Chunks} |-> [addr |-> 0, offset |-> 0, size |-> initial_size(c)]],
   off |-> [x \in DOMAIN subs |-> Mod32 - 1],
   next |-> 1,
   eh |-> [r \in {all_eh_records[i].id : i \in DOMAIN all_eh_records} |-> Mod32 - 1],
   unwind |-> [personalities |-> <<>>, pages |-> <<>>, num_lsda |-> 0],
   cmd |-> [g \in Range(segments) |-> [vmaddr |-> 0, vmsize |-> 0, fileoff |-> 0, filesize |-> 0]]]

\* OutputSection::compute_size; on ARM a section of code ends with the (here
\* empty) thunk of create_range_extension_thunks.
is_code(c) == \E i \in DOMAIN members(c) : subs[members(c)[i]].code
osec_compute_size(L, c) ==
  LET thunks == Arm /\ is_code(c)
      end == FoldLeft(LAMBDA acc, x :
               LET at == align_to(acc.at, 2 ^ subs[x].p2align) IN
               [at |-> at + subs[x].input_size, off |-> [acc.off EXCEPT ![x] = at]],
               [at |-> IF c = Data("__data") THEN Word ELSE 0, off |-> L.off], members(c))
  IN [L EXCEPT !.off = end.off, !.hdr[c].size = IF thunks THEN align_to(end.at, 16) ELSE end.at]
num_init_functions == FoldLeft(LAMBDA n, o : n + Len(o.init_functions), 0, link.objs)
compute_size(L, c) ==
  CASE is_osec(c) -> osec_compute_size(L, c)
    [] c = MachHdr -> [L EXCEPT !.hdr[c].size = mach_header_size + load_commands_size(L) + link.headerpad]
    [] c = Text("__eh_frame") -> EhFrame_compute_size(L)
    [] c = Text("__unwind_info") ->
         LET u == Unwind_compute(L) IN [L EXCEPT !.unwind = u, !.hdr[c].size = unwind_size(u)]
    [] c = Text("__init_offsets") -> [L EXCEPT !.hdr[c].size = 4 * num_init_functions]
    [] OTHER -> L

get_alignment(g, ch) ==
  IF ch.type \in {"thread_local_regular", "thread_local_zerofill"}
  THEN Max({2 ^ d.p2align : d \in {e \in Chunks : e.id[1] = g /\ e.type \in {"thread_local_regular", "thread_local_zerofill"}}})
  ELSE IF ch.type = "thread_local_variables" THEN Word ELSE 2 ^ ch.p2align
\* One chunk of set_offset_regular: bss takes no room in the file.
after_chunk(L, ch, off, addr) ==
  [fileoff |-> IF is_bss(ch) THEN off ELSE off + L.hdr[ch.id].size, vmaddr |-> addr + L.hdr[ch.id].size, L |-> L]
place_chunk(g, acc, ch) ==
  LET a == get_alignment(g, ch)
      off == IF is_bss(ch) THEN acc.fileoff ELSE align_to(acc.fileoff, a)
      addr == align_to(acc.vmaddr, a)
      L == [acc.L EXCEPT !.hdr[ch.id].addr = addr, !.hdr[ch.id].offset = IF is_bss(ch) THEN 0 ELSE off] IN
  after_chunk(compute_size(L, ch.id), ch, off, addr)
after_segment(end, g) ==
  [end.L EXCEPT !.cmd[g].vmsize = align_to(end.vmaddr - end.L.cmd[g].vmaddr, page_size),
                !.cmd[g].filesize = align_to(end.fileoff - end.L.cmd[g].fileoff, page_size)]
set_offset_regular(L, g, fileoff, vmaddr) ==
  after_segment(FoldLeft(LAMBDA acc, ch : place_chunk(g, acc, ch),
                         [fileoff |-> fileoff, vmaddr |-> vmaddr,
                          L |-> [L EXCEPT !.cmd[g].vmaddr = vmaddr, !.cmd[g].fileoff = fileoff]], chunks_of(g)), g)
next_fileoff(L, g) == L.cmd[g].fileoff + L.cmd[g].filesize
next_vmaddr(L, g) == L.cmd[g].vmaddr + L.cmd[g].vmsize
regular_segments == SelectSeq(segments, LAMBDA g : g # "__LINKEDIT")

max_personalities == 3
\* What constructors leave: no segment is placed.
StartLayout ==
  /\ pc = "layout"
  /\ lay' = NoLayout
  /\ pc' = "offsets"
  /\ UNCHANGED <<link, work, sym, subs, internal, slots, out>>
\* assign_offsets places one segment after another.
AssignOffsets ==
  /\ pc = "offsets"
  /\ LET g == regular_segments[lay.next]
         prev == regular_segments[lay.next - 1]
         fileoff == IF lay.next = 1 THEN 0 ELSE next_fileoff(lay, prev)
         vmaddr == IF lay.next = 1 THEN link.pagezero_size ELSE next_vmaddr(lay, prev) IN
     lay' = set_offset_regular([lay EXCEPT !.next = @ + 1], g, fileoff, vmaddr)
  /\ pc' = IF lay.next < Len(regular_segments) THEN "offsets"
           ELSE IF Len(unwind_personalities) > max_personalities THEN "failed" ELSE "linkedit"
  /\ UNCHANGED <<link, work, sym, subs, internal, slots, out>>
=============================================================================
