------------------------------ MODULE MachTables ------------------------------
(***************************************************************************)
(* What a Mach-O image tells its readers (src/macho/output-chunks.cc,      *)
(* input-files.cc). First what the loader must do to the words that hold   *)
(* addresses: rebase, bind and lazy binding opcodes, or chained fixups     *)
(* with their page starts and imports. Then the export trie, function      *)
(* starts, the symbol table with its strings and the indirect symbols,     *)
(* initializers, data in code and the two-level table of unwind records.   *)
(*                                                                         *)
(* An opcode is a record of its name, its argument and its size in bytes:  *)
(* bytes matter, since the linker sizes its sections by them and the stub  *)
(* helper starts the loader in the middle of the lazy binding opcodes.     *)
(***************************************************************************)
EXTENDS MachLayout

CONSTANTS
  MaxTarget,        \* 2^36, the target of a chained rebase
  High8,            \* 2^56, where the byte above a pointer starts
  WordMod,          \* 2^64
  MaxInlineAddend   \* MAX_INLINE_ADDEND

ASSUME FixupsAssumption == /\ MaxTarget \in Nat \ {0} /\ High8 \in Nat /\ WordMod \in Nat
                           /\ MaxTarget < High8 /\ High8 < WordMod /\ MaxInlineAddend \in Nat

uleb_size(n) == 1 + Cardinality({k \in 1..4 : n >= 128 ^ k})
sleb_size(n) == 1 + Cardinality({k \in 1..4 : n >= 64 * 128 ^ (k - 1) \/ n < -(64 * 128 ^ (k - 1))})
op(name, arg, size) == [op |-> name, arg |-> arg, size |-> size]
ops_size(ops) == FoldLeft(LAMBDA n, o : n + o.size, 0, ops)

-----------------------------------------------------------------------------
(* Places that hold addresses. *)
imported(r) == r.sym # <<>> /\ sym[r.sym].is_imported
refers_to_tls(r) ==
  /\ r.sym # <<>> /\ sym[r.sym].subsec # <<>>
  /\ subs[sym[r.sym].subsec].type \in {"thread_local_regular", "thread_local_zerofill"}
needs_rebasingTls(r) == r.type = "UNSIGNED" /\ ~r.is_subtracted /\ ~imported(r)
needs_rebasing(r) == r.type = "UNSIGNED" /\ ~r.is_subtracted /\ ~imported(r) /\ ~refers_to_tls(r)
live_subsecs == {x \in UNION {Range(subsecs_of(f)) : f \in Range(ObjIds)} : subs[x].alive}
live_rels == UNION {{[in |-> x, rel |-> subs[x].rels[i], i |-> i] : i \in DOMAIN subs[x].rels} : x \in live_subsecs}
rel_addr(p) == sub_addr(lay, p.in) + p.rel.offset
place(g, addr) == [seg |-> seg_idx(g), offset |-> addr - lay.cmd[g].vmaddr]
lazy_addr(i) == lay.hdr[Data("__la_symbol_ptr")].addr + (i - 1) * Word

\* RebaseSection::compute_size. Lazy pointers are counted past the stubs that
\* have a GOT slot.
lazy_rebasesNone == {}
lazy_rebases ==
  {place("__DATA", lazy_addr(i)) : i \in DOMAIN SelectSeq(slots.stubs, LAMBDA s : sym[s].got_idx = -1)}
rebase_entries ==
  {place(subs[p.in].seg, rel_addr(p)) : p \in {q \in live_rels : needs_rebasing(q.rel)}}
  \cup lazy_rebases
  \cup {place("__DATA_CONST", get_got_addr(lay, s)) : s \in {t \in Range(slots.got) : ~sym[t].is_imported}}
  \cup {place("__DATA", get_tlv_addr(lay, s)) : s \in {t \in Range(slots.thread_ptrs) : ~sym[t].is_imported}}
place_less(a, b) == IF a.seg # b.seg THEN a.seg < b.seg ELSE a.offset < b.offset

\* encode_rebase_entries: runs of adjacent words, each with its distance from
\* the end of the run before.
rebase_runs(q) ==
  FoldLeft(LAMBDA acc, p :
             IF acc # <<>> /\ acc[Len(acc)].seg = p.seg /\ acc[Len(acc)].offset + 8 * acc[Len(acc)].n = p.offset
             THEN [acc EXCEPT ![Len(acc)].n = @ + 1] ELSE Append(acc, [seg |-> p.seg, offset |-> p.offset, n |-> 1]),
           <<>>, q)
rebase_moveOneWord(last, cur) == op("add", cur.offset - last.offset - 8, 1)
rebase_move(last, cur) ==
  LET dist == cur.offset - (last.offset + 8 * last.n) IN
  IF last.seg # cur.seg \/ dist < 0 THEN op("segment", [seg |-> cur.seg, offset |-> cur.offset], 1 + uleb_size(cur.offset))
  ELSE op("add", dist, IF dist % 8 = 0 /\ dist < 128 THEN 1 ELSE 1 + uleb_size(dist))
rebase_run(runs, i) ==
  <<IF i = 1 THEN op("segment", [seg |-> runs[1].seg, offset |-> runs[1].offset], 1 + uleb_size(runs[1].offset))
    ELSE rebase_move(runs[i - 1], runs[i]),
    op("do", runs[i].n, IF runs[i].n < 16 THEN 1 ELSE 1 + uleb_size(runs[i].n))>>
encode_rebase_entries(entries) ==
  LET runs == rebase_runs(SortSeq(Enumerate(entries), place_less)) IN
  <<op("type", 0, 1)>> \o FoldLeft(LAMBDA acc, i : acc \o rebase_run(runs, i), <<>>, [i \in DOMAIN runs |-> i])
  \o <<op("done", 0, 1)>>

-----------------------------------------------------------------------------
(* Binding. *)
get_dylib_idx(s) == IF ~link.flat_namespace /\ is_dylib(sym[s].file) THEN DylibOf(sym[s].file).dylib_idx ELSE -2
Bind(s, p, addend) == [sym |-> s, seg |-> p.seg, offset |-> p.offset, addend |-> addend]
bind_entries ==
  {Bind(p.rel.sym, place(subs[p.in].seg, rel_addr(p)), p.rel.addend) :
     p \in {q \in live_rels : q.rel.type = "UNSIGNED" /\ imported(q.rel)}}
  \cup {Bind(s, place("__DATA_CONST", get_got_addr(lay, s)), 0) : s \in {t \in Range(slots.got) : sym[t].is_imported}}
  \cup {Bind(s, place("__DATA", get_tlv_addr(lay, s)), 0) : s \in {t \in Range(slots.thread_ptrs) : sym[t].is_imported}}
bind_less(a, b) == IF a.sym # b.sym THEN Before(a.sym, b.sym) ELSE place_less(a, b)
dylib_op(i) == op("dylib", i, IF i < 16 THEN 1 ELSE 1 + uleb_size(i))
symbol_op(s) == op("symbol", [name |-> s, weak |-> sym[s].is_weak], 1 + Len(s) + 1)
segment_op(p) == op("segment", [seg |-> p.seg, offset |-> p.offset], 1 + uleb_size(p.offset))
bind_opsKeepAddend(q, i) ==
  SelectSeq(<<dylib_op(get_dylib_idx(q[i].sym)), symbol_op(q[i].sym), segment_op(q[i]),
              op("addend", q[i].addend, 1 + sleb_size(q[i].addend)), op("do", 1, 1)>>,
            LAMBDA o : o.op # "addend" \/ o.arg # 0)
\* encode_bind_entries: only what differs from the entry before is written.
bind_ops(q, i) ==
  LET b == q[i]
      new(cond) == i = 1 \/ cond
      opt(cond, o) == IF cond THEN <<o>> ELSE <<>> IN
  opt(new(sym[b.sym].file # sym[q[i - 1].sym].file), dylib_op(get_dylib_idx(b.sym)))
  \o opt(new(b.sym # q[i - 1].sym), symbol_op(b.sym))
  \o opt(new(b.seg # q[i - 1].seg \/ b.offset # q[i - 1].offset), segment_op(b))
  \o opt(new(b.addend # q[i - 1].addend), op("addend", b.addend, 1 + sleb_size(b.addend)))
  \o <<op("do", 1, 1)>>
encode_bind_entries(entries) ==
  LET q == SortSeq(Enumerate(entries), bind_less) IN
  <<op("type", 0, 1)>> \o FoldLeft(LAMBDA acc, i : acc \o bind_ops(q, i), <<>>, [i \in DOMAIN q |-> i])
  \o <<op("done", 0, 1)>>

\* LazyBindSection: one program per stub, and where it starts.
lazy_bind_ops(i) ==
  LET s == slots.stubs[i] IN
  <<dylib_op(get_dylib_idx(s)), symbol_op(s), segment_op(place("__DATA", lazy_addr(i))), op("do", 1, 1), op("done", 0, 1)>>
LazyBind ==
  FoldLeft(LAMBDA acc, i : [offsets |-> Append(acc.offsets, ops_size(acc.ops)), ops |-> acc.ops \o lazy_bind_ops(i)],
           [offsets |-> <<>>, ops |-> <<>>], [i \in DOMAIN slots.stubs |-> i])

-----------------------------------------------------------------------------
(* Chained fixups. *)
Fixup(addr, s, addend) == [addr |-> addr, sym |-> s, addend |-> addend % WordMod]
slot_sym(s) == IF sym[s].is_imported THEN s ELSE <<>>
get_fixups ==
  SortSeq(Enumerate(
    {Fixup(rel_addr(p), IF imported(p.rel) THEN p.rel.sym ELSE <<>>, IF imported(p.rel) THEN p.rel.addend ELSE 0) :
       p \in {q \in live_rels : q.rel.type = "UNSIGNED" /\ (imported(q.rel) \/ needs_rebasing(q.rel))}}
    \cup {Fixup(get_got_addr(lay, s), slot_sym(s), 0) : s \in Range(slots.got)}
    \cup {Fixup(get_tlv_addr(lay, s), slot_sym(s), 0) : s \in Range(slots.thread_ptrs)}),
    LAMBDA a, b : a.addr < b.addr)
get_segment_fixups(fixups, g) ==
  SelectSeq(fixups, LAMBDA x : x.addr >= lay.cmd[g].vmaddr /\ x.addr < lay.cmd[g].vmaddr + lay.cmd[g].vmsize)

\* The first fixup of every page up to the last one, or none (-1).
page_starts(fixups, g) ==
  LET fx == get_segment_fixups(fixups, g)
      npages == align_to(fx[Len(fx)].addr + 1 - lay.cmd[g].vmaddr, page_size) \div page_size IN
  [i \in 1..npages |->
     LET begin == lay.cmd[g].vmaddr + (i - 1) * page_size
         in == {x.addr : x \in {y \in Range(fx) : y.addr >= begin /\ y.addr < begin + page_size}} IN
     IF in = {} THEN -1 ELSE Min(in) % page_size]
starts_in_image(fixups) ==
  [g \in {h \in Range(segments) : get_segment_fixups(fixups, h) # <<>>} |->
     [segment_offset |-> lay.cmd[g].vmaddr - image_base(lay), page_start |-> page_starts(fixups, g)]]

\* get_dynsyms: symbols with the addends that do not fit a fixup, by file and
\* value. Every symbol of a library has the value 0, so its symbols tie, and
\* with addends the comparison is no order any more: std::stable_sort then does
\* what insertion does, which it uses for short ranges. Equal entries may stay
\* apart, and only neighbours are made one.
priority(s) == IF sym[s].file = Internal THEN 0 ELSE Index(ObjIds \o DylibIds, sym[s].file) + 1
import_addend(a) == IF a <= MaxInlineAddend THEN 0 ELSE a
SymbolAddend(s, addend) == [sym |-> s, addend |-> addend]
dynsym_less(a, b) ==
  IF a.sym = b.sym THEN a.addend < b.addend
  ELSE IF priority(a.sym) # priority(b.sym) THEN priority(a.sym) < priority(b.sym)
  ELSE sym[a.sym].value < sym[b.sym].value
insert_dynsym(q, x) == InsertAt(q, Max({0} \cup {i \in DOMAIN q : ~dynsym_less(x, q[i])}) + 1, x)
get_dynsyms(fixups) ==
  LET bound == SelectSeq(fixups, LAMBDA x : x.sym # <<>>)
      sorted == FoldLeft(LAMBDA q, x : insert_dynsym(q, SymbolAddend(x.sym, import_addend(x.addend))), <<>>, bound) IN
  FoldLeft(LAMBDA acc, x : IF acc # <<>> /\ Last(acc) = x THEN acc ELSE Append(acc, x), <<>>, sorted)
fixup_ordinal(dynsyms, s) == Min({i \in DOMAIN dynsyms : dynsyms[i].sym = s}) - 1
\* std::lower_bound over dynsyms[from..]: it halves what is left, and so skips
\* what it looks for when the entries are in no order. Counted from 0.
lower_bound(dynsyms, from, x) ==
  LET search[first \in 0..Len(dynsyms), len \in 0..Len(dynsyms)] ==
        LET half == len \div 2 IN
        IF len = 0 THEN first
        ELSE IF dynsym_less(dynsyms[first + half + 1], x) THEN search[first + half + 1, len - half - 1]
        ELSE search[first, half]
  IN search[from, Len(dynsyms) - from]
find_dynsym_ordinalFirst(dynsyms, s, addend) == fixup_ordinal(dynsyms, s)
find_dynsym_ordinal(dynsyms, s, addend) == lower_bound(dynsyms, fixup_ordinal(dynsyms, s), SymbolAddend(s, addend))
misses_dynsym(dynsyms, x) ==
  /\ x.sym # <<>> /\ x.addend > MaxInlineAddend
  /\ LET i == find_dynsym_ordinal(dynsyms, x.sym, x.addend) IN
     i = Len(dynsyms) \/ dynsyms[i + 1] # SymbolAddend(x.sym, x.addend)
import_format(dynsyms) ==
  LET max == Max({0} \cup {x.addend : x \in Range(dynsyms)}) IN
  IF max = 0 THEN "import" ELSE IF max < Mod32 THEN "addend" ELSE "addend64"
import_size(format) == CASE format = "import" -> 4 [] format = "addend" -> 8 [] format = "addend64" -> 16

\* write_imports, and the names: one per run of a symbol.
name_starts(dynsyms, i) == i = 1 \/ dynsyms[i - 1].sym # dynsyms[i].sym
nameoff(dynsyms, i) ==
  FoldLeft(LAMBDA n, j : IF name_starts(dynsyms, j + 1) THEN n + Len(dynsyms[j].sym) + 1 ELSE n, 0, [j \in 1..(i - 1) |-> j])
write_imports(dynsyms) ==
  [i \in DOMAIN dynsyms |->
     LET s == dynsyms[i].sym IN
     [lib_ordinal |-> IF link.flat_namespace THEN -2 ELSE IF is_dylib(sym[s].file) THEN DylibOf(sym[s].file).dylib_idx ELSE -3,
      weak_import |-> sym[s].is_weak, name_offset |-> nameoff(dynsyms, i), addend |-> dynsyms[i].addend]]
symbol_names(dynsyms) ==
  FoldLeft(LAMBDA acc, i : IF name_starts(dynsyms, i) THEN Append(acc, dynsyms[i].sym) ELSE acc, <<>>, [i \in DOMAIN dynsyms |-> i])
ChainedFixups ==
  LET fixups == get_fixups
      dynsyms == get_dynsyms(fixups)
      starts == starts_in_image(fixups) IN
  [fixups |-> fixups, dynsyms |-> dynsyms, starts |-> starts, imports |-> write_imports(dynsyms),
   names |-> symbol_names(dynsyms),
   size |-> IF fixups = <<>> THEN 0 ELSE
     align_to(align_to(28, 8) + align_to(4 + 4 * (seg_idx("__LINKEDIT") + 1), 8)
              + FoldSet(LAMBDA g, n : n + align_to(22 + 2 * Len(starts[g].page_start), 8), 0, DOMAIN starts)
              + import_size(import_format(dynsyms)) * Len(dynsyms)
              + FoldLeft(LAMBDA n, s : n + Len(s) + 1, 0, symbol_names(dynsyms)), 8)]

next_fixupAcross(fx, i) == IF i < Len(fx) THEN (fx[i + 1].addr - fx[i].addr) \div 4 ELSE 0
\* write_fixup_chains: what a place of the file becomes. Its place must be
\* aligned, and a rebased word have nothing between target and high byte.
next_fixup(fx, i) ==
  IF i < Len(fx) /\ fx[i + 1].addr \div page_size = fx[i].addr \div page_size THEN (fx[i + 1].addr - fx[i].addr) \div 4 ELSE 0
chain_entry(dynsyms, fx, i, val) ==
  LET x == fx[i] IN
  IF x.sym # <<>>
  THEN [k |-> "bind", next |-> next_fixup(fx, i),
        ordinal |-> IF x.addend <= MaxInlineAddend THEN fixup_ordinal(dynsyms, x.sym)
                    ELSE find_dynsym_ordinal(dynsyms, x.sym, x.addend),
        addend |-> IF x.addend <= MaxInlineAddend THEN x.addend ELSE 0]
  ELSE [k |-> "rebase", next |-> next_fixup(fx, i), target |-> val % MaxTarget, high8 |-> val \div High8]
fixup_error(x, val) == x.addr % 4 # 0 \/ (x.sym = <<>> /\ (val % High8) \div MaxTarget # 0)

-----------------------------------------------------------------------------
(* The export trie. A node is the part of a name that leads to it: the     *)
(* root, names, and what two names have in common.                         *)
export_entries ==
  {[name |-> s, flags |-> <<sym[s].is_weak, sym[s].is_tlv>>, addr |-> (get_addr(lay, s) - image_base(lay)) % WordMod] :
     s \in {t \in DOMAIN sym : /\ sym[t].visibility = "global" /\ sym[t].file \in Range(ObjIds)
                               /\ t \in Range(syms_of(sym[t].file))}}
common_prefix(a, b) ==
  SubSeq(a, 1, Max({n \in 0..Len(a) : n <= Len(b) /\ SubSeq(a, 1, n) = SubSeq(b, 1, n)}))
construct_trie(names) == {<<>>} \cup {common_prefix(a, b) : a \in names, b \in names}
trie_children(nodes, p) ==
  LET below == {q \in nodes : p # q /\ IsPrefix(p, q)} IN {q \in below : ~\E r \in below : r # q /\ IsPrefix(r, q)}
leaf_size(e) == uleb_size(IF e.flags[1] \/ e.flags[2] THEN 1 ELSE 0) + uleb_size(e.addr)
\* The bytes of a node when the offsets of its children are off.
node_size(entries, nodes, off, p) ==
  LET own == {e \in entries : e.name = p}
      n == leaf_size(CHOOSE e \in own : TRUE) IN
  (IF own = {} THEN 1 ELSE n + uleb_size(n)) + 1
  + FoldSet(LAMBDA q, acc : acc + Len(q) - Len(p) + 1 + uleb_size(off[q]), 0, trie_children(nodes, p))
unset_offsetZero == 0
\* set_offset visits the nodes in the order of their names. It runs twice:
\* first as if every offset took five bytes, so that what is written fits.
unset_offset == 128 ^ 4
set_offset(entries, nodes, off) ==
  FoldLeft(LAMBDA acc, p : [acc EXCEPT !.off[p] = acc.size, !.size = @ + node_size(entries, nodes, off, p)],
           [size |-> 0, off |-> off], ByName(Enumerate(nodes)))
ExportTrie ==
  LET nodes == construct_trie({e.name : e \in export_entries})
      first == set_offset(export_entries, nodes, [p \in nodes |-> unset_offset])
      second == set_offset(export_entries, nodes, first.off) IN
  [nodes |-> nodes, entries |-> export_entries, off |-> second.off,
   size |-> IF export_entries = {} THEN 0 ELSE align_to(second.size, 8)]

-----------------------------------------------------------------------------
(* Function starts: distances between distinct addresses, and a zero.      *)
text_symbols ==
  {s \in DOMAIN sym : /\ sym[s].file \in Range(ObjIds) /\ s \in Range(syms_of(sym[s].file))
                      /\ sym[s].subsec # <<>> /\ subs[sym[s].subsec].alive /\ osec_of(sym[s].subsec) = Text("__text")}
start_addrsRepeated == SortSeq([i \in DOMAIN Enumerate(text_symbols) |-> get_addr(lay, Enumerate(text_symbols)[i])], <)
start_addrs == SortSeq(Enumerate({get_addr(lay, s) : s \in text_symbols}), <)
FunctionStarts ==
  LET q == start_addrs
      steps == [i \in DOMAIN q |-> q[i] - (IF i = 1 THEN image_base(lay) ELSE q[i - 1])] IN
  [steps |-> Append(steps, 0), size |-> align_to(FoldLeft(LAMBDA n, d : n + uleb_size(d), 1, steps), 8)]

-----------------------------------------------------------------------------
(* The symbol table: debug, local, global and undefined symbols, each kind *)
(* file by file.                                                           *)
SymFiles == ObjIds \o DylibIds
emit_debug_syms(f) == f # Internal /\ ~is_dylib(f) /\ ObjOf(f).debug > 0 /\ ~link.S
symtab_syms(f) ==
  SelectSeq(syms_of(f), LAMBDA s :
    /\ sym[s].file = f
    /\ IF is_dylib(f) THEN sym[s].stub_idx # -1 \/ sym[s].got_idx # -1
       ELSE /\ sym[s].subsec # <<>> => subs[sym[s].subsec].alive
            /\ kind_of(s).type # "private"
            /\ ~(link.x /\ sym[s].visibility = "local"))
symtab_class(s) ==
  IF sym[s].is_imported THEN "undef" ELSE IF sym[s].visibility = "global" THEN "global" ELSE "local"
in_class(f, c) == SelectSeq(symtab_syms(f), LAMBDA s : symtab_class(s) = c)
stabs_of(s) == IF sym[s].subsec = <<>> THEN 0 ELSE IF subs[sym[s].subsec].code THEN 2 ELSE 1
num_stabs(f) ==
  IF emit_debug_syms(f) THEN FoldLeft(LAMBDA n, s : n + stabs_of(s), 3, symtab_syms(f)) ELSE 0
strtab_size(f) ==
  FoldLeft(LAMBDA n, s : n + Len(s) + 1, IF emit_debug_syms(f) THEN ObjOf(f).debug + 1 ELSE 0, symtab_syms(f))
count_of(f, c) == IF c = "stab" THEN num_stabs(f) ELSE IF c = "str" THEN strtab_size(f) ELSE Len(in_class(f, c))
\* The first index of every file for a kind, from a base on.
offsets_from(base, c) ==
  [i \in DOMAIN SymFiles |-> FoldLeft(LAMBDA n, j : n + count_of(SymFiles[j], c), base, [j \in 1..(i - 1) |-> j])]
end_of(base, c) == FoldLeft(LAMBDA n, f : n + count_of(f, c), base, SymFiles)
\* The string table starts with a blank, the empty string and "-".
strtab_init == 4
Symtab ==
  LET asts == Len(link.add_ast_path)
      locals == end_of(asts, "stab")
      globals == end_of(locals, "local")
      undefs == end_of(globals, "global")
      strs == FoldLeft(LAMBDA n, len : n + len + 1, strtab_init, link.add_ast_path) IN
  [globals |-> globals, undefs |-> undefs, nsyms |-> end_of(undefs, "undef"),
   strsize |-> end_of(strs, "str"),
   stabs |-> offsets_from(asts, "stab"), str |-> offsets_from(strs, "str"),
   first |-> [local |-> offsets_from(locals, "local"), global |-> offsets_from(globals, "global"),
              undef |-> offsets_from(undefs, "undef")]]
symtab_idx(t, s) ==
  LET i == Index(SymFiles, sym[s].file) + 1 IN
  IF i = 0 \/ s \notin Range(symtab_syms(SymFiles[i])) THEN -1
  ELSE t.first[symtab_class(s)][i] + Index(in_class(SymFiles[i], symtab_class(s)), s)

\* populate_symtab: strings in the order of the file's symbols, then the name
\* of the object file for a debugger.
string_at(t, s) ==
  LET i == Index(SymFiles, sym[s].file) + 1
      mine == symtab_syms(SymFiles[i]) IN
  FoldLeft(LAMBDA n, j : n + Len(mine[j]) + 1, t.str[i], [j \in 1..Index(mine, s) |-> j])
symtab_entry(t, s) ==
  LET x == sym[s]
      in_data == s \in {dyld_private, dso_handle} \/ (s = mh_header /\ link.output_type # "execute") IN
  [name |-> s, str |-> string_at(t, s), class |-> symtab_class(s),
   value |-> IF x.subsec # <<>> THEN get_addr(lay, s) ELSE 0,
   sect |-> IF x.subsec # <<>> THEN sect_idx(osec_of(x.subsec)) ELSE IF in_data THEN sect_idx(Data("__data"))
            ELSE IF s = mh_header THEN sect_idx(Text("__text")) ELSE IF x.is_imported THEN 0 ELSE -1]
symtab_written == {s \in DOMAIN sym : sym[s].output_symtab_idx >= 0}

\* The stabs of a file: N_SO, N_OSO, its symbols, N_SO.
file_stabs(t, i) ==
  LET f == SymFiles[i]
      listed == SelectSeq(symtab_syms(f), LAMBDA s : sym[s].subsec # <<>>)
      of(s) == IF subs[sym[s].subsec].code
               THEN <<[type |-> "FUN", str |-> string_at(t, s), value |-> get_addr(lay, s)],
                      [type |-> "FUN", str |-> 1, value |-> subs[sym[s].subsec].input_size]>>
               ELSE <<[type |-> IF sym[s].visibility = "local" THEN "STSYM" ELSE "GSYM",
                       str |-> string_at(t, s), value |-> get_addr(lay, s)]>> IN
  IF ~emit_debug_syms(f) THEN <<>>
  ELSE <<[type |-> "SO", str |-> 2, value |-> 0],
         [type |-> "OSO", str |-> t.str[i] + strtab_size(f) - (ObjOf(f).debug + 1), value |-> 0]>>
       \o FoldLeft(LAMBDA acc, s : acc \o of(s), <<>>, listed) \o <<[type |-> "SO", str |-> 1, value |-> 0]>>

\* Indirect symbols, for slots in the order GOT, thread pointers, stubs, lazy
\* pointers.
INDIRECT_SYMBOL_LOCAL == -2
indirect_idx(s) ==
  IF sym[s].is_abs \/ sym[s].visibility # "global" THEN INDIRECT_SYMBOL_LOCAL ELSE sym[s].output_symtab_idx
indirect_syms == slots.got \o slots.thread_ptrs \o slots.stubs \o (IF link.fixup_chains THEN <<>> ELSE slots.stubs)
indirect_base(c) ==
  CASE c = GOT -> 0
    [] c = Data("__thread_ptrs") -> Len(slots.got)
    [] c = Text("__stubs") -> Len(slots.got) + Len(slots.thread_ptrs)
    [] c = Data("__la_symbol_ptr") -> Len(slots.got) + Len(slots.thread_ptrs) + Len(slots.stubs)

-----------------------------------------------------------------------------
(* Initializers and data in code. *)
InitOffsets ==
  FoldLeft(LAMBDA acc, o : acc \o [i \in DOMAIN o.init_functions |-> get_addr(lay, o.init_functions[i]) - image_base(lay)],
           <<>>, link.objs)
\* An entry is looked for in the subsection after the one of the entry before.
data_in_code_step(acc, x) ==
  IF acc.left = <<>> \/ subs[x].input_addr + subs[x].input_size < acc.left[1].offset THEN acc
  ELSE [left |-> Tail(acc.left),
        done |-> IF acc.left[1].offset >= subs[x].input_addr + subs[x].input_size THEN acc.done
                 ELSE Append(acc.done, (sub_addr(lay, x) + subs[x].input_addr - acc.left[1].offset
                                        - lay.cmd["__TEXT"].vmaddr) % Mod32)]
DataInCode ==
  FoldLeft(LAMBDA acc, o : acc \o FoldLeft(data_in_code_step, [left |-> o.data_in_code, done |-> <<>>], o.subsecs).done,
           <<>>, link.objs)

-----------------------------------------------------------------------------
(* encode_unwind_info. Addresses are 32-bit numbers; those of functions    *)
(* and of personalities are not taken from the start of the image.         *)
unwind_first_level(u) ==
  [i \in DOMAIN u.pages |-> func_addr(lay, u.pages[i][1]) % Mod32]
unwind_end(u) ==
  LET page == u.pages[Len(u.pages)]
      last == page[Len(page)] IN
  (sub_addr(lay, last.subsec) + subs[last.subsec].input_size + 1) % Mod32
with_lsda(rs) == SelectSeq(rs, LAMBDA r : r.lsda # <<>>)
lsda_entries(rs) ==
  [i \in DOMAIN with_lsda(rs) |->
     LET r == with_lsda(rs)[i] IN
     [func_addr |-> func_addr(lay, r) - image_base(lay), lsda_addr |-> sub_addr(lay, r.lsda) + r.lsda_offset - image_base(lay)]]
encode_unwind_info(u) ==
  [personalities |-> [i \in DOMAIN u.personalities |-> get_got_addr(lay, u.personalities[i]) % Mod32],
   first |-> unwind_first_level(u), end |-> IF u.pages = <<>> THEN 0 ELSE unwind_end(u),
   lsda |-> [i \in DOMAIN u.pages |-> lsda_entries(u.pages[i])],
   second |-> [i \in DOMAIN u.pages |->
                 [j \in DOMAIN u.pages[i] |->
                    [func_addr |-> func_addr(lay, u.pages[i][j]) - func_addr(lay, u.pages[i][1]),
                     encoding |-> Index(page_encodings(u.pages[i]), u.pages[i][j].encoding)]]],
   encodings |-> [i \in DOMAIN u.pages |-> page_encodings(u.pages[i])]]
\* CieRecord::copy_to and FdeRecord::copy_to: the fields that move. The LSDA's
\* is at the offset aug of its record.
eh_addr(r) == lay.hdr[Text("__eh_frame")].addr + lay.eh[r]
cie_personality(c) == get_got_addr(lay, c.personality) - (eh_addr(c.id) + c.personality_offset)
fde_fields(d) ==
  [cie |-> lay.eh[d.id] + 4 - lay.eh[d.cie], func |-> sub_addr(lay, d.subsec) - eh_addr(d.id) - 8,
   lsda |-> IF d.lsda = <<>> THEN 0 ELSE sub_addr(lay, d.lsda) - eh_addr(d.id) - d.aug + d.lsda_offset]
=============================================================================
