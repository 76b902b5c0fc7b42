------------------------------ MODULE MachLoader ------------------------------
(***************************************************************************)
(* What a finished Mach-O image means. The loader (external) maps segments,*)
(* slides the image and follows the fixups; the processor follows the code *)
(* of the linker's stubs; the unwinder looks functions up. The properties  *)
(* say that every reference arrives, that the image and its tables are     *)
(* whole, and that every function is found.                                *)
(*                                                                         *)
(* A loaded word is a number, an address of the slid image, or the address *)
(* of a symbol of a library, plus a number.                                *)
(***************************************************************************)
EXTENDS MachOutput

Number(v) == [base |-> <<"number">>, v |-> v]
Slid(v) == [base |-> <<"image">>, v |-> v]
Bound(lib, name, weak, v) == [base |-> <<IF lib \in {-2, -3} THEN -2 ELSE lib, name, weak>>, v |-> v % WordMod]
SegmentOf(i) == CHOOSE g \in Range(segments) : seg_idx(g) = i
MappedAt(a) ==
  LET g == CHOOSE h \in Range(segments) : lay.cmd[h].vmaddr <= a /\ a < lay.cmd[h].vmaddr + lay.cmd[h].vmsize IN
  lay.cmd[g].fileoff + a - lay.cmd[g].vmaddr
Mapped(a) == MappedAt(a) \in DOMAIN file.cells
CellAt(a) == file.cells[MappedAt(a)]
Field(a) == IF Mapped(a) /\ CellAt(a).k = "word" THEN CellAt(a).v ELSE -1

LoaderStep(st, o) ==
  CASE o.op = "segment" -> [st EXCEPT !.at = lay.cmd[SegmentOf(o.arg.seg)].vmaddr + o.arg.offset]
    [] o.op = "add" -> [st EXCEPT !.at = @ + o.arg]
    [] o.op = "dylib" -> [st EXCEPT !.lib = o.arg]
    [] o.op = "symbol" -> [st EXCEPT !.sym = o.arg]
    [] o.op = "addend" -> [st EXCEPT !.addend = o.arg]
    [] o.op = "do" -> [st EXCEPT !.at = @ + 8 * o.arg, !.count = @ + o.arg, !.done = @ \cup
                         {[addr |-> st.at + 8 * k, to |-> Bound(st.lib, st.sym.name, st.sym.weak, st.addend)] : k \in 0..(o.arg - 1)}]
    [] OTHER -> st
RunOpcodes(ops) ==
  FoldLeft(LoaderStep, [at |-> 0, lib |-> 0, sym |-> [name |-> <<>>, weak |-> FALSE], addend |-> 0, count |-> 0, done |-> {}], ops)
Rebased == {x.addr : x \in RunOpcodes(tab.rebase).done}
Binds == RunOpcodes(tab.bind).done
\* What dyld does when a stub helper passes it the offset of a program.
LazyProgram(offset) ==
  LET starts == {i \in DOMAIN tab.lazy.ops : ops_size(SubSeq(tab.lazy.ops, 1, i - 1)) = offset}
      from == CHOOSE i \in starts : TRUE
      end == Min({i \in from..Len(tab.lazy.ops) : tab.lazy.ops[i].op = "done"}) IN
  IF starts = {} THEN {} ELSE RunOpcodes(SubSeq(tab.lazy.ops, from, end)).done

\* Chains: the starts of pages, and as far as the entries lead.
ChainStarts ==
  UNION {{image_base(lay) + tab.chained.starts[g].segment_offset + (i - 1) * page_size + tab.chained.starts[g].page_start[i] :
            i \in {j \in DOMAIN tab.chained.starts[g].page_start : tab.chained.starts[g].page_start[j] # -1}} :
         g \in DOMAIN tab.chained.starts}
ChainNext(a) == IF Mapped(a) /\ CellAt(a).k # "word" /\ CellAt(a).next > 0 THEN {a + 4 * CellAt(a).next} ELSE {}
Chained ==
  IF ~link.fixup_chains \/ tab.chained.size = 0 THEN {}
  ELSE FoldLeft(LAMBDA S, i : S \cup UNION {ChainNext(a) : a \in S}, ChainStarts, tab.chained.fixups)
\* An entry is replaced by a pointer when it is reached: it must not be reached
\* by a chain of the page before and from the start of its own page.
ReachedTwice(a) == a \in ChainStarts /\ \E b \in Chained : a \in ChainNext(b)
ImportName(off) ==
  LET n == tab.chained.names
      at(i) == FoldLeft(LAMBDA acc, j : acc + Len(n[j]) + 1, 0, [j \in 1..(i - 1) |-> j])
      here == {i \in DOMAIN n : at(i) = off} IN
  IF here = {} THEN <<>> ELSE n[CHOOSE i \in here : TRUE]
ChainValue(c) ==
  IF c.k = "rebase" THEN Slid(c.target + c.high8 * High8)
  ELSE IF c.ordinal + 1 \notin DOMAIN tab.chained.imports THEN Number(-1)
  ELSE LET m == tab.chained.imports[c.ordinal + 1] IN
       Bound(m.lib_ordinal, ImportName(m.name_offset), m.weak_import, c.addend + m.addend)
\* The word at an address of the loaded image.
Loaded(a) ==
  IF ~Mapped(a) THEN Number(0)
  ELSE IF CellAt(a).k # "word" THEN (IF a \in Chained /\ ~ReachedTwice(a) THEN ChainValue(CellAt(a)) ELSE Number(-1))
  ELSE LET bound == {b \in Binds : b.addr = a} IN
       IF bound # {} THEN (CHOOSE b \in bound : TRUE).to
       ELSE IF a \in Rebased THEN Slid(CellAt(a).v) ELSE Number(CellAt(a).v)

-----------------------------------------------------------------------------
(* References. *)
Home(s) == (IF sym[s].subsec # <<>> THEN sub_addr(lay, sym[s].subsec) ELSE 0) + sym[s].value
PointerTo(s, a) ==
  IF ~sym[s].is_imported THEN Slid((Home(s) + a) % WordMod)
  ELSE Bound(IF link.flat_namespace \/ ~is_dylib(sym[s].file) THEN -2 ELSE DylibOf(sym[s].file).dylib_idx, s, sym[s].is_weak, a)
Goal(r) == IF r.sym # <<>> THEN PointerTo(r.sym, r.addend) ELSE Slid(sub_addr(lay, r.subsec) + r.addend)
\* What an instruction can refer to itself: places of this image only.
Here(r) == (IF r.sym # <<>> THEN Home(r.sym) ELSE sub_addr(lay, r.subsec)) + r.addend
Slot(q, c, s) == lay.hdr[c].addr + Index(q, s) * Word
Same32(a, b) == a % Mod32 = b % Mod32
\* Addresses that code computes: ADRP with the load after it, or a distance.
AdrpLdr(at) == (page(at) + Field(at)) * AdrPage + 8 * Field(at + 4)
\* The helper of a stub passes the stub's own program to dyld_stub_binder.
HelperBinds(i, s) ==
  LET at == helper_entry(i)
      binder == Slot(slots.got, GOT, dyld_stub_binder)
      private == lay.hdr[Data("__data")].addr IN
  /\ LazyProgram(Field(IF Arm THEN at + 8 ELSE at + 1)) = {[addr |-> lazy_addr(i), to |-> PointerTo(s, 0)]}
  /\ Same32(IF Arm THEN at + 4 + Field(at + 4) ELSE at + 10 + Field(at + 6), helper_addr)
  /\ Same32(IF Arm THEN (page(helper_addr) + Field(helper_addr)) * AdrPage + Field(helper_addr + 4)
            ELSE helper_addr + 7 + Field(helper_addr + 3), private)
  /\ Same32(IF Arm THEN AdrpLdr(helper_addr + 12) ELSE helper_addr + 15 + Field(helper_addr + 11), binder)
  /\ Loaded(binder) = PointerTo(dyld_stub_binder, 0)
StubArrives(i) ==
  LET s == slots.stubs[i]
      ptr == IF Arm THEN AdrpLdr(stub_addr(i)) ELSE stub_addr(i) + 6 + Field(stub_addr(i) + 2) IN
  \/ s \in Range(slots.got) /\ Same32(ptr, Slot(slots.got, GOT, s)) /\ Loaded(Slot(slots.got, GOT, s)) = PointerTo(s, 0)
  \/ /\ ~link.fixup_chains /\ Same32(ptr, lazy_addr(i))
     /\ Loaded(lazy_addr(i)) = Slid(helper_entry(i)) /\ HelperBinds(i, s)
\* The stub of a message loads the selector and jumps to _objc_msgSend.
ObjcStubArrives(i) ==
  LET at == objc_stub_addr(i)
      s == internal.msgsend[i]
      ref == sub_addr(lay, <<"selref", s>>)
      got == Slot(slots.got, GOT, objc_msgSend) IN
  /\ Same32(IF Arm THEN AdrpLdr(at) ELSE at + 7 + Field(at + 3), ref)
  /\ Loaded(ref) = Slid(sub_addr(lay, <<"methname", s>>))
  /\ Same32(IF Arm THEN AdrpLdr(at + 8) ELSE at + 13 + Field(at + 9), got)
  /\ Loaded(got) = PointerTo(objc_msgSend, 0)
CallArrives(to, r) ==
  IF r.sym \in Range(slots.stubs)
  THEN LET i == Index(slots.stubs, r.sym) + 1 IN Same32(to, stub_addr(i) + r.addend) /\ StubArrives(i)
  ELSE IF r.sym \in Range(internal.msgsend)
  THEN LET i == Index(internal.msgsend, r.sym) + 1 IN Same32(to, objc_stub_addr(i) + r.addend) /\ ObjcStubArrives(i)
  ELSE Slid(to % Mod32) = [Goal(r) EXCEPT !.v = @ % Mod32]
\* A field of an instruction and the address it must give.
FieldGives(p, to) ==
  LET P == rel_addr(p)
      v == Field(P)
      t == p.rel.type IN
  CASE t \in {"PAGE21", "GOT_LOAD_PAGE21", "TLVP_LOAD_PAGE21"} -> Same32((page(P) + v) * AdrPage, page(to) * AdrPage)
    [] t \in {"PAGEOFF12", "GOT_LOAD_PAGEOFF12", "TLVP_LOAD_PAGEOFF12"} -> v * 2 ^ p.rel.scale = to % AdrPage
    [] t = "POINTER_TO_GOT" -> Same32(P + v, to)
    [] OTHER -> Same32(P + 4 + p.rel.scale + v, to)
TlsBegin == Min({lay.hdr[ch.id].addr : ch \in {c \in Chunks : c.type \in {"thread_local_regular", "thread_local_zerofill"}}})
Arrives(p) ==
  LET r == p.rel
      P == rel_addr(p)
      got == Slot(slots.got, GOT, r.sym)
      tlv == Slot(slots.thread_ptrs, Data("__thread_ptrs"), r.sym) IN
  CASE r.type = "UNSIGNED" -> Loaded(P) = IF refers_to_tls(r) THEN Number(Home(r.sym) + r.addend - TlsBegin) ELSE Goal(r)
    [] r.type = "SUBTRACTOR" ->
         Loaded(P) = Number((Goal(subs[p.in].rels[p.i + 1]).v - Goal([r EXCEPT !.addend = 0]).v) % (IF r.size = 4 THEN Mod32 ELSE WordMod))
    [] r.type = "BRANCH26" -> CallArrives(P + Field(P), r)
    [] r.type = "BRANCH" -> CallArrives(P + 4 + Field(P), r)
    [] r.type \in {"GOT_LOAD_PAGE21", "GOT_LOAD_PAGEOFF12", "POINTER_TO_GOT", "GOT", "GOT_LOAD"} ->
         FieldGives(p, got + r.addend) /\ Loaded(got) = PointerTo(r.sym, 0)
    [] r.type \in {"TLVP_LOAD_PAGE21", "TLVP_LOAD_PAGEOFF12", "TLV"} ->
         FieldGives(p, tlv + r.addend) /\ Loaded(tlv) = PointerTo(r.sym, 0)
    [] OTHER -> FieldGives(p, Here(r))

(***************************************************************************)
(* In the loaded image every relocated word and every instruction field    *)
(* leads where its relocation says: to the place of a symbol, wherever the *)
(* image is slid; to the symbol of the right library; to its slot in the   *)
(* GOT or among the thread pointers, which holds that symbol; or to a stub *)
(* whose code reaches it, at once or through the lazy binding program that *)
(* its helper passes on. This takes the scan, the slots, the layout, the   *)
(* encodings of rebases, binds or chains, and the copied code together.    *)
(***************************************************************************)
ReferencesArrive == pc = "done" => \A p \in live_rels : ~p.rel.is_subtracted => Arrives(p)

-----------------------------------------------------------------------------
(* The image. *)
Apart(S) == \A x \in S, y \in S : x = y \/ x.to <= y.from \/ y.to <= x.from
Memory(c) == [id |-> c, from |-> lay.hdr[c].addr, to |-> lay.hdr[c].addr + lay.hdr[c].size]
SubMemory(x) == [id |-> x, from |-> sub_addr(lay, x), to |-> sub_addr(lay, x) + subs[x].input_size]
SegMemory(g) == [id |-> g, from |-> lay.cmd[g].vmaddr, to |-> lay.cmd[g].vmaddr + lay.cmd[g].vmsize]
SegFile(g) == [id |-> g, from |-> lay.cmd[g].fileoff, to |-> lay.cmd[g].fileoff + lay.cmd[g].filesize]
Inside(x, y) == y.from <= x.from /\ x.to <= y.to
MappedRight(ch) ==
  LET h == lay.hdr[ch.id]
      g == lay.cmd[ch.id[1]] IN
  is_bss(ch) \/ (h.offset - g.fileoff = h.addr - g.vmaddr /\ h.offset + h.size <= g.fileoff + g.filesize)

(***************************************************************************)
(* A finished image can be mapped: segments are apart in memory and in the *)
(* file, chunks are apart and inside their segments, and the bytes of a    *)
(* chunk are where the mapping of its segment puts them; subsections are   *)
(* apart, inside their section and aligned. The header, placed before most *)
(* of what its commands describe has a size, has room for the commands as  *)
(* they are in the end, and nothing is left of what was written over it;   *)
(* the signature has the hashes of the pages as they are in the end.       *)
(***************************************************************************)
ImageIsSound ==
  pc = "done" =>
    LET chunks == {ch.id : ch \in {c \in Chunks : lay.hdr[c.id].size > 0}}
        placed == UNION {Range(members(c)) : c \in DOMAIN out.members} IN
    /\ Apart({SegMemory(g) : g \in Range(segments)}) /\ Apart({SegFile(g) : g \in Range(segments)})
    /\ \A g \in Range(segments) : lay.cmd[g].vmaddr % page_size = 0 /\ lay.cmd[g].filesize <= lay.cmd[g].vmsize
    /\ Apart({Memory(c) : c \in chunks})
    /\ \A ch \in Chunks : Inside(Memory(ch.id), SegMemory(ch.id[1])) /\ MappedRight(ch)
    /\ Apart({SubMemory(x) : x \in placed})
    /\ \A x \in placed : Inside(SubMemory(x), Memory(osec_of(x))) /\ sub_addr(lay, x) % (2 ^ subs[x].p2align) = 0
    /\ image_base(lay) = lay.cmd["__TEXT"].vmaddr
    /\ mach_header_size + load_commands_size(lay) <= lay.hdr[MachHdr].size
    /\ file.header = "whole"
    /\ \A i \in DOMAIN file.hashes : i * page_size < lay.hdr[MachHdr].size => file.hashes[i] = file.uuid

-----------------------------------------------------------------------------
(* The tables. *)
Strings == {[id |-> s, from |-> string_at(tab.symtab, s), to |-> string_at(tab.symtab, s) + Len(s) + 1] : s \in symtab_written}
           \cup {[id |-> <<f>>, from |-> tab.symtab.str[f] + strtab_size(SymFiles[f]) - (ObjOf(SymFiles[f]).debug + 1),
                  to |-> tab.symtab.str[f] + strtab_size(SymFiles[f])] : f \in {i \in DOMAIN SymFiles : emit_debug_syms(SymFiles[i])}}
SymtabIsWhole ==
  LET t == tab.symtab
      idx(s) == sym[s].output_symtab_idx
      locals == end_of(Len(link.add_ast_path), "stab") IN
  /\ {idx(s) : s \in symtab_written} = locals..(t.nsyms - 1) /\ Cardinality(symtab_written) = t.nsyms - locals
  /\ \A s \in symtab_written :
       CASE symtab_class(s) = "local" -> idx(s) < t.globals
         [] symtab_class(s) = "global" -> t.globals <= idx(s) /\ idx(s) < t.undefs
         [] symtab_class(s) = "undef" -> t.undefs <= idx(s)
  /\ \A i \in DOMAIN SymFiles : Len(file_stabs(t, i)) = num_stabs(SymFiles[i])
  /\ Apart(Strings) /\ \A x \in Strings : strtab_init <= x.from /\ x.to <= t.strsize
\* The entries from where a section says (reserved1) name its slots. (Those of
\* imported thread-local variables may have no symbol to name.)
SlotsOf(c) == IF c = GOT THEN slots.got ELSE slots.stubs
IndirectNames ==
  \A c \in {GOT, Text("__stubs")} \cup (IF link.fixup_chains THEN {} ELSE {Data("__la_symbol_ptr")}) :
    \A i \in DOMAIN SlotsOf(c) :
      LET s == indirect_syms[indirect_base(c) + i] IN
      s = SlotsOf(c)[i] /\ (indirect_idx(s) # INDIRECT_SYMBOL_LOCAL => s \in symtab_written)
\* A trie is read from its root by following offsets: what is at an offset must
\* be the node that was put there.
TrieReads ==
  LET t == tab.trie
      extent(p) == [id |-> p, from |-> t.off[p], to |-> t.off[p] + node_size(t.entries, t.nodes, t.off, p)] IN
  t.entries # {} =>
    /\ t.off[<<>>] = 0
    /\ Apart({extent(p) : p \in t.nodes}) /\ \A p \in t.nodes : extent(p).to <= t.size
    /\ \A e \in t.entries : ~sym[e.name].is_imported => e.addr = (Home(e.name) - image_base(lay)) % WordMod
\* A reader of function starts stops at a zero.
StartsRead ==
  LET steps == tab.starts.steps
      n == Min({i \in DOMAIN steps : steps[i] = 0}) - 1 IN
  {FoldLeft(LAMBDA a, j : a + steps[j], image_base(lay), [j \in 1..i |-> j]) : i \in 1..n} = {get_addr(lay, s) : s \in text_symbols}

(***************************************************************************)
(* The tables of a finished image can be read back: symbols have distinct  *)
(* indices that fill the table in the order LC_DYSYMTAB says, the stabs of *)
(* a file are as many as were counted, strings are apart; slots name their *)
(* symbols; the export trie, whose offsets have as many bytes as it takes  *)
(* to reach them, leads to the address of every symbol; function starts    *)
(* end where the functions do.                                             *)
(***************************************************************************)
TablesReadBack == pc = "done" => SymtabIsWhole /\ IndirectNames /\ TrieReads /\ StartsRead

-----------------------------------------------------------------------------
(* Unwinding. *)
FdeOf(n) == CHOOSE d \in UNION {Range(o.fdes) : o \in Range(link.objs)} : d.id = n
CieOf(n) == CHOOSE c \in UNION {Range(o.cies) : o \in Range(link.objs)} : c.id = n
GotHolds(addr, s) == Same32(addr, Slot(slots.got, GOT, s)) /\ Loaded(Slot(slots.got, GOT, s)) = PointerTo(s, 0)
FdeLeads(r) ==
  LET d == FdeOf(r.fde)
      x == fde_fields(d)
      c == CieOf(d.cie) IN
  /\ eh_addr(d.id) + 8 + x.func = func_addr(lay, r)
  /\ eh_addr(d.id) + 4 - x.cie = eh_addr(d.cie)
  /\ d.lsda # <<>> => eh_addr(d.id) + d.aug + x.lsda = sub_addr(lay, d.lsda) + d.lsda_offset
  /\ c.personality # <<>> => GotHolds(eh_addr(c.id) + c.personality_offset + cie_personality(c), c.personality)
\* What libunwind finds for a place of the image.
Lookup(e, at) ==
  LET i == Max({k \in DOMAIN e.first : e.first[k] <= at})
      j == Max({k \in DOMAIN e.second[i] : e.first[i] + e.second[i][k].func_addr <= at})
      start == e.first[i] + e.second[i][j].func_addr
      lsdas == {x \in Range(e.lsda[i]) : x.func_addr = start} IN
  [start |-> start, encoding |-> e.encodings[i][e.second[i][j].encoding + 1],
   lsda |-> IF lsdas = {} THEN 0 ELSE (CHOOSE x \in lsdas : TRUE).lsda_addr]
Found(e, r, at) ==
  LET start == func_addr(lay, r) - image_base(lay)
      u == Lookup(e, at) IN
  /\ e.first[1] <= at /\ at < e.end
  /\ IF r.fde # "" THEN u.encoding = <<"dwarf", lay.eh[r.fde]>> /\ FdeLeads(r)
     ELSE /\ u.encoding[1] = r.encoding
          \* The encoding of such a function is in its own instructions.
          /\ r.encoding = "stack_ind" /\ ~Arm => u.start = start
          /\ IF r.personality = <<>> THEN u.encoding[2] = 0
             ELSE u.encoding[2] > 0 /\ GotHolds(image_base(lay) + e.personalities[u.encoding[2]], r.personality)
          /\ u.lsda = IF r.lsda = <<>> THEN 0 ELSE sub_addr(lay, r.lsda) + r.lsda_offset - image_base(lay)

(***************************************************************************)
(* From the first to the last instruction of every function with an unwind *)
(* record, the two-level table, where equal neighbours are one entry and   *)
(* pages are split by number and by distance, leads to the function's own  *)
(* encoding, its personality through the GOT and its language-specific     *)
(* data, or to the frame description that describes it. The encodings were *)
(* made while the layout was under way.                                    *)
(***************************************************************************)
UnwindFinds ==
  (pc = "done" /\ lay.unwind.pages # <<>>) =>
    LET e == encode_unwind_info(lay.unwind) IN
    \A r \in Range(unwind_records) :
      LET start == func_addr(lay, r) - image_base(lay) IN
      Found(e, r, start) /\ Found(e, r, start + r.code_len - 1)

(***************************************************************************)
(* A call through a stub arrives at the symbol that it is for: the pointer *)
(* the stub loads holds that symbol, or leads through the stub's helper to *)
(* dyld_stub_binder with the program that binds it (the comments on the    *)
(* helper's instructions say what they are to load).                       *)
(***************************************************************************)
LazyCallsArrive == pc = "done" => \A i \in DOMAIN slots.stubs : StubArrives(i)
=============================================================================
