------------------------------ MODULE MachOutput ------------------------------
(***************************************************************************)
(* The end of a Mach-O link: __LINKEDIT is sized by parallel tasks and     *)
(* placed, the linker's own symbols get their values, sections are copied  *)
(* and relocated, fixup chains are threaded through them, and the file is  *)
(* signed.                                                                 *)
(*                                                                         *)
(* The file is a function from the places that the linker computes to what *)
(* it writes there: a pointer or a 32-bit field ("word"), or an entry of a *)
(* fixup chain. Everything else is copied from the inputs.                 *)
(***************************************************************************)
EXTENDS MachTables

CONSTANT AdrPage    \* 4096, what ADRP computes with

VARIABLES
  tab,          \* contents of the sections of __LINKEDIT
  file          \* cells, and what matters of the header, the UUID and the signature

vars == <<link, pc, work, sym, subs, internal, slots, out, lay, tab, file>>

NoTables == [symtab |-> <<>>]
NoFile == [cells |-> <<>>, header |-> "blank", uuid |-> 0, hashes |-> <<>>, error |-> FALSE]
Init == /\ ImageInit
        /\ out = [members |-> <<>>, segments |-> <<>>, chunks |-> <<>>]
        /\ lay = <<>> /\ tab = NoTables /\ file = NoFile

-----------------------------------------------------------------------------
(* OutputSegment::set_offset_linkedit. *)
linkedit_size(c, offset) ==
  CASE c = Edit("__rebase") -> align_to(ops_size(tab'.rebase), 8)
    [] c = Edit("__binding") -> align_to(ops_size(tab'.bind), 8)
    [] c = Edit("__lazy_binding") -> align_to(ops_size(tab'.lazy.ops), 8)
    [] c = Edit("__chainfixups") -> tab'.chained.size
    [] c = Edit("__export") -> tab'.trie.size
    [] c = Edit("__func_starts") -> tab'.starts.size
    [] c = Edit("__data_in_code") -> 8 * Len(tab'.data_in_code)
    [] c = Edit("__symbol_table") -> 16 * tab'.symtab.nsyms
    [] c = Edit("__ind_sym_tab") -> 4 * Len(indirect_syms)
    [] c = Edit("__string_table") -> tab'.symtab.strsize
    [] c = Edit("__code_signature") ->
         112 + align_to(Len(link.output) + 1, 16) + 32 * (align_to(offset, page_size) \div page_size)
place_linkedit(acc, ch) ==
  LET off == align_to(acc.fileoff, 2 ^ ch.p2align)
      addr == align_to(acc.vmaddr, 2 ^ ch.p2align)
      size == linkedit_size(ch.id, off) IN
  [fileoff |-> off + size, vmaddr |-> addr + size,
   hdr |-> [acc.hdr EXCEPT ![ch.id] = [addr |-> addr, offset |-> off, size |-> size]]]
SetOffsetLinkedit ==
  /\ pc = "linkedit"
  /\ tab' = [rebase |-> IF link.fixup_chains THEN <<>> ELSE encode_rebase_entries(rebase_entries),
             bind |-> IF link.fixup_chains THEN <<>> ELSE encode_bind_entries(bind_entries),
             lazy |-> IF link.fixup_chains THEN [offsets |-> <<>>, ops |-> <<>>] ELSE LazyBind,
             chained |-> IF link.fixup_chains THEN ChainedFixups ELSE [size |-> 0],
             trie |-> ExportTrie, starts |-> FunctionStarts, data_in_code |-> DataInCode, symtab |-> Symtab]
  /\ sym' = [s \in DOMAIN sym |-> [sym[s] EXCEPT !.output_symtab_idx = symtab_idx(tab'.symtab, s)]]
  /\ LET prev == regular_segments[Len(regular_segments)]
         start == [fileoff |-> next_fileoff(lay, prev), vmaddr |-> next_vmaddr(lay, prev), hdr |-> lay.hdr]
         end == FoldLeft(place_linkedit, start, chunks_of("__LINKEDIT")) IN
     lay' = [lay EXCEPT !.hdr = end.hdr,
               !.cmd["__LINKEDIT"] = [vmaddr |-> start.vmaddr, vmsize |-> align_to(end.vmaddr - start.vmaddr, page_size),
                                      fileoff |-> start.fileoff, filesize |-> end.fileoff - start.fileoff]]
  /\ pc' = "values"
  /\ UNCHANGED <<link, work, subs, internal, slots, out, file>>

\* fix_synthetic_symbol_values. A segment or a section that is not there
\* stands for the start of __text.
boundary(k) ==
  LET here == IF k.type = "segment" THEN k.of \in DOMAIN lay.cmd ELSE k.of \in DOMAIN lay.hdr
      start == IF k.type = "segment" THEN lay.cmd[k.of].vmaddr ELSE lay.hdr[k.of].addr
      size == IF k.type = "segment" THEN lay.cmd[k.of].vmsize ELSE lay.hdr[k.of].size IN
  IF ~here THEN lay.hdr[Text("__text")].addr ELSE IF k.end THEN start + size ELSE start
FixSyntheticSymbolValues ==
  /\ pc = "values"
  /\ sym' = [s \in DOMAIN sym |->
       IF s \in {dyld_private, dso_handle} \/ (s = mh_header /\ link.output_type # "execute")
       THEN [sym[s] EXCEPT !.value = lay.hdr[Data("__data")].addr]
       ELSE IF sym[s].file # Internal THEN sym[s]
       ELSE IF kind_of(s).type \in {"segment", "section"} THEN [sym[s] EXCEPT !.value = boundary(kind_of(s))]
       ELSE IF kind_of(s).type = "msgsend"
       THEN [sym[s] EXCEPT !.value = lay.hdr[Text("__objc_stubs")].addr + Index(internal.msgsend, s) * objc_stub_size]
       ELSE sym[s]]
  /\ pc' = "copy"
  /\ UNCHANGED <<link, work, subs, internal, slots, out, lay, tab, file>>

-----------------------------------------------------------------------------
(* Subsection::apply_reloc, on ARM and on x86. *)
page(a) == a \div AdrPage
page_offset(hi, lo) == (page(hi) - page(lo)) % (Mod32 \div AdrPage)
add_ldst(val, scale) == (val % AdrPage) \div 2 ^ scale
tls_begin ==
  LET tls == SelectSeq(all_chunks, LAMBDA ch : ch.type \in {"thread_local_regular", "thread_local_zerofill"}) IN
  IF tls = <<>> THEN 0 ELSE lay.hdr[tls[1].id].addr
target_addr(r) == IF r.sym # <<>> THEN get_addr(lay, r.sym) ELSE sub_addr(lay, r.subsec)
got_target(r) == lay.hdr[GOT].addr + sym[r.sym].got_idx * Word + r.addend
pair_value(p) == LET r == subs[p.in].rels[p.i + 1] IN target_addr(r) + r.addend - target_addr(p.rel)
unsigned_valueTlsAbsolute(r) == IF imported(r) THEN 0 ELSE target_addr(r) + r.addend
unsigned_value(r) ==
  IF imported(r) THEN 0 ELSE IF refers_to_tls(r) THEN target_addr(r) + r.addend - tls_begin ELSE target_addr(r) + r.addend
arm_value(p) ==
  LET r == p.rel
      SA == target_addr(r) + r.addend
      P == rel_addr(p)
      hi(a) == page_offset(a, P)
      lo(a) == add_ldst(a, r.scale) IN
  CASE r.type = "UNSIGNED" -> unsigned_value(r) % WordMod
    [] r.type = "SUBTRACTOR" -> pair_value(p) % (IF r.size = 4 THEN Mod32 ELSE WordMod)
    [] r.type = "BRANCH26" -> (SA - P) % Mod32
    [] r.type = "PAGE21" -> hi(SA)
    [] r.type = "PAGEOFF12" -> lo(SA)
    [] r.type = "GOT_LOAD_PAGE21" -> hi(got_target(r))
    [] r.type = "GOT_LOAD_PAGEOFF12" -> lo(got_target(r))
    [] r.type = "POINTER_TO_GOT" -> (got_target(r) - P) % Mod32
    [] r.type = "TLVP_LOAD_PAGE21" -> hi(get_tlv_addr(lay, r.sym) + r.addend)
    [] r.type = "TLVP_LOAD_PAGEOFF12" -> lo(get_tlv_addr(lay, r.sym) + r.addend)
\* r.scale is what SIGNED_1, _2 and _4 say comes after the field.
x86_value(p) ==
  LET r == p.rel
      P == rel_addr(p) IN
  CASE r.type = "UNSIGNED" -> unsigned_value(r) % WordMod
    [] r.type = "SUBTRACTOR" -> pair_value(p) % (IF r.size = 4 THEN Mod32 ELSE WordMod)
    [] r.type = "SIGNED" -> (target_addr(r) + r.addend - P - 4 - r.scale) % Mod32
    [] r.type = "BRANCH" -> (target_addr(r) + r.addend - P - 4) % Mod32
    [] r.type \in {"GOT", "GOT_LOAD"} -> (got_target(r) - P - 4) % Mod32
    [] r.type = "TLV" -> (get_tlv_addr(lay, r.sym) + r.addend - P - 4) % Mod32
reloc_value(p) == IF Arm THEN arm_value(p) ELSE x86_value(p)

-----------------------------------------------------------------------------
(* Code and pointers that the linker writes itself, as addresses and the   *)
(* words at them.                                                          *)
Cell(addr, v) == [addr |-> addr, v |-> [k |-> "word", v |-> v]]
stub_addr(i) == lay.hdr[Text("__stubs")].addr + (i - 1) * stub_size
stub_ptr(i) == IF link.fixup_chains THEN get_got_addr(lay, slots.stubs[i]) ELSE lazy_addr(i)
adrp_ldr(at, to) == {Cell(at, page_offset(to, at)), Cell(at + 4, (to % AdrPage) \div 8)}
stub_cells(i) ==
  IF Arm THEN adrp_ldr(stub_addr(i), stub_ptr(i)) ELSE {Cell(stub_addr(i) + 2, (stub_ptr(i) - stub_addr(i) - 6) % Mod32)}
helper_addr == lay.hdr[Text("__stub_helper")].addr
helper_entry(i) == helper_addr + stub_helper_hdr_size + (i - 1) * stub_helper_size
helper_hdr_cells ==
  LET at == helper_addr
      private == get_addr(lay, dyld_private)
      binder == get_got_addr(lay, dyld_stub_binder) IN
  IF Arm THEN {Cell(at, page_offset(private, at)), Cell(at + 4, private % AdrPage),
               Cell(at + 12, page_offset(binder, at - 12)), Cell(at + 16, binder % AdrPage)}
  ELSE {Cell(at + 3, (private - at - 7) % Mod32), Cell(at + 11, (binder - at - 15) % Mod32)}
bind_offsetByIndex(i) == i - 1
bind_offset(i) == tab.lazy.offsets[i]
helper_cells(i) ==
  LET at == helper_entry(i) IN
  IF Arm THEN {Cell(at + 4, (helper_addr - at - 4) % Mod32), Cell(at + 8, bind_offset(i))}
  ELSE {Cell(at + 1, bind_offset(i)), Cell(at + 6, (helper_addr - at - 10) % Mod32)}
\* On x86 the fields are counted in words of four bytes from the entry.
objc_stub_addr(i) == lay.hdr[Text("__objc_stubs")].addr + (i - 1) * objc_stub_size
objc_cells(i) ==
  LET at == objc_stub_addr(i)
      sel == sub_addr(lay, <<"selref", internal.msgsend[i]>>)
      got == get_got_addr(lay, objc_msgSend) IN
  IF Arm THEN adrp_ldr(at, sel) \cup adrp_ldr(at + 8, got)
  ELSE {Cell(at + 4 * 3, (sel - at - 7) % Mod32), Cell(at + 4 * 9, (got - at - 13) % Mod32)}
slot_value(s) == IF sym[s].is_imported THEN 0 ELSE get_addr(lay, s) % WordMod
linker_cells ==
  UNION {stub_cells(i) : i \in DOMAIN slots.stubs} \cup UNION {objc_cells(i) : i \in DOMAIN internal.msgsend}
  \cup {Cell(get_got_addr(lay, s), slot_value(s)) : s \in Range(slots.got)}
  \cup {Cell(get_tlv_addr(lay, s), slot_value(s)) : s \in Range(slots.thread_ptrs)}
  \cup (IF link.fixup_chains \/ slots.stubs = <<>> THEN {}
        ELSE helper_hdr_cells \cup UNION {helper_cells(i) : i \in DOMAIN slots.stubs}
             \cup {Cell(lazy_addr(i), helper_entry(i)) : i \in DOMAIN slots.stubs})
rel_cells == {Cell(rel_addr(p), reloc_value(p)) : p \in {q \in live_rels : ~q.rel.is_subtracted}}

\* The file places of the cells: a section's offset, plus the distance from
\* its address.
chunk_at(a) == CHOOSE c \in DOMAIN lay.hdr : c[1] # "__LINKEDIT" /\ lay.hdr[c].addr <= a /\ a < lay.hdr[c].addr + lay.hdr[c].size
file_place(a) == lay.hdr[chunk_at(a)].offset + (a - lay.hdr[chunk_at(a)].addr)
AsFile(cells) ==
  LET placed == {[at |-> file_place(c.addr), v |-> c.v] : c \in cells} IN
  [o \in {c.at : c \in placed} |-> (CHOOSE c \in placed : c.at = o).v]

\* copy_sections_to_output_file. Sections of type S_THREAD_LOCAL_ZEROFILL are
\* copied too, to the file offset 0 that they have: over the header, before or
\* after it is written, or in between.
overwrites_header == \E ch \in Chunks : ch.type = "thread_local_zerofill" /\ lay.hdr[ch.id].size > 0
CopySections ==
  /\ pc = "copy"
  /\ \E h \in {"whole"} \cup (IF overwrites_header THEN {"torn"} ELSE {}) :
       file' = [file EXCEPT !.cells = AsFile(linker_cells \cup rel_cells), !.header = h]
  /\ pc' = "chains"
  /\ UNCHANGED <<link, work, sym, subs, internal, slots, out, lay, tab>>

\* ChainedFixupsSection::write_fixup_chains, at the places that the segments
\* give (a word that nothing was written to is 0). A search for an import that
\* misses is unreachable(): a debug build stops there, and a release build,
\* compiled as if it never missed, takes the place where the search stopped.
word_at(o) == IF o \in DOMAIN file.cells THEN file.cells[o].v ELSE 0
WriteFixupChains ==
  /\ pc = "chains"
  /\ IF ~link.fixup_chains THEN file' = file
     ELSE LET fx(g) == get_segment_fixups(tab.chained.fixups, g)
              at(x, g) == lay.cmd[g].fileoff + x.addr - lay.cmd[g].vmaddr
              all == UNION {{[g |-> g, i |-> i] : i \in DOMAIN fx(g)} : g \in Range(segments)}
              places == [o \in {at(fx(w.g)[w.i], w.g) : w \in all} |->
                           LET w == CHOOSE u \in all : at(fx(u.g)[u.i], u.g) = o IN
                           chain_entry(tab.chained.dynsyms, fx(w.g), w.i, word_at(o))] IN
          file' = [file EXCEPT !.cells = places @@ @,
                     !.error = \E w \in all : fixup_error(fx(w.g)[w.i], word_at(at(fx(w.g)[w.i], w.g)))]
  /\ pc' \in {"sign"} \cup (IF link.fixup_chains /\ \E x \in Range(tab.chained.fixups) : misses_dynsym(tab.chained.dynsyms, x)
                           THEN {"failed"} ELSE {})
  /\ UNCHANGED <<link, work, sym, subs, internal, slots, out, lay, tab>>

\* Errors are reported as they are met, and stop the link at its end.
undefined_reference ==
  \/ \E p \in live_rels : p.rel.sym # <<>> /\ sym[p.rel.sym].file = ""
  \/ \E s \in UNION {personalities_of(f) : f \in Range(ObjIds)} \ {<<>>} : sym[s].file = ""
has_error == file.error \/ undefined_reference \/ \E f \in Range(ObjIds) : scan_error(f)
\* write_signature, or compute_uuid without one. The UUID is computed from the
\* hashes, so the header changes and its pages are hashed again.
num_blocks == align_to(lay.hdr[Edit("__code_signature")].offset, page_size) \div page_size
header_blocksWhole == {i \in 0..(num_blocks - 1) : (i + 1) * page_size <= lay.hdr[MachHdr].size}
header_blocks == {i \in 0..(num_blocks - 1) : i * page_size < lay.hdr[MachHdr].size}
Sign ==
  /\ pc = "sign"
  /\ LET rewritten == link.uuid = "hash" IN
     file' = [file EXCEPT
       !.uuid = IF rewritten THEN 1 ELSE 0,
       !.header = IF rewritten THEN "whole" ELSE @,
       !.hashes = IF ~link.adhoc_codesign THEN <<>>
                  ELSE [i \in 0..(num_blocks - 1) |-> IF rewritten /\ i \in header_blocks THEN 1 ELSE 0]]
  /\ pc' = IF has_error THEN "failed" ELSE "done"
  /\ UNCHANGED <<link, work, sym, subs, internal, slots, out, lay, tab>>

ImageActions ==
  \/ CreateInternalFile \/ HandleExportLists \/ HandleU
  \/ \E w \in work : LoadOwner(w) \/ ClaimSymbol(w)
  \/ FinishClaims \/ ComputeImportExport
  \/ \E f \in work : ScanRelocations(f)
  \/ AssignSlots
Ended == pc \in {"done", "failed"} /\ UNCHANGED vars
Next ==
  \/ ImageActions /\ UNCHANGED <<out, lay, tab, file>>
  \/ (CreateChunks \/ StartLayout \/ AssignOffsets) /\ UNCHANGED <<tab, file>>
  \/ SetOffsetLinkedit \/ FixSyntheticSymbolValues \/ CopySections \/ WriteFixupChains \/ Sign
  \/ Ended
Spec == Init /\ [][Next]_vars
=============================================================================
