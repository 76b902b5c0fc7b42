------------------------------ MODULE ElfReloc ------------------------------
(***************************************************************************)
(* How the ELF linker turns relocations into tables and table words into   *)
(* addresses.  All object files are scanned in parallel                    *)
(* (scan_relocations): every relocation notes on its symbol which table    *)
(* words it will read, and on its file how many dynamic relocations it     *)
(* will write.  One thread then allots the words of .got, .plt, .plt.got,  *)
(* .copyrel and .opd, .rel.dyn is cut into one range for each chunk and    *)
(* each file, and all sections are copied and relocated in parallel: each  *)
(* relocation decides a second time, by the tables, what to do.  Nothing   *)
(* but this module's properties ties the two decisions together.           *)
(*                                                                         *)
(* The rules a target gives to its relocation types are in ElfTargets.     *)
(***************************************************************************)
EXTENDS ElfTargets, Naturals, Sequences, FiniteSets, Bags, BagsExt, SequencesExt

CONSTANTS
  \* The links to try, and the link that each name stands for, a record:
  \*   arch, shared, pie, static, relax, z_copyreloc, z_text, z_dlopen, relr,
  \*   unresolved: the options;
  \*   syms: its symbols, each [type, imp, abs, exp, prot, home, undef, weak];
  \*   order: the sequence in which scan_relocations aggregates the symbols;
  \*   alias: for each symbol the symbols of its DSO at the same address;
  \*   files: for each file its sequence of sections, each [kind, name,
  \*   writable, exec, aligned, size, rels], a rel being [ty, sym, off (in
  \*   words), aligned, insn (the code around it can be relaxed), addend].
  Links,
  LinkOf(_),
  \* Bits of a .relr.dyn bitmap: 63 or 31 in the program.
  RelrBits

VARIABLES
  link,          \* the link under way
  pc,            \* the phase
  at,            \* per file, the section to scan next
  needs,         \* <<symbol, flag>>: Symbol::flags, set while scanning
  num_dynrel,    \* per file, ObjectFile::num_dynrel
  reldyn_offset, \* per file and section, InputSection::reldyn_offset
  needs_tlsld,   \* Context::needs_tlsld
  literals,      \* entries of the .alpha_got section
  errors,        \* an error or an undefined symbol was reported
  next_sym,      \* index in link.order of the symbol to allot words to
  tab,           \* the synthetic tables
  base,          \* where the ranges of .rel.dyn begin; its size
  relr,          \* the words .relr.dyn rebases
  copied,        \* sections already copied, <<0, 0>> for the synthetic chunks
  reldyn,        \* how often each entry of .rel.dyn was written
  refs           \* what each applied relocation resolved to

vars == <<link, pc, at, needs, num_dynrel, reldyn_offset, needs_tlsld, literals,
          errors, next_sym, tab, base, relr, copied, reldyn, refs>>

Files(lk) == DOMAIN lk.files
Pic(lk) == lk.shared \/ lk.pie
IsIfunc(sym) == sym.type = "IFUNC"
HasGot(t, s) == <<"GOT", s>> \in Range(t.got)
HasPlt(t, s) == s \in Range(t.plt) \cup Range(t.pltgot)
Has(t, kind, s) == <<kind, s>> \in Range(t.got)
HasTlsld(t) == <<"TLSLD", "">> \in Range(t.got)

-----------------------------------------------------------------------------
\* The decision tables of scan_rel and apply_absrel: a row for each kind of
\* output, a column for absolute, local, imported data, imported code.
PcrelTable ==
  [shared |-> <<"ERROR", "NONE", "ERROR", "PLT">>,
   pie    |-> <<"ERROR", "NONE", "COPYREL", "PLT">>,
   pde    |-> <<"NONE", "NONE", "COPYREL", "CPLT">>]
AbsrelTable ==
  [shared |-> <<"NONE", "ERROR", "ERROR", "ERROR">>,
   pie    |-> <<"NONE", "ERROR", "ERROR", "ERROR">>,
   pde    |-> <<"NONE", "NONE", "COPYREL", "CPLT">>]
DynAbsrelTable ==
  [shared |-> <<"NONE", "BASEREL", "DYNREL", "DYNREL">>,
   pie    |-> <<"NONE", "BASEREL", "DYNREL", "DYNREL">>,
   pde    |-> <<"NONE", "NONE", "DYN_COPYREL", "DYN_CPLT">>]
TocTable ==
  [shared |-> <<"NONE", "BASEREL", "DYNREL", "DYNREL">>,
   pie    |-> <<"NONE", "BASEREL", "DYNREL", "DYNREL">>,
   pde    |-> <<"NONE", "NONE", "DYNREL", "DYNREL">>]

get_rel_action(lk, sym, table) ==
  LET row == IF lk.shared THEN table.shared ELSE IF lk.pie THEN table.pie ELSE table.pde
  IN IF sym.abs THEN row[1]
     ELSE IF ~sym.imp THEN row[2]
     ELSE IF sym.type # "FUNC" THEN row[3] ELSE row[4]

get_dyn_absrel_action(lk, sym) ==
  IF IsIfunc(sym) THEN "IFUNC" ELSE get_rel_action(lk, sym, DynAbsrelTable)
get_ppc64_toc_action(lk, sym) ==
  IF IsIfunc(sym) THEN "IFUNC" ELSE get_rel_action(lk, sym, TocTable)

\* InputSection::is_relr_reloc
is_relr_reloc(lk, sec, rel) ==
  lk.relr /\ ~sec.exec /\ sec.aligned # "odd" /\ rel.aligned

\* A rule or a form that stands for another one on this link or section.
Resolved(rule, lk, sec) ==
  CASE rule = "word32" -> IF Target[lk.arch].R_ABS = "32" THEN "dyn_absrel" ELSE "absrel"
    [] rule = "toc_or_dyn" -> IF sec.name = ".toc" THEN "toc" ELSE "dyn_absrel"
    [] OTHER -> rule

-----------------------------------------------------------------------------
\* Scanning.  The effect of one relocation.
NoEffect == [needs |-> {}, dyn |-> 0, tlsld |-> FALSE, lits |-> {},
             error |-> FALSE, skip |-> FALSE]
Need(s, kinds) == [NoEffect EXCEPT !.needs = {s} \X kinds]
Error == [NoEffect EXCEPT !.error = TRUE]
SkipNext(e) == [e EXCEPT !.skip = TRUE]

\* A mutant: a canonical PLT entry is asked for even where the section is writable.
scan_relMutant(lk, sec, rel, action) ==
  LET sym == lk.syms[rel.sym]
      textrel == ~sec.writable /\ lk.z_text
      dynrel == [NoEffect EXCEPT !.dyn = 1, !.error = textrel]
      copyrel == [Need(rel.sym, {"COPYREL"}) EXCEPT !.error = sym.prot]
  IN CASE action = "NONE" -> NoEffect
       [] action = "ERROR" -> Error
       [] action = "COPYREL" -> [copyrel EXCEPT !.error = @ \/ ~lk.z_copyreloc]
       [] action = "DYN_COPYREL" ->
            IF sec.writable \/ ~lk.z_copyreloc THEN dynrel ELSE copyrel
       [] action = "PLT" -> Need(rel.sym, {"PLT"})
       [] action = "CPLT" -> Need(rel.sym, {"CPLT"})
       [] action = "DYN_CPLT" -> Need(rel.sym, {"CPLT"})
       [] action \in {"DYNREL", "IFUNC"} -> dynrel
       [] action = "BASEREL" ->
            [NoEffect EXCEPT !.dyn = IF is_relr_reloc(lk, sec, rel) THEN 0 ELSE 1,
                             !.error = textrel]

scan_rel(lk, sec, rel, action) ==
  LET sym == lk.syms[rel.sym]
      textrel == ~sec.writable /\ lk.z_text
      dynrel == [NoEffect EXCEPT !.dyn = 1, !.error = textrel]
      copyrel == [Need(rel.sym, {"COPYREL"}) EXCEPT !.error = sym.prot]
  IN CASE action = "NONE" -> NoEffect
       [] action = "ERROR" -> Error
       [] action = "COPYREL" -> [copyrel EXCEPT !.error = @ \/ ~lk.z_copyreloc]
       [] action = "DYN_COPYREL" ->
            IF sec.writable \/ ~lk.z_copyreloc THEN dynrel ELSE copyrel
       [] action = "PLT" -> Need(rel.sym, {"PLT"})
       [] action = "CPLT" -> Need(rel.sym, {"CPLT"})
       [] action = "DYN_CPLT" -> IF sec.writable THEN dynrel ELSE Need(rel.sym, {"CPLT"})
       [] action \in {"DYNREL", "IFUNC"} -> dynrel
       [] action = "BASEREL" ->
            [NoEffect EXCEPT !.dyn = IF is_relr_reloc(lk, sec, rel) THEN 0 ELSE 1,
                             !.error = textrel]

relax_tlsdesc(lk, sym) == lk.static \/ (lk.relax /\ ~lk.shared /\ ~sym.imp)
\* The conditions under which a call of __tls_get_addr is rewritten.
GdToLe(lk, sym) == lk.static \/ (lk.relax /\ ~sym.imp /\ ~lk.shared)
GdToIe(lk, sym) == lk.relax /\ ~sym.imp /\ lk.shared /\ ~lk.z_dlopen
LdToLe(lk) == lk.static \/ (lk.relax /\ ~lk.shared)
\* ADRP + LDR of a GOT word that can become ADRP + ADD (arm64).
GotPageToPc(lk, sec, j) ==
  LET rel == sec.rels[j]  sym == lk.syms[rel.sym]
  IN /\ lk.relax /\ ~sym.imp /\ ~IsIfunc(sym) /\ ~sym.abs
     /\ j < Len(sec.rels)
     /\ sec.rels[j + 1].ty = "LD64_GOT_LO12_NC" /\ sec.rels[j + 1].sym = rel.sym
     /\ rel.insn

\* __tls_get_addr, called by the code that SPARC's TLS relocations mark
TlsGetAddr == "t"

scan_rule(lk, sec, j) ==
  LET rel == sec.rels[j]
      sym == lk.syms[rel.sym]
      rule == Resolved(ScanRules[lk.arch][rel.ty], lk, sec)
      tlsld == [NoEffect EXCEPT !.tlsld = TRUE]
  IN CASE rule = "none" -> NoEffect
       [] rule = "absrel" -> scan_rel(lk, sec, rel, get_rel_action(lk, sym, AbsrelTable))
       [] rule = "pcrel" -> scan_rel(lk, sec, rel, get_rel_action(lk, sym, PcrelTable))
       [] rule = "dyn_absrel" -> scan_rel(lk, sec, rel, get_dyn_absrel_action(lk, sym))
       [] rule = "toc" -> scan_rel(lk, sec, rel, get_ppc64_toc_action(lk, sym))
       [] rule = "got" -> Need(rel.sym, {"GOT"})
       [] rule = "got_if_imported" -> Need(rel.sym, IF sym.imp THEN {"GOT"} ELSE {})
       [] rule = "got_unless_local" ->
            Need(rel.sym, IF ~sym.imp /\ ~sym.abs /\ rel.insn THEN {} ELSE {"GOT"})
       [] rule = "got_page" ->
            IF GotPageToPc(lk, sec, j) THEN SkipNext(NoEffect) ELSE Need(rel.sym, {"GOT"})
       [] rule = "plt" -> Need(rel.sym, IF sym.imp THEN {"PLT"} ELSE {})
       [] rule = "gottp" -> Need(rel.sym, {"GOTTP"})
       [] rule = "tlsgd" -> Need(rel.sym, {"TLSGD"})
       [] rule = "tlsld" -> tlsld
       [] rule = "tlsdesc" -> Need(rel.sym, IF relax_tlsdesc(lk, sym) THEN {} ELSE {"TLSDESC"})
       [] rule = "tlsle" -> [NoEffect EXCEPT !.error = lk.shared]
       [] rule \in {"gd_or_ie", "gd_or_le", "ld_call"} /\ j = Len(sec.rels) -> Error
       [] rule = "gd_or_ie" /\ j < Len(sec.rels) ->
            IF GdToLe(lk, sym) THEN SkipNext(NoEffect)
            ELSE IF GdToIe(lk, sym) THEN SkipNext(Need(rel.sym, {"GOTTP"}))
            ELSE Need(rel.sym, {"TLSGD"})
       [] rule = "gd_or_le" /\ j < Len(sec.rels) ->
            IF GdToLe(lk, sym) THEN SkipNext(NoEffect) ELSE Need(rel.sym, {"TLSGD"})
       [] rule = "ld_call" /\ j < Len(sec.rels) ->
            IF LdToLe(lk) THEN SkipNext(NoEffect) ELSE tlsld
       [] rule = "gd_in_place" ->
            IF GdToLe(lk, sym) THEN NoEffect
            ELSE IF GdToIe(lk, sym) THEN Need(rel.sym, {"GOTTP"}) ELSE Need(rel.sym, {"TLSGD"})
       [] rule = "ld_in_place" -> IF LdToLe(lk) THEN NoEffect ELSE tlsld
       [] rule = "ie_or_le" ->
            IF lk.relax /\ ~lk.shared /\ ~sym.imp /\ rel.insn THEN NoEffect
            ELSE Need(rel.sym, {"GOTTP"})
       [] rule = "tls_get_addr" ->
            IF ~lk.static /\ lk.syms[TlsGetAddr].imp THEN Need(TlsGetAddr, {"PLT"}) ELSE NoEffect
       [] rule = "literal" ->
            IF rel.addend = 0 THEN Need(rel.sym, {"GOT"})
            ELSE [NoEffect EXCEPT !.lits = {<<rel.sym, rel.addend>>}]

\* A mutant: an ifunc gets no GOT word of its own.
scan_oneMutant(lk, sec, j) ==
  LET rel == sec.rels[j]
      sym == lk.syms[rel.sym]
      e == scan_rule(lk, sec, j)
      opd == IF lk.arch = "ppc64v1" /\ (IsIfunc(sym) \/ (rel.ty # "REL24" /\ sym.type = "FUNC"))
             THEN {"OPD"} ELSE {}
      ifunc == IF IsIfunc(sym) /\ Target[lk.arch].ifunc THEN {"PLT"} ELSE {}
  IN IF sym.undef THEN [NoEffect EXCEPT !.error = (lk.unresolved = "error")]
     ELSE [e EXCEPT !.needs = @ \cup ({rel.sym} \X (ifunc \cup opd)),
                    !.error = @ \/ (IsIfunc(sym) /\ ~Target[lk.arch].ifunc)]

\* What every case of scan_relocations shares: an undefined symbol is recorded
\* and the relocation skipped; an ifunc always gets a GOT word and a PLT entry.
scan_one(lk, sec, j) ==
  LET rel == sec.rels[j]
      sym == lk.syms[rel.sym]
      e == scan_rule(lk, sec, j)
      opd == IF lk.arch = "ppc64v1" /\ (IsIfunc(sym) \/ (rel.ty # "REL24" /\ sym.type = "FUNC"))
             THEN {"OPD"} ELSE {}
      ifunc == IF IsIfunc(sym) /\ Target[lk.arch].ifunc THEN {"GOT", "PLT"} ELSE {}
  IN IF sym.undef THEN [NoEffect EXCEPT !.error = (lk.unresolved = "error")]
     ELSE [e EXCEPT !.needs = @ \cup ({rel.sym} \X (ifunc \cup opd)),
                    !.error = @ \/ (IsIfunc(sym) /\ ~Target[lk.arch].ifunc)]

\* A relocation of a CIE: only a personality function may be imported.
scan_cie(lk, sec, j) ==
  LET sym == lk.syms[sec.rels[j].sym]
  IN IF ~sym.imp THEN NoEffect
     ELSE [Need(sec.rels[j].sym, {"PLT"}) EXCEPT !.error = (sym.type # "FUNC")]

\* The fold of all relocations of a section, the skipped ones left out.
scan_section(lk, sec) ==
  FoldLeftDomain(LAMBDA acc, j :
             IF acc.skip THEN [acc EXCEPT !.skip = FALSE]
             ELSE LET e == IF sec.kind = "cie" THEN scan_cie(lk, sec, j) ELSE scan_one(lk, sec, j)
                  IN [needs |-> acc.needs \cup e.needs, dyn |-> acc.dyn + e.dyn,
                      tlsld |-> acc.tlsld \/ e.tlsld, lits |-> acc.lits \cup e.lits,
                      error |-> acc.error \/ e.error, skip |-> e.skip],
           NoEffect, sec.rels)

-----------------------------------------------------------------------------
\* Allotting the table words of one symbol (the serial loop of
\* scan_relocations and the add_symbol functions it calls).
EmptyTables ==
  [got |-> <<>>, plt |-> <<>>, pltgot |-> <<>>, copyrel |-> <<>>, opd |-> <<>>,
   dynsym |-> {}, canonical |-> {}, exported |-> {}, copied |-> {}]

add_got_words(t, flags, s) ==
  [t EXCEPT !.got = @ \o SelectSeq(<<<<"GOT", s>>, <<"GOTTP", s>>, <<"TLSGD", s>>, <<"TLSDESC", s>>>>,
                                   LAMBDA w : w[1] \in flags),
            !.dynsym = @ \cup (IF "TLSDESC" \in flags THEN {s} ELSE {})]
add_plt(t, flags, s) ==
  CASE "CPLT" \in flags ->
         [t EXCEPT !.plt = Append(@, s), !.dynsym = @ \cup {s},
                   !.canonical = @ \cup {s}, !.exported = @ \cup {s}]
    [] "CPLT" \notin flags /\ {"PLT", "GOT"} \subseteq flags -> [t EXCEPT !.pltgot = Append(@, s)]
    [] "CPLT" \notin flags /\ "PLT" \in flags /\ "GOT" \notin flags ->
         [t EXCEPT !.plt = Append(@, s), !.dynsym = @ \cup {s}]
    [] OTHER -> t

\* A mutant: the aliases of a copied variable are forgotten.
add_copyrelMutant(t, lk, s) ==
  IF s \in t.copied THEN t
  ELSE [t EXCEPT !.copyrel = Append(@, s), !.copied = @ \cup {s},
                 !.exported = @ \cup {s}, !.dynsym = @ \cup {s}]

add_copyrel(t, lk, s) ==
  IF s \in t.copied THEN t
  ELSE [t EXCEPT !.copyrel = Append(@, s), !.copied = @ \cup lk.alias[s],
                 !.exported = @ \cup lk.alias[s], !.dynsym = @ \cup lk.alias[s]]

add_symbol(t, lk, flags, s) ==
  LET t1 == [t EXCEPT !.dynsym = @ \cup (IF lk.syms[s].imp \/ lk.syms[s].exp THEN {s} ELSE {})]
      t2 == add_plt(add_got_words(t1, flags, s), flags, s)
      t3 == IF "COPYREL" \in flags THEN add_copyrel(t2, lk, s) ELSE t2
  IN IF "OPD" \in flags THEN [t3 EXCEPT !.opd = Append(@, s)] ELSE t3

-----------------------------------------------------------------------------
\* Symbol::get_addr, by where the address lies.
get_addr(lk, t, s, flags) ==
  LET sym == lk.syms[s]
  IN IF s \in t.copied THEN "copyrel"
     ELSE IF "NO_OPD" \notin flags /\ s \in Range(t.opd) THEN "opd"
     ELSE IF "NO_PLT" \notin flags /\ HasPlt(t, s) THEN "plt"
     ELSE sym.home

\* The words of .got: what get_got_entries says of each.
GotEntry(word, part, type) == [word |-> word, part |-> part, type |-> type]
get_got_entries(lk, t) ==
  LET sym(w) == lk.syms[w[2]]
      words(kind) == {w \in Range(t.got) : w[1] = kind}
  IN {GotEntry(w, 0, IF sym(w).imp THEN "GLOB_DAT"
                     ELSE IF IsIfunc(sym(w)) THEN "IRELATIVE"
                     ELSE IF Pic(lk) /\ ~sym(w).abs THEN "RELATIVE" ELSE "NONE") : w \in words("GOT")}
     \cup {GotEntry(w, 0, IF sym(w).imp \/ lk.shared THEN "DTPMOD" ELSE "NONE") : w \in words("TLSGD")}
     \cup {GotEntry(w, 1, IF sym(w).imp THEN "DTPOFF" ELSE "NONE") : w \in words("TLSGD")}
     \cup {GotEntry(w, 0, "TLSDESC") : w \in words("TLSDESC")}
     \cup {GotEntry(w, 0, IF sym(w).imp \/ lk.shared THEN "TPOFF" ELSE "NONE") : w \in words("GOTTP")}
     \cup {GotEntry(w, 0, IF lk.shared THEN "DTPMOD" ELSE "NONE") : w \in words("TLSLD")}
is_relr(lk, ent) == ent.type = "RELATIVE" /\ lk.relr

\* get_reldyn_size of the chunks that write dynamic relocations.
Chunks == <<"got", "copyrel", "alpha_got", "opd">>
get_reldyn_size(lk, t, lits, chunk) ==
  CASE chunk = "got" -> Cardinality({e \in get_got_entries(lk, t) : ~is_relr(lk, e) /\ e.type # "NONE"})
    [] chunk = "copyrel" -> Len(t.copyrel)
    [] chunk = "alpha_got" ->
         Cardinality({l \in lits : lk.syms[l[1]].imp \/ (Pic(lk) /\ ~lk.syms[l[1]].abs)})
    [] chunk = "opd" -> IF Pic(lk) THEN 2 * Len(t.opd) ELSE 0

\* The dynamic relocations copy_buf of a chunk writes, as many as there are.
copy_buf_writes(lk, t, lits, chunk) ==
  CASE chunk = "got" ->
         Cardinality({e \in get_got_entries(lk, t) : ~(is_relr(lk, e) \/ e.type = "NONE")})
    [] chunk = "copyrel" -> Len(t.copyrel)
    [] chunk = "alpha_got" ->
         Cardinality({l \in lits : lk.syms[l[1]].imp})
         + Cardinality({l \in lits : ~lk.syms[l[1]].imp /\ Pic(lk) /\ ~lk.syms[l[1]].abs})
    [] chunk = "opd" -> IF Pic(lk) THEN 2 * Len(t.opd) ELSE 0

SumUpTo(f, n) == FoldLeft(LAMBDA acc, i : acc + f[i], 0, [i \in 1..n |-> i])

\* RelDynSection::update_shdr: the chunks' ranges first, then the files'.
update_shdr(lk, t, lits, ndyn) ==
  LET size == [c \in 1..Len(Chunks) |-> get_reldyn_size(lk, t, lits, Chunks[c])]
      chunks == SumUpTo(size, Len(Chunks))
  IN [chunk |-> [c \in 1..Len(Chunks) |-> SumUpTo(size, c - 1)],
      file |-> [f \in Files(lk) |-> chunks + SumUpTo(ndyn, f - 1)],
      size |-> chunks + SumUpTo(ndyn, Len(lk.files))]

-----------------------------------------------------------------------------
\* .relr.dyn: an address, then bitmaps of RelrBits words each; positions are
\* counted in words.  A bitmap that would be empty ends the run.
encode_relr(pos) ==
  LET Add(runs, p) ==
        LET run == Last(runs)
            k == (p - run.addr - 1) \div RelrBits
            b == (p - run.addr - 1) % RelrBits
        IN IF runs = <<>> THEN <<[addr |-> p, maps |-> <<>>]>>
           ELSE IF p > run.addr /\ k = Len(run.maps) - 1
             THEN Front(runs) \o <<[run EXCEPT !.maps[k + 1] = @ \cup {b}]>>
           ELSE IF p > run.addr /\ k = Len(run.maps)
             THEN Front(runs) \o <<[run EXCEPT !.maps = Append(@, {b})]>>
           ELSE Append(runs, [addr |-> p, maps |-> <<>>])
  IN FoldLeft(Add, <<>>, pos)
\* The words the dynamic linker rebases when it reads the encoding.
Decode(name, runs) ==
  FoldLeft(LAMBDA bag, run :
             bag (+) SetToBag({<<name, run.addr>>} \cup
               UNION {{<<name, run.addr + 1 + (k - 1) * RelrBits + b>> : b \in run.maps[k]}
                      : k \in DOMAIN run.maps}),
           EmptyBag, runs)

\* The sections with contents that belong to the output section called name,
\* as <<file, section>>, and their offsets there in words.
Before(x, y) == x[1] < y[1] \/ (x[1] = y[1] /\ x[2] < y[2])
Sections(lk) == UNION {{f} \X DOMAIN lk.files[f] : f \in Files(lk)}
Section(lk, x) == lk.files[x[1]][x[2]]
Members(lk, name) ==
  {x \in Sections(lk) : Section(lk, x).kind = "alloc" /\ Section(lk, x).name = name}
OffsetOf(lk, x) ==
  MapThenSumSet(LAMBDA y : Section(lk, y).size,
                {y \in Members(lk, Section(lk, x).name) : Before(y, x)})
WordOf(lk, x, rel) == <<Section(lk, x).name, OffsetOf(lk, x) + rel.off>>

Ascending(S) == SelectSeq([n \in 1..(Max(S \cup {0}) + 1) |-> n - 1], LAMBDA n : n \in S)

\* A mutant: the alignment of the member is not looked at.
osec_construct_relrMutant(lk, name) ==
  LET sec(x) == Section(lk, x)
      words(x) == {sec(x).rels[j] : j \in {k \in DOMAIN sec(x).rels :
                     /\ sec(x).rels[k].ty = Target[lk.arch].R_ABS
                     /\ sec(x).rels[k].aligned
                     /\ ~lk.syms[sec(x).rels[k].sym].abs /\ ~lk.syms[sec(x).rels[k].sym].imp}}
      members == {x \in Members(lk, name) : ~sec(x).exec}
      pos == {WordOf(lk, y[1], y[2])[2] : y \in UNION {{x} \X words(x) : x \in members}}
  IN IF Pic(lk) THEN Decode(name, encode_relr(Ascending(pos))) ELSE EmptyBag

\* OutputSection::construct_relr collects from each member whose alignment is a
\* word's; sh_addralign 0 counts as one byte here.
osec_construct_relr(lk, name) ==
  LET sec(x) == Section(lk, x)
      words(x) == {sec(x).rels[j] : j \in {k \in DOMAIN sec(x).rels :
                     /\ sec(x).rels[k].ty = Target[lk.arch].R_ABS
                     /\ sec(x).rels[k].aligned
                     /\ ~lk.syms[sec(x).rels[k].sym].abs /\ ~lk.syms[sec(x).rels[k].sym].imp}}
      members == {x \in Members(lk, name) : ~sec(x).exec /\ sec(x).aligned = "word"}
      pos == {WordOf(lk, y[1], y[2])[2] : y \in UNION {{x} \X words(x) : x \in members}}
  IN IF Pic(lk) THEN Decode(name, encode_relr(Ascending(pos))) ELSE EmptyBag
\* GotSection::construct_relr
got_construct_relr(lk, t) ==
  LET at_(w) == CHOOSE i \in DOMAIN t.got : t.got[i] = w
  IN Decode("got", encode_relr(Ascending(
       {at_(e.word) : e \in {x \in get_got_entries(lk, t) : is_relr(lk, x)}})))
construct_relr(lk, t) ==
  IF ~lk.relr THEN EmptyBag
  ELSE BagUnion({osec_construct_relr(lk, name) : name \in {Section(lk, x).name : x \in Sections(lk)}}
                \cup {got_construct_relr(lk, t)})

-----------------------------------------------------------------------------
\* Applying.  What one relocation resolves to: through a table word ("slot"),
\* directly to an address ("S"), to an offset from the thread pointer ("tp"), to
\* a dynamic relocation, or to something known without the symbol ("link").
Via(how) == [how |-> how, slot |-> <<>>, place |-> "", dyn |-> "no", skip |-> FALSE]
ViaSlot(kind, s) == [Via("slot") EXCEPT !.slot = <<kind, s>>]
ViaS(lk, t, s) == [Via("S") EXCEPT !.place = get_addr(lk, t, s, {})]
Fatal == Via("fatal")

apply_absrel(lk, t, sec, rel, action) ==
  LET Dyn(type) == [Via("dyn") EXCEPT !.dyn = type]
      S == ViaS(lk, t, rel.sym)
  IN CASE action \in {"NONE", "COPYREL", "CPLT"} -> S
       [] action = "BASEREL" ->
            IF is_relr_reloc(lk, sec, rel) THEN [S EXCEPT !.how = "relr"] ELSE Dyn("RELATIVE")
       [] action = "DYN_COPYREL" ->
            IF sec.writable \/ ~lk.z_copyreloc THEN Dyn("ABS") ELSE S
       [] action = "DYN_CPLT" -> IF sec.writable THEN Dyn("ABS") ELSE S
       [] action = "DYNREL" -> Dyn("ABS")
       [] action = "IFUNC" -> Dyn("IRELATIVE")

\* RangeExtensionThunk::copy_buf of the PowerPC targets: a call of a symbol with
\* a PLT entry goes to a thunk that loads the word the PLT would.
thunk_word(lk, t, s) ==
  IF HasGot(t, s) THEN ViaSlot("GOT", s) ELSE ViaSlot("GOTPLT", s)

apply_form(lk, t, sec, j) ==
  LET rel == sec.rels[j]
      s == rel.sym
      sym == lk.syms[s]
      form == Resolved(ApplyForms[lk.arch][rel.ty], lk, sec)
      S == ViaS(lk, t, s)
      tp == Via("tp")
      Relaxed(e) == [e EXCEPT !.skip = TRUE]
      Slot(kind, otherwise) == IF Has(t, kind, s) THEN ViaSlot(kind, s) ELSE otherwise
      tlsld == ViaSlot("TLSLD", "")
  IN CASE form \in {"abs", "absrel", "pc"} -> S
       [] form = "call" -> IF sym.weak /\ ~sym.imp THEN Via("link") ELSE S
       [] form = "thunk" ->
            IF HasPlt(t, s) THEN thunk_word(lk, t, s)
            ELSE [Via("S") EXCEPT !.place = get_addr(lk, t, s, {"NO_OPD"})]
       [] form = "dyn_absrel" -> apply_absrel(lk, t, sec, rel, get_dyn_absrel_action(lk, sym))
       [] form = "toc" -> apply_absrel(lk, t, sec, rel, get_ppc64_toc_action(lk, sym))
       [] form = "got" -> ViaSlot("GOT", s)
       [] form = "gottp" -> ViaSlot("GOTTP", s)
       [] form = "tlsgd" -> ViaSlot("TLSGD", s)
       [] form = "tlsld" -> tlsld
       [] form = "tlsdesc" -> Slot("TLSDESC", tp)
       [] form = "tlsdesc_nop" -> Slot("TLSDESC", Via("link"))
       [] form = "got_or_pc" ->
            IF ~sym.imp /\ ~IsIfunc(sym) /\ ~sym.abs /\ rel.insn THEN S ELSE ViaSlot("GOT", s)
       [] form = "got_unless_local" -> Slot("GOT", IF rel.insn THEN S ELSE Fatal)
       [] form = "got_page" -> Slot("GOT", Relaxed(S))
       [] form = "got_or_gotoff" ->
            IF sym.imp \/ IsIfunc(sym) THEN ViaSlot("GOT", s) ELSE S
       [] form = "gd_or_ie" ->
            Slot("TLSGD", IF Has(t, "GOTTP", s) THEN Relaxed(ViaSlot("GOTTP", s)) ELSE Relaxed(tp))
       [] form = "gd_or_le" -> Slot("TLSGD", Relaxed(tp))
       [] form = "gd_in_place" -> Slot("TLSGD", Slot("GOTTP", tp))
       [] form = "ld_call" -> IF HasTlsld(t) THEN tlsld ELSE Relaxed(Via("ld_le"))
       [] form = "ld_in_place" -> IF HasTlsld(t) THEN tlsld ELSE Via("ld_le")
       [] form = "ie_or_le" -> Slot("GOTTP", IF rel.insn THEN tp ELSE Fatal)
       [] form = "tls_get_addr" ->
            IF lk.static THEN Via("link") ELSE ViaS(lk, t, TlsGetAddr)
       [] form = "literal" ->
            IF rel.addend = 0 THEN ViaSlot("GOT", s) ELSE ViaSlot("LITERAL", <<s, rel.addend>>)
       [] form \in {"none", "tp", "dtp", "size", "gotoff", "gotbase"} -> Via("link")

\* InputSection::get_tombstone
get_tombstone(sec, sym) ==
  IF sym.home \notin {"gc", "icf"} \/ sec.name \notin {".debug_info", ".debug_line", ".debug_loc"}
     \/ (sym.home = "icf" /\ sec.name = ".debug_line")
  THEN "no" ELSE IF sec.name = ".debug_loc" THEN "1" ELSE "0"

apply_nonalloc(lk, t, sec, j) ==
  LET rel == sec.rels[j]
      sym == lk.syms[rel.sym]
      forms == NonallocForms[lk.arch]
  IN IF sym.undef THEN [Via("undef") EXCEPT !.place = lk.unresolved]
     ELSE IF rel.ty \notin DOMAIN forms THEN Fatal
     ELSE IF forms[rel.ty] \in {"tomb_abs", "tomb_dtp"} /\ get_tombstone(sec, sym) # "no"
       THEN [Via("tombstone") EXCEPT !.place = get_tombstone(sec, sym)]
     ELSE IF forms[rel.ty] \in {"abs", "tomb_abs"} THEN ViaS(lk, t, rel.sym)
     ELSE Via("link")

\* EhFrameSection::apply_reloc
apply_eh(lk, t, sec, j) ==
  IF sec.rels[j].ty \in EhTypes[lk.arch] THEN ViaS(lk, t, sec.rels[j].sym) ELSE Fatal

apply_one(lk, t, sec, j) ==
  CASE sec.kind = "alloc" -> apply_form(lk, t, sec, j)
    [] sec.kind = "nonalloc" -> apply_nonalloc(lk, t, sec, j)
    [] sec.kind = "cie" -> apply_eh(lk, t, sec, j)

\* InputSection::write_to: the outcomes of a section, the skipped ones left out.
write_to(lk, t, sec) ==
  FoldLeftDomain(LAMBDA acc, j :
    IF acc.skip THEN [acc EXCEPT !.skip = FALSE]
    ELSE LET o == apply_one(lk, t, sec, j)
         IN [skip |-> o.skip, out |-> Append(acc.out, [rel |-> j, o |-> o])],
    [skip |-> FALSE, out |-> <<>>], sec.rels).out

-----------------------------------------------------------------------------
\* ppc64v1_scan_symbols: an exported function needs a descriptor.
ppc64v1_scan_symbols(lk) ==
  IF lk.arch # "ppc64v1" THEN {}
  ELSE {s \in DOMAIN lk.syms : lk.syms[s].exp /\ lk.syms[s].type \in {"FUNC", "IFUNC"}} \X {"OPD"}

Init ==
  /\ \E name \in Links : link = LinkOf(name)
  /\ pc = "scan"
  /\ at = [f \in Files(link) |-> 1]
  /\ needs = ppc64v1_scan_symbols(link)
  /\ num_dynrel = [f \in Files(link) |-> 0]
  /\ reldyn_offset = [f \in Files(link) |-> [i \in DOMAIN link.files[f] |-> 0]]
  /\ needs_tlsld = FALSE
  /\ literals = {}
  /\ errors = FALSE
  /\ next_sym = 1
  /\ tab = EmptyTables
  /\ base = [chunk |-> <<>>, file |-> <<>>, size |-> 0]
  /\ relr = EmptyBag
  /\ copied = {}
  /\ reldyn = EmptyBag
  /\ refs = {}

\* ObjectFile::scan_relocations, one section; files run in parallel.
ScanSection(f) ==
  /\ pc = "scan"
  /\ at[f] <= Len(link.files[f])
  /\ LET sec == link.files[f][at[f]]
         e == IF sec.kind = "nonalloc" THEN NoEffect ELSE scan_section(link, sec)
     IN /\ reldyn_offset' = [reldyn_offset EXCEPT ![f][at[f]] = num_dynrel[f]]
        /\ num_dynrel' = [num_dynrel EXCEPT ![f] = @ + e.dyn]
        /\ needs' = needs \cup e.needs
        /\ needs_tlsld' = (needs_tlsld \/ e.tlsld)
        /\ literals' = literals \cup e.lits
        /\ errors' = (errors \/ e.error)
  /\ at' = [at EXCEPT ![f] = @ + 1]
  /\ UNCHANGED <<link, pc, next_sym, tab, base, relr, copied, reldyn, refs>>

\* The checkpoint after the scan; an undefined symbol is reported a little
\* later, before anything is laid out.
Checkpoint ==
  /\ pc = "scan"
  /\ \A f \in Files(link) : at[f] > Len(link.files[f])
  /\ pc' = IF errors THEN "failed" ELSE "allot"
  /\ UNCHANGED <<link, at, needs, num_dynrel, reldyn_offset, needs_tlsld, literals, errors,
                 next_sym, tab, base, relr, copied, reldyn, refs>>

\* The body of the loop over the aggregated symbols.
AllotSymbol ==
  /\ pc = "allot"
  /\ next_sym <= Len(link.order)
  /\ LET s == link.order[next_sym]
     IN tab' = add_symbol(tab, link, {n[2] : n \in {m \in needs : m[1] = s}}, s)
  /\ next_sym' = next_sym + 1
  /\ UNCHANGED <<link, pc, at, needs, num_dynrel, reldyn_offset, needs_tlsld, literals, errors,
                 base, relr, copied, reldyn, refs>>

\* add_tlsld after the loop; then construct_relr and RelDynSection::update_shdr.
Layout ==
  /\ pc = "allot"
  /\ next_sym > Len(link.order)
  /\ tab' = [tab EXCEPT !.got = IF needs_tlsld THEN Append(@, <<"TLSLD", "">>) ELSE @]
  /\ relr' = construct_relr(link, tab')
  /\ base' = update_shdr(link, tab', literals, num_dynrel)
  /\ pc' = "copy"
  /\ UNCHANGED <<link, at, needs, num_dynrel, reldyn_offset, needs_tlsld, literals, errors,
                 next_sym, copied, reldyn, refs>>

EntriesFrom(first, n) == SetToBag(first .. (first + n - 1))

\* copy_buf of .got, .copyrel, .alpha_got and .opd: they write ranges of their
\* own and read only the tables, so one step stands for all of them.
CopyChunks ==
  /\ pc = "copy"
  /\ <<0, 0>> \notin copied
  /\ reldyn' = FoldLeftDomain(LAMBDA bag, c :
                 bag (+) EntriesFrom(base.chunk[c], copy_buf_writes(link, tab, literals, Chunks[c])),
                 reldyn, Chunks)
  /\ copied' = copied \cup {<<0, 0>>}
  /\ UNCHANGED <<link, pc, at, needs, num_dynrel, reldyn_offset, needs_tlsld, literals, errors,
                 next_sym, tab, base, relr, refs>>

\* InputSection::write_to of one section; sections run in parallel.
CopySection(f, i) ==
  /\ pc = "copy"
  /\ <<f, i>> \notin copied
  /\ LET out == write_to(link, tab, link.files[f][i])
         writes == Cardinality({k \in DOMAIN out : out[k].o.dyn # "no"})
     IN /\ refs' = refs \cup {[sec |-> <<f, i>>, rel |-> out[k].rel, o |-> out[k].o] : k \in DOMAIN out}
        /\ reldyn' = reldyn (+) EntriesFrom(base.file[f] + reldyn_offset[f][i], writes)
        /\ errors' = (errors \/ \E k \in DOMAIN out :
                        out[k].o.how = "fatal" \/ (out[k].o.how = "undef" /\ out[k].o.place = "error"))
  /\ copied' = copied \cup {<<f, i>>}
  /\ UNCHANGED <<link, pc, at, needs, num_dynrel, reldyn_offset, needs_tlsld, literals,
                 next_sym, tab, base, relr>>

Finish ==
  /\ pc = "copy"
  /\ copied = {<<0, 0>>} \cup Sections(link)
  /\ pc' = IF errors THEN "failed" ELSE "done"
  /\ UNCHANGED <<link, at, needs, num_dynrel, reldyn_offset, needs_tlsld, literals, errors,
                 next_sym, tab, base, relr, copied, reldyn, refs>>

Done == pc \in {"done", "failed"} /\ UNCHANGED vars

Next ==
  \/ \E f \in Files(link) : ScanSection(f)
  \/ Checkpoint
  \/ AllotSymbol
  \/ Layout
  \/ CopyChunks
  \/ \E f \in Files(link) : \E i \in DOMAIN link.files[f] : CopySection(f, i)
  \/ Finish
  \/ Done

Spec == Init /\ [][Next]_vars /\ WF_vars(Next)

-----------------------------------------------------------------------------
SecOf(r) == Section(link, r.sec)
RelOf(r) == SecOf(r).rels[r.rel]
SymOf(r) == link.syms[RelOf(r).sym]
\* The relocation was classified by the scan (not one of the types it leaves to
\* a partner that holds the other half of the address).
Scanned(r) ==
  /\ SecOf(r).kind = "alloc"
  /\ ScanRules[link.arch][RelOf(r).ty] # "none"

\* Every table word that a relocation, a PLT entry or a call thunk loads was
\* allotted by the scan, no word was allotted twice, and every dynamic
\* relocation by name is against a symbol of .dynsym.  (The idx accessors
\* return -1 for a word that was never allotted: the reader would silently use
\* the word before the table.)
SlotsExist ==
  /\ \A r \in refs : r.o.how = "slot" =>
       CASE r.o.slot[1] = "GOTPLT" -> r.o.slot[2] \in Range(tab.plt)
         [] r.o.slot[1] = "LITERAL" -> r.o.slot[2] \in literals
         [] OTHER -> r.o.slot \in Range(tab.got)
  /\ \A r \in refs : r.o.dyn = "ABS" => RelOf(r).sym \in tab.dynsym
  /\ \A s \in Range(tab.pltgot) : "got" \in PltReads[link.arch].pltgot => HasGot(tab, s)
  /\ \A e \in get_got_entries(link, tab) :
       e.type # "NONE" /\ e.word[1] # "TLSLD" /\ link.syms[e.word[2]].imp => e.word[2] \in tab.dynsym
  /\ Range(tab.plt) \cup Range(tab.copyrel) \subseteq tab.dynsym
  /\ IsInjective(tab.got) /\ IsInjective(tab.plt \o tab.pltgot)
  /\ IsInjective(tab.copyrel) /\ IsInjective(tab.opd)

\* The entries that the scan reserved in .rel.dyn are the entries that the copy
\* writes: none is written twice or outside the section, and when the link is
\* done none was left unwritten (an unwritten entry is whatever the output
\* buffer held).
DynrelsMatch ==
  /\ \A p \in BagToSet(reldyn) : p < base.size /\ CopiesIn(p, reldyn) = 1
  /\ pc = "done" => BagToSet(reldyn) = 0 .. (base.size - 1)

\* A finished link refers to an imported symbol only through something the
\* dynamic linker fills in, to an ifunc only through its PLT entry, and to a
\* thread-local symbol by its offset from the thread pointer only in an
\* executable that defines it.  A symbol that was copied or given a canonical
\* PLT entry is visible to the DSO it came from, with all its aliases.
ReachesItsSymbol ==
  /\ pc = "done" => \A r \in refs :
       /\ r.o.how = "S" /\ Scanned(r) /\ ScanRules[link.arch][RelOf(r).ty] # "tls_get_addr"
            => /\ SymOf(r).imp /\ ~SymOf(r).abs => r.o.place \in {"copyrel", "plt"}
               /\ IsIfunc(SymOf(r)) /\ ~SymOf(r).imp => r.o.place = "plt"
       /\ r.o.how = "S" /\ SecOf(r).kind = "cie" /\ SymOf(r).imp => r.o.place = "plt"
       /\ r.o.how = "S" /\ Scanned(r) /\ ScanRules[link.arch][RelOf(r).ty] = "tls_get_addr"
            /\ link.syms[TlsGetAddr].imp => r.o.place = "plt"
       /\ r.o.how = "tp" => ~link.shared /\ ~SymOf(r).imp
       /\ r.o.how = "ld_le" => ~link.shared
  /\ \A s \in tab.copied : link.alias[s] \subseteq tab.copied
  /\ tab.copied \cup tab.canonical \subseteq tab.exported \cap tab.dynsym

\* When position-independent output is loaded, every word that holds the
\* address of something in it is rebased exactly once, by a relative relocation
\* or by .relr.dyn, and no other word is.
BasedOnce ==
  pc = "done" /\ Pic(link) =>
    LET rebased(r) == (IF r.o.dyn = "RELATIVE" THEN 1 ELSE 0)
                      + CopiesIn(WordOf(link, r.sec, RelOf(r)), relr)
        words == {r \in refs : /\ SecOf(r).kind = "alloc"
                               /\ Resolved(ScanRules[link.arch][RelOf(r).ty], link, SecOf(r))
                                    \in {"dyn_absrel", "toc"}}
        local == {r \in words : ~SymOf(r).imp /\ ~SymOf(r).abs /\ ~IsIfunc(SymOf(r))}
    IN /\ \A r \in local : rebased(r) = 1
       /\ \A r \in words \ local : rebased(r) = 0
       /\ \A e \in get_got_entries(link, tab) : is_relr(link, e) =>
            CopiesIn(<<"got", CHOOSE i \in DOMAIN tab.got : tab.got[i] = e.word>>, relr) = 1
       /\ BagToSet(relr) \subseteq {WordOf(link, r.sec, RelOf(r)) : r \in local}
            \cup {<<"got", i>> : i \in DOMAIN tab.got}

\* In the loaded image every reference reaches its symbol, wherever the image
\* is: through what the dynamic linker fills in, or rebased exactly once.
ReferencesReach == ReachesItsSymbol /\ BasedOnce

\* docs/mold.md: with --pack-dyn-relocs=relr all relative relocations are put
\* into .relr.dyn.
AllRelativesPacked ==
  pc = "done" /\ link.shared /\ link.relr =>
    \A r \in refs :
      (SecOf(r).kind = "alloc" /\ ScanRules[link.arch][RelOf(r).ty] = "dyn_absrel"
       /\ ~SymOf(r).imp /\ ~SymOf(r).abs)
      => CopiesIn(WordOf(link, r.sec, RelOf(r)), relr) = 1
=============================================================================
