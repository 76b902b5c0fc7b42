----------------------------- MODULE MCElfReloc -----------------------------
(***************************************************************************)
(* Links for ElfReloc.  A link has one relocation under test (with its     *)
(* partner, for the types that come in pairs) in the first file, and in    *)
(* the second file either nothing or calls, GOT loads and words that refer *)
(* to the same symbol.  Types of one target that share their rules behave  *)
(* alike, so one of each class is tried.                                   *)
(***************************************************************************)
EXTENDS ElfReloc

Sym(type, imp, abs, home) ==
  [type |-> type, imp |-> imp, abs |-> abs, exp |-> FALSE, prot |-> FALSE, home |-> home,
   undef |-> FALSE, weak |-> FALSE]

\* f, v, x, m, t: a function, two names of a variable, a thread-local variable
\* and __tls_get_addr of a DSO; the others belong to the object files.
AllSyms ==
  [l |-> Sym("FUNC", FALSE, FALSE, "section"),
   d |-> Sym("OBJECT", FALSE, FALSE, "fragment"),
   a |-> Sym("OBJECT", FALSE, TRUE, "value"),
   w |-> [Sym("FUNC", FALSE, TRUE, "value") EXCEPT !.weak = TRUE],
   i |-> Sym("IFUNC", FALSE, FALSE, "section"),
   e |-> [Sym("FUNC", FALSE, FALSE, "section") EXCEPT !.exp = TRUE],
   n |-> Sym("TLS", FALSE, FALSE, "section"),
   g |-> Sym("FUNC", FALSE, FALSE, "gc"),
   c |-> Sym("FUNC", FALSE, FALSE, "icf"),
   u |-> [Sym("FUNC", FALSE, TRUE, "value") EXCEPT !.undef = TRUE],
   f |-> Sym("FUNC", TRUE, FALSE, "value"),
   v |-> Sym("OBJECT", TRUE, FALSE, "value"),
   x |-> Sym("OBJECT", TRUE, FALSE, "value"),
   p |-> [Sym("OBJECT", TRUE, FALSE, "value") EXCEPT !.prot = TRUE],
   m |-> Sym("TLS", TRUE, FALSE, "value"),
   t |-> Sym("FUNC", TRUE, FALSE, "value")]
Imported == {"f", "v", "x", "p", "m", "t"}
\* A static link has no DSO: the C library is linked in.
StaticSyms == [s \in DOMAIN AllSyms |-> IF s \in Imported THEN [AllSyms[s] EXCEPT !.imp = FALSE,
                                          !.home = "section"] ELSE AllSyms[s]]
Aliases == [s \in DOMAIN AllSyms |-> IF s \in {"v", "x"} THEN {"v", "x"} ELSE {s}]

Opts(shared, pie, static, relax, copyreloc, text) ==
  [shared |-> shared, pie |-> pie, static |-> static, relax |-> relax,
   z_copyreloc |-> copyreloc, z_text |-> text, z_dlopen |-> ~relax]
Outputs ==
  <<Opts(TRUE, FALSE, FALSE, TRUE, TRUE, FALSE), Opts(TRUE, FALSE, FALSE, FALSE, TRUE, TRUE),
    Opts(FALSE, TRUE, FALSE, TRUE, TRUE, FALSE), Opts(FALSE, FALSE, FALSE, TRUE, TRUE, FALSE),
    Opts(FALSE, FALSE, FALSE, FALSE, FALSE, FALSE), Opts(FALSE, TRUE, TRUE, TRUE, TRUE, FALSE),
    Opts(FALSE, FALSE, TRUE, FALSE, TRUE, FALSE)>>

\* Classes of types.  Not tried: R_ARM_MOVT_ABS and R_ARM_THM_MOVT_ABS, for
\* which the scan reserves a dynamic relocation that is never written, and
\* R_PPC64_TOC, scanned against the relocation's symbol but applied against
\* the TOC base.
Skipped(arch) == CASE arch = "arm32" -> {"MOVT_ABS", "THM_MOVT_ABS"}
                   [] arch = "ppc64v1" -> {"TOC"}
                   [] arch = "riscv32" -> {"64"}
                   [] OTHER -> {}
Types(arch) == (DOMAIN ScanRules[arch] \cap DOMAIN ApplyForms[arch]) \ Skipped(arch)
Class(arch, ty) == <<ScanRules[arch][ty], ApplyForms[arch][ty], ty = Target[arch].R_ABS>>
OneOfEach(arch, types) ==
  {CHOOSE ty \in types : Class(arch, ty) = c : c \in {Class(arch, ty) : ty \in types}}

TlsRules == {"gottp", "tlsgd", "tlsld", "tlsdesc", "tlsle", "gd_or_ie", "gd_or_le", "ld_call",
             "gd_in_place", "ld_in_place", "ie_or_le", "tls_get_addr"}
IsTls(arch, ty) == ScanRules[arch][ty] \in TlsRules
                   \/ ApplyForms[arch][ty] \in TlsRules \cup {"tp", "dtp", "tlsdesc_nop"}
IsWord(arch, ty) == ScanRules[arch][ty] \in {"absrel", "dyn_absrel", "toc", "word32", "toc_or_dyn"}
Slots == {"got", "gottp", "tlsgd", "tlsld", "tlsdesc", "got_or_gotoff"}
IsLow(arch, ty) == ScanRules[arch][ty] = "none" /\ ApplyForms[arch][ty] \in Slots

Rel(ty, s) == [ty |-> ty, sym |-> s, off |-> 0, aligned |-> TRUE, insn |-> TRUE, addend |-> 0]
TypeWith(arch, rules, forms) ==
  CHOOSE ty \in Types(arch) : ScanRules[arch][ty] \in rules /\ ApplyForms[arch][ty] \in forms
\* The relocations of one use of a type: the ways to use it.
Uses(arch, ty, s) ==
  LET rule == ScanRules[arch][ty]
      one == Rel(ty, s)
      bad == [one EXCEPT !.insn = FALSE]
      Second(r) == [r EXCEPT !.off = 1]
      high == TypeWith(arch, Slots \cup {"got_if_imported"}, {ApplyForms[arch][ty]})
  IN CASE rule \in {"gd_or_ie", "gd_or_le", "ld_call"} ->
            <<<<one, Second(Rel(TypeWith(arch, {"plt"}, {"pc"}), "t"))>>>>
       [] rule = "got_page" ->
            <<<<one, Second(Rel("LD64_GOT_LO12_NC", s))>>, <<bad, Second(Rel("LD64_GOT_LO12_NC", s))>>>>
       [] rule = "literal" -> <<<<one>>, <<[one EXCEPT !.addend = 1]>>>>
       [] IsLow(arch, ty) -> <<<<Rel(high, s), Second(one)>>>>
       [] OTHER -> IF ApplyForms[arch][ty] \in {"got_or_pc", "got_unless_local", "ie_or_le"}
                   THEN <<<<one>>, <<bad, Second(one)>>>> ELSE <<<<one>>>>

Sec(kind, name, writable, rels) ==
  [kind |-> kind, name |-> name, writable |-> writable, exec |-> FALSE, aligned |-> "word",
   size |-> 4, rels |-> rels]
\* Other uses of the symbol, in the second file: a word, a call, a GOT load.
Others(arch, s, tls) ==
  LET word == <<[Rel(Target[arch].R_ABS, IF s = "v" THEN "x" ELSE s) EXCEPT !.off = 0]>>
      call == IF arch = "riscv32" THEN "CALL" ELSE TypeWith(arch, {"plt"}, {"pc", "call", "thunk"})
      load == IF arch \in {"ppc64v1", "ppc64v2"} THEN "PLT16_HA"
              ELSE IF arch = "alpha" THEN "LITERAL" ELSE TypeWith(arch, {"got"}, {"got"})
  IN IF tls THEN <<Sec("alloc", ".text", FALSE, <<Rel(TypeWith(arch, {"gottp", "ie_or_le"},
                                                           {"gottp", "ie_or_le"}), s)>>)>>
     ELSE <<Sec("alloc", ".data", TRUE, word), Sec("alloc", ".text", FALSE, <<Rel(call, s), Rel(load, s)>>)>>

SymOrder == <<"l", "d", "a", "w", "i", "e", "n", "g", "c", "u", "f", "v", "x", "p", "m", "t">>
Link(arch, opts, pack, files) ==
  LET used == {"e", "t"} \cup UNION {UNION {{r.sym : r \in Range(files[f][i].rels)} :
                                            i \in DOMAIN files[f]} : f \in DOMAIN files}
      syms == IF opts.static THEN StaticSyms ELSE AllSyms
  IN opts @@ [arch |-> arch, relr |-> pack, unresolved |-> "error", files |-> files,
              syms |-> [s \in used \cup {"x"} |-> syms[s]],
              alias |-> [s \in used \cup {"x"} |-> IF opts.static THEN {s} ELSE Aliases[s]],
              order |-> SelectSeq(SymOrder, LAMBDA s : s \in used)]

\* A relocation under test: its target, type, symbol, the variant of its use, the
\* kind of output, whether its section is writable, whether others use the symbol.
SymsFor(arch, ty) ==
  IF IsTls(arch, ty) THEN {"n", "m"} ELSE {"l", "a", "w", "i", "e", "f", "v", "p", "u"}
Archs == DOMAIN Target
AllocNames ==
  UNION {UNION {{"alloc"} \X {arch} \X {ty} \X SymsFor(arch, ty) \X (1..Len(Outputs))
                \X (IF IsWord(arch, ty) THEN BOOLEAN ELSE {FALSE}) \X BOOLEAN
                \X (1..Len(Uses(arch, ty, "l")))
                : ty \in OneOfEach(arch, Types(arch))} : arch \in Archs}
AllocLink(arch, ty, s, out, writable, others, variant) ==
  Link(arch, Outputs[out], FALSE,
       <<<<Sec("alloc", IF ty = "ADDR64" /\ ~writable THEN ".toc" ELSE ".data", writable,
               Uses(arch, ty, s)[variant])>>,
         IF others THEN Others(arch, s, IsTls(arch, ty)) ELSE <<>>>>)

\* Debug sections and exception frames.
DebugNames ==
  {"debug"} \X {"x86_64", "arm64", "sparc64"} \X {"64", "ABS64", "32"} \X {"l", "d", "g", "c", "f", "u"}
  \X {".debug_info", ".debug_line", ".debug_loc"}
DebugLink(arch, ty, s, name) ==
  Link(arch, Outputs[4], FALSE,
       <<<<Sec("nonalloc", name, FALSE, <<Rel(ty, s)>>)>>, Others(arch, s, FALSE)>>)
EhNames ==
  UNION {{"eh"} \X {arch} \X (EhTypes[arch] \cup {"?"}) \X {"l", "f", "v"} \X {1, 4} : arch \in Archs}
EhLink(arch, ty, s, out) ==
  Link(arch, Outputs[out], FALSE, <<<<Sec("cie", ".eh_frame", FALSE, <<Rel(ty, s)>>)>>, <<>>>>)

\* .relr.dyn: words at any positions of two files' .data, of any alignment, and
\* GOT words.
Words(arch, offs, s) ==
  LET seq == Ascending(offs)
  IN [k \in DOMAIN seq |-> [Rel(Target[arch].R_ABS, s) EXCEPT !.off = seq[k]]]
RelrNames ==
  {"relr"} \X {"x86_64", "arm32"} \X (SUBSET {0, 1, 3, 6}) \X {{}, {0}, {2}} \X {"d", "v"} \X {"l", "a"}
  \X {"word", "odd"} \X {1, 4}
RelrLink(arch, o1, o2, s1, s2, al, out) ==
  Link(arch, Outputs[out], TRUE,
       <<<<[Sec("alloc", ".data", TRUE, Words(arch, o1, s1)) EXCEPT !.size = 7, !.aligned = al],
           Sec("alloc", ".text", FALSE, <<Rel(TypeWith(arch, {"got"}, {"got"}), "d")>>)>>,
         <<Sec("alloc", ".data", TRUE, Words(arch, o2, s2))>>>>)

MCLinks == AllocNames \cup DebugNames \cup EhNames \cup RelrNames

\* As the documentation puts it: the words of any type that needs a relative
\* relocation, with --pack-dyn-relocs=relr.
MCRelrLinks == {"any"} \X {"ABS32", "TARGET1"}
AnyLink(ty) ==
  Link("arm32", Outputs[1], TRUE,
       <<<<Sec("alloc", ".data", TRUE, <<Rel(ty, "d")>>)>>,
         <<Sec("alloc", ".data", TRUE, <<[Rel(ty, "l") EXCEPT !.off = 1]>>)>>>>)

MCLinkOf(n) ==
  CASE n[1] = "alloc" -> AllocLink(n[2], n[3], n[4], n[5], n[6], n[7], n[8])
    [] n[1] = "debug" -> DebugLink(n[2], n[3], n[4], n[5])
    [] n[1] = "eh" -> EhLink(n[2], n[3], n[4], n[5])
    [] n[1] = "relr" -> RelrLink(n[2], n[3], n[4], n[5], n[6], n[7], n[8])
    [] n[1] = "any" -> AnyLink(n[2])
=============================================================================
