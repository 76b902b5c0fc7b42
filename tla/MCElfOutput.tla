----------------------------- MODULE MCElfOutput -----------------------------
(***************************************************************************)
(* Outputs to try. An output is named by <<options, sections, tables>>.    *)
(***************************************************************************)
EXTENDS ElfOutput

NONE == [n \in {} |-> 0]
MCNameOrder == <<".bss", ".bss.rel.ro", ".comment", ".ctors", ".data", ".data.rel.ro", ".fini_array",
                 ".init_array", ".note.b", ".preinit_array", ".rodata", ".tbss", ".tdata", ".text",
                 ".text.hot", "counters">>

(* Input sections. *)
I(name, stem, type, flags, size, align) ==
  [name |-> name, stem |-> stem, text_stem |-> "", type |-> type, flags |-> flags, size |-> size,
   align |-> align, prio |-> -1, crt |-> "", alive |-> TRUE]
AllIsecs ==
  [t1 |-> I(".text", ".text", "progbits", {"A", "X"}, 3, 1),
   t2 |-> [I(".text.hot.f", ".text", "progbits", {"A", "X", "group"}, 2, 4) EXCEPT !.text_stem = ".text.hot"],
   t3 |-> I(".text.g", ".text", "progbits", {"A", "X", "retain"}, 1, 2),
   r1 |-> I(".rodata.s", ".rodata", "progbits", {"A"}, 4, 1),
   d1 |-> I(".data", ".data", "progbits", {"A", "W"}, 5, 1),
   d2 |-> I(".data.x", ".data", "progbits", {"A", "W"}, 2, 8),
   d3 |-> I(".data", ".data", "progbits", {"A", "W"}, 2, 32),
   b1 |-> I(".bss", ".bss", "nobits", {"A", "W"}, 6, 2),
   b2 |-> I(".bss.rel.ro", ".bss.rel.ro", "nobits", {"A", "W"}, 3, 1),
   ro |-> I(".data.rel.ro.v", ".data.rel.ro", "progbits", {"A", "W"}, 3, 2),
   tl |-> I(".tdata", ".tdata", "progbits", {"A", "W", "T"}, 3, 1),
   tb |-> I(".tbss", ".tbss", "nobits", {"A", "W", "T"}, 2, 8),
   n1 |-> I(".note.b", "", "note", {"A"}, 1, 2),
   c1 |-> I(".comment", "", "progbits", {}, 2, 1),
   u1 |-> I("counters", "", "progbits", {"A", "W"}, 2, 1),
   i1 |-> [I(".init_array.9", ".init_array", "progbits", {"A"}, 1, 1) EXCEPT !.prio = 9],
   i2 |-> I(".init_array", ".init_array", "init_array", {"A", "W"}, 1, 1),
   i3 |-> [I(".init_array.2", ".init_array", "init_array", {"A", "W"}, 1, 1) EXCEPT !.prio = 2],
   k1 |-> [I(".ctors", ".ctors", "progbits", {"A", "W"}, 1, 1) EXCEPT !.crt = "begin"],
   k2 |-> [I(".ctors.7", ".ctors", "progbits", {"A", "W"}, 1, 1) EXCEPT !.prio = 7],
   k3 |-> I(".ctors", ".ctors", "progbits", {"A", "W"}, 1, 1),
   dead |-> [I(".data.z", ".data", "progbits", {"A", "W"}, 9, 1) EXCEPT !.alive = FALSE]]
\* The sections of the two objects.
SectionsOf(m) ==
  CASE m = "small" -> <<<<"t1", "d1">>, <<"t2", "b1">>>>
    [] m = "plain" -> <<<<"t1", "d1">>, <<"r1", "b1">>>>
    [] m = "race" -> <<<<"t1", "d1">>, <<"d2", "t2">>>>
    [] m = "tls" -> <<<<"t1", "tl", "d1">>, <<"tb", "ro", "b1">>>>
    [] m = "bss" -> <<<<"t1", "ro", "b2">>, <<"r1", "d1", "b1">>>>
    [] m = "large" -> <<<<"t1", "r1", "d3">>, <<"n1", "c1", "b1">>>>
    [] m = "arrays" -> <<<<"t1", "i1", "k1", "u1">>, <<"i2", "i3", "k2", "k3">>>>
    [] m = "groups" -> <<<<"t1", "t2", "t3">>, <<"d1", "d2">>>>

(* Symbols. *)
S(file, djb) ==
  [file |-> file, alive |-> TRUE, undef |-> FALSE, isec |-> "", imported |-> FALSE, exported |-> FALSE,
   weak |-> FALSE, mergeable |-> FALSE, dotL |-> FALSE, section |-> FALSE, ver |-> 1, djb |-> djb, elf |-> djb]
Exp(s) == [s EXCEPT !.exported = TRUE]
Imp(s, ver) == [s EXCEPT !.imported = TRUE, !.ver = ver]
AllSyms ==
  [main |-> Exp(S("a", 5)), f |-> Exp(S("b", 8)), gg |-> [Exp(S("a", 11)) EXCEPT !.weak = TRUE],
   hid |-> S("b", 3), loc |-> S("a", 0),
   gone |-> [S("b", 6) EXCEPT !.isec = "dead", !.alive = FALSE],
   Lx   |-> [S("a", 0) EXCEPT !.dotL = TRUE],
   Ly   |-> [S("b", 0) EXCEPT !.dotL = TRUE, !.mergeable = TRUE],
   sec  |-> [S("b", 0) EXCEPT !.section = TRUE],
   puts |-> Imp(S("libc", 5), 3),
   exit |-> Imp(S("libc", 9), 2),
   open |-> Imp(S("libc", 4), 3),
   err  |-> [Imp(S("libc", 7), 1) EXCEPT !.exported = TRUE],
   log2 |-> Imp(S("libm", 2), 2),
   pow  |-> S("libm", 1)]
\* Symbols are in the sections of their files; gg is absolute.
Located(m) ==
  [s \in DOMAIN AllSyms |->
     IF s \in {"gg", "gone"} \/ AllSyms[s].file \notin {"a", "b"} THEN AllSyms[s]
     ELSE [AllSyms[s] EXCEPT !.isec = IF AllSyms[s].file = "a" THEN SectionsOf(m)[1][1] ELSE SectionsOf(m)[2][1]]]
Slot(sym, suffix) == [sym |-> sym, suffix |-> suffix]
NoSlots == [c \in {".got", ".plt", ".plt.got", ".text"} |-> <<>>]
R(rank, sym, off) == [rank |-> rank, sym |-> sym, off |-> off]

Base ==
  [objs |-> <<>>, dsos |-> <<>>, isecs |-> AllIsecs, syms |-> AllSyms, scan |-> <<>>, slots |-> NoSlots,
   sonames |-> <<"libc.so.6", "libm.so">>,
   dynrels |-> [x \in {".got", "a", "b"} |-> <<>>],
   version_definitions |-> <<>>, auxiliary |-> <<>>, filter |-> <<>>, rpaths |-> "", soname |-> "", output |-> "a.out",
   gnu_hash |-> TRUE, sysv_hash |-> FALSE, retain |-> FALSE, retained |-> {}, gc_sections |-> FALSE,
   discard_all |-> FALSE, discard_locals |-> FALSE, strip_all |-> FALSE, arm32 |-> FALSE,
   static |-> FALSE, pie |-> FALSE, shared |-> FALSE, relro |-> TRUE, z_now |-> FALSE, separate |-> "none",
   omagic |-> FALSE, execute_only |-> FALSE, rosegment |-> TRUE, image_base |-> 64, physical_image_base |-> -1,
   section_order |-> <<>>, section_start |-> NONE, section_align |-> NONE, unique |-> {},
   keep_text_section_prefix |-> FALSE, shuffle |-> "none", binary |-> FALSE, interp |-> FALSE,
   build_id |-> FALSE, eh_frame_hdr |-> FALSE, eh_frame |-> 0, relr |-> -1, textrel |-> FALSE, init |-> FALSE,
   fini |-> FALSE, spare_dynamic_tags |-> 1, c_identifiers |-> {"counters"}, start_stop |-> FALSE]

File(id, isecs, locals, globals) == [id |-> id, isecs |-> isecs, locals |-> locals, globals |-> globals]
Dso(id, soname, globals, versions) ==
  [id |-> id, soname |-> soname, globals |-> globals, locals |-> <<>>, versions |-> versions]
Libc == Dso("libc", "libc.so.6", <<"puts", "exit", "open", "err">>, <<"", "V2", "V3">>)
Libm == Dso("libm", "libm.so", <<"log2", "pow">>, <<"", "M2">>)

\* Tables: none; a program that imports; a library with versions; a static one
\* with indirect functions; one that keeps listed symbols only.
WithTables(l, t) ==
  CASE t = "none" -> l
    [] t = "imports" ->
         [l EXCEPT !.dsos = <<Libc, Libm>>, !.interp = TRUE, !.sysv_hash = TRUE, !.eh_frame_hdr = TRUE, !.eh_frame = 3,
                   !.scan = <<"puts", "main", "exit", "puts", "f", "log2", "open", "gg", "err">>,
                   !.slots = [@ EXCEPT ![".plt"] = <<Slot("puts", "$plt"), Slot("exit", "$plt")>>,
                                       ![".got"] = <<Slot("log2", "$got"), Slot("", "$tlsld")>>,
                                       ![".plt.got"] = <<Slot("open", "$pltgot")>>],
                   !.dynrels = [@ EXCEPT ![".got"] = <<R(1, 3, 7)>>, !["a"] = <<R(0, 0, 5), R(1, 2, 4)>>, !["b"] = <<R(0, 0, 2)>>]]
    [] t = "library" ->
         [l EXCEPT !.dsos = <<Libm, Libc>>, !.shared = TRUE, !.soname = "libx.so", !.rpaths = "lib", !.relr = 2,
                   !.scan = <<"gg", "f", "hid", "exit", "main", "log2", "puts">>, !.gc_sections = TRUE,
                   !.version_definitions = <<"X1", "X2">>, !.syms.main.ver = 2, !.syms.f.ver = 3, !.auxiliary = <<"libc.so.6">>, !.arm32 = TRUE,
                   !.slots = [@ EXCEPT ![".text"] = <<Slot("f", "$thunk"), Slot("puts", "$thunk")>>]]
    [] t = "static" ->
         [l EXCEPT !.static = TRUE, !.gnu_hash = FALSE, !.discard_locals = TRUE, !.build_id = TRUE,
                   !.slots = [@ EXCEPT ![".got"] = <<Slot("f", "$got")>>],
                   !.dynrels = [@ EXCEPT ![".got"] = <<R(2, 0, 3)>>, !["a"] = <<R(2, 0, 1)>>, !["b"] = <<R(0, 0, 2)>>]]
    [] t = "listed" ->
         [l EXCEPT !.dsos = <<Libc>>, !.retain = TRUE, !.retained = {"main", "hid", "puts"}, !.pie = TRUE,
                   !.scan = <<"main", "puts">>, !.textrel = TRUE]
    [] t = "stripped" -> [l EXCEPT !.strip_all = TRUE, !.pie = TRUE, !.interp = TRUE, !.scan = <<"gg", "main">>]
    \* Listed symbols that compute_symtab_size leaves out.
    [] t = "listed_gone" ->
         [l EXCEPT !.dsos = <<Libm>>, !.retain = TRUE, !.retained = {"main", "gone", "pow", "f"}, !.gc_sections = TRUE]

Ord(type, name, value) == [type |-> type, name |-> name, value |-> value]
OrderList ==
  <<Ord("section", "EHDR", 0), Ord("section", "PHDR", 0), Ord("group", "DATA", 0), Ord("symbol", "mark", 0),
    Ord("align", "", 8), Ord("group", "RODATA", 0), Ord("addr", "", 512), Ord("section", ".text", 0),
    Ord("group", "TEXT", 0), Ord("group", "BSS", 0)>>
WithOptions(l, o) ==
  CASE o = "default" -> l
    [] o = "code" -> [l EXCEPT !.separate = "code", !.z_now = TRUE]
    [] o = "loadable" -> [l EXCEPT !.separate = "loadable", !.physical_image_base = 64]
    [] o = "phys" -> [l EXCEPT !.physical_image_base = 512, !.start_stop = TRUE, !.rosegment = FALSE]
    [] o = "omagic" -> [l EXCEPT !.omagic = TRUE, !.relro = FALSE]
    [] o = "order" -> [l EXCEPT !.separate = "code", !.section_order = OrderList]
    [] o = "order_headers" -> [l EXCEPT !.separate = "loadable", !.section_order = SubSeq(OrderList, 3, 10)]
    [] o = "order_short" -> [l EXCEPT !.section_order = SubSeq(OrderList, 1, 6)]
    [] o = "start" -> [l EXCEPT !.section_start = [n \in {".data"} |-> 512], !.section_align = [n \in {".text"} |-> 4]]
    [] o = "binary" -> [l EXCEPT !.binary = TRUE]
    [] o = "reverse" -> [l EXCEPT !.shuffle = "reverse", !.execute_only = TRUE, !.keep_text_section_prefix = TRUE]
    [] o = "unique" -> [l EXCEPT !.unique = {".text.hot.f"}, !.discard_all = TRUE, !.execute_only = TRUE]
    \* The read-only data end where a page does or one word before, according to
    \* the size of the program header.
    [] o = "even" -> [l EXCEPT !.eh_frame = 9]
    [] o = "norelro" -> [l EXCEPT !.relro = FALSE, !.eh_frame = 10]

WithSections(l, m) ==
  [l EXCEPT !.syms = Located(m),
            !.objs = <<File("a", SectionsOf(m)[1], <<"loc", "Lx">>, <<"main", "gg", "puts">>),
                       File("b", SectionsOf(m)[2], <<"sec", "Ly">>, <<"f", "hid", "exit">>)>>]
\* --gc-sections removes a section of b and the symbol in it.
WithDead(l) ==
  IF ~l.gc_sections THEN l
  ELSE [l EXCEPT !.objs[2].isecs = <<"dead">> \o @, !.objs[2].globals = <<"gone">> \o @]
MCOutputOf(o) == WithDead(WithOptions(WithTables(WithSections(Base, o[2]), o[3]), o[1]))

MCOutputs ==
  {<<"default", m, "imports">> : m \in {"small", "race", "tls", "bss", "large", "arrays", "groups"}}
  \cup {<<o, "bss", "imports">> : o \in {"code", "loadable", "phys", "omagic", "order", "order_headers", "order_short", "start"}}
  \cup {<<o, "small", t>> : o \in {"default", "code"}, t \in {"library", "static", "listed", "stripped"}}
  \cup {<<"reverse", "arrays", "static">>, <<"binary", "small", "none">>, <<"loadable", "tls", "library">>,
        <<"code", "tls", "static">>, <<"start", "large", "library">>,
        <<"even", "plain", "static">>}
\* A layout that does not settle, and a listed symbol beside a collected one.
OpenOutputs == {<<"norelro", "plain", "static">>, <<"default", "race", "listed_gone">>}
=============================================================================
