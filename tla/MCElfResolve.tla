---------------------------- MODULE MCElfResolve ----------------------------
(***************************************************************************)
(* Small links for ElfResolve: all combinations of a few kinds of symbol   *)
(* entries over an object, an archive member and a second member or DSO,   *)
(* and hand-picked links for groups, link-time optimisation, versions,     *)
(* --wrap, visibility and garbage collection.                              *)
(***************************************************************************)
EXTENDS ElfResolve

\* An entry of kind d for the name n; a definition is in a section of its own.
E(n, d) == [name |-> n, ver |-> "", default |-> FALSE, def |-> d, vis |-> "default",
            sec |-> IF d \in {"strong", "weak", "common"} THEN "." \o n ELSE ""]
Vis(e, v) == [e EXCEPT !.vis = v]
At(e, v, dflt) == [e EXCEPT !.ver = v, !.default = dflt]
In(e, s) == [e EXCEPT !.sec = s]
Key(n) == <<n, "">>

Plain == [alloc |-> TRUE, keep |-> FALSE, eh |-> FALSE, rels |-> {}, locals |-> {}, fde |-> {}]

\* A file whose sections refer to all it leaves undefined.
F(kind, at, syms) ==
  LET undefs == {BaseKey(syms[i]) : i \in {i \in DOMAIN syms : IsUndef(syms[i])}} IN
  [kind |-> kind, at |-> at, ir |-> FALSE, native |-> FALSE, archive |-> "", needed |-> FALSE,
   syms |-> syms, groups |-> <<>>, cies |-> {},
   secs |-> [s \in {syms[i].sec : i \in DOMAIN syms} \ {""} |-> [Plain EXCEPT !.rels = undefs]]]

\* A file with a kept section that refers to the names ns.
Main(at, syms, ns) ==
  LET f == F("obj", at, syms) IN
  [f EXCEPT !.secs = [s \in DOMAIN f.secs \cup {"main"} |->
     IF s = "main" THEN [Plain EXCEPT !.keep = TRUE, !.rels = {Key(n) : n \in ns}] ELSE f.secs[s]]]

Options == [shared |-> FALSE, gc_sections |-> TRUE, z_defs |-> FALSE,
            z_dynamic_undefined_weak |-> TRUE, Bsymbolic |-> FALSE, wrap |-> {}, roots |-> {}, exclude_libs |-> {},
            entry |-> "main", default_version |-> "local", default_from_script |-> FALSE,
            patterns |-> <<>>, files |-> <<>>]
Exe(files) == [Options EXCEPT !.files = files]
Shared(files) == [Options EXCEPT !.files = files, !.shared = TRUE, !.default_version = "global"]

\* The combinations: kinds of entries for a and b in each of three files.
Combos ==
  { c \in {"undef", "wundef", "common"} \X {"none", "undef", "weak"}
          \X {"none", "strong", "weak", "common"} \X {"none", "undef", "strong"}
          \X {"member", "dso"} \X {"none", "strong", "undef"} \X {"none", "strong", "weak"}
          \X BOOLEAN :
      c[8] => c[5] = "dso" }
EntriesOf(a, b) == SelectSeq(<<E("a", a), E("b", b)>>, LAMBDA e : e.def # "none")
ComboLink(c) ==
  LET s2 == EntriesOf(c[3], c[4])
      s3 == EntriesOf(c[6], c[7])
      third == [F(c[5], 3, s3) EXCEPT !.needed = c[5] = "dso", !.secs = IF c[5] = "dso" THEN <<>> ELSE @]
      files == [f \in {"f1"} \cup (IF s2 = <<>> THEN {} ELSE {"f2"}) \cup (IF s3 = <<>> THEN {} ELSE {"f3"}) |->
                  CASE f = "f1" -> Main(1, EntriesOf(c[1], c[2]), {"a"})
                    [] f = "f2" -> F("member", 2, s2)
                    [] f = "f3" -> third]
  IN IF c[8] THEN Shared(files) ELSE Exe(files)

\* A member of group "g" in section ".inl", which defines inl.
WithGroup(f) == [f EXCEPT !.groups = [g \in {"g"} |-> {".inl"}]]
Inl == In(E("inl", "weak"), ".inl")
Ir(f) == [f EXCEPT !.ir = TRUE, !.secs = <<>>]
Native(f) == [f EXCEPT !.native = TRUE]

Picked ==
  [comdat |-> Exe([f1 |-> WithGroup(Main(3, <<Inl, E("a", "undef"), In(E("y", "strong"), ".inl")>>, {"a", "inl"})),
                   f2 |-> WithGroup(F("member", 1, <<Inl, E("b", "strong")>>)),
                   f3 |-> WithGroup(F("member", 2, <<E("a", "strong"), Inl>>))]),
   lto |-> Exe([f1 |-> Main(1, <<E("a", "undef")>>, {"a"}),
                f2 |-> Ir(F("obj", 2, <<E("a", "strong"), E("x", "strong"), E("m", "undef")>>)),
                f3 |-> F("member", 3, <<E("m", "strong")>>),
                f4 |-> F("member", 4, <<E("memcpy", "strong"), E("q", "undef")>>),
                f5 |-> F("member", 5, <<E("q", "strong")>>),
                n1 |-> Native(F("obj", 0, <<E("a", "strong"), E("x", "strong"), E("memcpy", "undef")>>))]),
   lto_comdat |-> Exe([f1 |-> WithGroup(Main(2, <<Inl, E("a", "undef")>>, {"a", "inl"})),
                f2 |-> Ir(F("obj", 3, <<E("a", "strong"), E("inl", "weak")>>)),
                f3 |-> WithGroup(F("member", 1, <<Inl, E("memcpy", "strong")>>)),
                n1 |-> WithGroup(Native(F("obj", 0, <<E("a", "strong"), Inl, E("memcpy", "undef")>>)))]),
   lto_member |-> Exe([f1 |-> WithGroup(Main(2, <<Inl, E("a", "undef")>>, {"a", "inl"})),
                f2 |-> Ir(F("member", 3, <<E("a", "strong")>>)),
                f3 |-> WithGroup(F("member", 1, <<Inl, E("memcpy", "strong")>>)),
                n1 |-> Native(F("obj", 0, <<E("a", "strong"), E("memcpy", "undef")>>))]),
   lto_shared |-> Shared([f1 |-> Main(1, <<E("c", "strong")>>, {"c"}),
                f2 |-> Ir(F("obj", 2, <<E("a", "strong"), Vis(E("x", "strong"), "hidden")>>)),
                f3 |-> [F("dso", 3, <<E("a", "strong"), E("c", "undef")>>) EXCEPT !.needed = TRUE],
                n1 |-> Native(F("obj", 0, <<E("a", "strong"), Vis(E("x", "strong"), "hidden")>>))]),
   no_symbols |-> Exe([f1 |-> Main(1, <<E("a", "undef")>>, {"a"}), f2 |-> Main(2, <<>>, {}),
                f3 |-> F("member", 3, <<E("a", "strong")>>), f4 |-> F("dso", 4, <<>>)]),
   wrap |-> [Exe([f1 |-> Main(1, <<E("a", "undef"), E("__wrap_a", "strong"), E("__real_a", "undef")>>,
                              {"__wrap_a", "a"}),
                  f2 |-> F("member", 2, <<E("a", "strong")>>)]) EXCEPT !.wrap = {"a"}],
   versions |-> [Shared([f1 |-> Main(1, <<At(E("a", "strong"), "V1", FALSE), At(In(E("a", "strong"), ".a2"), "V2", TRUE),
                                          E("b", "strong"), In(At(E("b", "strong"), "V1", FALSE), ".b1")>>, {"a"}),
                         f2 |-> F("obj", 2, <<E("a", "undef"), E("b", "undef"), E("c", "strong")>>)])
                 EXCEPT !.patterns = <<[names |-> {"c"}, glob |-> TRUE, ver |-> "V1"],
                                       [names |-> {"c", "a"}, glob |-> TRUE, ver |-> "local"]>>],
   simple |-> [Exe([f1 |-> Main(1, <<E("a", "strong"), E("b", "strong")>>, {}),
                    f2 |-> F("dso", 2, <<E("a", "undef"), E("b", "undef")>>)])
               EXCEPT !.patterns = <<[names |-> {"a"}, glob |-> FALSE, ver |-> "global"],
                                     [names |-> {"a"}, glob |-> FALSE, ver |-> "local"]>>,
                      !.default_from_script = TRUE],
   symver |-> Exe([f1 |-> Main(1, <<At(E("a", "undef"), "V1", FALSE), E("a", "undef")>>, {"a"}),
                   f2 |-> F("obj", 2, <<At(E("a", "undef"), "V2", FALSE), At(E("a", "undef"), "V1", FALSE)>>),
                   f3 |-> F("dso", 3, <<At(E("a", "strong"), "V1", TRUE)>>)]),
   hidden |-> [Shared([f1 |-> Main(1, <<E("a", "undef"), Vis(E("b", "undef"), "protected"), Vis(E("c", "wundef"), "hidden")>>, {"a", "b"}),
                   f2 |-> [F("member", 2, <<E("a", "strong"), E("c", "wundef")>>) EXCEPT !.archive = "libx.a"],
                   f3 |-> F("obj", 3, <<Vis(E("b", "strong"), "internal"), E("c", "undef")>>)])
             EXCEPT !.exclude_libs = {"libx.a"}],
   protected |-> [Shared([f1 |-> Main(1, <<Vis(E("a", "strong"), "protected"), E("b", "strong"), E("u", "undef")>>, {"u"}),
                   f2 |-> F("obj", 2, <<E("u", "wundef"), E("b", "undef")>>)]) EXCEPT !.z_defs = TRUE],
   weak_first |-> [Shared([f1 |-> Main(2, <<E("u", "undef")>>, {"u"}),
                   f2 |-> F("obj", 1, <<E("u", "wundef")>>)]) EXCEPT !.z_dynamic_undefined_weak = FALSE],
   symbolic |-> [Shared([f1 |-> Main(1, <<E("a", "strong"), E("b", "weak")>>, {"a"}),
                   f2 |-> F("dso", 2, <<E("b", "strong"), E("z", "abs")>>)]) EXCEPT !.Bsymbolic = TRUE],
   roots |-> [Exe([f1 |-> Main(1, <<E("c", "strong")>>, {}),
                   f2 |-> F("member", 2, <<E("a", "strong"), E("b", "undef")>>),
                   f3 |-> F("member", 3, <<E("b", "strong"), E("c", "strong")>>)]) EXCEPT !.roots = {"a"}],
   missing |-> [Exe([f1 |-> Main(1, <<E("c", "strong")>>, {})]) EXCEPT !.roots = {"nowhere"}],
   unwind |-> Exe([f1 |-> [Main(1, <<E("a", "strong"), E("lsda", "strong"), E("pers", "undef"), In(E("eh", "strong"), ".eh_frame")>>, {"a", "eh"})
                           EXCEPT !.secs[".a"].fde = {Key("lsda")}, !.secs[".eh_frame"].eh = TRUE,
                                  !.secs[".lsda"].locals = {".a"}, !.secs["main"].locals = {".a"}, !.cies = {Key("pers")}],
                   f2 |-> [F("obj", 2, <<E("pers", "strong"), E("unused", "strong"), E("abs", "abs")>>)
                           EXCEPT !.secs[".unused"].alloc = FALSE, !.secs[".unused"].rels = {Key("pers")}]])]

\* foo@V1 is referred to, foo is not; a DSO has foo with the default version V1.
LoneSymver == Exe([f1 |-> Main(1, <<At(E("a", "undef"), "V1", FALSE)>>, {}),
                   f2 |-> F("dso", 2, <<At(E("a", "strong"), "V1", TRUE)>>)])

AllLinks == {<<"combo", c>> : c \in Combos} \cup {<<"picked", <<p>>>> : p \in DOMAIN Picked}
SymverLinks == {<<"symver", <<"">>>>}
LinkOfName(l) == CASE l[1] = "combo" -> ComboLink(l[2])
                   [] l[1] = "picked" -> Picked[l[2][1]]
                   [] OTHER -> LoneSymver
=============================================================================
