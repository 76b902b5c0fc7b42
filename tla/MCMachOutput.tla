---------------------------- MODULE MCMachOutput ----------------------------
(***************************************************************************)
(* Links to try: two objects and three libraries, with the references that *)
(* the features of a link ask for, for both processors.                    *)
(***************************************************************************)
EXTENDS MachLoader

MCPageSize == [a \in {"arm64", "x86-64"} |-> IF a = "arm64" THEN 512 ELSE 256]
MCOtherNames == <<"__RO", "__init_offsets", "__made", "__objc_methname", "__objc_selrefs", "__objc_stubs", "__zdata">>

(* Names. *)
main == <<10, 1>>
foo == <<10, 2>>
gvar == <<10, 2, 5>>
table == <<10, 3>>
alias == <<10, 4>>
label == <<11>>
tvar == <<12, 1>>
tinit == <<12, 2>>
tzero == <<12, 2, 2>>
long(n) == [i \in 1..n |-> 13]
absval == <<14>>
printf == <<20, 1>>
puts == <<20, 2>>
stdin == <<20, 3>>
bootstrap == <<20, 4>>
ltls == <<20, 5>>
pers == <<21, 2>>
pers2 == <<21, 3>>
msgA == <<30, 1>>
msgB == <<30, 2>>
maybe == <<40>>
lost == <<41>>
dataend == <<50>>
textstart == <<51>>
nosect == <<52>>

(* Relocations. A reference from code is one field on x86, two on ARM.     *)
Rel(type, offset, s, addend) ==
  [type |-> type, offset |-> offset, size |-> 8, scale |-> 0, sym |-> s, subsec |-> <<>>, addend |-> addend,
   is_subtracted |-> FALSE]
Word8(offset, s, addend) == <<Rel("UNSIGNED", offset, s, addend)>>
ToSub(offset, x, addend) == <<[Rel("UNSIGNED", offset, <<>>, addend) EXCEPT !.subsec = x]>>
Diff(offset, s, t, size) ==
  <<[Rel("SUBTRACTOR", offset, t, 0) EXCEPT !.size = size],
    [Rel("UNSIGNED", offset, s, 3) EXCEPT !.size = size, !.is_subtracted = TRUE]>>
Pair(a, hi, lo, x, offset, s, addend, scale) ==
  IF a = "arm64" THEN <<Rel(hi, offset, s, addend), [Rel(lo, offset + 4, s, addend) EXCEPT !.scale = scale]>>
  ELSE <<[Rel(x, offset, s, addend) EXCEPT !.size = 4]>>
Call(a, offset, s) == <<Rel(IF a = "arm64" THEN "BRANCH26" ELSE "BRANCH", offset, s, 0)>>
Addr(a, offset, s, addend) == Pair(a, "PAGE21", "PAGEOFF12", "SIGNED", offset, s, addend, 0)
Got(a, offset, s) == Pair(a, "GOT_LOAD_PAGE21", "GOT_LOAD_PAGEOFF12", "GOT_LOAD", offset, s, 0, 3)
Tlv(a, offset, s) == Pair(a, "TLVP_LOAD_PAGE21", "TLVP_LOAD_PAGEOFF12", "TLV", offset, s, 0, 3)
\* The field is followed by an immediate of two bytes on x86.
AddrImm(a, offset, s) ==
  IF a = "arm64" THEN Addr(a, offset, s, 0) ELSE <<[Rel("SIGNED", offset, s, 0) EXCEPT !.scale = 2, !.size = 4]>>
GotWord(a, offset, s) ==
  <<[Rel(IF a = "arm64" THEN "POINTER_TO_GOT" ELSE "GOT", offset, s, 0) EXCEPT !.size = 4]>>

(* Subsections. *)
TypeOf(sect) ==
  CASE sect = "__thread_vars" -> "thread_local_variables" [] sect = "__thread_data" -> "thread_local_regular"
    [] sect = "__thread_bss" -> "thread_local_zerofill" [] sect = "__bss" -> "zerofill" [] OTHER -> "regular"
Sub(seg, sect, size, p2align, rels) ==
  [seg |-> seg, sect |-> sect, type |-> TypeOf(sect), code |-> sect = "__text", input_addr |-> 0,
   input_size |-> size, p2align |-> p2align, alive |-> TRUE, rels |-> rels, unwind |-> <<>>]
Unwind(x, offset, len, encoding) ==
  [subsec |-> x, input_offset |-> offset, code_len |-> len, encoding |-> encoding, personality |-> <<>>, lsda |-> <<>>,
   lsda_offset |-> 0, fde |-> ""]
If(cond, q) == IF cond THEN q ELSE <<>>

(* Symbols. *)
Def(x, value, vis) ==
  [file |-> x[1], subsec |-> x, value |-> value, visibility |-> vis, is_weak |-> FALSE, is_abs |-> FALSE, is_tlv |-> FALSE,
   kind |-> [type |-> ""]]
Ext(f) == [Def(<<f>>, 0, "global") EXCEPT !.subsec = <<>>]
Kind(k) == [Ext("") EXCEPT !.visibility = "local", !.kind = k]

\* What the objects hold when a link has the given features.
Subsections(a, has(_)) ==
  LET mainrels ==
        If(has("own"), Call(a, 4, foo)) \o If(has("call"), Call(a, 12, printf)) \o If(has("call2"), Call(a, 20, puts))
        \o If(has("got"), Got(a, 28, stdin)) \o If(has("gotcall"), Got(a, 36, printf))
        \o Addr(a, 44, gvar, 4) \o If(has("objc"), Call(a, 52, msgB) \o Call(a, 60, msgA))
        \o If(has("tls"), Tlv(a, 68, tvar)) \o If(has("libtls"), Tlv(a, 76, ltls))
        \o If(has("lost"), Call(a, 84, lost)) \o If(has("U"), Got(a, 92, maybe))
        \o If(has("bounds"), Addr(a, 100, dataend, 0) \o Addr(a, 108, textstart, 0) \o Addr(a, 116, nosect, 0))
        \o AddrImm(a, 124, table) \o If(has("owngot"), GotWord(a, 132, foo))
      foorels == If(has("objc"), Call(a, 4, msgA)) \o If(has("lost"), Call(a, 12, lost)) \o If(has("call"), Call(a, 20, printf))
        \o If(has("owngot"), Got(a, 28, main))
      datarels ==
        Word8(0, main, 0) \o Word8(8, foo, 2) \o If(has("bind"), Word8(16, stdin, 0) \o Word8(24, stdin, 5) \o Word8(32, printf, 0))
        \o If(has("far"), Word8(40, puts, 200)) \o If(has("farther"), Word8(40, puts, 70000)) \o If(has("tie"), Word8(40, stdin, 70))
        \o If(has("diff"), Diff(48, foo, main, 8) \o Diff(56, gvar, table, 4))
        \o ToSub(64, <<"b", "const">>, 4) \o If(has("far") \/ has("farther"), Word8(72, puts, 70))
      mainunwind == [Unwind(<<"a", "main">>, 0, 136, "frame") EXCEPT !.personality = pers, !.lsda = <<"b", "lsda">>, !.lsda_offset = 4]
      foounwind == Unwind(<<"b", "foo">>, 0, 36, "frame")
      leaf(n, len, enc) == [Sub("__TEXT", "__text", len, 2, <<>>) EXCEPT !.unwind = <<Unwind(<<"b", n>>, 0, len, enc)>>]
      common ==
        (<<"a", "main">> :> [Sub("__TEXT", "__text", 136, 2, mainrels) EXCEPT !.unwind = If(has("unwind"), <<mainunwind>>)])
        @@ (<<"b", "foo">> :> [Sub("__TEXT", "__text", 36, 2, foorels) EXCEPT !.unwind = If(has("unwind"), <<foounwind>>)])
        @@ (<<"a", "data">> :> Sub("__DATA", "__data", IF has("far") \/ has("farther") THEN 80 ELSE 72, 3, datarels))
        @@ (<<"b", "const">> :> Sub("__DATA", "__const", 9, 0, <<>>))
        @@ (<<"b", "bss">> :> Sub("__DATA", "__bss", 12, 2, <<>>))
        @@ (<<"b", "dead">> :> [Sub("__DATA", "__data", 8, 3, Word8(0, printf, 0)) EXCEPT !.alive = FALSE])
      tls ==
        (<<"a", "vars">> :> Sub("__DATA", "__thread_vars", 48, 3,
              Word8(0, bootstrap, 0) \o Word8(16, tinit, 0) \o Word8(24, bootstrap, 0) \o Word8(40, tzero, 4)))
        @@ (<<"a", "tinit">> :> Sub("__DATA", "__thread_data", 12, 2, <<>>))
        @@ (<<"b", "tzero">> :> Sub("__DATA", "__thread_bss", 16, 4, <<>>))
      wide == <<"b", "wide">> :> Sub("__RO", "__zdata", 1100, 3, Word8(0, main, 0) \o Word8(1088, foo, 0))
      records ==
        (<<"b", "l1">> :> leaf("l1", 8, "frameless")) @@ (<<"b", "l2">> :> leaf("l2", 8, "frameless"))
        @@ (<<"b", "l3">> :> leaf("l3", 8, "stack_ind")) @@ (<<"b", "l4">> :> leaf("l4", 12, "stack_ind"))
        @@ (<<"b", "l5">> :> [leaf("l5", 8, "frame") EXCEPT !.unwind[1].personality = pers2, !.unwind[1].lsda = <<"b", "lsda">>])
        @@ (<<"b", "l6">> :> [leaf("l6", 8, "dwarf") EXCEPT !.unwind[1].fde = "f6"])
        @@ (<<"b", "l7">> :> [leaf("l7", 8, "dwarf") EXCEPT !.unwind[1].fde = "f7"])
        @@ (<<"b", "lsda">> :> Sub("__TEXT", "__gcc_except_tab", 8, 2, <<>>))
      none == <<>> IN
  common @@ (IF has("tls") THEN tls ELSE none) @@ (IF has("wide") THEN wide ELSE none)
  @@ (IF has("unwind") THEN records ELSE none)

Symbols(has(_)) ==
  (main :> Def(<<"a", "main">>, 0, "global")) @@ (foo :> Def(<<"b", "foo">>, 0, "global"))
  @@ (gvar :> Def(<<"b", "bss">>, 0, "global")) @@ (table :> Def(<<"a", "data">>, 8, "module"))
  @@ (alias :> Def(<<"b", "foo">>, 0, "local"))
  @@ (label :> [Def(<<"b", "const">>, 4, "local") EXCEPT !.kind.type = "private"])
  @@ (absval :> [Ext("a") EXCEPT !.is_abs = TRUE, !.value = 77, !.visibility = "local"])
  @@ (printf :> Ext("libc")) @@ (puts :> [Ext("libx") EXCEPT !.is_weak = TRUE]) @@ (stdin :> Ext("libc"))
  @@ (bootstrap :> Ext("libc")) @@ (ltls :> [Ext("libx") EXCEPT !.is_tlv = TRUE])
  @@ (pers :> Ext("libx")) @@ (pers2 :> Ext(IF has("host") THEN "host" ELSE "libc"))
  @@ (objc_msgSend :> Ext("libc")) @@ (dyld_stub_binder :> Ext("libc"))
  @@ (dyld_private :> Kind([type |-> ""])) @@ (dso_handle :> Kind([type |-> ""])) @@ (mh_header :> Kind([type |-> ""]))
  @@ (msgA :> Kind([type |-> "msgsend"])) @@ (msgB :> Kind([type |-> "msgsend"]))
  @@ (maybe :> Kind([type |-> ""])) @@ (lost :> Kind([type |-> ""]))
  @@ (dataend :> Kind([type |-> "segment", of |-> "__DATA", end |-> TRUE]))
  @@ (textstart :> Kind([type |-> "section", of |-> Text("__text"), end |-> FALSE]))
  @@ (nosect :> Kind([type |-> "section", of |-> Data("__none"), end |-> FALSE]))
  @@ (IF has("tls") THEN (tvar :> [Def(<<"a", "vars">>, 0, "global") EXCEPT !.is_tlv = TRUE])
                         @@ (tinit :> Def(<<"a", "tinit">>, 4, "local")) @@ (tzero :> Def(<<"b", "tzero">>, 0, "local")) ELSE <<>>)
  @@ (IF has("long") THEN long(90) :> Def(<<"b", "const">>, 1, "global") ELSE <<>>)

Fde(n, x) == [id |-> n, size |-> 32, subsec |-> x, cie |-> "c", aug |-> 25, lsda |-> <<>>, lsda_offset |-> 0]
Cie(n, s) == [id |-> n, size |-> 28, personality |-> s, personality_offset |-> 19]
\* A subsection that was stripped is in no file's list; frame descriptions still
\* name it.
World(l) ==
  LET has(x) == x \in l.features
      subsecs == Subsections(l.arch, has)
      of(f) == SelectSeq(<<"main", "foo", "data", "const", "bss", "vars", "tinit", "tzero", "wide", "l1", "l2", "l3", "l4", "l5",
                           "l6", "l7", "lsda">>, LAMBDA n : <<f, n>> \in DOMAIN subsecs)
      ids(f) == [i \in DOMAIN of(f) |-> <<f, of(f)[i]>>] IN
  [arch |-> l.arch, output_type |-> l.type, pagezero_size |-> IF l.type = "execute" THEN Mod32 ELSE 0,
   subsecs |-> subsecs, syms |-> Symbols(has),
   objs |->
     <<[id |-> "a", subsecs |-> ids("a"), debug |-> IF has("debug") THEN 5 ELSE 0, cies |-> <<>>, fdes |-> <<>>,
        syms |-> <<absval, main, table, gvar, foo, printf, puts, stdin>> \o If(has("objc"), <<msgB, msgA>>) \o If(has("lost"), <<lost>>)
                 \o If(has("tls"), <<tinit, tvar, tzero, bootstrap>>) \o If(has("libtls"), <<ltls>>) \o If(has("U"), <<maybe>>)
                 \o If(has("bounds"), <<dataend, textstart, nosect>>) \o If(has("unwind"), <<pers>>),
        init_functions |-> If(has("init"), <<main>>), data_in_code |-> If(has("data_in_code"), <<[offset |-> 8]>>)],
       [id |-> "b", subsecs |-> ids("b"), debug |-> 0,
        syms |-> <<label, alias, foo, main, gvar, printf>> \o If(has("objc"), <<msgA>>) \o If(has("lost"), <<lost>>)
                 \o If(has("tls"), <<tzero>>) \o If(has("long"), <<long(90)>>) \o If(has("unwind"), <<pers2>>),
        cies |-> If(has("unwind"), <<Cie("c0", <<>>), Cie("c", pers)>>),
        fdes |-> If(has("unwind"), <<Fde("f6", <<"b", "l6">>), Fde("f0", <<"b", "dead">>), [Fde("f7", <<"b", "l7">>) EXCEPT !.lsda = <<"b", "lsda">>, !.lsda_offset = 4]>>),
        init_functions |-> If(has("init"), <<foo>>), data_in_code |-> <<>>]>>,
   dylibs |->
     <<[id |-> "libc", dylib_idx |-> 1, install_name |-> <<1, 1>>,
        syms |-> <<dyld_stub_binder, printf, stdin, bootstrap, objc_msgSend>> \o If(~has("host"), <<pers2>>)]>>
     \o If(has("host"), <<[id |-> "host", dylib_idx |-> -1, install_name |-> <<2>>, syms |-> <<pers2, main>>]>>)
     \o <<[id |-> "libx", dylib_idx |-> 2, install_name |-> <<1, 2, 3>>, syms |-> <<puts, ltls, pers, foo>>]>>,
   fixup_chains |-> has("chains"), bind_at_load |-> has("bind_at_load"), flat_namespace |-> has("flat"),
   undefined_error |-> ~has("dynamic_lookup"), U |-> If(has("U"), <<maybe, main>>),
   exported_symbols_list |-> IF has("exports") THEN {foo, table} ELSE {},
   unexported_symbols_list |-> IF has("unexports") THEN {foo, alias} ELSE {},
   order_file |-> If(has("order"), <<foo, printf>>),
   sectalign |-> [c \in (IF has("align") THEN {Data("__const")} ELSE {}) |-> 5],
   sectcreate |-> IF has("made") THEN {[id |-> Text("__made"), size |-> 5]} ELSE {},
   function_starts |-> TRUE, data_in_code_info |-> has("data_in_code"), init_offsets |-> has("init"),
   adhoc_codesign |-> l.arch = "arm64", uuid |-> IF has("nouuid") THEN "none" ELSE "hash",
   headerpad |-> 32, rpaths |-> If(has("debug"), <<3>>), umbrella |-> IF has("unexports") THEN 9 ELSE 0,
   output |-> <<7, 7, 7>>, S |-> has("S"), x |-> has("x"), add_ast_path |-> If(has("debug"), <<4, 2>>)]

L(arch, type, features) == [arch |-> arch, type |-> type, features |-> features]
Calls == {"own", "call", "call2", "got", "bind"}
MCLinks ==
  {L(a, "execute", Calls \cup {"chains", "owngot", "gotcall", "diff", "bounds", "debug",
                             IF a = "arm64" THEN "far" ELSE "farther"}) : a \in {"arm64", "x86-64"}}
  \cup {L(a, "execute", Calls \cup {"diff", "bounds", "exports"}) : a \in {"arm64", "x86-64"}}
  \cup {L(a, "execute", Calls \cup {"chains", "tls", "libtls", "wide", "data_in_code"}) : a \in {"arm64", "x86-64"}}
  \cup {L(a, "dylib", Calls \cup {"tls", "unwind", "long", "init"}) : a \in {"arm64", "x86-64"}}
  \cup {L("arm64", "execute", {"own", "call", "chains", "objc", "unwind", "order", "align", "made"}),
        L("arm64", "dylib", {"own", "call", "lost", "dynamic_lookup", "chains", "unexports", "debug", "x"}),
        L("x86-64", "bundle", {"own", "owngot", "call", "host", "unwind", "wide"}),
        L("x86-64", "dylib", {"got", "owngot", "bind", "flat", "chains", "nouuid", "debug", "S"}),
        L("arm64", "dylib", {"own", "call", "lost", "dynamic_lookup", "objc", "U", "chains"}),
        L("x86-64", "execute", {"own", "call", "U", "chains", "made"}),
        L("arm64", "execute", {"own", "lost", "chains"})}
\* A call to a function of a library, bound on the first call.
LazyLinks == {L("arm64", "execute", {"call", "owngot"})}
\* An addend that no chain entry holds, on one of several symbols of a library;
\* and a called function that is loaded from the GOT too, bound by opcodes.
OpenLinks == {L("arm64", "execute", Calls \cup {"chains", "owngot", "gotcall", "tie"}),
              L("x86-64", "execute", {"call", "call2", "gotcall"})}
MCLinkOf(l) == World(l)
=============================================================================
