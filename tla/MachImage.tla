------------------------------ MODULE MachImage ------------------------------
(***************************************************************************)
(* The Mach-O passes between symbol resolution and layout (src/macho/      *)
(* main.cc, arch-*.cc), and the parts of the output they decide: the       *)
(* internal file with the linker's own symbols, visibility, unresolved     *)
(* symbols claimed by tasks that race, imports, the GOT, stub and thread   *)
(* pointer slots, the chunks and their order.                              *)
(*                                                                         *)
(* A name is a sequence of numbers, for its characters. A link is a record *)
(* of the options and of what reading and resolving the inputs has left:   *)
(*   objs     object files: id, syms, live subsections (subsecs), debug,   *)
(*            cies, fdes, init_functions, data_in_code                     *)
(*   dylibs   libraries: id, dylib_idx, reexported, install_name, syms     *)
(*   subsecs  per subsection its section, size, p2align, rels, unwind      *)
(*   syms     per name its owner ("" if none), subsection, value, scope    *)
(* Sizes are in bytes, as in the file format; pages, 32-bit and 64-bit     *)
(* words are smaller than they are (PageSize, Mod32, ...).                 *)
(***************************************************************************)
EXTENDS Integers, Sequences, FiniteSets, SequencesExt, FiniteSetsExt, Functions

CONSTANTS
  Links, LinkOf(_),
  PageSize,     \* E::page_size, per architecture
  Mod32,        \* 2^32
  Word          \* sizeof(Word<E>)

ASSUME ImageAssumption == /\ \A a \in {"arm64", "x86-64"} : PageSize[a] \in Nat \ {0}
                          /\ Mod32 \in Nat \ {0} /\ Word \in Nat \ {0}

VARIABLES
  link,         \* options and inputs
  pc,           \* the pass that is next
  work,         \* what the tasks of a parallel loop still have to do
  sym,          \* Symbol, by name
  subs,         \* Subsection, by id
  internal,     \* ctx.internal_obj: its syms, subsecs, and msgSend symbols
  slots         \* got.syms, stubs.syms, thread_ptrs.syms

Arm == link.arch = "arm64"
stub_size == IF Arm THEN 12 ELSE 6
stub_helper_hdr_size == IF Arm THEN 24 ELSE 16
stub_helper_size == IF Arm THEN 12 ELSE 10
objc_stub_size == IF Arm THEN 32 ELSE 16
page_size == PageSize[link.arch]
align_to(n, a) == ((n + a - 1) \div a) * a

-----------------------------------------------------------------------------
(* Names, files and symbols. *)
Before(a, b) ==
  \E n \in 0..Len(a) :
    /\ n <= Len(b) /\ SubSeq(a, 1, n) = SubSeq(b, 1, n)
    /\ IF n = Len(a) THEN n < Len(b) ELSE n < Len(b) /\ a[n + 1] < b[n + 1]
ByName(names) == SortSeq(names, Before)
Enumerate(S) == FoldSet(LAMBDA x, acc : Append(acc, x), <<>>, S)

\* The linker's own symbols and the ones that it calls.
dyld_private == <<90, 1>>
dso_handle == <<90, 2>>
mh_header == <<90, 3>>
objc_msgSend == <<91, 1>>
dyld_stub_binder == <<91, 2>>

Internal == "internal"
ObjIds == [i \in DOMAIN link.objs |-> link.objs[i].id] \o <<Internal>>
DylibIds == [i \in DOMAIN link.dylibs |-> link.dylibs[i].id]
ObjOf(f) == CHOOSE o \in Range(link.objs) : o.id = f
DylibOf(f) == CHOOSE d \in Range(link.dylibs) : d.id = f
is_dylib(f) == f \in Range(DylibIds)
syms_of(f) == IF f = Internal THEN internal.syms ELSE IF is_dylib(f) THEN DylibOf(f).syms ELSE ObjOf(f).syms
subsecs_of(f) == IF f = Internal THEN internal.subsecs ELSE ObjOf(f).subsecs
kind_of(s) == link.syms[s].kind

NewSymbol(d) ==
  [file |-> d.file, subsec |-> d.subsec, value |-> d.value, visibility |-> d.visibility, is_weak |-> d.is_weak,
   is_abs |-> d.is_abs, is_tlv |-> d.is_tlv, is_imported |-> FALSE, is_exported |-> FALSE, flags |-> {},
   got_idx |-> -1, stub_idx |-> -1, tlv_idx |-> -1, output_symtab_idx |-> -1]

ImageInit ==
  /\ \E l \in Links : link = LinkOf(l)
  /\ pc = "internal"
  /\ work = {}
  /\ sym = [s \in DOMAIN link.syms |-> NewSymbol(link.syms[s])]
  /\ subs = link.subsecs
  /\ internal = [syms |-> <<>>, subsecs |-> <<>>, msgsend |-> <<>>, claimed |-> <<>>]
  /\ slots = [got |-> <<>>, stubs |-> <<>>, thread_ptrs |-> <<>>]

\* create_internal_file: the linker's own symbols, and segment$start$ and the
\* like that nobody defines.
start_stop_symbols == {s \in DOMAIN sym : kind_of(s).type \in {"segment", "section"} /\ sym[s].file = ""}
CreateInternalFile ==
  /\ pc = "internal"
  /\ LET added == <<dyld_private, dso_handle, mh_header>> \o ByName(Enumerate(start_stop_symbols)) IN
     /\ internal' = [internal EXCEPT !.syms = added]
     /\ sym' = [s \in DOMAIN sym |->
                  IF s \notin Range(added) THEN sym[s]
                  ELSE IF s = mh_header /\ link.output_type = "execute"
                  THEN [sym[s] EXCEPT !.file = Internal, !.visibility = "global", !.is_exported = TRUE,
                                      !.value = link.pagezero_size]
                  ELSE [sym[s] EXCEPT !.file = Internal]]
  /\ pc' = "exports"
  /\ UNCHANGED <<link, work, subs, slots>>

\* handle_exported_symbols_list, then handle_unexported_symbols_list.
exported_scope(s, v) ==
  IF link.exported_symbols_list = {} \/ v = "local" THEN v
  ELSE IF s \in link.exported_symbols_list THEN "global" ELSE "module"
unexported_scope(s, v) == IF v = "global" /\ s \in link.unexported_symbols_list THEN "module" ELSE v
HandleExportLists ==
  /\ pc = "exports"
  /\ sym' = [s \in DOMAIN sym |->
               IF sym[s].file \in Range(ObjIds)
               THEN [sym[s] EXCEPT !.visibility = unexported_scope(s, exported_scope(s, @))] ELSE sym[s]]
  /\ pc' = "U"
  /\ UNCHANGED <<link, work, subs, internal, slots>>

-----------------------------------------------------------------------------
(* claim_unresolved_symbols. *)
HandleU ==
  /\ pc = "U"
  /\ LET claimed == SelectSeq(link.U, LAMBDA s : sym[s].file = "") IN
     /\ internal' = [internal EXCEPT !.syms = @ \o claimed]
     /\ sym' = [s \in DOMAIN sym |->
                  IF s \notin Range(claimed) THEN sym[s]
                  ELSE [sym[s] EXCEPT !.file = Internal, !.visibility = "global", !.is_imported = TRUE,
                                      !.is_weak = TRUE, !.is_tlv = FALSE, !.subsec = <<>>, !.value = 0]]
  \* Tasks go over the symbols of all objects; those with an owner keep it.
  /\ work' = UNION {{[task |-> f, sym |-> s, step |-> "load"] : s \in {t \in Range(syms_of(f)) : sym'[t].file = ""}} :
                      f \in Range(ObjIds) \ {Internal}}
  /\ pc' = "claim"
  /\ UNCHANGED <<link, subs, slots>>

\* A task loads the owner of a symbol, and when there is none takes it with a
\* compare and exchange, which fails if another task was faster.
LoadOwner(w) ==
  /\ pc = "claim" /\ w.step = "load"
  /\ work' = (work \ {w}) \cup
       IF sym[w.sym].file = "" /\ (kind_of(w.sym).type = "msgsend" \/ ~link.undefined_error)
       THEN {[w EXCEPT !.step = "exchange"]} ELSE {}
  /\ UNCHANGED <<link, pc, sym, subs, internal, slots>>
compare_exchangeAlways(s) == TRUE
compare_exchange(s) == sym[s].file = ""
ClaimSymbol(w) ==
  /\ pc = "claim" /\ w.step = "exchange"
  /\ work' = work \ {w}
  /\ IF ~compare_exchange(w.sym) THEN UNCHANGED <<sym, internal>>
     ELSE /\ sym' = [sym EXCEPT ![w.sym].file = Internal,
                                ![w.sym].is_imported = @ \/ kind_of(w.sym).type # "msgsend"]
          /\ internal' = [internal EXCEPT !.claimed = Append(@, w.sym)]
  /\ UNCHANGED <<link, pc, subs, slots>>

\* add_methname_string and add_selrefs: the selector's name, and a pointer to it.
methname(s) ==
  [seg |-> "__TEXT", sect |-> "__objc_methname", type |-> "cstring", code |-> FALSE, input_addr |-> 0,
   input_size |-> Len(s) + 1, p2align |-> 0, alive |-> TRUE, rels |-> <<>>, unwind |-> <<>>]
selref(s) ==
  [seg |-> "__DATA", sect |-> "__objc_selrefs", type |-> "literal_pointers", code |-> FALSE, input_addr |-> 0,
   input_size |-> Word, p2align |-> 3, alive |-> TRUE, unwind |-> <<>>,
   rels |-> <<[type |-> "UNSIGNED", offset |-> 0, size |-> Word, scale |-> 0, sym |-> <<>>,
               subsec |-> <<"methname", s>>, addend |-> 0, is_subtracted |-> FALSE]>>]
\* The claimed symbols, by name: _objc_msgSend$ ones get a stub and its data.
FinishClaims ==
  /\ pc = "claim" /\ work = {}
  /\ LET msgs == ByName(SelectSeq(internal.claimed, LAMBDA s : kind_of(s).type = "msgsend"))
         others == ByName(SelectSeq(internal.claimed, LAMBDA s : kind_of(s).type # "msgsend"))
         names == {<<"methname", s>> : s \in Range(msgs)}
         refs == {<<"selref", s>> : s \in Range(msgs)} IN
     /\ internal' = [internal EXCEPT !.syms = @ \o msgs \o others, !.msgsend = msgs,
                       !.subsecs = FoldLeft(LAMBDA acc, s : acc \o <<<<"methname", s>>, <<"selref", s>>>>, <<>>, msgs)]
     /\ subs' = [x \in DOMAIN subs \cup names \cup refs |->
                   IF x \in names THEN methname(x[2]) ELSE IF x \in refs THEN selref(x[2]) ELSE subs[x]]
  /\ pc' = "chunks"
  /\ UNCHANGED <<link, work, sym, slots>>

-----------------------------------------------------------------------------
(* compute_import_export and scan_relocations. *)
used_by_objs(s) == \E f \in Range(ObjIds) : s \in Range(syms_of(f))
import_export(s, x) ==
  LET own == x.file \in Range(ObjIds) /\ s \in Range(syms_of(x.file)) /\ x.visibility = "global"
      by_objs == used_by_objs(s) /\ x.visibility = "global"
      by_dylib == \E d \in Range(DylibIds) : s \in Range(syms_of(d)) IN
  [x EXCEPT
     !.is_exported = @ \/ (own /\ link.output_type # "execute")
                       \/ (by_dylib /\ x.file # "" /\ ~is_dylib(x.file) /\ x.visibility = "global"),
     !.is_imported = @ \/ (own /\ link.output_type # "execute" /\ link.flat_namespace)
                       \/ (by_objs /\ is_dylib(x.file))]
\* Symbols that only the linker's own sections refer to.
synthetic_imports == (IF internal.msgsend # <<>> THEN {objc_msgSend} ELSE {})
                     \cup (IF ~link.fixup_chains THEN {dyld_stub_binder} ELSE {})
ComputeImportExport ==
  /\ pc = "imports"
  /\ sym' = [s \in DOMAIN sym |->
               LET x == import_export(s, sym[s]) IN
               IF s \in synthetic_imports /\ is_dylib(x.file)
               THEN [x EXCEPT !.is_imported = TRUE, !.flags = @ \cup {"GOT"}] ELSE x]
  /\ work' = Range(ObjIds)
  /\ pc' = "scan"
  /\ UNCHANGED <<link, subs, internal, slots>>

is_tlv_reloc(r) == r.type \in {"TLVP_LOAD_PAGE21", "TLVP_LOAD_PAGEOFF12", "TLV"}
\* What Subsection::scan_relocations asks for a relocation.
needs(r) ==
  IF r.type \in {"BRANCH26", "BRANCH"} THEN (IF sym[r.sym].is_imported THEN {"STUB"} ELSE {})
  ELSE IF r.type \in {"GOT_LOAD_PAGE21", "GOT_LOAD_PAGEOFF12", "POINTER_TO_GOT", "GOT", "GOT_LOAD"} THEN {"GOT"}
  ELSE IF is_tlv_reloc(r) THEN {"THREAD_PTR"} ELSE {}
\* A thread-local variable must be referred to as one, and nothing else may.
rels_of(f) == UNION {Range(subs[x].rels) : x \in Range(subsecs_of(f))}
scan_error(f) == \E r \in rels_of(f) : r.sym # <<>> /\ sym[r.sym].file # "" /\ is_tlv_reloc(r) # sym[r.sym].is_tlv
rels_to(f, s) == {r \in rels_of(f) : r.sym = s}
personalities_of(f) ==
  {u.personality : u \in UNION {Range(subs[x].unwind) : x \in Range(subsecs_of(f))}}
  \cup (IF f = Internal THEN {} ELSE {c.personality : c \in Range(ObjOf(f).cies)})
ScanRelocations(f) ==
  /\ pc = "scan" /\ f \in work
  /\ sym' = [s \in DOMAIN sym |->
               [sym[s] EXCEPT !.flags = @ \cup (IF sym[s].file = "" THEN {} ELSE UNION {needs(r) : r \in rels_to(f, s)})
                                          \cup (IF s \in personalities_of(f) THEN {"GOT"} ELSE {})]]
  /\ work' = work \ {f}
  /\ UNCHANGED <<link, pc, subs, internal, slots>>

\* The slots, in the order of files and of their symbols. A stub that is not
\* lazy loads from the GOT.
flagged(f) == SelectSeq(syms_of(f), LAMBDA s : sym[s].file = f /\ sym[s].flags # {})
AddTo(q, s, cond) == IF cond /\ s \notin Range(q) THEN Append(q, s) ELSE q
eager_stubs == link.bind_at_load \/ link.fixup_chains
add_slots(acc, s) ==
  LET fl == sym[s].flags IN
  [got |-> AddTo(acc.got, s, "GOT" \in fl \/ ("STUB" \in fl /\ eager_stubs)),
   stubs |-> AddTo(acc.stubs, s, "STUB" \in fl),
   thread_ptrs |-> AddTo(acc.thread_ptrs, s, "THREAD_PTR" \in fl)]
Index(q, s) == IF s \in Range(q) THEN (CHOOSE i \in DOMAIN q : q[i] = s) - 1 ELSE -1
AssignSlots ==
  /\ pc = "scan" /\ work = {}
  /\ LET new == FoldLeft(LAMBDA acc, f : FoldLeft(add_slots, acc, flagged(f)), slots, ObjIds \o DylibIds) IN
     /\ slots' = new
     /\ sym' = [s \in DOMAIN sym |->
                  [sym[s] EXCEPT !.flags = {}, !.got_idx = Index(new.got, s), !.stub_idx = Index(new.stubs, s),
                                 !.tlv_idx = Index(new.thread_ptrs, s)]]
  /\ pc' = "layout"
  /\ UNCHANGED <<link, work, subs, internal>>
=============================================================================
