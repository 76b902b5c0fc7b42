----------------------------- MODULE ElfResolve -----------------------------
(***************************************************************************)
(* From input files to the set of sections and symbols of an ELF link      *)
(* (src/elf/passes.cc, input-files.cc, gc-sections.cc, lto-unix.cc): which *)
(* archive members and DSOs take part, which file owns each symbol, which  *)
(* copy of each COMDAT group survives, link-time optimisation and the      *)
(* second resolution after it, versions, imports and exports, garbage      *)
(* collection, and the claiming of what stays undefined.                   *)
(*                                                                         *)
(* Each parallel loop of the code is a phase in which any file may take    *)
(* its next step; a step is what the code does to one symbol under its     *)
(* lock, or to one file where no two files touch the same data.            *)
(***************************************************************************)
EXTENDS Integers, Sequences, FiniteSets, FiniteSetsExt, SequencesExt

CONSTANTS
  Links,      \* names of the links to try
  LinkOf(_)   \* the link of a name: its options and input files

(***************************************************************************)
(* An input file is a record                                               *)
(*   kind     "obj", "member" (of an archive or between --start-lib and    *)
(*            --end-lib) or "dso"                                          *)
(*   ir       an IR file of the compiler's plugin                          *)
(*   native   written by the plugin: enters the link after do_lto          *)
(*   archive  the archive it is a member of, or ""                         *)
(*   needed   given after --as-needed (a DSO)                              *)
(*   at       its place on the command line                                *)
(*   syms     its global symbols, records with                             *)
(*            name, ver ("" or the text after an at sign), default (two    *)
(*            at signs), def ("strong", "weak", "common", "abs", "undef",  *)
(*            "wundef"), vis, sec (section; for a common symbol the one    *)
(*            convert_common_symbols makes)                                *)
(*   secs     its sections, [name |-> [alloc, keep, eh, rels, locals,      *)
(*            fde]]: rels and fde are the keys referred to by the section  *)
(*            and by the .eh_frame records that describe it, locals the    *)
(*            sections it refers to through local symbols                  *)
(*   groups   its COMDAT groups, [signature |-> set of sections]           *)
(*   cies     the keys its CIEs refer to                                   *)
(* A key is <<name, version>>: the string by which get_symbol interns.     *)
(***************************************************************************)
\* The rank of a definition is its class in the bits from 24 up and the
\* priority of its file below. FreeGroup stands for the all-ones word of a
\* COMDAT group without an owner: what counts is that no priority reaches it.
RankShift == 16777216
FreeGroup == 1073741824

\* ctx.file_priority: plugin output counts from 100, other files from 10000.
PriorityOf(x) == IF x.native THEN 100 + x.at ELSE 10000 + x.at

IsEntry(e) ==
  /\ e.name \in STRING /\ e.ver \in STRING /\ e.default \in BOOLEAN /\ e.sec \in STRING
  /\ e.def \in {"strong", "weak", "common", "abs", "undef", "wundef"}
  /\ e.vis \in {"default", "protected", "hidden", "internal"}

\* Files have priorities of their own, below the bits of the class; the plugin
\* writes plain object files; a section is in one COMDAT group at most, a common
\* symbol's section in none, and only object files have groups.
IsFile(x) ==
  /\ x.kind \in {"obj", "member", "dso"}
  /\ x.ir \in BOOLEAN /\ x.native \in BOOLEAN /\ x.needed \in BOOLEAN
  /\ x.at \in Nat /\ PriorityOf(x) < RankShift
  /\ Len(x.syms) \in Nat /\ DOMAIN x.syms = 1 .. Len(x.syms)
  /\ \A i \in DOMAIN x.syms : IsEntry(x.syms[i])
  /\ x.native => x.kind = "obj" /\ ~x.ir
  /\ x.kind = "dso" \/ x.ir => DOMAIN x.groups = {}
  /\ \A g, h \in DOMAIN x.groups : g # h => x.groups[g] \cap x.groups[h] = {}
  /\ \A i \in DOMAIN x.syms : x.syms[i].def = "common" =>
       \A g \in DOMAIN x.groups : x.syms[i].sec \notin x.groups[g]

\* do_lto runs, and the plugin writes files, when there are IR files.
IsLink(l) ==
  /\ \A f \in DOMAIN l.files : IsFile(l.files[f])
  /\ (\E f \in DOMAIN l.files : l.files[f].native) => \E f \in DOMAIN l.files : l.files[f].ir
  /\ \A f, g \in DOMAIN l.files : f # g => PriorityOf(l.files[f]) # PriorityOf(l.files[g])

ASSUME LinksAssumption == \A l \in Links : IsLink(LinkOf(l))

VARIABLES
  link,       \* the link, fixed by Init
  pc,         \* the pass running
  round,      \* 1, or 2 after link-time optimisation
  objs,       \* ctx.objs, as a set
  dsos,       \* ctx.dsos
  alive,      \* files whose is_alive is set
  pos,        \* entries of each file the running loop has handled
  work,       \* files the running loop is not done with
  pending,    \* sections gc_sections is still to visit
  owner,      \* Symbol::file and sym_idx, per key
  vis,        \* Symbol::visibility
  ver,        \* Symbol::ver_idx
  imported,   \* keys with is_imported
  exported,   \* keys with is_exported
  rebound,    \* entries whose symbol claim_unresolved_symbols replaced
  groups,     \* ComdatGroup::owner: a priority, per signature
  dead,       \* sections killed
  converted,  \* common symbols that got a section
  dropped,    \* entries the plugin left out of its output
  visited     \* sections with is_visited

vars == <<link, pc, round, objs, dsos, alive, pos, work, pending, owner, vis, ver, imported,
          exported, rebound, groups, dead, converted, dropped, visited>>

Files == DOMAIN link.files
File(f) == link.files[f]
IsDso(f) == File(f).kind = "dso"
IsUndef(e) == e.def \in {"undef", "wundef"}
IsWeak(e) == e.def \in {"weak", "wundef"}

priority(f) == PriorityOf(File(f))

\* ObjectFile::initialize_symbols, SharedFile::parse: foo@@V is interned as foo.
BaseKey(e) == IF e.ver = "" \/ e.default THEN <<e.name, "">> ELSE <<e.name, e.ver>>
has_symver(f, e) == ~IsDso(f) /\ ~File(f).ir /\ e.ver # ""

\* apply_exclude_libs: the symbols of the archives named become hidden.
exclude_libs(f) == File(f).archive # "" /\ link.exclude_libs \cap {"ALL", File(f).archive} # {}

\* insert_symbol: an undefined __real_foo means foo, an undefined foo means
\* __wrap_foo, when --wrap=foo is given.
insert_symbol(e) ==
  LET real == {w \in link.wrap : e.name = "__real_" \o w}
      k == BaseKey(e) IN
  IF ~IsUndef(e) THEN k
  ELSE IF real # {} THEN <<CHOOSE w \in real : TRUE, k[2]>>
  ELSE IF k[2] = "" /\ k[1] \in link.wrap THEN <<"__wrap_" \o k[1], "">>
  ELSE k

\* read_lto_object interns the plugin's name as it is; to_elf_sym makes every
\* definition of an IR file absolute.
lto_symbol(e) == <<e.name, e.ver>>
is_abs(f, e) == e.def = "abs" \/ (File(f).ir /\ e.def \in {"strong", "weak"})

Entries(f) == DOMAIN File(f).syms
Entry(f, i) == File(f).syms[i]
KeyOf(f, i) == CASE File(f).ir -> lto_symbol(Entry(f, i))
                 [] IsDso(f) -> BaseKey(Entry(f, i))
                 [] OTHER -> insert_symbol(Entry(f, i))
Referred(f) == File(f).cies \cup
  UNION {File(f).secs[s].rels \cup File(f).secs[s].fde : s \in DOMAIN File(f).secs}
Keys == (UNION {{KeyOf(f, i) : i \in Entries(f)} : f \in Files})
        \cup {<<n, "">> : n \in link.roots \cup UNION {
               {Entry(f, i).name : i \in Entries(f)} : f \in Files}}
        \cup UNION {Referred(f) : f \in Files}
Signatures == UNION {DOMAIN File(f).groups : f \in Files}
Sections == UNION {{f} \X DOMAIN File(f).secs : f \in Files}
Sec(s) == File(s[1]).secs[s[2]]

NoOwner == [file |-> "", idx |-> 0]
Owned(k) == owner[k] # NoOwner
EsymOf(k) == Entry(owner[k].file, owner[k].idx)

\* Symbol::get_input_section.
SectionOf(k) ==
  IF \/ ~Owned(k) \/ IsDso(owner[k].file) \/ IsUndef(EsymOf(k))
     \/ is_abs(owner[k].file, EsymOf(k)) THEN {}
  ELSE IF EsymOf(k).def = "common" /\ <<owner[k].file, owner[k].idx>> \notin converted THEN {}
  ELSE {<<owner[k].file, EsymOf(k).sec>>}
-----------------------------------------------------------------------------
\* get_rank of an entry: a class, then the file's priority.
get_rank(f, e, is_in_archive) ==
  LET class == CASE e.def = "common" -> IF is_in_archive THEN 6 ELSE 5
                 [] e.def # "common" /\ (IsDso(f) \/ is_in_archive) -> IF IsWeak(e) THEN 4 ELSE 3
                 [] OTHER -> IF IsWeak(e) THEN 2 ELSE 1
  IN class * RankShift + priority(f)

\* get_rank of a symbol: that of its owner, or worse than any.
symbol_rank(k) ==
  IF ~Owned(k) THEN 7 * RankShift
  ELSE get_rank(owner[k].file, EsymOf(k), owner[k].file \notin alive)

\* Mutant of Eligible: the section of a definition is not looked at.
EligibleDiscarded(f, e) == ~IsUndef(e)

\* A definition whose section was discarded cannot be chosen.
Eligible(f, e) ==
  /\ ~IsUndef(e)
  /\ IsDso(f) \/ is_abs(f, e) \/ e.def = "common" \/ <<f, e.sec>> \notin dead

\* Mutant of resolve_entry: the first definition to reach the symbol stays.
resolve_entryFirst(f, i) ==
  LET k == KeyOf(f, i) IN
  IF <<f, i>> \notin dropped /\ Eligible(f, Entry(f, i)) /\ ~Owned(k)
  THEN /\ owner' = [owner EXCEPT ![k] = [file |-> f, idx |-> i]]
       /\ ver' = [ver EXCEPT ![k] = IF IsDso(f) THEN Entry(f, i).ver ELSE link.default_version]
  ELSE UNCHANGED <<owner, ver>>

\* What resolve_symbols does to the symbol of one entry, under its lock.
resolve_entry(f, i) ==
  LET e == Entry(f, i)
      k == KeyOf(f, i) IN
  IF /\ <<f, i>> \notin dropped
     /\ Eligible(f, e)
     /\ get_rank(f, e, ~IsDso(f) /\ f \notin alive) < symbol_rank(k)
  THEN /\ owner' = [owner EXCEPT ![k] = [file |-> f, idx |-> i]]
       /\ ver' = [ver EXCEPT ![k] = IF IsDso(f) THEN e.ver ELSE link.default_version]
  ELSE UNCHANGED <<owner, ver>>

-----------------------------------------------------------------------------
(***************************************************************************)
(* The passes. A pass is a parallel loop over the objects or the DSOs, by  *)
(* entry or by file, or a step of the main thread. for_each_file runs the  *)
(* objects, then the DSOs.                                                 *)
(***************************************************************************)
OverDsos == {"register_dsos", "clear_dsos", "resolve_dsos", "export_dsos"}
ByEntry == {"register_objs", "register_dsos", "resolve_objs", "resolve_dsos", "claim"}
ByFile == {"clear_objs", "clear_dsos", "comdat_own", "comdat_kill", "convert", "script",
           "parse_version", "export_dsos", "export_objs"}

\* Files with a global symbol, and so with a turn in a loop over entries.
WithSymbols(fs) == {f \in fs : Len(File(f).syms) > 0}

\* Starting pass p with the lists as they are after the step.
Enter(p) ==
  /\ pc' = p
  /\ pos' = [f \in Files |-> 0]
  /\ work' = CASE p \in OverDsos \cap ByFile -> dsos'
               [] p \in OverDsos \cap ByEntry -> WithSymbols(dsos')
               [] p \in ByFile \ OverDsos -> objs'
               [] p \in ByEntry \ OverDsos -> WithSymbols(objs')
               [] p \in {"mark", "mark_lto"} -> WithSymbols(alive' \cap (objs' \cup dsos'))
               [] OTHER -> {}

\* A link with IR files resolves its symbols once for the plugin and again after it.
ForLto == round = 1 /\ \E f \in Files : File(f).ir
NextPass ==
  [register_objs |-> "register_dsos",
   register_dsos |-> "mark_roots",
   mark          |-> "clear_objs",
   clear_objs    |-> "clear_dsos",
   clear_dsos    |-> "erase",
   comdat_own    |-> "comdat_kill",
   comdat_kill   |-> "resolve_objs",
   resolve_objs  |-> "resolve_dsos",
   resolve_dsos  |-> IF ForLto THEN "mark_roots_lto" ELSE "kill_eh_frame",
   mark_lto      |-> "script",
   convert       |-> "script",
   script        |-> IF link.shared THEN "parse_version" ELSE "export_dsos",
   parse_version |-> "export_objs",
   export_dsos   |-> "export_objs",
   export_objs   |-> IF ForLto THEN "do_lto"
                     ELSE IF link.gc_sections THEN "gc_roots" ELSE "duplicates",
   claim         |-> "finish"]

EndLoop ==
  /\ pc \in DOMAIN NextPass
  /\ work = {}
  /\ UNCHANGED <<link, round, objs, dsos, alive, pending, owner, vis, ver, imported, exported,
                 rebound, groups, dead, converted, dropped, visited>>
  /\ Enter(NextPass[pc])

\* File f is done with one more entry, or with all of them.
NextEntry(f) ==
  /\ pos' = [pos EXCEPT ![f] = @ + 1]
  /\ work' = IF pos'[f] >= Len(File(f).syms) THEN work \ {f} ELSE work
LeaveLoop(f) == work' = work \ {f} /\ UNCHANGED pos

\* InputFile::resolve_symbols, one entry, in either resolution.
ResolveSymbol(f) ==
  /\ pc \in {"register_objs", "register_dsos", "resolve_objs", "resolve_dsos"}
  /\ f \in work
  /\ resolve_entry(f, pos[f] + 1)
  /\ NextEntry(f)
  /\ UNCHANGED <<link, pc, round, objs, dsos, alive, pending, vis, imported, exported, rebound,
                 groups, dead, converted, dropped, visited>>

-----------------------------------------------------------------------------
\* mark_live_objects: the files named by -u and --require-defined, then all live ones.
MarkRoots ==
  /\ pc \in {"mark_roots", "mark_roots_lto"}
  /\ alive' = alive \cup {owner[k].file : k \in {k \in Keys : Owned(k) /\ k[2] = "" /\ k[1] \in link.roots}}
  /\ UNCHANGED <<link, round, objs, dsos, pending, owner, vis, ver, imported, exported, rebound,
                 groups, dead, converted, dropped, visited>>
  /\ Enter(IF pc = "mark_roots" THEN "mark" ELSE "mark_lto")

\* ObjectFile::merge_visibility: an atomic minimum; internal counts as hidden.
Strictness == [hidden |-> 1, protected |-> 2, default |-> 3]
merge_visibility(old, v) ==
  LET new == IF v = "internal" THEN "hidden" ELSE v IN
  IF Strictness[new] < Strictness[old] THEN new ELSE old

\* Mutant of keeps: a weak reference extracts too.
keepsWeak(f, i) == Owned(KeyOf(f, i)) /\ IsUndef(Entry(f, i))

\* Whether the entry makes mark_live_objects keep the file that owns its symbol.
keeps(f, i) ==
  LET e == Entry(f, i)
      k == KeyOf(f, i) IN
  /\ Owned(k)
  /\ IF IsDso(f) THEN IsUndef(e)
     ELSE e.def = "undef" \/ (e.def = "common" /\ EsymOf(k).def # "common")

\* mark_live_objects, one entry: merge its visibility, keep the file it needs.
MarkSymbol(f) ==
  /\ pc \in {"mark", "mark_lto"}
  /\ f \in work
  /\ LET i == pos[f] + 1
         e == Entry(f, i)
         k == KeyOf(f, i)
         found == IF <<f, i>> \notin dropped /\ keeps(f, i) THEN {owner[k].file} \ alive ELSE {}
     IN /\ vis' = IF IsDso(f) \/ <<f, i>> \in dropped THEN vis
                  ELSE [vis EXCEPT ![k] = merge_visibility(@,
                          IF ~IsUndef(e) /\ exclude_libs(f) THEN "hidden" ELSE e.vis)]
        /\ alive' = alive \cup found
        /\ pos' = [pos EXCEPT ![f] = i]
        /\ work' = (IF i = Len(File(f).syms) THEN work \ {f} ELSE work) \cup found
  /\ UNCHANGED <<link, pc, round, objs, dsos, pending, owner, ver, imported, exported, rebound,
                 groups, dead, converted, dropped, visited>>

\* InputFile::clear_symbols on the files in fs.
clear_symbols(fs) ==
  LET mine == {k \in Keys : owner[k].file \in fs} IN
  /\ owner' = [k \in Keys |-> IF k \in mine THEN NoOwner ELSE owner[k]]
  /\ ver' = [k \in Keys |-> IF k \in mine THEN "" ELSE ver[k]]
  /\ imported' = imported \ mine
  /\ exported' = exported \ mine

ClearSymbols(f) ==
  /\ pc \in {"clear_objs", "clear_dsos"}
  /\ f \in work
  /\ clear_symbols({f})
  /\ LeaveLoop(f)
  /\ UNCHANGED <<link, pc, round, objs, dsos, alive, pending, vis, rebound, groups, dead,
                 converted, dropped, visited>>

\* Files that are not alive leave the lists.
EraseUnused ==
  /\ pc = "erase"
  /\ objs' = objs \cap alive
  /\ dsos' = dsos \cap alive
  /\ UNCHANGED <<link, round, alive, pending, owner, vis, ver, imported, exported, rebound,
                 groups, dead, converted, dropped, visited>>
  /\ Enter("comdat_own")

-----------------------------------------------------------------------------
\* A section is gone from the plugin's output with the symbol in it.
GroupsOf(f) == {g \in DOMAIN File(f).groups :
                  \A i \in Entries(f) : <<f, i>> \in dropped => Entry(f, i).sec \notin File(f).groups[g]}

\* eliminate_comdats: the file of the lowest priority value owns a group ...
OwnGroups(f) ==
  /\ pc = "comdat_own"
  /\ f \in work
  /\ groups' = [g \in Signatures |-> IF g \in GroupsOf(f)
                                     THEN Min({groups[g], priority(f)}) ELSE groups[g]]
  /\ LeaveLoop(f)
  /\ UNCHANGED <<link, pc, round, objs, dsos, alive, pending, owner, vis, ver, imported,
                 exported, rebound, dead, converted, dropped, visited>>

\* ... and the members of every other copy are killed.
KillGroups(f) ==
  /\ pc = "comdat_kill"
  /\ f \in work
  /\ dead' = dead \cup UNION {{f} \X File(f).groups[g] :
                               g \in {g \in GroupsOf(f) : groups[g] # priority(f)}}
  /\ LeaveLoop(f)
  /\ UNCHANGED <<link, pc, round, objs, dsos, alive, pending, owner, vis, ver, imported,
                 exported, rebound, groups, converted, dropped, visited>>

-----------------------------------------------------------------------------
\* do_lto sets referenced_by_regular_obj on the IR symbols a regular object names.
referenced_by_regular_obj(k) ==
  \/ \E f \in objs : ~File(f).ir /\ \E i \in Entries(f) : KeyOf(f, i) = k
  \/ \E w \in link.wrap : k[1] \in {w, "__wrap_" \o w, "__real_" \o w}

\* get_resolution: what the plugin is told of an IR definition.
get_resolution(k) ==
  CASE ~Owned(k) -> "UNDEF"
    [] Owned(k) /\ File(owner[k].file).ir ->
         IF referenced_by_regular_obj(k) THEN "PREVAILING_DEF"
         ELSE IF k \in exported THEN "PREVAILING_DEF_IRONLY_EXP"
         ELSE "PREVAILING_DEF_IRONLY"
    [] OTHER -> "PREEMPTED"

\* What the plugin may leave out of its output: definitions that only IR files
\* use. What another file defines it must leave out.
PluginMayDrop(d) ==
  \A f \in {f \in Files : File(f).native} : \A i \in Entries(f) :
    LET r == get_resolution(KeyOf(f, i)) IN
    ~IsUndef(Entry(f, i)) =>
      /\ <<f, i>> \in d => r \notin {"PREVAILING_DEF", "PREVAILING_DEF_IRONLY_EXP"}
      /\ r = "PREEMPTED" => <<f, i>> \in d

\* do_lto, then the original lists plus the plugin's output, symbols cleared,
\* IR files removed, and name resolution from scratch.
DoLto ==
  /\ pc = "do_lto"
  /\ \E d \in SUBSET UNION {{f} \X {i \in Entries(f) : ~IsUndef(Entry(f, i))} :
                             f \in {f \in Files : File(f).native}} :
       PluginMayDrop(d) /\ dropped' = d
  /\ round' = 2
  /\ clear_symbols(Files)
  /\ objs' = {f \in Files : ~IsDso(f) /\ ~File(f).ir}
  /\ dsos' = {f \in Files : IsDso(f)}
  /\ alive' = (alive \cup {f \in Files : File(f).native}) \ {f \in Files : File(f).ir}
  /\ UNCHANGED <<link, pending, vis, rebound, groups, dead, converted, visited>>
  /\ Enter("register_objs")

\* kill_eh_frame_sections.
KillEhFrame ==
  /\ pc = "kill_eh_frame"
  /\ dead' = dead \cup {s \in Sections : s[1] \in objs /\ Sec(s).eh}
  /\ UNCHANGED <<link, round, objs, dsos, alive, pending, owner, vis, ver, imported, exported,
                 rebound, groups, converted, dropped, visited>>
  /\ Enter("convert")

\* ObjectFile::convert_common_symbols.
ConvertCommon(f) ==
  /\ pc = "convert"
  /\ f \in work
  /\ LET mine == {i \in Entries(f) : /\ Entry(f, i).def = "common"
                                     /\ <<f, i>> \notin dropped
                                     /\ owner[KeyOf(f, i)].file = f} IN
     /\ converted' = converted \cup ({f} \X mine)
     /\ owner' = [k \in Keys |-> IF \E i \in mine : KeyOf(f, i) = k
                   THEN [file |-> f, idx |-> CHOOSE i \in mine : KeyOf(f, i) = k] ELSE owner[k]]
     /\ ver' = [k \in Keys |-> IF \E i \in mine : KeyOf(f, i) = k
                 THEN link.default_version ELSE ver[k]]
  /\ LeaveLoop(f)
  /\ UNCHANGED <<link, pc, round, objs, dsos, alive, pending, vis, imported, exported, rebound,
                 groups, dead, dropped, visited>>

-----------------------------------------------------------------------------
\* apply_version_script: of simple patterns the last wins, else the first.
is_simple == \A j \in DOMAIN link.patterns : ~link.patterns[j].glob
script_version(k) ==
  LET hits == {j \in DOMAIN link.patterns : k[1] \in link.patterns[j].names
                                            /\ (is_simple => k[2] = "")} IN
  IF hits = {} THEN ver[k]
  ELSE link.patterns[IF is_simple THEN Max(hits) ELSE Min(hits)].ver

ApplyVersionScript(f) ==
  /\ pc = "script"
  /\ f \in work
  /\ ver' = [k \in Keys |-> IF owner[k].file = f THEN script_version(k) ELSE ver[k]]
  /\ LeaveLoop(f)
  /\ UNCHANGED <<link, pc, round, objs, dsos, alive, pending, owner, vis, imported, exported,
                 rebound, groups, dead, converted, dropped, visited>>

\* parse_symbol_version: foo@V gets version V, hidden unless default; an
\* unversioned foo of the same file no longer counts as a definition of foo.
Hidden(v) == "hidden " \o v
parse_symbol_version(f, old) ==
  LET mine == {i \in Entries(f) : /\ <<f, i>> \notin dropped
                                  /\ has_symver(f, Entry(f, i))
                                  /\ owner[KeyOf(f, i)].file = f}
      new == [k \in Keys |->
               IF \E i \in mine : KeyOf(f, i) = k
               THEN LET e == Entry(f, CHOOSE i \in mine : KeyOf(f, i) = k) IN
                    IF e.default THEN e.ver ELSE Hidden(e.ver)
               ELSE old[k]]
      hides(i) == LET e == Entry(f, i)
                      k2 == <<e.name, "">> IN
                  /\ owner[k2].file = f
                  /\ ~has_symver(f, EsymOf(k2))
                  /\ new[k2] \in {link.default_version, e.ver, Hidden(e.ver)}
  IN [k \in Keys |-> IF \E i \in mine : hides(i) /\ k = <<Entry(f, i).name, "">>
                     THEN "local" ELSE new[k]]

ParseSymbolVersion(f) ==
  /\ pc = "parse_version"
  /\ f \in work
  /\ ver' = parse_symbol_version(f, ver)
  /\ LeaveLoop(f)
  /\ UNCHANGED <<link, pc, round, objs, dsos, alive, pending, owner, vis, imported, exported,
                 rebound, groups, dead, converted, dropped, visited>>

\* compute_import_export, the loop over DSOs: an executable exports what they name.
ExportToDso(f) ==
  /\ pc = "export_dsos"
  /\ f \in work
  /\ exported' = exported \cup
       {k \in {KeyOf(f, i) : i \in Entries(f)} :
          /\ Owned(k) /\ ~IsDso(owner[k].file) /\ vis[k] # "hidden"
          /\ ver[k] # "local" \/ ~link.default_from_script}
  /\ LeaveLoop(f)
  /\ UNCHANGED <<link, pc, round, objs, dsos, alive, pending, owner, vis, ver, imported, rebound,
                 groups, dead, converted, dropped, visited>>

\* compute_import_export, the loop over objects.
compute_import_export(f) ==
  LET named == {k \in {KeyOf(f, i) : i \in {i \in Entries(f) : <<f, i>> \notin dropped}} :
                  Owned(k) /\ vis[k] # "hidden" /\ ver[k] # "local"}
      mine == {k \in named : owner[k].file = f}
      fromDso == {k \in named : IsDso(owner[k].file) /\ EsymOf(k).def # "abs"} IN
  /\ exported' = exported \cup mine
  /\ imported' = imported \cup fromDso \cup
       (IF link.shared /\ ~link.Bsymbolic THEN {k \in mine : vis[k] # "protected"} ELSE {})

ImportExport(f) ==
  /\ pc = "export_objs"
  /\ f \in work
  /\ compute_import_export(f)
  /\ LeaveLoop(f)
  /\ UNCHANGED <<link, pc, round, objs, dsos, alive, pending, owner, vis, ver, rebound, groups,
                 dead, converted, dropped, visited>>

-----------------------------------------------------------------------------
\* Mutant of Targets: .eh_frame records are not followed.
TargetsNoFde(s) ==
  ((UNION {SectionOf(k) : k \in Sec(s).rels}) \cup ({s[1]} \X Sec(s).locals)) \ dead

\* Sections a section refers to: mark_section takes the live ones.
Targets(s) ==
  ((UNION {SectionOf(k) : k \in Sec(s).rels \cup Sec(s).fde}) \cup ({s[1]} \X Sec(s).locals))
  \ dead
LiveSections == {s \in Sections : s[1] \in objs} \ dead

\* collect_root_set: kept sections, exported and root symbols, what CIEs name.
GcRoots ==
  /\ pc = "gc_roots"
  /\ LET nonalloc == {s \in LiveSections : ~Sec(s).alloc}
         named == {k \in Keys : k[2] = "" /\ k[1] \in link.roots \cup {link.entry}}
         roots == {s \in LiveSections : Sec(s).keep} \cup
                  UNION {SectionOf(k) : k \in exported \cup named \cup UNION {File(f).cies : f \in objs}}
     IN /\ pending' = (roots \ dead) \ nonalloc
        /\ visited' = pending' \cup nonalloc
  /\ UNCHANGED <<link, round, objs, dsos, alive, owner, vis, ver, imported, exported, rebound,
                 groups, dead, converted, dropped>>
  /\ Enter("gc_mark")

\* visit: what is met for the first time is visited next, by recursion or by
\* the feeder.
VisitSection(s) ==
  /\ pc = "gc_mark"
  /\ s \in pending
  /\ visited' = visited \cup Targets(s)
  /\ pending' = (pending \ {s}) \cup (Targets(s) \ visited)
  /\ UNCHANGED <<link, pc, round, objs, dsos, alive, pos, work, owner, vis, ver, imported,
                 exported, rebound, groups, dead, converted, dropped>>

\* sweep.
GcSweep ==
  /\ pc = "gc_mark"
  /\ pending = {}
  /\ dead' = dead \cup (LiveSections \ visited)
  /\ UNCHANGED <<link, round, objs, dsos, alive, pending, owner, vis, ver, imported, exported,
                 rebound, groups, converted, dropped, visited>>
  /\ Enter("duplicates")

\* check_duplicate_symbols: a strong definition in a live section lost.
duplicate(f, i) ==
  LET e == Entry(f, i) IN
  /\ <<f, i>> \notin dropped
  /\ e.def \in {"strong", "abs"} /\ Eligible(f, e)
  /\ owner[KeyOf(f, i)].file # f

CheckDuplicates ==
  /\ pc = "duplicates"
  /\ UNCHANGED <<link, round, objs, dsos, alive, pending, owner, vis, ver, imported, exported,
                 rebound, groups, dead, converted, dropped, visited>>
  /\ Enter(IF \E f \in objs : \E i \in Entries(f) : duplicate(f, i) THEN "failed" ELSE "claim")

-----------------------------------------------------------------------------
\* The undefined entry foo@V is served by a DSO whose foo has version V.
served_by_version(f, e) ==
  LET k2 == <<e.name, "">> IN
  /\ has_symver(f, e) /\ ~e.default
  /\ Owned(k2) /\ IsDso(owner[k2].file) /\ ver[k2] = e.ver

\* Whether an unresolved symbol becomes an import or an absolute zero.
becomes_import(k, e) ==
  /\ link.shared /\ vis[k] # "hidden"
  /\ IF e.def = "wundef" THEN link.z_dynamic_undefined_weak ELSE ~link.z_defs

\* Mutant of claim_entry: whoever claims the symbol first keeps it.
claim_entryFirst(f, i) ==
  LET e == Entry(f, i)
      k == KeyOf(f, i) IN
  IF ~IsUndef(e) \/ Owned(k) THEN UNCHANGED <<owner, ver, imported, exported, rebound>>
  ELSE /\ owner' = [owner EXCEPT ![k] = [file |-> f, idx |-> i]]
       /\ imported' = IF becomes_import(k, e) THEN imported \cup {k} ELSE imported \ {k}
       /\ exported' = exported \ {k}
       /\ ver' = [ver EXCEPT ![k] = IF becomes_import(k, e) THEN "" ELSE link.default_version]
       /\ UNCHANGED rebound

\* claim_unresolved_symbols, one entry, under its symbol's lock.
claim_entry(f, i) ==
  LET e == Entry(f, i)
      k == KeyOf(f, i)
      keepOwner == Owned(k) /\ (~IsUndef(EsymOf(k)) \/ priority(owner[k].file) <= priority(f))
  IN
  IF ~IsUndef(e) \/ keepOwner THEN UNCHANGED <<owner, ver, imported, exported, rebound>>
  ELSE IF served_by_version(f, e)
  THEN rebound' = rebound \cup {<<f, i>>} /\ UNCHANGED <<owner, ver, imported, exported>>
  ELSE /\ owner' = [owner EXCEPT ![k] = [file |-> f, idx |-> i]]
       /\ imported' = IF becomes_import(k, e) THEN imported \cup {k} ELSE imported \ {k}
       /\ exported' = exported \ {k}
       /\ ver' = [ver EXCEPT ![k] = IF becomes_import(k, e) THEN "" ELSE link.default_version]
       /\ UNCHANGED rebound

ClaimSymbol(f) ==
  /\ pc = "claim"
  /\ f \in work
  /\ claim_entry(f, pos[f] + 1)
  /\ NextEntry(f)
  /\ UNCHANGED <<link, pc, round, objs, dsos, alive, pending, vis, groups, dead, converted,
                 dropped, visited>>

\* --require-defined.
Finish ==
  /\ pc = "finish"
  /\ UNCHANGED <<link, round, objs, dsos, alive, pending, owner, vis, ver, imported, exported,
                 rebound, groups, dead, converted, dropped, visited>>
  /\ Enter(IF \E n \in link.roots : ~Owned(<<n, "">>) THEN "failed" ELSE "done")

Done == pc \in {"done", "failed"} /\ UNCHANGED vars

-----------------------------------------------------------------------------
\* The constructors of ObjectFile and SharedFile.
initially_alive(f) ==
  IF IsDso(f) THEN ~File(f).needed ELSE File(f).kind = "obj" /\ ~File(f).native

Init ==
  \E l \in Links :
    /\ link = LinkOf(l)
    /\ pc = "register_objs"
    /\ round = 1
    /\ objs = {f \in Files : ~IsDso(f) /\ ~File(f).native}
    /\ dsos = {f \in Files : IsDso(f)}
    /\ alive = {f \in Files : initially_alive(f)}
    /\ pos = [f \in Files |-> 0]
    /\ work = WithSymbols(objs)
    /\ pending = {}
    /\ owner = [k \in Keys |-> NoOwner]
    /\ vis = [k \in Keys |-> "default"]
    /\ ver = [k \in Keys |-> ""]
    /\ imported = {} /\ exported = {} /\ rebound = {}
    /\ groups = [g \in Signatures |-> FreeGroup]
    /\ dead = {} /\ converted = {} /\ dropped = {} /\ visited = {}

Next ==
  \/ EndLoop \/ MarkRoots \/ EraseUnused \/ DoLto \/ KillEhFrame
  \/ GcRoots \/ GcSweep \/ CheckDuplicates \/ Finish \/ Done
  \/ \E f \in work : \/ ResolveSymbol(f) \/ MarkSymbol(f) \/ ClearSymbols(f)
                     \/ OwnGroups(f) \/ KillGroups(f) \/ ConvertCommon(f)
                     \/ ApplyVersionScript(f) \/ ParseSymbolVersion(f)
                     \/ ExportToDso(f) \/ ImportExport(f) \/ ClaimSymbol(f)
  \/ \E s \in pending : VisitSection(s)

Spec == Init /\ [][Next]_vars /\ WF_vars(Next)

-----------------------------------------------------------------------------
Linked == objs \cup dsos
Present(f) == {i \in Entries(f) : <<f, i>> \notin dropped}

\* When both resolutions are over, every symbol that a linked file defines
\* belongs to the definition of the best class and, in the class, to the file
\* given first, in whatever order the files reached the symbol (get_rank,
\* resolve_symbols, clear_symbols).
BestDefinitionOwns ==
  pc = "kill_eh_frame" =>
    \A k \in Keys :
      LET cands == {c \in UNION {{f} \X Present(f) : f \in Linked} :
                      KeyOf(c[1], c[2]) = k /\ Eligible(c[1], Entry(c[1], c[2]))}
          rank(c) == get_rank(c[1], Entry(c[1], c[2]), FALSE)
      IN IF cands = {} THEN ~Owned(k)
         ELSE \E c \in cands : owner[k].file = c[1] /\ \A d \in cands : rank(c) <= rank(d)

\* Of every COMDAT group some linked object has, the members of exactly one
\* copy are left, after a second elimination as after the first, and no symbol
\* belongs to a discarded copy (do_resolve_symbols).
OneCopyPerGroup ==
  pc = "kill_eh_frame" =>
    /\ \A g \in Signatures :
         LET with == {f \in objs : g \in GroupsOf(f)} IN
         with # {} => \E f \in with : /\ ({f} \X File(f).groups[g]) \cap dead = {}
                                      /\ \A h \in with \ {f} : {h} \X File(h).groups[g] \subseteq dead
    /\ \A k \in Keys : SectionOf(k) \cap dead = {}

\* Strong references of linked files are answered whenever some input file
\* other than an IR file has a definition, and an archive member or an
\* as-needed DSO is linked only for a symbol it has and a linked file (an IR
\* file before optimisation), a DSO or an option asks for (mark_live_objects).
Asks(f, k) == \E i \in Present(f) : KeyOf(f, i) = k /\ Entry(f, i).def \in
                (IF IsDso(f) THEN {"undef", "wundef"} ELSE {"undef", "common"})
Defines(f, k) == \E i \in Present(f) : KeyOf(f, i) = k /\ ~IsUndef(Entry(f, i))
ReferencesAreAnswered ==
  \A k \in Keys : (\E f \in Linked : Asks(f, k)) /\ (\E f \in Files : ~File(f).ir /\ Defines(f, k))
                  => Owned(k)
OnlyOnDemand(f) == IF IsDso(f) THEN File(f).needed ELSE File(f).kind = "member"
NothingIsExtra ==
  \A f \in Linked : OnlyOnDemand(f) =>
    \E k \in Keys : Defines(f, k) /\ \/ k[2] = "" /\ k[1] \in link.roots
                                     \/ \E g \in Linked \cup {g \in Files : File(g).ir} :
                                          g # f /\ Asks(g, k)
ExtractionIsExact == pc = "kill_eh_frame" => ReferencesAreAnswered /\ NothingIsExtra

\* What compilers promise of COMDAT groups: the copies of a group define the
\* same symbols. Where they do not, the definition for which a member was
\* extracted can go with a discarded copy, and its references stay undefined.
CopiesAgree ==
  \A f, h \in Files : \A g \in DOMAIN File(f).groups \cap DOMAIN File(h).groups :
    \A i \in Entries(f) : ~IsUndef(Entry(f, i)) /\ Entry(f, i).sec \in File(f).groups[g] =>
      \E j \in Entries(h) : /\ KeyOf(h, j) = KeyOf(f, i) /\ ~IsUndef(Entry(h, j))
                            /\ Entry(h, j).sec \in File(h).groups[g]

\* Killed sections that symbols of ks are in, .eh_frame aside.
Lost(ks) == {s \in UNION {SectionOf(k) : k \in ks} : s \in dead /\ ~Sec(s).eh}

\* After garbage collection a kept section refers only to kept sections, what
\* is exported is kept, and in an executable everything a linked DSO names and
\* an object defines is exported unless hidden or made local (gc_sections,
\* compute_import_export).
KeptIsClosed ==
  pc = "duplicates" =>
    /\ \A s \in LiveSections : Sec(s).alloc => Lost(Sec(s).rels \cup Sec(s).fde) = {}
    /\ Lost(exported) = {}
    /\ ~link.shared => \A f \in dsos : \A i \in Entries(f) :
         LET k == KeyOf(f, i) IN
         Owned(k) /\ ~IsDso(owner[k].file) /\ vis[k] # "hidden"
           /\ (ver[k] # "local" \/ ~link.default_from_script) => k \in exported

\* The symbol an entry stands for in the end.
RefKey(f, i) == IF <<f, i>> \in rebound THEN <<Entry(f, i).name, "">> ELSE KeyOf(f, i)

\* Every symbol an object refers to has an owner in the end; one that stayed
\* undefined belongs to the first file that refers to it, whose kind of reference
\* decides whether it is imported; and its visibility is the strictest that
\* any linked object gives it (claim_unresolved_symbols, merge_visibility).
ReferencesAreClaimed ==
  pc = "done" =>
    \A f \in objs : \A i \in Present(f) :
      LET k == RefKey(f, i) IN
      /\ IsUndef(Entry(f, i)) => Owned(k)
      /\ IsUndef(Entry(f, i)) /\ IsUndef(EsymOf(k)) =>
           /\ priority(owner[k].file) <= priority(f)
           /\ k \in imported <=> becomes_import(k, EsymOf(k))
      /\ <<f, i>> \notin rebound =>
           Strictness[vis[k]] <= Strictness[merge_visibility("default", Entry(f, i).vis)]

\* A symbol that an object refers to and a DSO defines is marked imported, as
\* the comment of Symbol::is_imported has it.
ImportsAreMarked ==
  pc = "done" =>
    \A f \in objs : \A i \in Present(f) :
      LET k == RefKey(f, i) IN
      IsUndef(Entry(f, i)) /\ Owned(k) /\ IsDso(owner[k].file) /\ EsymOf(k).def # "abs"
        => k \in imported
=============================================================================
