-------------------------- MODULE ElfResolveProofs --------------------------
(***************************************************************************)
(* Proofs about ELF symbol resolution, for any set of links: whatever the  *)
(* order in which the parallel loops reach the files and their symbols,    *)
(* the best definition owns each symbol, one copy of each COMDAT group is  *)
(* left, garbage collection keeps what is referred to, and references      *)
(* that stay undefined are claimed by the first file.                      *)
(***************************************************************************)
EXTENDS ElfResolve, TLAPS

-----------------------------------------------------------------------------
(***************************************************************************)
(* The inductive invariant.                                                *)
(***************************************************************************)
Loops == ByEntry \cup ByFile \cup {"mark", "mark_lto"}

\* Before the lists are cut down to live files; then up to the end of the
\* resolution; what follows it; and what follows garbage collection.
Early == {"register_objs", "register_dsos", "mark_roots", "mark", "clear_objs", "clear_dsos",
          "erase"}
Resolving == {"resolve_objs", "resolve_dsos", "kill_eh_frame"}
Closing == {"convert", "script", "parse_version", "export_dsos", "export_objs", "gc_roots",
            "gc_mark"}
Claiming == {"claim", "finish", "done", "failed"}
Passes == Early \cup Resolving \cup Closing \cup Claiming
          \cup {"comdat_own", "comdat_kill", "mark_roots_lto", "mark_lto", "do_lto", "duplicates"}

Definition == [file : Files, idx : Nat \ {0}]

Types ==
  /\ IsLink(link) /\ pc \in Passes /\ round \in {1, 2}
  /\ objs \subseteq Files /\ dsos \subseteq Files /\ alive \subseteq Files
  /\ work \subseteq Linked
  /\ pos \in [Files -> Nat]
  /\ owner \in [Keys -> {NoOwner} \cup Definition]
  /\ vis \in [Keys -> {"hidden", "protected", "default"}]
  /\ groups \in [Signatures -> Nat]
  /\ exported \subseteq Keys

\* The first round has no output of the plugin; once the lists are cut down,
\* all that is in them is alive.
Lists ==
  /\ \A f \in objs : ~IsDso(f)
  /\ \A f \in dsos : IsDso(f)
  /\ round = 1 => dropped = {} /\ \A f \in objs : ~File(f).native
  /\ \A f \in Files : \A i \in Entries(f) : <<f, i>> \in dropped =>
       File(f).native /\ ~IsUndef(Entry(f, i))
  /\ pc \in {"mark_roots_lto", "mark_lto", "do_lto"} => ForLto
  /\ pc \in {"kill_eh_frame", "convert", "gc_roots", "gc_mark", "duplicates"} \cup Claiming => ~ForLto
  /\ pc \notin Early => Linked \subseteq alive

\* Where the files of a running loop stand.
Progress ==
  /\ pc \notin Loops => work = {}
  /\ pc \in OverDsos => work \subseteq dsos
  /\ pc \in (ByEntry \cup ByFile) \ OverDsos => work \subseteq objs
  /\ pc \in ByEntry \cup {"mark", "mark_lto"} =>
       \A f \in work : pos[f] < Len(File(f).syms)
  /\ pc \in {"mark", "mark_lto"} => work \subseteq alive /\ \A f \in Files \ alive : pos[f] = 0

\* An owner is a definition in a listed file, and clear_symbols reaches all
\* of them. Only claim_unresolved_symbols lets a reference own a symbol.
Owners ==
  \A k \in Keys : Owned(k) =>
    /\ owner[k].file \in Linked
    /\ owner[k].idx \in Entries(owner[k].file)
    /\ KeyOf(owner[k].file, owner[k].idx) = k
    /\ pc \notin Claiming => ~IsUndef(EsymOf(k))
    /\ pc = "clear_objs" => owner[k].file \in work \cup dsos
    /\ pc = "clear_dsos" => owner[k].file \in work
    /\ pc \notin {"erase", "comdat_own", "comdat_kill"}

\* In the resolution proper, owners can be chosen, and no entry seen so far
\* that can be chosen is better.
Rank(f, i) == get_rank(f, Entry(f, i), FALSE)
Seen(f, i) == (pc = "resolve_objs" => f \in objs) /\ (f \in work => i <= pos[f])

Best ==
  pc \in Resolving =>
    /\ \A k \in Keys : Owned(k) =>
         /\ <<owner[k].file, owner[k].idx>> \notin dropped
         /\ Eligible(owner[k].file, EsymOf(k))
    /\ \A f \in Linked : \A i \in Present(f) : Seen(f, i) /\ Eligible(f, Entry(f, i)) =>
         /\ Owned(KeyOf(f, i))
         /\ Rank(owner[KeyOf(f, i)].file, owner[KeyOf(f, i)].idx) <= Rank(f, i)

\* A group belongs to a live object that has it, none that has been asked
\* comes before it, and exactly the other copies are killed. Values only
\* fall, so that a section killed in one round stays a losing copy.
Lost1(s) == s[1] \in Files /\ \E g \in DOMAIN File(s[1]).groups :
              s[2] \in File(s[1]).groups[g] /\ groups[g] < priority(s[1])
AskedOwn(f) == /\ pc \in {"comdat_own", "comdat_kill"} \cup Resolving
               /\ pc = "comdat_own" => f \notin work
AskedKill(f) == /\ pc \in {"comdat_kill"} \cup Resolving
                /\ pc = "comdat_kill" => f \notin work

Comdats ==
  /\ \A g \in Signatures : groups[g] # FreeGroup =>
       \E f \in objs \cap alive : g \in GroupsOf(f) /\ groups[g] = priority(f)
  /\ \A f \in objs : AskedOwn(f) => \A g \in GroupsOf(f) : groups[g] <= priority(f)
  /\ \A f \in objs : AskedKill(f) => \A g \in GroupsOf(f) : groups[g] # priority(f) =>
       {f} \X File(f).groups[g] \subseteq dead
  /\ pc \notin {"duplicates"} \cup Claiming =>
       \A s \in dead : Lost1(s) \/ (pc \in Closing /\ ~ForLto /\ Sec(s).eh)

\* After the resolution a symbol is in a dead section only if that is an
\* .eh_frame section; common symbols get theirs then.
SectionsOwned ==
  /\ ForLto \/ pc \notin Closing \cup {"duplicates"} \cup Claiming => converted = {}
  /\ pc \in Closing /\ ~ForLto =>
       \A k \in Keys : \A s \in SectionOf(k) : s \in dead => Sec(s).eh

\* What DSOs name is exported, to an executable.
ToExport(k) ==
  /\ Owned(k) /\ ~IsDso(owner[k].file) /\ vis[k] # "hidden"
  /\ ver[k] # "local" \/ ~link.default_from_script

Exports ==
  /\ pc = "parse_version" => link.shared
  /\ ~link.shared /\ pc \in {"export_dsos", "export_objs", "gc_roots", "gc_mark", "duplicates"} =>
       \A f \in dsos : (pc = "export_dsos" => f \notin work) =>
         \A i \in Entries(f) : ToExport(KeyOf(f, i)) => KeyOf(f, i) \in exported

\* A section that was visited and is no longer pending has been followed.
Collected ==
  /\ pc = "gc_mark" =>
       /\ pending \subseteq visited
       /\ \A s \in visited \ pending : Sec(s).alloc => Targets(s) \subseteq visited
       /\ \A k \in exported : SectionOf(k) \subseteq dead \cup visited
  /\ pc = "duplicates" =>
       /\ \A s \in LiveSections : Sec(s).alloc => Lost(Sec(s).rels \cup Sec(s).fde) = {}
       /\ Lost(exported) = {}

\* References claimed so far.
Claimed(f, i) == /\ IsUndef(Entry(f, i))
                 /\ pc \in Claiming /\ (pc = "claim" /\ f \in work => i <= pos[f])

Claims ==
  /\ pc \notin Claiming => rebound = {}
  /\ \A f \in objs : \A i \in Entries(f) : <<f, i>> \in rebound =>
       Owned(<<Entry(f, i).name, "">>) /\ ~IsUndef(EsymOf(<<Entry(f, i).name, "">>))
  /\ \A k \in Keys : Owned(k) /\ IsUndef(EsymOf(k)) =>
       /\ ~IsDso(owner[k].file)
       /\ k \in imported <=> becomes_import(k, EsymOf(k))
  /\ pc # "failed" => \A f \in objs : \A i \in Entries(f) : Claimed(f, i) /\ <<f, i>> \notin rebound =>
       /\ Owned(KeyOf(f, i))
       /\ IsUndef(EsymOf(KeyOf(f, i))) => priority(owner[KeyOf(f, i)].file) <= priority(f)

\* Entries whose visibility mark_live_objects has merged.
Merged(f, i) ==
  /\ pc \notin {"register_objs", "register_dsos", "mark_roots"}
  /\ pc = "mark" /\ f \in work => i <= pos[f]

Visible ==
  \A f \in objs \cap alive : \A i \in Present(f) : Merged(f, i) =>
    Strictness[vis[KeyOf(f, i)]] <= Strictness[merge_visibility("default", Entry(f, i).vis)]

IInv ==
  /\ Types /\ Lists /\ Progress /\ Owners /\ Best /\ Comdats /\ SectionsOwned /\ Exports
  /\ Collected /\ Claims /\ Visible

-----------------------------------------------------------------------------
(***************************************************************************)
(* What the link determines does not change.                               *)
(***************************************************************************)
LEMMA LinkFixed ==
  ASSUME link' = link
  PROVE  /\ Files' = Files /\ Keys' = Keys /\ Signatures' = Signatures /\ Sections' = Sections
         /\ \A f : File(f)' = File(f) /\ (IsDso(f)' <=> IsDso(f)) /\ priority(f)' = priority(f)
         /\ \A f : Entries(f)' = Entries(f)
         /\ \A f, i : Entry(f, i)' = Entry(f, i) /\ KeyOf(f, i)' = KeyOf(f, i)
         /\ \A f, i : Rank(f, i)' = Rank(f, i)
         /\ \A s : Sec(s)' = Sec(s)
<1>1. Files' = Files /\ Signatures' = Signatures /\ Sections' = Sections /\ \A s : Sec(s)' = Sec(s)
  BY DEF Files, Signatures, Sections, Sec, File
<1>2. \A f : File(f)' = File(f) /\ (IsDso(f)' <=> IsDso(f)) /\ priority(f)' = priority(f)
  BY DEF File, IsDso, priority
<1>3. \A f : Entries(f)' = Entries(f)
  BY DEF Entries, File
<1>4. \A f, i : Entry(f, i)' = Entry(f, i)
  BY DEF Entry, File
<1>5. \A f, i : KeyOf(f, i)' = KeyOf(f, i)
  BY DEF KeyOf, File, Entry, lto_symbol, BaseKey, IsDso, insert_symbol, IsUndef
<1>6. \A f, i : Rank(f, i)' = Rank(f, i)
  BY <1>2, <1>4 DEF Rank, get_rank, IsDso, File, priority, IsWeak
<1>7. Keys' = Keys
  BY DEF Keys, KeyOf, File, Entry, lto_symbol, BaseKey, IsDso, insert_symbol, IsUndef, Files,
         Entries, Referred
<1> QED
  BY <1>1, <1>2, <1>3, <1>4, <1>5, <1>6, <1>7

(* The files and entries of a well-formed link. *)
LEMMA FileFacts ==
  ASSUME IsLink(link), NEW f \in Files
  PROVE  /\ IsFile(File(f)) /\ priority(f) \in Nat /\ priority(f) < RankShift
         /\ Len(File(f).syms) \in Nat /\ Entries(f) = 1 .. Len(File(f).syms)
         /\ \A i \in Entries(f) : IsEntry(Entry(f, i)) /\ KeyOf(f, i) \in Keys
                                  /\ <<Entry(f, i).name, "">> \in Keys
         /\ \A g \in Files : f # g => priority(f) # priority(g)
<1>1. IsFile(File(f))
  BY DEF IsLink, File, Files
<1>2. priority(f) \in Nat /\ priority(f) < RankShift
  BY <1>1 DEF IsFile, priority, PriorityOf
<1>3. Len(File(f).syms) \in Nat /\ Entries(f) = 1 .. Len(File(f).syms)
  BY <1>1 DEF IsFile, Entries
<1>4. \A i \in Entries(f) : IsEntry(Entry(f, i))
  BY <1>1 DEF IsFile, Entries, Entry
<1>5. ASSUME NEW i \in Entries(f) PROVE KeyOf(f, i) \in Keys /\ <<Entry(f, i).name, "">> \in Keys
  <2> DEFINE own == UNION {{KeyOf(h, j) : j \in Entries(h)} : h \in Files}
             names == UNION {{Entry(h, j).name : j \in Entries(h)} : h \in Files}
  <2>1. KeyOf(f, i) \in own
    OBVIOUS
  <2>2. Entry(f, i).name \in names
    OBVIOUS
  <2>3. own \subseteq Keys /\ {<<n, "">> : n \in link.roots \cup names} \subseteq Keys
    BY DEF Keys
  <2> HIDE DEF own, names
  <2> QED
    BY <2>1, <2>2, <2>3
<1>6. \A g \in Files : f # g => priority(f) # priority(g)
  BY DEF IsLink, priority, File, Files
<1> QED
  BY <1>1, <1>2, <1>3, <1>4, <1>5, <1>6

(* A rank is a number below that of a symbol nobody owns. *)
LEMMA RankFacts ==
  ASSUME IsLink(link), NEW f \in Files, NEW i \in Entries(f)
  PROVE  Rank(f, i) \in Nat /\ Rank(f, i) < 7 * RankShift
<1>1. priority(f) \in Nat /\ priority(f) < RankShift
  BY FileFacts
<1> QED
  BY <1>1 DEF Rank, get_rank, RankShift

(* The pass in which each action runs. *)
ByFileAction(f) ==
  ResolveSymbol(f) \/ MarkSymbol(f) \/ ClearSymbols(f) \/ OwnGroups(f) \/ KillGroups(f)
  \/ ConvertCommon(f) \/ ApplyVersionScript(f) \/ ParseSymbolVersion(f) \/ ExportToDso(f)
  \/ ImportExport(f) \/ ClaimSymbol(f)

LEMMA FilePasses ==
  ASSUME NEW f \in work, ByFileAction(f)
  PROVE  /\ pc' = pc /\ pc \in Loops
         /\ UNCHANGED <<link, round, objs, dsos, dropped, pending, visited>>
         /\ pc \in {"register_objs", "register_dsos", "resolve_objs", "resolve_dsos"} => ResolveSymbol(f)
         /\ pc \in {"mark", "mark_lto"} => MarkSymbol(f)
         /\ pc \in {"clear_objs", "clear_dsos"} => ClearSymbols(f)
         /\ pc = "comdat_own" => OwnGroups(f)
         /\ pc = "comdat_kill" => KillGroups(f)
         /\ pc = "convert" => ConvertCommon(f)
         /\ pc = "script" => ApplyVersionScript(f)
         /\ pc = "parse_version" => ParseSymbolVersion(f)
         /\ pc = "export_dsos" => ExportToDso(f)
         /\ pc = "export_objs" => ImportExport(f)
         /\ pc = "claim" => ClaimSymbol(f)
<1>1. CASE ResolveSymbol(f)
  BY <1>1 DEF ResolveSymbol, Loops, ByEntry
<1>2. CASE MarkSymbol(f)
  BY <1>2 DEF MarkSymbol, Loops
<1>3. CASE ClearSymbols(f)
  BY <1>3 DEF ClearSymbols, Loops, ByFile
<1>4. CASE OwnGroups(f)
  BY <1>4 DEF OwnGroups, Loops, ByFile
<1>5. CASE KillGroups(f)
  BY <1>5 DEF KillGroups, Loops, ByFile
<1>6. CASE ConvertCommon(f)
  BY <1>6 DEF ConvertCommon, Loops, ByFile
<1>7. CASE ApplyVersionScript(f)
  BY <1>7 DEF ApplyVersionScript, Loops, ByFile
<1>8. CASE ParseSymbolVersion(f)
  BY <1>8 DEF ParseSymbolVersion, Loops, ByFile
<1>9. CASE ExportToDso(f)
  BY <1>9 DEF ExportToDso, Loops, ByFile
<1>10. CASE ImportExport(f)
  BY <1>10 DEF ImportExport, Loops, ByFile
<1>11. CASE ClaimSymbol(f)
  BY <1>11 DEF ClaimSymbol, Loops, ByEntry
<1> QED
  BY <1>1, <1>2, <1>3, <1>4, <1>5, <1>6, <1>7, <1>8, <1>9, <1>10, <1>11 DEF ByFileAction

LEMMA EndLoopPasses ==
  ASSUME EndLoop
  PROVE  /\ pc \in Loops /\ work = {}
         /\ UNCHANGED <<link, round, objs, dsos, alive, pending, owner, vis, ver, imported, exported,
                        rebound, groups, dead, converted, dropped, visited>>
         /\ Enter(pc')
         /\ pc = "register_objs" => pc' = "register_dsos"
         /\ pc = "register_dsos" => pc' = "mark_roots"
         /\ pc = "mark" => pc' = "clear_objs"
         /\ pc = "clear_objs" => pc' = "clear_dsos"
         /\ pc = "clear_dsos" => pc' = "erase"
         /\ pc = "comdat_own" => pc' = "comdat_kill"
         /\ pc = "comdat_kill" => pc' = "resolve_objs"
         /\ pc = "resolve_objs" => pc' = "resolve_dsos"
         /\ pc = "resolve_dsos" => pc' = IF ForLto THEN "mark_roots_lto" ELSE "kill_eh_frame"
         /\ pc \in {"mark_lto", "convert"} => pc' = "script"
         /\ pc = "script" => pc' = IF link.shared THEN "parse_version" ELSE "export_dsos"
         /\ pc \in {"parse_version", "export_dsos"} => pc' = "export_objs"
         /\ pc = "export_objs" => pc' = IF ForLto THEN "do_lto" ELSE
                                        IF link.gc_sections THEN "gc_roots" ELSE "duplicates"
         /\ pc = "claim" => pc' = "finish"
<1>1. pc \in DOMAIN NextPass /\ work = {} /\ Enter(NextPass[pc])
      /\ UNCHANGED <<link, round, objs, dsos, alive, pending, owner, vis, ver, imported, exported,
                        rebound, groups, dead, converted, dropped, visited>>
  BY DEF EndLoop
<1>2. pc' = NextPass[pc]
  BY <1>1 DEF Enter
<1>3. pc \in Loops
  BY <1>1 DEF NextPass, Loops, ByEntry, ByFile
<1> QED
  BY <1>1, <1>2, <1>3 DEF NextPass

(* How a pass starts. *)
LEMMA EnterFacts ==
  ASSUME NEW p, Enter(p)
  PROVE  /\ pc' = p /\ pos' = [f \in Files |-> 0] /\ work' \subseteq Linked'
         /\ p \notin Loops => work' = {}
         /\ p \in OverDsos => work' \subseteq dsos'
         /\ p \in (ByEntry \cup ByFile) \ OverDsos => work' \subseteq objs'
         /\ p \in ByFile \ OverDsos => work' = objs'
         /\ p \in ByFile \cap OverDsos => work' = dsos'
         /\ p \in ByEntry \cup {"mark", "mark_lto"} => \A f \in work' : Len(File(f).syms) > 0
         /\ p \in ByEntry \ OverDsos => \A f \in objs' : f \in work' \/ ~(Len(File(f).syms) > 0)
         /\ p \in ByEntry \cap OverDsos => \A f \in dsos' : f \in work' \/ ~(Len(File(f).syms) > 0)
         /\ p \in {"mark", "mark_lto"} =>
              work' \subseteq alive' /\ \A f \in alive' \cap Linked' : f \in work' \/ ~(Len(File(f).syms) > 0)
<1>1. pc' = p /\ pos' = [f \in Files |-> 0]
  BY DEF Enter
<1>2. CASE p \in OverDsos \cap ByFile
  <2>1. work' = dsos'
    BY <1>2 DEF Enter, OverDsos, ByFile, ByEntry
  <2> QED
    BY <1>1, <1>2, <2>1 DEF OverDsos, ByFile, ByEntry, Loops, Linked
<1>3. CASE p \in OverDsos \cap ByEntry
  <2>1. work' = WithSymbols(dsos')
    BY <1>3 DEF Enter, OverDsos, ByFile, ByEntry
  <2> QED
    BY <1>1, <1>3, <2>1 DEF OverDsos, ByFile, ByEntry, Loops, Linked, WithSymbols
<1>4. CASE p \in ByFile \ OverDsos
  <2>1. work' = objs'
    BY <1>4 DEF Enter, OverDsos, ByFile, ByEntry
  <2> QED
    BY <1>1, <1>4, <2>1 DEF OverDsos, ByFile, ByEntry, Loops, Linked
<1>5. CASE p \in ByEntry \ OverDsos
  <2>1. work' = WithSymbols(objs')
    BY <1>5 DEF Enter, OverDsos, ByFile, ByEntry
  <2> QED
    BY <1>1, <1>5, <2>1 DEF OverDsos, ByFile, ByEntry, Loops, Linked, WithSymbols
<1>6. CASE p \in {"mark", "mark_lto"}
  <2>1. work' = WithSymbols(alive' \cap (objs' \cup dsos'))
    BY <1>6 DEF Enter, OverDsos, ByFile, ByEntry
  <2> QED
    BY <1>1, <1>6, <2>1 DEF OverDsos, ByFile, ByEntry, Loops, Linked, WithSymbols
<1>7. CASE p \notin Loops
  <2>1. work' = {}
    BY <1>7 DEF Enter, OverDsos, ByFile, ByEntry, Loops
  <2> QED
    BY <1>1, <1>7, <2>1 DEF OverDsos, ByFile, ByEntry, Loops, Linked
<1> QED
  BY <1>2, <1>3, <1>4, <1>5, <1>6, <1>7 DEF OverDsos, ByFile, ByEntry, Loops

(* merge_visibility keeps the stricter of the two. *)
LEMMA MergeFacts ==
  ASSUME NEW old \in {"hidden", "protected", "default"},
         NEW v \in {"hidden", "protected", "default", "internal"}
  PROVE  /\ merge_visibility(old, v) \in {"hidden", "protected", "default"}
         /\ Strictness[merge_visibility(old, v)] <= Strictness[old]
         /\ Strictness[merge_visibility(old, v)] <= Strictness[merge_visibility("default", v)]
         /\ Strictness[merge_visibility(old, "hidden")] <= Strictness[merge_visibility("default", v)]
BY DEF merge_visibility, Strictness

LEMMA MinFacts ==
  ASSUME NEW x \in Nat, NEW y \in Nat
  PROVE  /\ Min({x, y}) \in Nat /\ Min({x, y}) <= x /\ Min({x, y}) <= y
         /\ Min({x, y}) = x \/ Min({x, y}) = y
<1>1. \E z \in {x, y} : \A w \in {x, y} : z <= w
  <2>1. x <= y \/ y <= x
    OBVIOUS
  <2> QED
    BY <2>1
<1>2. Min({x, y}) \in {x, y} /\ \A w \in {x, y} : Min({x, y}) <= w
  BY <1>1 DEF Min
<1> QED
  BY <1>2

(* The entry that a file of a loop over entries handles next. *)
LEMMA NextEntryFacts ==
  ASSUME Types, Progress, NEW f \in work, pc \in ByEntry \cup {"mark", "mark_lto"}
  PROVE  /\ f \in Files /\ pos[f] \in Nat /\ pos[f] + 1 \in Entries(f)
         /\ KeyOf(f, pos[f] + 1) \in Keys /\ IsEntry(Entry(f, pos[f] + 1))
         /\ Len(File(f).syms) \in Nat /\ Entries(f) = 1 .. Len(File(f).syms)
<1>1. f \in Files /\ pos[f] \in Nat /\ pos[f] < Len(File(f).syms)
  BY DEF Types, Progress, Linked
<1>2. Len(File(f).syms) \in Nat /\ Entries(f) = 1 .. Len(File(f).syms)
  BY <1>1, FileFacts DEF Types
<1>3. pos[f] + 1 \in Entries(f)
  BY <1>1, <1>2
<1> QED
  BY <1>1, <1>2, <1>3, FileFacts DEF Types

(* The steps of the main thread between the loops. *)
MainAction ==
  MarkRoots \/ EraseUnused \/ DoLto \/ KillEhFrame \/ GcRoots \/ GcSweep \/ CheckDuplicates \/ Finish

LEMMA MainPasses ==
  ASSUME MainAction
  PROVE  /\ link' = link /\ Enter(pc') /\ pc \notin Loops
         /\ pc = "mark_roots" => MarkRoots /\ pc' = "mark"
         /\ pc = "mark_roots_lto" => MarkRoots /\ pc' = "mark_lto"
         /\ pc = "erase" => EraseUnused /\ pc' = "comdat_own"
         /\ pc = "do_lto" => DoLto /\ pc' = "register_objs"
         /\ pc = "kill_eh_frame" => KillEhFrame /\ pc' = "convert"
         /\ pc = "gc_roots" => GcRoots /\ pc' = "gc_mark"
         /\ pc = "gc_mark" => GcSweep /\ pc' = "duplicates"
         /\ pc = "duplicates" => CheckDuplicates /\ pc' \in {"failed", "claim"}
         /\ pc = "finish" => Finish /\ pc' \in {"failed", "done"}
         /\ pc \in {"mark_roots", "mark_roots_lto", "erase", "do_lto", "kill_eh_frame", "gc_roots",
                    "gc_mark", "duplicates", "finish"}
<1>1. CASE MarkRoots
  <2>1. Enter(IF pc = "mark_roots" THEN "mark" ELSE "mark_lto") /\ link' = link
        /\ pc \in {"mark_roots", "mark_roots_lto"}
    BY <1>1 DEF MarkRoots
  <2>2. pc' = IF pc = "mark_roots" THEN "mark" ELSE "mark_lto"
    BY <2>1 DEF Enter
  <2> QED
    BY <1>1, <2>1, <2>2 DEF Loops, ByEntry, ByFile
<1>2. CASE EraseUnused
  <2>1. Enter("comdat_own") /\ link' = link /\ pc = "erase"
    BY <1>2 DEF EraseUnused
  <2>2. pc' = "comdat_own"
    BY <2>1 DEF Enter
  <2> QED
    BY <1>2, <2>1, <2>2 DEF Loops, ByEntry, ByFile
<1>3. CASE DoLto
  <2>1. Enter("register_objs") /\ link' = link /\ pc = "do_lto"
    BY <1>3 DEF DoLto
  <2>2. pc' = "register_objs"
    BY <2>1 DEF Enter
  <2> QED
    BY <1>3, <2>1, <2>2 DEF Loops, ByEntry, ByFile
<1>4. CASE KillEhFrame
  <2>1. Enter("convert") /\ link' = link /\ pc = "kill_eh_frame"
    BY <1>4 DEF KillEhFrame
  <2>2. pc' = "convert"
    BY <2>1 DEF Enter
  <2> QED
    BY <1>4, <2>1, <2>2 DEF Loops, ByEntry, ByFile
<1>5. CASE GcRoots
  <2>1. Enter("gc_mark") /\ link' = link /\ pc = "gc_roots"
    BY <1>5 DEF GcRoots
  <2>2. pc' = "gc_mark"
    BY <2>1 DEF Enter
  <2> QED
    BY <1>5, <2>1, <2>2 DEF Loops, ByEntry, ByFile
<1>6. CASE GcSweep
  <2>1. Enter("duplicates") /\ link' = link /\ pc = "gc_mark"
    BY <1>6 DEF GcSweep
  <2>2. pc' = "duplicates"
    BY <2>1 DEF Enter
  <2> QED
    BY <1>6, <2>1, <2>2 DEF Loops, ByEntry, ByFile
<1>7. CASE CheckDuplicates
  <2> DEFINE p == IF \E f \in objs : \E i \in Entries(f) : duplicate(f, i) THEN "failed" ELSE "claim"
  <2>1. Enter(p) /\ link' = link /\ pc = "duplicates" /\ p \in {"failed", "claim"}
    BY <1>7 DEF CheckDuplicates
  <2> HIDE DEF p
  <2>2. pc' = p
    BY <2>1 DEF Enter
  <2> QED
    BY <1>7, <2>1, <2>2 DEF Loops, ByEntry, ByFile
<1>8. CASE Finish
  <2> DEFINE p == IF \E n \in link.roots : ~Owned(<<n, "">>) THEN "failed" ELSE "done"
  <2>1. Enter(p) /\ link' = link /\ pc = "finish" /\ p \in {"failed", "done"}
    BY <1>8 DEF Finish
  <2> HIDE DEF p
  <2>2. pc' = p
    BY <2>1 DEF Enter
  <2> QED
    BY <1>8, <2>1, <2>2 DEF Loops, ByEntry, ByFile
<1> QED
  BY <1>1, <1>2, <1>3, <1>4, <1>5, <1>6, <1>7, <1>8 DEF MainAction

(* The cases of a step. *)
LEMMA Steps ==
  ASSUME [Next]_vars
  PROVE  /\ link' = link
         /\ \/ EndLoop \/ MainAction
            \/ \E f \in work : ByFileAction(f)
            \/ \E s \in pending : VisitSection(s)
            \/ UNCHANGED vars
<1>1. \/ EndLoop \/ MainAction
      \/ \E f \in work : ByFileAction(f)
      \/ \E s \in pending : VisitSection(s)
      \/ UNCHANGED vars
  BY DEF Next, MainAction, ByFileAction, Done
<1>2. CASE EndLoop
  BY <1>2, EndLoopPasses
<1>3. CASE MainAction
  BY <1>3, MainPasses
<1>4. CASE \E f \in work : ByFileAction(f)
  BY <1>4, FilePasses
<1>5. CASE \E s \in pending : VisitSection(s)
  BY <1>5 DEF VisitSection
<1>6. CASE UNCHANGED vars
  BY <1>6 DEF vars
<1> QED
  BY <1>1, <1>2, <1>3, <1>4, <1>5, <1>6

-----------------------------------------------------------------------------
(***************************************************************************)
(* What the steps do to the owners of symbols.                             *)
(***************************************************************************)
ToResolve == {"register_objs", "register_dsos", "resolve_objs", "resolve_dsos"}
ToClear == {"clear_objs", "clear_dsos"}

(* A function changed at one key. *)
LEMMA OwnerExcept ==
  ASSUME Types, NEW k \in Keys, NEW f \in Files, NEW i \in Entries(f),
         owner' = [owner EXCEPT ![k] = [file |-> f, idx |-> i]]
  PROVE  /\ owner' \in [Keys -> {NoOwner} \cup Definition]
         /\ owner'[k] = [file |-> f, idx |-> i]
         /\ \A l \in Keys : l # k => owner'[l] = owner[l]
<1>1. i \in Nat \ {0}
  <2>1. Len(File(f).syms) \in Nat /\ i \in 1 .. Len(File(f).syms)
    BY FileFacts DEF Types
  <2> QED
    BY <2>1
<1>2. [file |-> f, idx |-> i] \in Definition
  BY <1>1 DEF Definition
<1>3. owner \in [Keys -> {NoOwner} \cup Definition]
  BY DEF Types
<1> QED
  BY <1>2, <1>3

LEMMA NotNobody ==
  ASSUME IsLink(link), NEW f \in Files, NEW i \in Entries(f)
  PROVE  [file |-> f, idx |-> i] # NoOwner
<1>1. Len(File(f).syms) \in Nat /\ i \in 1 .. Len(File(f).syms)
  BY FileFacts
<1>2. i # 0
  BY <1>1
<1>3. [file |-> f, idx |-> i].idx = i /\ NoOwner.idx = 0
  BY DEF NoOwner
<1> QED
  BY <1>2, <1>3

LEMMA ResolveOwner ==
  ASSUME Types, Progress, NEW f \in work, ResolveSymbol(f)
  PROVE  LET i == pos[f] + 1
             k == KeyOf(f, i) IN
         /\ f \in Files /\ i \in Entries(f) /\ k \in Keys
         /\ owner' \in [Keys -> {NoOwner} \cup Definition]
         /\ \A l \in Keys : l # k => owner'[l] = owner[l]
         /\ IF /\ <<f, i>> \notin dropped
               /\ Eligible(f, Entry(f, i))
               /\ get_rank(f, Entry(f, i), ~IsDso(f) /\ f \notin alive) < symbol_rank(k)
            THEN owner'[k] = [file |-> f, idx |-> i]
            ELSE owner' = owner
<1> DEFINE i == pos[f] + 1
           k == KeyOf(f, i)
<1>1. f \in Files /\ i \in Entries(f) /\ k \in Keys
  <2>1. pc \in ByEntry \cup {"mark", "mark_lto"}
    BY DEF ResolveSymbol, ByEntry
  <2> QED
    BY <2>1, NextEntryFacts
<1>2. resolve_entry(f, i)
  BY DEF ResolveSymbol
<1> HIDE DEF i
<1>3. CASE /\ <<f, i>> \notin dropped
           /\ Eligible(f, Entry(f, i))
           /\ get_rank(f, Entry(f, i), ~IsDso(f) /\ f \notin alive) < symbol_rank(k)
  <2>1. owner' = [owner EXCEPT ![k] = [file |-> f, idx |-> i]]
    BY <1>2, <1>3 DEF resolve_entry
  <2> HIDE DEF k
  <2> QED
    BY <1>1, <1>3, <2>1, OwnerExcept DEF k, i
<1>4. CASE ~(/\ <<f, i>> \notin dropped
             /\ Eligible(f, Entry(f, i))
             /\ get_rank(f, Entry(f, i), ~IsDso(f) /\ f \notin alive) < symbol_rank(k))
  <2>1. owner' = owner
    BY <1>2, <1>4 DEF resolve_entry
  <2> HIDE DEF k
  <2> QED
    BY <1>1, <1>4, <2>1 DEF k, i, Types
<1> QED
  BY <1>3, <1>4

LEMMA ClearOwner ==
  ASSUME Types, NEW fs, clear_symbols(fs)
  PROVE  /\ owner' \in [Keys -> {NoOwner} \cup Definition]
         /\ \A k \in Keys : owner'[k] = IF owner[k].file \in fs THEN NoOwner ELSE owner[k]
         /\ exported' \subseteq exported
<1>1. owner' = [k \in Keys |-> IF k \in {l \in Keys : owner[l].file \in fs} THEN NoOwner ELSE owner[k]]
      /\ exported' \subseteq exported
  BY DEF clear_symbols
<1>2. owner \in [Keys -> {NoOwner} \cup Definition]
  BY DEF Types
<1> QED
  BY <1>1, <1>2

\* The common symbols a file still owns.
MineCommon(f) == {i \in Entries(f) : /\ Entry(f, i).def = "common"
                                     /\ <<f, i>> \notin dropped
                                     /\ owner[KeyOf(f, i)].file = f}

LEMMA ConvertOwner ==
  ASSUME Types, NEW f \in Files, ConvertCommon(f)
  PROVE  /\ owner' \in [Keys -> {NoOwner} \cup Definition]
         /\ converted' = converted \cup ({f} \X MineCommon(f))
         /\ \A k \in Keys :
              \/ owner'[k] = owner[k]
              \/ \E i \in MineCommon(f) : KeyOf(f, i) = k /\ owner'[k] = [file |-> f, idx |-> i]
<1> DEFINE mine == MineCommon(f)
<1>1. owner' = [k \in Keys |-> IF \E i \in mine : KeyOf(f, i) = k
                 THEN [file |-> f, idx |-> CHOOSE i \in mine : KeyOf(f, i) = k] ELSE owner[k]]
      /\ converted' = converted \cup ({f} \X mine)
  BY DEF ConvertCommon, MineCommon
<1>2. mine \subseteq Nat \ {0}
  <2>1. Len(File(f).syms) \in Nat /\ mine \subseteq 1 .. Len(File(f).syms)
    BY FileFacts DEF MineCommon, Types
  <2> QED
    BY <2>1
<1> HIDE DEF mine
<1>3. ASSUME NEW k \in Keys
      PROVE  /\ owner'[k] \in {NoOwner} \cup Definition
             /\ \/ owner'[k] = owner[k]
                \/ \E i \in mine : KeyOf(f, i) = k /\ owner'[k] = [file |-> f, idx |-> i]
  <2>1. CASE \E i \in mine : KeyOf(f, i) = k
    <3>1. PICK j \in mine : j = (CHOOSE i \in mine : KeyOf(f, i) = k) /\ KeyOf(f, j) = k
      BY <2>1
    <3>2. owner'[k] = [file |-> f, idx |-> j]
      BY <1>1, <2>1, <3>1
    <3>3. owner'[k] \in Definition
      BY <1>2, <3>1, <3>2 DEF Definition
    <3> QED
      BY <3>1, <3>2, <3>3
  <2>2. CASE ~ \E i \in mine : KeyOf(f, i) = k
    <3>1. owner'[k] = owner[k]
      BY <1>1, <2>2
    <3> QED
      BY <3>1 DEF Types
  <2> QED
    BY <2>1, <2>2
<1>4. owner' \in [Keys -> {NoOwner} \cup Definition]
  BY <1>1, <1>3
<1> QED
  BY <1>1, <1>3, <1>4 DEF mine

\* Whether claim_unresolved_symbols leaves the symbol of an entry to its owner.
KeepsOwner(f, i) ==
  LET k == KeyOf(f, i) IN
  Owned(k) /\ (~IsUndef(EsymOf(k)) \/ priority(owner[k].file) <= priority(f))

LEMMA ClaimOwner ==
  ASSUME Types, Progress, NEW f \in work, ClaimSymbol(f)
  PROVE  LET i == pos[f] + 1
             e == Entry(f, i)
             k == KeyOf(f, i) IN
         /\ f \in Files /\ i \in Entries(f) /\ k \in Keys
         /\ owner' \in [Keys -> {NoOwner} \cup Definition]
         /\ \A l \in Keys : l # k => owner'[l] = owner[l]
         /\ exported' \subseteq exported
         /\ \/ /\ ~IsUndef(e) \/ KeepsOwner(f, i)
               /\ UNCHANGED <<owner, ver, imported, exported, rebound>>
            \/ /\ IsUndef(e) /\ ~KeepsOwner(f, i) /\ served_by_version(f, e)
               /\ rebound' = rebound \cup {<<f, i>>}
               /\ UNCHANGED <<owner, ver, imported, exported>>
            \/ /\ IsUndef(e) /\ ~KeepsOwner(f, i)
               /\ owner'[k] = [file |-> f, idx |-> i]
               /\ imported' = IF becomes_import(k, e) THEN imported \cup {k} ELSE imported \ {k}
               /\ UNCHANGED rebound
<1> DEFINE i == pos[f] + 1
           e == Entry(f, i)
           k == KeyOf(f, i)
<1>1. f \in Files /\ i \in Entries(f) /\ k \in Keys
  <2>1. pc \in ByEntry \cup {"mark", "mark_lto"}
    BY DEF ClaimSymbol, ByEntry
  <2> QED
    BY <2>1, NextEntryFacts
<1>2. claim_entry(f, i)
  BY DEF ClaimSymbol
<1> HIDE DEF i
<1>3. CASE ~IsUndef(e) \/ KeepsOwner(f, i)
  <2>1. UNCHANGED <<owner, ver, imported, exported, rebound>>
    BY <1>2, <1>3 DEF claim_entry, KeepsOwner
  <2> HIDE DEF k, e
  <2> QED
    BY <1>1, <1>3, <2>1 DEF k, i, e, Types
<1>4. CASE IsUndef(e) /\ ~KeepsOwner(f, i) /\ served_by_version(f, e)
  <2>1. rebound' = rebound \cup {<<f, i>>} /\ UNCHANGED <<owner, ver, imported, exported>>
    BY <1>2, <1>4 DEF claim_entry, KeepsOwner
  <2> HIDE DEF k, e
  <2> QED
    BY <1>1, <1>4, <2>1 DEF k, i, e, Types
<1>5. CASE IsUndef(e) /\ ~KeepsOwner(f, i) /\ ~served_by_version(f, e)
  <2>1. /\ owner' = [owner EXCEPT ![k] = [file |-> f, idx |-> i]]
        /\ imported' = IF becomes_import(k, e) THEN imported \cup {k} ELSE imported \ {k}
        /\ UNCHANGED rebound
        /\ exported' \subseteq exported
    BY <1>2, <1>5 DEF claim_entry, KeepsOwner
  <2> HIDE DEF k, e
  <2>2. /\ owner' \in [Keys -> {NoOwner} \cup Definition]
        /\ owner'[k] = [file |-> f, idx |-> i]
        /\ \A l \in Keys : l # k => owner'[l] = owner[l]
    BY <1>1, <2>1, OwnerExcept
  <2> QED
    BY <1>1, <1>5, <2>1, <2>2 DEF k, i, e
<1> QED
  BY <1>3, <1>4, <1>5

(* What the steps do to the loop they belong to. *)
LEMMA LoopStep ==
  ASSUME Types, Progress, NEW f \in work, ByFileAction(f), pc \in ByEntry \cup ByFile
  PROVE  /\ UNCHANGED <<alive, vis>> /\ pos' \in [Files -> Nat] /\ work' \subseteq work
         /\ pc \in ByFile => work' = work \ {f} /\ pos' = pos
         /\ pc \in ByEntry =>
              /\ pos'[f] = pos[f] + 1 /\ \A g \in Files : g # f => pos'[g] = pos[g]
              /\ work' = IF pos'[f] >= Len(File(f).syms) THEN work \ {f} ELSE work
<1> USE FilePasses
<1>1. ASSUME NextEntry(f), pc \in ByEntry
      PROVE  /\ pos' \in [Files -> Nat] /\ work' \subseteq work
             /\ pos'[f] = pos[f] + 1 /\ \A g \in Files : g # f => pos'[g] = pos[g]
             /\ work' = IF pos'[f] >= Len(File(f).syms) THEN work \ {f} ELSE work
  <2>1. f \in Files /\ pos \in [Files -> Nat]
    BY DEF Types, Linked
  <2> QED
    BY <1>1, <2>1 DEF NextEntry
<1>2. CASE pc \in ToResolve
  BY <1>1, <1>2 DEF ToResolve, ResolveSymbol, ByEntry, ByFile
<1>3. CASE pc = "claim"
  BY <1>1, <1>3 DEF ClaimSymbol, ByEntry, ByFile
<1>4. CASE pc \in ByFile
  <2>1. LeaveLoop(f) /\ UNCHANGED <<alive, vis>>
    BY <1>4 DEF ClearSymbols, OwnGroups, KillGroups, ConvertCommon, ApplyVersionScript,
                ParseSymbolVersion, ExportToDso, ImportExport, ByFile
  <2>2. pc \notin ByEntry /\ pos \in [Files -> Nat]
    BY <1>4 DEF ByFile, ByEntry, Types
  <2> QED
    BY <2>1, <2>2 DEF LeaveLoop
<1> QED
  BY <1>2, <1>3, <1>4 DEF ByEntry, ToResolve

(* mark_live_objects, one entry. *)
LEMMA MarkFacts ==
  ASSUME Types, Progress, Owners, NEW f \in work, MarkSymbol(f)
  PROVE  LET i == pos[f] + 1
             k == KeyOf(f, i) IN
         /\ f \in Files /\ i \in Entries(f) /\ k \in Keys
         /\ UNCHANGED <<link, pc, round, objs, dsos, pending, owner, ver, imported, exported,
                        rebound, groups, dead, converted, dropped, visited>>
         /\ alive \subseteq alive' /\ alive' \subseteq Files
         /\ pos' \in [Files -> Nat] /\ pos'[f] = i /\ \A g \in Files : g # f => pos'[g] = pos[g]
         /\ work' \subseteq Linked /\ alive' \ alive \subseteq work'
         /\ \A g \in work' : g \in (work \ {f}) \/ (g = f /\ i < Len(File(f).syms))
                             \/ (g \in alive' \ alive)
         /\ work \ {f} \subseteq work'
         /\ i < Len(File(f).syms) => f \in work'
         /\ \A g \in alive' \ alive : \E l \in Keys : Owned(l) /\ owner[l].file = g
         /\ vis' \in [Keys -> {"hidden", "protected", "default"}]
         /\ \A l \in Keys : Strictness[vis'[l]] <= Strictness[vis[l]]
         /\ ~IsDso(f) /\ <<f, i>> \notin dropped =>
              Strictness[vis'[k]] <= Strictness[merge_visibility("default", Entry(f, i).vis)]
<1> DEFINE i == pos[f] + 1
           e == Entry(f, i)
           k == KeyOf(f, i)
           v == IF ~IsUndef(e) /\ exclude_libs(f) THEN "hidden" ELSE e.vis
           found == IF <<f, i>> \notin dropped /\ keeps(f, i) THEN {owner[k].file} \ alive ELSE {}
<1>1. /\ f \in Files /\ i \in Entries(f) /\ k \in Keys /\ IsEntry(e) /\ i \in Nat
      /\ Len(File(f).syms) \in Nat /\ i <= Len(File(f).syms)
  <2>1. pc \in ByEntry \cup {"mark", "mark_lto"}
    BY DEF MarkSymbol
  <2>2. /\ f \in Files /\ i \in Entries(f) /\ k \in Keys /\ IsEntry(e) /\ pos[f] \in Nat
        /\ Len(File(f).syms) \in Nat /\ Entries(f) = 1 .. Len(File(f).syms)
    BY <2>1, NextEntryFacts
  <2> QED
    BY <2>2
<1>2. /\ UNCHANGED <<link, pc, round, objs, dsos, pending, owner, ver, imported, exported,
                     rebound, groups, dead, converted, dropped, visited>>
      /\ alive' = alive \cup found
      /\ pos' = [pos EXCEPT ![f] = i]
      /\ work' = (IF i = Len(File(f).syms) THEN work \ {f} ELSE work) \cup found
      /\ vis' = IF IsDso(f) \/ <<f, i>> \in dropped THEN vis
                ELSE [vis EXCEPT ![k] = merge_visibility(vis[k], v)]
  BY DEF MarkSymbol
<1>3. /\ found \subseteq Linked /\ found \subseteq Files /\ found \cap alive = {}
      /\ \A g \in found : \E l \in Keys : Owned(l) /\ owner[l].file = g
  <2>1. CASE <<f, i>> \notin dropped /\ keeps(f, i)
    <3>1. Owned(k) /\ owner[k].file \in Linked
      BY <1>1, <2>1 DEF keeps, Owners
    <3>2. Linked \subseteq Files
      BY DEF Types, Linked
    <3> HIDE DEF k, i
    <3> QED
      BY <1>1, <3>1, <3>2
  <2>2. CASE ~(<<f, i>> \notin dropped /\ keeps(f, i))
    BY <2>2
  <2> QED
    BY <2>1, <2>2
<1>4. v \in {"hidden", "protected", "default", "internal"}
  BY <1>1 DEF IsEntry
<1> HIDE DEF i, e, k, v, found
<1>5. /\ vis' \in [Keys -> {"hidden", "protected", "default"}]
      /\ \A l \in Keys : Strictness[vis'[l]] <= Strictness[vis[l]]
      /\ ~IsDso(f) /\ <<f, i>> \notin dropped =>
           Strictness[vis'[k]] <= Strictness[merge_visibility("default", e.vis)]
  <2>1. vis \in [Keys -> {"hidden", "protected", "default"}]
    BY DEF Types
  <2>2. \A l \in Keys : Strictness[vis[l]] <= Strictness[vis[l]]
    BY <2>1 DEF Strictness
  <2>3. CASE IsDso(f) \/ <<f, i>> \in dropped
    BY <1>2, <2>1, <2>2, <2>3
  <2>4. CASE ~IsDso(f) /\ <<f, i>> \notin dropped
    <3> DEFINE new == merge_visibility(vis[k], v)
    <3>1. vis[k] \in {"hidden", "protected", "default"}
      BY <1>1, <2>1
    <3>2. /\ new \in {"hidden", "protected", "default"} /\ Strictness[new] <= Strictness[vis[k]]
      BY <1>4, <3>1, MergeFacts
    <3>3. Strictness[new] <= Strictness[merge_visibility("default", e.vis)]
      <4>1. e.vis \in {"hidden", "protected", "default", "internal"}
        BY <1>1 DEF IsEntry
      <4>2. v = "hidden" \/ v = e.vis
        BY DEF v
      <4> QED
        BY <3>1, <4>1, <4>2, MergeFacts
    <3>4. vis' = [vis EXCEPT ![k] = new]
      BY <1>2, <2>4
    <3> HIDE DEF new
    <3>5. vis' \in [Keys -> {"hidden", "protected", "default"}] /\ vis'[k] = new
          /\ \A l \in Keys : l # k => vis'[l] = vis[l]
      BY <1>1, <2>1, <3>2, <3>4
    <3>6. ASSUME NEW l \in Keys PROVE Strictness[vis'[l]] <= Strictness[vis[l]]
      BY <2>2, <3>2, <3>5
    <3> QED
      BY <3>3, <3>5, <3>6
  <2> QED
    BY <2>3, <2>4
<1>6. pos' \in [Files -> Nat] /\ pos'[f] = i /\ \A g \in Files : g # f => pos'[g] = pos[g]
  BY <1>1, <1>2 DEF Types
<1>7. /\ work' \subseteq Linked /\ alive' \ alive \subseteq work'
      /\ \A g \in work' : g \in (work \ {f}) \/ (g = f /\ i < Len(File(f).syms))
                             \/ (g \in alive' \ alive)
      /\ work \ {f} \subseteq work'
      /\ i < Len(File(f).syms) => f \in work'
      /\ alive \subseteq alive' /\ alive' \subseteq Files
      /\ \A g \in alive' \ alive : \E l \in Keys : Owned(l) /\ owner[l].file = g
  <2>1. work \subseteq Linked /\ alive \subseteq Files /\ f \in work
    BY DEF Types
  <2>2. alive' \ alive = found
    BY <1>2, <1>3
  <2> DEFINE last == i = Len(File(f).syms)
  <2>3. i < Len(File(f).syms) <=> ~last
    BY <1>1
  <2> HIDE DEF last
  <2>4. work' = (IF last THEN work \ {f} ELSE work) \cup found /\ alive' = alive \cup found
    BY <1>2 DEF last
  <2> QED
    BY <1>3, <2>1, <2>2, <2>3, <2>4
<1> QED
  BY <1>1, <1>2, <1>5, <1>6, <1>7 DEF i, e, k

-----------------------------------------------------------------------------
(***************************************************************************)
(* Every step keeps each part of the invariant.                            *)
(***************************************************************************)
LEMMA TypesStep ==
  ASSUME IInv, [Next]_vars
  PROVE  Types'
<1>1. Types /\ Progress /\ Owners /\ Lists
  BY DEF IInv
<1>2. link' = link
  BY Steps
<1>3. /\ Files' = Files /\ Keys' = Keys /\ Signatures' = Signatures /\ IsLink(link)'
      /\ NoOwner' = NoOwner /\ Definition' = Definition
  BY <1>1, <1>2, LinkFixed DEF Types, NoOwner, Definition, IsLink
<1>4. SUFFICES /\ pc' \in Passes /\ round' \in {1, 2}
               /\ objs' \subseteq Files /\ dsos' \subseteq Files /\ alive' \subseteq Files
               /\ work' \subseteq Linked'
               /\ pos' \in [Files -> Nat]
               /\ owner' \in [Keys -> {NoOwner} \cup Definition]
               /\ vis' \in [Keys -> {"hidden", "protected", "default"}]
               /\ groups' \in [Signatures -> Nat]
               /\ exported' \subseteq Keys
  BY <1>3 DEF Types
<1>5. CASE EndLoop
  <2>1. pc' \in Passes
    BY <1>5, EndLoopPasses DEF Loops, ByEntry, ByFile, Passes, Early, Resolving, Closing, Claiming
  <2>2. work' \subseteq Linked' /\ pos' \in [Files -> Nat]
    BY <1>5, EndLoopPasses, EnterFacts
  <2> QED
    BY <1>1, <1>5, <2>1, <2>2, EndLoopPasses DEF Types
<1>6. CASE MainAction
  <2>1. pc' \in Passes
    BY <1>6, MainPasses DEF Passes, Early, Resolving, Closing, Claiming
  <2>2. work' \subseteq Linked' /\ pos' \in [Files -> Nat]
    BY <1>6, MainPasses, EnterFacts
  <2>3. CASE MarkRoots
    <3>1. alive' \subseteq Files
      <4>1. ASSUME NEW k \in Keys, Owned(k) PROVE owner[k].file \in Files
        BY <1>1, <4>1 DEF Types, Owned, Definition
      <4> QED
        BY <1>1, <2>3, <4>1 DEF MarkRoots, Types
    <3> QED
      BY <1>1, <2>1, <2>2, <2>3, <3>1 DEF Types, MarkRoots
  <2>4. CASE EraseUnused
    BY <1>1, <2>1, <2>2, <2>4 DEF Types, EraseUnused
  <2>5. CASE DoLto
    <3>1. clear_symbols(Files)
      BY <2>5 DEF DoLto
    <3>2. owner' \in [Keys -> {NoOwner} \cup Definition] /\ exported' \subseteq exported
      BY <1>1, <3>1, ClearOwner
    <3>3. objs' \subseteq Files /\ dsos' \subseteq Files /\ alive' \subseteq Files /\ round' = 2
          /\ UNCHANGED <<vis, groups>>
      BY <1>1, <2>5 DEF DoLto, Types
    <3> QED
      BY <1>1, <2>1, <2>2, <3>2, <3>3 DEF Types
  <2>6. CASE KillEhFrame
    BY <1>1, <2>1, <2>2, <2>6 DEF Types, KillEhFrame
  <2>7. CASE GcRoots
    BY <1>1, <2>1, <2>2, <2>7 DEF Types, GcRoots
  <2>8. CASE GcSweep
    BY <1>1, <2>1, <2>2, <2>8 DEF Types, GcSweep
  <2>9. CASE CheckDuplicates
    BY <1>1, <2>1, <2>2, <2>9 DEF Types, CheckDuplicates
  <2>10. CASE Finish
    BY <1>1, <2>1, <2>2, <2>10 DEF Types, Finish
  <2> QED
    BY <1>6, <2>3, <2>4, <2>5, <2>6, <2>7, <2>8, <2>9, <2>10 DEF MainAction
<1>7. ASSUME NEW f \in work, ByFileAction(f)
      PROVE  /\ pc' \in Passes /\ round' \in {1, 2}
             /\ objs' \subseteq Files /\ dsos' \subseteq Files /\ alive' \subseteq Files
             /\ work' \subseteq Linked'
             /\ pos' \in [Files -> Nat]
             /\ owner' \in [Keys -> {NoOwner} \cup Definition]
             /\ vis' \in [Keys -> {"hidden", "protected", "default"}]
             /\ groups' \in [Signatures -> Nat]
             /\ exported' \subseteq Keys
  <2>1. /\ pc' \in Passes /\ round' \in {1, 2}
        /\ objs' \subseteq Files /\ dsos' \subseteq Files /\ Linked' = Linked /\ pc' = pc
        /\ f \in Files /\ pc \in Loops
    BY <1>1, <1>7, FilePasses DEF Types, Linked
  <2>2. CASE pc \in {"mark", "mark_lto"}
    <3>1. MarkSymbol(f)
      BY <1>7, <2>2, FilePasses
    <3>2. /\ alive' \subseteq Files /\ pos' \in [Files -> Nat] /\ work' \subseteq Linked
          /\ vis' \in [Keys -> {"hidden", "protected", "default"}]
          /\ UNCHANGED <<owner, groups, exported>>
      BY <1>1, <3>1, MarkFacts
    <3> QED
      BY <1>1, <2>1, <3>2 DEF Types
  <2>3. CASE pc \in ByEntry \cup ByFile
    <3>1. /\ UNCHANGED <<alive, vis>> /\ pos' \in [Files -> Nat] /\ work' \subseteq work
      BY <1>1, <1>7, <2>3, LoopStep
    <3>2. SUFFICES /\ owner' \in [Keys -> {NoOwner} \cup Definition]
                   /\ groups' \in [Signatures -> Nat] /\ exported' \subseteq Keys
      BY <1>1, <2>1, <3>1 DEF Types
    <3>3. CASE pc \in ToResolve
      <4>1. ResolveSymbol(f)
        BY <1>7, <3>3, FilePasses DEF ToResolve
      <4>2. owner' \in [Keys -> {NoOwner} \cup Definition]
        BY <1>1, <4>1, ResolveOwner
      <4> QED
        BY <1>1, <4>1, <4>2 DEF ResolveSymbol, Types
    <3>4. CASE pc \in ToClear
      <4>1. ClearSymbols(f) /\ clear_symbols({f}) /\ UNCHANGED groups
        BY <1>7, <3>4, FilePasses DEF ToClear, ClearSymbols
      <4>2. owner' \in [Keys -> {NoOwner} \cup Definition] /\ exported' \subseteq exported
        BY <1>1, <4>1, ClearOwner
      <4> QED
        BY <1>1, <4>1, <4>2 DEF Types
    <3>5. CASE pc = "comdat_own"
      <4>1. OwnGroups(f)
        BY <1>7, <3>5, FilePasses
      <4>2. /\ groups' = [g \in Signatures |-> IF g \in GroupsOf(f)
                                     THEN Min({groups[g], priority(f)}) ELSE groups[g]]
            /\ UNCHANGED <<owner, exported>>
        BY <4>1 DEF OwnGroups
      <4>3. priority(f) \in Nat /\ groups \in [Signatures -> Nat]
        BY <1>1, <2>1, FileFacts DEF Types
      <4>4. ASSUME NEW g \in Signatures PROVE groups'[g] \in Nat
        BY <4>2, <4>3, MinFacts
      <4> QED
        BY <1>1, <4>2, <4>4 DEF Types
    <3>6. CASE pc = "comdat_kill"
      BY <1>1, <1>7, <3>6, FilePasses DEF KillGroups, Types
    <3>7. CASE pc = "convert"
      <4>1. ConvertCommon(f)
        BY <1>7, <3>7, FilePasses
      <4>2. owner' \in [Keys -> {NoOwner} \cup Definition]
        BY <1>1, <2>1, <4>1, ConvertOwner
      <4> QED
        BY <1>1, <4>1, <4>2 DEF ConvertCommon, Types
    <3>8. CASE pc = "script"
      BY <1>1, <1>7, <3>8, FilePasses DEF ApplyVersionScript, Types
    <3>9. CASE pc = "parse_version"
      BY <1>1, <1>7, <3>9, FilePasses DEF ParseSymbolVersion, Types
    <3>10. CASE pc = "export_dsos"
      <4>1. {KeyOf(f, i) : i \in Entries(f)} \subseteq Keys
        BY <1>1, <2>1, FileFacts DEF Types
      <4>2. exported' \subseteq exported \cup {KeyOf(f, i) : i \in Entries(f)}
            /\ UNCHANGED <<owner, groups>>
        BY <1>7, <3>10, FilePasses DEF ExportToDso
      <4> QED
        BY <1>1, <4>1, <4>2 DEF Types
    <3>11. CASE pc = "export_objs"
      <4>1. {KeyOf(f, i) : i \in Entries(f)} \subseteq Keys
        BY <1>1, <2>1, FileFacts DEF Types
      <4>2. exported' \subseteq exported \cup {KeyOf(f, i) : i \in Entries(f)}
            /\ UNCHANGED <<owner, groups>>
        <5> DEFINE named == {k \in {KeyOf(f, i) : i \in {i \in Entries(f) : <<f, i>> \notin dropped}} :
                              Owned(k) /\ vis[k] # "hidden" /\ ver[k] # "local"}
        <5>1. /\ exported' = exported \cup {k \in named : owner[k].file = f}
              /\ UNCHANGED <<owner, groups>>
          BY <1>7, <3>11, FilePasses DEF ImportExport, compute_import_export
        <5>2. named \subseteq {KeyOf(f, i) : i \in Entries(f)}
          OBVIOUS
        <5> QED
          BY <5>1, <5>2
      <4> QED
        BY <1>1, <4>1, <4>2 DEF Types
    <3>12. CASE pc = "claim"
      <4>1. ClaimSymbol(f)
        BY <1>7, <3>12, FilePasses
      <4>2. owner' \in [Keys -> {NoOwner} \cup Definition] /\ exported' \subseteq exported
        BY <1>1, <4>1, ClaimOwner
      <4> QED
        BY <1>1, <4>1, <4>2 DEF ClaimSymbol, Types
    <3> QED
      BY <2>3, <3>3, <3>4, <3>5, <3>6, <3>7, <3>8, <3>9, <3>10, <3>11, <3>12
         DEF ByEntry, ByFile, ToResolve, ToClear
  <2> QED
    BY <2>1, <2>2, <2>3 DEF Loops
<1>8. CASE \E s \in pending : VisitSection(s)
  BY <1>1, <1>8 DEF VisitSection, Types, Linked
<1>9. CASE UNCHANGED vars
  BY <1>1, <1>9 DEF vars, Types, Linked
<1> QED
  BY <1>5, <1>6, <1>7, <1>8, <1>9, Steps

(* Only do_lto makes lists anew and starts the second round. *)
LEMMA Frame ==
  ASSUME IInv, [Next]_vars
  PROVE  \/ DoLto
         \/ /\ UNCHANGED <<link, round, dropped>> /\ (ForLto' <=> ForLto)
            /\ objs' \subseteq objs /\ dsos' \subseteq dsos /\ alive \subseteq alive'
            /\ pc # "erase" => UNCHANGED <<objs, dsos>>
            /\ pc = "erase" /\ pc' # pc => objs' \subseteq alive' /\ dsos' \subseteq alive'
            /\ pc \notin {"mark_roots", "mark", "mark_roots_lto", "mark_lto"} => UNCHANGED alive
            /\ \A f : Present(f)' = Present(f) /\ GroupsOf(f)' = GroupsOf(f)
<1>1. Types /\ Progress /\ Owners
  BY DEF IInv
<1>2. SUFFICES ASSUME ~DoLto
               PROVE  /\ UNCHANGED <<link, round, dropped>>
                      /\ objs' \subseteq objs /\ dsos' \subseteq dsos /\ alive \subseteq alive'
                      /\ pc # "erase" => UNCHANGED <<objs, dsos>>
                      /\ pc = "erase" /\ pc' # pc => objs' \subseteq alive' /\ dsos' \subseteq alive'
                      /\ pc \notin {"mark_roots", "mark", "mark_roots_lto", "mark_lto"} => UNCHANGED alive
  <2>1. ASSUME UNCHANGED <<link, round, dropped>>
        PROVE  (ForLto' <=> ForLto) /\ \A f : Present(f)' = Present(f) /\ GroupsOf(f)' = GroupsOf(f)
    BY <2>1 DEF ForLto, Present, GroupsOf, Files, File, Entries, Entry
  <2> QED
    BY <2>1
<1>3. CASE EndLoop
  BY <1>3, EndLoopPasses DEF Loops, ByEntry, ByFile
<1>4. CASE MainAction
  BY <1>2, <1>4, MainPasses
     DEF MarkRoots, EraseUnused, KillEhFrame, GcRoots, GcSweep, CheckDuplicates, Finish
<1>5. CASE \E f \in work : ByFileAction(f)
  <2>1. PICK f \in work : ByFileAction(f)
    BY <1>5
  <2>2. UNCHANGED <<link, round, dropped, objs, dsos>> /\ pc \in Loops /\ pc # "erase"
    BY <2>1, FilePasses DEF Loops, ByEntry, ByFile
  <2>3. CASE pc \in {"mark", "mark_lto"}
    BY <1>1, <2>1, <2>2, <2>3, FilePasses, MarkFacts
  <2>4. CASE pc \in ByEntry \cup ByFile
    BY <1>1, <2>1, <2>2, <2>4, LoopStep
  <2> QED
    BY <2>2, <2>3, <2>4 DEF Loops
<1>6. CASE \E s \in pending : VisitSection(s)
  BY <1>6 DEF VisitSection
<1>7. CASE UNCHANGED vars
  BY <1>7 DEF vars
<1> QED
  BY <1>3, <1>4, <1>5, <1>6, <1>7, Steps

LEMMA ListsStep ==
  ASSUME IInv, [Next]_vars
  PROVE  Lists'
<1>1. Types /\ Lists /\ Progress /\ Owners
  BY DEF IInv
<1>2. link' = link
  BY Steps
<1>3. /\ Files' = Files /\ \A f : (IsDso(f)' <=> IsDso(f)) /\ File(f)' = File(f) /\ Entries(f)' = Entries(f)
      /\ \A f, i : Entry(f, i)' = Entry(f, i)
  BY <1>2, LinkFixed
<1>4. CASE DoLto
  <2>1. /\ pc' = "register_objs" /\ round' = 2
        /\ objs' = {f \in Files : ~IsDso(f) /\ ~File(f).ir}
        /\ dsos' = {f \in Files : IsDso(f)}
    BY <1>4 DEF DoLto, Enter
  <2>2. ASSUME NEW f \in Files, NEW i \in Entries(f), <<f, i>> \in dropped'
        PROVE  File(f).native /\ ~IsUndef(Entry(f, i))
    <3>1. dropped' \subseteq UNION {{h} \X {j \in Entries(h) : ~IsUndef(Entry(h, j))} :
                                   h \in {h \in Files : File(h).native}}
      BY <1>4 DEF DoLto
    <3> QED
      BY <2>2, <3>1
  <2>3. /\ \A f \in objs' : ~IsDso(f)
        /\ \A f \in dsos' : IsDso(f)
    BY <2>1
  <2>4. pc' \in Early /\ pc' \notin {"mark_roots_lto", "mark_lto", "do_lto"}
        /\ pc' \notin {"kill_eh_frame", "convert", "gc_roots", "gc_mark", "duplicates"} \cup Claiming
    BY <2>1 DEF Early, Claiming
  <2> QED
    BY <1>3, <2>1, <2>2, <2>3, <2>4 DEF Lists, IsUndef
<1>5. CASE ~DoLto
  <2>1. /\ UNCHANGED <<link, round, dropped>> /\ (ForLto' <=> ForLto)
        /\ objs' \subseteq objs /\ dsos' \subseteq dsos /\ alive \subseteq alive'
        /\ pc # "erase" => UNCHANGED <<objs, dsos>>
        /\ pc = "erase" /\ pc' # pc => objs' \subseteq alive' /\ dsos' \subseteq alive'
    BY <1>5, Frame
  <2>2. /\ \A f \in objs' : ~IsDso(f)'
        /\ \A f \in dsos' : IsDso(f)'
        /\ round' = 1 => dropped' = {} /\ \A f \in objs' : ~File(f)'.native
        /\ \A f \in Files' : \A i \in Entries(f)' : <<f, i>> \in dropped' =>
             File(f)'.native /\ ~IsUndef(Entry(f, i))'
    BY <1>1, <1>3, <2>1 DEF Lists, IsUndef
  <2>3. /\ pc' \in {"mark_roots_lto", "mark_lto", "do_lto"} => ForLto'
        /\ pc' \in {"kill_eh_frame", "convert", "gc_roots", "gc_mark", "duplicates"} \cup Claiming => ~ForLto'
    <3>1. CASE pc' = pc
      BY <1>1, <2>1, <3>1 DEF Lists
    <3>2. CASE EndLoop
      BY <1>1, <2>1, <3>2, EndLoopPasses DEF Lists, Loops, ByEntry, ByFile, Claiming
    <3>3. CASE MainAction
      BY <1>1, <2>1, <3>3, MainPasses DEF Lists, Claiming
    <3> QED
      BY <3>1, <3>2, <3>3, Steps, FilePasses DEF VisitSection, vars
  <2>4. pc' \notin Early => pc \notin Early \/ (pc = "erase" /\ pc' # pc)
    <3>1. CASE pc' = pc
      BY <3>1
    <3>2. CASE EndLoop
      BY <3>2, EndLoopPasses DEF Early, Loops, ByEntry, ByFile
    <3>3. CASE MainAction
      BY <3>3, MainPasses DEF Early
    <3> QED
      BY <3>1, <3>2, <3>3, Steps, FilePasses DEF VisitSection, vars
  <2>5. pc' \notin Early => Linked' \subseteq alive'
    BY <1>1, <2>1, <2>4 DEF Lists, Linked
  <2> QED
    BY <2>2, <2>3, <2>5 DEF Lists
<1> QED
  BY <1>4, <1>5

LEMMA ProgressStep ==
  ASSUME IInv, [Next]_vars
  PROVE  Progress'
<1>1. Types /\ Lists /\ Progress /\ Owners
  BY DEF IInv
<1>2. link' = link
  BY Steps
<1>3. /\ Files' = Files /\ \A f : File(f)' = File(f)
  BY <1>2, LinkFixed
<1>4. ASSUME Enter(pc'), work' \subseteq Files
      PROVE  Progress'
  <2>1. ASSUME NEW f \in Files, Len(File(f).syms) > 0 PROVE 0 < Len(File(f).syms)
    BY <1>1, <2>1, FileFacts DEF Types
  <2>2. /\ pc' \in ByEntry \cup {"mark", "mark_lto"} => \A f \in work' : pos'[f] < Len(File(f).syms)
    BY <1>4, <2>1, EnterFacts
  <2>3. pc' \in {"mark", "mark_lto"} => work' \subseteq alive' /\ \A f \in Files : pos'[f] = 0
    BY <1>4, EnterFacts
  <2>4. /\ pc' \notin Loops => work' = {}
        /\ pc' \in OverDsos => work' \subseteq dsos'
        /\ pc' \in (ByEntry \cup ByFile) \ OverDsos => work' \subseteq objs'
    BY <1>4, EnterFacts
  <2> QED
    BY <1>3, <2>2, <2>3, <2>4 DEF Progress
<1>5. work' \subseteq Files
  BY <1>3, TypesStep DEF Types, Linked
<1>6. CASE EndLoop \/ MainAction
  BY <1>4, <1>5, <1>6, EndLoopPasses, MainPasses
<1>7. ASSUME NEW f \in work, ByFileAction(f) PROVE Progress'
  <2>1. UNCHANGED <<pc, objs, dsos>> /\ pc \in Loops /\ f \in Files
    BY <1>1, <1>7, FilePasses DEF Types, Linked
  <2>2. CASE pc \in {"mark", "mark_lto"}
    <3>1. MarkSymbol(f)
      BY <1>7, <2>2, FilePasses
    <3>2. pc \notin OverDsos \cup ByEntry \cup ByFile
      BY <2>2 DEF OverDsos, ByEntry, ByFile
    <3>3. /\ alive \subseteq alive' /\ pos'[f] = pos[f] + 1
          /\ \A g \in Files : g # f => pos'[g] = pos[g]
          /\ \A g \in work' : g \in (work \ {f}) \/ (g = f /\ pos[f] + 1 < Len(File(f).syms))
                              \/ (g \in alive' \ alive)
      BY <1>1, <3>1, MarkFacts
    <3>4. ASSUME NEW g \in work' PROVE pos'[g] < Len(File(g).syms) /\ g \in alive'
      <4>1. g \in Files
        BY <1>5
      <4>2. CASE g \in work \ {f}
        BY <1>1, <2>2, <3>3, <4>1, <4>2 DEF Progress
      <4>3. CASE g = f /\ pos[f] + 1 < Len(File(f).syms)
        BY <1>1, <2>2, <3>3, <4>3 DEF Progress
      <4>4. CASE g \in alive' \ alive
        <5>1. pos[g] = 0 /\ g # f
          BY <1>1, <2>2, <4>1, <4>4 DEF Progress
        <5>2. PICK k \in Keys : Owned(k) /\ owner[k].file = g
          BY <1>1, <3>1, <4>4, MarkFacts
        <5>3. owner[k].idx \in Entries(g)
          BY <1>1, <5>2 DEF Owners
        <5>4. 0 < Len(File(g).syms)
          <6>1. Len(File(g).syms) \in Nat /\ owner[k].idx \in 1 .. Len(File(g).syms)
            BY <1>1, <4>1, <5>3, FileFacts DEF Types
          <6> QED
            BY <6>1
        <5> QED
          BY <3>3, <4>1, <4>4, <5>1, <5>4
      <4> QED
        BY <3>3, <4>2, <4>3, <4>4
    <3>5. ASSUME NEW g \in Files \ alive' PROVE pos'[g] = 0
      <4>1. g \notin alive /\ g # f
        BY <1>1, <2>2, <3>3 DEF Progress
      <4> QED
        BY <1>1, <2>2, <3>3, <4>1 DEF Progress
    <3> QED
      BY <1>3, <2>1, <2>2, <3>2, <3>4, <3>5 DEF Progress
  <2>3. CASE pc \in ByEntry \cup ByFile
    <3>1. /\ work' \subseteq work
          /\ pc \in ByEntry =>
              /\ pos'[f] = pos[f] + 1 /\ \A g \in Files : g # f => pos'[g] = pos[g]
              /\ work' = IF pos'[f] >= Len(File(f).syms) THEN work \ {f} ELSE work
      BY <1>1, <1>7, <2>3, LoopStep
    <3>2. ASSUME pc \in ByEntry, NEW g \in work' PROVE pos'[g] < Len(File(g).syms)
      <4>1. g \in work /\ g \in Files
        BY <1>5, <3>1, <3>2
      <4>2. CASE g # f
        BY <1>1, <3>1, <3>2, <4>1, <4>2 DEF Progress
      <4>3. CASE g = f
        <5>1. pos[f] \in Nat /\ Len(File(f).syms) \in Nat
          BY <1>1, <2>1, FileFacts DEF Types
        <5>2. ~(pos'[f] >= Len(File(f).syms))
          BY <3>1, <3>2, <4>3
        <5> QED
          BY <3>1, <3>2, <4>3, <5>1, <5>2
      <4> QED
        BY <4>2, <4>3
    <3>3. pc \notin {"mark", "mark_lto"}
      BY <2>3 DEF ByEntry, ByFile
    <3> QED
      BY <1>1, <1>3, <2>1, <3>1, <3>2, <3>3 DEF Progress
  <2> QED
    BY <2>1, <2>2, <2>3 DEF Loops
<1>8. CASE \E s \in pending : VisitSection(s)
  <2>1. UNCHANGED <<pc, objs, dsos, work, pos>> /\ pc = "gc_mark"
    BY <1>8 DEF VisitSection
  <2>2. pc \notin Loops \cup OverDsos
    BY <2>1 DEF Loops, ByEntry, ByFile, OverDsos
  <2> QED
    BY <1>1, <2>1, <2>2 DEF Progress, Loops
<1>9. CASE UNCHANGED vars
  <2>1. UNCHANGED <<pc, objs, dsos, work, pos, alive>>
    BY <1>9 DEF vars
  <2> QED
    BY <1>1, <1>3, <2>1 DEF Progress
<1> QED
  BY <1>6, <1>7, <1>8, <1>9, Steps

(* The owner of a symbol changes only to nobody, when symbols are cleared, or *)
(* to an entry of the file at work.                                           *)
LEMMA OwnerStep ==
  ASSUME Types, Progress, NEW f \in work, ByFileAction(f), NEW k \in Keys
  PROVE  \/ owner'[k] = owner[k] /\ (pc \in ToClear => owner[k].file # f \/ ~Owned(k))
         \/ owner'[k] = NoOwner /\ pc \in ToClear
         \/ /\ pc \in ToResolve \cup {"convert", "claim"}
            /\ \E i \in Entries(f) : /\ owner'[k] = [file |-> f, idx |-> i] /\ KeyOf(f, i) = k
                                     /\ pc # "claim" => ~IsUndef(Entry(f, i))
<1>1. pc \in Loops /\ f \in Files
  BY FilePasses DEF Types, Linked
<1>2. CASE pc \in ToResolve
  <2>1. ResolveSymbol(f)
    BY <1>2, FilePasses DEF ToResolve
  <2>2. pc \notin ToClear /\ (Eligible(f, Entry(f, pos[f] + 1)) => ~IsUndef(Entry(f, pos[f] + 1)))
    BY <1>2 DEF ToClear, ToResolve, Eligible
  <2> QED
    BY <1>2, <2>1, <2>2, ResolveOwner
<1>3. CASE pc \in ToClear
  <2>1. clear_symbols({f})
    BY <1>3, FilePasses DEF ClearSymbols, ToClear
  <2> QED
    BY <1>3, <2>1, ClearOwner DEF Owned
<1>4. CASE pc = "convert"
  <2>1. \/ owner'[k] = owner[k]
        \/ \E i \in MineCommon(f) : KeyOf(f, i) = k /\ owner'[k] = [file |-> f, idx |-> i]
    BY <1>1, <1>4, FilePasses, ConvertOwner
  <2>2. \A i \in MineCommon(f) : i \in Entries(f) /\ ~IsUndef(Entry(f, i))
    BY DEF MineCommon, IsUndef
  <2>3. pc \notin ToClear
    BY <1>4 DEF ToClear
  <2> QED
    BY <1>4, <2>1, <2>2, <2>3
<1>5. CASE pc = "claim"
  <2>1. ClaimSymbol(f) /\ pc \notin ToClear
    BY <1>5, FilePasses DEF ToClear
  <2> QED
    BY <1>5, <2>1, ClaimOwner
<1>6. CASE pc \in {"mark", "mark_lto", "comdat_own", "comdat_kill", "script", "parse_version",
                   "export_dsos", "export_objs"}
  <2>1. owner' = owner
    BY <1>6, FilePasses DEF MarkSymbol, OwnGroups, KillGroups, ApplyVersionScript,
       ParseSymbolVersion, ExportToDso, ImportExport
  <2>2. pc \notin ToClear
    BY <1>6 DEF ToClear
  <2> QED
    BY <2>1, <2>2
<1> QED
  BY <1>1, <1>2, <1>3, <1>4, <1>5, <1>6 DEF Loops, ByEntry, ByFile, ToResolve, ToClear

(* Outside the loops only do_lto changes an owner. *)
LEMMA OwnerKept ==
  ASSUME EndLoop \/ MainAction \/ (\E s \in pending : VisitSection(s)) \/ UNCHANGED vars, ~DoLto
  PROVE  UNCHANGED <<owner, vis>> /\ UNCHANGED <<ver, exported, imported, rebound, groups, converted>>
<1>1. CASE EndLoop
  BY <1>1, EndLoopPasses
<1>2. CASE MainAction
  BY <1>2 DEF MainAction, MarkRoots, EraseUnused, KillEhFrame, GcRoots, GcSweep, CheckDuplicates, Finish
<1>3. CASE \E s \in pending : VisitSection(s)
  BY <1>3 DEF VisitSection
<1>4. CASE UNCHANGED vars
  BY <1>4 DEF vars
<1> QED
  BY <1>1, <1>2, <1>3, <1>4

LEMMA OwnersStep ==
  ASSUME IInv, [Next]_vars
  PROVE  Owners'
<1>1. Types /\ Lists /\ Progress /\ Owners
  BY DEF IInv
<1>2. link' = link
  BY Steps
<1>3. /\ Files' = Files /\ Keys' = Keys /\ \A f : Entries(f)' = Entries(f)
      /\ \A f, i : KeyOf(f, i)' = KeyOf(f, i) /\ (IsUndef(Entry(f, i))' <=> IsUndef(Entry(f, i)))
      /\ \A k : Owned(k)' <=> owner'[k] # NoOwner
      /\ \A k : IsUndef(EsymOf(k))' <=> IsUndef(Entry(owner'[k].file, owner'[k].idx))
  <2>1. /\ Files' = Files /\ Keys' = Keys /\ \A f : Entries(f)' = Entries(f)
        /\ \A f, i : KeyOf(f, i)' = KeyOf(f, i) /\ Entry(f, i)' = Entry(f, i)
    BY <1>2, LinkFixed
  <2>2. /\ \A f, i : (IsUndef(Entry(f, i))' <=> IsUndef(Entry(f, i)))
        /\ \A k : Owned(k)' <=> owner'[k] # NoOwner
        /\ \A k : IsUndef(EsymOf(k))' <=> IsUndef(Entry(owner'[k].file, owner'[k].idx))
    BY <2>1 DEF IsUndef, Owned, NoOwner, EsymOf
  <2> QED
    BY <2>1, <2>2
<1>4. SUFFICES ASSUME NEW k \in Keys, owner'[k] # NoOwner
               PROVE  /\ owner'[k].file \in Linked'
                      /\ owner'[k].idx \in Entries(owner'[k].file)
                      /\ KeyOf(owner'[k].file, owner'[k].idx) = k
                      /\ pc' \notin Claiming => ~IsUndef(Entry(owner'[k].file, owner'[k].idx))
                      /\ pc' = "clear_objs" => owner'[k].file \in work' \cup dsos'
                      /\ pc' = "clear_dsos" => owner'[k].file \in work'
                      /\ pc' \notin {"erase", "comdat_own", "comdat_kill"}
  BY <1>3 DEF Owners
<1>5. Owned(k) => /\ owner[k].file \in Linked
                  /\ owner[k].idx \in Entries(owner[k].file)
                  /\ KeyOf(owner[k].file, owner[k].idx) = k
                  /\ pc \notin Claiming => ~IsUndef(Entry(owner[k].file, owner[k].idx))
                  /\ pc = "clear_objs" => owner[k].file \in work \cup dsos
                  /\ pc = "clear_dsos" => owner[k].file \in work
                  /\ pc \notin {"erase", "comdat_own", "comdat_kill"}
  BY <1>1 DEF Owners, EsymOf
<1>6. CASE DoLto
  <2>1. owner'[k] = IF owner[k].file \in Files THEN NoOwner ELSE owner[k]
    BY <1>1, <1>6, ClearOwner DEF DoLto
  <2>2. Owned(k) => owner[k].file \in Files
    BY <1>1, <1>5 DEF Types, Linked
  <2> QED
    BY <1>4, <2>1, <2>2 DEF Owned
<1>7. CASE ~DoLto /\ (EndLoop \/ MainAction)
  <2>1. owner'[k] = owner[k] /\ Owned(k)
    BY <1>4, <1>7, OwnerKept DEF Owned
  <2>2. Linked' = Linked /\ dsos' = dsos /\ objs' = objs
    BY <1>5, <1>7, <2>1, Frame DEF Linked
  <2>3. pc' \notin Claiming => pc \notin Claiming
    <3>1. CASE EndLoop
      BY <3>1, EndLoopPasses DEF Claiming, Loops, ByEntry, ByFile
    <3>2. CASE MainAction
      BY <3>2, MainPasses DEF Claiming
    <3> QED
      BY <1>7, <3>1, <3>2
  <2>4. CASE EndLoop
    <3>1. /\ pc' = "clear_objs" => work' = objs'
          /\ pc' = "clear_dsos" => work' = dsos'
      BY <2>4, EndLoopPasses, EnterFacts DEF ByFile, OverDsos
    <3>2. /\ pc' = "clear_dsos" => pc = "clear_objs"
          /\ pc' = "erase" => pc = "clear_dsos"
          /\ pc' # "comdat_own" /\ (pc' = "comdat_kill" => pc = "comdat_own")
      BY <2>4, EndLoopPasses DEF Loops, ByEntry, ByFile
    <3>3. work = {}
      BY <2>4, EndLoopPasses
    <3> QED
      BY <1>5, <2>1, <2>2, <2>3, <3>1, <3>2, <3>3 DEF Linked
  <2>5. CASE MainAction
    BY <1>5, <2>1, <2>2, <2>3, <2>5, MainPasses
  <2> QED
    BY <1>7, <2>4, <2>5
<1>8. ASSUME NEW f \in work, ByFileAction(f)
      PROVE  /\ owner'[k].file \in Linked'
             /\ owner'[k].idx \in Entries(owner'[k].file)
             /\ KeyOf(owner'[k].file, owner'[k].idx) = k
             /\ pc' \notin Claiming => ~IsUndef(Entry(owner'[k].file, owner'[k].idx))
             /\ pc' = "clear_objs" => owner'[k].file \in work' \cup dsos'
             /\ pc' = "clear_dsos" => owner'[k].file \in work'
             /\ pc' \notin {"erase", "comdat_own", "comdat_kill"}
  <2>1. pc' = pc /\ Linked' = Linked /\ dsos' = dsos /\ f \in Linked
    BY <1>1, <1>8, FilePasses DEF Linked, Types
  <2>2. CASE owner'[k] = owner[k] /\ (pc \in ToClear => owner[k].file # f \/ ~Owned(k))
    <3>1. Owned(k)
      BY <1>4, <2>2 DEF Owned
    <3>2. pc \in ToClear => work' = work \ {f}
      BY <1>1, <1>8, LoopStep DEF ToClear, ByFile
    <3> QED
      BY <1>5, <2>1, <2>2, <3>1, <3>2 DEF ToClear
  <2>3. CASE /\ pc \in ToResolve \cup {"convert", "claim"}
             /\ \E i \in Entries(f) : /\ owner'[k] = [file |-> f, idx |-> i] /\ KeyOf(f, i) = k
                                      /\ pc # "claim" => ~IsUndef(Entry(f, i))
    BY <2>1, <2>3 DEF ToResolve, Claiming
  <2> QED
    BY <1>1, <1>4, <1>8, <2>2, <2>3, OwnerStep
<1>9. CASE (\E s \in pending : VisitSection(s)) \/ UNCHANGED vars
  <2>1. UNCHANGED <<pc, owner, objs, dsos, work>>
    BY <1>9 DEF VisitSection, vars
  <2> QED
    BY <1>4, <1>5, <2>1 DEF Owned, Linked
<1> QED
  BY <1>6, <1>7, <1>8, <1>9, Steps

(* Once the lists are cut down, the rank of a symbol is that of its owner. *)
LEMMA OwnerRank ==
  ASSUME Types, Lists, Owners, pc \notin Early
  PROVE  /\ \A f \in Linked : \A i : get_rank(f, Entry(f, i), ~IsDso(f) /\ f \notin alive) = Rank(f, i)
         /\ \A k \in Keys : IF Owned(k) THEN symbol_rank(k) = Rank(owner[k].file, owner[k].idx)
                            ELSE symbol_rank(k) = 7 * RankShift
<1>1. Linked \subseteq alive
  BY DEF Lists
<1>2. ASSUME NEW f \in Linked, NEW i
      PROVE  get_rank(f, Entry(f, i), ~IsDso(f) /\ f \notin alive) = Rank(f, i)
  <2>1. (~IsDso(f) /\ f \notin alive) = FALSE
    BY <1>1
  <2> QED
    BY <2>1 DEF Rank
<1>3. ASSUME NEW k \in Keys, Owned(k) PROVE symbol_rank(k) = Rank(owner[k].file, owner[k].idx)
  <2>1. owner[k].file \in alive
    BY <1>1, <1>3 DEF Owners
  <2>2. (owner[k].file \notin alive) = FALSE
    BY <2>1
  <2> QED
    BY <1>3, <2>2 DEF symbol_rank, Rank, EsymOf
<1> QED
  BY <1>2, <1>3 DEF symbol_rank

LEMMA BestStep ==
  ASSUME IInv, [Next]_vars
  PROVE  Best'
<1>1. Types /\ Lists /\ Progress /\ Owners /\ Best
  BY DEF IInv
<1>2. link' = link
  BY Steps
<1>3. /\ Files' = Files /\ Keys' = Keys /\ \A f : Entries(f)' = Entries(f) /\ File(f)' = File(f)
      /\ \A f, i : KeyOf(f, i)' = KeyOf(f, i) /\ Entry(f, i)' = Entry(f, i) /\ Rank(f, i)' = Rank(f, i)
      /\ \A f : IsDso(f)' <=> IsDso(f)
  BY <1>2, LinkFixed
<1>4. /\ \A k : Owned(k)' <=> owner'[k] # NoOwner
      /\ \A k : EsymOf(k)' = Entry(owner'[k].file, owner'[k].idx)
  BY <1>3 DEF Owned, NoOwner, EsymOf
<1>5. SUFFICES ASSUME pc' \in Resolving PROVE Best'
  BY DEF Best
<1>6. ~DoLto
  BY <1>5 DEF DoLto, Enter, Resolving
<1>7. \A f : Present(f)' = Present(f)
  BY <1>6, Frame
<1>8. dead' = dead /\ \A f, i : Eligible(f, Entry(f, i))' <=> Eligible(f, Entry(f, i))
  <2>1. dead' = dead
    <3>1. CASE EndLoop
      BY <3>1, EndLoopPasses
    <3>2. CASE MainAction
      BY <1>5, <3>2, MainPasses DEF Resolving
    <3>3. CASE \E f \in work : ByFileAction(f)
      BY <1>5, <3>3, FilePasses DEF Resolving, ResolveSymbol, Loops, ByEntry, ByFile
    <3>4. CASE (\E s \in pending : VisitSection(s)) \/ UNCHANGED vars
      BY <3>4 DEF VisitSection, vars
    <3> QED
      BY <3>1, <3>2, <3>3, <3>4, Steps
  <2> QED
    BY <1>2, <2>1 DEF Eligible, IsDso, File, Entry, IsUndef, is_abs
<1>9. dropped' = dropped /\ Linked' = Linked /\ objs' = objs /\ dsos' = dsos
  <2>1. pc # "erase"
    <3>1. CASE pc' = pc
      BY <1>5, <3>1 DEF Resolving
    <3>2. CASE EndLoop
      BY <3>2, EndLoopPasses DEF Loops, ByEntry, ByFile
    <3>3. CASE MainAction
      BY <1>5, <3>3, MainPasses DEF Resolving
    <3> QED
      BY <3>1, <3>2, <3>3, Steps, FilePasses DEF VisitSection, vars
  <2> QED
    BY <1>6, <2>1, Frame DEF Linked
<1>10. \A f \in Linked : \A i \in Present(f) : i \in 1 .. Len(File(f).syms) /\ Len(File(f).syms) \in Nat
  BY <1>1, FileFacts DEF Types, Linked, Present
<1> DEFINE Fine(k) == /\ <<owner'[k].file, owner'[k].idx>> \notin dropped
                      /\ Eligible(owner'[k].file, Entry(owner'[k].file, owner'[k].idx))
           Beaten(f, i) == /\ owner'[KeyOf(f, i)] # NoOwner
                           /\ Rank(owner'[KeyOf(f, i)].file, owner'[KeyOf(f, i)].idx) <= Rank(f, i)
<1>11. SUFFICES /\ \A k \in Keys : owner'[k] # NoOwner => Fine(k)
                /\ \A f \in Linked : \A i \in Present(f) :
                     Seen(f, i)' /\ Eligible(f, Entry(f, i)) => Beaten(f, i)
  BY <1>3, <1>4, <1>7, <1>8, <1>9 DEF Best
<1>12. pc \in Resolving =>
         /\ \A k \in Keys : Owned(k) => /\ <<owner[k].file, owner[k].idx>> \notin dropped
                                        /\ Eligible(owner[k].file, Entry(owner[k].file, owner[k].idx))
         /\ \A f \in Linked : \A i \in Present(f) : Seen(f, i) /\ Eligible(f, Entry(f, i)) =>
              /\ Owned(KeyOf(f, i))
              /\ Rank(owner[KeyOf(f, i)].file, owner[KeyOf(f, i)].idx) <= Rank(f, i)
  BY <1>1 DEF Best, EsymOf
<1>13. CASE EndLoop
  <2>1. owner' = owner /\ work = {} /\ Enter(pc') /\ pc \in {"comdat_kill", "resolve_objs", "resolve_dsos"}
        /\ (pc' = "resolve_objs" <=> pc = "comdat_kill")
        /\ (pc' = "resolve_dsos" <=> pc = "resolve_objs")
    BY <1>5, <1>13, EndLoopPasses DEF Resolving, Loops, ByEntry, ByFile
  <2>2. ASSUME NEW f \in Linked, NEW i \in Present(f), Seen(f, i)',
               pc' \in {"resolve_objs", "resolve_dsos"}
        PROVE  (pc' = "resolve_objs" => f \notin objs) /\ (pc' = "resolve_dsos" => f \notin dsos)
    <3>1. ~(i <= 0) /\ Len(File(f).syms) > 0
      BY <1>10
    <3>2. f \in Files
      BY <1>1 DEF Types, Linked
    <3>3. pos'[f] = 0
      BY <2>1, <3>2, EnterFacts
    <3>4. f \notin work'
      BY <2>2, <3>1, <3>3 DEF Seen
    <3> QED
      BY <1>9, <2>1, <2>2, <3>1, <3>4, EnterFacts DEF ByEntry, OverDsos
  <2>3. CASE pc = "comdat_kill"
    <3>1. \A k \in Keys : owner'[k] = NoOwner
      BY <1>1, <2>1, <2>3 DEF Owners, Owned
    <3>2. ASSUME NEW f \in Linked, NEW i \in Present(f), Seen(f, i)' PROVE FALSE
      BY <2>1, <2>2, <2>3, <3>2, <1>9 DEF Seen
    <3> QED
      BY <3>1, <3>2
  <2>4. CASE pc \in {"resolve_objs", "resolve_dsos"}
    <3>1. pc \in Resolving
      BY <2>4 DEF Resolving
    <3>2. ASSUME NEW f \in Linked, NEW i \in Present(f), Seen(f, i)' PROVE Seen(f, i)
      <4>1. CASE pc = "resolve_objs"
        BY <2>1, <2>2, <3>2, <4>1 DEF Seen, Linked
      <4>2. CASE pc = "resolve_dsos"
        BY <2>1, <4>2 DEF Seen
      <4> QED
        BY <2>4, <4>1, <4>2
    <3>3. \A k : owner'[k] # NoOwner <=> Owned(k)
      BY <2>1 DEF Owned
    <3> QED
      BY <1>12, <2>1, <3>1, <3>2, <3>3
  <2> QED
    BY <2>1, <2>3, <2>4
<1>14. CASE MainAction
  BY <1>5, <1>14, MainPasses DEF Resolving
<1>15. ASSUME NEW f \in work, ByFileAction(f)
       PROVE  /\ \A k \in Keys : owner'[k] # NoOwner => Fine(k)
              /\ \A g \in Linked : \A j \in Present(g) :
                     Seen(g, j)' /\ Eligible(g, Entry(g, j)) => Beaten(g, j)
  <2>1. pc' = pc /\ pc \in {"resolve_objs", "resolve_dsos"} /\ ResolveSymbol(f)
    BY <1>5, <1>15, FilePasses DEF Resolving, Loops, ByEntry, ByFile
  <2>2. f \in Linked /\ f \in Files /\ Linked \subseteq Files
    BY <1>1 DEF Types, Linked
  <2>3. pc \notin Early /\ pc \in Resolving /\ pc \in ByEntry
    BY <2>1 DEF Early, Resolving, ByEntry
  <2> DEFINE i == pos[f] + 1
             k == KeyOf(f, i)
             wins == <<f, i>> \notin dropped /\ Eligible(f, Entry(f, i)) /\ Rank(f, i) < symbol_rank(k)
  <2>4. /\ i \in Entries(f) /\ k \in Keys
        /\ \A l \in Keys : l # k => owner'[l] = owner[l]
        /\ IF wins THEN owner'[k] = [file |-> f, idx |-> i] ELSE owner' = owner
    <3>1. get_rank(f, Entry(f, i), ~IsDso(f) /\ f \notin alive) = Rank(f, i)
      BY <1>1, <2>2, <2>3, OwnerRank
    <3> QED
      BY <1>1, <2>1, <3>1, ResolveOwner
  <2>5. ASSUME NEW g \in Linked, NEW j \in Present(g), Seen(g, j)'
        PROVE  Seen(g, j) \/ (g = f /\ j = i)
    <3>1. CASE g # f
      <4>1. (g \in work' <=> g \in work) /\ pos'[g] = pos[g]
        BY <1>1, <1>15, <2>2, <2>3, <3>1, LoopStep
      <4> QED
        BY <1>9, <2>1, <2>5, <4>1 DEF Seen
    <3>2. CASE g = f
      <4>1. j \in Nat /\ pos[f] \in Nat /\ Len(File(f).syms) \in Nat /\ j <= Len(File(f).syms)
        BY <1>1, <1>10, <2>2, <3>2 DEF Types
      <4>2. /\ pos'[f] = i /\ work' = IF pos'[f] >= Len(File(f).syms) THEN work \ {f} ELSE work
        BY <1>1, <1>15, <2>3, LoopStep
      <4>3. j <= i
        <5>1. CASE f \in work'
          BY <2>5, <3>2, <4>2, <5>1 DEF Seen
        <5>2. CASE f \notin work'
          <6>1. i >= Len(File(f).syms)
            BY <4>2, <5>2
          <6> QED
            BY <4>1, <6>1
        <5> QED
          BY <5>1, <5>2
      <4>4. j <= pos[f] \/ j = i
        BY <4>1, <4>3
      <4> QED
        BY <1>9, <2>1, <2>5, <3>2, <4>4 DEF Seen
    <3> QED
      BY <3>1, <3>2
  <2>6. IF Owned(k) THEN symbol_rank(k) = Rank(owner[k].file, owner[k].idx)
        ELSE symbol_rank(k) = 7 * RankShift
    BY <1>1, <2>3, <2>4, OwnerRank
  <2>7. Rank(f, i) \in Nat /\ Rank(f, i) < 7 * RankShift
    BY <1>1, <2>2, <2>4, RankFacts DEF Types
  <2>8. Owned(k) => Rank(owner[k].file, owner[k].idx) \in Nat
    BY <1>1, <2>2, <2>4, RankFacts DEF Types, Owners
  <2>9. ASSUME NEW g \in Linked, NEW j \in Present(g) PROVE KeyOf(g, j) \in Keys /\ Rank(g, j) \in Nat
    BY <1>1, <2>2, FileFacts, RankFacts DEF Types, Present
  <2> HIDE DEF i, k, wins
  <2>10. CASE wins
    <3>1. owner'[k] = [file |-> f, idx |-> i] /\ owner'[k] # NoOwner
      <4>1. owner'[k] = [file |-> f, idx |-> i]
        BY <2>4, <2>10
      <4> QED
        BY <1>1, <2>2, <2>4, <4>1, NotNobody DEF Types
    <3>2. ASSUME NEW l \in Keys, owner'[l] # NoOwner PROVE Fine(l)
      <4>1. CASE l = k
        BY <2>10, <3>1, <4>1 DEF wins
      <4>2. CASE l # k
        BY <1>12, <2>3, <2>4, <3>2, <4>2 DEF Owned
      <4> QED
        BY <4>1, <4>2
    <3>3. ASSUME NEW g \in Linked, NEW j \in Present(g), Seen(g, j)', Eligible(g, Entry(g, j))
          PROVE  Beaten(g, j)
      <4>1. CASE KeyOf(g, j) # k
        <5>1. Seen(g, j)
          BY <2>5, <3>3, <4>1 DEF k
        <5> QED
          BY <1>12, <2>3, <2>4, <2>9, <3>3, <4>1, <5>1 DEF Owned
      <4>2. CASE KeyOf(g, j) = k
        <5>1. Rank(f, i) <= Rank(g, j)
          <6>1. CASE g = f /\ j = i
            BY <2>7, <6>1
          <6>2. CASE Seen(g, j)
            <7>1. Owned(k) /\ Rank(owner[k].file, owner[k].idx) <= Rank(g, j)
              BY <1>12, <2>3, <3>3, <4>2, <6>2
            <7>2. Rank(f, i) < Rank(owner[k].file, owner[k].idx)
              BY <2>6, <2>10, <7>1 DEF wins
            <7> QED
              BY <2>7, <2>8, <2>9, <7>1, <7>2
          <6> QED
            BY <2>5, <3>3, <6>1, <6>2
        <5> QED
          BY <3>1, <4>2, <5>1
      <4> QED
        BY <4>1, <4>2
    <3> QED
      BY <3>2, <3>3
  <2>11. CASE ~wins
    <3>1. owner' = owner
      BY <2>4, <2>11
    <3>2. ASSUME NEW g \in Linked, NEW j \in Present(g), Seen(g, j)', Eligible(g, Entry(g, j))
          PROVE  Owned(KeyOf(g, j))
                 /\ Rank(owner[KeyOf(g, j)].file, owner[KeyOf(g, j)].idx) <= Rank(g, j)
      <4>1. CASE Seen(g, j)
        BY <1>12, <2>3, <3>2, <4>1
      <4>2. CASE g = f /\ j = i
        <5>1. <<f, i>> \notin dropped /\ Eligible(f, Entry(f, i))
          BY <3>2, <4>2 DEF Present
        <5>2. ~(Rank(f, i) < symbol_rank(k))
          BY <2>11, <5>1 DEF wins
        <5>3. Owned(k)
          BY <2>6, <2>7, <5>2
        <5>4. Rank(owner[k].file, owner[k].idx) <= Rank(f, i)
          BY <2>6, <2>7, <2>8, <5>2, <5>3
        <5> QED
          BY <4>2, <5>3, <5>4 DEF k
      <4> QED
        BY <2>5, <3>2, <4>1, <4>2
    <3>3. \A l : owner'[l] # NoOwner <=> Owned(l)
      BY <3>1 DEF Owned
    <3> QED
      BY <1>12, <2>3, <3>1, <3>2, <3>3
  <2> QED
    BY <2>10, <2>11
<1>16. CASE (\E s \in pending : VisitSection(s)) \/ UNCHANGED vars
  <2>1. UNCHANGED <<owner, work, pos, pc>>
    BY <1>16 DEF VisitSection, vars
  <2>2. /\ \A l : owner'[l] # NoOwner <=> Owned(l)
        /\ \A f, i : Seen(f, i)' <=> Seen(f, i)
    BY <1>9, <2>1 DEF Owned, Seen
  <2> QED
    BY <1>5, <1>12, <2>1, <2>2
<1> QED
  BY <1>13, <1>14, <1>15, <1>16, Steps

(* What changes the groups, the dead sections, the pass. *)
LEMMA Changes ==
  ASSUME [Next]_vars
  PROVE  /\ groups' = groups \/ (\E f \in work : OwnGroups(f))
         /\ dead' = dead \/ (\E f \in work : KillGroups(f)) \/ KillEhFrame \/ GcSweep
         /\ pc' = pc \/ EndLoop \/ MainAction
<1>1. CASE EndLoop
  BY <1>1, EndLoopPasses
<1>2. CASE MainAction
  BY <1>2 DEF MainAction, MarkRoots, EraseUnused, DoLto, KillEhFrame, GcRoots, GcSweep,
              CheckDuplicates, Finish
<1>3. CASE \E f \in work : ByFileAction(f)
  <2>1. PICK f \in work : ByFileAction(f)
    BY <1>3
  <2>2. pc' = pc
    BY <2>1, FilePasses
  <2>3. (groups' = groups \/ OwnGroups(f)) /\ (dead' = dead \/ KillGroups(f))
    BY <2>1 DEF ByFileAction, ResolveSymbol, MarkSymbol, ClearSymbols, OwnGroups, KillGroups,
       ConvertCommon, ApplyVersionScript, ParseSymbolVersion, ExportToDso, ImportExport, ClaimSymbol
  <2> QED
    BY <2>2, <2>3
<1>4. CASE (\E s \in pending : VisitSection(s)) \/ UNCHANGED vars
  BY <1>4 DEF VisitSection, vars
<1> QED
  BY <1>1, <1>2, <1>3, <1>4, Steps

(* A group's owner value only falls, to the priority of a file that has it. *)
LEMMA GroupsFall ==
  ASSUME IInv, [Next]_vars, NEW g \in Signatures
  PROVE  /\ groups[g] \in Nat /\ groups'[g] \in Nat /\ groups'[g] <= groups[g]
         /\ \A f \in work : OwnGroups(f) =>
              IF g \in GroupsOf(f)
              THEN groups'[g] <= priority(f) /\ groups'[g] \in {groups[g], priority(f)}
              ELSE groups'[g] = groups[g]
<1>1. Types
  BY DEF IInv
<1>2. groups[g] \in Nat
  BY <1>1 DEF Types
<1>3. ASSUME NEW f \in work, OwnGroups(f)
      PROVE  /\ groups'[g] \in Nat /\ groups'[g] <= groups[g]
             /\ IF g \in GroupsOf(f)
                THEN groups'[g] <= priority(f) /\ groups'[g] \in {groups[g], priority(f)}
                ELSE groups'[g] = groups[g]
  <2>1. groups'[g] = IF g \in GroupsOf(f) THEN Min({groups[g], priority(f)}) ELSE groups[g]
    BY <1>3 DEF OwnGroups
  <2>2. priority(f) \in Nat
    BY <1>1, FileFacts DEF Types, Linked
  <2> QED
    BY <1>2, <2>1, <2>2, MinFacts
<1>4. CASE groups' = groups
  BY <1>2, <1>3, <1>4
<1> QED
  BY <1>2, <1>3, <1>4, Changes

LEMMA GroupSigs ==
  ASSUME NEW f \in Files, NEW g \in DOMAIN File(f).groups
  PROVE  g \in Signatures
BY DEF Signatures

LEMMA ComdatsStep ==
  ASSUME IInv, [Next]_vars
  PROVE  Comdats'
<1>1. Types /\ Lists /\ Progress /\ Comdats /\ Lists'
  BY ListsStep DEF IInv
<1>2. link' = link
  BY Steps
<1>3. /\ Files' = Files /\ Signatures' = Signatures
      /\ \A f : Entries(f)' = Entries(f) /\ File(f)' = File(f) /\ priority(f)' = priority(f)
      /\ \A s : Sec(s)' = Sec(s)
  BY <1>2, LinkFixed
<1>4. \A f \in Files : priority(f) \in Nat /\ GroupsOf(f) \subseteq Signatures
                       /\ GroupsOf(f) \subseteq DOMAIN File(f).groups
  BY <1>1, FileFacts, GroupSigs DEF Types, GroupsOf
<1>5. objs \subseteq Files /\ objs' \subseteq Files
  BY <1>3, TypesStep, <1>1 DEF Types
<1>6. \A g \in Signatures : groups'[g] # FreeGroup =>
        \E f \in objs' \cap alive' : g \in GroupsOf(f)' /\ groups'[g] = priority(f)
  <2>1. SUFFICES ASSUME NEW g \in Signatures, groups'[g] # FreeGroup
                 PROVE  \E f \in objs' \cap alive' : g \in GroupsOf(f)' /\ groups'[g] = priority(f)
    OBVIOUS
  <2>2. ASSUME groups'[g] = groups[g]
        PROVE  \E f \in objs' \cap alive' : g \in GroupsOf(f)' /\ groups'[g] = priority(f)
    <3>1. PICK f \in objs \cap alive : g \in GroupsOf(f) /\ groups[g] = priority(f)
      BY <1>1, <2>1, <2>2 DEF Comdats
    <3>2. CASE DoLto
      <4>1. f \in Files /\ g \in DOMAIN File(f).groups
        BY <1>4, <1>5, <3>1
      <4>2. ~File(f).ir /\ ~IsDso(f)
        BY <1>1, <3>1, <4>1, FileFacts DEF Types, IsFile, Lists
      <4>3. ~File(f).native
        BY <1>1, <3>1, <3>2 DEF Lists, DoLto, ForLto
      <4>4. f \in objs' /\ f \in alive'
        BY <3>1, <3>2, <4>1, <4>2 DEF DoLto
      <4>5. g \in GroupsOf(f)'
        BY <1>1, <1>3, <4>1, <4>3 DEF GroupsOf, Lists
      <4> QED
        BY <2>2, <3>1, <4>4, <4>5
    <3>3. CASE ~DoLto
      <4>1. /\ GroupsOf(f)' = GroupsOf(f) /\ alive \subseteq alive'
            /\ pc # "erase" => objs' = objs
        BY <3>3, Frame
      <4>2. pc = "erase" => f \in objs'
        <5>1. pc = "erase" => objs' = objs \/ EraseUnused
          <6>1. CASE EndLoop
            BY <6>1, EndLoopPasses
          <6>2. CASE MainAction
            BY <6>2, MainPasses
          <6>3. CASE \E h \in work : ByFileAction(h)
            BY <6>3, FilePasses
          <6>4. CASE (\E s \in pending : VisitSection(s)) \/ UNCHANGED vars
            BY <6>4 DEF VisitSection, vars
          <6> QED
            BY <6>1, <6>2, <6>3, <6>4, Steps
        <5> QED
          BY <3>1, <5>1 DEF EraseUnused
      <4> QED
        BY <2>2, <3>1, <4>1, <4>2
    <3> QED
      BY <3>2, <3>3
  <2>3. CASE groups'[g] # groups[g]
    <3>1. PICK f \in work : OwnGroups(f)
      BY <2>3, Changes
    <3>2. pc = "comdat_own" /\ UNCHANGED <<link, objs, alive, dropped>>
      BY <3>1 DEF OwnGroups
    <3>3. f \in objs /\ f \in alive
      BY <1>1, <3>2 DEF Progress, Lists, ByFile, OverDsos, Early, Linked
    <3>4. g \in GroupsOf(f) /\ groups'[g] = priority(f)
      BY <2>3, <3>1, GroupsFall
    <3>5. GroupsOf(f)' = GroupsOf(f)
      BY <1>3, <3>2 DEF GroupsOf, Entries, Entry, File
    <3> QED
      BY <3>2, <3>3, <3>4, <3>5
  <2> QED
    BY <2>2, <2>3
<1>7. ASSUME NEW f \in objs', AskedOwn(f)', NEW g \in GroupsOf(f)'
      PROVE  groups'[g] <= priority(f)
  <2>1. ~DoLto
    BY <1>7 DEF DoLto, Enter, AskedOwn, Resolving
  <2>2. f \in objs /\ g \in GroupsOf(f) /\ f \in Files /\ g \in Signatures /\ priority(f) \in Nat
    BY <1>4, <1>5, <1>7, <2>1, Frame
  <2>3. CASE AskedOwn(f)
    <3>1. groups[g] <= priority(f)
      BY <1>1, <2>2, <2>3 DEF Comdats
    <3> QED
      BY <2>2, <3>1, GroupsFall
  <2>4. CASE ~AskedOwn(f)
    <3>1. CASE pc' = pc
      <4>1. pc = "comdat_own" /\ f \in work /\ f \notin work'
        BY <1>7, <2>4, <3>1 DEF AskedOwn
      <4>2. \E h \in work : ByFileAction(h)
        <5>1. CASE EndLoop
          BY <4>1, <3>1, <5>1, EndLoopPasses
        <5>2. CASE MainAction
          BY <4>1, <5>2, MainPasses
        <5>3. CASE (\E s \in pending : VisitSection(s)) \/ UNCHANGED vars
          BY <4>1, <5>3 DEF VisitSection, vars
        <5> QED
          BY <5>1, <5>2, <5>3, Steps
      <4>3. PICK h \in work : ByFileAction(h) /\ OwnGroups(h)
        BY <4>1, <4>2, FilePasses
      <4>4. f = h
        BY <4>1, <4>3 DEF OwnGroups, LeaveLoop
      <4> QED
        BY <2>2, <4>3, <4>4, GroupsFall
    <3>2. CASE EndLoop
      BY <1>7, <2>4, <3>2, EndLoopPasses DEF AskedOwn, Resolving, Loops, ByEntry, ByFile
    <3>3. CASE MainAction
      <4>1. pc' = "comdat_own" /\ Enter(pc')
        BY <1>7, <2>4, <3>3, MainPasses DEF AskedOwn, Resolving
      <4>2. work' = objs'
        BY <4>1, EnterFacts DEF ByFile, OverDsos
      <4> QED
        BY <1>7, <4>1, <4>2 DEF AskedOwn
    <3> QED
      BY <3>1, <3>2, <3>3, Changes
  <2> QED
    BY <2>3, <2>4
<1>8. ASSUME NEW f \in objs', AskedKill(f)', NEW g \in GroupsOf(f)', groups'[g] # priority(f)
      PROVE  {f} \X File(f).groups[g] \subseteq dead'
  <2>1. ~DoLto
    BY <1>8 DEF DoLto, Enter, AskedKill, Resolving
  <2>2. f \in objs /\ g \in GroupsOf(f) /\ f \in Files /\ g \in Signatures
    BY <1>4, <1>5, <1>8, <2>1, Frame
  <2>3. groups' = groups
    <3>1. pc' # "comdat_own"
      BY <1>8 DEF AskedKill, Resolving
    <3> QED
      BY <3>1, Changes DEF OwnGroups
  <2>4. dead \subseteq dead'
    BY Changes DEF KillGroups, KillEhFrame, GcSweep
  <2>5. CASE AskedKill(f)
    BY <1>1, <1>8, <2>2, <2>3, <2>4, <2>5 DEF Comdats
  <2>6. CASE ~AskedKill(f)
    <3>1. CASE pc' = pc
      <4>1. pc = "comdat_kill" /\ f \in work /\ f \notin work'
        BY <1>8, <2>6, <3>1 DEF AskedKill
      <4>2. \E h \in work : ByFileAction(h)
        <5>1. CASE EndLoop
          BY <4>1, <3>1, <5>1, EndLoopPasses
        <5>2. CASE MainAction
          BY <4>1, <5>2, MainPasses
        <5>3. CASE (\E s \in pending : VisitSection(s)) \/ UNCHANGED vars
          BY <4>1, <5>3 DEF VisitSection, vars
        <5> QED
          BY <5>1, <5>2, <5>3, Steps
      <4>3. PICK h \in work : ByFileAction(h) /\ KillGroups(h)
        BY <4>1, <4>2, FilePasses
      <4>4. f = h
        BY <4>1, <4>3 DEF KillGroups, LeaveLoop
      <4>5. dead' = dead \cup UNION {{f} \X File(f).groups[x] :
                               x \in {x \in GroupsOf(f) : groups[x] # priority(f)}}
        BY <4>3, <4>4 DEF KillGroups
      <4>6. g \in {x \in GroupsOf(f) : groups[x] # priority(f)}
        BY <1>8, <2>2, <2>3
      <4> QED
        BY <4>5, <4>6
    <3>2. CASE EndLoop
      <4>1. pc = "comdat_own" /\ pc' = "comdat_kill" /\ Enter(pc')
        BY <1>8, <2>6, <3>2, EndLoopPasses DEF AskedKill, Resolving, Loops, ByEntry, ByFile
      <4>2. work' = objs'
        BY <4>1, EnterFacts DEF ByFile, OverDsos
      <4> QED
        BY <1>8, <4>1, <4>2 DEF AskedKill
    <3>3. CASE MainAction
      BY <1>8, <2>6, <3>3, MainPasses DEF AskedKill, Resolving
    <3> QED
      BY <3>1, <3>2, <3>3, Changes
  <2> QED
    BY <2>5, <2>6
<1>9. ASSUME pc' \notin {"duplicates"} \cup Claiming, NEW s \in dead'
      PROVE  Lost1(s)' \/ (pc' \in Closing /\ ~ForLto' /\ Sec(s).eh)
  <2>1. ASSUME Lost1(s) PROVE Lost1(s)'
    <3>1. PICK g \in DOMAIN File(s[1]).groups :
                 s[2] \in File(s[1]).groups[g] /\ groups[g] < priority(s[1])
      BY <2>1 DEF Lost1
    <3>2. g \in Signatures /\ priority(s[1]) \in Nat
      BY <1>4, <2>1, GroupSigs DEF Lost1
    <3>3. groups'[g] < priority(s[1])
      BY <3>1, <3>2, GroupsFall
    <3> QED
      BY <1>3, <2>1, <3>1, <3>3 DEF Lost1
  <2>2. pc \notin {"duplicates"} \cup Claiming
    <3>1. CASE EndLoop
      BY <1>9, <3>1, EndLoopPasses DEF Claiming, Loops, ByEntry, ByFile
    <3>2. CASE MainAction
      BY <1>9, <3>2, MainPasses DEF Claiming
    <3> QED
      BY <1>9, <3>1, <3>2, Changes
  <2>3. CASE s \in dead
    <3>1. CASE Lost1(s)
      BY <2>1, <3>1
    <3>2. CASE pc \in Closing /\ ~ForLto /\ Sec(s).eh
      <4>1. ~DoLto
        BY <3>2 DEF DoLto, Closing
      <4>2. pc' \in Closing
        <5>1. CASE EndLoop
          BY <1>9, <3>2, <5>1, EndLoopPasses DEF Closing, Loops, ByEntry, ByFile
        <5>2. CASE MainAction
          BY <1>9, <3>2, <5>2, MainPasses DEF Closing
        <5> QED
          BY <3>2, <5>1, <5>2, Changes
      <4> QED
        BY <3>2, <4>1, <4>2, Frame
    <3> QED
      BY <1>1, <2>2, <2>3, <3>1, <3>2 DEF Comdats
  <2>4. ASSUME s \notin dead, NEW f \in work, KillGroups(f)
        PROVE  Lost1(s)
    <3>1. PICK g \in GroupsOf(f) : groups[g] # priority(f) /\ s \in {f} \X File(f).groups[g]
      BY <1>9, <2>4 DEF KillGroups
    <3>2. pc = "comdat_kill"
      BY <2>4 DEF KillGroups
    <3>3. f \in objs /\ f \in Files
      BY <1>1, <1>5, <3>2 DEF Progress, ByFile, OverDsos
    <3>4. AskedOwn(f)
      BY <3>2 DEF AskedOwn
    <3>5. groups[g] <= priority(f)
      BY <1>1, <3>1, <3>3, <3>4 DEF Comdats
    <3>6. groups[g] \in Nat /\ priority(f) \in Nat /\ g \in DOMAIN File(f).groups
      BY <1>4, <3>1, <3>3, GroupsFall
    <3>7. groups[g] < priority(f)
      BY <3>1, <3>5, <3>6
    <3>8. s[1] = f /\ s[2] \in File(f).groups[g]
      BY <3>1
    <3> QED
      BY <3>3, <3>6, <3>7, <3>8 DEF Lost1
  <2>5. CASE s \notin dead /\ KillEhFrame
    <3>1. pc = "kill_eh_frame" /\ pc' = "convert" /\ ~DoLto
      BY <2>5 DEF KillEhFrame, Enter, DoLto
    <3>2. ~ForLto' /\ pc' \in Closing
      BY <1>1, <3>1, Frame DEF Lists, Closing
    <3>3. Sec(s).eh
      BY <1>9, <2>5 DEF KillEhFrame
    <3> QED
      BY <3>2, <3>3
  <2>6. ~GcSweep
    BY <1>9 DEF GcSweep, Enter
  <2> QED
    BY <1>9, <2>1, <2>3, <2>4, <2>5, <2>6, Changes
<1> QED
  BY <1>3, <1>6, <1>7, <1>8, <1>9 DEF Comdats

(* Where the section of a symbol comes from. *)
LEMMA SectionFacts ==
  ASSUME NEW k
  PROVE  /\ \A s \in SectionOf(k) :
              /\ Owned(k) /\ ~IsDso(owner[k].file) /\ ~IsUndef(EsymOf(k))
              /\ ~is_abs(owner[k].file, EsymOf(k)) /\ s = <<owner[k].file, EsymOf(k).sec>>
              /\ EsymOf(k).def = "common" => <<owner[k].file, owner[k].idx>> \in converted
         /\ Owned(k) /\ ~IsDso(owner[k].file) /\ ~IsUndef(EsymOf(k)) /\ EsymOf(k).def # "common"
            /\ ~is_abs(owner[k].file, EsymOf(k)) => <<owner[k].file, EsymOf(k).sec>> \in SectionOf(k)
BY DEF SectionOf

LEMMA SectionKept ==
  ASSUME UNCHANGED <<link, owner, converted>>
  PROVE  \A k : SectionOf(k)' = SectionOf(k)
BY DEF SectionOf, Owned, NoOwner, IsDso, EsymOf, Entry, File, IsUndef, is_abs

(* A step within the closing passes leaves owners, common symbols and dead *)
(* sections alone, unless it is of convert_common_symbols.                 *)
LEMMA ClosingKept ==
  ASSUME [Next]_vars, pc \in Closing, pc' \in Closing
  PROVE  /\ dead' = dead
         /\ pc # "convert" \/ EndLoop => UNCHANGED <<owner, converted>>
         /\ UNCHANGED <<owner, converted>> \/ (\E f \in work : ConvertCommon(f))
<1>1. ~DoLto /\ ~KillEhFrame /\ ~GcSweep /\ \A f : ~KillGroups(f)
  BY DEF DoLto, KillEhFrame, GcSweep, KillGroups, Closing, Enter
<1>2. dead' = dead
  BY <1>1, Changes
<1>3. CASE EndLoop \/ MainAction \/ (\E s \in pending : VisitSection(s)) \/ UNCHANGED vars
  BY <1>1, <1>2, <1>3, OwnerKept
<1>4. CASE \E f \in work : ByFileAction(f)
  <2>1. PICK f \in work : ByFileAction(f)
    BY <1>4
  <2>2. UNCHANGED <<owner, converted>> \/ (pc = "convert" /\ ConvertCommon(f))
    BY ZenonT(30), <2>1 DEF ByFileAction, Closing, ResolveSymbol, MarkSymbol, ClearSymbols, OwnGroups, KillGroups,
       ConvertCommon, ApplyVersionScript, ParseSymbolVersion, ExportToDso, ImportExport, ClaimSymbol
  <2>3. EndLoop => work = {}
    BY EndLoopPasses
  <2> QED
    BY <1>2, <2>1, <2>2, <2>3
<1> QED
  BY <1>3, <1>4, Steps

LEMMA SectionsOwnedStep ==
  ASSUME IInv, [Next]_vars
  PROVE  SectionsOwned'
<1>1. Types /\ Lists /\ Progress /\ Owners /\ Best /\ Comdats /\ SectionsOwned
  BY DEF IInv
<1>2. link' = link
  BY Steps
<1>3. /\ Files' = Files /\ Keys' = Keys /\ \A s : Sec(s)' = Sec(s)
      /\ \A f, i : Entry(f, i)' = Entry(f, i)
      /\ \A f : File(f)' = File(f) /\ (IsDso(f)' <=> IsDso(f))
  BY <1>2, LinkFixed
<1> DEFINE Late == Closing \cup {"duplicates"} \cup Claiming
<1>4. ASSUME ForLto' \/ pc' \notin Late PROVE converted' = {}
  <2>1. ForLto \/ pc \notin Late
    <3>1. CASE DoLto
      BY <3>1 DEF DoLto, Closing, Claiming
    <3>2. CASE ~DoLto
      <4>1. ForLto' <=> ForLto
        BY <3>2, Frame
      <4>2. CASE EndLoop
        BY <1>4, <4>1, <4>2, EndLoopPasses DEF Closing, Claiming, Loops, ByEntry, ByFile
      <4>3. CASE MainAction
        BY <1>4, <4>1, <4>3, MainPasses DEF Closing, Claiming
      <4> QED
        BY <1>4, <4>1, <4>2, <4>3, Changes
    <3> QED
      BY <3>1, <3>2
  <2>2. converted = {}
    BY <1>1, <2>1 DEF SectionsOwned
  <2>3. \A f \in work : ~ConvertCommon(f)
    BY <1>1, <2>1 DEF ConvertCommon, Lists, Closing
  <2>4. converted' = converted
    <3>1. CASE DoLto
      BY <3>1 DEF DoLto
    <3>2. CASE ~DoLto /\ (EndLoop \/ MainAction \/ (\E s \in pending : VisitSection(s)) \/ UNCHANGED vars)
      BY <3>2, OwnerKept
    <3>3. CASE \E f \in work : ByFileAction(f)
      BY <2>3, <3>3 DEF ByFileAction, ResolveSymbol, MarkSymbol, ClearSymbols, OwnGroups, KillGroups,
         ApplyVersionScript, ParseSymbolVersion, ExportToDso, ImportExport, ClaimSymbol
    <3> QED
      BY <3>1, <3>2, <3>3, Steps
  <2> QED
    BY <2>2, <2>4
<1>5. ASSUME pc' \in Closing, ~ForLto', NEW k \in Keys, NEW s \in SectionOf(k)', s \in dead'
      PROVE  Sec(s).eh
  <2>1. ~DoLto
    BY <1>5 DEF DoLto, Enter, Closing
  <2>2. ~ForLto
    BY <1>5, <2>1, Frame
  <2>3. CASE pc \in Closing
    <3>1. dead' = dead
      BY <1>5, <2>3, ClosingKept
    <3>2. CASE UNCHANGED <<owner, converted>>
      <4>1. s \in SectionOf(k)
        BY <1>2, <1>5, <3>2, SectionKept
      <4> QED
        BY <1>1, <1>5, <2>2, <2>3, <3>1, <4>1 DEF SectionsOwned
    <3>3. CASE \E f \in work : ConvertCommon(f)
      <4>1. PICK f \in work : ConvertCommon(f)
        BY <3>3
      <4> DEFINE h == owner'[k].file
                 e == Entry(owner'[k].file, owner'[k].idx)
      <4>2. /\ owner'[k] # NoOwner /\ ~IsDso(h) /\ ~IsUndef(e) /\ ~is_abs(h, e) /\ s = <<h, e.sec>>
        <5>1. /\ Owned(k)' /\ ~IsDso(owner[k].file)' /\ ~IsUndef(EsymOf(k))'
              /\ ~is_abs(owner[k].file, EsymOf(k))' /\ s = <<owner'[k].file, EsymOf(k)'.sec>>
          BY <1>5 DEF SectionOf
        <5>2. EsymOf(k)' = e /\ (Owned(k)' <=> owner'[k] # NoOwner)
          BY <1>3 DEF EsymOf, Owned, NoOwner
        <5> QED
          BY <1>3, <5>1, <5>2 DEF IsDso, IsUndef, is_abs
      <4>3. h \in Files /\ owner'[k].idx \in Entries(h)
        <5>1. Owners' /\ Types'
          BY OwnersStep, TypesStep
        <5>2. Owned(k)'
          BY <4>2 DEF Owned, NoOwner
        <5>3. owner'[k].file \in Linked' /\ owner'[k].idx \in Entries(owner[k].file)' /\ Linked' \subseteq Files
          BY <1>3, <5>1, <5>2 DEF Owners, Types, Linked
        <5> QED
          BY <1>2, <5>3 DEF Entries, File
      <4>4. CASE e.def = "common"
        <5>1. IsFile(File(h))
          BY <1>1, <4>3, FileFacts DEF Types
        <5>2. \A g \in DOMAIN File(h).groups : e.sec \notin File(h).groups[g]
          BY <4>3, <4>4, <5>1 DEF IsFile, Entries, Entry
        <5>3. ~Lost1(s)
          <6>1. s[1] = h /\ s[2] = e.sec
            BY <4>2
          <6> QED
            BY <5>2, <6>1 DEF Lost1
        <5>4. pc \notin {"duplicates"} \cup Claiming /\ s \in dead
          BY <1>5, <2>3, <3>1 DEF Closing, Claiming
        <5> QED
          BY <1>1, <5>3, <5>4 DEF Comdats
      <4>5. CASE e.def # "common"
        <5>1. owner'[k] = owner[k]
          <6>1. f \in Files
            BY <1>1 DEF Types, Linked
          <6>2. \/ owner'[k] = owner[k]
                \/ \E i \in MineCommon(f) : KeyOf(f, i) = k /\ owner'[k] = [file |-> f, idx |-> i]
            BY <1>1, <4>1, <6>1, ConvertOwner
          <6>3. ASSUME NEW i \in MineCommon(f), owner'[k] = [file |-> f, idx |-> i] PROVE FALSE
            BY <4>5, <6>3 DEF MineCommon
          <6> QED
            BY <6>2, <6>3
        <5>2. s \in SectionOf(k)
          BY <4>2, <4>5, <5>1, SectionFacts DEF Owned, EsymOf
        <5> QED
          BY <1>1, <1>5, <2>2, <2>3, <3>1, <5>2 DEF SectionsOwned
      <4> QED
        BY <4>4, <4>5
    <3> QED
      BY <1>5, <2>3, <3>2, <3>3, ClosingKept
  <2>4. CASE pc \notin Closing
    <3>1. KillEhFrame
      <4>1. CASE EndLoop
        BY <1>1, <1>5, <2>2, <2>4, <4>1, EndLoopPasses DEF Lists, Closing, Loops, ByEntry, ByFile
      <4>2. CASE MainAction
        BY <1>5, <2>4, <4>2, MainPasses DEF Closing
      <4> QED
        BY <1>5, <2>4, <4>1, <4>2, Changes
    <3>2. UNCHANGED <<owner, converted>> /\ pc = "kill_eh_frame"
          /\ dead' = dead \cup {x \in Sections : x[1] \in objs /\ Sec(x).eh}
      BY <3>1 DEF KillEhFrame
    <3>3. s \in SectionOf(k)
      BY <1>2, <1>5, <3>2, SectionKept
    <3>4. converted = {} /\ pc \in Resolving
      BY <1>1, <3>2 DEF SectionsOwned, Closing, Claiming, Resolving
    <3>5. Owned(k) /\ EsymOf(k).def # "common" /\ ~is_abs(owner[k].file, EsymOf(k))
          /\ ~IsDso(owner[k].file) /\ s = <<owner[k].file, EsymOf(k).sec>>
      BY <3>3, <3>4, SectionFacts
    <3>6. Eligible(owner[k].file, EsymOf(k))
      BY <1>1, <3>4, <3>5 DEF Best
    <3>7. s \notin dead
      BY <3>5, <3>6 DEF Eligible
    <3> QED
      BY <1>5, <3>2, <3>7
  <2> QED
    BY <2>3, <2>4
<1> QED
  BY <1>3, <1>4, <1>5 DEF SectionsOwned

LEMMA ExportsStep ==
  ASSUME IInv, [Next]_vars
  PROVE  Exports'
<1>1. Types /\ Lists /\ Progress /\ Owners /\ Exports
  BY DEF IInv
<1>2. link' = link
  BY Steps
<1>3. Keys' = Keys /\ \A f : Entries(f)' = Entries(f) /\ \A i : KeyOf(f, i)' = KeyOf(f, i)
  BY <1>2, LinkFixed
<1>4. pc' = "parse_version" => link.shared
  <2>1. CASE EndLoop
    BY <1>1, <2>1, EndLoopPasses DEF Loops, ByEntry, ByFile
  <2>2. CASE MainAction
    BY <2>2, MainPasses
  <2> QED
    BY <1>1, <2>1, <2>2, Changes DEF Exports
<1>5. ASSUME ~link.shared,
             pc' \in {"export_dsos", "export_objs", "gc_roots", "gc_mark", "duplicates"},
             NEW f \in dsos', pc' = "export_dsos" => f \notin work',
             NEW i \in Entries(f), ToExport(KeyOf(f, i))'
      PROVE  KeyOf(f, i) \in exported'
  <2>1. pc \in {"export_dsos", "export_objs", "gc_roots", "gc_mark", "duplicates"}
    <3>1. CASE EndLoop
      <4>1. pc' = "export_dsos" => work' = dsos'
        BY <3>1, EndLoopPasses, EnterFacts DEF ByFile, OverDsos
      <4> QED
        BY <1>1, <1>5, <3>1, <4>1, EndLoopPasses DEF Exports, Loops, ByEntry, ByFile
    <3>2. CASE MainAction
      BY <1>5, <3>2, MainPasses
    <3> QED
      BY <1>5, <3>1, <3>2, Changes
  <2>2. ~DoLto /\ dsos' = dsos
    BY <2>1, Frame DEF DoLto
  <2>3. UNCHANGED <<owner, vis, ver>> /\ exported \subseteq exported'
    <3>1. CASE \E h \in work : ByFileAction(h)
      <4>1. PICK h \in work : ExportToDso(h) \/ ImportExport(h)
        BY <2>1, <3>1, FilePasses DEF Loops, ByEntry, ByFile
      <4> QED
        BY <4>1 DEF ExportToDso, ImportExport, compute_import_export
    <3> QED
      BY <2>2, <3>1, OwnerKept, Steps
  <2>4. ToExport(KeyOf(f, i))
    BY <1>2, <1>3, <1>5, <2>3 DEF ToExport, Owned, NoOwner, IsDso, File
  <2>5. CASE pc = "export_dsos" => f \notin work
    BY <1>1, <1>5, <2>1, <2>2, <2>3, <2>4, <2>5 DEF Exports
  <2>6. CASE pc = "export_dsos" /\ f \in work
    <3>1. pc' = pc /\ \E h \in work : ByFileAction(h)
      <4>1. ~EndLoop
        BY <2>6, EndLoopPasses
      <4>2. ~MainAction
        BY <2>6, MainPasses
      <4>3. pc' = pc
        BY <4>1, <4>2, Changes
      <4> QED
        BY <1>5, <2>6, <4>1, <4>2, <4>3, Steps DEF VisitSection, vars
    <3>2. PICK h \in work : ExportToDso(h)
      BY <2>6, <3>1, FilePasses
    <3>3. f = h
      BY <1>5, <2>6, <3>1, <3>2 DEF ExportToDso, LeaveLoop
    <3>4. exported' = exported \cup {k \in {KeyOf(f, j) : j \in Entries(f)} : ToExport(k)}
      BY <3>2, <3>3 DEF ExportToDso, ToExport
    <3> QED
      BY <1>5, <2>4, <3>4
  <2> QED
    BY <2>5, <2>6
<1> QED
  BY <1>2, <1>3, <1>4, <1>5 DEF Exports

(* The keys that sections refer to are interned. *)
LEMMA ReferredKeys ==
  ASSUME NEW s \in Sections
  PROVE  Sec(s).rels \cup Sec(s).fde \subseteq Keys
<1>1. PICK f \in Files : s \in {f} \X DOMAIN File(f).secs
  BY DEF Sections
<1>2. s[1] = f /\ s[2] \in DOMAIN File(f).secs
  BY <1>1
<1>3. Sec(s).rels \cup Sec(s).fde \subseteq Referred(f)
  BY <1>2 DEF Referred, Sec
<1> QED
  BY <1>3 DEF Keys

LEMMA CollectedStep ==
  ASSUME IInv, [Next]_vars
  PROVE  Collected'
<1>1. Types /\ Lists /\ SectionsOwned /\ Collected
  BY DEF IInv
<1>2. link' = link
  BY Steps
<1>3. Keys' = Keys /\ Sections' = Sections /\ \A s : Sec(s)' = Sec(s)
  BY <1>2, LinkFixed
<1>4. ASSUME UNCHANGED <<owner, converted>> PROVE \A k : SectionOf(k)' = SectionOf(k)
  BY <1>2, <1>4, SectionKept
<1>5. ASSUME UNCHANGED <<owner, converted, dead>> PROVE \A s : Targets(s)' = Targets(s)
  <2>1. \A k : SectionOf(k)' = SectionOf(k)
    BY <1>4, <1>5
  <2> QED
    BY <1>3, <1>5, <2>1 DEF Targets
<1>6. ASSUME pc' = "gc_mark"
      PROVE  /\ pending' \subseteq visited'
             /\ \A s \in visited' \ pending' : Sec(s).alloc => Targets(s)' \subseteq visited'
             /\ \A k \in exported' : SectionOf(k)' \subseteq dead' \cup visited'
  <2>1. CASE GcRoots
    <3> DEFINE nonalloc == {s \in LiveSections : ~Sec(s).alloc}
               named == {k \in Keys : k[2] = "" /\ k[1] \in link.roots \cup {link.entry}}
               ks == exported \cup named \cup UNION {File(f).cies : f \in objs}
               roots == {s \in LiveSections : Sec(s).keep} \cup UNION {SectionOf(k) : k \in ks}
    <3>1. /\ pending' = (roots \ dead) \ nonalloc
          /\ visited' = pending' \cup nonalloc
          /\ UNCHANGED <<owner, converted, dead, exported>>
      BY <2>1 DEF GcRoots
    <3>2. exported \subseteq ks
      OBVIOUS
    <3> HIDE DEF ks
    <3>3. \A k \in exported : SectionOf(k) \subseteq roots
      BY <3>2
    <3>4. \A s \in nonalloc : ~Sec(s).alloc
      OBVIOUS
    <3> HIDE DEF nonalloc, roots
    <3> QED
      BY <1>4, <3>1, <3>3, <3>4
  <2>2. ASSUME NEW s \in pending, VisitSection(s)
        PROVE  /\ pending' \subseteq visited'
               /\ \A x \in visited' \ pending' : Sec(x).alloc => Targets(x)' \subseteq visited'
               /\ \A k \in exported' : SectionOf(k)' \subseteq dead' \cup visited'
    <3>1. /\ pc = "gc_mark"
          /\ visited' = visited \cup Targets(s)
          /\ pending' = (pending \ {s}) \cup (Targets(s) \ visited)
          /\ UNCHANGED <<owner, converted, dead, exported>>
      BY <2>2 DEF VisitSection
    <3>2. /\ pending \subseteq visited
          /\ \A x \in visited \ pending : Sec(x).alloc => Targets(x) \subseteq visited
          /\ \A k \in exported : SectionOf(k) \subseteq dead \cup visited
      BY <1>1, <3>1 DEF Collected
    <3> QED
      BY <1>4, <1>5, <3>1, <3>2
  <2>3. CASE pc = "gc_mark" /\ ~ \E s \in pending : VisitSection(s)
    <3>1. UNCHANGED vars
      <4>1. ~EndLoop
        BY <2>3, EndLoopPasses DEF Loops, ByEntry, ByFile
      <4>2. ~MainAction
        BY <1>6, <2>3, MainPasses
      <4>3. ~ \E f \in work : ByFileAction(f)
        BY <2>3, FilePasses DEF Loops, ByEntry, ByFile
      <4> QED
        BY <2>3, <4>1, <4>2, <4>3, Steps
    <3>2. UNCHANGED <<owner, converted, dead, exported, pending, visited>>
      BY <3>1 DEF vars
    <3> QED
      BY <1>1, <1>4, <1>5, <2>3, <3>2 DEF Collected
  <2>4. pc = "gc_mark" \/ GcRoots
    <3>1. CASE EndLoop
      BY <1>6, <3>1, EndLoopPasses DEF Loops, ByEntry, ByFile
    <3>2. CASE MainAction
      BY <1>6, <3>2, MainPasses
    <3> QED
      BY <1>6, <3>1, <3>2, Changes
  <2> QED
    BY <2>1, <2>2, <2>3, <2>4
<1>7. ASSUME pc' = "duplicates"
      PROVE  /\ \A s \in LiveSections' : Sec(s).alloc => Lost(Sec(s).rels \cup Sec(s).fde)' = {}
             /\ Lost(exported)' = {}
  <2>1. ASSUME pc \in Closing, NEW k \in Keys, NEW x \in SectionOf(k), x \in dead
        PROVE  Sec(x).eh
    <3>1. ~DoLto
      BY <2>1 DEF DoLto, Closing
    <3>2. ~ForLto
      BY <1>7, <3>1, Frame, ListsStep DEF Lists
    <3> QED
      BY <1>1, <2>1, <3>2 DEF SectionsOwned
  <2>2. LiveSections' \subseteq Sections /\ \A s \in LiveSections' : s[1] \in objs' /\ s \notin dead'
    BY <1>3 DEF LiveSections
  <2>3. ASSUME UNCHANGED <<owner, converted>>, NEW ks \in SUBSET Keys,
               \A k \in ks : \A x \in SectionOf(k) : x \in dead' => Sec(x).eh
        PROVE  {x \in UNION {SectionOf(k)' : k \in ks} : x \in dead' /\ ~Sec(x)'.eh} = {}
    BY <1>3, <1>4, <2>3
  <2>4. CASE GcSweep
    <3>1. /\ pc = "gc_mark" /\ pending = {} /\ pc \in Closing
          /\ dead' = dead \cup (LiveSections \ visited)
          /\ UNCHANGED <<owner, converted, exported, objs>>
      BY <2>4 DEF GcSweep, Closing
    <3>2. /\ \A s \in visited : Sec(s).alloc => Targets(s) \subseteq visited
          /\ \A k \in exported : SectionOf(k) \subseteq dead \cup visited
      BY <1>1, <3>1 DEF Collected
    <3>3. ASSUME NEW s \in LiveSections', Sec(s).alloc
          PROVE  Lost(Sec(s).rels \cup Sec(s).fde)' = {}
      <4> DEFINE ks == Sec(s).rels \cup Sec(s).fde
      <4>1. s \in visited
        BY <1>3, <3>1, <3>3 DEF LiveSections
      <4>2. ks \subseteq Keys
        BY <2>2, ReferredKeys
      <4>3. \A k \in ks : \A x \in SectionOf(k) : x \in dead \/ x \in Targets(s)
        BY DEF Targets
      <4> HIDE DEF ks
      <4>4. ASSUME NEW k \in ks, NEW x \in SectionOf(k), x \in dead' PROVE Sec(x).eh
        <5>1. CASE x \in dead
          BY <2>1, <3>1, <4>2, <5>1
        <5>2. CASE x \notin dead
          BY <3>1, <3>2, <3>3, <4>1, <4>3, <4>4, <5>2
        <5> QED
          BY <5>1, <5>2
      <4>5. {x \in UNION {SectionOf(k)' : k \in ks} : x \in dead' /\ ~Sec(x)'.eh} = {}
        BY <2>3, <3>1, <4>2, <4>4
      <4>6. ks = Sec(s)'.rels \cup Sec(s)'.fde
        BY <1>3 DEF ks
      <4> QED
        BY <4>5, <4>6 DEF Lost
    <3>4. Lost(exported)' = {}
      <4>1. ASSUME NEW k \in exported, NEW x \in SectionOf(k), x \in dead' PROVE Sec(x).eh
        <5>1. k \in Keys
          BY <1>1 DEF Types
        <5>2. x \in dead \/ x \in visited
          BY <3>2
        <5>3. CASE x \in dead
          BY <2>1, <3>1, <5>1, <5>3
        <5> QED
          BY <3>1, <4>1, <5>2, <5>3
      <4>2. exported \subseteq Keys
        BY <1>1 DEF Types
      <4>3. {x \in UNION {SectionOf(k)' : k \in exported} : x \in dead' /\ ~Sec(x)'.eh} = {}
        BY <2>3, <3>1, <4>1, <4>2
      <4> QED
        BY <3>1, <4>3 DEF Lost
    <3> QED
      BY <3>3, <3>4
  <2>5. CASE EndLoop
    <3>1. pc \in Closing /\ UNCHANGED <<owner, converted, exported, objs, dead>>
      BY <1>7, <2>5, EndLoopPasses DEF Closing, Loops, ByEntry, ByFile
    <3>2. ASSUME NEW ks \in SUBSET Keys
          PROVE  {x \in UNION {SectionOf(k)' : k \in ks} : x \in dead' /\ ~Sec(x)'.eh} = {}
      <4>1. \A k \in ks : \A x \in SectionOf(k) : x \in dead' => Sec(x).eh
        BY <2>1, <3>1
      <4> QED
        BY <2>3, <3>1, <4>1
    <3>3. ASSUME NEW s \in LiveSections'
          PROVE  Lost(Sec(s).rels \cup Sec(s).fde)' = {}
      <4>1. Sec(s)'.rels \cup Sec(s)'.fde \subseteq Keys
        BY <1>3, <2>2, ReferredKeys
      <4> QED
        BY <3>2, <4>1 DEF Lost
    <3>4. exported' \subseteq Keys
      BY <1>1, <3>1 DEF Types
    <3> QED
      BY <3>2, <3>3, <3>4 DEF Lost
  <2>6. CASE UNCHANGED vars
    <3>1. pc = "duplicates" /\ UNCHANGED <<owner, converted, dead, exported, objs>>
      BY <1>7, <2>6 DEF vars
    <3>2. LiveSections' = LiveSections
      BY <1>3, <3>1 DEF LiveSections
    <3>3. \A ks : Lost(ks)' = Lost(ks)
      BY <1>3, <1>4, <3>1 DEF Lost
    <3>4. \A s \in LiveSections : Sec(s).alloc => Lost(Sec(s).rels \cup Sec(s).fde) = {}
      BY <1>1, <3>1 DEF Collected
    <3>5. Lost(exported) = {}
      BY <1>1, <3>1 DEF Collected
    <3>6. ASSUME NEW s \in LiveSections', Sec(s).alloc PROVE Lost(Sec(s).rels \cup Sec(s).fde)' = {}
      <4>1. Lost(Sec(s).rels \cup Sec(s).fde) = {}
        BY <3>2, <3>4, <3>6
      <4> QED
        BY <1>3, <1>4, <3>1, <4>1 DEF Lost
    <3>7. Lost(exported)' = {}
      BY <1>3, <1>4, <3>1, <3>5 DEF Lost
    <3> QED
      BY <3>6, <3>7
  <2>7. GcSweep \/ EndLoop \/ UNCHANGED vars
    <3>1. CASE MainAction
      BY <1>7, <3>1, MainPasses
    <3>2. CASE \E f \in work : ByFileAction(f)
      BY <1>7, <3>2, FilePasses DEF Loops, ByEntry, ByFile
    <3>3. CASE \E s \in pending : VisitSection(s)
      BY <1>7, <3>3 DEF VisitSection
    <3> QED
      BY <3>1, <3>2, <3>3, Steps
  <2> QED
    BY <2>4, <2>5, <2>6, <2>7
<1> QED
  BY <1>3, <1>6, <1>7 DEF Collected

(* An entry that a loop over entries is past was so before, or has just been handled. *)
LEMMA PastEntries ==
  ASSUME Types, Progress, NEW f \in work, ByFileAction(f), pc \in ByEntry,
         NEW g \in Linked, NEW j \in Entries(g), g \in work' => j <= pos'[g]
  PROVE  (g \in work => j <= pos[g]) \/ (g = f /\ j = pos[f] + 1)
<1>1. g \in Files /\ f \in Files
  BY DEF Types, Linked
<1>2. CASE g # f
  BY <1>1, <1>2, LoopStep
<1>3. CASE g = f
  <2>1. pos[f] \in Nat /\ Len(File(f).syms) \in Nat /\ j \in 1 .. Len(File(f).syms)
    BY <1>1, <1>3, FileFacts DEF Types
  <2>2. /\ pos'[f] = pos[f] + 1
        /\ work' = IF pos'[f] >= Len(File(f).syms) THEN work \ {f} ELSE work
    BY LoopStep
  <2>3. j <= pos[f] + 1
    <3>1. CASE f \in work'
      BY <1>3, <2>2, <3>1
    <3>2. CASE f \notin work'
      <4>1. pos[f] + 1 >= Len(File(f).syms)
        BY <2>2, <3>2
      <4> QED
        BY <2>1, <4>1
    <3> QED
      BY <3>1, <3>2
  <2>4. j <= pos[f] \/ j = pos[f] + 1
    BY <2>1, <2>3
  <2> QED
    BY <1>3, <2>4
<1> QED
  BY <1>2, <1>3

LEMMA ClaimsStep ==
  ASSUME IInv, [Next]_vars
  PROVE  Claims'
<1>1. Types /\ Lists /\ Progress /\ Owners /\ Claims
  BY DEF IInv
<1>2. link' = link
  BY Steps
<1>3. /\ Files' = Files /\ Keys' = Keys /\ \A f : Entries(f)' = Entries(f) /\ File(f)' = File(f)
      /\ \A f, i : KeyOf(f, i)' = KeyOf(f, i) /\ Entry(f, i)' = Entry(f, i)
      /\ \A f : (IsDso(f)' <=> IsDso(f)) /\ priority(f)' = priority(f)
  BY <1>2, LinkFixed
<1>4. /\ \A k : Owned(k)' <=> owner'[k] # NoOwner
      /\ \A k : EsymOf(k)' = Entry(owner'[k].file, owner'[k].idx)
  BY <1>3 DEF Owned, NoOwner, EsymOf
<1>5. ~DoLto \/ pc' \notin Claiming
  BY DEF DoLto, Enter, Claiming
<1>6. CASE pc' \notin Claiming
  <2>1. pc \notin Claiming
    <3>1. CASE EndLoop
      BY <1>6, <3>1, EndLoopPasses DEF Claiming, Loops, ByEntry, ByFile
    <3>2. CASE MainAction
      BY <1>6, <3>2, MainPasses DEF Claiming
    <3> QED
      BY <1>6, <3>1, <3>2, Changes
  <2>2. rebound' = rebound
    <3>1. CASE DoLto
      BY <3>1 DEF DoLto
    <3>2. CASE ~DoLto /\ (EndLoop \/ MainAction \/ (\E s \in pending : VisitSection(s)) \/ UNCHANGED vars)
      BY <3>2, OwnerKept
    <3>3. CASE \E f \in work : ByFileAction(f)
      <4>1. \A f : ~ClaimSymbol(f)
        BY <2>1 DEF ClaimSymbol, Claiming
      <4> QED
        BY <3>3, <4>1 DEF ByFileAction, ResolveSymbol, MarkSymbol, ClearSymbols, OwnGroups, KillGroups,
           ConvertCommon, ApplyVersionScript, ParseSymbolVersion, ExportToDso, ImportExport
    <3> QED
      BY <3>1, <3>2, <3>3, Steps
  <2>3. rebound' = {}
    BY <1>1, <2>1, <2>2 DEF Claims
  <2>4. \A k \in Keys' : Owned(k)' => ~IsUndef(EsymOf(k))'
    BY <1>6, OwnersStep DEF Owners
  <2>5. \A f, i : ~Claimed(f, i)'
    BY <1>6 DEF Claimed
  <2> QED
    BY <1>6, <2>3, <2>4, <2>5 DEF Claims
<1>7. CASE pc' \in Claiming
  <2>1. objs' = objs
    <3>1. pc # "erase"
      <4>1. CASE EndLoop
        BY <4>1, EndLoopPasses DEF Loops, ByEntry, ByFile
      <4>2. CASE MainAction
        BY <1>7, <4>2, MainPasses DEF Claiming
      <4> QED
        BY <1>7, <4>1, <4>2, Changes DEF Claiming
    <3> QED
      BY <1>5, <1>7, <3>1, Frame
  <2>2. ASSUME
          /\ \A f \in objs : \A i \in Entries(f) : <<f, i>> \in rebound' =>
               /\ owner'[<<Entry(f, i).name, "">>] # NoOwner
               /\ ~IsUndef(Entry(owner'[<<Entry(f, i).name, "">>].file, owner'[<<Entry(f, i).name, "">>].idx))
          /\ \A k \in Keys : owner'[k] # NoOwner /\ IsUndef(Entry(owner'[k].file, owner'[k].idx)) =>
               /\ ~IsDso(owner'[k].file)
               /\ k \in imported' <=> becomes_import(k, Entry(owner[k].file, owner[k].idx))'
          /\ pc' # "failed" => \A f \in objs : \A i \in Entries(f) :
               Claimed(f, i)' /\ <<f, i>> \notin rebound' =>
                 /\ owner'[KeyOf(f, i)] # NoOwner
                 /\ IsUndef(Entry(owner'[KeyOf(f, i)].file, owner'[KeyOf(f, i)].idx)) =>
                      priority(owner'[KeyOf(f, i)].file) <= priority(f)
        PROVE  Claims'
    <3>1. \A k : IsUndef(EsymOf(k))' <=> IsUndef(Entry(owner'[k].file, owner'[k].idx))
      BY <1>4 DEF IsUndef
    <3>2. \A k : becomes_import(k, EsymOf(k))' <=> becomes_import(k, Entry(owner[k].file, owner[k].idx))'
      BY DEF EsymOf
    <3>3. \A k : IsDso(owner[k].file)' <=> IsDso(owner'[k].file)
      BY <1>2 DEF IsDso, File
    <3>4. \A k : priority(owner[k].file)' = priority(owner'[k].file)
      BY <1>2 DEF priority, File
    <3> QED
      BY <1>3, <1>4, <1>7, <2>1, <2>2, <3>1, <3>2, <3>3, <3>4 DEF Claims
  <2>3. /\ \A f \in objs : \A i \in Entries(f) : <<f, i>> \in rebound =>
             /\ Owned(<<Entry(f, i).name, "">>)
             /\ ~IsUndef(EsymOf(<<Entry(f, i).name, "">>))
        /\ \A k \in Keys : Owned(k) /\ IsUndef(EsymOf(k)) =>
             /\ ~IsDso(owner[k].file)
             /\ k \in imported <=> becomes_import(k, EsymOf(k))
        /\ pc # "failed" => \A f \in objs : \A i \in Entries(f) :
             Claimed(f, i) /\ <<f, i>> \notin rebound =>
               /\ Owned(KeyOf(f, i))
               /\ IsUndef(EsymOf(KeyOf(f, i))) => priority(owner[KeyOf(f, i)].file) <= priority(f)
    BY <1>1 DEF Claims
  <2>4. ASSUME UNCHANGED <<owner, imported, rebound, vis>>,
               \A f \in objs : \A i \in Entries(f) : Claimed(f, i)' => Claimed(f, i),
               pc' # "failed" => pc # "failed"
        PROVE  Claims'
    <3>1. \A k : Owned(k)' <=> Owned(k)
      BY <2>4 DEF Owned, NoOwner
    <3>2. \A k : EsymOf(k)' = EsymOf(k)
      BY <1>2, <2>4 DEF EsymOf, Entry, File
    <3>3. \A k : IsUndef(EsymOf(k))' <=> IsUndef(EsymOf(k))
      BY <3>2 DEF IsUndef
    <3>4. \A k : becomes_import(k, EsymOf(k))' <=> becomes_import(k, EsymOf(k))
      BY <1>2, <2>4, <3>2 DEF becomes_import
    <3>5. \A k : IsDso(owner[k].file)' <=> IsDso(owner[k].file)
      BY <1>2, <2>4 DEF IsDso, File
    <3>6. \A k : priority(owner[k].file)' = priority(owner[k].file)
      BY <1>2, <2>4 DEF priority, File
    <3> QED
      BY <1>3, <1>7, <2>1, <2>3, <2>4, <3>1, <3>3, <3>4, <3>5, <3>6 DEF Claims
  <2>5. CASE pc \notin Claiming
    <3>1. pc = "duplicates" /\ CheckDuplicates /\ Enter(pc') /\ pc' \in {"failed", "claim"}
      <4>1. CASE EndLoop
        BY <1>7, <2>5, <4>1, EndLoopPasses DEF Claiming, Loops, ByEntry, ByFile
      <4>2. CASE MainAction
        BY <1>7, <2>5, <4>2, MainPasses DEF Claiming
      <4> QED
        BY <1>7, <2>5, <4>1, <4>2, Changes
    <3>2. UNCHANGED <<owner, imported, rebound, vis>>
      BY <3>1 DEF CheckDuplicates
    <3>3. ASSUME NEW f \in objs, NEW i \in Entries(f), Claimed(f, i)', pc' # "failed" PROVE FALSE
      <4>1. pc' = "claim" /\ f \in Files
        BY <1>1, <3>1, <3>3 DEF Types
      <4>2. Len(File(f).syms) \in Nat /\ i \in 1 .. Len(File(f).syms)
        BY <1>1, <4>1, FileFacts DEF Types
      <4>3. Len(File(f).syms) > 0 /\ ~(i <= 0)
        BY <4>2
      <4>4. f \in work' /\ pos'[f] = 0
        BY <2>1, <3>1, <4>1, <4>3, EnterFacts DEF ByEntry, OverDsos
      <4> QED
        BY <3>3, <4>1, <4>3, <4>4 DEF Claimed
    <3>4. rebound' = {}
      BY <1>1, <2>5, <3>2 DEF Claims
    <3>5. \A k \in Keys : owner'[k] # NoOwner => ~IsUndef(Entry(owner'[k].file, owner'[k].idx))
      BY <1>1, <2>5, <3>2 DEF Owners, Owned, EsymOf
    <3> QED
      BY <2>2, <3>3, <3>4, <3>5
  <2>6. CASE pc \in Claiming /\ EndLoop
    <3>1. UNCHANGED <<owner, imported, rebound, vis>> /\ pc = "claim" /\ pc' = "finish" /\ work = {}
      BY <2>6, EndLoopPasses DEF Claiming, Loops, ByEntry, ByFile
    <3>2. \A f \in objs : \A i \in Entries(f) : Claimed(f, i)' => Claimed(f, i)
      BY <1>3, <2>6, <3>1 DEF Claimed, IsUndef
    <3> QED
      BY <2>4, <3>1, <3>2
  <2>7. CASE pc \in Claiming /\ MainAction
    <3>1. Finish /\ pc = "finish" /\ pc' \in {"failed", "done"}
      BY <2>7, MainPasses DEF Claiming
    <3>2. UNCHANGED <<owner, imported, rebound, vis>>
      BY <3>1 DEF Finish
    <3>3. \A f \in objs : \A i \in Entries(f) : Claimed(f, i)' => Claimed(f, i)
      BY <1>3, <2>7, <3>1 DEF Claimed, IsUndef
    <3> QED
      BY <2>4, <3>1, <3>2, <3>3
  <2>8. ASSUME pc \in Claiming, NEW f \in work, ByFileAction(f)
        PROVE  Claims'
    <3>1. pc = "claim" /\ pc' = "claim" /\ ClaimSymbol(f) /\ pc \in ByEntry
      BY <2>8, FilePasses DEF Claiming, Loops, ByEntry, ByFile
    <3>2. f \in objs /\ f \in Files /\ f \in Linked /\ ~IsDso(f)
      BY <1>1, <3>1 DEF Progress, Types, Linked, Lists, ByEntry, OverDsos
    <3> DEFINE i == pos[f] + 1
               e == Entry(f, i)
               k == KeyOf(f, i)
    <3>3. /\ i \in Entries(f) /\ k \in Keys
          /\ \A l \in Keys : l # k => owner'[l] = owner[l]
          /\ \/ /\ ~IsUndef(e) \/ KeepsOwner(f, i)
                /\ UNCHANGED <<owner, imported, rebound>>
             \/ /\ IsUndef(e) /\ served_by_version(f, e)
                /\ rebound' = rebound \cup {<<f, i>>}
                /\ UNCHANGED <<owner, imported>>
             \/ /\ IsUndef(e) /\ ~KeepsOwner(f, i)
                /\ owner'[k] = [file |-> f, idx |-> i]
                /\ imported' = IF becomes_import(k, e) THEN imported \cup {k} ELSE imported \ {k}
                /\ UNCHANGED rebound
      BY <1>1, <3>1, ClaimOwner
    <3>4. vis' = vis
      BY <3>1 DEF ClaimSymbol
    <3>5. ASSUME NEW g \in objs, NEW j \in Entries(g), Claimed(g, j)'
          PROVE  Claimed(g, j) \/ (g = f /\ j = i)
      <4>1. IsUndef(Entry(g, j)) /\ (g \in work' => j <= pos'[g])
        BY <1>3, <3>1, <3>5 DEF Claimed, IsUndef
      <4>2. (g \in work => j <= pos[g]) \/ (g = f /\ j = i)
        BY <1>1, <2>8, <3>1, <4>1, PastEntries DEF Linked
      <4> QED
        BY <2>8, <3>1, <4>1, <4>2 DEF Claimed
    <3>6. \A g \in objs : \A j \in Entries(g) : KeyOf(g, j) \in Keys /\ <<Entry(g, j).name, "">> \in Keys
      BY <1>1, FileFacts DEF Types
    <3>8. \A l : becomes_import(l, Entry(owner[l].file, owner[l].idx))'
               <=> becomes_import(l, Entry(owner'[l].file, owner'[l].idx))
      BY <1>2, <3>4 DEF becomes_import, Entry, File
    <3>9. \A l : /\ EsymOf(l) = Entry(owner[l].file, owner[l].idx)
                 /\ Owned(l) <=> owner[l] # NoOwner
      BY DEF EsymOf, Owned
    <3>10. KeepsOwner(f, i) <=> Owned(k) /\ (~IsUndef(EsymOf(k)) \/ priority(owner[k].file) <= priority(f))
      BY DEF KeepsOwner
    <3> HIDE DEF i, k, e
    <3>11. CASE /\ ~IsUndef(e) \/ KeepsOwner(f, i)
                /\ UNCHANGED <<owner, imported, rebound>>
      <4>1. ASSUME NEW g \in objs, NEW j \in Entries(g), Claimed(g, j)', <<g, j>> \notin rebound'
            PROVE  /\ Owned(KeyOf(g, j))
                   /\ IsUndef(EsymOf(KeyOf(g, j))) => priority(owner[KeyOf(g, j)].file) <= priority(g)
        <5>1. CASE Claimed(g, j)
          BY <2>3, <3>1, <3>11, <4>1, <5>1
        <5>2. CASE g = f /\ j = i
          <6>1. IsUndef(e)
            BY <1>3, <4>1, <5>2 DEF Claimed, e, IsUndef
          <6> QED
            BY <3>10, <3>11, <5>2, <6>1 DEF k
        <5> QED
          BY <3>5, <4>1, <5>1, <5>2
      <4> QED
        BY <2>2, <2>3, <3>8, <3>9, <3>11, <4>1
    <3>12. CASE /\ IsUndef(e) /\ served_by_version(f, e)
                /\ rebound' = rebound \cup {<<f, i>>}
                /\ UNCHANGED <<owner, imported>>
      <4>1. <<e.name, "">> \in Keys
        BY <3>2, <3>3, <3>6 DEF e
      <4>2. Owned(<<e.name, "">>) /\ IsDso(owner[<<e.name, "">>].file)
        BY <3>12 DEF served_by_version
      <4>3. ~IsUndef(EsymOf(<<e.name, "">>))
        BY <2>3, <4>1, <4>2
      <4>4. ASSUME NEW g \in objs, NEW j \in Entries(g), <<g, j>> \in rebound'
            PROVE  Owned(<<Entry(g, j).name, "">>) /\ ~IsUndef(EsymOf(<<Entry(g, j).name, "">>))
        BY <2>3, <3>12, <4>2, <4>3, <4>4 DEF e
      <4>5. ASSUME NEW g \in objs, NEW j \in Entries(g), Claimed(g, j)', <<g, j>> \notin rebound'
            PROVE  /\ Owned(KeyOf(g, j))
                   /\ IsUndef(EsymOf(KeyOf(g, j))) => priority(owner[KeyOf(g, j)].file) <= priority(g)
        BY <2>3, <3>1, <3>5, <3>12, <4>5
      <4> QED
        BY <2>2, <2>3, <3>8, <3>9, <3>12, <4>4, <4>5
    <3>13. CASE /\ IsUndef(e) /\ ~KeepsOwner(f, i)
                /\ owner'[k] = [file |-> f, idx |-> i]
                /\ imported' = IF becomes_import(k, e) THEN imported \cup {k} ELSE imported \ {k}
                /\ UNCHANGED rebound
      <4>1. owner'[k] # NoOwner /\ owner'[k].file = f /\ owner'[k].idx = i
        <5>1. [file |-> f, idx |-> i] # NoOwner
          BY <1>1, <3>2, <3>3, NotNobody DEF Types
        <5> QED
          BY <3>13, <5>1
      <4>2. ASSUME NEW g \in objs, NEW j \in Entries(g), <<g, j>> \in rebound'
            PROVE  /\ owner'[<<Entry(g, j).name, "">>] # NoOwner
                   /\ ~IsUndef(Entry(owner'[<<Entry(g, j).name, "">>].file, owner'[<<Entry(g, j).name, "">>].idx))
        <5> DEFINE l == <<Entry(g, j).name, "">>
        <5>1. Owned(l) /\ ~IsUndef(EsymOf(l)) /\ l \in Keys
          BY <2>3, <3>6, <3>13, <4>2
        <5> HIDE DEF l
        <5>2. l # k
          BY <3>10, <3>13, <5>1
        <5>3. owner'[l] = owner[l]
          BY <3>3, <5>1, <5>2
        <5>4. owner'[l] # NoOwner /\ ~IsUndef(Entry(owner'[l].file, owner'[l].idx))
          BY <3>9, <5>1, <5>3
        <5> QED
          BY <5>4 DEF l
      <4>3. ASSUME NEW l \in Keys, owner'[l] # NoOwner, IsUndef(Entry(owner'[l].file, owner'[l].idx))
            PROVE  /\ ~IsDso(owner'[l].file)
                   /\ l \in imported' <=> becomes_import(l, Entry(owner'[l].file, owner'[l].idx))
        <5>1. CASE l = k
          BY <3>2, <3>13, <4>1, <5>1 DEF e
        <5>2. CASE l # k
          <6>1. owner'[l] = owner[l] /\ (l \in imported' <=> l \in imported)
            BY <3>3, <3>13, <5>2
          <6> QED
            BY <2>3, <3>9, <4>3, <6>1
        <5> QED
          BY <5>1, <5>2
      <4>4. ASSUME NEW g \in objs, NEW j \in Entries(g), Claimed(g, j)', <<g, j>> \notin rebound'
            PROVE  /\ owner'[KeyOf(g, j)] # NoOwner
                   /\ IsUndef(Entry(owner'[KeyOf(g, j)].file, owner'[KeyOf(g, j)].idx)) =>
                        priority(owner'[KeyOf(g, j)].file) <= priority(g)
        <5>1. priority(f) \in Nat /\ priority(g) \in Nat /\ g \in Files
          BY <1>1, <3>2, FileFacts DEF Types
        <5>2. CASE KeyOf(g, j) = k
          <6>1. priority(f) <= priority(g)
            <7>1. CASE g = f
              BY <5>1, <7>1
            <7>2. CASE Claimed(g, j)
              <8>1. Owned(k) /\ (IsUndef(EsymOf(k)) => priority(owner[k].file) <= priority(g))
                BY <2>3, <3>1, <3>13, <4>4, <5>2, <7>2
              <8>2. priority(owner[k].file) <= priority(g) /\ ~(priority(owner[k].file) <= priority(f))
                BY <3>10, <3>13, <8>1
              <8>3. priority(owner[k].file) \in Nat
                BY <1>1, <3>3, <8>1, FileFacts DEF Types, Owners, Linked
              <8> QED
                BY <5>1, <8>2, <8>3
            <7> QED
              BY <3>5, <4>4, <7>1, <7>2
          <6> QED
            BY <4>1, <5>2, <6>1
        <5>3. CASE KeyOf(g, j) # k
          <6>1. Claimed(g, j)
            BY <3>5, <4>4, <5>3 DEF k
          <6>2. owner'[KeyOf(g, j)] = owner[KeyOf(g, j)]
            BY <3>3, <3>6, <5>3
          <6> QED
            BY <2>3, <3>1, <3>9, <3>13, <4>4, <6>1, <6>2
        <5> QED
          BY <5>2, <5>3
      <4> QED
        BY <2>2, <3>8, <4>2, <4>3, <4>4
    <3> QED
      BY <3>3, <3>11, <3>12, <3>13 DEF i, k, e
  <2>9. CASE (\E s \in pending : VisitSection(s)) \/ UNCHANGED vars
    <3>1. UNCHANGED <<owner, imported, rebound, vis>> /\ UNCHANGED <<pc, work, pos>>
      BY <2>9 DEF VisitSection, vars
    <3>2. \A f \in objs : \A i \in Entries(f) : Claimed(f, i)' => Claimed(f, i)
      BY <1>3, <3>1 DEF Claimed, IsUndef
    <3> QED
      BY <2>4, <3>1, <3>2
  <2> QED
    BY <2>5, <2>6, <2>7, <2>8, <2>9, Steps
<1> QED
  BY <1>6, <1>7

(* Strictness is a number, so that being stricter is transitive. *)
LEMMA StricterThan ==
  ASSUME NEW a \in {"hidden", "protected", "default"}, NEW b \in {"hidden", "protected", "default"},
         NEW v \in {"hidden", "protected", "default", "internal"},
         Strictness[a] <= Strictness[b], Strictness[b] <= Strictness[merge_visibility("default", v)]
  PROVE  Strictness[a] <= Strictness[merge_visibility("default", v)]
<1>1. \A x \in {"hidden", "protected", "default"} : Strictness[x] \in Nat
  BY DEF Strictness
<1>2. merge_visibility("default", v) \in {"hidden", "protected", "default"}
  BY DEF merge_visibility, Strictness
<1> QED
  BY <1>1, <1>2

LEMMA VisibleStep ==
  ASSUME IInv, [Next]_vars
  PROVE  Visible'
<1>1. Types /\ Lists /\ Progress /\ Owners /\ Visible
  BY DEF IInv
<1>2. link' = link
  BY Steps
<1>3. /\ \A f : Entries(f)' = Entries(f) /\ File(f)' = File(f)
      /\ \A f, i : KeyOf(f, i)' = KeyOf(f, i) /\ Entry(f, i)' = Entry(f, i)
  BY <1>2, LinkFixed
<1>4. SUFFICES ASSUME NEW f \in objs' \cap alive', NEW i \in Present(f)', Merged(f, i)'
               PROVE  Strictness[vis'[KeyOf(f, i)]] <= Strictness[merge_visibility("default", Entry(f, i).vis)]
  BY <1>3 DEF Visible, merge_visibility, Strictness
<1>5. ~DoLto
  BY <1>4 DEF DoLto, Enter, Merged
<1>6. f \in objs /\ i \in Present(f) /\ f \in Files /\ i \in Entries(f)
  BY <1>1, <1>4, <1>5, Frame DEF Types, Present
<1>7. KeyOf(f, i) \in Keys /\ Entry(f, i).vis \in {"hidden", "protected", "default", "internal"}
      /\ Len(File(f).syms) \in Nat /\ i \in 1 .. Len(File(f).syms)
  BY <1>1, <1>6, FileFacts DEF Types, IsEntry
<1>8. ASSUME f \in alive, Merged(f, i)
      PROVE  Strictness[vis[KeyOf(f, i)]] <= Strictness[merge_visibility("default", Entry(f, i).vis)]
  BY <1>1, <1>6, <1>8 DEF Visible
<1>9. CASE \E g \in work : MarkSymbol(g)
  <2>1. PICK g \in work : MarkSymbol(g)
    BY <1>9
  <2>2. /\ pc' = pc /\ pc \in {"mark", "mark_lto"} /\ g \in Files
        /\ alive \subseteq alive' /\ alive' \ alive \subseteq work'
        /\ pos'[g] = pos[g] + 1 /\ \A h \in Files : h # g => pos'[h] = pos[h]
        /\ work \ {g} \subseteq work'
        /\ pos[g] + 1 < Len(File(g).syms) => g \in work'
        /\ vis' \in [Keys -> {"hidden", "protected", "default"}]
        /\ \A l \in Keys : Strictness[vis'[l]] <= Strictness[vis[l]]
        /\ ~IsDso(g) /\ <<g, pos[g] + 1>> \notin dropped =>
              Strictness[vis'[KeyOf(g, pos[g] + 1)]]
                <= Strictness[merge_visibility("default", Entry(g, pos[g] + 1).vis)]
    BY <1>1, <2>1, MarkFacts DEF MarkSymbol
  <2>3. vis'[KeyOf(f, i)] \in {"hidden", "protected", "default"}
        /\ vis[KeyOf(f, i)] \in {"hidden", "protected", "default"}
    BY <1>1, <1>7, <2>2 DEF Types
  <2>4. CASE f \in alive /\ Merged(f, i)
    BY <1>7, <1>8, <2>2, <2>3, <2>4, StricterThan
  <2>5. CASE f \notin alive
    <3>1. pc = "mark"
      BY <1>1, <1>6, <2>2, <2>5 DEF Lists, Early, Linked
    <3>2. f \in work' /\ f # g /\ pos[f] = 0
      BY <1>1, <1>4, <1>6, <2>2, <2>5, <3>1 DEF Progress
    <3>3. pos'[f] = 0
      BY <1>6, <2>2, <3>2
    <3>4. i <= 0
      BY <1>4, <2>2, <3>1, <3>2, <3>3 DEF Merged
    <3> QED
      BY <1>7, <3>4
  <2>6. CASE f \in alive /\ ~Merged(f, i)
    <3>1. pc = "mark" /\ f \in work /\ ~(i <= pos[f])
      BY <1>4, <2>2, <2>6 DEF Merged
    <3>2. f = g
      <4>1. CASE f # g
        <5>1. f \in work' /\ pos'[f] = pos[f]
          BY <1>6, <2>2, <3>1, <4>1
        <5> QED
          BY <1>4, <2>2, <3>1, <5>1 DEF Merged
      <4> QED
        BY <4>1
    <3>3. i = pos[g] + 1
      <4>1. pos[g] \in Nat
        BY <1>1, <2>2 DEF Types
      <4>2. CASE g \in work'
        <5>1. i <= pos[g] + 1
          BY <1>4, <2>2, <3>1, <3>2, <4>2 DEF Merged
        <5> QED
          BY <1>7, <3>1, <3>2, <4>1, <5>1
      <4>3. CASE g \notin work'
        <5>1. ~(pos[g] + 1 < Len(File(g).syms))
          BY <2>2, <4>3
        <5> QED
          BY <1>7, <3>1, <3>2, <4>1, <5>1
      <4> QED
        BY <4>2, <4>3
    <3>4. ~IsDso(g) /\ <<g, pos[g] + 1>> \notin dropped
      BY <1>1, <1>6, <3>2, <3>3 DEF Lists, Present
    <3> QED
      BY <2>2, <3>2, <3>3, <3>4
  <2> QED
    BY <2>4, <2>5, <2>6
<1>10. CASE ~ \E g \in work : MarkSymbol(g)
  <2>1. vis' = vis
    <3>1. CASE \E g \in work : ByFileAction(g)
      BY <1>10, <3>1 DEF ByFileAction, ResolveSymbol, ClearSymbols, OwnGroups, KillGroups,
         ConvertCommon, ApplyVersionScript, ParseSymbolVersion, ExportToDso, ImportExport, ClaimSymbol
    <3> QED
      BY <1>5, <3>1, OwnerKept, Steps
  <2>2. pc # "mark_roots"
    <3>1. CASE pc = "mark_roots"
      <4>1. ~EndLoop
        BY <3>1, EndLoopPasses DEF Loops, ByEntry, ByFile
      <4>2. pc' # pc
        BY <1>4, <3>1 DEF Merged
      <4>3. MainAction
        BY <4>1, <4>2, Changes
      <4>4. Enter(pc') /\ pc' = "mark"
        BY <3>1, <4>3, MainPasses
      <4>5. Len(File(f).syms) > 0 /\ ~(i <= 0)
        BY <1>7
      <4>6. f \in Linked'
        BY <1>4 DEF Linked
      <4>7. f \in work' /\ pos'[f] = 0
        BY <1>4, <1>6, <4>4, <4>5, <4>6, EnterFacts
      <4> QED
        BY <1>4, <4>4, <4>5, <4>7 DEF Merged
    <3> QED
      BY <3>1
  <2>3. f \in alive
    <3>1. CASE pc \in Early
      <4>1. pc \notin {"mark_roots_lto", "mark_lto"}
        BY <3>1 DEF Early
      <4>2. alive' = alive
        <5>1. CASE pc = "mark"
          <6>1. CASE \E g \in work : ByFileAction(g)
            BY <1>10, <5>1, <6>1, FilePasses
          <6>2. CASE EndLoop
            BY <6>2, EndLoopPasses
          <6>3. CASE MainAction
            BY <5>1, <6>3, MainPasses
          <6>4. CASE (\E s \in pending : VisitSection(s)) \/ UNCHANGED vars
            BY <6>4 DEF VisitSection, vars
          <6> QED
            BY <6>1, <6>2, <6>3, <6>4, Steps
        <5> QED
          BY <1>5, <2>2, <4>1, <5>1, Frame
      <4> QED
        BY <1>4, <4>2
    <3>2. CASE pc \notin Early
      BY <1>1, <1>6, <3>2 DEF Lists, Linked
    <3> QED
      BY <3>1, <3>2
  <2>4. Merged(f, i)
    <3>1. pc \notin {"register_objs", "register_dsos"}
      <4>1. CASE EndLoop
        BY <1>4, <4>1, EndLoopPasses DEF Merged
      <4>2. CASE MainAction
        BY <4>2, MainPasses
      <4> QED
        BY <1>4, <4>1, <4>2, Changes DEF Merged
    <3>2. CASE pc = "mark" /\ f \in work
      <4>1. ~ \E g \in work : ByFileAction(g)
        BY <1>10, <3>2, FilePasses
      <4>2. ~EndLoop /\ ~MainAction
        BY <3>2, EndLoopPasses, MainPasses
      <4>3. UNCHANGED <<pc, work, pos>>
        BY <4>1, <4>2, Steps DEF VisitSection, vars
      <4> QED
        BY <1>4, <4>3 DEF Merged
    <3>3. CASE ~(pc = "mark" /\ f \in work)
      BY <2>2, <3>1, <3>3 DEF Merged
    <3> QED
      BY <3>2, <3>3
  <2> QED
    BY <1>8, <2>1, <2>3, <2>4
<1> QED
  BY <1>9, <1>10

-----------------------------------------------------------------------------
(* The invariant holds at first. *)
LEMMA InitIInv ==
  ASSUME Init
  PROVE  IInv
<1>1. PICK l \in Links : link = LinkOf(l)
  BY DEF Init
<1>2. IsLink(link)
  BY <1>1, LinksAssumption
<1>3. /\ pc = "register_objs" /\ round = 1
      /\ objs = {f \in Files : ~IsDso(f) /\ ~File(f).native}
      /\ dsos = {f \in Files : IsDso(f)}
      /\ alive = {f \in Files : initially_alive(f)}
      /\ pos = [f \in Files |-> 0]
      /\ work = WithSymbols(objs)
      /\ owner = [k \in Keys |-> NoOwner]
      /\ vis = [k \in Keys |-> "default"]
      /\ exported = {} /\ rebound = {} /\ dead = {} /\ converted = {} /\ dropped = {}
      /\ groups = [g \in Signatures |-> FreeGroup]
  BY DEF Init
<1>4. \A k \in Keys : ~Owned(k)
  BY <1>3 DEF Owned
<1>5. Types
  BY <1>2, <1>3 DEF Types, Passes, Early, Linked, WithSymbols, FreeGroup
<1>6. Lists
  BY <1>3 DEF Lists, Early, Claiming
<1>7. Progress
  <2>1. ASSUME NEW f \in work PROVE pos[f] < Len(File(f).syms)
    <3>1. f \in Files /\ Len(File(f).syms) > 0
      BY <1>3 DEF WithSymbols
    <3>2. Len(File(f).syms) \in Nat
      BY <1>2, <3>1, FileFacts
    <3> QED
      BY <1>3, <3>1, <3>2
  <2> QED
    BY <1>3, <2>1 DEF Progress, WithSymbols, Loops, ByEntry, ByFile, OverDsos
<1>8. Owners
  BY <1>4 DEF Owners
<1>9. Best /\ Comdats
  BY <1>3 DEF Best, Comdats, Resolving, AskedOwn, AskedKill, Claiming, FreeGroup
<1>10. SectionsOwned /\ Exports /\ Collected
  BY <1>3 DEF SectionsOwned, Exports, Collected, Closing, Claiming
<1>11. Claims
  BY <1>3, <1>4 DEF Claims, Claimed, Claiming
<1>12. Visible
  BY <1>3 DEF Visible, Merged
<1> QED
  BY <1>5, <1>6, <1>7, <1>8, <1>9, <1>10, <1>11, <1>12 DEF IInv

(* The invariant of the whole pipeline holds in every reachable state.     *)
THEOREM Inductive == Spec => []IInv
<1>1. Init => IInv
  BY InitIInv
<1>2. IInv /\ [Next]_vars => IInv'
  BY TypesStep, ListsStep, ProgressStep, OwnersStep, BestStep, ComdatsStep, SectionsOwnedStep,
     ExportsStep, CollectedStep, ClaimsStep, VisibleStep DEF IInv
<1> QED
  BY <1>1, <1>2, PTL DEF Spec

-----------------------------------------------------------------------------
(* When the resolutions are over, each symbol belongs to the best          *)
(* definition among the linked files, whatever the order in which their    *)
(* threads reached it (resolve_symbols, clear_symbols, do_resolve_symbols). *)
THEOREM BestOwns == Spec => []BestDefinitionOwns
<1>1. IInv => BestDefinitionOwns
  <2>1. SUFFICES ASSUME IInv, pc = "kill_eh_frame", NEW k \in Keys
                 PROVE  LET cands == {c \in UNION {{f} \X Present(f) : f \in Linked} :
                                        KeyOf(c[1], c[2]) = k /\ Eligible(c[1], Entry(c[1], c[2]))}
                            rank(c) == get_rank(c[1], Entry(c[1], c[2]), FALSE)
                        IN IF cands = {} THEN ~Owned(k)
                           ELSE \E c \in cands : owner[k].file = c[1] /\ \A d \in cands : rank(c) <= rank(d)
    BY DEF BestDefinitionOwns
  <2> DEFINE cands == {c \in UNION {{f} \X Present(f) : f \in Linked} :
                         KeyOf(c[1], c[2]) = k /\ Eligible(c[1], Entry(c[1], c[2]))}
             rank(c) == get_rank(c[1], Entry(c[1], c[2]), FALSE)
             mine == <<owner[k].file, owner[k].idx>>
  <2>2. Types /\ Progress /\ Owners /\ Best
    BY <2>1 DEF IInv
  <2>3. pc \in Resolving /\ \A f, i : Seen(f, i)
    BY <2>1, <2>2 DEF Resolving, Progress, Loops, ByEntry, ByFile, Seen
  <2>4. ASSUME Owned(k) PROVE mine \in cands
    <3>1. /\ owner[k].file \in Linked /\ owner[k].idx \in Entries(owner[k].file)
          /\ KeyOf(owner[k].file, owner[k].idx) = k
      BY <2>2, <2>4 DEF Owners
    <3>2. mine \notin dropped /\ Eligible(owner[k].file, Entry(owner[k].file, owner[k].idx))
      BY <2>2, <2>3, <2>4 DEF Best, EsymOf
    <3>3. owner[k].idx \in Present(owner[k].file)
      BY <3>1, <3>2 DEF Present
    <3> QED
      BY <3>1, <3>2, <3>3
  <2>5. ASSUME NEW d \in cands PROVE Owned(k) /\ rank(mine) <= rank(d)
    <3>1. PICK f \in Linked : d \in {f} \X Present(f)
      BY <2>5
    <3>2. PICK i \in Present(f) : d = <<f, i>>
      BY <3>1
    <3>3. KeyOf(f, i) = k /\ Eligible(f, Entry(f, i))
      BY <2>5, <3>2
    <3>4. Owned(KeyOf(f, i)) /\ Rank(owner[KeyOf(f, i)].file, owner[KeyOf(f, i)].idx) <= Rank(f, i)
      BY <2>2, <2>3, <3>3 DEF Best
    <3> QED
      BY <3>2, <3>3, <3>4 DEF Rank
  <2>6. mine[1] = owner[k].file
    OBVIOUS
  <2> HIDE DEF cands, rank, mine
  <2>7. IF cands = {} THEN ~Owned(k)
        ELSE \E c \in cands : owner[k].file = c[1] /\ \A d \in cands : rank(c) <= rank(d)
    BY <2>4, <2>5, <2>6
  <2> QED
    BY <2>7 DEF cands, rank
<1> QED
  BY <1>1, Inductive, PTL

(* After COMDAT elimination one copy of each group is left, in either      *)
(* round, and no symbol is in a discarded one (eliminate_comdats).         *)
THEOREM OneCopy == Spec => []OneCopyPerGroup
<1>1. IInv => OneCopyPerGroup
  <2>1. SUFFICES ASSUME IInv, pc = "kill_eh_frame" PROVE OneCopyPerGroup
    BY DEF OneCopyPerGroup
  <2>2. Types /\ Lists /\ Best /\ Comdats /\ SectionsOwned /\ Owners
    BY <2>1 DEF IInv
  <2>3. \A f : AskedOwn(f) /\ AskedKill(f)
    BY <2>1 DEF AskedOwn, AskedKill, Resolving
  <2>4. pc \notin Closing \cup {"duplicates"} \cup Claiming /\ pc \in Resolving
    BY <2>1 DEF Closing, Claiming, Resolving
  <2>5. ASSUME NEW g \in Signatures, NEW h \in objs, g \in GroupsOf(h)
        PROVE  \E f \in {f \in objs : g \in GroupsOf(f)} :
                 /\ ({f} \X File(f).groups[g]) \cap dead = {}
                 /\ \A x \in {f2 \in objs : g \in GroupsOf(f2)} \ {f} : {x} \X File(x).groups[g] \subseteq dead
    <3>1. groups[g] # FreeGroup
      <4>1. groups[g] <= priority(h) /\ groups[g] \in Nat
        BY <2>2, <2>3, <2>5 DEF Comdats, Types
      <4>2. priority(h) \in Nat /\ priority(h) < RankShift
        BY <2>2, FileFacts DEF Types
      <4> QED
        BY <4>1, <4>2 DEF RankShift, FreeGroup
    <3>2. PICK f \in objs \cap alive : g \in GroupsOf(f) /\ groups[g] = priority(f)
      BY <2>2, <3>1 DEF Comdats
    <3>3. f \in Files /\ IsFile(File(f)) /\ g \in DOMAIN File(f).groups /\ groups[g] \in Nat
      BY <2>2, <3>2, FileFacts DEF Types, GroupsOf
    <3>4. ASSUME NEW s \in ({f} \X File(f).groups[g]) \cap dead PROVE FALSE
      <4>1. s[1] = f /\ s[2] \in File(f).groups[g]
        BY <3>4
      <4>2. Lost1(s)
        BY <2>2, <2>4, <3>4 DEF Comdats
      <4>3. PICK g2 \in DOMAIN File(f).groups : s[2] \in File(f).groups[g2] /\ groups[g2] < priority(f)
        BY <4>1, <4>2 DEF Lost1
      <4>4. g2 # g
        BY <3>2, <3>3, <4>3
      <4> QED
        BY <3>3, <4>1, <4>3, <4>4 DEF IsFile
    <3>5. ASSUME NEW x \in objs \ {f}, g \in GroupsOf(x) PROVE {x} \X File(x).groups[g] \subseteq dead
      <4>1. groups[g] # priority(x)
        BY <2>2, <3>2, <3>3, FileFacts DEF Types
      <4> QED
        BY <2>2, <2>3, <3>5, <4>1 DEF Comdats
    <3> QED
      BY <3>2, <3>4, <3>5
  <2>6. ASSUME NEW k \in Keys PROVE SectionOf(k) \cap dead = {}
    <3>1. ASSUME NEW s \in SectionOf(k), s \in dead PROVE FALSE
      <4>1. converted = {}
        BY <2>2, <2>4 DEF SectionsOwned
      <4>2. Owned(k) /\ EsymOf(k).def # "common" /\ ~is_abs(owner[k].file, EsymOf(k))
            /\ ~IsDso(owner[k].file) /\ s = <<owner[k].file, EsymOf(k).sec>>
        BY <3>1, <4>1, SectionFacts
      <4>3. Eligible(owner[k].file, EsymOf(k))
        BY <2>2, <2>4, <4>2 DEF Best
      <4> QED
        BY <3>1, <4>2, <4>3 DEF Eligible
    <3> QED
      BY <3>1
  <2> QED
    BY <2>5, <2>6 DEF OneCopyPerGroup
<1> QED
  BY <1>1, Inductive, PTL

(* Garbage collection leaves no dangling reference: kept sections refer to *)
(* kept ones, exported symbols keep their sections, and all that a DSO     *)
(* needs of an executable is exported (gc_sections, compute_import_export). *)
THEOREM Kept == Spec => []KeptIsClosed
<1>1. IInv => KeptIsClosed
  <2>1. SUFFICES ASSUME IInv, pc = "duplicates" PROVE KeptIsClosed
    BY DEF KeptIsClosed
  <2>2. Collected /\ Exports
    BY <2>1 DEF IInv
  <2>3. /\ \A s \in LiveSections : Sec(s).alloc => Lost(Sec(s).rels \cup Sec(s).fde) = {}
        /\ Lost(exported) = {}
    BY <2>1, <2>2 DEF Collected
  <2>4. ~link.shared => \A f \in dsos : \A i \in Entries(f) :
          ToExport(KeyOf(f, i)) => KeyOf(f, i) \in exported
    BY <2>1, <2>2 DEF Exports
  <2> QED
    BY <2>3, <2>4 DEF KeptIsClosed, ToExport
<1> QED
  BY <1>1, Inductive, PTL

(* Every reference has an owner in the end, the first file that refers to  *)
(* a symbol decides what becomes of it if it stayed undefined, and no      *)
(* visibility a live object asked for is lost (claim_unresolved_symbols,   *)
(* merge_visibility).                                                      *)
THEOREM FirstClaims == Spec => []ReferencesAreClaimed
<1>1. IInv => ReferencesAreClaimed
  <2>1. SUFFICES ASSUME IInv, pc = "done", NEW f \in objs, NEW i \in Present(f)
                 PROVE  LET k == RefKey(f, i) IN
                        /\ IsUndef(Entry(f, i)) => Owned(k)
                        /\ IsUndef(Entry(f, i)) /\ IsUndef(EsymOf(k)) =>
                             /\ priority(owner[k].file) <= priority(f)
                             /\ k \in imported <=> becomes_import(k, EsymOf(k))
                        /\ <<f, i>> \notin rebound =>
                             Strictness[vis[k]] <= Strictness[merge_visibility("default", Entry(f, i).vis)]
    BY DEF ReferencesAreClaimed
  <2>2. Types /\ Lists /\ Claims /\ Visible
    BY <2>1 DEF IInv
  <2>3. i \in Entries(f) /\ f \in Files /\ KeyOf(f, i) \in Keys
    BY <2>2, FileFacts DEF Present, Types
  <2>4. IsUndef(Entry(f, i)) => Claimed(f, i)
    BY <2>1 DEF Claimed, Claiming
  <2>5. f \in alive /\ Merged(f, i)
    BY <2>1, <2>2 DEF Lists, Early, Linked, Merged
  <2>6. CASE <<f, i>> \in rebound
    <3>1. RefKey(f, i) = <<Entry(f, i).name, "">>
      BY <2>6 DEF RefKey
    <3>2. Owned(RefKey(f, i)) /\ ~IsUndef(EsymOf(RefKey(f, i)))
      BY <2>2, <2>3, <2>6, <3>1 DEF Claims
    <3> QED
      BY <2>6, <3>2
  <2>7. CASE <<f, i>> \notin rebound
    <3>1. RefKey(f, i) = KeyOf(f, i)
      BY <2>7 DEF RefKey
    <3>2. Claimed(f, i) => /\ Owned(KeyOf(f, i))
                           /\ IsUndef(EsymOf(KeyOf(f, i))) => priority(owner[KeyOf(f, i)].file) <= priority(f)
      BY <2>1, <2>2, <2>3, <2>7 DEF Claims
    <3>3. Owned(KeyOf(f, i)) /\ IsUndef(EsymOf(KeyOf(f, i))) =>
            (KeyOf(f, i) \in imported <=> becomes_import(KeyOf(f, i), EsymOf(KeyOf(f, i))))
      BY <2>2, <2>3 DEF Claims
    <3>4. Strictness[vis[KeyOf(f, i)]] <= Strictness[merge_visibility("default", Entry(f, i).vis)]
      BY <2>1, <2>2, <2>5 DEF Visible
    <3> QED
      BY <2>4, <3>1, <3>2, <3>3, <3>4
  <2> QED
    BY <2>6, <2>7
<1> QED
  BY <1>1, Inductive, PTL

-----------------------------------------------------------------------------
(***************************************************************************)
(* Extraction. A second invariant, on top of the first: what registration  *)
(* finds is owned, what mark_live_objects follows it keeps, and what it    *)
(* keeps somebody asked for.                                               *)
(***************************************************************************)
Registering == {"register_objs", "register_dsos", "mark_roots", "mark"}
Extracted == {"mark", "clear_objs", "clear_dsos", "erase", "comdat_own", "comdat_kill"} \cup Resolving

\* Entries registered so far.
Found(h, j) == /\ pc = "register_objs" => h \in objs
               /\ pc \in {"register_objs", "register_dsos"} /\ h \in work => j <= pos[h]

Registered ==
  pc \in Registering =>
    /\ \A h \in Linked : \A j \in Present(h) :
         Found(h, j) /\ Eligible(h, Entry(h, j)) => Owned(KeyOf(h, j))
    /\ \A k \in Keys : Owned(k) => <<owner[k].file, owner[k].idx>> \notin dropped

\* Every file but the IR files takes part in the last registration.
Listed == ~ForLto /\ pc \in Early => \A h \in Files : ~File(h).ir => h \in Linked

\* The references mark_live_objects follows, and those it has followed.
Follows(f, i) == IF IsDso(f) THEN IsUndef(Entry(f, i)) ELSE Entry(f, i).def = "undef"
Marked(f, i) == pc = "mark" /\ f \in work => i <= pos[f]
HasDefinition(k) ==
  \E h \in Files : ~File(h).ir /\ \E j \in Present(h) : KeyOf(h, j) = k /\ Eligible(h, Entry(h, j))

Answered ==
  ~ForLto /\ pc \in Extracted =>
    \A f \in alive \cap Linked : \A i \in Present(f) :
      Follows(f, i) /\ Marked(f, i) /\ HasDefinition(KeyOf(f, i)) =>
        \E h \in alive \cap Linked : Defines(h, KeyOf(f, i))

Wanted(f, k) == \/ k[2] = "" /\ k[1] \in link.roots
                \/ \E g \in (alive \cap Linked) \cup {g \in Files : File(g).ir} : g # f /\ Asks(g, k)

Reasoned == \A f \in alive : OnlyOnDemand(f) => \E k \in Keys : Defines(f, k) /\ Wanted(f, k)

Extraction == Registered /\ Listed /\ Answered /\ Reasoned

(* Killed sections stay killed, so that a definition that can be chosen    *)
(* could be chosen before.                                                 *)
LEMMA DeadGrows ==
  ASSUME [Next]_vars
  PROVE  /\ dead \subseteq dead'
         /\ \A f, i : Eligible(f, Entry(f, i))' => Eligible(f, Entry(f, i))
<1>1. dead \subseteq dead'
  BY Changes DEF KillGroups, KillEhFrame, GcSweep
<1>2. link' = link
  BY Steps
<1> QED
  BY <1>1, <1>2 DEF Eligible, IsDso, File, Entry, IsUndef, is_abs

(* What a file asks for and defines depends on its entries alone.          *)
LEMMA AsksKept ==
  ASSUME link' = link, NEW f, Present(f)' = Present(f)
  PROVE  \A k : (Asks(f, k)' <=> Asks(f, k)) /\ (Defines(f, k)' <=> Defines(f, k))
<1>1. \A i : KeyOf(f, i)' = KeyOf(f, i) /\ Entry(f, i)' = Entry(f, i)
  BY LinkFixed
<1>2. (IsDso(f)' <=> IsDso(f)) /\ \A e : IsUndef(e)' <=> IsUndef(e)
  BY LinkFixed DEF IsUndef
<1>3. \A k : Asks(f, k)' <=> Asks(f, k)
  BY <1>1, <1>2 DEF Asks
<1>4. \A k : Defines(f, k)' <=> Defines(f, k)
  BY <1>1, <1>2 DEF Defines, IsUndef
<1> QED
  BY <1>3, <1>4

(* An entry of a file that is about to start its loop is not past yet.     *)
LEMMA NothingPast ==
  ASSUME IsLink(link), NEW f \in Files, NEW i \in Entries(f)
  PROVE  Len(File(f).syms) > 0 /\ ~(i <= 0)
<1>1. Len(File(f).syms) \in Nat /\ i \in 1 .. Len(File(f).syms)
  BY FileFacts
<1> QED
  BY <1>1

(* While files are being marked, an owner's file has the definition.       *)
LEMMA OwnerDefines ==
  ASSUME IInv, Registered, pc \in {"mark_roots", "mark", "mark_roots_lto", "mark_lto"},
         NEW k \in Keys, Owned(k)
  PROVE  owner[k].file \in Linked /\ Defines(owner[k].file, k)
<1>1. Types /\ Lists /\ Owners
  BY DEF IInv
<1>2. /\ owner[k].file \in Linked /\ owner[k].idx \in Entries(owner[k].file)
      /\ KeyOf(owner[k].file, owner[k].idx) = k /\ ~IsUndef(EsymOf(k))
  BY <1>1 DEF Owners, Claiming
<1>3. <<owner[k].file, owner[k].idx>> \notin dropped
  <2>1. CASE pc \in {"mark_roots", "mark"}
    BY <2>1 DEF Registered, Registering
  <2>2. CASE pc \in {"mark_roots_lto", "mark_lto"}
    BY <1>1, <2>2 DEF Lists, ForLto
  <2> QED
    BY <2>1, <2>2
<1> QED
  BY <1>2, <1>3 DEF Defines, Present, EsymOf

(* mark_live_objects keeps a file for a reference of the file at hand.     *)
LEMMA MarkKeeps ==
  ASSUME NEW f \in work, MarkSymbol(f), pos[f] + 1 \in Entries(f)
  PROVE  LET i == pos[f] + 1
             k == KeyOf(f, i) IN
         /\ i \in Present(f) /\ Owned(k) /\ Follows(f, i) => owner[k].file \in alive'
         /\ \A g \in alive' \ alive :
              Owned(k) /\ owner[k].file = g /\ i \in Present(f) /\ Asks(f, k)
<1> DEFINE i == pos[f] + 1
           k == KeyOf(f, i)
<1>1. alive' = alive \cup (IF <<f, i>> \notin dropped /\ keeps(f, i) THEN {owner[k].file} \ alive ELSE {})
  BY DEF MarkSymbol
<1>2. i \in Present(f) <=> <<f, i>> \notin dropped
  BY DEF Present
<1>3. Owned(k) /\ Follows(f, i) => keeps(f, i)
  BY DEF keeps, Follows
<1>4. keeps(f, i) => Owned(k)
  BY DEF keeps
<1>5. i \in Present(f) /\ keeps(f, i) => Asks(f, k)
  BY DEF keeps, Asks, IsUndef
<1> HIDE DEF i, k
<1> QED
  BY <1>1, <1>2, <1>3, <1>4, <1>5 DEF i, k

LEMMA ListedStep ==
  ASSUME IInv, Listed, [Next]_vars
  PROVE  Listed'
<1>1. SUFFICES ASSUME ~ForLto', pc' \in Early, NEW h \in Files', ~File(h)'.ir
               PROVE  h \in Linked'
  BY DEF Listed
<1>2. link' = link
  BY Steps
<1>3. h \in Files /\ ~File(h).ir
  BY <1>1, <1>2, LinkFixed
<1>4. CASE DoLto
  <2>1. objs' = {f \in Files : ~IsDso(f) /\ ~File(f).ir} /\ dsos' = {f \in Files : IsDso(f)}
    BY <1>4 DEF DoLto
  <2> QED
    BY <1>3, <2>1 DEF Linked
<1>5. CASE ~DoLto
  <2>1. pc \in Early /\ (pc = "erase" => pc' = pc)
    <3>1. CASE EndLoop
      BY <1>1, <3>1, EndLoopPasses DEF Early, Loops, ByEntry, ByFile
    <3>2. CASE MainAction
      BY <1>1, <1>5, <3>2, MainPasses DEF Early
    <3> QED
      BY <1>1, <3>1, <3>2, Changes
  <2>2. UNCHANGED <<objs, dsos>>
    <3>1. CASE pc = "erase"
      BY <2>1, <3>1, Steps, EndLoopPasses, MainPasses, FilePasses
         DEF Loops, ByEntry, ByFile, VisitSection, vars
    <3> QED
      BY <1>5, <3>1, Frame
  <2>3. h \in Linked
    BY <1>1, <1>3, <1>5, <2>1, Frame DEF Listed
  <2> QED
    BY <2>2, <2>3 DEF Linked
<1> QED
  BY <1>4, <1>5

LEMMA RegisteredStep ==
  ASSUME IInv, Registered, [Next]_vars
  PROVE  Registered'
<1>1. Types /\ Lists /\ Progress /\ Owners
  BY DEF IInv
<1>2. link' = link
  BY Steps
<1>3. /\ Files' = Files /\ Keys' = Keys /\ \A f : Entries(f)' = Entries(f) /\ File(f)' = File(f)
      /\ \A f, i : KeyOf(f, i)' = KeyOf(f, i) /\ Entry(f, i)' = Entry(f, i)
  BY <1>2, LinkFixed
<1>4. \A k : Owned(k)' <=> owner'[k] # NoOwner
  BY DEF Owned, NoOwner
<1>5. SUFFICES ASSUME pc' \in Registering PROVE Registered'
  BY DEF Registered
<1>6. CASE DoLto
  <2>1. clear_symbols(Files) /\ Enter("register_objs")
    BY <1>6 DEF DoLto
  <2>2. \A k \in Keys : owner'[k] = NoOwner
    BY <1>1, <2>1, ClearOwner DEF Types, Definition
  <2>3. ASSUME NEW h \in Linked', NEW j \in Present(h)', Found(h, j)' PROVE FALSE
    <3>1. pc' = "register_objs" /\ h \in objs' /\ pos' = [f \in Files |-> 0]
      BY <2>1, <2>3, EnterFacts DEF Found
    <3>2. h \in Files /\ j \in Entries(h)
      BY <1>3, <1>6, <2>3, <3>1, TypesStep DEF Present, IInv, Types
    <3>3. h \in work' \/ ~(Len(File(h).syms) > 0)
      BY <2>1, <3>1, EnterFacts DEF ByEntry, OverDsos
    <3>4. j <= 0
      BY <1>1, <2>3, <3>1, <3>2, <3>3, NothingPast DEF Found, Types
    <3> QED
      BY <1>1, <3>2, <3>4, NothingPast DEF Types
  <2> QED
    BY <1>3, <1>4, <2>2, <2>3 DEF Registered
<1>7. CASE ~DoLto
  <2>1. pc \in Registering
    <3>1. CASE EndLoop
      BY <1>5, <3>1, EndLoopPasses DEF Registering, Loops, ByEntry, ByFile
    <3>2. CASE MainAction
      BY <1>5, <1>7, <3>2, MainPasses DEF Registering
    <3> QED
      BY <1>5, <3>1, <3>2, Changes
  <2>2. UNCHANGED <<objs, dsos, dropped>> /\ \A f : Present(f)' = Present(f)
    BY <1>7, <2>1, Frame DEF Registering
  <2>3. /\ \A h \in Linked : \A j \in Present(h) :
             Found(h, j) /\ Eligible(h, Entry(h, j)) => Owned(KeyOf(h, j))
        /\ \A k \in Keys : Owned(k) => <<owner[k].file, owner[k].idx>> \notin dropped
    BY <2>1 DEF Registered
  <2>4. SUFFICES ASSUME NEW h \in Linked, NEW j \in Present(h), Found(h, j)', Eligible(h, Entry(h, j))
                 PROVE  Owned(KeyOf(h, j))'
    \* The owners' part first: an owner is set from an entry that is there.
    <3>1. ASSUME NEW k \in Keys, owner'[k] # NoOwner
          PROVE  <<owner'[k].file, owner'[k].idx>> \notin dropped
      <4>1. CASE owner'[k] = owner[k]
        BY <2>3, <3>1, <4>1 DEF Owned
      <4>2. CASE owner'[k] # owner[k]
        <5>1. PICK f \in work : ByFileAction(f)
          BY <1>7, <4>2, OwnerKept, Steps
        <5>2. ResolveSymbol(f)
          <6>1. CASE pc = "mark"
            BY <4>2, <5>1, <6>1, FilePasses DEF MarkSymbol
          <6> QED
            BY <2>1, <5>1, <6>1, FilePasses DEF Registering, Loops, ByEntry, ByFile
        <5>3. owner'[k] = [file |-> f, idx |-> pos[f] + 1] /\ <<f, pos[f] + 1>> \notin dropped
          BY <1>1, <4>2, <5>2, ResolveOwner
        <5> QED
          BY <5>3
      <4> QED
        BY <4>1, <4>2
    <3> QED
      BY <1>3, <1>4, <2>2, <2>4, <3>1, DeadGrows DEF Registered, Linked
  <2>5. h \in Files /\ j \in Entries(h) /\ KeyOf(h, j) \in Keys
    BY <1>1, <2>4, FileFacts DEF Types, Linked, Present
  <2>6. CASE EndLoop
    <3>1. owner' = owner /\ work = {} /\ Enter(pc') /\ pc \in {"register_objs", "register_dsos"}
          /\ (pc = "register_objs" => pc' = "register_dsos")
      BY <1>5, <2>1, <2>6, EndLoopPasses DEF Registering, Loops, ByEntry, ByFile
    <3>2. Found(h, j)
      <4>1. CASE pc = "register_objs" /\ h \notin objs
        <5>1. h \in dsos' /\ pc' = "register_dsos" /\ pos' = [f \in Files |-> 0]
          BY <2>2, <2>4, <3>1, <4>1, EnterFacts DEF Linked
        <5>2. h \in work' \/ ~(Len(File(h).syms) > 0)
          BY <3>1, <5>1, EnterFacts DEF ByEntry, OverDsos
        <5>3. h \in work' => j <= 0
          BY <2>4, <2>5, <5>1 DEF Found
        <5> QED
          BY <1>1, <2>5, <5>2, <5>3, NothingPast DEF Types
      <4> QED
        BY <3>1, <4>1 DEF Found
    <3> QED
      BY <1>3, <1>4, <2>3, <2>4, <3>1, <3>2 DEF Owned
  <2>7. CASE MainAction
    <3>1. pc = "mark_roots" /\ owner' = owner
      BY <1>7, <2>1, <2>7, MainPasses, OwnerKept DEF Registering
    <3> QED
      BY <1>3, <1>4, <2>3, <2>4, <3>1 DEF Owned, Found
  <2>8. CASE \E f \in work : ByFileAction(f)
    <3>1. PICK f \in work : ByFileAction(f)
      BY <2>8
    <3>2. pc' = pc /\ pc \in Loops
      BY <3>1, FilePasses
    <3>3. CASE pc = "mark"
      <4>1. owner' = owner
        BY <3>1, <3>3, FilePasses DEF MarkSymbol
      <4> QED
        BY <1>3, <1>4, <2>3, <2>4, <3>3, <4>1 DEF Owned, Found
    <3>4. CASE pc \in {"register_objs", "register_dsos"}
      <4>1. ResolveSymbol(f)
        BY <3>1, <3>4, FilePasses
      <4>2. Found(h, j) \/ (h = f /\ j = pos[f] + 1)
        <5>1. (h \in work' => j <= pos'[h]) /\ (pc = "register_objs" => h \in objs)
          BY <2>2, <2>4, <3>2, <3>4 DEF Found
        <5>2. (h \in work => j <= pos[h]) \/ (h = f /\ j = pos[f] + 1)
          BY <1>1, <2>4, <2>5, <3>1, <3>4, <5>1, PastEntries DEF ByEntry
        <5> QED
          BY <5>1, <5>2 DEF Found
      <4>3. ASSUME Owned(KeyOf(h, j)) PROVE owner'[KeyOf(h, j)] # NoOwner
        <5>1. pc \notin ToClear
          BY <3>4 DEF ToClear
        <5>2. \/ owner'[KeyOf(h, j)] = owner[KeyOf(h, j)]
              \/ \E i \in Entries(f) : owner'[KeyOf(h, j)] = [file |-> f, idx |-> i]
          BY <1>1, <2>5, <3>1, <5>1, OwnerStep
        <5> QED
          BY <1>1, <3>1, <4>3, <5>2, NotNobody DEF Owned, Types, Linked
      <4>4. ASSUME h = f, j = pos[f] + 1, ~Owned(KeyOf(h, j)) PROVE owner'[KeyOf(h, j)] # NoOwner
        <5>1. get_rank(f, Entry(f, j), ~IsDso(f) /\ f \notin alive) < 7 * RankShift
          <6>1. priority(f) \in Nat /\ priority(f) < RankShift
            BY <1>1, <2>5, <4>4, FileFacts DEF Types
          <6> QED
            BY <6>1 DEF get_rank, RankShift
        <5>2. symbol_rank(KeyOf(f, j)) = 7 * RankShift
          BY <4>4 DEF symbol_rank
        <5>3. <<f, j>> \notin dropped
          BY <2>4, <4>4 DEF Present
        <5>4. owner'[KeyOf(f, j)] = [file |-> f, idx |-> j]
          BY <1>1, <2>4, <4>1, <4>4, <5>1, <5>2, <5>3, ResolveOwner
        <5> QED
          BY <1>1, <2>5, <4>4, <5>4, NotNobody DEF Types
      <4> QED
        BY <1>3, <1>4, <2>3, <2>4, <4>2, <4>3, <4>4
    <3> QED
      BY <2>1, <3>2, <3>3, <3>4 DEF Registering, Loops, ByEntry, ByFile
  <2>9. CASE (\E s \in pending : VisitSection(s)) \/ UNCHANGED vars
    <3>1. UNCHANGED <<pc, work, pos, owner>>
      BY <2>9 DEF VisitSection, vars
    <3> QED
      BY <1>3, <1>4, <2>2, <2>3, <2>4, <3>1 DEF Owned, Found
  <2> QED
    BY <2>6, <2>7, <2>8, <2>9, Steps
<1> QED
  BY <1>6, <1>7

LEMMA AnsweredStep ==
  ASSUME IInv, Registered, Listed, Answered, [Next]_vars
  PROVE  Answered'
<1>1. Types /\ Progress /\ Owners
  BY DEF IInv
<1>2. link' = link
  BY Steps
<1>3. /\ \A f : Entries(f)' = Entries(f) /\ File(f)' = File(f) /\ (IsDso(f)' <=> IsDso(f))
      /\ \A f, i : KeyOf(f, i)' = KeyOf(f, i) /\ Entry(f, i)' = Entry(f, i)
      /\ Files' = Files
  BY <1>2, LinkFixed
<1>4. SUFFICES ASSUME ~ForLto', pc' \in Extracted,
                      NEW f \in (alive \cap Linked)', NEW i \in Present(f)',
                      Follows(f, i)', Marked(f, i)', HasDefinition(KeyOf(f, i))'
               PROVE  \E h \in (alive \cap Linked)' : Defines(h, KeyOf(f, i))'
  BY DEF Answered
<1>5. ~DoLto
  BY <1>4 DEF DoLto, Enter, Extracted, Resolving
<1>6. /\ ~ForLto /\ UNCHANGED dropped /\ \A h : Present(h)' = Present(h)
      /\ alive \subseteq alive' /\ Linked' \subseteq Linked
  BY <1>4, <1>5, Frame DEF Linked
<1>7. i \in Present(f) /\ Follows(f, i) /\ f \in Files /\ i \in Entries(f)
  BY <1>1, <1>3, <1>4, <1>6 DEF Follows, IsUndef, Types, Linked, Present
<1>8. HasDefinition(KeyOf(f, i))
  <2>1. PICK h \in Files : ~File(h).ir /\ \E j \in Present(h) :
          KeyOf(h, j) = KeyOf(f, i) /\ Eligible(h, Entry(h, j))'
    BY <1>3, <1>4, <1>6 DEF HasDefinition
  <2> QED
    BY <1>3, <2>1, DeadGrows DEF HasDefinition
<1>9. \A h : Defines(h, KeyOf(f, i))' <=> Defines(h, KeyOf(f, i))
  BY <1>2, <1>3, <1>6, AsksKept
\* Before the pass has started on f nothing is claimed of it.
<1>10. CASE pc = "mark_roots"
  <2>1. MarkRoots /\ Enter(pc') /\ pc' = "mark"
    <3>1. MainAction
      BY <1>4, <1>10, Changes, EndLoopPasses DEF Extracted, Resolving, Loops, ByEntry, ByFile
    <3> QED
      BY <1>10, <3>1, MainPasses
  <2>2. f \in work' /\ pos' = [h \in Files |-> 0]
    <3>1. f \in work' \/ ~(Len(File(f).syms) > 0)
      BY <1>4, <2>1, EnterFacts
    <3> QED
      BY <1>1, <1>7, <2>1, <3>1, EnterFacts, NothingPast DEF Types
  <2>3. i <= 0
    BY <1>4, <1>7, <2>1, <2>2 DEF Marked
  <2> QED
    BY <1>1, <1>7, <2>3, NothingPast DEF Types
<1>11. CASE pc # "mark_roots"
  <2>1. pc \in Extracted
    <3>1. CASE EndLoop
      BY <1>4, <3>1, EndLoopPasses DEF Extracted, Resolving, Loops, ByEntry, ByFile
    <3>2. CASE MainAction
      BY <1>4, <1>5, <1>11, <3>2, MainPasses DEF Extracted, Resolving
    <3> QED
      BY <1>4, <3>1, <3>2, Changes
  <2>2. \A g \in alive \cap Linked : \A j \in Present(g) :
          Follows(g, j) /\ Marked(g, j) /\ HasDefinition(KeyOf(g, j)) =>
            \E h \in alive \cap Linked : Defines(h, KeyOf(g, j))
    BY <1>6, <2>1 DEF Answered
  <2>3. CASE \E g \in work : pc = "mark" /\ ByFileAction(g)
    <3>1. PICK g \in work : pc = "mark" /\ ByFileAction(g)
      BY <2>3
    <3>2. MarkSymbol(g) /\ pc' = pc
      BY <3>1, FilePasses
    <3> DEFINE j == pos[g] + 1
    <3>3. /\ g \in Files /\ j \in Entries(g) /\ Linked' = Linked
          /\ pos'[g] = j /\ \A h \in Files : h # g => pos'[h] = pos[h]
          /\ alive' \ alive \subseteq work' /\ work \ {g} \subseteq work'
          /\ j < Len(File(g).syms) => g \in work'
      BY <1>1, <3>2, MarkFacts DEF Linked
    <3>4. /\ j \in Present(g) /\ Owned(KeyOf(g, j)) /\ Follows(g, j) => owner[KeyOf(g, j)].file \in alive'
      BY <3>2, <3>3, MarkKeeps
    <3> HIDE DEF j
    <3>5. CASE f = g /\ i = j
      <4>1. PICK h \in Files : ~File(h).ir /\ \E l \in Present(h) :
              KeyOf(h, l) = KeyOf(f, i) /\ Eligible(h, Entry(h, l))
        BY <1>8 DEF HasDefinition
      <4>2. h \in Linked
        BY <1>6, <3>1, <4>1 DEF Listed, Early
      <4>3. Owned(KeyOf(f, i))
        BY <3>1, <4>1, <4>2 DEF Registered, Registering, Found
      <4>4. owner[KeyOf(f, i)].file \in Linked /\ Defines(owner[KeyOf(f, i)].file, KeyOf(f, i))
        BY <1>1, <1>7, <3>1, <4>3, FileFacts, OwnerDefines DEF Types
      <4>5. owner[KeyOf(f, i)].file \in alive'
        BY <1>7, <3>4, <3>5, <4>3
      <4> QED
        BY <1>9, <3>3, <4>4, <4>5
    <3>6. CASE f \in alive /\ ~(f = g /\ i = j)
      <4>1. Marked(f, i)
        <5>1. ASSUME f \in work PROVE i <= pos[f]
          <6>1. CASE f # g
            <7>1. f \in work' /\ pos'[f] = pos[f]
              BY <1>7, <3>3, <5>1, <6>1
            <7> QED
              BY <1>4, <3>1, <3>2, <7>1 DEF Marked
          <6>2. CASE f = g
            <7>1. pos[g] \in Nat /\ Len(File(g).syms) \in Nat /\ i \in 1 .. Len(File(g).syms)
              BY <1>1, <1>7, <3>3, <6>2, FileFacts DEF Types
            <7>2. i <= j
              BY <1>4, <3>1, <3>2, <3>3, <6>2, <7>1 DEF Marked, j
            <7> QED
              BY <3>6, <6>2, <7>1, <7>2 DEF j
          <6> QED
            BY <6>1, <6>2
        <5> QED
          BY <5>1 DEF Marked
      <4>2. PICK h \in alive \cap Linked : Defines(h, KeyOf(f, i))
        BY <1>4, <1>6, <1>7, <1>8, <2>2, <3>6, <4>1
      <4> QED
        BY <1>6, <1>9, <3>3, <4>2
    <3>7. CASE f \notin alive
      <4>1. f \in work' /\ f # g
        BY <1>1, <1>4, <3>1, <3>3, <3>7 DEF Progress
      <4>2. pos'[f] = 0
        BY <1>1, <1>7, <3>1, <3>3, <3>7, <4>1 DEF Progress
      <4>3. i <= 0
        BY <1>4, <3>1, <3>2, <4>1, <4>2 DEF Marked
      <4> QED
        BY <1>1, <1>7, <4>3, NothingPast DEF Types
    <3> QED
      BY <3>5, <3>6, <3>7
  <2>4. CASE ~ \E g \in work : pc = "mark" /\ ByFileAction(g)
    <3>1. alive' = alive /\ alive' \cap Linked' = alive \cap Linked
      <4>1. CASE EndLoop
        BY <4>1, EndLoopPasses DEF Linked
      <4>2. CASE MainAction
        <5>1. EraseUnused \/ KillEhFrame
          BY <2>1, <4>2, MainPasses DEF Extracted, Resolving
        <5> QED
          BY <5>1 DEF EraseUnused, KillEhFrame, Linked
      <4>3. CASE \E g \in work : ByFileAction(g)
        <5>1. pc # "mark" /\ pc # "erase" /\ pc \notin {"mark_roots_lto", "mark_lto"}
          BY <2>1, <2>4, <4>3, FilePasses DEF Extracted, Resolving, Loops, ByEntry, ByFile
        <5> QED
          BY <1>5, <1>11, <5>1, Frame DEF Linked
      <4>4. CASE (\E s \in pending : VisitSection(s)) \/ UNCHANGED vars
        BY <4>4 DEF VisitSection, vars, Linked
      <4> QED
        BY <4>1, <4>2, <4>3, <4>4, Steps
    <3>2. Marked(f, i)
      <4>1. CASE pc = "mark" /\ f \in work
        <5>1. ~MainAction /\ ~EndLoop
          BY <4>1, MainPasses, EndLoopPasses
        <5>2. UNCHANGED <<pc, work, pos>>
          BY <2>4, <4>1, <5>1, Steps DEF VisitSection, vars
        <5> QED
          BY <1>4, <5>2 DEF Marked
      <4> QED
        BY <4>1 DEF Marked
    <3>3. f \in alive \cap Linked
      BY <1>4, <3>1
    <3>4. PICK h \in alive \cap Linked : Defines(h, KeyOf(f, i))
      BY <1>7, <1>8, <2>2, <3>2, <3>3
    <3> QED
      BY <1>9, <3>1, <3>4
  <2> QED
    BY <2>3, <2>4
<1> QED
  BY <1>10, <1>11

LEMMA ReasonedStep ==
  ASSUME IInv, Registered, Reasoned, [Next]_vars
  PROVE  Reasoned'
<1>1. Types /\ Lists /\ Progress /\ Owners
  BY DEF IInv
<1>2. link' = link
  BY Steps
<1>3. /\ Files' = Files /\ Keys' = Keys
      /\ \A f : Entries(f)' = Entries(f) /\ File(f)' = File(f) /\ (IsDso(f)' <=> IsDso(f))
  BY <1>2, LinkFixed
<1>4. \A f : OnlyOnDemand(f)' <=> OnlyOnDemand(f)
  BY <1>3 DEF OnlyOnDemand
<1>5. SUFFICES ASSUME NEW f \in alive', OnlyOnDemand(f)
               PROVE  \E k \in Keys : Defines(f, k)' /\ Wanted(f, k)'
  BY <1>3, <1>4 DEF Reasoned
\* What asked for a file still asks for it after the step.
<1>6. CASE DoLto
  <2>1. /\ \E d \in SUBSET UNION {{h} \X {i \in Entries(h) : ~IsUndef(Entry(h, i))} :
                                   h \in {h \in Files : File(h).native}} : dropped' = d
        /\ objs' = {h \in Files : ~IsDso(h) /\ ~File(h).ir}
        /\ dsos' = {h \in Files : IsDso(h)}
        /\ alive' = (alive \cup {h \in Files : File(h).native}) \ {h \in Files : File(h).ir}
        /\ pc = "do_lto"
    BY <1>6 DEF DoLto
  <2>2. dropped = {}
    BY <1>1, <2>1 DEF Lists, ForLto
  <2>3. ASSUME NEW h \in Files, ~File(h).native PROVE Present(h)' = Present(h)
    <3>1. \A i : <<h, i>> \notin dropped'
      BY <2>1, <2>3
    <3> QED
      BY <1>3, <2>2, <3>1 DEF Present
  <2>4. ASSUME NEW h \in Files, File(h).native PROVE File(h).kind = "obj" /\ ~File(h).ir /\ ~IsDso(h)
    BY <1>1, <2>4, FileFacts DEF Types, IsFile, IsDso
  <2>5. f \in alive /\ f \in Files /\ ~File(f).native
    BY <1>1, <1>5, <2>1, <2>4 DEF OnlyOnDemand, Types
  <2>6. PICK k \in Keys : Defines(f, k) /\ Wanted(f, k)
    BY <1>5, <2>5 DEF Reasoned
  <2>7. Defines(f, k)'
    BY <1>2, <2>3, <2>5, <2>6, AsksKept
  <2>8. Wanted(f, k)'
    <3>1. CASE k[2] = "" /\ k[1] \in link.roots
      BY <1>2, <3>1 DEF Wanted
    <3>2. CASE \E g \in (alive \cap Linked) \cup {g \in Files : File(g).ir} : g # f /\ Asks(g, k)
      <4>1. PICK g \in (alive \cap Linked) \cup {g \in Files : File(g).ir} : g # f /\ Asks(g, k)
        BY <3>2
      <4>2. g \in Files
        BY <1>1, <4>1 DEF Types
      <4>3. ~File(g).native
        BY <1>1, <2>1, <2>4, <4>1, <4>2 DEF Lists, Linked, ForLto
      <4>4. Asks(g, k)'
        BY <1>2, <2>3, <4>1, <4>2, <4>3, AsksKept
      <4>5. g \in (alive' \cap Linked') \cup {h \in Files : File(h).ir}
        BY <2>1, <4>1, <4>2 DEF Linked
      <4> QED
        BY <1>3, <4>1, <4>4, <4>5 DEF Wanted
    <3> QED
      BY <2>6, <3>1, <3>2 DEF Wanted
  <2> QED
    BY <2>6, <2>7, <2>8
<1>7. CASE ~DoLto
  <2>1. /\ \A h : Present(h)' = Present(h)
        /\ alive \subseteq alive' /\ alive \cap Linked \subseteq alive' \cap Linked'
    <3>1. CASE pc # "erase"
      BY <1>7, <3>1, Frame DEF Linked
    <3>2. CASE pc = "erase"
      <4>1. EraseUnused \/ UNCHANGED <<alive, objs, dsos>>
        BY <3>2, Steps, EndLoopPasses, MainPasses, FilePasses
           DEF Loops, ByEntry, ByFile, VisitSection, vars
      <4>2. alive \cap Linked \subseteq alive' \cap Linked'
        BY <4>1 DEF EraseUnused, Linked
      <4> QED
        BY <1>7, <4>2, Frame
    <3> QED
      BY <3>1, <3>2
  <2>2. \A h, k : (Defines(h, k)' <=> Defines(h, k)) /\ (Asks(h, k)' <=> Asks(h, k))
    BY <1>2, <2>1, AsksKept
  <2>3. ASSUME NEW k, Wanted(f, k) PROVE Wanted(f, k)'
    <3>1. CASE k[2] = "" /\ k[1] \in link.roots
      BY <1>2, <3>1 DEF Wanted
    <3>2. CASE \E g \in (alive \cap Linked) \cup {g \in Files : File(g).ir} : g # f /\ Asks(g, k)
      <4>1. PICK g \in (alive \cap Linked) \cup {g \in Files : File(g).ir} : g # f /\ Asks(g, k)
        BY <3>2
      <4>2. g \in (alive' \cap Linked') \cup {h \in Files : File(h).ir} /\ Asks(g, k)'
        BY <2>1, <2>2, <4>1
      <4> QED
        BY <1>3, <4>1, <4>2 DEF Wanted
    <3> QED
      BY <2>3, <3>1, <3>2 DEF Wanted
  <2>4. CASE f \in alive
    BY <1>5, <2>2, <2>3, <2>4 DEF Reasoned
  <2>5. CASE f \notin alive
    <3>1. pc \in {"mark_roots", "mark", "mark_roots_lto", "mark_lto"}
      BY <1>5, <1>7, <2>5, Frame
    <3>2. CASE MarkRoots
      <4>1. PICK k \in Keys : Owned(k) /\ k[2] = "" /\ k[1] \in link.roots /\ f = owner[k].file
        BY <1>5, <2>5, <3>2 DEF MarkRoots
      <4>2. Defines(f, k)
        BY <3>1, <4>1, OwnerDefines
      <4>3. Wanted(f, k)
        BY <4>1 DEF Wanted
      <4> QED
        BY <2>2, <2>3, <4>2, <4>3
    <3>3. CASE \E g \in work : MarkSymbol(g)
      <4>1. PICK g \in work : MarkSymbol(g)
        BY <3>3
      <4> DEFINE i == pos[g] + 1
                 k == KeyOf(g, i)
      <4>2. g \in Files /\ i \in Entries(g) /\ k \in Keys
        BY <1>1, <4>1, MarkFacts
      <4>3. Owned(k) /\ owner[k].file = f /\ Asks(g, k)
        BY <1>5, <2>5, <4>1, <4>2, MarkKeeps
      <4> HIDE DEF i, k
      <4>4. g \in alive \cap Linked
        <5>1. pc \in {"mark", "mark_lto"}
          BY <4>1 DEF MarkSymbol
        <5> QED
          BY <1>1, <4>1, <5>1 DEF Progress, Types
      <4>5. Defines(f, k)
        BY <3>1, <4>2, <4>3, OwnerDefines
      <4>6. Wanted(f, k)
        BY <2>5, <4>3, <4>4 DEF Wanted
      <4> QED
        BY <2>2, <2>3, <4>2, <4>5, <4>6
    <3>4. MarkRoots \/ \E g \in work : MarkSymbol(g)
      <4>1. CASE EndLoop
        BY <1>5, <2>5, <4>1, EndLoopPasses
      <4>2. CASE MainAction
        BY <3>1, <4>2, MainPasses
      <4>3. CASE \E g \in work : ByFileAction(g)
        BY <3>1, <4>3, FilePasses DEF Loops, ByEntry, ByFile
      <4>4. CASE (\E s \in pending : VisitSection(s)) \/ UNCHANGED vars
        BY <1>5, <2>5, <4>4 DEF VisitSection, vars
      <4> QED
        BY <4>1, <4>2, <4>3, <4>4, Steps
    <3> QED
      BY <3>2, <3>3, <3>4
  <2> QED
    BY <2>4, <2>5
<1> QED
  BY <1>6, <1>7

(* Where copies of a group define the same symbols, what a discarded copy  *)
(* defined the surviving one does.                                         *)
LEMMA SurvivorDefines ==
  ASSUME IInv, CopiesAgree, pc = "kill_eh_frame", NEW h \in Files, NEW j \in Entries(h),
         ~IsUndef(Entry(h, j))
  PROVE  Eligible(h, Entry(h, j)) \/ Owned(KeyOf(h, j))
<1>1. Types /\ Progress /\ Best /\ Comdats
  BY DEF IInv
<1>2. SUFFICES ASSUME ~Eligible(h, Entry(h, j)) PROVE Owned(KeyOf(h, j))
  OBVIOUS
<1>3. Lost1(<<h, Entry(h, j).sec>>)
  <2>1. <<h, Entry(h, j).sec>> \in dead
    BY <1>2 DEF Eligible
  <2> QED
    BY <1>1, <2>1 DEF Comdats, Claiming, Closing
<1>4. PICK g \in DOMAIN File(h).groups :
        Entry(h, j).sec \in File(h).groups[g] /\ groups[g] < priority(h)
  BY <1>3 DEF Lost1
<1>5. g \in Signatures /\ groups[g] # FreeGroup
  <2>1. g \in Signatures
    BY GroupSigs
  <2>2. groups[g] \in Nat /\ priority(h) \in Nat /\ priority(h) < RankShift
    BY <1>1, <2>1, FileFacts DEF Types
  <2> QED
    BY <1>4, <2>1, <2>2 DEF RankShift, FreeGroup
<1>6. PICK f \in objs \cap alive : g \in GroupsOf(f) /\ groups[g] = priority(f)
  BY <1>1, <1>5 DEF Comdats
<1>7. f \in Files /\ IsFile(File(f)) /\ g \in DOMAIN File(f).groups /\ groups[g] \in Nat
  BY <1>1, <1>5, <1>6, FileFacts DEF Types, GroupsOf
<1>8. PICK i \in Entries(f) : /\ KeyOf(f, i) = KeyOf(h, j) /\ ~IsUndef(Entry(f, i))
                              /\ Entry(f, i).sec \in File(f).groups[g]
  BY <1>4, <1>7 DEF CopiesAgree
<1>9. i \in Present(f)
  BY <1>6, <1>8 DEF GroupsOf, Present
<1>10. <<f, Entry(f, i).sec>> \notin dead
  <2> DEFINE s == <<f, Entry(f, i).sec>>
  <2>1. SUFFICES ASSUME s \in dead PROVE FALSE
    OBVIOUS
  <2>2. Lost1(s)
    BY <1>1, <2>1 DEF Comdats, Claiming, Closing
  <2>3. PICK g2 \in DOMAIN File(f).groups :
          Entry(f, i).sec \in File(f).groups[g2] /\ groups[g2] < priority(f)
    BY <2>2 DEF Lost1
  <2>4. g2 # g
    BY <1>6, <1>7, <2>3
  <2> QED
    BY <1>7, <1>8, <2>3, <2>4 DEF IsFile
<1>11. Eligible(f, Entry(f, i))
  BY <1>8, <1>10 DEF Eligible
<1>12. Seen(f, i) /\ f \in Linked
  BY <1>1, <1>6 DEF Progress, Loops, ByEntry, ByFile, Seen, Linked
<1> QED
  BY <1>1, <1>8, <1>9, <1>11, <1>12 DEF Best, Resolving

(* The second invariant holds in every reachable state.                    *)
THEOREM ExtractionInductive == Spec => []Extraction
<1>1. Init => Extraction
  <2>1. SUFFICES ASSUME Init PROVE Extraction
    OBVIOUS
  <2>2. IInv
    BY <2>1, InitIInv
  <2>3. Types /\ Lists
    BY <2>2 DEF IInv
  <2>4. /\ pc = "register_objs" /\ round = 1
        /\ objs = {f \in Files : ~IsDso(f) /\ ~File(f).native}
        /\ dsos = {f \in Files : IsDso(f)}
        /\ alive = {f \in Files : initially_alive(f)}
        /\ pos = [f \in Files |-> 0]
        /\ work = WithSymbols(objs)
        /\ owner = [k \in Keys |-> NoOwner]
    BY <2>1 DEF Init
  <2>5. Registered
    <3>1. ASSUME NEW h \in Linked, NEW j \in Present(h), Found(h, j) PROVE FALSE
      <4>1. h \in objs /\ h \in Files /\ j \in Entries(h)
        BY <2>3, <2>4, <3>1 DEF Found, Types, Present
      <4>2. h \in work /\ j <= 0
        BY <2>3, <2>4, <3>1, <4>1, NothingPast DEF Found, WithSymbols, Types
      <4> QED
        BY <2>3, <4>1, <4>2, NothingPast DEF Types
    <3>2. \A k \in Keys : ~Owned(k)
      BY <2>4 DEF Owned
    <3> QED
      BY <3>1, <3>2 DEF Registered
  <2>6. Listed
    <3>1. ASSUME ~ForLto, NEW h \in Files PROVE ~File(h).native
      BY <2>3, <2>4, <3>1 DEF ForLto, Types, IsLink, Files, File
    <3> QED
      BY <2>4, <3>1 DEF Listed, Linked
  <2>7. Answered
    BY <2>4 DEF Answered, Extracted, Resolving
  <2>8. Reasoned
    BY <2>4 DEF Reasoned, OnlyOnDemand, initially_alive
  <2> QED
    BY <2>5, <2>6, <2>7, <2>8 DEF Extraction
<1>2. IInv /\ Extraction /\ [Next]_vars => Extraction'
  BY ListedStep, RegisteredStep, AnsweredStep, ReasonedStep DEF Extraction
<1> QED
  BY <1>1, <1>2, Inductive, PTL DEF Spec

(* No archive member and no as-needed DSO is linked without a reason, and, *)
(* where copies of COMDAT groups define the same symbols, no reference is  *)
(* left open that an input file could answer (mark_live_objects).          *)
THEOREM ExtractionExact ==
  Spec => []((pc = "kill_eh_frame" => NothingIsExtra) /\ (CopiesAgree => ExtractionIsExact))
<1>1. IInv /\ Extraction /\ pc = "kill_eh_frame" => NothingIsExtra
  <2>1. SUFFICES ASSUME IInv, Extraction, pc = "kill_eh_frame", NEW f \in Linked, OnlyOnDemand(f)
                 PROVE  \E k \in Keys : Defines(f, k) /\ \/ k[2] = "" /\ k[1] \in link.roots
                                                         \/ \E g \in Linked \cup {g \in Files : File(g).ir} :
                                                              g # f /\ Asks(g, k)
    BY DEF NothingIsExtra
  <2>2. f \in alive
    BY <2>1 DEF IInv, Lists, Early
  <2>3. PICK k \in Keys : Defines(f, k) /\ Wanted(f, k)
    BY <2>1, <2>2 DEF Extraction, Reasoned
  <2> QED
    BY <2>3 DEF Wanted
<1>2. IInv /\ Extraction /\ CopiesAgree /\ pc = "kill_eh_frame" => ReferencesAreAnswered
  <2>1. SUFFICES ASSUME IInv, Extraction, CopiesAgree, pc = "kill_eh_frame",
                        NEW k \in Keys, NEW f \in Linked, Asks(f, k),
                        NEW h \in Files, ~File(h).ir, Defines(h, k)
                 PROVE  Owned(k)
    BY DEF ReferencesAreAnswered
  <2>2. Types /\ Lists /\ Progress /\ Best /\ Answered
    BY <2>1 DEF IInv, Extraction
  <2>3. ~ForLto /\ f \in alive /\ Linked \subseteq Files
    BY <2>1, <2>2 DEF Lists, Early, Types, Linked
  <2>4. ASSUME NEW g \in Linked, Defines(g, k) PROVE Owned(k)
    <3>1. PICK i \in Present(g) : KeyOf(g, i) = k /\ ~IsUndef(Entry(g, i))
      BY <2>4 DEF Defines
    <3>2. Seen(g, i)
      BY <2>1, <2>2 DEF Progress, Loops, ByEntry, ByFile, Seen
    <3>3. CASE Eligible(g, Entry(g, i))
      BY <2>1, <2>2, <3>1, <3>2, <3>3 DEF Best, Resolving
    <3>4. CASE ~Eligible(g, Entry(g, i))
      BY <2>1, <2>3, <3>1, <3>4, SurvivorDefines DEF Present
    <3> QED
      BY <3>3, <3>4
  <2>5. PICK j \in Present(h) : KeyOf(h, j) = k /\ ~IsUndef(Entry(h, j))
    BY <2>1 DEF Defines
  <2>6. CASE ~Eligible(h, Entry(h, j))
    BY <2>1, <2>5, <2>6, SurvivorDefines DEF Present
  <2>7. CASE Eligible(h, Entry(h, j))
    <3>1. HasDefinition(k)
      BY <2>1, <2>5, <2>7 DEF HasDefinition
    <3>2. PICK i \in Present(f) : KeyOf(f, i) = k /\ Entry(f, i).def \in
                (IF IsDso(f) THEN {"undef", "wundef"} ELSE {"undef", "common"})
      BY <2>1 DEF Asks
    <3>3. CASE Follows(f, i)
      <4>1. PICK g \in alive \cap Linked : Defines(g, k)
        BY <2>1, <2>2, <2>3, <3>1, <3>2, <3>3 DEF Answered, Extracted, Resolving, Marked
      <4> QED
        BY <2>4, <4>1
    \* A common symbol that asks is a definition itself.
    <3>4. CASE ~Follows(f, i)
      <4>1. ~IsUndef(Entry(f, i))
        BY <3>2, <3>4 DEF Follows, IsUndef
      <4>2. Defines(f, k)
        BY <3>2, <4>1 DEF Defines
      <4> QED
        BY <2>4, <4>2
    <3> QED
      BY <3>3, <3>4
  <2> QED
    BY <2>6, <2>7
<1>3. IInv /\ Extraction =>
        (pc = "kill_eh_frame" => NothingIsExtra) /\ (CopiesAgree => ExtractionIsExact)
  BY <1>1, <1>2 DEF ExtractionIsExact
<1> QED
  BY <1>3, Inductive, ExtractionInductive, PTL
=============================================================================
