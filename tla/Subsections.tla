---------------------------- MODULE Subsections ----------------------------
(***************************************************************************)
(* How ObjectFile::parse cuts the sections of an object file into          *)
(* subsections, and how finish_parse attaches relocations to them: the     *)
(* splits, the sort by address, find_subsection with its bucket table, and *)
(* InputSection::parse_relocations.  For an archive member that is not     *)
(* finished early (deferred), convert_common_symbols comes before the      *)
(* relocations are parsed; for the other files, after.                     *)
(*                                                                         *)
(* A subsection is identified by its section and its address; 0 is the     *)
(* section of common symbols.                                              *)
(***************************************************************************)
EXTENDS Integers, Sequences, FiniteSets, FiniteSetsExt, SequencesExt

CONSTANTS LookupMin,  \* subsections from which on a table is built: 1024
          Bucket,     \* addresses per bucket: 1 << SUBSECTION_LOOKUP_SHIFT
          Inputs      \* the object files considered

ASSUME BoundsAssumption == LookupMin \in Nat \ {0} /\ Bucket \in Nat \ {0}

(* A section with pieces is one of those split by content (strings, fixed- *)
(* size literals, literal pointers).                                       *)
IsObject(o) ==
  /\ o.sections \in Seq([addr : Nat, size : Nat, pieces : Seq(Nat)])
  /\ \A i \in DOMAIN o.syms :
       /\ o.syms[i].sect \in DOMAIN o.sections
       /\ o.syms[i].value \in Nat /\ o.syms[i].alt \in BOOLEAN
  /\ o.rels \in [DOMAIN o.sections -> Seq([off : Nat, to : Nat])]
  /\ o.viaSymbols \in BOOLEAN /\ o.deferred \in BOOLEAN
  /\ o.commons \in Nat

ASSUME InputsAssumption == \A o \in Inputs : IsObject(o)

VARIABLES
  obj,
  pc,
  subsecs,   \* ObjectFile::subsections
  span,      \* per section: subsec_offset and nsubsecs
  symSub,    \* sym_to_subsec, then Symbol::subsec of the local symbols
  table,     \* subsection_lookup: indices into subsecs, 0 for NO_SUBSECTION
  rels,      \* the relocations of each section, in order
  holder     \* per relocation: the subsection it is attached to, its offset

vars == <<obj, pc, subsecs, span, symSub, table, rels, holder>>

None == [sect |-> 0, addr |-> 0, size |-> 0]
Sec(i) == obj.sections[i]
End(sec) == sec.addr + sec.size
Nothing == [i \in DOMAIN obj.sections |-> <<>>]

Init ==
  /\ obj \in Inputs
  /\ pc = "split"
  /\ subsecs = <<>>
  /\ span = [i \in DOMAIN obj.sections |-> [from |-> 0, n |-> 0]]
  /\ symSub = [i \in DOMAIN obj.syms |-> None]
  /\ table = <<>>
  /\ rels = Nothing
  /\ holder = Nothing

Piece(i, from, to) == [sect |-> i, addr |-> from, size |-> to - from]
Regular == {i \in DOMAIN obj.sections : Sec(i).pieces = <<>>}
Indices(list) == [j \in DOMAIN list |-> j]

(* std::stable_sort of a list by the given keys. *)
StableSort(list, ks) ==
  LET rank(j) == Cardinality({k \in DOMAIN list :
                   ks[k] < ks[j] \/ (ks[k] = ks[j] /\ k <= j)})
  IN  [n \in DOMAIN list |-> list[CHOOSE j \in DOMAIN list : rank(j) = n]]

(***************************************************************************)
(* split_subsections_via_symbols.  The symbols of a section are taken in   *)
(* the order of their addresses; a symbol that is no N_ALT_ENTRY cuts the  *)
(* last subsection in two.                                                 *)
(***************************************************************************)
SymsOf(i) ==
  LET mine == SelectSeq(Indices(obj.syms), LAMBDA k : obj.syms[k].sect = i)
  IN  StableSort(mine, [j \in DOMAIN mine |-> obj.syms[mine[j]].value])

(* Mutant: a symbol at the end of the section cuts it too (no size2 > 0). *)
Cut_AtEnd(i, cuts, sym) ==
  IF ~sym.alt /\ sym.value > Last(cuts)
  THEN Append(cuts, sym.value) ELSE cuts

Cut(i, cuts, sym) ==
  IF ~sym.alt /\ sym.value > Last(cuts) /\ sym.value < End(Sec(i))
  THEN Append(cuts, sym.value) ELSE cuts

(* Mutant: the symbol stays with the subsection it cuts. *)
SplitSym_BeforeCut(i, st, k) ==
  LET cuts == Cut(i, st.cuts, obj.syms[k])
  IN  [cuts |-> cuts, first |-> [st.first EXCEPT ![k] = Last(st.cuts)]]

SplitSym(i, st, k) ==
  LET cuts == Cut(i, st.cuts, obj.syms[k])
  IN  [cuts |-> cuts, first |-> [st.first EXCEPT ![k] = Last(cuts)]]

SplitSection(i) ==
  FoldLeft(LAMBDA st, k : SplitSym(i, st, k),
           [cuts |-> <<Sec(i).addr>>, first |-> [k \in DOMAIN obj.syms |-> 0]],
           SymsOf(i))

PiecesBetween(i, cuts) ==
  [j \in DOMAIN cuts |->
     Piece(i, cuts[j], IF j = Len(cuts) THEN End(Sec(i)) ELSE cuts[j + 1])]

At(list, i, addr) ==
  list[CHOOSE j \in DOMAIN list : list[j].sect = i /\ list[j].addr = addr]

SplitViaSymbols ==
  /\ pc = "split" /\ obj.viaSymbols
  /\ subsecs' = FlattenSeq([i \in DOMAIN obj.sections |->
                   IF i \in Regular
                   THEN PiecesBetween(i, SplitSection(i).cuts) ELSE <<>>])
  /\ symSub' = [k \in DOMAIN obj.syms |->
                  LET i == obj.syms[k].sect
                  IN  IF i \in Regular
                      THEN At(subsecs', i, SplitSection(i).first[k])
                      ELSE None]
  /\ pc' = "literals"
  /\ UNCHANGED <<obj, span, table, rels, holder>>

(* init_subsections: one subsection for each section. *)
InitSubsections ==
  /\ pc = "split" /\ ~obj.viaSymbols
  /\ subsecs' = FlattenSeq([i \in DOMAIN obj.sections |->
                   IF i \in Regular THEN <<Piece(i, Sec(i).addr, End(Sec(i)))>>
                   ELSE <<>>])
  /\ symSub' = [k \in DOMAIN obj.syms |->
                  LET i == obj.syms[k].sect
                  IN  IF i \in Regular THEN At(subsecs', i, Sec(i).addr)
                      ELSE None]
  /\ pc' = "literals"
  /\ UNCHANGED <<obj, span, table, rels, holder>>

(* split_cstring_literals, split_fixed_size_literals and                   *)
(* split_literal_pointers.                                                 *)
SplitPieces(i) ==
  LET sizes == Sec(i).pieces
      start(j) == Sec(i).addr + FoldLeft(+, 0, SubSeq(sizes, 1, j - 1))
  IN  [j \in DOMAIN sizes |-> Piece(i, start(j), start(j) + sizes[j])]

SplitLiterals ==
  /\ pc = "literals"
  /\ subsecs' = subsecs \o FlattenSeq([i \in DOMAIN obj.sections |->
                                         SplitPieces(i)])
  /\ pc' = "sort"
  /\ UNCHANGED <<obj, span, symSub, table, rels, holder>>

SortSubsections ==
  /\ pc = "sort"
  /\ subsecs' = StableSort(subsecs, [j \in DOMAIN subsecs |-> subsecs[j].addr])
  /\ pc' = "span"
  /\ UNCHANGED <<obj, span, symSub, table, rels, holder>>

(* cache_subsection_spans: the first run of each section; a second run     *)
(* fails the assertion.                                                    *)
CacheSubsectionSpans ==
  /\ pc = "span"
  /\ LET at(i) == {j \in DOMAIN subsecs : subsecs[j].sect = i}
         runs(i) == {j \in at(i) : j = 1 \/ j - 1 \notin at(i)}
         len(i) == Min({j \in Min(at(i)) .. Len(subsecs) + 1 : j \notin at(i)})
                   - Min(at(i))
     IN  /\ span' = [i \in DOMAIN obj.sections |->
                        IF at(i) = {} THEN span[i]
                        ELSE [from |-> Min(at(i)), n |-> len(i)]]
         /\ pc' = IF \E i \in DOMAIN obj.sections : Cardinality(runs(i)) > 1
                  THEN "abort" ELSE "lookup"
  /\ UNCHANGED <<obj, subsecs, symSub, table, rels, holder>>

(***************************************************************************)
(* build_subsection_lookup: for each bucket the last subsection at or      *)
(* before its first address.                                               *)
(***************************************************************************)
MaxAddr == Max({End(subsecs[j]) : j \in DOMAIN subsecs} \cup {0})

(* Mutant: the first subsection at or after the bucket. *)
LastUpTo_Next(addr) ==
  Min({j \in DOMAIN subsecs : subsecs[j].addr >= addr} \cup {Len(subsecs)})

LastUpTo(addr) ==
  Max({j \in DOMAIN subsecs : subsecs[j].addr <= addr} \cup {0})

BuildLookup ==
  /\ pc = "lookup"
  /\ table' = IF Len(subsecs) < LookupMin \/ MaxAddr = 0 THEN <<>>
              ELSE [n \in 1 .. (MaxAddr + Bucket - 1) \div Bucket |->
                      LastUpTo((n - 1) * Bucket)]
  /\ pc' = "symbols"
  /\ UNCHANGED <<obj, subsecs, span, symSub, rels, holder>>

(***************************************************************************)
(* find_subsection: a walk from the bucket's subsection, or else the       *)
(* binary search of std::partition_point.                                  *)
(***************************************************************************)
PartitionPoint(addr) ==
  LET n == Len(subsecs)
      search[from \in 0 .. n, len \in 0 .. n] ==
        LET half == len \div 2
        IN  IF len = 0 THEN from
            ELSE IF subsecs[from + half + 1].addr <= addr
            THEN search[from + half + 1, len - half - 1]
            ELSE search[from, half]
  IN  search[0, n]

WalkFrom(j, addr) ==
  LET stops == {k \in j .. Len(subsecs) :
                  k = Len(subsecs) \/ subsecs[k + 1].addr > addr}
  IN  Min(stops)

FindSubsection(addr) ==
  LET n == (addr \div Bucket) + 1
      p == PartitionPoint(addr)
  IN  CASE n \in DOMAIN table /\ table[n] # 0 ->
             subsecs[WalkFrom(table[n], addr)]
        [] ~(n \in DOMAIN table /\ table[n] # 0) /\ p # 0 -> subsecs[p]
        [] OTHER -> None

(* The local symbols, in parse_symbols or in materialize_local_symbols:    *)
(* those of a section split by content have no subsection yet.             *)
PlaceLocalSymbols ==
  /\ pc = "symbols"
  /\ symSub' = [k \in DOMAIN obj.syms |->
                  IF symSub[k] # None THEN symSub[k]
                  ELSE FindSubsection(obj.syms[k].value)]
  /\ pc' = IF obj.deferred THEN "convert" ELSE "relocs"
  /\ UNCHANGED <<obj, subsecs, span, table, rels, holder>>

(***************************************************************************)
(* convert_common_symbols: one subsection at address 0 per common symbol,  *)
(* at the end of the list.                                                 *)
(***************************************************************************)
ConvertCommonSymbols ==
  /\ pc = "convert"
  /\ subsecs' = subsecs \o [j \in 1 .. obj.commons |->
                              [sect |-> 0, addr |-> 0, size |-> 1]]
  /\ pc' = IF obj.deferred THEN "relocs" ELSE "done"
  /\ UNCHANGED <<obj, span, symSub, table, rels, holder>>

(***************************************************************************)
(* read_relocations: relocations in decreasing order are read backwards,   *)
(* keeping those at one offset in order.  The previous target is tried     *)
(* before find_subsection.                                                 *)
(***************************************************************************)
Decreasing(list) == \A j \in 2 .. Len(list) : list[j - 1].off >= list[j].off
Increasing(list) == \A j \in 2 .. Len(list) : list[j - 1].off <= list[j].off

(* Mutant: the pairs at one offset are reversed as well. *)
RunsBackwards_Plain(list) == Reverse(list)

(* The runs of equal offsets, last run first. *)
RunsBackwards(list) ==
  LET starts == {j \in DOMAIN list : j = 1 \/ list[j - 1].off # list[j].off}
      run(j) == SelectSeq(SubSeq(list, j, Len(list)),
                          LAMBDA r : r.off = list[j].off)
      order == Reverse(SelectSeq(Indices(list), LAMBDA j : j \in starts))
  IN  FlattenSeq([k \in DOMAIN order |-> run(order[k])])

Covers(sub, addr) == sub.addr <= addr /\ addr < End(sub)

(* Mutant: the end of the cached target is not tested. *)
Fill_NoEnd(last, r) ==
  [off |-> r.off, to |-> r.to,
   target |-> IF last # None /\ last.addr <= r.to THEN last
              ELSE FindSubsection(r.to)]

Fill(last, r) ==
  [off |-> r.off, to |-> r.to,
   target |-> IF last # None /\ Covers(last, r.to) THEN last
              ELSE FindSubsection(r.to)]

ReadRelocations(list) ==
  FoldLeft(LAMBDA done, r :
             Append(done, Fill(IF done = <<>> THEN None
                               ELSE Last(done).target, r)),
           <<>>, IF Decreasing(list) THEN RunsBackwards(list) ELSE list)

Offsets(list) == [j \in DOMAIN list |-> list[j].off]

SortIfNeeded(list) ==
  IF Increasing(list) THEN list ELSE StableSort(list, Offsets(list))

(***************************************************************************)
(* InputSection::parse_relocations: one subsection after the other takes   *)
(* the (sorted) relocations before its end; a single subsection takes all. *)
(***************************************************************************)
GetSubsections(i) ==
  SubSeq(subsecs, span[i].from, span[i].from + span[i].n - 1)

Takes(sub, i, r) == r.off < sub.addr - Sec(i).addr + sub.size

Attach(i, r) ==
  LET mine == GetSubsections(i)
      takers == {j \in DOMAIN mine : Len(mine) = 1 \/ Takes(mine[j], i, r)}
  IN  IF takers = {} THEN [sub |-> None, off |-> r.off]
      ELSE [sub |-> mine[Min(takers)],
            off |-> r.off - (mine[Min(takers)].addr - Sec(i).addr)]

ParseRelocations ==
  /\ pc = "relocs"
  /\ rels' = [i \in DOMAIN obj.sections |->
                SortIfNeeded(ReadRelocations(obj.rels[i]))]
  /\ holder' = [i \in DOMAIN obj.sections |->
                  [j \in DOMAIN rels'[i] |-> Attach(i, rels'[i][j])]]
  /\ pc' = IF obj.deferred THEN "done" ELSE "convert"
  /\ UNCHANGED <<obj, subsecs, span, symSub, table>>

Finished == pc \in {"done", "abort"} /\ UNCHANGED vars

(* One file, one step after the other. *)
Step ==
  \/ SplitViaSymbols \/ InitSubsections \/ SplitLiterals \/ SortSubsections
  \/ CacheSubsectionSpans \/ BuildLookup \/ ConvertCommonSymbols
  \/ PlaceLocalSymbols \/ ParseRelocations

Next == Step \/ Finished

Spec == Init /\ [][Next]_vars /\ WF_vars(Step)

-----------------------------------------------------------------------------
(***************************************************************************)
(* Properties.                                                             *)
(***************************************************************************)
(* The span of a section tiles it exactly: the first subsection starts it, *)
(* each one starts where the previous one ends, the last one ends it, and  *)
(* none is empty unless the section is.  The spans stay right when common  *)
(* symbols are appended, and cache_subsection_spans never meets a section  *)
(* twice (its assertion).                                                  *)
SubsectionsTile ==
  /\ pc # "abort"
  /\ pc \in {"lookup", "symbols", "convert", "relocs", "done"} =>
       \A i \in DOMAIN obj.sections :
         LET mine == GetSubsections(i)
         IN  /\ mine # <<>>
             /\ \A j \in DOMAIN mine : mine[j].sect = i
             /\ mine[1].addr = Sec(i).addr
             /\ End(Last(mine)) = End(Sec(i))
             /\ \A j \in 2 .. Len(mine) : End(mine[j - 1]) = mine[j].addr
             /\ Sec(i).size > 0 => \A j \in DOMAIN mine : mine[j].size > 0

(* Before common symbols are converted, find_subsection finds every        *)
(* address of a section in the subsection that covers it, through the      *)
(* bucket table as through the binary search.                              *)
FindsCoveringSubsection ==
  (pc = "symbols" \/ (pc = "relocs" /\ ~obj.deferred)) =>
    \A i \in DOMAIN obj.sections : \A addr \in Sec(i).addr .. End(Sec(i)) - 1 :
      Covers(FindSubsection(addr), addr) /\ FindSubsection(addr).sect = i

RelocsDone == pc = "done" \/ (pc = "convert" /\ ~obj.deferred)

(* Relocations end up in the order of their offsets, those at one offset   *)
(* in the order of the file (a SUBTRACTOR is followed by its UNSIGNED),    *)
(* and each is attached to the subsection that contains it, at the offset  *)
(* of the same byte.                                                       *)
RelocsAttached ==
  RelocsDone =>
    \A i \in DOMAIN obj.sections :
      /\ [j \in DOMAIN rels[i] |-> [off |-> rels[i][j].off, to |-> rels[i][j].to]]
           = StableSort(obj.rels[i], Offsets(obj.rels[i]))
      /\ \A j \in DOMAIN rels[i] :
           LET h == holder[i][j]
           IN  /\ h.sub.sect = i
               /\ h.off \in 0 .. h.sub.size - 1
               /\ h.sub.addr + h.off = Sec(i).addr + rels[i][j].off

(* A relocation that gives an address, not a symbol, refers to the         *)
(* subsection of the input section in which that address lies.             *)
TargetsCoverAddress ==
  RelocsDone =>
    \A i \in DOMAIN obj.sections : \A j \in DOMAIN rels[i] :
      /\ Covers(rels[i][j].target, rels[i][j].to)
      /\ rels[i][j].target.sect # 0

(* A local symbol is in the subsection that covers its address, and so     *)
(* moves with it; an N_ALT_ENTRY listed before another symbol at its       *)
(* address is left out.                                                    *)
SymbolsInTheirSubsection ==
  pc \in {"convert", "relocs", "done"} =>
    \A k \in DOMAIN obj.syms :
      LET sym == obj.syms[k]
          tied == \E l \in DOMAIN obj.syms :
                    /\ l > k /\ ~obj.syms[l].alt
                    /\ obj.syms[l].value = sym.value
      IN  (sym.value < End(Sec(sym.sect)) /\ ~(sym.alt /\ tied))
            => /\ Covers(symSub[k], sym.value)
               /\ symSub[k].sect = sym.sect

(* A section is cut where its symbols are, every symbol goes with the      *)
(* piece it names, and every way of looking a piece up finds it.           *)
SectionsAreSplit == SubsectionsTile /\ SymbolsInTheirSubsection /\ FindsCoveringSubsection

(* Both ends of a relocation are right after parsing, whatever the order   *)
(* in which the file lists them.                                           *)
RelocsLand == RelocsAttached /\ TargetsCoverAddress
=============================================================================
