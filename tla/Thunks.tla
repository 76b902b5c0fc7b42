------------------------------- MODULE Thunks -------------------------------
(***************************************************************************)
(* create_range_extension_thunks of thunks.cc: lays out the subsections of *)
(* one code section for ARM64 and puts, at intervals, thunks for the       *)
(* branch targets that may be out of reach.  Four cursors A, B, C, D move  *)
(* over the members: thunks are made for the group B..C, placed at D, and  *)
(* usable again until A passes them.  The relocations of a group are       *)
(* scanned in parallel.                                                    *)
(*                                                                         *)
(* Sizes are in arbitrary units; members, cursors and thunks count from 1, *)
(* and 0 stands for the index -1.                                          *)
(***************************************************************************)
EXTENDS Integers, Sequences, FiniteSets, FiniteSetsExt, SequencesExt

CONSTANTS MaxDistance, BatchSize, MaxThunkSize,  \* of thunks.cc
          Reach,       \* how far a branch can go: 1 << 27
          EntrySize, Alignment,  \* of RangeExtensionThunk
          U32,         \* one more than the largest u32
          Sym,         \* branch targets
          Inputs       \* the sections considered

ASSUME BoundsAssumption ==
  /\ {MaxDistance, BatchSize, MaxThunkSize, Reach, EntrySize, Alignment, U32}
       \subseteq Nat \ {0}
  /\ 2 * BatchSize + MaxThunkSize <= MaxDistance
  /\ MaxDistance + Alignment <= Reach /\ Reach < U32

(* A section: for each member its size, alignment and the branches in it;  *)
(* for each symbol how far before the section its stub is, or 0 if it has  *)
(* none, its member, or 0 if it is in another section, and its place in    *)
(* the order of the sort.  (__stubs is placed before every code section.)  *)
(* Addends of branches are left out.                                       *)
IsSection(i) ==
  /\ i.size \in Seq(Nat)
  /\ i.align \in [DOMAIN i.size -> Nat \ {0}]
  /\ i.rels \in [DOMAIN i.size -> Seq([off : Nat, sym : Sym])]
  /\ \A k \in DOMAIN i.size : \A j \in DOMAIN i.rels[k] :
       i.rels[k][j].off <= i.size[k]
  /\ i.at \in [Sym -> {0} \cup DOMAIN i.size]
  /\ i.stub \in [Sym -> Nat]
  /\ i.key \in [Sym -> Nat]

ASSUME InputsAssumption == \A i \in Inputs : IsSection(i)

VARIABLES
  inp,
  pc,
  off,        \* output_offset of each member
  a, b, c, d, \* the cursors
  offset,     \* end of what is laid out
  thunks,     \* osec.thunks
  thunkIdx,   \* the first thunk that is still usable
  symThunk,   \* Symbol::thunk_idx and thunk_sym_idx
  flagged,    \* symbols with NEEDS_RANGE_EXTN_THUNK
  relThunk,   \* Relocation::thunk_idx and thunk_sym_idx
  next        \* per member of the group, its next relocation to scan

vars == <<inp, pc, off, a, b, c, d, offset, thunks, thunkIdx, symThunk,
          flagged, relThunk, next>>

N == Len(inp.size)
Unset == U32 - 1
NoThunk == [idx |-> 0, pos |-> 0]
AlignTo(x, n) == ((x + n - 1) \div n) * n

Init ==
  /\ inp \in Inputs
  /\ pc = IF N = 0 THEN "done" ELSE "D"
  /\ off = [k \in 1 .. N |-> IF k = 1 THEN 0 ELSE Unset]
  /\ a = 1 /\ b = 1 /\ c = 1 /\ d = 1
  /\ offset = 0
  /\ thunks = <<>> /\ thunkIdx = 1
  /\ symThunk = [s \in Sym |-> NoThunk]
  /\ flagged = {}
  /\ relThunk = [k \in 1 .. N |-> [j \in DOMAIN inp.rels[k] |-> NoThunk]]
  /\ next = [k \in 1 .. N |-> 1]

(* Is D close enough to B for one more member? *)
PlacedAt(k) == AlignTo(offset, inp.align[k])

FitsD ==
  /\ d <= N
  /\ PlacedAt(d) + inp.size[d] < off[b] + MaxDistance - MaxThunkSize

MoveD ==
  /\ pc = "D" /\ FitsD
  /\ off' = [off EXCEPT ![d] = PlacedAt(d)]
  /\ offset' = PlacedAt(d) + inp.size[d]
  /\ d' = d + 1
  /\ UNCHANGED <<inp, pc, a, b, c, thunks, thunkIdx, symThunk, flagged,
                 relThunk, next>>

(* The u32 sum output_offset + input_size against B's end of batch. *)
InBatch(k) == (off[k] + inp.size[k]) % U32 < off[b] + BatchSize

MoveC ==
  /\ pc = "D" /\ ~FitsD
  /\ c' = Min({k \in b + 1 .. N : ~InBatch(k)} \cup {N + 1})
  /\ pc' = "A"
  /\ UNCHANGED <<inp, off, a, b, d, offset, thunks, thunkIdx, symThunk,
                 flagged, relThunk, next>>

(* A moves while it is too far behind C. *)
COffset == IF c = N + 1 THEN offset ELSE off[c]

(* Mutant: A is never moved. *)
MoveA_Stays ==
  /\ pc = "A"
  /\ a' = a
  /\ pc' = "reset"
  /\ UNCHANGED <<inp, off, b, c, d, offset, thunks, thunkIdx, symThunk,
                 flagged, relThunk, next>>

MoveA ==
  /\ pc = "A"
  /\ a' = Min({k \in a .. N : off[k] + MaxDistance >= COffset} \cup {N + 1})
  /\ pc' = "reset"
  /\ UNCHANGED <<inp, off, b, c, d, offset, thunks, thunkIdx, symThunk,
                 flagged, relThunk, next>>

(* reset_thunk on the thunks from thunkIdx up to, not including, i.        *)
(* Mutant: thunk_idx of the symbols is not reset. *)
ResetUpTo_IndexKept(i) ==
  LET gone == UNION {Range(thunks[t].symbols) : t \in thunkIdx .. i - 1}
  IN  /\ thunkIdx' = i
      /\ symThunk' = symThunk
      /\ flagged' = flagged \ gone

ResetUpTo(i) ==
  LET gone == UNION {Range(thunks[t].symbols) : t \in thunkIdx .. i - 1}
  IN  /\ thunkIdx' = i
      /\ symThunk' = [s \in Sym |-> IF s \in gone THEN NoThunk
                                    ELSE symThunk[s]]
      /\ flagged' = flagged \ gone

(* Reading m[a] past the last member gives an arbitrary u32. *)
OffsetOfA == IF a <= N THEN {off[a]} ELSE {0, Unset}

StartThunk ==
  /\ pc = "reset"
  /\ \E low \in OffsetOfA :
       ResetUpTo(Min({t \in thunkIdx .. Len(thunks) : thunks[t].offset >= low}
                       \cup {Len(thunks) + 1}))
  /\ offset' = AlignTo(offset, Alignment)
  /\ thunks' = Append(thunks, [offset |-> offset', symbols |-> <<>>])
  /\ next' = [k \in 1 .. N |-> 1]
  /\ pc' = "scan"
  /\ UNCHANGED <<inp, off, a, b, c, d, relThunk>>

(***************************************************************************)
(* The parallel scan.  A branch needs a thunk unless its target has a stub *)
(* or is in this section, laid out, and is within reach.                   *)
(***************************************************************************)
InRange(from, to) == -Reach <= to - from /\ to - from < Reach

(* Symbol::get_addr, from the start of the section: the stub comes first.  *)
SymAddr(s) == IF inp.stub[s] # 0 THEN -inp.stub[s] ELSE off[inp.at[s]]

IsReachable(k, r) ==
  /\ inp.stub[r.sym] # 0 \/ (inp.at[r.sym] # 0 /\ off[inp.at[r.sym]] # Unset)
  /\ InRange(off[k] + r.off, SymAddr(r.sym))

(* Mutant: a reachable branch is never left. *)
ScanReloc_Stuck(k) ==
  /\ pc = "scan" /\ next[k] <= Len(inp.rels[k])
  /\ LET j == next[k]
         r == inp.rels[k][j]
         t == Len(thunks)
     IN  CASE IsReachable(k, r) -> UNCHANGED <<relThunk, flagged, thunks>>
           [] ~IsReachable(k, r) /\ symThunk[r.sym] # NoThunk ->
                /\ relThunk' = [relThunk EXCEPT ![k][j] = symThunk[r.sym]]
                /\ UNCHANGED <<flagged, thunks>>
           [] OTHER ->
                /\ relThunk' = [relThunk EXCEPT ![k][j] =
                                  [idx |-> t, pos |-> 0]]
                /\ flagged' = flagged \cup {r.sym}
                /\ thunks' = IF r.sym \in flagged THEN thunks
                             ELSE [thunks EXCEPT ![t].symbols =
                                     Append(@, r.sym)]
  /\ next' = [next EXCEPT ![k] =
       IF IsReachable(k, inp.rels[k][@]) THEN @ ELSE @ + 1]
  /\ UNCHANGED <<inp, pc, off, a, b, c, d, offset, thunkIdx, symThunk>>

ScanReloc(k) ==
  /\ pc = "scan" /\ next[k] <= Len(inp.rels[k])
  /\ LET j == next[k]
         r == inp.rels[k][j]
         t == Len(thunks)
     IN  CASE IsReachable(k, r) -> UNCHANGED <<relThunk, flagged, thunks>>
           [] ~IsReachable(k, r) /\ symThunk[r.sym] # NoThunk ->
                /\ relThunk' = [relThunk EXCEPT ![k][j] = symThunk[r.sym]]
                /\ UNCHANGED <<flagged, thunks>>
           [] OTHER ->
                /\ relThunk' = [relThunk EXCEPT ![k][j] =
                                  [idx |-> t, pos |-> 0]]
                /\ flagged' = flagged \cup {r.sym}
                /\ thunks' = IF r.sym \in flagged THEN thunks
                             ELSE [thunks EXCEPT ![t].symbols =
                                     Append(@, r.sym)]
  /\ next' = [next EXCEPT ![k] = @ + 1]
  /\ UNCHANGED <<inp, pc, off, a, b, c, d, offset, thunkIdx, symThunk>>

Group == b .. c - 1

(* The stable sort by file priority and value. *)
Sorts(p, syms) ==
  \A i, j \in DOMAIN syms : i < j =>
    \/ inp.key[syms[p[i]]] < inp.key[syms[p[j]]]
    \/ inp.key[syms[p[i]]] = inp.key[syms[p[j]]] /\ p[i] < p[j]

Sortings(syms) ==
  {[i \in DOMAIN syms |-> syms[p[i]]] :
     p \in {p \in Bijection(DOMAIN syms, DOMAIN syms) : Sorts(p, syms)}}

PosIn(syms, s) == CHOOSE i \in DOMAIN syms : syms[i] = s

(* The rest of the iteration, once every relocation of the group has been  *)
(* scanned.                                                                *)
(* Mutant: the size of the thunk is not added. *)
FinishThunk_NoSize ==
  /\ pc = "scan" /\ \A k \in Group : next[k] > Len(inp.rels[k])
  /\ \E syms \in Sortings(thunks[Len(thunks)].symbols) :
       LET t == Len(thunks)
           at(s) == [idx |-> t, pos |-> PosIn(syms, s)]
       IN  /\ thunks' = [thunks EXCEPT ![t].symbols = syms]
           /\ offset' = offset
           /\ symThunk' = [s \in Sym |-> IF s \in Range(syms) THEN at(s)
                                         ELSE symThunk[s]]
           /\ relThunk' = [k \in 1 .. N |-> [j \in DOMAIN inp.rels[k] |->
                IF k \in Group /\ relThunk[k][j].idx = t
                THEN at(inp.rels[k][j].sym) ELSE relThunk[k][j]]]
  /\ b' = c
  /\ pc' = IF c <= N THEN "D" ELSE "end"
  /\ UNCHANGED <<inp, off, a, c, d, thunkIdx, flagged, next>>

FinishThunk ==
  /\ pc = "scan" /\ \A k \in Group : next[k] > Len(inp.rels[k])
  /\ \E syms \in Sortings(thunks[Len(thunks)].symbols) :
       LET t == Len(thunks)
           at(s) == [idx |-> t, pos |-> PosIn(syms, s)]
       IN  /\ thunks' = [thunks EXCEPT ![t].symbols = syms]
           /\ offset' = offset + Len(syms) * EntrySize
           /\ symThunk' = [s \in Sym |-> IF s \in Range(syms) THEN at(s)
                                         ELSE symThunk[s]]
           /\ relThunk' = [k \in 1 .. N |-> [j \in DOMAIN inp.rels[k] |->
                IF k \in Group /\ relThunk[k][j].idx = t
                THEN at(inp.rels[k][j].sym) ELSE relThunk[k][j]]]
  /\ b' = c
  /\ pc' = IF c <= N THEN "D" ELSE "end"
  /\ UNCHANGED <<inp, off, a, c, d, thunkIdx, flagged, next>>

ResetAll ==
  /\ pc = "end"
  /\ ResetUpTo(Len(thunks) + 1)
  /\ pc' = "done"
  /\ UNCHANGED <<inp, off, a, b, c, d, offset, thunks, relThunk, next>>

Finished == pc = "done" /\ UNCHANGED vars

Step ==
  \/ MoveD \/ MoveC \/ MoveA \/ StartThunk
  \/ \E k \in Group : ScanReloc(k)
  \/ FinishThunk \/ ResetAll

Next == Step \/ Finished

(* The pass runs on its own thread and waits for its scanning tasks. *)
Spec == Init /\ [][Next]_vars /\ WF_vars(Step)

-----------------------------------------------------------------------------
(***************************************************************************)
(* Properties.                                                             *)
(***************************************************************************)
Index == [idx : Nat, pos : Nat]

TypeOK ==
  /\ pc \in {"D", "A", "reset", "scan", "end", "done"}
  /\ off \in [1 .. N -> 0 .. Unset]
  /\ a \in 1 .. N + 1 /\ b \in 1 .. N + 1 /\ c \in 1 .. N + 1
  /\ d \in 1 .. N + 1
  /\ offset \in Nat
  /\ thunks \in Seq([offset : Nat, symbols : Seq(Sym)])
  /\ thunkIdx \in 1 .. Len(thunks) + 1
  /\ symThunk \in [Sym -> Index]
  /\ flagged \subseteq Sym
  /\ \A k \in 1 .. N : relThunk[k] \in [DOMAIN inp.rels[k] -> Index]

(* apply_reloc for ARM64_RELOC_BRANCH26: a branch goes to its target if    *)
(* that is within reach, and to the thunk recorded in the relocation       *)
(* otherwise; targets outside the section may be anywhere.                 *)
ThunkAddr(i) == thunks[i.idx].offset + (i.pos - 1) * EntrySize

Arrives(k, j) ==
  LET r == inp.rels[k][j]
      from == off[k] + r.off
      i == relThunk[k][j]
  IN  \/ /\ inp.stub[r.sym] # 0 \/ inp.at[r.sym] # 0
         /\ InRange(from, SymAddr(r.sym))
      \/ /\ i.idx \in DOMAIN thunks
         /\ i.pos \in DOMAIN thunks[i.idx].symbols
         /\ thunks[i.idx].symbols[i.pos] = r.sym
         /\ InRange(from, ThunkAddr(i))

(* When the section is laid out, every branch in it can be encoded and     *)
(* leads to its target: directly, or through a thunk within its reach that *)
(* has an entry for that target, also when the thunk was made for an       *)
(* earlier group.                                                          *)
BranchesArrive ==
  pc = "done" => \A k \in 1 .. N : \A j \in DOMAIN inp.rels[k] : Arrives(k, j)

(* Members and thunks do not overlap, members are aligned, and nothing     *)
(* lies beyond the size of the section.                                    *)
Extents ==
  {<<off[k], off[k] + inp.size[k]>> : k \in 1 .. N}
    \cup {<<thunks[t].offset,
            thunks[t].offset + Len(thunks[t].symbols) * EntrySize>>
          : t \in DOMAIN thunks}

LayoutIsSound ==
  pc = "done" =>
    /\ \A k \in 1 .. N : off[k] % inp.align[k] = 0
    /\ \A k \in 1 .. N - 1 : off[k] + inp.size[k] <= off[k + 1]
    /\ \A x, y \in Extents : x = y \/ x[2] <= y[1] \/ y[2] <= x[1]
    /\ \A x \in Extents : x[2] <= offset

(* A symbol that has a thunk index while a group is scanned has an entry   *)
(* in a thunk that is still usable, and when the pass ends no symbol has   *)
(* one: the field is shared with fixup_ordinal, and the flag with the      *)
(* passes over other sections.                                             *)
SymbolsPointToUsableThunks ==
  /\ \A s \in Sym : symThunk[s] # NoThunk =>
       /\ symThunk[s].idx \in thunkIdx .. Len(thunks)
       /\ thunks[symThunk[s].idx].symbols[symThunk[s].pos] = s
       /\ s \in flagged
  /\ pc = "done" => flagged = {} /\ \A s \in Sym : symThunk[s] = NoThunk

(* The pass leaves a sound section and no trace in the symbols.            *)
PassIsClean == TypeOK /\ LayoutIsSound /\ SymbolsPointToUsableThunks

(* The pass ends. *)
Terminates == <>(pc = "done")

(* The comment on the cursors: "The locations they point to are always     *)
(* A <= B <= C <= D."  Here, its second half.                              *)
CursorsAreOrdered == pc = "scan" => b <= c /\ c <= d

(* The comment "Sort symbols added to the thunk to make the output         *)
(* deterministic": the entries are in one order whatever the schedule,     *)
(* namely by key and then as a sequential scan would add them.             *)
FirstCaller(s) == Min({k \in 1 .. N : \E j \in DOMAIN inp.rels[k] :
                                         inp.rels[k][j].sym = s})

EntriesAreDeterministic ==
  pc = "done" =>
    \A t \in DOMAIN thunks :
      LET syms == thunks[t].symbols
      IN  \A i, j \in DOMAIN syms : i < j =>
            \/ inp.key[syms[i]] < inp.key[syms[j]]
            \/ /\ inp.key[syms[i]] = inp.key[syms[j]]
               /\ FirstCaller(syms[i]) <= FirstCaller(syms[j])
=============================================================================
