---------------------------- MODULE ThunksProofs ----------------------------
(***************************************************************************)
(* Proofs that create_range_extension_thunks lays out any section so that  *)
(* every branch can be encoded and leads to its target, whatever the order *)
(* in which the parallel scan meets the branches, within the limits that   *)
(* the code takes for granted.                                             *)
(***************************************************************************)
EXTENDS Thunks, NatFacts

(* The limits.  The comment on MAX_THUNK_SIZE: "We assume that a single    *)
(* thunk group is smaller than 100 KiB."  output_offset has 32 bits, one   *)
(* value of which means that a member is not placed.  And two members, the *)
(* padding of one and a thunk are no larger than a batch: with larger ones *)
(* C may run past D (see CursorsAreOrdered).                               *)
MembersAreSmall ==
  \A k, l \in 1 .. N :
    inp.size[k] + inp.size[l] + inp.align[l] + Alignment + MaxThunkSize
      <= BatchSize

WithinLimits ==
  /\ MembersAreSmall
  /\ offset < Unset
  /\ \A t \in DOMAIN thunks :
       Len(thunks[t].symbols) * EntrySize <= MaxThunkSize

-----------------------------------------------------------------------------
(***************************************************************************)
(* The inductive invariant.                                                *)
(***************************************************************************)
Thunk == [offset : Nat, symbols : Seq(Sym)]
Batched == pc \in {"A", "reset", "scan"}

Types ==
  /\ inp \in Inputs
  /\ pc \in {"D", "A", "reset", "scan", "end", "done"}
  /\ a \in 1 .. N + 1 /\ b \in 1 .. N + 1 /\ c \in 1 .. N + 1
  /\ d \in 1 .. N + 1
  /\ off \in [1 .. N -> Nat]
  /\ offset \in Nat

ThunkTypes ==
  /\ thunks \in Seq(Thunk)
  /\ thunkIdx \in 1 .. Len(thunks) + 1
  /\ symThunk \in [Sym -> Index]
  /\ flagged \subseteq Sym
  /\ next \in [1 .. N -> Nat \ {0}]
  /\ DOMAIN relThunk = 1 .. N
  /\ \A k \in 1 .. N : relThunk[k] \in [DOMAIN inp.rels[k] -> Index]

(* A <= B <= C <= D, and C is placed unless it is past the last member. *)
Cursors ==
  /\ a <= b /\ b <= c
  /\ pc = "D" => c = b /\ b <= N /\ (b < d \/ (b = 1 /\ d = 1))
  /\ Batched => b < c /\ b < d /\ (c < d \/ (c = N + 1 /\ d = N + 1))
  /\ pc \in {"end", "done"} => b = N + 1 /\ d = N + 1

(* The members before D are placed in order, aligned, below offset. *)
End(k) == off[k] + inp.size[k]

MembersPlaced ==
  /\ \A k \in d .. N : k # 1 => off[k] = Unset
  /\ N # 0 => off[1] = 0
  /\ d = 1 => offset = 0
  /\ \A k \in 1 .. d - 1 : off[k] % inp.align[k] = 0 /\ End(k) <= offset
  /\ \A k, l \in 1 .. d - 1 : k < l => End(k) <= off[l]

(* Thunks lie in order between the members; the size of the one that is    *)
(* being filled is not known yet, so it is the last thing placed.          *)
Closed(t) == pc # "scan" \/ t < Len(thunks)
ThunkEnd(t) == thunks[t].offset + Len(thunks[t].symbols) * EntrySize

ThunksPlaced ==
  /\ \A t \in DOMAIN thunks : Closed(t) => ThunkEnd(t) <= offset
  /\ pc = "scan" => thunks # <<>> /\ thunks[Len(thunks)].offset = offset
  /\ \A t, u \in DOMAIN thunks : t < u => ThunkEnd(t) <= thunks[u].offset
  /\ \A k \in 1 .. d - 1 : \A t \in DOMAIN thunks :
       End(k) <= thunks[t].offset \/ (Closed(t) /\ ThunkEnd(t) <= off[k])

(* How far D is from B, C from B, and A and the usable thunks from the     *)
(* group B .. C.  Where D has not moved in this round it can.              *)
Limit == off[b] + MaxDistance - MaxThunkSize

Distances ==
  /\ pc = "D" =>
       /\ offset <= Limit
       /\ d <= N => \/ d > 1 /\ offset = End(d - 1)
                    \/ offset + inp.align[d] + inp.size[d] <= Limit
  /\ pc \in {"A", "reset"} => offset <= Limit
  /\ pc = "scan" => offset <= Limit + Alignment
  /\ Batched /\ c <= N => off[b] + BatchSize <= End(c)
  /\ pc = "reset" =>
       a < d /\ \A k \in Group : End(k) <= off[a] + MaxDistance
  /\ pc = "scan" =>
       \A t \in thunkIdx .. Len(thunks) : \A k \in Group :
         End(k) <= thunks[t].offset + MaxDistance

(* A symbol has an index exactly while a usable thunk has an entry for it, *)
(* and the flag also while the thunk that is being filled has one.         *)
HasEntry(i, s) ==
  /\ i.idx \in DOMAIN thunks
  /\ i.pos \in DOMAIN thunks[i.idx].symbols
  /\ thunks[i.idx].symbols[i.pos] = s

Holds(t, s) ==
  \E p \in DOMAIN thunks[t].symbols : thunks[t].symbols[p] = s

SymbolsIndexed ==
  /\ \A s \in Sym : symThunk[s] # NoThunk =>
       /\ HasEntry(symThunk[s], s)
       /\ thunkIdx <= symThunk[s].idx /\ Closed(symThunk[s].idx)
       /\ s \in flagged
  /\ \A s \in flagged :
       symThunk[s] # NoThunk \/ (pc = "scan" /\ Holds(Len(thunks), s))
  /\ \A t \in thunkIdx .. Len(thunks) : \A s \in Sym :
       Closed(t) /\ Holds(t, s) => symThunk[s].idx = t
  /\ pc = "scan" =>
       /\ thunkIdx <= Len(thunks)
       /\ \A s \in Sym : Holds(Len(thunks), s) =>
            symThunk[s] = NoThunk /\ s \in flagged
  /\ pc = "done" => thunkIdx = Len(thunks) + 1

(* A scanned branch goes straight to its target, or to a finished thunk,   *)
(* or waits for its place in the one that is being filled.                 *)
From(k, j) == off[k] + inp.rels[k][j].off
Target(k, j) == inp.at[inp.rels[k][j].sym]

Stub(k, j) == inp.stub[inp.rels[k][j].sym]

Direct(k, j) ==
  /\ Stub(k, j) # 0 \/ (Target(k, j) # 0 /\ Target(k, j) < d)
  /\ InRange(From(k, j), SymAddr(inp.rels[k][j].sym))

Via(k, j) ==
  /\ HasEntry(relThunk[k][j], inp.rels[k][j].sym)
  /\ Closed(relThunk[k][j].idx)
  /\ InRange(From(k, j), ThunkAddr(relThunk[k][j]))

Waits(k, j) ==
  /\ relThunk[k][j].idx = Len(thunks)
  /\ Holds(Len(thunks), inp.rels[k][j].sym)

BranchesBound ==
  /\ \A k \in 1 .. b - 1 : \A j \in DOMAIN inp.rels[k] :
       Direct(k, j) \/ Via(k, j)
  /\ pc = "scan" =>
       \A k \in Group : \A j \in DOMAIN inp.rels[k] : j < next[k] =>
         Direct(k, j) \/ Via(k, j) \/ Waits(k, j)

(* No relocation has the index of a thunk to come, and only a branch that  *)
(* waits has the index of the thunk that is being filled.                  *)
IndicesBehind ==
  \A k \in 1 .. N : \A j \in DOMAIN inp.rels[k] :
    /\ relThunk[k][j].idx <= Len(thunks)
    /\ pc = "scan" /\ relThunk[k][j].idx = Len(thunks) => Waits(k, j)

IInv ==
  /\ Types /\ ThunkTypes /\ Cursors /\ MembersPlaced /\ ThunksPlaced
  /\ Distances /\ SymbolsIndexed /\ BranchesBound /\ IndicesBehind

-----------------------------------------------------------------------------
(***************************************************************************)
(* Facts about the constants and the operators.                            *)
(***************************************************************************)
(* The bounds of thunks.cc, one by one. *)
LEMMA Bounds ==
  /\ MaxDistance \in Nat \ {0} /\ BatchSize \in Nat \ {0}
  /\ MaxThunkSize \in Nat \ {0} /\ Reach \in Nat \ {0}
  /\ EntrySize \in Nat \ {0} /\ Alignment \in Nat \ {0} /\ U32 \in Nat \ {0}
  /\ 2 * BatchSize + MaxThunkSize <= MaxDistance
  /\ MaxDistance + Alignment <= Reach /\ Reach < U32
  /\ Unset \in Nat /\ Unset = U32 - 1
BY BoundsAssumption DEF Unset

(* What align_to returns: the least multiple that is not smaller. *)
LEMMA AlignFacts ==
  ASSUME NEW x \in Nat, NEW n \in Nat \ {0}
  PROVE  /\ AlignTo(x, n) \in Nat
         /\ x <= AlignTo(x, n) /\ AlignTo(x, n) < x + n
         /\ AlignTo(x, n) % n = 0
         /\ x = 0 => AlignTo(x, n) = 0
<1> DEFINE y == x + n - 1
           q == y \div n
           m == y % n
<1>1. y \in Nat
  OBVIOUS
<1>2. q \in Nat /\ m \in 0 .. n - 1 /\ y = q * n + m
  BY <1>1, DivMod
<1>3. AlignTo(x, n) = q * n
  BY DEF AlignTo
<1> HIDE DEF q, m
<1>4. q * n \in Nat
  BY <1>2, MulNat
<1>5. (q * n) % n = 0
  <2>1. 0 \in 0 .. n - 1 /\ q * n + 0 = q * n
    BY <1>4
  <2>2. (q * n + 0) % n = 0
    BY <1>2, <2>1, DivModUnique
  <2> QED
    BY <2>1, <2>2
<1>6. x = 0 => q * n = 0
  <2> SUFFICES ASSUME x = 0, q # 0 PROVE FALSE
    BY <1>2
  <2>1. 1 * n <= q * n
    BY <1>2, MulMono
  <2> QED
    BY <2>1, <1>2, <1>4
<1> QED
  BY <1>2, <1>3, <1>4, <1>5, <1>6

(* Sums and intervals on their own, away from the terms they are about. *)
LEMMA WithinSum ==
  ASSUME NEW x \in Nat, NEW y \in Nat, NEW z \in Nat, NEW m \in Nat,
         x <= y + m, y <= z
  PROVE  x <= z + m
OBVIOUS

LEMMA InGroup ==
  ASSUME NEW n \in Nat, NEW x \in 1 .. n + 1, NEW y \in 1 .. n + 1,
         NEW z \in 1 .. n + 1, NEW k \in x .. y - 1,
         x < z, y < z \/ (y = n + 1 /\ z = n + 1)
  PROVE  k \in 1 .. n /\ k \in 1 .. z - 1 /\ x <= k /\ x \in 1 .. z - 1 /\ x \in 1 .. n
OBVIOUS

(* Min finds the least element. *)
LEMMA MinFacts ==
  ASSUME NEW S \in SUBSET Nat, S # {}
  PROVE  Min(S) \in S /\ \A x \in S : Min(S) <= x
BY LeastNatural DEF Min

(* An element of a sequence. *)
LEMMA SeqElement ==
  ASSUME NEW S, NEW q \in Seq(S), NEW j \in DOMAIN q
  PROVE  q[j] \in S
OBVIOUS

(* The fields of a section. *)
LEMMA InputFacts ==
  ASSUME inp \in Inputs
  PROVE  /\ N \in Nat /\ DOMAIN inp.size = 1 .. N
         /\ inp.size \in [1 .. N -> Nat]
         /\ inp.align \in [1 .. N -> Nat \ {0}]
         /\ inp.rels \in [1 .. N -> Seq([off : Nat, sym : Sym])]
         /\ inp.at \in [Sym -> 0 .. N]
         /\ \A k \in 1 .. N : \A j \in DOMAIN inp.rels[k] :
              /\ inp.rels[k][j] \in [off : Nat, sym : Sym]
              /\ inp.rels[k][j].off <= inp.size[k]
<1>1. IsSection(inp)
  BY InputsAssumption
<1>2. N \in Nat /\ DOMAIN inp.size = 1 .. N /\ inp.size \in [1 .. N -> Nat]
  BY <1>1 DEF IsSection, N
<1>3. {0} \cup DOMAIN inp.size = 0 .. N
  BY <1>2
<1>4. inp.align \in [1 .. N -> Nat \ {0}] /\ inp.at \in [Sym -> 0 .. N]
  BY <1>1, <1>2, <1>3 DEF IsSection
<1>5. inp.rels \in [1 .. N -> Seq([off : Nat, sym : Sym])]
  BY <1>1, <1>2 DEF IsSection
<1>6. ASSUME NEW k \in 1 .. N, NEW j \in DOMAIN inp.rels[k]
      PROVE  /\ inp.rels[k][j] \in [off : Nat, sym : Sym]
             /\ inp.rels[k][j].off <= inp.size[k]
  <2>1. inp.rels[k] \in Seq([off : Nat, sym : Sym])
    BY <1>5
  <2>2. inp.rels[k][j].off <= inp.size[k]
    BY <1>1, <1>2 DEF IsSection
  <2>3. inp.rels[k][j] \in [off : Nat, sym : Sym]
    BY <2>1, SeqElement
  <2> QED
    BY <2>2, <2>3
<1> QED
  BY <1>2, <1>4, <1>5, <1>6

(* Sorting permutes the entries. *)
LEMMA SortingFacts ==
  ASSUME NEW syms \in Seq(Sym), NEW new \in Sortings(syms)
  PROVE  /\ new \in Seq(Sym) /\ Len(new) = Len(syms)
         /\ \A i \in DOMAIN syms : \E j \in DOMAIN new : new[j] = syms[i]
         /\ \A j \in DOMAIN new : \E i \in DOMAIN syms : syms[i] = new[j]
<1>1. PICK p \in Bijection(DOMAIN syms, DOMAIN syms) :
             new = [i \in DOMAIN syms |-> syms[p[i]]]
  BY DEF Sortings
<1>2. /\ p \in [DOMAIN syms -> DOMAIN syms]
      /\ \A i \in DOMAIN syms : \E j \in DOMAIN syms : p[j] = i
  BY DEF Bijection, Injection, Surjection
<1>3. DOMAIN syms = 1 .. Len(syms) /\ Len(syms) \in Nat
  OBVIOUS
<1>4. new \in [1 .. Len(syms) -> Sym]
  BY <1>1, <1>2, <1>3
<1>5. new \in Seq(Sym) /\ Len(new) = Len(syms)
  BY <1>3, <1>4
<1> QED
  BY <1>1, <1>2, <1>3, <1>4, <1>5

(* Placed offsets are below the mark of a member that is not placed. *)
LEMMA PlacedFacts ==
  ASSUME Types, MembersPlaced, WithinLimits
  PROVE  /\ \A k \in 1 .. d - 1 : k \in 1 .. N /\ off[k] \in Nat /\ inp.size[k] \in Nat
                 /\ End(k) \in Nat /\ off[k] <= End(k) /\ End(k) < Unset
         /\ N \in Nat /\ d \in 1 .. N + 1 /\ offset < Unset
<1>1. N \in Nat /\ inp.size \in [1 .. N -> Nat]
  BY InputFacts DEF Types
<1> QED
  <2>1. d \in 1 .. N + 1 /\ off \in [1 .. N -> Nat] /\ offset \in Nat /\ offset < Unset
    BY DEF Types, WithinLimits
  <2>2. Unset \in Nat
    BY Bounds
  <2>3. ASSUME NEW k \in 1 .. d - 1
        PROVE  /\ k \in 1 .. N /\ off[k] \in Nat /\ inp.size[k] \in Nat
               /\ End(k) \in Nat /\ off[k] <= End(k) /\ End(k) < Unset
    <3>1. k \in 1 .. N
      BY <1>1, <2>1
    <3>2. off[k] \in Nat /\ inp.size[k] \in Nat
      BY <1>1, <2>1, <3>1
    <3>3. End(k) <= offset
      BY DEF MembersPlaced
    <3>4. End(k) \in Nat /\ off[k] <= End(k)
      BY <3>2 DEF End
    <3> QED
      BY <2>1, <2>2, <3>1, <3>2, <3>3, <3>4
  <2> QED
    BY <1>1, <2>1, <2>3

(* Thunks lie where they can be compared with members. *)
LEMMA ThunkFacts ==
  ASSUME ThunkTypes, NEW t \in DOMAIN thunks
  PROVE  /\ Len(thunks) \in Nat /\ t \in 1 .. Len(thunks)
         /\ thunks[t] \in Thunk
         /\ thunks[t].offset \in Nat /\ thunks[t].symbols \in Seq(Sym)
         /\ Len(thunks[t].symbols) \in Nat
         /\ ThunkEnd(t) \in Nat /\ thunks[t].offset <= ThunkEnd(t)
<1>1. Len(thunks) \in Nat /\ t \in 1 .. Len(thunks)
  BY DEF ThunkTypes
<1>2. thunks[t] \in Thunk
  BY SeqElement DEF ThunkTypes
<1>3. thunks[t].offset \in Nat /\ thunks[t].symbols \in Seq(Sym)
  BY <1>2 DEF Thunk
<1>4. Len(thunks[t].symbols) \in Nat
  BY <1>3
<1>5. Len(thunks[t].symbols) * EntrySize \in Nat
  BY <1>4, Bounds, MulNat
<1> QED
  BY <1>1, <1>2, <1>3, <1>4, <1>5 DEF ThunkEnd

(* A branch lies in its member and has a target in the section, or none. *)
LEMMA BranchFacts ==
  ASSUME Types, NEW k \in 1 .. N, NEW j \in DOMAIN inp.rels[k]
  PROVE  /\ inp.rels[k][j].sym \in Sym /\ inp.rels[k][j].off \in Nat
         /\ Target(k, j) \in 0 .. N /\ From(k, j) \in Nat
         /\ off[k] <= From(k, j) /\ From(k, j) <= End(k)
<1>1. inp.rels[k][j] \in [off : Nat, sym : Sym]
  BY InputFacts DEF Types
<1>2. inp.rels[k][j].sym \in Sym /\ inp.rels[k][j].off \in Nat
  BY <1>1
<1>3. inp.rels[k][j].off <= inp.size[k] /\ inp.size[k] \in Nat
  BY InputFacts DEF Types
<1>4. Target(k, j) \in 0 .. N
  BY <1>2, InputFacts DEF Target, Types
<1>5. off[k] \in Nat
  BY DEF Types
<1> QED
  BY <1>2, <1>3, <1>4, <1>5 DEF From, End

-----------------------------------------------------------------------------
(***************************************************************************)
(* Init and the steps of the main thread before the scan.                  *)
(***************************************************************************)
LEMMA InitInv ==
  ASSUME Init, WithinLimits
  PROVE  IInv
<1> USE Bounds
<1>1. /\ inp \in Inputs /\ N \in Nat
      /\ inp.size \in [1 .. N -> Nat] /\ inp.align \in [1 .. N -> Nat \ {0}]
  BY InputFacts DEF Init
<1>2. Types
  BY <1>1 DEF Init, Types
<1>3. ThunkTypes
  <2>1. thunks \in Seq(Thunk) /\ Len(thunks) = 0
    BY DEF Init
  <2>2. NoThunk \in Index
    BY DEF NoThunk, Index
  <2>3. symThunk \in [Sym -> Index]
    BY <2>2 DEF Init
  <2>4. ASSUME NEW k \in 1 .. N
        PROVE  relThunk[k] \in [DOMAIN inp.rels[k] -> Index]
    BY <2>2 DEF Init
  <2> QED
    BY <1>1, <2>1, <2>3, <2>4 DEF Init, ThunkTypes
<1>4. Cursors
  BY <1>1 DEF Init, Cursors, Batched
<1>5. MembersPlaced
  BY <1>1 DEF Init, MembersPlaced
<1>6. ThunksPlaced
  BY <1>1 DEF Init, ThunksPlaced
<1>7. Distances
  <2>1. CASE N = 0
    BY <2>1 DEF Init, Distances, Batched
  <2>2. CASE N # 0
    <3>1. inp.size[1] + inp.size[1] + inp.align[1] + Alignment + MaxThunkSize
            <= BatchSize
      BY <1>1, <2>2 DEF WithinLimits, MembersAreSmall
    <3>2. pc = "D" /\ off[b] = 0 /\ offset = 0 /\ d = 1
      BY <1>1, <2>2 DEF Init
    <3>3. inp.size[1] \in Nat /\ inp.align[1] \in Nat
      BY <1>1, <2>2
    <3> QED
      BY <3>1, <3>2, <3>3 DEF Distances, Batched, Limit
  <2> QED
    BY <2>1, <2>2
<1>8. SymbolsIndexed
  BY <1>1 DEF Init, SymbolsIndexed
<1>9. BranchesBound
  BY <1>1 DEF Init, BranchesBound
<1>10. IndicesBehind
  <2> SUFFICES ASSUME NEW k \in 1 .. N, NEW j \in DOMAIN inp.rels[k]
               PROVE  relThunk[k][j].idx <= Len(thunks) /\ pc # "scan"
    BY DEF IndicesBehind
  <2>1. relThunk[k][j].idx = 0 /\ Len(thunks) = 0 /\ pc # "scan"
    BY DEF Init, NoThunk
  <2> QED
    BY <2>1
<1> QED
  BY <1>2, <1>3, <1>4, <1>5, <1>6, <1>7, <1>8, <1>9, <1>10 DEF IInv

(* A branch that has found its way keeps it while placed members and       *)
(* finished thunks stay as they are.                                       *)
LEMMA BranchKept ==
  ASSUME Types, inp' = inp, d' \in Nat, d <= d',
         NEW k \in 1 .. d - 1, NEW j \in DOMAIN inp.rels[k],
         \A l \in 1 .. d - 1 : off'[l] = off[l],
         \A t \in DOMAIN thunks : Closed(t) =>
           t \in DOMAIN thunks' /\ thunks'[t] = thunks[t] /\ Closed(t)'
  PROVE  /\ Direct(k, j) => Direct(k, j)'
         /\ relThunk'[k][j] = relThunk[k][j] /\ Via(k, j) => Via(k, j)'
<1>1. k \in 1 .. N /\ d \in 1 .. N + 1 /\ N \in Nat
  BY InputFacts DEF Types
<1>2. From(k, j)' = From(k, j) /\ Target(k, j)' = Target(k, j)
  BY DEF From, Target
<1>3. Target(k, j) \in 0 .. N
  BY <1>1, BranchFacts
<1>4. ASSUME Direct(k, j) PROVE Direct(k, j)'
  <2>1. InRange(From(k, j), SymAddr(inp.rels[k][j].sym))
    BY <1>4 DEF Direct
  <2>2. CASE Stub(k, j) # 0
    <3>1. SymAddr(inp.rels[k][j].sym)' = SymAddr(inp.rels[k][j].sym)
      BY <2>2 DEF Stub, SymAddr
    <3> QED
      BY <1>2, <2>1, <2>2, <3>1 DEF Direct, Stub, InRange
  <2>3. CASE Stub(k, j) = 0
    <3>1. Target(k, j) \in 1 .. d - 1
      BY <1>1, <1>3, <1>4, <2>3 DEF Direct
    <3>2. off'[Target(k, j)] = off[Target(k, j)]
      BY <3>1
    <3>3. Target(k, j) < d'
      BY <3>1, <1>1
    <3>4. SymAddr(inp.rels[k][j].sym)' = SymAddr(inp.rels[k][j].sym)
      BY <3>2 DEF SymAddr, Target
    <3> QED
      BY <1>2, <2>1, <3>1, <3>3, <3>4 DEF Direct, InRange
  <2> QED
    BY <2>2, <2>3
<1>5. ASSUME relThunk'[k][j] = relThunk[k][j], Via(k, j) PROVE Via(k, j)'
  <2>1. relThunk[k][j].idx \in DOMAIN thunks /\ Closed(relThunk[k][j].idx)
    BY <1>5 DEF Via, HasEntry
  <2>2. /\ relThunk[k][j].idx \in DOMAIN thunks'
        /\ thunks'[relThunk[k][j].idx] = thunks[relThunk[k][j].idx]
        /\ Closed(relThunk[k][j].idx)'
    BY <1>5, <2>1 DEF Closed
  <2>3. ThunkAddr(relThunk[k][j])' = ThunkAddr(relThunk[k][j])
    BY <1>5, <2>2 DEF ThunkAddr
  <2> QED
    BY <1>2, <1>5, <2>2, <2>3 DEF Via, HasEntry
<1> QED
  BY <1>4, <1>5

LEMMA MoveDInv ==
  ASSUME IInv, WithinLimits, WithinLimits', MoveD
  PROVE  IInv'
<1> DEFINE p == PlacedAt(d)
<1>1. /\ inp' = inp /\ N' = N /\ inp \in Inputs /\ N \in Nat
      /\ inp.size \in [1 .. N -> Nat] /\ inp.align \in [1 .. N -> Nat \ {0}]
  BY InputFacts DEF MoveD, IInv, Types, N
<1>2. /\ pc = "D" /\ pc' = "D" /\ d \in 1 .. N /\ d' = d + 1
      /\ p + inp.size[d] < Limit
      /\ off' = [off EXCEPT ![d] = p] /\ offset' = p + inp.size[d]
      /\ off \in [1 .. N -> Nat] /\ offset \in Nat
      /\ b \in 1 .. N /\ b <= d
  <2>1. pc = "D" /\ pc' = "D" /\ d' = d + 1 /\ d <= N
    BY DEF MoveD, FitsD
  <2>2. p + inp.size[d] < Limit
    BY DEF MoveD, FitsD, Limit
  <2>3. off' = [off EXCEPT ![d] = p] /\ offset' = p + inp.size[d]
    BY DEF MoveD
  <2>4. d \in 1 .. N /\ off \in [1 .. N -> Nat] /\ offset \in Nat
    BY <2>1, <1>1 DEF IInv, Types
  <2>5. b \in 1 .. N /\ b <= d
    <3>1. b \in 1 .. N + 1 /\ b <= N /\ (b < d \/ b = d)
      BY <2>1 DEF IInv, Types, Cursors
    <3> QED
      BY <3>1, <2>4, <1>1
  <2> QED
    BY <2>1, <2>2, <2>3, <2>4, <2>5
<1>3. p \in Nat /\ offset <= p /\ p % inp.align[d] = 0 /\ (offset = 0 => p = 0)
  BY <1>1, <1>2, AlignFacts DEF PlacedAt
<1> HIDE DEF p
<1>4. Types'
  <2>1. off' \in [1 .. N -> Nat] /\ offset' \in Nat
    BY <1>1, <1>2, <1>3
  <2> QED
    BY <2>1, <1>1, <1>2 DEF MoveD, IInv, Types
<1>5. ThunkTypes'
  BY <1>1 DEF MoveD, IInv, ThunkTypes
<1>6. Cursors'
  BY <1>1, <1>2 DEF MoveD, IInv, Types, Cursors, Batched
<1>7. /\ \A k \in 1 .. N : off'[k] = IF k = d THEN p ELSE off[k]
      /\ \A k \in 1 .. d - 1 : off'[k] = off[k] /\ off[k] \in Nat
           /\ inp.size[k] \in Nat /\ k \in 1 .. N
      /\ inp.size[d] \in Nat /\ inp.align[d] \in Nat
  <2>1. \A k \in 1 .. N : off'[k] = IF k = d THEN p ELSE off[k]
    BY <1>2
  <2>2. inp.size[d] \in Nat /\ inp.align[d] \in Nat
    BY <1>1, <1>2
  <2>3. \A k \in 1 .. d - 1 : k \in 1 .. N /\ k # d
    BY <1>1, <1>2
  <2> QED
    BY <1>1, <1>2, <2>1, <2>2, <2>3
<1> PICK m \in 1 .. N : m = d
  BY <1>2
<1>8. /\ \A k \in 1 .. d - 1 : End(k)' = End(k) /\ End(k) \in Nat
      /\ End(m)' = offset' /\ offset' \in Nat /\ off'[m] = p
      /\ 1 .. d' - 1 = (1 .. d - 1) \cup {m} /\ d' - 1 = m
  <2>1. ASSUME NEW k \in 1 .. d - 1 PROVE End(k)' = End(k) /\ End(k) \in Nat
    <3>1. off'[k] = off[k] /\ off[k] \in Nat /\ inp.size[k] \in Nat
      BY <1>7
    <3>2. inp' = inp
      BY <1>1
    <3> QED
      BY <3>1, <3>2 DEF End
  <2>2. End(m)' = offset' /\ offset' \in Nat /\ off'[m] = p
    <3>1. off'[m] = p
      BY <1>7
    <3> QED
      <4>1. inp'.size[m] = inp.size[d] /\ inp.size[d] \in Nat /\ p \in Nat
        BY <1>1, <1>3, <1>7
      <4>2. offset' = p + inp.size[d]
        BY <1>2
      <4> QED
        BY <3>1, <4>1, <4>2 DEF End
  <2>3. 1 .. d' - 1 = (1 .. d - 1) \cup {m} /\ d' - 1 = m
    <3>1. d' - 1 = d
      BY <1>2
    <3>2. 1 .. d = (1 .. d - 1) \cup {d}
      BY <1>2
    <3> QED
      BY <3>1, <3>2
  <2> QED
    BY <2>1, <2>2, <2>3
<1>9. MembersPlaced'
  <2>1. \A k \in d' .. N : k # 1 => off'[k] = Unset
    BY <1>2, <1>7 DEF IInv, MembersPlaced
  <2>2. off'[1] = 0
    BY <1>1, <1>2, <1>3, <1>7 DEF IInv, MembersPlaced
  <2>3. \A k \in 1 .. d' - 1 : off'[k] % inp.align[k] = 0 /\ End(k)' <= offset'
    <3>1. ASSUME NEW k \in 1 .. d - 1
          PROVE  off'[k] % inp.align[k] = 0 /\ End(k)' <= offset'
      <4>1. off[k] % inp.align[k] = 0 /\ End(k) <= offset
        BY DEF IInv, MembersPlaced
      <4> QED
        <5>1. off'[k] = off[k] /\ End(k)' = End(k) /\ End(k) \in Nat
          BY <1>7, <1>8
        <5>2. offset \in Nat /\ offset' = p + inp.size[d] /\ inp.size[d] \in Nat
          BY <1>2, <1>7
        <5>3. offset <= offset'
          BY <5>2, <1>3
        <5> QED
          BY <4>1, <5>1, <5>2, <5>3, <1>8
    <3>2. off'[m] % inp.align[m] = 0 /\ End(m)' <= offset'
      BY <1>3, <1>8
    <3> QED
      BY <3>1, <3>2, <1>8
  <2>4. ASSUME NEW k \in 1 .. d' - 1, NEW l \in 1 .. d' - 1, k < l
        PROVE  End(k)' <= off'[l]
    <3>1. k \in 1 .. d - 1
      BY <2>4, <1>2
    <3>2. CASE l = m
      <4>1. End(k) <= offset
        BY <3>1 DEF IInv, MembersPlaced
      <4> QED
        BY <4>1, <3>1, <3>2, <1>2, <1>3, <1>8
    <3>3. CASE l # m
      <4>1. l \in 1 .. d - 1
        BY <3>3, <1>8
      <4>2. End(k) <= off[l]
        BY <2>4, <3>1, <4>1 DEF IInv, MembersPlaced
      <4> QED
        BY <4>1, <4>2, <3>1, <1>7, <1>8
    <3> QED
      BY <3>2, <3>3
  <2>5. d' # 1
    BY <1>2
  <2> QED
    BY <1>1, <2>1, <2>2, <2>3, <2>4, <2>5, Unset' = Unset DEF MembersPlaced, Unset
<1>10. ThunksPlaced'
  <2>1. /\ thunks' = thunks /\ \A t : Closed(t) /\ Closed(t)' /\ ThunkEnd(t)' = ThunkEnd(t)
    BY <1>2 DEF MoveD, Closed, ThunkEnd
  <2>2. \A t \in DOMAIN thunks : /\ thunks[t].offset \in Nat /\ ThunkEnd(t) \in Nat
                                 /\ ThunkEnd(t) <= offset
    BY <2>1, ThunkFacts DEF IInv, ThunksPlaced
  <2>3. \A t \in DOMAIN thunks : ThunkEnd(t) <= off'[d] /\ ThunkEnd(t) <= offset'
    <3>1. p <= offset'
      BY <1>2, <1>3, <1>7
    <3> QED
      BY <3>1, <2>2, <1>2, <1>3, <1>8, <1>7
  <2>4. \A k \in 1 .. d' - 1 : \A t \in DOMAIN thunks :
          End(k)' <= thunks[t].offset \/ ThunkEnd(t) <= off'[k]
    BY <2>1, <2>3, <1>7, <1>8 DEF IInv, ThunksPlaced
  <2> QED
    BY <1>2, <2>1, <2>3, <2>4 DEF IInv, ThunksPlaced
<1>11. Distances'
  <2>1. Limit' = Limit \/ b = d
    BY <1>1, <1>2, <1>7 DEF Limit, MoveD
  <2>2. b = d => d = 1 /\ off[1] = 0 /\ p = 0
    BY <1>1, <1>2, <1>3 DEF IInv, Cursors, MembersPlaced
  <2>3. Limit' = Limit
    BY <1>1, <1>2, <1>7, <2>1, <2>2 DEF Limit, MoveD
  <2>4. offset' <= Limit'
    <3>1. Limit \in Int
      BY <1>2, Bounds DEF Limit
    <3> QED
      BY <3>1, <1>2, <1>3, <1>7, <2>3
  <2>5. d' > 1
    BY <1>2
  <2>6. offset' = End(d - 1)'
    BY <1>8 DEF End
  <2> QED
    BY <2>4, <2>5, <2>6, <1>2 DEF Distances, Batched
<1>12. SymbolsIndexed'
  BY <1>2 DEF MoveD, IInv, SymbolsIndexed, HasEntry, Closed, Holds
<1>13. BranchesBound'
  <2>1. b' = b /\ relThunk' = relThunk /\ thunks' = thunks /\ d' >= d /\ d' \in Nat
    BY <1>2 DEF MoveD
  <2>2. \A t : Closed(t)'
    BY <1>2 DEF Closed
  <2>3. ASSUME NEW k \in 1 .. b - 1, NEW j \in DOMAIN inp.rels[k]
        PROVE  (Direct(k, j) => Direct(k, j)') /\ (Via(k, j) => Via(k, j)')
    <3>1. k \in 1 .. d - 1
      BY <1>1, <1>2
    <3> QED
      BY <3>1, <2>1, <2>2, <1>1, <1>2, <1>7, BranchKept DEF IInv
  <2> QED
    BY <2>1, <2>3, <1>1, <1>2 DEF IInv, BranchesBound
<1>14. IndicesBehind'
  BY <1>1, <1>2 DEF MoveD, IInv, IndicesBehind
<1> QED
  BY <1>4, <1>5, <1>6, <1>9, <1>10, <1>11, <1>12, <1>13, <1>14 DEF IInv

(* The steps that move C and A leave what is placed and who needs it. *)
LEMMA CursorStep ==
  ASSUME IInv, pc # "scan", pc' # "scan", pc' # "done",
         UNCHANGED <<inp, off, b, d, offset, thunks, thunkIdx, symThunk,
                     flagged, relThunk, next>>
  PROVE  /\ ThunkTypes' /\ MembersPlaced' /\ ThunksPlaced'
         /\ SymbolsIndexed' /\ BranchesBound' /\ IndicesBehind'
<1>1. N' = N /\ Unset' = Unset /\ N \in Nat
  BY InputFacts DEF N, Unset, IInv, Types
<1>2. ThunkTypes'
  BY <1>1 DEF IInv, ThunkTypes
<1>3. MembersPlaced'
  BY <1>1 DEF IInv, MembersPlaced, End
<1>4. \A t : Closed(t) /\ Closed(t)' /\ ThunkEnd(t)' = ThunkEnd(t)
  BY DEF Closed, ThunkEnd
<1>5. ThunksPlaced'
  BY <1>4 DEF IInv, ThunksPlaced, End
<1>6. SymbolsIndexed'
  BY <1>4 DEF IInv, SymbolsIndexed, HasEntry, Holds
<1>7. BranchesBound'
  <2>1. ASSUME NEW k \in 1 .. b - 1, NEW j \in DOMAIN inp.rels[k]
        PROVE  (Direct(k, j) => Direct(k, j)') /\ (Via(k, j) => Via(k, j)')
    BY <1>4 DEF Direct, Via, From, Target, Stub, SymAddr,
             HasEntry, ThunkAddr
  <2> QED
    BY <2>1, <1>1 DEF IInv, BranchesBound
<1>8. IndicesBehind'
  BY <1>1 DEF IInv, IndicesBehind
<1> QED
  BY <1>2, <1>3, <1>5, <1>6, <1>7, <1>8

LEMMA MoveCInv ==
  ASSUME IInv, WithinLimits, WithinLimits', MoveC
  PROVE  IInv'
<1> DEFINE S == {k \in b + 1 .. N : ~InBatch(k)} \cup {N + 1}
<1>1. /\ N' = N /\ inp \in Inputs /\ N \in Nat
      /\ inp.size \in [1 .. N -> Nat] /\ inp.align \in [1 .. N -> Nat \ {0}]
  BY InputFacts DEF MoveC, IInv, Types, N
<1>2. /\ pc = "D" /\ pc' = "A" /\ ~FitsD /\ c' = Min(S)
      /\ UNCHANGED <<inp, off, a, b, d, offset, thunks, thunkIdx, symThunk,
                     flagged, relThunk, next>>
  BY DEF MoveC
<1>3. /\ a \in 1 .. N + 1 /\ d \in 1 .. N + 1 /\ b \in 1 .. N /\ a <= b
      /\ b < d \/ (b = 1 /\ d = 1)
      /\ off \in [1 .. N -> Nat] /\ offset \in Nat
  <2>1. b <= N /\ a <= b /\ (b < d \/ (b = 1 /\ d = 1))
    BY <1>2 DEF IInv, Cursors
  <2> QED
    BY <1>1, <2>1 DEF IInv, Types
<1>4. c' \in S /\ \A k \in S : c' <= k
  <2>1. S \in SUBSET Nat /\ S # {}
    BY <1>1, <1>3
  <2> HIDE DEF S
  <2> QED
    BY <2>1, <1>2, MinFacts
<1>5. c' \in b + 1 .. N + 1
  BY <1>1, <1>3, <1>4
<1>6. \A k \in 1 .. N : inp.size[k] \in Nat /\ inp.align[k] \in Nat \ {0}
        /\ off[k] \in Nat /\ End(k) \in Nat
  BY SMTT(30), <1>1, <1>3 DEF End
<1>7. \A k, l \in 1 .. N : inp.size[k] + inp.size[l] + inp.align[l] + Alignment
                             + MaxThunkSize <= BatchSize
  BY DEF WithinLimits, MembersAreSmall
<1>8. \A k \in 1 .. d - 1 : InBatch(k) <=> End(k) < off[b] + BatchSize
  <2> SUFFICES ASSUME NEW k \in 1 .. d - 1
               PROVE  InBatch(k) <=> End(k) < off[b] + BatchSize
    OBVIOUS
  <2>1. End(k) \in 0 .. U32 - 1
    BY PlacedFacts, Bounds DEF IInv
  <2>2. End(k) % U32 = End(k)
    BY <2>1, Bounds
  <2> QED
    BY <2>2 DEF InBatch, End
<1>9. d <= N => /\ Limit < offset + inp.align[d] + inp.size[d]
                /\ d > 1 /\ offset = End(d - 1)
  <2> SUFFICES ASSUME d <= N
               PROVE  /\ Limit < offset + inp.align[d] + inp.size[d]
                      /\ d > 1 /\ offset = End(d - 1)
    OBVIOUS
  <2>0. d \in 1 .. N /\ inp.size[d] \in Nat /\ inp.align[d] \in Nat \ {0}
    BY <1>1, <1>3, <1>6
  <2>2. PlacedAt(d) < offset + inp.align[d] /\ PlacedAt(d) \in Nat
    BY <2>0, <1>3, AlignFacts DEF PlacedAt
  <2>1. Limit <= PlacedAt(d) + inp.size[d] /\ Limit \in Int
    <3>1. Limit \in Int
      BY <1>3, Bounds DEF Limit
    <3> QED
      BY <1>2, <3>1, <2>0, <2>2 DEF FitsD, Limit
  <2>3. Limit < offset + inp.align[d] + inp.size[d]
    <3> DEFINE x == PlacedAt(d)
               y == inp.align[d]
               z == inp.size[d]
    <3>1. x \in Nat /\ y \in Nat /\ z \in Nat /\ offset \in Nat
      BY <2>0, <2>2, <1>3
    <3>2. Limit \in Int /\ Limit <= x + z /\ x < offset + y
      BY <2>1, <2>2
    <3> HIDE DEF x, y, z
    <3>3. Limit < offset + y + z
      BY <3>1, <3>2
    <3> QED
      BY <3>3 DEF y, z
  <2>4. \/ d > 1 /\ offset = End(d - 1)
        \/ offset + inp.align[d] + inp.size[d] <= Limit
    BY <1>2 DEF IInv, Distances
  <2> QED
    BY <2>0, <2>1, <2>3, <2>4, <1>3
<1>10. b < d
  <2> SUFFICES ASSUME b = 1, d = 1 PROVE FALSE
    BY <1>3
  <2> QED
    BY <1>1, <1>3, <1>9
<1>11. d <= N => d - 1 \in S
  <2> SUFFICES ASSUME d <= N PROVE d - 1 \in S
    OBVIOUS
  <2>0. d \in 1 .. N /\ off[b] \in Nat /\ d - 1 \in 1 .. N
    <3>1. d > 1 /\ d \in 1 .. N
      BY <1>1, <1>3, <1>9
    <3> QED
      BY <3>1, <1>1, <1>3
  <2>1. inp.size[d] + inp.size[d] + inp.align[d] + Alignment + MaxThunkSize
          <= BatchSize
    BY <2>0, <1>7
  <2>2. off[b] + BatchSize <= End(d - 1)
    <3>1. inp.size[d] \in Nat /\ inp.align[d] \in Nat
      BY <2>0, <1>6
    <3>2. Limit < End(d - 1) + inp.align[d] + inp.size[d] /\ End(d - 1) \in Nat
      BY <2>0, <1>6, <1>9
    <3> QED
      BY <2>0, <2>1, <3>1, <3>2, Bounds DEF Limit
  <2>3. d - 1 # b
    <3>1. inp.size[b] + inp.size[b] + inp.align[b] + Alignment + MaxThunkSize
            <= BatchSize
      BY <1>3, <1>7
    <3>2. inp.size[b] \in Nat /\ inp.align[b] \in Nat
      BY <1>3, <1>6
    <3>3. inp.size[b] < BatchSize
      BY <3>1, <3>2, Bounds
    <3>4. End(b) < off[b] + BatchSize
      BY <2>0, <3>2, <3>3, Bounds DEF End
    <3>5. End(b) \in Nat
      BY <1>3, <1>6
    <3> QED
      BY <2>0, <2>2, <3>4, <3>5, Bounds
  <2>4. d - 1 \in b + 1 .. N /\ d - 1 \in 1 .. d - 1
    BY <2>0, <2>3, <1>1, <1>3, <1>10
  <2>5. ~InBatch(d - 1)
    BY <2>2, <2>4, <1>3, <1>6, <1>8, Bounds
  <2> QED
    BY <2>4, <2>5
<1>12. c' < d \/ (c' = N + 1 /\ d = N + 1)
  <2>1. CASE d <= N
    BY <2>1, <1>3, <1>4, <1>5, <1>11
  <2>2. CASE d = N + 1
    BY <2>2, <1>1, <1>5
  <2> QED
    BY <2>1, <2>2, <1>1, <1>3
<1>13. c' <= N => off[b] + BatchSize <= off[c'] + inp.size[c']
  <2> SUFFICES ASSUME c' <= N
               PROVE  off[b] + BatchSize <= off[c'] + inp.size[c']
    OBVIOUS
  <2>1. c' \in 1 .. d - 1 /\ c' \in 1 .. N
    BY <1>1, <1>3, <1>5, <1>12
  <2>2. ~InBatch(c')
    BY <1>1, <1>4
  <2>3. ~ (End(c') < off[b] + BatchSize)
    BY <2>1, <2>2, <1>8
  <2> QED
    BY <2>1, <2>3, <1>3, <1>6, Bounds DEF End
<1> HIDE DEF S
<1>14. Types'
  BY <1>1, <1>2, <1>3, <1>5 DEF IInv, Types
<1>15. Cursors'
  <2>1. a' <= b' /\ b' <= c' /\ b' < c' /\ b' < d'
    BY <1>2, <1>3, <1>5, <1>10
  <2> QED
    BY <2>1, <1>1, <1>2, <1>12 DEF Cursors, Batched
<1>16. Distances'
  <2>1. offset <= Limit /\ Limit' = Limit
    BY <1>2 DEF IInv, Distances, Limit
  <2> QED
    BY <2>1, <1>1, <1>2, <1>13 DEF Distances, End, Batched
<1> QED
  BY <1>2, <1>14, <1>15, <1>16, CursorStep DEF IInv

LEMMA MoveAInv ==
  ASSUME IInv, WithinLimits, WithinLimits', MoveA
  PROVE  IInv'
<1> DEFINE S == {k \in a .. N : off[k] + MaxDistance >= COffset} \cup {N + 1}
<1>1. /\ N' = N /\ inp \in Inputs /\ N \in Nat /\ inp.size \in [1 .. N -> Nat]
  BY InputFacts DEF MoveA, IInv, Types, N
<1>2. /\ pc = "A" /\ pc' = "reset" /\ a' = Min(S)
      /\ UNCHANGED <<inp, off, b, c, d, offset, thunks, thunkIdx, symThunk,
                     flagged, relThunk, next>>
  BY DEF MoveA
<1>3. /\ a \in 1 .. N + 1 /\ d \in 1 .. N + 1 /\ b \in 1 .. N + 1
      /\ c \in 1 .. N + 1 /\ off \in [1 .. N -> Nat] /\ offset \in Nat
      /\ a <= b /\ b < c /\ b < d
      /\ c < d \/ (c = N + 1 /\ d = N + 1)
  BY <1>2 DEF IInv, Types, Cursors, Batched
<1>4. b \in 1 .. N /\ b \in a .. N
  BY <1>1, <1>3
<1>5. \A k \in 1 .. d - 1 : /\ k \in 1 .. N /\ off[k] \in Nat /\ End(k) \in Nat
                            /\ off[k] <= End(k) /\ End(k) <= offset
  BY SMTT(30), <1>1, <1>3 DEF IInv, MembersPlaced, End
<1>6. COffset \in Nat /\ COffset <= offset
  <2>1. CASE c = N + 1
    BY <2>1, <1>3 DEF COffset
  <2>2. CASE c # N + 1
    <3>1. c \in 1 .. d - 1
      BY <2>2, <1>3
    <3> QED
      BY <2>2, <3>1, <1>3, <1>5 DEF COffset
  <2> QED
    BY <2>1, <2>2
<1>7. \A k \in Group : k \in 1 .. d - 1 /\ End(k) <= COffset
  <2> SUFFICES ASSUME NEW k \in Group PROVE k \in 1 .. d - 1 /\ End(k) <= COffset
    OBVIOUS
  <2>1. k \in 1 .. d - 1 /\ k < c
    BY <1>3 DEF Group
  <2>2. CASE c = N + 1
    BY <2>1, <2>2, <1>5 DEF COffset
  <2>3. CASE c # N + 1
    <3>1. c \in 1 .. d - 1
      BY <2>3, <1>3
    <3>2. End(k) <= off[c]
      BY <2>1, <3>1 DEF IInv, MembersPlaced
    <3> QED
      BY <2>1, <2>3, <3>2 DEF COffset
  <2> QED
    BY <2>2, <2>3
<1>8. offset <= Limit
  BY <1>2 DEF IInv, Distances
<1>9. b \in S
  <2>1. COffset <= off[b] + MaxDistance
    BY <1>3, <1>4, <1>6, <1>8, Bounds DEF Limit
  <2> QED
    BY <1>3, <1>4, <1>6, <2>1, Bounds
<1>10. a' \in S /\ a' <= b
  <2>1. S \in SUBSET Nat /\ S # {}
    BY <1>1, <1>3
  <2> HIDE DEF S
  <2> QED
    BY <2>1, <1>2, <1>9, MinFacts
<1>11. a' \in 1 .. N /\ COffset <= off[a'] + MaxDistance /\ a' < d /\ a' \in 1 .. d - 1
  <2>1. a' # N + 1
    BY <1>1, <1>4, <1>10
  <2>2. a' \in a .. N /\ off[a'] + MaxDistance >= COffset
    BY <1>10, <2>1
  <2>3. a' \in 1 .. N /\ a' < d
    BY <2>2, <1>3, <1>10, <1>4
  <2> QED
    BY <2>2, <2>3, <1>3, <1>6, Bounds
<1> HIDE DEF S
<1>12. Types'
  BY <1>1, <1>2, <1>3, <1>11 DEF IInv, Types
<1>13. Cursors'
  BY <1>1, <1>2, <1>3, <1>10 DEF Cursors, Batched
<1>14. Distances'
  <2>1. Limit' = Limit /\ Group' = Group /\ \A k : End(k)' = End(k)
    BY <1>2 DEF Limit, Group, End
  <2>2. \A k \in Group : End(k) <= off[a'] + MaxDistance
    <3>1. off[a'] \in Nat
      BY <1>3, <1>11
    <3> QED
      BY <3>1, <1>5, <1>6, <1>7, <1>11, Bounds
  <2>3. c <= N => off[b] + BatchSize <= End(c)
    BY <1>2 DEF IInv, Distances, Batched
  <2> QED
    BY <2>1, <2>2, <2>3, <1>1, <1>2, <1>8, <1>11 DEF Distances, End
<1> QED
  BY <1>2, <1>12, <1>13, <1>14, CursorStep DEF IInv

-----------------------------------------------------------------------------
(***************************************************************************)
(* A new thunk, and the end of the pass.                                   *)
(***************************************************************************)
(* reset_thunk on the thunks before i: what keeps an index has its entry   *)
(* in a thunk from i on, and loses index and flag together otherwise.      *)
LEMMA ResetFacts ==
  ASSUME ThunkTypes, SymbolsIndexed, pc # "scan",
         NEW i \in thunkIdx .. Len(thunks) + 1, ResetUpTo(i)
  PROVE  /\ symThunk' \in [Sym -> Index] /\ flagged' \subseteq Sym
         /\ \A s \in Sym : symThunk'[s] # NoThunk =>
              /\ symThunk'[s] = symThunk[s] /\ HasEntry(symThunk[s], s)
              /\ i <= symThunk[s].idx /\ s \in flagged'
         /\ \A s \in flagged' : symThunk'[s] # NoThunk
         /\ \A t \in i .. Len(thunks) : \A s \in Sym :
              Holds(t, s) => symThunk'[s].idx = t
<1> DEFINE gone == UNION {Range(thunks[t].symbols) : t \in thunkIdx .. i - 1}
<1>1. /\ symThunk' = [s \in Sym |-> IF s \in gone THEN NoThunk ELSE symThunk[s]]
      /\ flagged' = flagged \ gone
  BY DEF ResetUpTo
<1>2. \A s : s \in gone <=> \E t \in thunkIdx .. i - 1 : Holds(t, s)
  BY DEF Range, Holds
<1> HIDE DEF gone
<1>3. /\ Len(thunks) \in Nat /\ thunkIdx \in 1 .. Len(thunks) + 1
      /\ DOMAIN thunks = 1 .. Len(thunks) /\ i \in 1 .. Len(thunks) + 1
  BY DEF ThunkTypes
<1>4. \A t : Closed(t)
  BY DEF Closed
<1>5. NoThunk \in Index /\ symThunk \in [Sym -> Index] /\ flagged \subseteq Sym
  BY DEF NoThunk, Index, ThunkTypes
<1>6. symThunk' \in [Sym -> Index] /\ flagged' \subseteq Sym
  BY <1>1, <1>5
<1>7. ASSUME NEW s \in Sym, symThunk'[s] # NoThunk
      PROVE  /\ symThunk'[s] = symThunk[s] /\ HasEntry(symThunk[s], s)
             /\ i <= symThunk[s].idx /\ s \in flagged'
  <2>1. s \notin gone /\ symThunk'[s] = symThunk[s] /\ symThunk[s] # NoThunk
    BY <1>1, <1>7
  <2>2. HasEntry(symThunk[s], s) /\ thunkIdx <= symThunk[s].idx /\ s \in flagged
    BY <2>1 DEF SymbolsIndexed
  <2>3. Holds(symThunk[s].idx, s) /\ symThunk[s].idx \in 1 .. Len(thunks)
    BY <2>2, <1>3 DEF HasEntry, Holds
  <2>4. symThunk[s].idx \notin thunkIdx .. i - 1
    BY <2>1, <2>3, <1>2
  <2> QED
    BY <2>1, <2>2, <2>3, <2>4, <1>1, <1>3
<1>8. ASSUME NEW s \in flagged' PROVE symThunk'[s] # NoThunk
  <2>1. s \in flagged /\ s \notin gone /\ s \in Sym
    BY <1>1, <1>5
  <2>2. symThunk[s] # NoThunk
    BY <2>1 DEF SymbolsIndexed
  <2> QED
    BY <2>1, <2>2, <1>1
<1>9. ASSUME NEW t \in i .. Len(thunks), NEW s \in Sym, Holds(t, s)
      PROVE  symThunk'[s].idx = t
  <2>1. t \in thunkIdx .. Len(thunks) /\ symThunk[s].idx = t
    BY <1>3, <1>4, <1>9 DEF SymbolsIndexed
  <2>2. s \notin gone
    <3> SUFFICES ASSUME NEW u \in thunkIdx .. i - 1, Holds(u, s) PROVE FALSE
      BY <1>2
    <3>1. symThunk[s].idx = u
      BY <1>3, <1>4 DEF SymbolsIndexed
    <3> QED
      BY <2>1, <3>1, <1>3
  <2> QED
    BY <2>1, <2>2, <1>1
<1> QED
  BY <1>6, <1>7, <1>8, <1>9

LEMMA ResetAllInv ==
  ASSUME IInv, WithinLimits, WithinLimits', ResetAll
  PROVE  IInv'
<1> DEFINE i == Len(thunks) + 1
<1>1. /\ pc = "end" /\ pc' = "done" /\ ResetUpTo(i) /\ thunkIdx' = i
      /\ UNCHANGED <<inp, off, a, b, c, d, offset, thunks, relThunk, next>>
  BY DEF ResetAll, ResetUpTo
<1>2. N' = N /\ Unset' = Unset /\ N \in Nat
  BY <1>1, InputFacts DEF N, Unset, IInv, Types
<1>3. Len(thunks) \in Nat /\ i \in thunkIdx .. Len(thunks) + 1 /\ i \in 1 .. i
  BY DEF IInv, ThunkTypes
<1> HIDE DEF i
<1>4. /\ symThunk' \in [Sym -> Index] /\ flagged' \subseteq Sym
      /\ \A s \in Sym : symThunk'[s] # NoThunk =>
           HasEntry(symThunk[s], s) /\ i <= symThunk[s].idx
      /\ \A s \in flagged' : symThunk'[s] # NoThunk
  BY <1>1, <1>3, ResetFacts DEF IInv
<1>5. \A s \in Sym : symThunk'[s] = NoThunk
  <2> SUFFICES ASSUME NEW s \in Sym, symThunk'[s] # NoThunk PROVE FALSE
    OBVIOUS
  <2>1. symThunk[s].idx \in 1 .. Len(thunks) /\ i <= symThunk[s].idx
    BY <1>4 DEF HasEntry, IInv, ThunkTypes
  <2> QED
    BY <2>1, <1>3 DEF i
<1>6. flagged' = {}
  BY <1>4, <1>5
<1>7. Types' /\ Cursors'
  BY <1>1, <1>2 DEF IInv, Types, Cursors, Batched
<1>8. ThunkTypes'
  BY <1>1, <1>2, <1>3, <1>4 DEF IInv, ThunkTypes, i
<1>9. MembersPlaced'
  BY <1>1, <1>2 DEF IInv, MembersPlaced, End
<1>10. \A t : Closed(t) /\ Closed(t)' /\ ThunkEnd(t)' = ThunkEnd(t)
  BY <1>1 DEF Closed, ThunkEnd
<1>11. ThunksPlaced'
  BY <1>1, <1>10 DEF IInv, ThunksPlaced, End
<1>12. Distances'
  BY <1>1 DEF Distances, Batched
<1>13. SymbolsIndexed'
  <2>1. thunkIdx' = Len(thunks') + 1
    BY <1>1 DEF i
  <2>2. thunkIdx' .. Len(thunks') = {}
    BY <2>1, <1>1, <1>3
  <2> QED
    BY <1>1, <1>5, <1>6, <2>1, <2>2, NoThunk' = NoThunk DEF SymbolsIndexed, NoThunk
<1>14. BranchesBound'
  <2>1. ASSUME NEW k \in 1 .. b - 1, NEW j \in DOMAIN inp.rels[k]
        PROVE  (Direct(k, j) => Direct(k, j)') /\ (Via(k, j) => Via(k, j)')
    BY <1>1, <1>10 DEF Direct, Via, From, Target, Stub, SymAddr,
             HasEntry, ThunkAddr
  <2> QED
    BY <2>1, <1>1, <1>2 DEF IInv, BranchesBound
<1>15. IndicesBehind'
  BY <1>1, <1>2 DEF IInv, IndicesBehind
<1> QED
  BY <1>7, <1>8, <1>9, <1>11, <1>12, <1>13, <1>14, <1>15 DEF IInv

LEMMA StartThunkInv ==
  ASSUME IInv, WithinLimits, WithinLimits', StartThunk
  PROVE  IInv'
<1> DEFINE n == Len(thunks)
           S == {t \in thunkIdx .. n : thunks[t].offset >= off[a]} \cup {n + 1}
           i == Min(S)
<1>1. /\ pc = "reset" /\ pc' = "scan" /\ offset' = AlignTo(offset, Alignment)
      /\ thunks' = Append(thunks, [offset |-> offset', symbols |-> <<>>])
      /\ next' = [k \in 1 .. N |-> 1]
      /\ UNCHANGED <<inp, off, a, b, c, d, relThunk>>
  BY DEF StartThunk
<1>2. N' = N /\ Unset' = Unset /\ N \in Nat
  BY <1>1, InputFacts DEF N, Unset, IInv, Types
<1>3. /\ a \in 1 .. N + 1 /\ b \in 1 .. N + 1 /\ c \in 1 .. N + 1
      /\ d \in 1 .. N + 1 /\ off \in [1 .. N -> Nat] /\ offset \in Nat
      /\ a <= b /\ b < c /\ b < d /\ a < d
  BY <1>1 DEF IInv, Types, Cursors, Batched, Distances
<1>4. a \in 1 .. N /\ b \in 1 .. N /\ off[a] \in Nat /\ off[b] \in Nat
  BY <1>2, <1>3
<1>5. ResetUpTo(i) /\ thunkIdx' = i
  <2>1. OffsetOfA = {off[a]}
    BY <1>4 DEF OffsetOfA
  <2>2. ResetUpTo(i)
    BY <2>1 DEF StartThunk
  <2> QED
    BY <2>2 DEF ResetUpTo
<1>6. /\ n \in Nat /\ DOMAIN thunks = 1 .. n /\ thunkIdx \in 1 .. n + 1
      /\ \A t \in 1 .. n : thunks[t].offset \in Nat /\ ThunkEnd(t) \in Nat
                           /\ thunks[t].offset <= ThunkEnd(t)
  BY ThunkFacts DEF IInv, ThunkTypes
<1>7. i \in S
  <2>1. S \in SUBSET Nat /\ S # {}
    BY <1>6
  <2> HIDE DEF S
  <2> QED
    BY <2>1, MinFacts
<1>8. i \in thunkIdx .. n + 1 /\ i \in 1 .. n + 1
      /\ (i = n + 1 \/ (i \in 1 .. n /\ off[a] <= thunks[i].offset))
  <2> HIDE DEF i
  <2>1. i = n + 1 \/ (i \in thunkIdx .. n /\ thunks[i].offset >= off[a])
    BY <1>7
  <2> HIDE DEF S, n
  <2>2. i \in thunkIdx .. n + 1 /\ i \in 1 .. n + 1 /\ (i = n + 1 \/ i \in 1 .. n)
    BY <2>1, <1>6
  <2>3. i # n + 1 => off[a] <= thunks[i].offset
    BY <2>1, <2>2, <1>4, <1>6
  <2> QED
    BY <2>2, <2>3
<1> HIDE DEF S, i
<1>9. /\ offset' \in Nat /\ offset <= offset' /\ offset' < offset + Alignment
  BY <1>1, <1>3, Bounds, AlignFacts
<1>10. /\ thunks' \in Seq(Thunk) /\ Len(thunks') = n + 1
       /\ \A t \in 1 .. n : thunks'[t] = thunks[t]
       /\ thunks'[n + 1].offset = offset' /\ thunks'[n + 1].symbols = <<>>
       /\ DOMAIN thunks' = 1 .. n + 1
  <2>1. [offset |-> offset', symbols |-> <<>>] \in Thunk
    BY <1>9 DEF Thunk
  <2>2. thunks \in Seq(Thunk)
    BY DEF IInv, ThunkTypes
  <2> QED
    BY <1>1, <2>1, <2>2
<1>11. /\ \A t \in 1 .. n : Closed(t) /\ Closed(t)' /\ ThunkEnd(t)' = ThunkEnd(t)
       /\ \A t \in 1 .. n + 1 : Closed(t)' => t \in 1 .. n
  BY <1>1, <1>6, <1>10 DEF Closed, ThunkEnd
<1>12. \A k \in 1 .. d - 1 : End(k)' = End(k) /\ End(k) \in Nat /\ End(k) <= offset
         /\ off[k] \in Nat /\ k \in 1 .. N
  BY <1>1, PlacedFacts DEF IInv, End, MembersPlaced
<1>13. /\ symThunk' \in [Sym -> Index] /\ flagged' \subseteq Sym
       /\ \A s \in Sym : symThunk'[s] # NoThunk =>
            /\ symThunk'[s] = symThunk[s] /\ HasEntry(symThunk[s], s)
            /\ i <= symThunk[s].idx /\ s \in flagged'
       /\ \A s \in flagged' : symThunk'[s] # NoThunk
       /\ \A t \in i .. n : \A s \in Sym : Holds(t, s) => symThunk'[s].idx = t
  BY <1>1, <1>5, <1>8, ResetFacts DEF IInv
<1>14. Types' /\ Cursors'
  BY <1>1, <1>2, <1>9 DEF IInv, Types, Cursors, Batched
<1>15. ThunkTypes'
  <2>1. next' \in [1 .. N -> Nat \ {0}]
    BY <1>1
  <2>2. thunkIdx' \in 1 .. Len(thunks') + 1
    BY <1>5, <1>6, <1>8, <1>10
  <2> QED
    BY <1>1, <1>2, <1>10, <1>13, <2>1, <2>2 DEF IInv, ThunkTypes
<1>16. MembersPlaced'
  <2>1. d # 1
    BY <1>2, <1>3
  <2>2. \A k \in 1 .. d - 1 : End(k)' <= offset'
    BY <1>3, <1>9, <1>12
  <2> QED
    BY <1>1, <1>2, <1>12, <2>1, <2>2 DEF IInv, MembersPlaced
<1>17. ThunksPlaced'
  <2>1. \A t \in 1 .. n : ThunkEnd(t) <= offset'
    <3> SUFFICES ASSUME NEW t \in 1 .. n PROVE ThunkEnd(t) <= offset'
      OBVIOUS
    <3>1. ThunkEnd(t) <= offset /\ ThunkEnd(t) \in Nat
      BY <1>6, <1>11 DEF IInv, ThunksPlaced
    <3> QED
      BY <3>1, <1>3, <1>9
  <2>2. \A t, u \in 1 .. n + 1 : t < u => ThunkEnd(t)' <= thunks'[u].offset
    <3> SUFFICES ASSUME NEW t \in 1 .. n + 1, NEW u \in 1 .. n + 1, t < u
                 PROVE  ThunkEnd(t)' <= thunks'[u].offset
      OBVIOUS
    <3>1. t \in 1 .. n
      BY <1>6
    <3>2. CASE u = n + 1
      BY <2>1, <3>1, <3>2, <1>10, <1>11
    <3>3. CASE u # n + 1
      <4>1. u \in 1 .. n
        <5>1. n \in Nat
          BY <1>6
        <5> HIDE DEF n
        <5> QED
          BY <3>3, <5>1
      <4> QED
        BY <3>1, <4>1, <1>6, <1>10, <1>11 DEF IInv, ThunksPlaced
    <3> QED
      BY <3>2, <3>3
  <2>3. ASSUME NEW k \in 1 .. d - 1, NEW t \in 1 .. n + 1
        PROVE  End(k)' <= thunks'[t].offset
                 \/ (Closed(t)' /\ ThunkEnd(t)' <= off'[k])
    <3>1. CASE t = n + 1
      BY <3>1, <1>3, <1>9, <1>10, <1>12
    <3>2. CASE t # n + 1
      <4>1. t \in 1 .. n
        BY <3>2, <1>6
      <4> QED
        BY <4>1, <1>1, <1>6, <1>10, <1>11, <1>12 DEF IInv, ThunksPlaced
    <3> QED
      BY <3>1, <3>2
  <2>4. thunks' # <<>> /\ thunks'[Len(thunks')].offset = offset'
    BY <1>6, <1>10
  <2> QED
    BY <1>1, <1>10, <1>11, <2>1, <2>2, <2>3, <2>4 DEF ThunksPlaced
<1>18. Distances'
  <2>1. Limit' = Limit /\ Group' = Group /\ Limit \in Int /\ offset <= Limit
    BY <1>1, <1>4, Bounds DEF Limit, Group, IInv, Distances
  <2>2. offset' <= Limit' + Alignment
    BY <2>1, <1>3, <1>9, Bounds
  <2>3. c <= N => off[b] + BatchSize <= End(c)
    BY <1>1 DEF IInv, Distances, Batched
  <2>4. \A k \in Group : k \in 1 .. d - 1
    BY <1>1, <1>2, <1>3 DEF Group, IInv, Cursors, Batched
  <2>5. ASSUME NEW t \in thunkIdx' .. n + 1, NEW k \in Group
        PROVE  End(k)' <= thunks'[t].offset + MaxDistance
    <3>1. t \in i .. n + 1 /\ End(k) <= off[a] + MaxDistance
      BY <1>1, <1>5 DEF IInv, Distances
    <3>2. CASE t = n + 1
      <4>1. thunks'[t].offset = offset'
        BY <3>2, <1>10
      <4>2. End(k)' = End(k) /\ End(k) \in Nat /\ End(k) <= offset
        BY <2>4, <1>12
      <4> QED
        BY <4>1, <4>2, <1>3, <1>9, Bounds
    <3>3. CASE t # n + 1
      <4>1. t \in 1 .. n /\ i \in 1 .. n /\ i <= t
        BY <3>1, <3>3, <1>6, <1>8
      <4>2. off[a] <= thunks[t].offset
        <5>1. off[a] <= thunks[i].offset
          BY <4>1, <1>6, <1>8
        <5>2. i < t => ThunkEnd(i) <= thunks[t].offset
          BY <4>1, <1>6 DEF IInv, ThunksPlaced
        <5>3. thunks[i].offset \in Nat /\ ThunkEnd(i) \in Nat
                /\ thunks[i].offset <= ThunkEnd(i) /\ thunks[t].offset \in Nat
          BY <4>1, <1>6
        <5>4. i = t \/ i < t
          BY <4>1
        <5> QED
          BY <5>1, <5>2, <5>3, <5>4, <1>4
      <4>3. End(k) \in Nat /\ End(k)' = End(k) /\ thunks'[t] = thunks[t]
        BY <2>4, <4>1, <1>10, <1>12
      <4> QED
        <5>1. /\ thunks[t].offset \in Nat /\ off[a] \in Nat /\ MaxDistance \in Nat
              /\ End(k) <= off[a] + MaxDistance
          BY <3>1, <4>1, <1>4, <1>6, Bounds
        <5>2. End(k) <= thunks[t].offset + MaxDistance
          BY <5>1, <4>2, <4>3, WithinSum
        <5> QED
          BY <5>2, <4>3
    <3> QED
      BY <3>2, <3>3
  <2> QED
    BY <1>1, <1>2, <1>10, <2>1, <2>2, <2>3, <2>5 DEF Distances, Batched, End
<1>19. SymbolsIndexed'
  <2>1. \A t \in 1 .. n : \A s : Holds(t, s)' <=> Holds(t, s)
    BY <1>10 DEF Holds
  <2>2. \A s : ~ (Holds(Len(thunks), s)')
    BY <1>10 DEF Holds
  <2>3. ASSUME NEW s \in Sym, symThunk'[s] # NoThunk
        PROVE  /\ HasEntry(symThunk[s], s)' /\ thunkIdx' <= symThunk'[s].idx
               /\ Closed(symThunk[s].idx)' /\ s \in flagged'
    <3>1. /\ symThunk'[s] = symThunk[s] /\ HasEntry(symThunk[s], s)
          /\ i <= symThunk[s].idx /\ s \in flagged'
      BY <1>13, <2>3
    <3>2. symThunk[s].idx \in 1 .. n
      BY <3>1, <1>6 DEF HasEntry
    <3>3. symThunk'[s].idx \in 1 .. n /\ thunks'[symThunk'[s].idx] = thunks[symThunk[s].idx]
      BY <3>1, <3>2, <1>10
    <3>4. Closed(symThunk[s].idx)'
      BY <3>3, <1>6, <1>10 DEF Closed
    <3>5. HasEntry(symThunk[s], s)'
      BY <3>1, <3>3, <1>6, <1>10 DEF HasEntry
    <3> QED
      BY <3>1, <3>4, <3>5, <1>5
  <2>4. ASSUME NEW t \in thunkIdx' .. Len(thunks'), NEW s \in Sym,
               Closed(t)', Holds(t, s)'
        PROVE  symThunk'[s].idx = t
    <3>1. t \in 1 .. n /\ t \in i .. n
      BY <2>4, <1>5, <1>6, <1>8, <1>10, <1>11
    <3> QED
      BY <2>1, <2>4, <3>1, <1>13
  <2>5. thunkIdx' <= Len(thunks')
    BY <1>5, <1>6, <1>8, <1>10
  <2> QED
    BY <1>1, <1>13, <2>2, <2>3, <2>4, <2>5, NoThunk' = NoThunk
    DEF SymbolsIndexed, NoThunk
<1>20. BranchesBound'
  <2>1. ASSUME NEW k \in 1 .. b - 1, NEW j \in DOMAIN inp.rels[k]
        PROVE  (Direct(k, j) => Direct(k, j)') /\ (Via(k, j) => Via(k, j)')
    <3>1. k \in 1 .. d - 1 /\ d' \in Nat /\ d <= d'
      BY <1>1, <1>2, <1>3
    <3> QED
      BY <3>1, <1>1, <1>6, <1>10, <1>11, BranchKept DEF IInv
  <2>2. \A k \in Group : next'[k] = 1
    BY <1>1, <1>2, <1>3 DEF Group
  <2>3. \A k \in 1 .. N : \A j \in DOMAIN inp.rels[k] : ~ (j < 1)
    <3> SUFFICES ASSUME NEW k \in 1 .. N, NEW j \in DOMAIN inp.rels[k]
                 PROVE  ~ (j < 1)
      OBVIOUS
    <3>1. inp.rels[k] \in Seq([off : Nat, sym : Sym])
      BY InputFacts DEF IInv, Types
    <3> QED
      BY <3>1
  <2>4. Group \subseteq 1 .. N /\ Group' = Group
    BY <1>1, <1>2, <1>3 DEF Group
  <2> QED
    BY <1>1, <2>1, <2>2, <2>3, <2>4 DEF IInv, BranchesBound
<1>21. IndicesBehind'
  <2> SUFFICES ASSUME NEW k \in 1 .. N, NEW j \in DOMAIN inp.rels[k]
               PROVE  relThunk'[k][j].idx < Len(thunks')
    <3>1. \A k \in 1 .. N : \A j \in DOMAIN inp.rels[k] : relThunk'[k][j].idx \in Nat
      BY <1>1, <1>2, <1>15 DEF ThunkTypes, Index
    <3>2. Len(thunks') \in Nat
      BY <1>6, <1>10
    <3> QED
      BY <3>1, <3>2, <1>1, <1>2 DEF IndicesBehind
  <2>1. relThunk[k][j] \in Index
    BY DEF IInv, ThunkTypes
  <2>2. relThunk[k][j].idx \in Nat /\ relThunk[k][j].idx <= n
    BY <2>1 DEF IInv, IndicesBehind, Index
  <2> QED
    BY <2>2, <1>1, <1>6, <1>10
<1> QED
  BY <1>14, <1>15, <1>16, <1>17, <1>18, <1>19, <1>20, <1>21 DEF IInv

-----------------------------------------------------------------------------
(***************************************************************************)
(* The parallel scan.                                                      *)
(***************************************************************************)
(* An entry lies within its thunk. *)
LEMMA EntryFacts ==
  ASSUME NEW o \in Nat, NEW n \in Nat, NEW p \in 1 .. n
  PROVE  /\ o + (p - 1) * EntrySize \in Nat /\ o + n * EntrySize \in Nat
         /\ o <= o + (p - 1) * EntrySize
         /\ o + (p - 1) * EntrySize < o + n * EntrySize
<1>1. p - 1 \in Nat /\ (p - 1) + 1 <= n /\ (p - 1) + 1 \in Nat
  OBVIOUS
<1>2. (p - 1) * EntrySize \in Nat /\ n * EntrySize \in Nat
  BY <1>1, Bounds, MulNat
<1>3. ((p - 1) + 1) * EntrySize <= n * EntrySize
  BY <1>1, Bounds, MulMono
<1>4. ((p - 1) + 1) * EntrySize = (p - 1) * EntrySize + EntrySize
  BY <1>1, Bounds
<1> DEFINE x == (p - 1) * EntrySize
           y == n * EntrySize
<1>5. x \in Nat /\ y \in Nat /\ x + EntrySize <= y
  BY <1>2, <1>3, <1>4
<1> HIDE DEF x, y
<1>6. o + x \in Nat /\ o + y \in Nat /\ o <= o + x /\ o + x < o + y
  BY <1>5, Bounds
<1> QED
  BY <1>6 DEF x, y

LEMMA AddrFacts ==
  ASSUME ThunkTypes, NEW i \in Index, NEW s, HasEntry(i, s)
  PROVE  /\ ThunkAddr(i) \in Nat /\ thunks[i.idx].offset \in Nat
         /\ ThunkEnd(i.idx) \in Nat
         /\ thunks[i.idx].offset <= ThunkAddr(i)
         /\ ThunkAddr(i) < ThunkEnd(i.idx)
<1> DEFINE n == Len(thunks[i.idx].symbols)
           p == i.pos
           o == thunks[i.idx].offset
<1>1. i.idx \in DOMAIN thunks /\ p \in DOMAIN thunks[i.idx].symbols
  BY DEF HasEntry
<1>2. /\ o \in Nat /\ thunks[i.idx].symbols \in Seq(Sym) /\ n \in Nat
      /\ ThunkEnd(i.idx) \in Nat
  BY <1>1, ThunkFacts
<1>3. p \in 1 .. n
  BY <1>1, <1>2
<1>4. ThunkAddr(i) = o + (p - 1) * EntrySize /\ ThunkEnd(i.idx) = o + n * EntrySize
  BY DEF ThunkAddr, ThunkEnd
<1> HIDE DEF n, p, o
<1>5. ThunkAddr(i) \in Nat /\ o <= ThunkAddr(i) /\ ThunkAddr(i) < ThunkEnd(i.idx)
  BY <1>2, <1>3, <1>4, EntryFacts
<1> QED
  BY <1>2, <1>5 DEF o

(* Giving a thunk other entries. *)
LEMMA NewSymbols ==
  ASSUME ThunkTypes, NEW n \in DOMAIN thunks, NEW q \in Seq(Sym),
         thunks' = [thunks EXCEPT ![n].symbols = q]
  PROVE  /\ thunks' \in Seq(Thunk) /\ Len(thunks') = Len(thunks)
         /\ DOMAIN thunks' = DOMAIN thunks
         /\ thunks'[n].offset = thunks[n].offset /\ thunks'[n].symbols = q
         /\ \A t \in DOMAIN thunks : t # n => thunks'[t] = thunks[t]
<1> DEFINE x == [offset |-> thunks[n].offset, symbols |-> q]
<1>1. thunks[n] \in Thunk /\ thunks \in Seq(Thunk)
  BY ThunkFacts DEF ThunkTypes
<1>2. [thunks[n] EXCEPT !.symbols = q] = x /\ x \in Thunk
  <2>1. thunks[n].offset \in Nat
    BY <1>1 DEF Thunk
  <2>2. x \in Thunk
    BY <2>1 DEF Thunk
  <2>3. ASSUME NEW y \in [offset : Nat, symbols : Seq(Sym)]
        PROVE  [y EXCEPT !.symbols = q] = [offset |-> y.offset, symbols |-> q]
    OBVIOUS
  <2> QED
    BY <1>1, <2>2, <2>3 DEF Thunk
<1>3. thunks' = [thunks EXCEPT ![n] = [thunks[n] EXCEPT !.symbols = q]]
  OBVIOUS
<1>4. thunks' = [thunks EXCEPT ![n] = x]
  BY <1>2, <1>3
<1>5. x.offset = thunks[n].offset /\ x.symbols = q
  OBVIOUS
<1> HIDE DEF x
<1>6. thunks'[n] = x /\ \A t \in DOMAIN thunks : t # n => thunks'[t] = thunks[t]
  BY <1>4
<1>7. thunks' \in Seq(Thunk) /\ Len(thunks') = Len(thunks)
        /\ DOMAIN thunks' = DOMAIN thunks
  <2>1. n \in 1 .. Len(thunks) /\ DOMAIN thunks = 1 .. Len(thunks)
    BY <1>1
  <2> QED
    BY <2>1, <1>1, <1>2, <1>4
<1> QED
  BY <1>5, <1>6, <1>7

(* Where a branch of the group is: behind the thunk that is being filled,  *)
(* and close enough to the usable ones.                                    *)
LEMMA GroupFacts ==
  ASSUME IInv, pc = "scan", NEW k \in Group, NEW j \in DOMAIN inp.rels[k]
  PROVE  /\ k \in 1 .. N /\ k \in 1 .. d - 1 /\ From(k, j) \in Nat
         /\ off[b] \in Nat /\ off[b] <= From(k, j) /\ From(k, j) <= offset
         /\ \A t \in thunkIdx .. Len(thunks) :
              From(k, j) <= thunks[t].offset + MaxDistance
<1>1. N \in Nat /\ inp.size \in [1 .. N -> Nat]
  BY InputFacts DEF IInv, Types
<1>2. /\ b \in 1 .. N + 1 /\ c \in 1 .. N + 1 /\ d \in 1 .. N + 1
      /\ off \in [1 .. N -> Nat] /\ offset \in Nat
      /\ b < d /\ (c < d \/ (c = N + 1 /\ d = N + 1))
  BY DEF IInv, Types, Cursors, Batched
<1>3. k \in 1 .. N /\ k \in 1 .. d - 1 /\ b <= k /\ b \in 1 .. d - 1 /\ b \in 1 .. N
  BY <1>1, <1>2, InGroup DEF Group
<1>4. off[k] <= From(k, j) /\ From(k, j) <= End(k) /\ From(k, j) \in Nat
  BY <1>3, BranchFacts DEF IInv
<1>5. off[k] \in Nat /\ off[b] \in Nat /\ End(k) \in Nat /\ End(b) \in Nat
        /\ off[b] <= End(b)
  <2>1. off[k] \in Nat /\ off[b] \in Nat /\ inp.size[k] \in Nat /\ inp.size[b] \in Nat
    BY <1>1, <1>2, <1>3
  <2> QED
    BY <2>1 DEF End
<1>6. End(k) <= offset
  BY <1>3 DEF IInv, MembersPlaced
<1>7. b < k => End(b) <= off[k]
  BY <1>3 DEF IInv, MembersPlaced
<1>8. off[b] <= off[k]
  <2>1. b = k \/ b < k
    BY <1>3
  <2> QED
    BY <2>1, <1>5, <1>7
<1>9. ASSUME NEW t \in thunkIdx .. Len(thunks)
      PROVE  From(k, j) <= thunks[t].offset + MaxDistance
  <2>1. End(k) <= thunks[t].offset + MaxDistance
    BY DEF IInv, Distances
  <2>2. thunks[t].offset \in Nat
    <3>1. t \in DOMAIN thunks
      BY DEF IInv, ThunkTypes
    <3> QED
      BY <3>1, ThunkFacts DEF IInv
  <2> QED
    <3>1. MaxDistance \in Nat
      BY Bounds
    <3> QED
      BY <2>1, <2>2, <3>1, <1>4, <1>5
<1> QED
  BY <1>2, <1>3, <1>4, <1>5, <1>6, <1>8, <1>9

(* A thunk that a symbol points to is within reach of the whole group. *)
LEMMA ReuseInRange ==
  ASSUME IInv, pc = "scan", NEW k \in Group, NEW j \in DOMAIN inp.rels[k],
         symThunk[inp.rels[k][j].sym] # NoThunk
  PROVE  /\ HasEntry(symThunk[inp.rels[k][j].sym], inp.rels[k][j].sym)
         /\ Closed(symThunk[inp.rels[k][j].sym].idx)
         /\ InRange(From(k, j), ThunkAddr(symThunk[inp.rels[k][j].sym]))
<1> DEFINE s == inp.rels[k][j].sym
           i == symThunk[s]
<1>1. /\ k \in 1 .. N /\ From(k, j) \in Nat
      /\ off[b] \in Nat /\ off[b] <= From(k, j)
      /\ \A t \in thunkIdx .. Len(thunks) :
           From(k, j) <= thunks[t].offset + MaxDistance
  BY GroupFacts
<1>2. s \in Sym
  BY <1>1, BranchFacts DEF IInv
<1>3. i \in Index
  BY <1>2 DEF IInv, ThunkTypes
<1>4. HasEntry(i, s) /\ thunkIdx <= i.idx /\ Closed(i.idx)
  BY <1>2 DEF IInv, SymbolsIndexed
<1> HIDE DEF s, i
<1>5. /\ ThunkAddr(i) \in Nat /\ thunks[i.idx].offset \in Nat
      /\ ThunkEnd(i.idx) \in Nat /\ thunks[i.idx].offset <= ThunkAddr(i)
      /\ ThunkAddr(i) < ThunkEnd(i.idx)
  BY <1>3, <1>4, AddrFacts DEF IInv
<1>6. i.idx \in DOMAIN thunks /\ i.idx \in thunkIdx .. Len(thunks)
  BY <1>4 DEF HasEntry, IInv, ThunkTypes
<1>7. ThunkEnd(i.idx) <= offset /\ offset <= Limit + Alignment /\ offset \in Nat
  BY <1>4, <1>6 DEF IInv, ThunksPlaced, Distances, Types
<1>8. From(k, j) <= thunks[i.idx].offset + MaxDistance
  BY <1>1, <1>6
<1>9. InRange(From(k, j), ThunkAddr(i))
  <2> DEFINE f == From(k, j)
             x == ThunkAddr(i)
             o == thunks[i.idx].offset
             e == ThunkEnd(i.idx)
             B == off[b]
  <2>1. f \in Nat /\ x \in Nat /\ o \in Nat /\ e \in Nat /\ B \in Nat
    BY <1>1, <1>5
  <2>2. B <= f /\ o <= x /\ x < e /\ f <= o + MaxDistance
    BY <1>1, <1>5, <1>8
  <2>3. e <= offset /\ offset <= B + MaxDistance - MaxThunkSize + Alignment
          /\ offset \in Nat
    BY <1>7 DEF Limit
  <2> HIDE DEF f, x, o, e, B
  <2>4. -Reach <= x - f /\ x - f < Reach
    BY <2>1, <2>2, <2>3, Bounds
  <2> QED
    BY <2>4 DEF InRange, f, x
<1> QED
  BY <1>4, <1>9 DEF s, i

LEMMA ScanRelocInv ==
  ASSUME IInv, WithinLimits, WithinLimits', NEW k \in Group, ScanReloc(k)
  PROVE  IInv'
<1> DEFINE r == inp.rels[k][next[k]]
<1>1. /\ pc = "scan" /\ pc' = "scan" /\ next[k] <= Len(inp.rels[k])
      /\ UNCHANGED <<inp, off, a, b, c, d, offset, thunkIdx, symThunk>>
      /\ next' = [next EXCEPT ![k] = @ + 1]
  BY DEF ScanReloc
<1>2. N' = N /\ Unset' = Unset /\ N \in Nat
  BY <1>1, InputFacts DEF N, Unset, IInv, Types
<1>3. /\ b \in 1 .. N + 1 /\ c \in 1 .. N + 1 /\ d \in 1 .. N + 1
      /\ b < d /\ (c < d \/ (c = N + 1 /\ d = N + 1))
  BY <1>1 DEF IInv, Types, Cursors, Batched
<1>4. k \in 1 .. N /\ Group \subseteq 1 .. N /\ Group \subseteq 1 .. d - 1
  BY <1>2, <1>3 DEF Group
<1>5. next \in [1 .. N -> Nat \ {0}] /\ next[k] \in Nat \ {0}
  BY <1>4 DEF IInv, ThunkTypes
<1> PICK j \in Nat : j = next[k]
  BY <1>5
<1>6. j \in DOMAIN inp.rels[k]
  <2>1. inp.rels[k] \in Seq([off : Nat, sym : Sym])
    BY <1>4, InputFacts DEF IInv, Types
  <2> QED
    BY <2>1, <1>1, <1>5
<1>7. r.sym \in Sym
  BY <1>4, <1>6, BranchFacts DEF IInv
<1> PICK s \in Sym : s = r.sym
  BY <1>7
<1> PICK n \in Nat : n = Len(thunks)
  BY DEF IInv, ThunkTypes
<1>8. /\ n \in Nat /\ n > 0 /\ DOMAIN thunks = 1 .. n
      /\ thunkIdx \in 1 .. n + 1 /\ thunkIdx <= n
      /\ thunks \in Seq(Thunk)
  BY <1>1 DEF IInv, ThunkTypes, SymbolsIndexed, ThunksPlaced
<1> DEFINE reach == IsReachable(k, r)
           reuse == ~reach /\ symThunk[s] # NoThunk
           add == ~reach /\ symThunk[s] = NoThunk
           fresh == add /\ s \notin flagged
<1>9. /\ reach => UNCHANGED <<relThunk, flagged, thunks>>
      /\ reuse => /\ relThunk' = [relThunk EXCEPT ![k][j] = symThunk[s]]
                  /\ UNCHANGED <<flagged, thunks>>
      /\ add => /\ relThunk' = [relThunk EXCEPT ![k][j] = [idx |-> n, pos |-> 0]]
                /\ flagged' = flagged \cup {s}
                /\ thunks' = IF s \in flagged THEN thunks
                             ELSE [thunks EXCEPT ![n].symbols = Append(@, s)]
  <2>1. CASE reach
    BY <2>1 DEF ScanReloc
  <2>2. CASE reuse
    BY <2>2 DEF ScanReloc
  <2>3. CASE add
    BY <2>3 DEF ScanReloc
  <2> QED
    BY <2>1, <2>2, <2>3
<1>10. reach \/ reuse \/ add
  OBVIOUS
<1> HIDE DEF reach, reuse, add
<1>11. /\ thunks' \in Seq(Thunk) /\ Len(thunks') = n /\ DOMAIN thunks' = 1 .. n
       /\ \A t \in 1 .. n : /\ thunks'[t].offset = thunks[t].offset
                            /\ t # n => thunks'[t] = thunks[t]
       /\ thunks'[n].symbols = IF fresh THEN Append(thunks[n].symbols, s)
                                        ELSE thunks[n].symbols
  <2>1. CASE fresh
    <3>1. thunks' = [thunks EXCEPT ![n].symbols = Append(thunks[n].symbols, s)]
      BY <2>1, <1>9
    <3>2. Append(thunks[n].symbols, s) \in Seq(Sym)
      <4>1. thunks[n].symbols \in Seq(Sym)
        BY <1>8, ThunkFacts DEF IInv
      <4> QED
        BY <4>1, <1>7
    <3>3. n \in 1 .. n
      BY <1>8
    <3>4. /\ thunks' \in Seq(Thunk) /\ Len(thunks') = n /\ DOMAIN thunks' = 1 .. n
          /\ thunks'[n].offset = thunks[n].offset
          /\ thunks'[n].symbols = Append(thunks[n].symbols, s)
          /\ \A t \in 1 .. n : t # n => thunks'[t] = thunks[t]
      <4> DEFINE q == Append(thunks[n].symbols, s)
      <4>1. q \in Seq(Sym) /\ thunks' = [thunks EXCEPT ![n].symbols = q]
        BY <3>1, <3>2
      <4>2. n \in DOMAIN thunks /\ DOMAIN thunks = 1 .. n
        BY <3>3, <1>8
      <4> HIDE DEF q
      <4>3. /\ thunks' \in Seq(Thunk) /\ Len(thunks') = Len(thunks)
            /\ DOMAIN thunks' = DOMAIN thunks
            /\ thunks'[n].offset = thunks[n].offset /\ thunks'[n].symbols = q
            /\ \A t \in DOMAIN thunks : t # n => thunks'[t] = thunks[t]
        BY <4>1, <4>2, NewSymbols DEF IInv
      <4> QED
        BY <4>2, <4>3 DEF q
    <3> QED
      BY <2>1, <3>4
  <2>2. CASE ~fresh
    <3>1. thunks' = thunks
      BY <2>2, <1>9, <1>10
    <3> QED
      BY <2>2, <3>1, <1>8
  <2> QED
    BY <2>1, <2>2
<1>12. flagged' = IF add THEN flagged \cup {s} ELSE flagged
  BY <1>9, <1>10 DEF reach, reuse, add
<1>13. DOMAIN relThunk = 1 .. N /\ relThunk[k] \in [DOMAIN inp.rels[k] -> Index]
  BY <1>4 DEF IInv, ThunkTypes
<1>14. /\ DOMAIN relThunk' = 1 .. N
       /\ \A l \in 1 .. N : relThunk'[l] \in [DOMAIN inp.rels[l] -> Index]
       /\ \A l \in 1 .. N : \A q \in DOMAIN inp.rels[l] :
            relThunk'[l][q] = IF l = k /\ q = j /\ ~reach
                              THEN IF add THEN [idx |-> n, pos |-> 0] ELSE symThunk[s]
                              ELSE relThunk[l][q]
  <2> DEFINE v == IF add THEN [idx |-> n, pos |-> 0] ELSE symThunk[s]
  <2>1. v \in Index
    BY <1>7, <1>8 DEF IInv, ThunkTypes, Index
  <2>2. CASE reach
    BY <2>2, <1>9 DEF IInv, ThunkTypes
  <2>3. CASE ~reach
    <3>1. relThunk' = [relThunk EXCEPT ![k][j] = v]
      BY <2>3, <1>9, <1>10 DEF reach, reuse, add
    <3> HIDE DEF v
    <3>2. relThunk' = [relThunk EXCEPT ![k] = [relThunk[k] EXCEPT ![j] = v]]
      BY <3>1
    <3>3. [relThunk[k] EXCEPT ![j] = v] \in [DOMAIN inp.rels[k] -> Index]
      BY <2>1, <1>6, <1>13
    <3>4. \A l \in 1 .. N : relThunk'[l] = IF l = k THEN [relThunk[k] EXCEPT ![j] = v]
                                                    ELSE relThunk[l]
      BY <3>2, <1>13
    <3>5. DOMAIN relThunk' = 1 .. N
      BY <3>2, <1>13
    <3>6. \A l \in 1 .. N : relThunk'[l] \in [DOMAIN inp.rels[l] -> Index]
      BY <3>3, <3>4 DEF IInv, ThunkTypes
    <3>7. \A l \in 1 .. N : \A q \in DOMAIN inp.rels[l] :
            relThunk'[l][q] = IF l = k /\ q = j THEN v ELSE relThunk[l][q]
      BY <3>4, <1>6, <1>13
    <3> QED
      BY <2>3, <3>5, <3>6, <3>7 DEF v
  <2> QED
    BY <2>2, <2>3
<1>15. \A t \in 1 .. n : /\ Closed(t) <=> t < n
                         /\ Closed(t)' <=> t < n
                         /\ t < n => ThunkEnd(t)' = ThunkEnd(t)
  <2> SUFFICES ASSUME NEW t \in 1 .. n
               PROVE  /\ Closed(t) <=> t < n
                      /\ Closed(t)' <=> t < n
                      /\ t < n => ThunkEnd(t)' = ThunkEnd(t)
    OBVIOUS
  <2>1. (Closed(t) <=> t < n) /\ (Closed(t)' <=> t < n)
    BY <1>1, <1>11 DEF Closed
  <2>2. t < n => thunks'[t] = thunks[t]
    BY <1>8, <1>11
  <2> QED
    BY <2>1, <2>2 DEF ThunkEnd
<1>16. /\ \A t \in 1 .. n : \A x : t < n => (Holds(t, x)' <=> Holds(t, x))
       /\ \A x : Holds(n, x) => Holds(Len(thunks), x)'
       /\ \A x : Holds(Len(thunks), x)' => Holds(n, x) \/ (fresh /\ x = s)
       /\ fresh => Holds(Len(thunks), s)'
  <2>1. \A t \in 1 .. n : \A x : t < n => (Holds(t, x)' <=> Holds(t, x))
    <3>1. \A t \in 1 .. n : t < n => thunks'[t] = thunks[t]
      BY <1>8, <1>11
    <3> QED
      BY <3>1 DEF Holds
  <2>2. thunks[n].symbols \in Seq(Sym)
    BY <1>8, ThunkFacts DEF IInv
  <2>3. CASE ~fresh
    BY <2>1, <2>3, <1>11 DEF Holds
  <2>4. CASE fresh
    <3> DEFINE old == thunks[n].symbols
               new == thunks'[n].symbols
    <3>1. /\ new = Append(old, s) /\ old \in Seq(Sym)
          /\ \A x : Holds(n, x) <=> \E q \in DOMAIN old : old[q] = x
          /\ \A x : Holds(Len(thunks), x)' <=> \E q \in DOMAIN new : new[q] = x
      BY <2>2, <2>4, <1>11 DEF Holds
    <3> HIDE DEF old, new
    <3>2. /\ \A q \in DOMAIN old : q \in DOMAIN new /\ new[q] = old[q]
          /\ Len(old) + 1 \in DOMAIN new /\ new[Len(old) + 1] = s
          /\ \A q \in DOMAIN new : q \in DOMAIN old \/ new[q] = s
      BY <3>1, <1>7
    <3>3. Len(thunks') = n
      BY <1>11
    <3>4. \A x : Holds(n, x) => Holds(Len(thunks), x)'
      BY <3>1, <3>2
    <3>5. \A x : Holds(Len(thunks), x)' => Holds(n, x) \/ x = s
      BY <3>1, <3>2
    <3>6. Holds(Len(thunks), s)'
      BY <3>1, <3>2
    <3> QED
      BY <2>1, <2>4, <3>4, <3>5, <3>6
  <2> QED
    BY <2>3, <2>4
<1>17. Types' /\ Cursors'
  BY <1>1, <1>2 DEF IInv, Types, Cursors, Batched
<1>18. ThunkTypes'
  <2>1. next' \in [1 .. N -> Nat \ {0}]
    BY <1>1, <1>4, <1>5
  <2>2. flagged' \subseteq Sym
    BY <1>7, <1>12 DEF IInv, ThunkTypes
  <2> QED
    BY <1>1, <1>2, <1>11, <1>14, <2>1, <2>2 DEF IInv, ThunkTypes
<1>19. MembersPlaced'
  BY <1>1, <1>2 DEF IInv, MembersPlaced, End
<1>20. ThunksPlaced'
  <2>1. \A l : End(l)' = End(l)
    BY <1>1 DEF End
  <2>2. \A t \in 1 .. n : Closed(t)' => ThunkEnd(t)' <= offset'
    BY <1>1, <1>8, <1>15 DEF IInv, ThunksPlaced
  <2>3. \A t, u \in 1 .. n : t < u => ThunkEnd(t)' <= thunks'[u].offset
    <3> SUFFICES ASSUME NEW t \in 1 .. n, NEW u \in 1 .. n, t < u
                 PROVE  ThunkEnd(t)' <= thunks'[u].offset
      OBVIOUS
    <3>1. t < n
      BY <1>8
    <3>2. ThunkEnd(t) <= thunks[u].offset
      BY <1>8 DEF IInv, ThunksPlaced
    <3> QED
      BY <3>1, <3>2, <1>11, <1>15
  <2>4. \A l \in 1 .. d - 1 : \A t \in 1 .. n :
          End(l) <= thunks'[t].offset \/ (Closed(t)' /\ ThunkEnd(t)' <= off[l])
    <3> SUFFICES ASSUME NEW l \in 1 .. d - 1, NEW t \in 1 .. n
                 PROVE  End(l) <= thunks'[t].offset
                          \/ (Closed(t)' /\ ThunkEnd(t)' <= off[l])
      OBVIOUS
    <3>1. End(l) <= thunks[t].offset \/ (Closed(t) /\ ThunkEnd(t) <= off[l])
      BY <1>8 DEF IInv, ThunksPlaced
    <3> QED
      BY <3>1, <1>11, <1>15
  <2>5. thunks' # <<>> /\ thunks'[Len(thunks')].offset = offset'
    <3>1. thunks[n].offset = offset
      BY <1>1 DEF IInv, ThunksPlaced
    <3>2. thunks'[n].offset = offset'
      BY <3>1, <1>1, <1>8, <1>11
    <3>3. thunks' # <<>>
      BY <1>8, <1>11
    <3> QED
      BY <3>2, <3>3, <1>11
  <2> QED
    BY <1>1, <1>11, <2>1, <2>2, <2>3, <2>4, <2>5 DEF ThunksPlaced
<1>21. Distances'
  <2>1. Limit' = Limit /\ Group' = Group /\ \A l : End(l)' = End(l)
    BY <1>1 DEF Limit, Group, End
  <2>2. \A t \in thunkIdx .. n : t \in 1 .. n
    BY <1>8
  <2>3. \A t \in thunkIdx .. n : \A l \in Group :
          End(l) <= thunks'[t].offset + MaxDistance
    BY <2>2, <1>1, <1>11 DEF IInv, Distances
  <2>4. offset <= Limit + Alignment /\ (c <= N => off[b] + BatchSize <= End(c))
    BY <1>1 DEF IInv, Distances, Batched
  <2> QED
    BY <1>1, <1>2, <1>11, <2>1, <2>3, <2>4 DEF Distances, Batched, End
<1>22. SymbolsIndexed'
  <2>1. add => /\ symThunk[s] = NoThunk
               /\ s \in flagged => Holds(n, s)
    BY <1>1 DEF add, IInv, SymbolsIndexed
  <2>2. ASSUME NEW x \in Sym, symThunk'[x] # NoThunk
        PROVE  /\ HasEntry(symThunk[x], x)' /\ thunkIdx' <= symThunk'[x].idx
               /\ Closed(symThunk[x].idx)' /\ x \in flagged'
    <3>1. /\ symThunk'[x] = symThunk[x] /\ symThunk[x] # NoThunk
          /\ HasEntry(symThunk[x], x) /\ thunkIdx <= symThunk[x].idx
          /\ Closed(symThunk[x].idx) /\ x \in flagged
      BY <1>1, <2>2 DEF IInv, SymbolsIndexed
    <3>2. symThunk[x].idx \in 1 .. n /\ symThunk[x].idx < n
      BY <3>1, <1>8, <1>15 DEF HasEntry
    <3>3. thunks'[symThunk[x].idx] = thunks[symThunk[x].idx]
      BY <3>2, <1>11
    <3>4. HasEntry(symThunk[x], x)'
      BY <3>1, <3>2, <3>3, <1>11 DEF HasEntry
    <3>5. Closed(symThunk[x].idx)'
      BY <3>1, <3>2, <1>11 DEF Closed
    <3> QED
      BY <3>1, <3>4, <3>5, <1>1, <1>12
  <2>3. ASSUME NEW x \in flagged'
        PROVE  symThunk'[x] # NoThunk \/ Holds(Len(thunks), x)'
    <3>1. CASE x \in flagged
      BY <3>1, <1>1, <1>16 DEF IInv, SymbolsIndexed
    <3>2. CASE x \notin flagged
      <4>1. x = s /\ fresh
        BY <3>2, <1>12
      <4> QED
        BY <4>1, <1>16
    <3> QED
      BY <3>1, <3>2
  <2>4. ASSUME NEW t \in thunkIdx' .. Len(thunks'), NEW x \in Sym,
               Closed(t)', Holds(t, x)'
        PROVE  symThunk'[x].idx = t
    <3>1. t \in thunkIdx .. n /\ t \in 1 .. n
      BY <1>1, <1>8, <1>11
    <3>2. t < n /\ Closed(t)
      BY <3>1, <2>4, <1>15
    <3>3. Holds(t, x)
      BY <3>1, <3>2, <2>4, <1>16
    <3> QED
      BY <3>1, <3>2, <3>3, <1>1 DEF IInv, SymbolsIndexed
  <2>5. ASSUME NEW x \in Sym, Holds(Len(thunks), x)'
        PROVE  symThunk'[x] = NoThunk /\ x \in flagged'
    <3>1. CASE Holds(n, x)
      BY <3>1, <1>1, <1>12 DEF IInv, SymbolsIndexed
    <3>2. CASE fresh /\ x = s
      BY <3>2, <2>1, <1>1, <1>12
    <3> QED
      BY <3>1, <3>2, <2>5, <1>16
  <2>6. thunkIdx' <= Len(thunks')
    BY <1>1, <1>8, <1>11
  <2> QED
    BY <1>1, <2>2, <2>3, <2>4, <2>5, <2>6, NoThunk' = NoThunk
    DEF SymbolsIndexed, NoThunk
<1>23. BranchesBound'
  <2>1. \A t \in DOMAIN thunks : Closed(t) =>
          t \in DOMAIN thunks' /\ thunks'[t] = thunks[t] /\ Closed(t)'
    BY <1>8, <1>11, <1>15
  <2>2. ASSUME NEW l \in 1 .. d - 1, NEW q \in DOMAIN inp.rels[l], l # k \/ q # j
        PROVE  /\ Direct(l, q) => Direct(l, q)'
               /\ Via(l, q) => Via(l, q)'
               /\ Waits(l, q) => Waits(l, q)'
    <3>1. l \in 1 .. N /\ d' \in Nat /\ d <= d'
      BY <1>1, <1>2, <1>3
    <3>2. relThunk'[l][q] = relThunk[l][q]
      BY <2>2, <3>1, <1>14
    <3>3. (Direct(l, q) => Direct(l, q)') /\ (Via(l, q) => Via(l, q)')
      BY <2>1, <3>1, <3>2, <1>1, BranchKept DEF IInv
    <3>4. inp'.rels[l][q].sym = inp.rels[l][q].sym
      BY <1>1
    <3> QED
      BY <3>2, <3>3, <3>4, <1>11, <1>16 DEF Waits
  <2>3. Direct(k, j)' \/ Via(k, j)' \/ Waits(k, j)'
    <3>1. k \in 1 .. d - 1 /\ d \in Nat /\ r = inp.rels[k][j] /\ 1 < d
      BY <1>3, <1>4
    <3>2. CASE reach
      <4>1. /\ \/ Stub(k, j) # 0
               \/ Target(k, j) # 0 /\ off[Target(k, j)] # Unset
            /\ InRange(From(k, j), SymAddr(s))
        BY <3>1, <3>2 DEF reach, IsReachable, Target, Stub, From
      <4>2. Target(k, j) \in 0 .. N
        BY <1>4, <1>6, BranchFacts DEF IInv
      <4>3. Stub(k, j) # 0 \/ Target(k, j) < d
        <5> SUFFICES ASSUME Stub(k, j) = 0, ~ (Target(k, j) < d) PROVE FALSE
          OBVIOUS
        <5>1. Target(k, j) \in d .. N /\ Target(k, j) # 1
          BY <4>1, <4>2, <3>1, <1>2, <1>3
        <5> QED
          BY <4>1, <5>1 DEF IInv, MembersPlaced
      <4>4. Direct(k, j)
        BY <3>1, <4>1, <4>3 DEF Direct
      <4> QED
        BY <4>4, <1>1 DEF Direct, Target, Stub, SymAddr, From
    <3>3. CASE reuse
      <4>1. symThunk[inp.rels[k][j].sym] # NoThunk /\ s = inp.rels[k][j].sym
        BY <3>1, <3>3 DEF reuse
      <4>2. /\ HasEntry(symThunk[s], s) /\ Closed(symThunk[s].idx)
            /\ InRange(From(k, j), ThunkAddr(symThunk[s]))
        BY <4>1, <1>1, <1>6, ReuseInRange
      <4>3. relThunk'[k][j] = symThunk[s] /\ thunks' = thunks
        BY <3>3, <1>4, <1>6, <1>9, <1>14 DEF reuse, add
      <4>4. s = inp'.rels[k][j].sym /\ From(k, j)' = From(k, j)
        BY <4>1, <1>1 DEF From
      <4>5. HasEntry(relThunk[k][j], s)' /\ Closed(relThunk[k][j].idx)'
        BY <4>2, <4>3, <1>1 DEF HasEntry, Closed
      <4>6. ThunkAddr(relThunk[k][j])' = ThunkAddr(symThunk[s])
        BY <4>3 DEF ThunkAddr
      <4> QED
        BY <4>2, <4>4, <4>5, <4>6 DEF Via
    <3>4. CASE add
      <4>1. relThunk'[k][j] = [idx |-> n, pos |-> 0]
        BY <3>4, <1>4, <1>6, <1>14 DEF add
      <4>2. Holds(Len(thunks), s)'
        <5>1. CASE s \in flagged
          <6>1. symThunk[s] = NoThunk
            BY <3>4 DEF add
          <6>2. Holds(n, s)
            BY <5>1, <6>1, <1>1 DEF IInv, SymbolsIndexed
          <6> QED
            BY <6>2, <1>16
        <5>2. CASE s \notin flagged
          BY <5>2, <3>4, <1>16
        <5> QED
          BY <5>1, <5>2
      <4>3. s = inp'.rels[k][j].sym
        BY <3>1, <1>1
      <4> QED
        BY <4>1, <4>2, <4>3, <1>11 DEF Waits
    <3> QED
      BY <3>2, <3>3, <3>4, <1>10
  <2>4. \A l \in 1 .. N : next'[l] = IF l = k THEN j + 1 ELSE next[l]
    BY <1>1, <1>4, <1>5
  <2>5. ASSUME NEW l \in 1 .. b - 1, NEW q \in DOMAIN inp.rels[l]
        PROVE  Direct(l, q)' \/ Via(l, q)'
    <3>1. l \in 1 .. d - 1 /\ l # k
      BY <1>3 DEF Group
    <3>2. Direct(l, q) \/ Via(l, q)
      BY DEF IInv, BranchesBound
    <3> QED
      BY <2>2, <3>1, <3>2
  <2>6. ASSUME NEW l \in Group, NEW q \in DOMAIN inp.rels[l], q < next'[l]
        PROVE  Direct(l, q)' \/ Via(l, q)' \/ Waits(l, q)'
    <3>1. l \in 1 .. d - 1 /\ l \in 1 .. N
      BY <1>4
    <3>2. CASE l = k /\ q = j
      BY <2>3, <3>2
    <3>3. CASE ~ (l = k /\ q = j)
      <4>1. q \in Nat
        <5>1. inp.rels[l] \in Seq([off : Nat, sym : Sym])
          BY <3>1, InputFacts DEF IInv, Types
        <5> QED
          BY <5>1
      <4>2. q < next[l]
        BY <2>4, <2>6, <3>1, <3>3, <4>1
      <4>3. Direct(l, q) \/ Via(l, q) \/ Waits(l, q)
        BY <4>2, <1>1 DEF IInv, BranchesBound
      <4> QED
        BY <2>2, <3>1, <3>3, <4>3
    <3> QED
      BY <3>2, <3>3
  <2>7. Group' = Group
    BY <1>1 DEF Group
  <2> QED
    BY <1>1, <2>5, <2>6, <2>7 DEF BranchesBound
<1>24. IndicesBehind'
  <2> SUFFICES ASSUME NEW l \in 1 .. N, NEW q \in DOMAIN inp.rels[l]
               PROVE  /\ relThunk'[l][q].idx <= n
                      /\ relThunk'[l][q].idx = n => Holds(Len(thunks), inp.rels[l][q].sym)'
    BY <1>1, <1>2, <1>11 DEF IndicesBehind, Waits
  <2>0. inp'.rels[l][q].sym = inp.rels[l][q].sym
    BY <1>1
  <2>1. CASE ~ (l = k /\ q = j /\ ~reach)
    <3>1. relThunk'[l][q] = relThunk[l][q]
      BY <2>1, <1>14
    <3>2. relThunk[l][q].idx <= n /\ (relThunk[l][q].idx = n => Waits(l, q))
      BY <1>1 DEF IInv, IndicesBehind
    <3> QED
      BY <2>0, <3>1, <3>2, <1>16 DEF Waits
  <2>2. CASE l = k /\ q = j /\ add
    <3>1. relThunk'[l][q] = [idx |-> n, pos |-> 0] /\ inp.rels[l][q].sym = s
      BY <2>2, <1>4, <1>6, <1>14 DEF add
    <3>2. Holds(Len(thunks), s)'
      <4>1. s \in flagged => Holds(n, s)
        BY <2>2, <1>1 DEF add, IInv, SymbolsIndexed
      <4> QED
        BY <2>2, <4>1, <1>16
    <3> QED
      BY <2>0, <3>1, <3>2
  <2>3. CASE l = k /\ q = j /\ reuse
    <3>1. relThunk'[l][q] = symThunk[s]
      BY <2>3, <1>4, <1>6, <1>14 DEF reuse, add
    <3>2. HasEntry(symThunk[s], s) /\ Closed(symThunk[s].idx)
      BY <2>3 DEF reuse, IInv, SymbolsIndexed
    <3>3. symThunk[s].idx \in 1 .. n /\ symThunk[s].idx < n
      BY <3>2, <1>8, <1>15 DEF HasEntry
    <3> QED
      <4>1. relThunk'[l][q].idx \in 1 .. n /\ relThunk'[l][q].idx < n
        BY <3>1, <3>3
      <4>2. \A x \in 1 .. n : x < n => x <= n /\ x # n
        BY <1>8
      <4> QED
        BY <4>1, <4>2
  <2> QED
    BY <2>1, <2>2, <2>3, <1>10
<1> QED
  BY <1>17, <1>18, <1>19, <1>20, <1>21, <1>22, <1>23, <1>24 DEF IInv

-----------------------------------------------------------------------------
(***************************************************************************)
(* The end of a round.                                                     *)
(***************************************************************************)
(* The next round starts far enough below its limit: what B moved by makes *)
(* up for the thunk and for one more member.                               *)
LEMMA RoomForNext ==
  ASSUME NEW u \in Nat, NEW v \in Nat, NEW p \in Nat, NEW o \in Nat,
         NEW x \in Nat, NEW y \in Nat, NEW z \in Nat,
         z + x + y + Alignment + MaxThunkSize <= BatchSize,
         p + BatchSize <= o + z,
         u <= p + MaxDistance - MaxThunkSize + Alignment,
         v <= u + MaxThunkSize
  PROVE  v + y + x <= o + MaxDistance - MaxThunkSize
<1>1. v <= p + MaxDistance + Alignment
  BY Bounds
<1>2. p + Alignment + y + x + MaxThunkSize <= o
  BY Bounds
<1> QED
  BY <1>1, <1>2, Bounds

LEMMA FinishThunkInv ==
  ASSUME IInv, WithinLimits, WithinLimits', FinishThunk
  PROVE  IInv'
<1> PICK n \in Nat : n = Len(thunks)
  BY DEF IInv, ThunkTypes
<1>1. /\ pc = "scan" /\ pc' = (IF c <= N THEN "D" ELSE "end") /\ b' = c
      /\ \A k \in Group : next[k] > Len(inp.rels[k])
      /\ UNCHANGED <<inp, off, a, c, d, thunkIdx, flagged, next>>
  BY DEF FinishThunk
<1>a. PICK syms \in Sortings(thunks[Len(thunks)].symbols) :
      /\ thunks' = [thunks EXCEPT ![Len(thunks)].symbols = syms]
      /\ offset' = offset + Len(syms) * EntrySize
      /\ symThunk' = [s \in Sym |-> IF s \in Range(syms)
                           THEN [idx |-> Len(thunks), pos |-> PosIn(syms, s)]
                           ELSE symThunk[s]]
      /\ relThunk' = [k \in 1 .. N |-> [j \in DOMAIN inp.rels[k] |->
           IF k \in Group /\ relThunk[k][j].idx = Len(thunks)
           THEN [idx |-> Len(thunks), pos |-> PosIn(syms, inp.rels[k][j].sym)]
           ELSE relThunk[k][j]]]
  BY DEF FinishThunk
<1>b. /\ syms \in Sortings(thunks[n].symbols)
      /\ thunks' = [thunks EXCEPT ![n].symbols = syms]
      /\ offset' = offset + Len(syms) * EntrySize
  BY <1>a
<1>c. symThunk' = [s \in Sym |-> IF s \in Range(syms)
                                  THEN [idx |-> n, pos |-> PosIn(syms, s)]
                                  ELSE symThunk[s]]
  BY <1>a
<1>d. relThunk' = [k \in 1 .. N |-> [j \in DOMAIN inp.rels[k] |->
           IF k \in Group /\ relThunk[k][j].idx = n
           THEN [idx |-> n, pos |-> PosIn(syms, inp.rels[k][j].sym)]
           ELSE relThunk[k][j]]]
  BY <1>a
<1>2. N' = N /\ Unset' = Unset /\ N \in Nat
  BY <1>1, InputFacts DEF N, Unset, IInv, Types
<1>3. /\ a \in 1 .. N + 1 /\ b \in 1 .. N + 1 /\ c \in 1 .. N + 1 /\ d \in 1 .. N + 1
      /\ a <= b /\ b < c /\ b < d /\ (c < d \/ (c = N + 1 /\ d = N + 1))
      /\ off \in [1 .. N -> Nat] /\ offset \in Nat
  BY <1>1 DEF IInv, Types, Cursors, Batched
<1>4. Group \subseteq 1 .. N /\ Group \subseteq 1 .. d - 1 /\ b \in 1 .. N
  <2>1. b \in 1 .. N
    BY <1>2, <1>3
  <2>2. ASSUME NEW k \in Group PROVE k \in 1 .. N /\ k \in 1 .. d - 1
    <3>1. k \in Int /\ b <= k /\ k < c
      BY <1>3 DEF Group
    <3> QED
      BY <3>1, <1>2, <1>3
  <2> QED
    BY <2>1, <2>2
<1>5. /\ n > 0 /\ n \in DOMAIN thunks /\ DOMAIN thunks = 1 .. n
      /\ thunkIdx \in 1 .. n + 1 /\ thunkIdx <= n
      /\ thunks \in Seq(Thunk) /\ thunks[n].symbols \in Seq(Sym)
  <2>1. n > 0 /\ n \in DOMAIN thunks /\ DOMAIN thunks = 1 .. n
    BY <1>1 DEF IInv, ThunkTypes, ThunksPlaced
  <2>2. thunks[n].symbols \in Seq(Sym)
    BY <2>1, ThunkFacts DEF IInv
  <2> QED
    BY <2>1, <2>2, <1>1 DEF IInv, ThunkTypes, SymbolsIndexed
<1>6. /\ syms \in Seq(Sym) /\ Len(syms) = Len(thunks[n].symbols)
      /\ \A x : x \in Range(syms) <=> Holds(n, x)
      /\ \A x \in Range(syms) : PosIn(syms, x) \in DOMAIN syms /\ syms[PosIn(syms, x)] = x
  <2>1. /\ syms \in Seq(Sym) /\ Len(syms) = Len(thunks[n].symbols)
        /\ \A i \in DOMAIN thunks[n].symbols : \E j \in DOMAIN syms :
             syms[j] = thunks[n].symbols[i]
        /\ \A j \in DOMAIN syms : \E i \in DOMAIN thunks[n].symbols :
             thunks[n].symbols[i] = syms[j]
    BY <1>5, <1>b, SortingFacts
  <2>2. \A x : x \in Range(syms) <=> \E j \in DOMAIN syms : syms[j] = x
    BY DEF Range
  <2>3. \A x : x \in Range(syms) <=> Holds(n, x)
    BY <2>1, <2>2 DEF Holds
  <2>4. \A x \in Range(syms) : PosIn(syms, x) \in DOMAIN syms /\ syms[PosIn(syms, x)] = x
    BY <2>2 DEF PosIn
  <2> QED
    BY <2>1, <2>3, <2>4
<1>7. /\ thunks' \in Seq(Thunk) /\ Len(thunks') = n /\ DOMAIN thunks' = 1 .. n
      /\ thunks'[n].offset = thunks[n].offset /\ thunks'[n].symbols = syms
      /\ \A t \in 1 .. n : t # n => thunks'[t] = thunks[t]
  BY <1>5, <1>6, <1>b, NewSymbols DEF IInv
<1>8. \A t : Closed(t)'
  BY <1>1 DEF Closed
<1>9. \A t \in 1 .. n : /\ Closed(t) <=> t < n
                        /\ thunks'[t].offset = thunks[t].offset
                        /\ ThunkEnd(t)' = ThunkEnd(t)
                        /\ thunks[t].offset \in Nat /\ ThunkEnd(t) \in Nat
  <2> SUFFICES ASSUME NEW t \in 1 .. n
               PROVE  /\ Closed(t) <=> t < n
                      /\ thunks'[t].offset = thunks[t].offset
                      /\ ThunkEnd(t)' = ThunkEnd(t)
                      /\ thunks[t].offset \in Nat /\ ThunkEnd(t) \in Nat
    OBVIOUS
  <2>1. Closed(t) <=> t < n
    BY <1>1 DEF Closed
  <2>2. thunks'[t].offset = thunks[t].offset
          /\ Len(thunks'[t].symbols) = Len(thunks[t].symbols)
    <3>1. CASE t = n
      BY <3>1, <1>6, <1>7
    <3>2. CASE t # n
      BY <3>2, <1>7
    <3> QED
      BY <3>1, <3>2
  <2>3. thunks[t].offset \in Nat /\ ThunkEnd(t) \in Nat
    BY <1>5, ThunkFacts DEF IInv
  <2> QED
    BY <2>1, <2>2, <2>3 DEF ThunkEnd
<1>10. /\ thunks[n].offset = offset /\ offset' = ThunkEnd(n)
       /\ offset' \in Nat /\ offset <= offset' /\ offset' <= offset + MaxThunkSize
  <2>1. thunks[n].offset = offset
    BY <1>1 DEF IInv, ThunksPlaced
  <2>2. offset' = ThunkEnd(n)
    BY <2>1, <1>6, <1>b DEF ThunkEnd
  <2>3. Len(thunks[n].symbols) * EntrySize <= MaxThunkSize
    BY <1>5 DEF WithinLimits
  <2>4. Len(syms) * EntrySize \in Nat
    BY <1>6, MulNat, Bounds, Len(syms) \in Nat
  <2> DEFINE x == Len(syms) * EntrySize
  <2>5. x \in Nat /\ x <= MaxThunkSize /\ offset' = offset + x
    BY <2>3, <2>4, <1>6, <1>b
  <2> HIDE DEF x
  <2>6. offset' \in Nat /\ offset <= offset' /\ offset' <= offset + MaxThunkSize
    BY <2>5, <1>3, Bounds
  <2> QED
    BY <2>1, <2>2, <2>6
<1>11. Types' /\ Cursors'
  BY <1>1, <1>2, <1>3, <1>10 DEF IInv, Types, Cursors, Batched
<1>12. ThunkTypes'
  <2>1. \A x \in Range(syms) : [idx |-> n, pos |-> PosIn(syms, x)] \in Index
    BY <1>6 DEF Index
  <2>2. symThunk' \in [Sym -> Index]
    BY <2>1, <1>c DEF IInv, ThunkTypes
  <2>3. ASSUME NEW k \in 1 .. N
        PROVE  relThunk'[k] \in [DOMAIN inp.rels[k] -> Index]
    <3> SUFFICES ASSUME NEW j \in DOMAIN inp.rels[k] PROVE relThunk'[k][j] \in Index
      BY <1>d
    <3>1. relThunk[k][j] \in Index
      BY DEF IInv, ThunkTypes
    <3>2. CASE k \in Group /\ relThunk[k][j].idx = n
      <4>1. Waits(k, j)
        BY <3>2, <1>1 DEF IInv, IndicesBehind
      <4>2. inp.rels[k][j].sym \in Range(syms)
        BY <4>1, <1>6 DEF Waits
      <4>3. relThunk'[k][j] = [idx |-> n, pos |-> PosIn(syms, inp.rels[k][j].sym)]
        BY <3>2, <1>d
      <4> QED
        BY <2>1, <4>2, <4>3
    <3>3. CASE ~ (k \in Group /\ relThunk[k][j].idx = n)
      BY <3>1, <3>3, <1>d
    <3> QED
      BY <3>2, <3>3
  <2> QED
    BY <1>1, <1>2, <1>5, <1>7, <1>d, <2>2, <2>3 DEF IInv, ThunkTypes
<1>13. \A k \in 1 .. d - 1 : End(k)' = End(k) /\ End(k) \in Nat /\ End(k) <= offset
         /\ k \in 1 .. N
  BY <1>1, PlacedFacts DEF IInv, End, MembersPlaced
<1>14. MembersPlaced'
  <2>1. \A k \in 1 .. d - 1 : End(k)' <= offset'
    BY <1>3, <1>10, <1>13
  <2>2. d # 1
    BY <1>3
  <2> QED
    BY <1>1, <1>2, <1>13, <2>1, <2>2 DEF IInv, MembersPlaced
<1>15. ThunksPlaced'
  <2>1. ASSUME NEW t \in 1 .. n PROVE ThunkEnd(t)' <= offset'
    <3>1. CASE t = n
      BY <3>1, <1>9, <1>10
    <3>2. CASE t # n
      <4>1. ThunkEnd(t) <= offset
        BY <3>2, <1>5, <1>9 DEF IInv, ThunksPlaced
      <4> QED
        BY <4>1, <1>3, <1>9, <1>10
    <3> QED
      BY <3>1, <3>2
  <2>2. \A t, u \in 1 .. n : t < u => ThunkEnd(t)' <= thunks'[u].offset
    <3> SUFFICES ASSUME NEW t \in 1 .. n, NEW u \in 1 .. n, t < u
                 PROVE  ThunkEnd(t)' <= thunks'[u].offset
      OBVIOUS
    <3>1. ThunkEnd(t) <= thunks[u].offset
      BY <1>5 DEF IInv, ThunksPlaced
    <3> QED
      BY <3>1, <1>9
  <2>3. \A k \in 1 .. d - 1 : \A t \in 1 .. n :
          End(k)' <= thunks'[t].offset \/ ThunkEnd(t)' <= off[k]
    BY <1>5, <1>9, <1>13 DEF IInv, ThunksPlaced
  <2> QED
    BY <1>1, <1>7, <1>8, <2>1, <2>2, <2>3 DEF ThunksPlaced
<1>16. offset <= off[b] + MaxDistance - MaxThunkSize + Alignment /\ off[b] \in Nat
  BY <1>1, <1>3, <1>4 DEF IInv, Distances, Limit
<1>17. Distances'
  <2>1. CASE c > N
    BY <2>1, <1>1, <1>2, <1>3 DEF Distances, Batched
  <2>2. CASE c <= N
    <3>1. pc' = "D" /\ c \in 1 .. N /\ c \in 1 .. d - 1
      BY <2>2, <1>1, <1>2, <1>3
    <3> PICK m \in 1 .. N : m = c
      BY <3>1
    <3>2. off[b] + BatchSize <= End(m)
      BY <2>2, <1>1 DEF IInv, Distances, Batched
    <3>3. inp.size \in [1 .. N -> Nat] /\ inp.align \in [1 .. N -> Nat \ {0}]
      BY InputFacts DEF IInv, Types
    <3>4. /\ Limit' = off[m] + MaxDistance - MaxThunkSize
          /\ off[m] \in Nat /\ inp.size[m] \in Nat /\ End(m) = off[m] + inp.size[m]
      BY <3>3, <1>1, <1>3 DEF Limit, End
    <3>5. ASSUME NEW l \in 1 .. N
          PROVE  offset' + inp.align[l] + inp.size[l] <= Limit'
      <4>1. inp.size[m] + inp.size[l] + inp.align[l] + Alignment + MaxThunkSize
              <= BatchSize
        BY DEF WithinLimits, MembersAreSmall
      <4> DEFINE x == inp.size[l]
                 y == inp.align[l]
                 z == inp.size[m]
                 o == off[m]
                 p == off[b]
      <4>2. /\ x \in Nat /\ y \in Nat /\ z \in Nat /\ o \in Nat /\ p \in Nat
            /\ z + x + y + Alignment + MaxThunkSize <= BatchSize
            /\ p + BatchSize <= o + z
            /\ offset <= p + MaxDistance - MaxThunkSize + Alignment
            /\ Limit' = o + MaxDistance - MaxThunkSize
        BY <3>2, <3>3, <3>4, <4>1, <1>16
      <4> HIDE DEF x, y, z, o, p
      <4>3. offset \in Nat /\ offset' \in Nat /\ offset' <= offset + MaxThunkSize
        BY <1>3, <1>10
      <4>6. offset' + y + x <= o + MaxDistance - MaxThunkSize
        BY <4>2, <4>3, RoomForNext
      <4> QED
        BY <4>2, <4>6 DEF x, y
    <3>6. offset' <= Limit'
      <4>1. inp.size[m] \in Nat /\ inp.align[m] \in Nat /\ Limit' \in Int
        <5>1. inp.size[m] \in Nat /\ inp.align[m] \in Nat
          BY <3>3
        <5>2. Limit' \in Int
          BY <3>4, Bounds
        <5> QED
          BY <5>1, <5>2
      <4>2. offset' + inp.align[m] + inp.size[m] <= Limit'
        BY <3>5
      <4> QED
        BY <4>1, <4>2, <1>10
    <3>7. d <= N => offset' + inp'.align[d'] + inp'.size[d'] <= Limit'
      BY <3>5, <1>1, <1>3
    <3> QED
      BY <3>1, <3>6, <3>7, <1>1, <1>2 DEF Distances, Batched
  <2> QED
    BY <2>1, <2>2, <1>2, <1>3
<1>18. SymbolsIndexed'
  <2>1. ASSUME NEW x \in Sym, x \in Range(syms)
        PROVE  /\ symThunk'[x] # NoThunk /\ symThunk'[x].idx = n
               /\ HasEntry(symThunk[x], x)' /\ symThunk[x] = NoThunk /\ x \in flagged
    <3>1. symThunk'[x] = [idx |-> n, pos |-> PosIn(syms, x)]
      BY <2>1, <1>c
    <3>2. symThunk'[x].idx = n /\ symThunk'[x].pos = PosIn(syms, x)
      BY <3>1
    <3>3. symThunk'[x] # NoThunk
      BY <3>2, <1>5 DEF NoThunk
    <3>4. HasEntry(symThunk[x], x)'
      BY <3>2, <2>1, <1>5, <1>6, <1>7 DEF HasEntry
    <3>5. symThunk[x] = NoThunk /\ x \in flagged
      BY <2>1, <1>1, <1>6 DEF IInv, SymbolsIndexed
    <3> QED
      BY <3>2, <3>3, <3>4, <3>5
  <2>2. \A x \in Sym : x \notin Range(syms) => symThunk'[x] = symThunk[x]
    BY <1>c
  <2>3. ASSUME NEW x \in Sym, symThunk'[x] # NoThunk
        PROVE  HasEntry(symThunk[x], x)' /\ thunkIdx' <= symThunk'[x].idx
               /\ x \in flagged'
    <3>1. CASE x \in Range(syms)
      BY <2>1, <3>1, <1>1, <1>5
    <3>2. CASE x \notin Range(syms)
      <4>1. /\ symThunk'[x] = symThunk[x] /\ HasEntry(symThunk[x], x)
            /\ thunkIdx <= symThunk[x].idx /\ Closed(symThunk[x].idx) /\ x \in flagged
        BY <2>2, <2>3, <3>2 DEF IInv, SymbolsIndexed
      <4>2. symThunk[x].idx \in 1 .. n /\ symThunk[x].idx # n
        BY <4>1, <1>5, <1>9 DEF HasEntry
      <4>3. thunks'[symThunk'[x].idx] = thunks[symThunk[x].idx]
        BY <4>1, <4>2, <1>7
      <4>4. HasEntry(symThunk[x], x)'
        BY <4>1, <4>2, <4>3, <1>7 DEF HasEntry
      <4> QED
        BY <4>1, <4>4, <1>1
    <3> QED
      BY <3>1, <3>2
  <2>4. ASSUME NEW x \in flagged' PROVE symThunk'[x] # NoThunk
    <3>1. x \in flagged /\ x \in Sym
      BY <1>1 DEF IInv, ThunkTypes
    <3>2. symThunk[x] # NoThunk \/ Holds(n, x)
      BY <3>1 DEF IInv, SymbolsIndexed
    <3> QED
      BY <3>1, <3>2, <2>1, <2>2, <1>6
  <2>5. ASSUME NEW t \in thunkIdx' .. Len(thunks'), NEW x \in Sym, Holds(t, x)'
        PROVE  symThunk'[x].idx = t
    <3>1. t \in thunkIdx .. n /\ t \in 1 .. n
      BY <1>1, <1>5, <1>7
    <3>2. CASE t = n
      <4>1. x \in Range(syms)
        BY <2>5, <3>2, <1>7 DEF Holds, Range
      <4> QED
        BY <2>1, <4>1, <3>2
    <3>3. CASE t # n
      <4>1. Holds(t, x) /\ Closed(t)
        BY <2>5, <3>1, <3>3, <1>5, <1>7, <1>9 DEF Holds
      <4>2. symThunk[x].idx = t
        BY <4>1, <3>1 DEF IInv, SymbolsIndexed
      <4>3. symThunk[x] # NoThunk
        BY <4>2, <3>1 DEF NoThunk
      <4> QED
        BY <2>1, <2>2, <4>2, <4>3
    <3> QED
      BY <3>2, <3>3
  <2>6. pc' # "scan" /\ pc' # "done"
    BY <1>1
  <2> QED
    BY <1>8, <2>3, <2>4, <2>5, <2>6, NoThunk' = NoThunk DEF SymbolsIndexed, NoThunk
<1>19. BranchesBound'
  <2>1. \A t \in DOMAIN thunks : Closed(t) =>
          t \in DOMAIN thunks' /\ thunks'[t] = thunks[t] /\ Closed(t)'
    BY <1>5, <1>7, <1>8, <1>9
  <2>2. ASSUME NEW k \in 1 .. d - 1, NEW j \in DOMAIN inp.rels[k]
        PROVE  /\ Direct(k, j) => Direct(k, j)'
               /\ relThunk'[k][j] = relThunk[k][j] /\ Via(k, j) => Via(k, j)'
    <3>1. d' \in Nat /\ d <= d'
      BY <1>1, <1>3
    <3> QED
      BY <2>1, <3>1, <1>1, BranchKept DEF IInv
  <2>3. \A k \in 1 .. N : \A j \in DOMAIN inp.rels[k] :
          relThunk'[k][j] = IF k \in Group /\ relThunk[k][j].idx = n
                            THEN [idx |-> n, pos |-> PosIn(syms, inp.rels[k][j].sym)]
                            ELSE relThunk[k][j]
    BY <1>d
  <2>4. ASSUME NEW k \in 1 .. b - 1, NEW j \in DOMAIN inp.rels[k]
        PROVE  Direct(k, j)' \/ Via(k, j)'
    <3>1. k \in 1 .. d - 1 /\ k \in 1 .. N /\ k \notin Group
      BY <1>2, <1>3 DEF Group
    <3>2. Direct(k, j) \/ Via(k, j)
      BY DEF IInv, BranchesBound
    <3> QED
      BY <2>2, <2>3, <3>1, <3>2
  <2>5. ASSUME NEW k \in Group, NEW j \in DOMAIN inp.rels[k]
        PROVE  Direct(k, j)' \/ Via(k, j)'
    <3>1. k \in 1 .. d - 1 /\ k \in 1 .. N
      BY <1>4
    <3>2. j < next[k]
      <4>1. inp.rels[k] \in Seq([off : Nat, sym : Sym])
        BY <3>1, InputFacts DEF IInv, Types
      <4>2. next[k] \in Nat /\ next[k] > Len(inp.rels[k])
        BY <3>1, <1>1 DEF IInv, ThunkTypes
      <4> QED
        BY <4>1, <4>2
    <3>3. Direct(k, j) \/ Via(k, j) \/ Waits(k, j)
      BY <3>2, <1>1 DEF IInv, BranchesBound
    <3>4. CASE Direct(k, j)
      BY <2>2, <3>1, <3>4
    <3>5. CASE Via(k, j)
      <4>1. relThunk[k][j].idx \in DOMAIN thunks /\ Closed(relThunk[k][j].idx)
        BY <3>5 DEF Via, HasEntry
      <4>2. relThunk[k][j].idx # n
        BY <4>1, <1>5, <1>9
      <4>3. relThunk'[k][j] = relThunk[k][j]
        BY <2>3, <3>1, <4>2
      <4> QED
        BY <2>2, <3>1, <3>5, <4>3
    <3>6. CASE Waits(k, j)
      <4> PICK s \in Sym : s = inp.rels[k][j].sym
        BY <3>1, BranchFacts DEF IInv
      <4> PICK i \in Index : i = relThunk'[k][j]
        BY <3>1, <1>1, <1>2, <1>12 DEF ThunkTypes
      <4>1. s \in Range(syms) /\ relThunk[k][j].idx = n
        BY <3>6, <1>6 DEF Waits
      <4>2. i = [idx |-> n, pos |-> PosIn(syms, s)]
        BY <2>3, <3>1, <4>1
      <4>3. i.idx = n /\ i.pos \in DOMAIN syms /\ syms[i.pos] = s
        <5>1. i.idx = n /\ i.pos = PosIn(syms, s)
          BY <4>2
        <5> QED
          BY <5>1, <4>1, <1>6
      <4>4. HasEntry(i, s)'
        BY <4>3, <1>5, <1>7 DEF HasEntry
      <4>5. /\ ThunkAddr(i)' \in Nat /\ offset <= ThunkAddr(i)'
            /\ ThunkAddr(i)' < offset'
        <5>1. thunks'[i.idx].offset = offset /\ ThunkEnd(i.idx)' = offset'
          <6>1. n \in 1 .. n
            BY <1>5
          <6>2. thunks'[n].offset = offset /\ ThunkEnd(n)' = ThunkEnd(n)
            BY <6>1, <1>9, <1>10
          <6> QED
            BY <6>2, <4>3, <1>10 DEF ThunkEnd
        <5>2. /\ ThunkAddr(i)' = offset + (i.pos - 1) * EntrySize
              /\ offset' = offset + Len(syms) * EntrySize
          BY <5>1, <1>b DEF ThunkAddr
        <5>3. i.pos \in 1 .. Len(syms) /\ Len(syms) \in Nat
          BY <4>3, <1>6
        <5> QED
          BY SMTT(30), <5>2, <5>3, <1>3, EntryFacts
      <4>6. off[b] <= From(k, j) /\ From(k, j) <= offset /\ From(k, j) \in Nat
        BY <1>1, GroupFacts
      <4>7. From(k, j)' = From(k, j) /\ inp'.rels[k][j].sym = s
        BY <1>1 DEF From
      <4>8. InRange(From(k, j), ThunkAddr(i))'
        <5> DEFINE f == From(k, j)
                   x == ThunkAddr(i)'
                   p == off[b]
        <5>1. /\ f \in Nat /\ x \in Nat /\ p \in Nat /\ offset \in Nat /\ offset' \in Nat
              /\ p <= f /\ f <= offset /\ offset <= x /\ x < offset'
              /\ offset' <= offset + MaxThunkSize
              /\ offset <= p + MaxDistance - MaxThunkSize + Alignment
          BY <4>5, <4>6, <1>3, <1>10, <1>16
        <5> HIDE DEF f, x, p
        <5>2. -Reach <= x - f
          BY <5>1, Bounds
        <5>3. x - f < Reach
          <6>1. x < p + MaxDistance + Alignment
            BY <5>1, Bounds
          <6>2. p + MaxDistance + Alignment <= f + Reach
            BY <5>1, Bounds
          <6> QED
            BY <5>1, <6>1, <6>2, Bounds
        <5> QED
          BY <5>2, <5>3, <4>7 DEF InRange, f, x
      <4>9. /\ HasEntry(relThunk[k][j], s)' /\ Closed(relThunk[k][j].idx)'
            /\ InRange(From(k, j), ThunkAddr(relThunk[k][j]))'
        BY <4>4, <4>8, <1>1 DEF HasEntry, ThunkAddr, Closed
      <4> QED
        BY <4>7, <4>9 DEF Via
    <3> QED
      BY <3>3, <3>4, <3>5, <3>6
  <2>6. \A k \in 1 .. b' - 1 : k \in 1 .. b - 1 \/ k \in Group
    BY <1>1, <1>3 DEF Group
  <2>7. pc' # "scan"
    BY <1>1
  <2> QED
    BY <1>1, <2>4, <2>5, <2>6, <2>7 DEF BranchesBound
<1>20. IndicesBehind'
  <2> SUFFICES ASSUME NEW k \in 1 .. N, NEW j \in DOMAIN inp.rels[k]
               PROVE  relThunk'[k][j].idx <= n
    BY <1>1, <1>2, <1>7 DEF IndicesBehind
  <2>1. relThunk[k][j].idx <= n
    BY DEF IInv, IndicesBehind
  <2>2. relThunk'[k][j].idx = n \/ relThunk'[k][j] = relThunk[k][j]
    BY <1>d
  <2> QED
    BY <2>1, <2>2
<1> QED
  BY <1>11, <1>12, <1>14, <1>15, <1>17, <1>18, <1>19, <1>20 DEF IInv

-----------------------------------------------------------------------------
(***************************************************************************)
(* The theorems.                                                           *)
(***************************************************************************)
LEMMA NextInv ==
  ASSUME IInv, WithinLimits, WithinLimits', [Next]_vars
  PROVE  IInv'
<1>1. CASE MoveD
  BY <1>1, MoveDInv
<1>2. CASE MoveC
  BY <1>2, MoveCInv
<1>3. CASE MoveA
  BY <1>3, MoveAInv
<1>4. CASE StartThunk
  BY <1>4, StartThunkInv
<1>5. ASSUME NEW k \in Group, ScanReloc(k) PROVE IInv'
  BY <1>5, ScanRelocInv
<1>6. CASE FinishThunk
  BY <1>6, FinishThunkInv
<1>7. CASE ResetAll
  BY <1>7, ResetAllInv
<1>8. CASE UNCHANGED vars
  <2>1. UNCHANGED <<inp, pc, off, a, b, c, d, offset, thunks, thunkIdx,
                    symThunk, flagged, relThunk, next>>
    BY <1>8 DEF vars
  <2>2. N' = N /\ Unset' = Unset /\ NoThunk' = NoThunk
    BY <2>1 DEF N, Unset, NoThunk
  <2>3. Types' /\ ThunkTypes' /\ Cursors'
    BY <2>1, <2>2 DEF IInv, Types, ThunkTypes, Cursors, Batched
  <2>4. MembersPlaced' /\ ThunksPlaced'
    BY <2>1, <2>2 DEF IInv, MembersPlaced, ThunksPlaced, End, ThunkEnd, Closed
  <2>5. Distances'
    BY <2>1, <2>2 DEF IInv, Distances, Limit, End, Batched, Group
  <2>6. SymbolsIndexed'
    BY <2>1, <2>2 DEF IInv, SymbolsIndexed, HasEntry, Holds, Closed
  <2>7. ASSUME NEW k, NEW j
        PROVE  /\ Direct(k, j)' <=> Direct(k, j)
               /\ Via(k, j)' <=> Via(k, j)
               /\ Waits(k, j)' <=> Waits(k, j)
    <3>1. Direct(k, j)' <=> Direct(k, j)
      BY <2>1 DEF Direct, From, Target, Stub, SymAddr
    <3>2. Via(k, j)' <=> Via(k, j)
      BY <2>1 DEF Via, From, HasEntry, Closed, ThunkAddr
    <3>3. Waits(k, j)' <=> Waits(k, j)
      BY <2>1 DEF Waits, Holds
    <3> QED
      BY <3>1, <3>2, <3>3
  <2>8. BranchesBound'
    BY <2>1, <2>7 DEF IInv, BranchesBound, Group
  <2>9. IndicesBehind'
    BY <2>1, <2>2, <2>7 DEF IInv, IndicesBehind
  <2> QED
    BY <2>3, <2>4, <2>5, <2>6, <2>8, <2>9 DEF IInv
<1> QED
  BY <1>1, <1>2, <1>3, <1>4, <1>5, <1>6, <1>7, <1>8 DEF Next, Step, Finished

(* Within the limits, the cursors, the layout, the thunks and the indices  *)
(* that symbols and relocations hold stay consistent at every step of the  *)
(* pass.                                                                   *)
THEOREM Inductive == Spec /\ []WithinLimits => []IInv
<1>1. Init /\ WithinLimits => IInv
  BY InitInv
<1>2. IInv /\ WithinLimits /\ WithinLimits' /\ [Next]_vars => IInv'
  BY NextInv
<1> QED
  BY <1>1, <1>2, PTL DEF Spec

(* However the scan is scheduled, when the pass ends every branch of the   *)
(* section reaches its target, or an entry for it in a thunk: no branch    *)
(* that apply_reloc encodes is out of range.                               *)
THEOREM BranchesReach == Spec /\ []WithinLimits => []BranchesArrive
<1>1. IInv => BranchesArrive
  <2> SUFFICES ASSUME IInv, pc = "done", NEW k \in 1 .. N,
                      NEW j \in DOMAIN inp.rels[k]
               PROVE  Arrives(k, j)
    BY DEF BranchesArrive
  <2>1. b = N + 1 /\ N \in Nat
    BY InputFacts DEF IInv, Cursors, Types
  <2>2. k \in 1 .. b - 1
    BY <2>1
  <2>3. Direct(k, j) \/ Via(k, j)
    BY <2>2 DEF IInv, BranchesBound
  <2> QED
    BY <2>3 DEF Arrives, Direct, Via, From, Target, Stub, HasEntry
<1> QED
  BY <1>1, Inductive, PTL

(* The second half of the comment on the cursors: B <= C <= D. *)
THEOREM CursorOrder == Spec /\ []WithinLimits => []CursorsAreOrdered
<1>1. IInv => CursorsAreOrdered
  <2> SUFFICES ASSUME IInv, pc = "scan" PROVE b <= c /\ c <= d
    BY DEF CursorsAreOrdered
  <2>1. N \in Nat
    BY InputFacts DEF IInv, Types
  <2> QED
    BY <2>1 DEF IInv, Types, Cursors, Batched
<1> QED
  BY <1>1, Inductive, PTL

(* What is placed fits in output_offset. *)
LEMMA TypesFollow ==
  ASSUME IInv, WithinLimits
  PROVE  TypeOK
<1>1. N \in Nat /\ Unset \in Nat
  BY InputFacts, Bounds DEF IInv, Types
<1>2. off \in [1 .. N -> 0 .. Unset]
  <2> SUFFICES ASSUME NEW k \in 1 .. N PROVE off[k] \in 0 .. Unset
    BY DEF IInv, Types
  <2>1. off[k] \in Nat /\ d \in 1 .. N + 1
    BY DEF IInv, Types
  <2>2. CASE k \in 1 .. d - 1
    <3>1. End(k) \in Nat /\ off[k] <= End(k) /\ End(k) < Unset
      BY <2>2, PlacedFacts DEF IInv
    <3> QED
      BY <3>1, <2>1, <1>1
  <2>3. CASE k \in d .. N
    <3>1. off[k] = Unset \/ off[k] = 0
      BY <1>1, <2>3 DEF IInv, MembersPlaced
    <3> QED
      BY <3>1, <1>1
  <2> QED
    BY <2>1, <2>2, <2>3, <1>1
<1>3. thunks \in Seq([offset : Nat, symbols : Seq(Sym)])
  BY DEF IInv, ThunkTypes, Thunk
<1> QED
  BY <1>2, <1>3 DEF IInv, Types, ThunkTypes, TypeOK

(* Members and thunks are apart. *)
LEMMA LayoutFollows ==
  ASSUME IInv, WithinLimits
  PROVE  LayoutIsSound
<1> SUFFICES ASSUME pc = "done"
             PROVE  /\ \A k \in 1 .. N : off[k] % inp.align[k] = 0
                    /\ \A k \in 1 .. N - 1 : off[k] + inp.size[k] <= off[k + 1]
                    /\ \A x, y \in Extents : x = y \/ x[2] <= y[1] \/ y[2] <= x[1]
                    /\ \A x \in Extents : x[2] <= offset
  BY DEF LayoutIsSound
<1>1. N \in Nat /\ d = N + 1 /\ 1 .. N = 1 .. d - 1
  BY InputFacts DEF IInv, Types, Cursors
<1>2. \A k \in 1 .. N : off[k] % inp.align[k] = 0 /\ End(k) <= offset
  BY <1>1 DEF IInv, MembersPlaced
<1>3. \A k, l \in 1 .. N : k < l => End(k) <= off[l]
  BY <1>1 DEF IInv, MembersPlaced
<1>4. \A k \in 1 .. N - 1 : off[k] + inp.size[k] <= off[k + 1]
  <2> SUFFICES ASSUME NEW k \in 1 .. N - 1 PROVE End(k) <= off[k + 1]
    BY DEF End
  <2>1. k \in 1 .. N /\ k + 1 \in 1 .. N /\ k < k + 1
    BY <1>1
  <2> QED
    BY <2>1, <1>3
<1>5. \A t \in DOMAIN thunks : Closed(t) /\ ThunkEnd(t) <= offset
  BY DEF Closed, IInv, ThunksPlaced
<1>6. \A k \in 1 .. N : \A t \in DOMAIN thunks :
        End(k) <= thunks[t].offset \/ ThunkEnd(t) <= off[k]
  BY <1>1 DEF IInv, ThunksPlaced
<1>7. \A t, u \in DOMAIN thunks : t < u => ThunkEnd(t) <= thunks[u].offset
  BY DEF IInv, ThunksPlaced
<1>8. \A x \in Extents : \/ \E k \in 1 .. N : x = <<off[k], End(k)>>
                         \/ \E t \in DOMAIN thunks : x = <<thunks[t].offset, ThunkEnd(t)>>
  BY DEF Extents, End, ThunkEnd
<1>9. \A x \in Extents : x[2] <= offset
  <2> SUFFICES ASSUME NEW x \in Extents PROVE x[2] <= offset
    OBVIOUS
  <2>1. CASE \E k \in 1 .. N : x = <<off[k], End(k)>>
    BY <2>1, <1>2
  <2>2. CASE \E t \in DOMAIN thunks : x = <<thunks[t].offset, ThunkEnd(t)>>
    BY <2>2, <1>5
  <2> QED
    BY <2>1, <2>2, <1>8
<1>10. ASSUME NEW x \in Extents, NEW y \in Extents
       PROVE  x = y \/ x[2] <= y[1] \/ y[2] <= x[1]
  <2>1. CASE \E k \in 1 .. N : x = <<off[k], End(k)>>
    <3> PICK k \in 1 .. N : x = <<off[k], End(k)>>
      BY <2>1
    <3>1. ASSUME NEW l \in 1 .. N, y = <<off[l], End(l)>>
          PROVE  x = y \/ x[2] <= y[1] \/ y[2] <= x[1]
      <4>1. k = l \/ k < l \/ l < k
        BY <1>1
      <4> QED
        BY <3>1, <4>1, <1>3
    <3>2. ASSUME NEW t \in DOMAIN thunks, y = <<thunks[t].offset, ThunkEnd(t)>>
          PROVE  x[2] <= y[1] \/ y[2] <= x[1]
      BY <3>2, <1>6
    <3> QED
      BY <3>1, <3>2, <1>8
  <2>2. CASE \E t \in DOMAIN thunks : x = <<thunks[t].offset, ThunkEnd(t)>>
    <3> PICK t \in DOMAIN thunks : x = <<thunks[t].offset, ThunkEnd(t)>>
      BY <2>2
    <3>1. ASSUME NEW k \in 1 .. N, y = <<off[k], End(k)>>
          PROVE  x[2] <= y[1] \/ y[2] <= x[1]
      BY <3>1, <1>6
    <3>2. ASSUME NEW u \in DOMAIN thunks, y = <<thunks[u].offset, ThunkEnd(u)>>
          PROVE  x = y \/ x[2] <= y[1] \/ y[2] <= x[1]
      <4>1. t \in Nat /\ u \in Nat
        BY DEF IInv, ThunkTypes
      <4>2. t = u \/ t < u \/ u < t
        BY <4>1
      <4> QED
        BY <3>2, <4>2, <1>7
    <3> QED
      BY <3>1, <3>2, <1>8
  <2> QED
    BY <2>1, <2>2, <1>8
<1> QED
  BY <1>2, <1>4, <1>9, <1>10

(* The pass leaves the section laid out without overlaps, every thunk      *)
(* index it hands out during the scan points to a usable entry, and it     *)
(* leaves neither indices nor flags on the symbols.                        *)
THEOREM PassLeavesClean == Spec /\ []WithinLimits => []PassIsClean
<1>1. IInv /\ WithinLimits => PassIsClean
  <2> SUFFICES ASSUME IInv, WithinLimits PROVE PassIsClean
    OBVIOUS
  <2>1. TypeOK /\ LayoutIsSound
    BY TypesFollow, LayoutFollows
  <2>2. Len(thunks) \in Nat /\ DOMAIN thunks = 1 .. Len(thunks)
          /\ thunkIdx \in 1 .. Len(thunks) + 1
    BY DEF IInv, ThunkTypes
  <2>3. ASSUME NEW s \in Sym, symThunk[s] # NoThunk
        PROVE  /\ symThunk[s].idx \in thunkIdx .. Len(thunks)
               /\ thunks[symThunk[s].idx].symbols[symThunk[s].pos] = s
               /\ s \in flagged /\ pc # "done"
    <3>1. HasEntry(symThunk[s], s) /\ thunkIdx <= symThunk[s].idx /\ s \in flagged
      BY <2>3 DEF IInv, SymbolsIndexed
    <3>2. symThunk[s].idx \in thunkIdx .. Len(thunks)
      BY <2>2, <3>1 DEF HasEntry
    <3>3. pc # "done"
      BY <2>2, <3>2 DEF IInv, SymbolsIndexed
    <3> QED
      BY <3>1, <3>2, <3>3 DEF HasEntry
  <2>4. pc = "done" => flagged = {}
    BY <2>3 DEF IInv, SymbolsIndexed, ThunkTypes
  <2>5. SymbolsPointToUsableThunks
    BY <2>3, <2>4 DEF SymbolsPointToUsableThunks
  <2> QED
    BY <2>1, <2>5 DEF PassIsClean
<1> QED
  BY <1>1, Inductive, PTL
=============================================================================
