--------------------------- MODULE ResolveProofs ---------------------------
(***************************************************************************)
(* Proofs that symbols end up with the best live definition, that archive  *)
(* members come in for a reason and that no member that was needed stays   *)
(* behind, for any files, symbols, inputs and schedules of the parallel    *)
(* loops.                                                                  *)
(***************************************************************************)
EXTENDS Resolve, NatFacts

(* What the program is given where the outcome is to be independent of the *)
(* order of the claims: a symbol that a dylib exports weakly, or that a    *)
(* library of -weak-l exports, is exported by that dylib only.             *)
IsWeak(f, x) == inp.kind[f][x] = "weak" \/ f \in inp.weakLibs

WeakExportsAreUnique ==
  \A x \in Sym : \A d, e \in Dylib :
    (Defines(d, x) /\ Defines(e, x) /\ IsWeak(d, x)) => d = e

Types ==
  /\ inp \in Inputs
  /\ phase \in {"objects", "dylibs", "roots", "mark", "clear", "redoDylibs",
                "done"}
  /\ objs \subseteq Obj \cup Member
  /\ dylibs \subseteq Dylib
  /\ alive \subseteq objs \cup dylibs
  /\ sym \in [Sym -> [file : Files \cup {None}, weak : BOOLEAN,
                      common : BOOLEAN, scope : Scopes]]
  /\ claims \subseteq DylibClaims(dylibs)
  /\ clearing \subseteq Files
  /\ scan \subseteq Sym /\ extracts \subseteq Sym /\ again \subseteq Sym
  /\ drain \in {"idle", "resolve", "walk"}
  /\ newObjs \subseteq objs \cap Member
  /\ newLibs \subseteq dylibs
  /\ asked \subseteq Sym

(* What the queue holds in each phase. *)
QueueHolds ==
  /\ phase = "roots" => queue \in Seq(Range(inp.roots))
  /\ phase = "mark" => queue \in Seq(objs \cap alive)
  /\ scan # {} => phase = "mark" /\ queue # <<>>
  /\ drain # "idle" => phase \in {"roots", "mark"}
  /\ (drain # "idle" \/ extracts # {}) /\ phase = "mark" => queue # <<>>
  /\ phase = "done" => claims = {}

(* New files wait for a drain of the frontier only. *)
FrontierPending ==
  /\ newLibs # {} => drain = "resolve"
  /\ newObjs # {} /\ drain = "idle" => extracts # {}
  /\ newObjs # {} /\ drain = "walk" => again # {}
  /\ extracts # {} => phase \in {"roots", "mark"}
  /\ phase = "roots" /\ drain # "idle" => queue = <<>>

(* A symbol belongs to a file that is loaded and defines it, and its flags *)
(* are those of that definition.                                           *)
ClaimsMatch ==
  \A x \in Sym : sym[x].file # None =>
    /\ sym[x].file \in objs \cup dylibs
    /\ Defines(sym[x].file, x)
    /\ sym[x].common = (inp.kind[sym[x].file][x] = "common")
    /\ sym[x].weak = IsWeak(sym[x].file, x)

(* Symbols that a live member may have come in for. *)
Reasons == Wanted \cup UNION {inp.personality[f] : f \in objs \cap alive}

MembersHaveReasons ==
  /\ \A m \in (Member \cap alive) \ inp.live : \E x \in Reasons : Defines(m, x)
  /\ \A m \in objs \ inp.objs : \E x \in Wanted : m \in Range(inp.toc[x])
  /\ extracts \cup again \subseteq Wanted

(* After the clearing only live files own symbols. *)
OwnersAreAlive ==
  /\ phase = "clear" => \A x \in Sym : sym[x].file \in alive \cup clearing \cup {None}
  /\ phase \in {"redoDylibs", "done"} =>
       /\ \A x \in Sym : sym[x].file \in alive \cup {None}
       /\ claims \subseteq DylibClaims(dylibs \cap alive)

(* The second round of claims: no live file whose claim was made ranks     *)
(* above the owner.                                                        *)
BestSoFar ==
  phase \in {"redoDylibs", "done"} =>
    \A x \in Sym :
      /\ \A f \in objs \cap alive :
           Defines(f, x) => SymRank(sym[x]) <= DocumentedRank(f, x)
      /\ \A d \in dylibs \cap alive : (Defines(d, x) /\ <<d, x>> \notin claims)
           => SymRank(sym[x]) <= DocumentedRank(d, x)

IInv == Types /\ QueueHolds /\ ClaimsMatch /\ MembersHaveReasons

-----------------------------------------------------------------------------
(* What the assumptions say of the input of a state. *)
LEMMA InputFacts ==
  ASSUME inp \in Inputs
  PROVE  /\ \A f \in Files : \A x \in Sym : inp.kind[f][x] \in Kinds
         /\ \A d \in Dylib : \A x \in Sym : inp.kind[d][x] # "common"
         /\ \A f \in Files : inp.priority[f] \in 0 .. RankSpan - 1
         /\ \A x \in Sym : inp.toc[x] \in Seq(Member)
         /\ \A m \in Member : inp.autolink[m] \subseteq Dylib
         /\ \A f \in Files : inp.personality[f] \subseteq Sym
         /\ inp.objs \subseteq Obj \cup Member
         /\ inp.weakLibs \subseteq Dylib
         /\ inp.roots \in Seq(Sym) /\ inp.builtin \subseteq Sym
BY InputsAssumption DEF IsInput, Files

(* Ranks are numbers below the rank of a symbol that nobody owns. *)
LEMMA ClassBounds ==
  ASSUME NEW c \in 1 .. 6, NEW p \in 0 .. RankSpan - 1
  PROVE  c * RankSpan + p \in Nat /\ c * RankSpan + p < 7 * RankSpan
<1>1. RankSpan \in Nat \ {0}
  BY FilesAssumption
<1>2. c = 1 \/ c = 2 \/ c = 3 \/ c = 4 \/ c = 5 \/ c = 6
  OBVIOUS
<1> QED
  BY <1>1, <1>2

LEMMA RankType ==
  ASSUME inp \in Inputs, NEW f \in Files, NEW c \in BOOLEAN, NEW w \in BOOLEAN
  PROVE  Rank(f, c, w) \in Nat /\ Rank(f, c, w) < 7 * RankSpan
<1>1. RankClass(f, c, w, f \in alive) \in 1 .. 6
  BY DEF RankClass
<1> QED
  BY <1>1, InputFacts, ClassBounds DEF Rank

LEMMA SymRankType ==
  ASSUME Types, NEW x \in Sym
  PROVE  SymRank(sym[x]) \in Nat
<1>1. sym[x].file \in Files \cup {None} /\ sym[x].common \in BOOLEAN /\ sym[x].weak \in BOOLEAN
  BY DEF Types
<1>2. 7 * RankSpan \in Nat
  BY FilesAssumption
<1> QED
  BY <1>1, <1>2, RankType DEF SymRank, Types

LEMMA DefRankType ==
  ASSUME Types, NEW f \in Files, NEW x \in Sym
  PROVE  /\ DefRank(f, x) \in Nat /\ DefRank(f, x) < 7 * RankSpan
         /\ DocumentedRank(f, x) \in Nat /\ DocumentedRank(f, x) < 7 * RankSpan
BY RankType DEF Types, DefRank, DocumentedRank

(* resolve_object_symbols leaves a symbol to its owner if no new           *)
(* definition ranks above it, and gives it to the best one otherwise.      *)
LEMMA ResolveObjectsFacts ==
  ASSUME Types, NEW S \in SUBSET objs, NEW x \in Sym
  PROVE  \/ /\ ResolveObjects(S)[x] = sym[x]
            /\ \A g \in S : Defines(g, x) => SymRank(sym[x]) <= DefRank(g, x)
         \/ \E f \in S : /\ Defines(f, x) /\ ResolveObjects(S)[x] = ApplyObject(f, x)
                         /\ \A g \in S : Defines(g, x) => DefRank(f, x) <= DefRank(g, x)
<1> DEFINE C == {f \in S : Defines(f, x)}
           b == BestOf(C, x)
<1>0. ResolveObjects(S)[x] = IF C # {} /\ DefRank(b, x) < SymRank(sym[x])
                             THEN ApplyObject(b, x) ELSE sym[x]
  BY DEF ResolveObjects
<1>1. CASE C = {}
  BY <1>0, <1>1
<1>2. CASE C # {}
  <2> DEFINE T == {DefRank(f, x) : f \in C}
  <2>1. \A f \in C : f \in Files /\ DefRank(f, x) \in Nat
    BY DefRankType DEF Types, Files
  <2>2. T \in SUBSET Nat /\ T # {}
    BY <1>2, <2>1
  <2>3. PICK m \in T : \A k \in T : m <= k
    BY <2>2, LeastNatural
  <2>4. \E f \in C : \A g \in C : DefRank(f, x) <= DefRank(g, x)
    BY <2>3
  <2>5. b \in C /\ \A g \in C : DefRank(b, x) <= DefRank(g, x)
    BY <2>4 DEF BestOf
  <2>6. SymRank(sym[x]) \in Nat
    BY SymRankType
  <2> HIDE DEF b, T
  <2>7. CASE DefRank(b, x) < SymRank(sym[x])
    BY <1>0, <1>2, <2>5, <2>7
  <2>8. CASE ~(DefRank(b, x) < SymRank(sym[x]))
    <3>1. ASSUME NEW g \in C PROVE SymRank(sym[x]) <= DefRank(g, x)
      <4>1. DefRank(b, x) <= DefRank(g, x) /\ DefRank(b, x) \in Nat /\ DefRank(g, x) \in Nat
        BY <2>1, <2>5
      <4> QED
        BY <4>1, <2>6, <2>8
    <3> QED
      BY <1>0, <2>8, <3>1
  <2> QED
    BY <2>7, <2>8
<1> QED
  BY <1>1, <1>2

(* So the claims of object files match. *)
LEMMA ObjectsMatch ==
  ASSUME IInv, NEW S \in SUBSET objs, inp' = inp, objs' = objs, dylibs' = dylibs,
         sym' = ResolveObjects(S)
  PROVE  ClaimsMatch' /\ sym' \in [Sym -> [file : Files \cup {None}, weak : BOOLEAN,
                                            common : BOOLEAN, scope : Scopes]]
<1> DEFINE Entry == [file : Files \cup {None}, weak : BOOLEAN, common : BOOLEAN, scope : Scopes]
           Match(x) ==
             sym'[x].file # None =>
               /\ sym'[x].file \in objs \cup dylibs
               /\ Defines(sym'[x].file, x)
               /\ sym'[x].common = (inp.kind[sym'[x].file][x] = "common")
               /\ sym'[x].weak = IsWeak(sym'[x].file, x)
<1>1. ASSUME NEW x \in Sym
      PROVE  sym'[x] \in Entry /\ Match(x)
  <2>1. CASE sym'[x] = sym[x]
    BY <2>1 DEF IInv, Types, ClaimsMatch
  <2>2. ASSUME NEW f \in S, Defines(f, x), sym'[x] = ApplyObject(f, x)
        PROVE  sym'[x] \in Entry /\ Match(x)
    <3>1. f \in Files /\ f \notin inp.weakLibs
      BY InputFacts, FilesAssumption DEF IInv, Types, Files
    <3> QED
      BY <2>2, <3>1 DEF ApplyObject, IsWeak, Scopes
  <2> QED
    BY <2>1, <2>2, ResolveObjectsFacts DEF IInv
<1>2. sym' = [x \in Sym |-> sym'[x]]
  BY DEF ResolveObjects
<1>3. sym' \in [Sym -> Entry]
  BY <1>1, <1>2
<1>4. ClaimsMatch'
  BY <1>1 DEF ClaimsMatch, Defines, IsWeak
<1> QED
  BY <1>3, <1>4
(* The rank at which a dylib claims a symbol. *)
StrongRank(d) == Rank(d, FALSE, FALSE)

(* One symbol is claimed by a dylib, or keeps its owner. *)
LEMMA DylibClaimFacts ==
  ASSUME IInv, NEW d \in dylibs, NEW x \in Sym, Defines(d, x)
  PROVE  \/ ClaimByDylib(d, x) = sym[x] /\ ~(StrongRank(d) < SymRank(sym[x]))
         \/ /\ ClaimByDylib(d, x) = [ file |-> d, common |-> FALSE, scope |-> "global",
                                      weak |-> IsWeak(d, x) ]
            /\ StrongRank(d) < SymRank(sym[x])
BY Zenon DEF ClaimByDylib, IsWeak, StrongRank

LEMMA EntryType ==
  ASSUME NEW d \in Files, NEW w \in BOOLEAN
  PROVE  [file |-> d, common |-> FALSE, scope |-> "global", weak |-> w]
           \in [file : Files \cup {None}, weak : BOOLEAN, common : BOOLEAN, scope : Scopes]
BY DEF Scopes

LEMMA DylibsMatch ==
  ASSUME IInv, NEW d \in dylibs, inp' = inp, objs' = objs, dylibs' = dylibs,
         NEW X \in SUBSET Sym, \A x \in X : Defines(d, x),
         sym' = [x \in Sym |-> IF x \in X THEN ClaimByDylib(d, x) ELSE sym[x]]
  PROVE  ClaimsMatch' /\ sym' \in [Sym -> [file : Files \cup {None}, weak : BOOLEAN,
                                            common : BOOLEAN, scope : Scopes]]
<1> DEFINE Entry == [file : Files \cup {None}, weak : BOOLEAN, common : BOOLEAN, scope : Scopes]
           Match(x) ==
             sym'[x].file # None =>
               /\ sym'[x].file \in objs \cup dylibs
               /\ Defines(sym'[x].file, x)
               /\ sym'[x].common = (inp.kind[sym'[x].file][x] = "common")
               /\ sym'[x].weak = IsWeak(sym'[x].file, x)
<1>1. ASSUME NEW x \in Sym
      PROVE  sym'[x] \in Entry /\ Match(x)
  <2>1. CASE sym'[x] = sym[x]
    BY <2>1 DEF IInv, Types, ClaimsMatch
  <2>2. ASSUME x \in X, sym'[x] = [ file |-> d, common |-> FALSE, scope |-> "global",
                                    weak |-> IsWeak(d, x) ]
        PROVE  sym'[x] \in Entry /\ Match(x)
    <3>1. d \in Files /\ inp.kind[d][x] # "common"
      BY InputFacts DEF IInv, Types, Files
    <3>2. IsWeak(d, x) \in BOOLEAN /\ Defines(d, x) /\ "global" \in Scopes
      BY <2>2 DEF IsWeak, Scopes
    <3>3. sym'[x].file = d /\ sym'[x].common = FALSE /\ sym'[x].weak = IsWeak(d, x)
      BY <2>2
    <3>4. sym'[x] \in Entry
      <4>1. PICK w \in BOOLEAN : w = IsWeak(d, x)
        BY <3>2
      <4>2. sym'[x] = [file |-> d, common |-> FALSE, scope |-> "global", weak |-> w]
        BY <2>2, <4>1
      <4>3. [file |-> d, common |-> FALSE, scope |-> "global", weak |-> w] \in Entry
        BY <3>1, EntryType
      <4> QED
        BY <4>2, <4>3
    <3> QED
      BY <3>1, <3>2, <3>3, <3>4
  <2>3. sym'[x] = IF x \in X THEN ClaimByDylib(d, x) ELSE sym[x]
    OBVIOUS
  <2> QED
    BY <2>1, <2>2, <2>3, DylibClaimFacts
<1>2. sym' = [x \in Sym |-> sym'[x]]
  OBVIOUS
<1>3. sym' \in [Sym -> Entry]
  BY <1>1, <1>2
<1>4. ClaimsMatch'
  BY <1>1 DEF ClaimsMatch, Defines, IsWeak
<1> QED
  BY <1>3, <1>4

(* The owner of a symbol is loaded and defines it. *)
LEMMA OwnerFacts ==
  ASSUME IInv, NEW x \in Sym
  PROVE  OwnerOf(x) \subseteq objs \cup dylibs /\ \A f \in OwnerOf(x) : Defines(f, x)
BY DEF IInv, ClaimsMatch, OwnerOf

(* Extraction loads a member of an archive. *)
LEMMA ExtractFacts ==
  ASSUME Types, NEW x \in Sym, MaybeExtract(x)
  PROVE  /\ objs \subseteq objs' /\ objs' \subseteq Obj \cup Member
         /\ newObjs' \subseteq objs' \cap Member /\ asked' \subseteq Sym
         /\ \A m \in objs' \ objs : m \in Range(inp.toc[x])
<1>1. CASE ~Extracts(x)
  BY <1>1 DEF MaybeExtract, Types
<1>2. CASE Extracts(x)
  <2> DEFINE U == Unloaded(x)
             i == CHOOSE i \in U : \A j \in U : i <= j
  <2>1. inp.toc[x] \in Seq(Member)
    BY InputFacts DEF Types
  <2>2. U \in SUBSET Nat /\ U # {}
    BY <1>2, <2>1 DEF Unloaded, Extracts
  <2>3. \E k \in U : \A j \in U : k <= j
    BY <2>2, LeastNatural
  <2>4. i \in U
    BY <2>3
  <2>5. NextMember(x) = inp.toc[x][i]
    BY DEF NextMember
  <2> HIDE DEF i
  <2>6. NextMember(x) \in Member /\ NextMember(x) \in Range(inp.toc[x])
    BY <2>1, <2>4, <2>5 DEF Unloaded, Range
  <2> QED
    BY <1>2, <2>6 DEF MaybeExtract, Types
<1> QED
  BY <1>1, <1>2

(* Reasons to link a member are never taken back. *)
LEMMA ReasonsGrow ==
  ASSUME IInv, inp' = inp, objs \cap alive \subseteq objs' \cap alive',
         \A m \in (Member \cap alive') \ alive : \E x \in Reasons' : Defines(m, x),
         \A m \in objs' \ objs : \E x \in Wanted' : m \in Range(inp.toc[x]),
         extracts' \cup again' \subseteq Wanted'
  PROVE  MembersHaveReasons'
<1>1. Wanted \subseteq Wanted'
  BY DEF Wanted
<1>2. Reasons \subseteq Reasons'
  BY <1>1 DEF Reasons
<1>3. \A m \in (Member \cap alive') \ inp.live : \E x \in Reasons' : Defines(m, x)
  BY <1>2 DEF IInv, MembersHaveReasons
<1>4. \A m \in objs' \ inp.objs : \E x \in Wanted' : m \in Range(inp.toc[x])
  BY <1>1 DEF IInv, MembersHaveReasons
<1> QED
  BY <1>3, <1>4 DEF MembersHaveReasons, Defines

LEMMA WantedGrows ==
  ASSUME inp' = inp, objs \cap alive \subseteq objs' \cap alive'
  PROVE  Wanted \subseteq Wanted' /\ Reasons \subseteq Reasons'
<1>1. Wanted \subseteq Wanted'
  BY DEF Wanted
<1> QED
  BY <1>1 DEF Reasons
LEMMA ClaimsKept ==
  ASSUME IInv, inp' = inp, objs \cup dylibs \subseteq objs' \cup dylibs',
         \A x \in Sym : /\ sym'[x].file = sym[x].file /\ sym'[x].common = sym[x].common
                        /\ sym'[x].weak = sym[x].weak
  PROVE  ClaimsMatch'
BY DEF IInv, ClaimsMatch, Defines, IsWeak

(* Sequences made of sets of files. *)
LEMMA SetToSeqType ==
  ASSUME NEW S \in SUBSET Files
  PROVE  SetToSeq(S) \in Seq(S) /\ \A q \in SetToSeqs(S) : q \in Seq(S)
<1>1. IsFiniteSet(S)
  BY FilesAssumption, FS_Subset
<1>2. Cardinality(S) \in Nat /\ ExistsBijection(1 .. Cardinality(S), S)
  BY <1>1, FS_CardinalityType
<1>3. \E f \in [1 .. Cardinality(S) -> S] : IsInjective(f)
  BY <1>2 DEF ExistsBijection, Bijection, Injection, IsInjective
<1>4. SetToSeq(S) \in [1 .. Cardinality(S) -> S]
  BY <1>3 DEF SetToSeq
<1>5. \A q \in [1 .. Cardinality(S) -> S] : q \in Seq(S)
  BY <1>2
<1> QED
  BY <1>4, <1>5 DEF SetToSeqs

LEMMA SeqMono ==
  ASSUME NEW S, NEW T, S \subseteq T, NEW q \in Seq(S)
  PROVE  q \in Seq(T)
OBVIOUS

LEMMA ConcatType ==
  ASSUME NEW T, NEW p \in Seq(T), NEW q \in Seq(T)
  PROVE  p \o q \in Seq(T) /\ (p # <<>> => p \o q # <<>>)
OBVIOUS

LEMMA InitIInv == Init => IInv
<1> SUFFICES ASSUME Init PROVE IInv
  OBVIOUS
<1> USE DEF Init
<1>1. Types
  BY InputFacts DEF Types, Unclaimed, Scopes, Files
<1>2. QueueHolds
  BY DEF QueueHolds
<1>3. ClaimsMatch
  BY DEF ClaimsMatch, Unclaimed
<1>4. MembersHaveReasons
  BY DEF MembersHaveReasons
<1> QED
  BY <1>1, <1>2, <1>3, <1>4 DEF IInv

LEMMA FirstObjectsStep ==
  ASSUME IInv, FirstObjects
  PROVE  IInv'
<1> USE DEF FirstObjects
<1>1. ClaimsMatch' /\ sym' \in [Sym -> [file : Files \cup {None}, weak : BOOLEAN,
                                         common : BOOLEAN, scope : Scopes]]
  BY ObjectsMatch
<1>2. Types'
  BY <1>1 DEF IInv, Types, DylibClaims, Defines
<1>3. QueueHolds'
  BY DEF IInv, QueueHolds
<1>4. MembersHaveReasons'
  BY ReasonsGrow, WantedGrows DEF IInv, MembersHaveReasons
<1> QED
  BY <1>1, <1>2, <1>3, <1>4 DEF IInv

LEMMA DylibStepStep ==
  ASSUME IInv, NEW d \in Dylib, NEW x \in Sym, DylibStep(d, x)
  PROVE  IInv'
<1> USE DEF DylibStep
<1>1. d \in dylibs /\ Defines(d, x)
  BY DEF IInv, Types, DylibClaims
<1>2. sym' = [y \in Sym |-> IF y \in {x} THEN ClaimByDylib(d, y) ELSE sym[y]]
  BY DEF IInv, Types
<1>3. ClaimsMatch' /\ sym' \in [Sym -> [file : Files \cup {None}, weak : BOOLEAN,
                                         common : BOOLEAN, scope : Scopes]]
  BY ZenonT(30), <1>1, <1>2, DylibsMatch
<1>4. Types'
  BY <1>3 DEF IInv, Types, DylibClaims, Defines
<1>5. QueueHolds'
  BY DEF IInv, QueueHolds
<1>6. MembersHaveReasons'
  BY ReasonsGrow, WantedGrows DEF IInv, MembersHaveReasons
<1> QED
  BY <1>3, <1>4, <1>5, <1>6 DEF IInv

LEMMA StartMarkStep ==
  ASSUME IInv, StartMark
  PROVE  IInv'
<1> USE DEF StartMark
<1>1. Types'
  BY DEF IInv, Types, DylibClaims, Defines
<1>2. QueueHolds'
  <2>1. inp.roots \in Seq(Range(inp.roots))
    BY InputFacts DEF IInv, Types, Range
  <2> QED
    BY <2>1 DEF IInv, QueueHolds
<1>3. ClaimsMatch'
  BY ClaimsKept
<1>4. MembersHaveReasons'
  BY ReasonsGrow, WantedGrows DEF IInv, MembersHaveReasons
<1> QED
  BY <1>1, <1>2, <1>3, <1>4 DEF IInv

LEMMA RootStepStep ==
  ASSUME IInv, RootStep
  PROVE  IInv'
<1> USE DEF RootStep
<1> DEFINE x == Head(queue)
<1>1. x \in Range(inp.roots) /\ x \in Sym /\ x \in Wanted
  <2>1. queue \in Seq(Range(inp.roots)) /\ queue # <<>>
    BY DEF IInv, QueueHolds
  <2>2. x \in Range(inp.roots)
    BY <2>1
  <2> QED
    BY <2>2, InputFacts DEF IInv, Types, Range, Wanted
<1> HIDE DEF x
<1>2. /\ objs \subseteq objs' /\ objs' \subseteq Obj \cup Member
      /\ newObjs' \subseteq objs' \cap Member /\ asked' \subseteq Sym
      /\ \A m \in objs' \ objs : m \in Range(inp.toc[x])
  BY <1>1, ExtractFacts DEF IInv, x
<1>3. OwnerOf(x) \subseteq objs \cup dylibs /\ \A f \in OwnerOf(x) : Defines(f, x)
  BY <1>1, OwnerFacts
<1>4. alive' = alive \cup OwnerOf(x) /\ extracts' \subseteq extracts \cup {x}
  BY DEF x
<1>5. Types'
  BY <1>1, <1>2, <1>3, <1>4 DEF IInv, Types, DylibClaims, Defines
<1>6. QueueHolds'
  BY DEF IInv, QueueHolds
<1>7. ClaimsMatch'
  BY <1>2, ClaimsKept
<1>8. MembersHaveReasons'
  <2>1. Wanted \subseteq Wanted' /\ Reasons \subseteq Reasons' /\ x \in Reasons'
    BY <1>1, <1>2, <1>4, WantedGrows DEF Reasons
  <2> QED
    BY <1>1, <1>2, <1>3, <1>4, <2>1, ReasonsGrow DEF IInv, MembersHaveReasons
<1> QED
  BY <1>5, <1>6, <1>7, <1>8 DEF IInv
LEMMA DrainFrontierStep ==
  ASSUME IInv, DrainFrontier
  PROVE  IInv'
<1> USE DEF DrainFrontier
<1> DEFINE L == (UNION {inp.autolink[m] : m \in newObjs}) \ dylibs
<1>1. L \subseteq Dylib
  BY InputFacts DEF IInv, Types
<1>2. dylibs' = dylibs \cup L /\ newLibs' = L /\ alive' = alive \cup (L \cap inp.live)
  OBVIOUS
<1> HIDE DEF L
<1>3. Types'
  BY <1>1, <1>2 DEF IInv, Types, DylibClaims, Defines
<1>4. QueueHolds'
  <2>1. objs \cap alive \subseteq objs \cap alive'
    BY <1>2
  <2>2. phase = "mark" => queue \in Seq(objs \cap alive')
    BY <2>1, SeqMono DEF IInv, QueueHolds
  <2> QED
    BY <2>2 DEF IInv, QueueHolds
<1>5. ClaimsMatch'
  BY <1>2, ClaimsKept
<1>6. MembersHaveReasons'
  <2>1. Wanted \subseteq Wanted'
    BY <1>2, WantedGrows
  <2>2. \A m \in (Member \cap alive') \ alive : FALSE
    BY <1>1, <1>2, FilesAssumption
  <2> QED
    BY <1>2, <2>1, <2>2, ReasonsGrow DEF IInv, MembersHaveReasons
<1> QED
  BY <1>3, <1>4, <1>5, <1>6 DEF IInv

LEMMA DrainDylibStep ==
  ASSUME IInv, NEW d \in Dylib, DrainDylib(d)
  PROVE  IInv'
<1> USE DEF DrainDylib
<1> DEFINE X == {x \in Sym : Defines(d, x)}
<1>1. d \in dylibs
  BY DEF IInv, Types
<1>2. sym' = [x \in Sym |-> IF x \in X THEN ClaimByDylib(d, x) ELSE sym[x]]
  OBVIOUS
<1>3. ClaimsMatch' /\ sym' \in [Sym -> [file : Files \cup {None}, weak : BOOLEAN,
                                         common : BOOLEAN, scope : Scopes]]
  <2>1. X \in SUBSET Sym /\ \A x \in X : Defines(d, x)
    OBVIOUS
  <2> HIDE DEF X
  <2> QED
    BY <1>1, <1>2, <2>1, DylibsMatch
<1>4. Types'
  BY <1>3 DEF IInv, Types, DylibClaims, Defines
<1>5. QueueHolds'
  BY DEF IInv, QueueHolds
<1>6. MembersHaveReasons'
  BY ReasonsGrow, WantedGrows DEF IInv, MembersHaveReasons
<1> QED
  BY <1>3, <1>4, <1>5, <1>6 DEF IInv

LEMMA DrainObjectsStep ==
  ASSUME IInv, DrainObjects
  PROVE  IInv'
<1> USE DEF DrainObjects
<1>1. newObjs \in SUBSET objs
  BY DEF IInv, Types
<1>2. ClaimsMatch' /\ sym' \in [Sym -> [file : Files \cup {None}, weak : BOOLEAN,
                                         common : BOOLEAN, scope : Scopes]]
  BY <1>1, ObjectsMatch
<1>3. Types'
  BY <1>2 DEF IInv, Types, DylibClaims, Defines
<1>4. QueueHolds'
  BY DEF IInv, QueueHolds
<1>5. MembersHaveReasons'
  BY ReasonsGrow, WantedGrows DEF IInv, MembersHaveReasons
<1> QED
  BY <1>2, <1>3, <1>4, <1>5 DEF IInv

(* Files that come alive are queued if they are objects. *)
LEMMA ReviveFacts ==
  ASSUME IInv, NEW F \in SUBSET (objs \cup dylibs), Revive(F), objs \subseteq objs'
  PROVE  /\ alive' = alive \cup F
         /\ phase = "mark" => /\ queue' \in Seq(objs' \cap alive')
                              /\ queue # <<>> => queue' # <<>>
         /\ phase = "roots" => queue' = queue
<1> USE DEF Revive
<1> DEFINE R == (F \ alive) \ Dylib
<1>1. alive' = alive \cup F
  OBVIOUS
<1>2. R \in SUBSET Files /\ R \subseteq objs' \cap alive'
  BY <1>1 DEF IInv, Types, Files
<1>3. SetToSeq(R) \in Seq(R)
  BY <1>2, SetToSeqType
<1>4. objs \cap alive \subseteq objs' \cap alive'
  BY <1>1
<1>5. ASSUME phase = "mark"
      PROVE  queue' \in Seq(objs' \cap alive') /\ (queue # <<>> => queue' # <<>>)
  <2>1. queue' = queue \o SetToSeq(R)
    BY <1>5
  <2>2. queue \in Seq(objs' \cap alive')
    BY <1>4, <1>5, SeqMono DEF IInv, QueueHolds
  <2>3. SetToSeq(R) \in Seq(objs' \cap alive')
    BY <1>2, <1>3, SeqMono
  <2> QED
    BY <2>1, <2>2, <2>3, ConcatType
<1> QED
  BY <1>1, <1>5

LEMMA ExtractStepStep ==
  ASSUME IInv, NEW x \in Sym, ExtractStep(x)
  PROVE  IInv'
<1> USE DEF ExtractStep
<1>1. /\ objs \subseteq objs' /\ objs' \subseteq Obj \cup Member
      /\ newObjs' \subseteq objs' \cap Member /\ asked' \subseteq Sym
      /\ \A m \in objs' \ objs : m \in Range(inp.toc[x])
  BY ExtractFacts DEF IInv
<1>2. OwnerOf(x) \subseteq objs \cup dylibs /\ \A f \in OwnerOf(x) : Defines(f, x)
  BY OwnerFacts
<1>3. /\ alive' = alive \cup OwnerOf(x)
      /\ phase = "mark" => queue' \in Seq(objs' \cap alive') /\ (queue # <<>> => queue' # <<>>)
      /\ phase = "roots" => queue' = queue
  BY <1>1, <1>2, ReviveFacts
<1>4. Types'
  BY <1>1, <1>2, <1>3 DEF IInv, Types, DylibClaims, Defines
<1>5. QueueHolds'
  BY <1>3 DEF IInv, QueueHolds
<1>6. ClaimsMatch'
  BY <1>1, ClaimsKept
<1>7. MembersHaveReasons'
  <2>1. x \in Wanted
    BY DEF IInv, MembersHaveReasons
  <2>2. Wanted \subseteq Wanted' /\ x \in Reasons'
    BY <1>1, <1>3, <2>1, WantedGrows DEF Reasons
  <2> QED
    BY <1>1, <1>2, <1>3, <2>2, ReasonsGrow DEF IInv, MembersHaveReasons
<1> QED
  BY <1>4, <1>5, <1>6, <1>7 DEF IInv

LEMMA EndDrainStep ==
  ASSUME IInv, EndDrain
  PROVE  IInv'
<1> USE DEF EndDrain
<1>1. Types'
  BY DEF IInv, Types, DylibClaims, Defines
<1>2. QueueHolds'
  BY DEF IInv, QueueHolds
<1>3. ClaimsMatch'
  BY ClaimsKept
<1>4. MembersHaveReasons'
  BY ReasonsGrow, WantedGrows DEF IInv, MembersHaveReasons
<1> QED
  BY <1>1, <1>2, <1>3, <1>4 DEF IInv

LEMMA CollectLiveStep ==
  ASSUME IInv, CollectLive
  PROVE  IInv'
<1> USE DEF CollectLive
<1> DEFINE keep == (UNION {OwnerOf(x) : x \in inp.builtin}) \cap Dylib
<1>1. keep \subseteq dylibs
  <2>1. \A x \in inp.builtin : OwnerOf(x) \subseteq objs \cup dylibs
    BY OwnerFacts, InputFacts DEF IInv, Types
  <2> SUFFICES ASSUME NEW f \in keep PROVE f \in dylibs
    OBVIOUS
  <2>2. f \in Dylib /\ \E x \in inp.builtin : f \in OwnerOf(x)
    OBVIOUS
  <2>3. f \in Dylib /\ f \in objs \cup dylibs
    BY Zenon, <2>1, <2>2
  <2> QED
    BY <2>3, FilesAssumption DEF IInv, Types
<1>2. alive' = alive \cup keep
  OBVIOUS
<1> HIDE DEF keep
<1>3. PICK live \in SetToSeqs(objs \cap alive) :
        queue' = live /\ scan' = IF live = <<>> THEN {} ELSE ExternSyms(Head(live))
  OBVIOUS
<1>4. queue' \in Seq(objs \cap alive')
  <2>1. objs \cap alive \in SUBSET Files /\ objs \cap alive \subseteq objs \cap alive'
    BY <1>2 DEF IInv, Types, Files
  <2>2. live \in Seq(objs \cap alive)
    BY <2>1, SetToSeqType
  <2> QED
    BY <1>3, <2>1, <2>2, SeqMono
<1>5. scan' \subseteq Sym /\ (scan' # {} => queue' # <<>>)
  BY <1>3 DEF ExternSyms
<1>6. Types'
  BY <1>1, <1>2, <1>5 DEF IInv, Types, DylibClaims, Defines
<1>7. QueueHolds'
  BY <1>4, <1>5 DEF IInv, QueueHolds, AtDrain
<1>8. ClaimsMatch'
  BY ClaimsKept
<1>9. MembersHaveReasons'
  <2>1. Wanted \subseteq Wanted'
    BY <1>2, WantedGrows
  <2>2. \A m \in (Member \cap alive') \ alive : FALSE
    BY <1>1, <1>2, FilesAssumption DEF IInv, Types
  <2> QED
    BY <1>2, <2>1, <2>2, ReasonsGrow DEF IInv, MembersHaveReasons
<1> QED
  BY <1>6, <1>7, <1>8, <1>9 DEF IInv
LEMMA MarkStepStep ==
  ASSUME IInv, NEW x \in Sym, MarkStep(x)
  PROVE  IInv'
<1> USE DEF MarkStep
<1> DEFINE f == Head(queue)
           k == inp.kind[f][x]
           F == IF k = "undef" \/ (k = "common" /\ ~sym[x].common) THEN OwnerOf(x) ELSE {}
<1>1. f \in objs \cap alive /\ queue # <<>>
  BY DEF IInv, QueueHolds
<1>2. k \in {"undef", "common"} => x \in Wanted
  BY <1>1 DEF Wanted
<1> HIDE DEF f
<1>3. /\ objs \subseteq objs' /\ objs' \subseteq Obj \cup Member
      /\ newObjs' \subseteq objs' \cap Member /\ asked' \subseteq Sym
      /\ \A m \in objs' \ objs : x \in Wanted /\ m \in Range(inp.toc[x])
  <2>1. CASE k \in {"undef", "common"}
    BY <1>2, <2>1, ExtractFacts DEF IInv, f
  <2>2. CASE k \notin {"undef", "common"}
    BY <2>2 DEF IInv, Types, f
  <2> QED
    BY <2>1, <2>2
<1>4. extracts' \subseteq extracts \cup {x} /\ (extracts' # extracts => x \in Wanted)
  BY <1>2 DEF f
<1>5. F \in SUBSET (objs \cup dylibs) /\ \A g \in F : Defines(g, x) /\ x \in Wanted
  BY <1>2, OwnerFacts
<1>6. Revive(F)
  BY DEF f
<1> HIDE DEF F
<1>7. /\ alive' = alive \cup F
      /\ queue' \in Seq(objs' \cap alive') /\ queue' # <<>>
  BY <1>1, <1>3, <1>5, <1>6, ReviveFacts
<1>8. /\ sym' \in [Sym -> [file : Files \cup {None}, weak : BOOLEAN,
                           common : BOOLEAN, scope : Scopes]]
      /\ \A y \in Sym : /\ sym'[y].file = sym[y].file /\ sym'[y].common = sym[y].common
                        /\ sym'[y].weak = sym[y].weak
  <2>1. CASE sym' = sym
    BY <2>1 DEF IInv, Types
  <2>2. CASE sym' = [sym EXCEPT ![x].scope = "global"]
    BY <2>2 DEF IInv, Types, Scopes
  <2> QED
    BY <2>1, <2>2 DEF f
<1>9. Types'
  BY <1>3, <1>4, <1>5, <1>7, <1>8 DEF IInv, Types, DylibClaims, Defines
<1>10. QueueHolds'
  BY <1>7 DEF IInv, QueueHolds
<1>11. ClaimsMatch'
  BY <1>3, <1>8, ClaimsKept
<1>12. MembersHaveReasons'
  <2>1. Wanted \subseteq Wanted' /\ Reasons \subseteq Reasons'
    BY <1>3, <1>7, WantedGrows
  <2>2. \A m \in (Member \cap alive') \ alive : \E y \in Reasons' : Defines(m, y)
    BY <1>5, <1>7, <2>1 DEF Reasons
  <2> QED
    BY <1>3, <1>4, <1>7, <2>1, <2>2, ReasonsGrow DEF IInv, MembersHaveReasons
<1> QED
  BY <1>9, <1>10, <1>11, <1>12 DEF IInv

LEMMA EndMarkFileStep ==
  ASSUME IInv, EndMarkFile
  PROVE  IInv'
<1> USE DEF EndMarkFile
<1> DEFINE h == Head(queue)
           F == UNION {OwnerOf(x) : x \in inp.personality[h]}
           R == (F \ alive) \ Dylib
           q == Tail(queue) \o SetToSeq(R)
<1>1. h \in objs \cap alive /\ inp.personality[h] \subseteq Sym
  <2>1. h \in objs \cap alive
    BY DEF IInv, QueueHolds
  <2> QED
    BY <2>1, InputFacts DEF IInv, Types, Files
<1>2. alive' = alive \cup F /\ queue' = q /\ scan' = IF q = <<>> THEN {} ELSE ExternSyms(Head(q))
  OBVIOUS
<1>3. ASSUME NEW g \in F
      PROVE  g \in objs \cup dylibs /\ \E x \in inp.personality[h] : Defines(g, x)
  <2>1. PICK x \in inp.personality[h] : g \in OwnerOf(x)
    OBVIOUS
  <2> QED
    BY <2>1, <1>1, OwnerFacts
<1> HIDE DEF F, h
<1>4. queue' \in Seq(objs \cap alive')
  <2>1. R \in SUBSET Files /\ R \subseteq objs \cap alive'
    BY <1>2, <1>3 DEF IInv, Types, Files
  <2>2. SetToSeq(R) \in Seq(objs \cap alive')
    BY <2>1, SetToSeqType, SeqMono
  <2>3. Tail(queue) \in Seq(objs \cap alive)
    BY DEF IInv, QueueHolds
  <2>4. objs \cap alive \subseteq objs \cap alive'
    BY <1>2
  <2>5. Tail(queue) \in Seq(objs \cap alive')
    BY <2>3, <2>4, SeqMono
  <2> QED
    <3>1. Tail(queue) \o SetToSeq(R) \in Seq(objs \cap alive')
      BY <2>2, <2>5, ConcatType
    <3> QED
      BY <1>2, <3>1
<1>5. scan' \subseteq Sym /\ (scan' # {} => queue' # <<>>)
  BY <1>2 DEF ExternSyms
<1> HIDE DEF q, R
<1>6. Types'
  BY <1>2, <1>3, <1>5 DEF IInv, Types, DylibClaims, Defines
<1>7. QueueHolds'
  BY <1>4, <1>5 DEF IInv, QueueHolds, AtDrain
<1>8. ClaimsMatch'
  BY ClaimsKept
<1>9. MembersHaveReasons'
  <2>1. Wanted \subseteq Wanted' /\ Reasons \subseteq Reasons'
    BY <1>2, WantedGrows
  <2>2. inp.personality[h] \subseteq Reasons'
    BY <1>1, <2>1 DEF Reasons
  <2>3. \A m \in (Member \cap alive') \ alive : \E y \in Reasons' : Defines(m, y)
    BY <1>2, <1>3, <2>2
  <2> QED
    BY <1>2, <2>1, <2>3, ReasonsGrow DEF IInv, MembersHaveReasons
<1> QED
  BY <1>6, <1>7, <1>8, <1>9 DEF IInv

LEMMA EndMarkStep ==
  ASSUME IInv, EndMark
  PROVE  IInv'
<1> USE DEF EndMark
<1>1. Types'
  BY DEF IInv, Types, DylibClaims, Defines, Files
<1>2. QueueHolds'
  BY DEF IInv, QueueHolds
<1>3. ClaimsMatch'
  BY ClaimsKept
<1>4. MembersHaveReasons'
  BY ReasonsGrow, WantedGrows DEF IInv, MembersHaveReasons
<1> QED
  BY <1>1, <1>2, <1>3, <1>4 DEF IInv

LEMMA ClearSymbolsStep ==
  ASSUME IInv, NEW f \in Files, ClearSymbols(f)
  PROVE  IInv'
<1> USE DEF ClearSymbols
<1>1. \A x \in Sym : sym'[x] = Unclaimed \/ sym'[x] = sym[x]
  OBVIOUS
<1>2. Unclaimed \in [file : Files \cup {None}, weak : BOOLEAN, common : BOOLEAN, scope : Scopes]
  BY DEF Unclaimed, Scopes
<1>3. Types'
  <2>1. sym' \in [Sym -> [file : Files \cup {None}, weak : BOOLEAN, common : BOOLEAN,
                          scope : Scopes]]
    BY <1>2 DEF IInv, Types
  <2> QED
    BY <2>1 DEF IInv, Types, DylibClaims, Defines
<1>4. QueueHolds'
  BY DEF IInv, QueueHolds
<1>5. ClaimsMatch'
  <2>1. \A x \in Sym : sym'[x].file # None => sym'[x] = sym[x]
    BY <1>1 DEF Unclaimed
  <2> QED
    BY <2>1 DEF IInv, ClaimsMatch, Defines, IsWeak
<1>6. MembersHaveReasons'
  BY ReasonsGrow, WantedGrows DEF IInv, MembersHaveReasons
<1> QED
  BY <1>3, <1>4, <1>5, <1>6 DEF IInv

LEMMA RedoObjectsStep ==
  ASSUME IInv, RedoObjects
  PROVE  IInv'
<1> USE DEF RedoObjects
<1>1. ClaimsMatch' /\ sym' \in [Sym -> [file : Files \cup {None}, weak : BOOLEAN,
                                         common : BOOLEAN, scope : Scopes]]
  BY ObjectsMatch
<1>2. Types'
  BY <1>1 DEF IInv, Types, DylibClaims, Defines
<1>3. QueueHolds'
  BY DEF IInv, QueueHolds
<1>4. MembersHaveReasons'
  BY ReasonsGrow, WantedGrows DEF IInv, MembersHaveReasons
<1> QED
  BY <1>1, <1>2, <1>3, <1>4 DEF IInv
LEMMA EraseDeadStep ==
  ASSUME IInv, FrontierPending, OwnersAreAlive, EraseDead
  PROVE  IInv'
<1> USE DEF EraseDead
<1>1. Types'
  <2>1. newLibs = {} /\ newObjs = {}
    BY DEF IInv, QueueHolds, FrontierPending
  <2> QED
    BY <2>1 DEF IInv, Types, DylibClaims, Defines
<1>2. QueueHolds'
  BY DEF IInv, QueueHolds
<1>3. ClaimsMatch'
  <2>1. \A x \in Sym : sym[x].file # None => sym[x].file \in objs' \cup dylibs'
    BY DEF IInv, ClaimsMatch, OwnersAreAlive
  <2> QED
    BY <2>1 DEF IInv, ClaimsMatch, Defines, IsWeak
<1>4. MembersHaveReasons'
  BY ReasonsGrow, WantedGrows DEF IInv, MembersHaveReasons
<1> QED
  BY <1>1, <1>2, <1>3, <1>4 DEF IInv

LEMMA StutterStep ==
  ASSUME IInv, UNCHANGED vars
  PROVE  IInv'
<1> USE DEF vars
<1>1. Types' /\ QueueHolds'
  BY DEF IInv, Types, QueueHolds, DylibClaims, Defines
<1>2. ClaimsMatch'
  BY ClaimsKept
<1>3. MembersHaveReasons'
  BY ReasonsGrow, WantedGrows DEF IInv, MembersHaveReasons
<1> QED
  BY <1>1, <1>2, <1>3 DEF IInv

(* Every step keeps types, claims and reasons. *)
LEMMA StepIInv ==
  ASSUME IInv, FrontierPending, OwnersAreAlive, [Next]_vars
  PROVE  IInv'
<1>1. CASE MainStep
  BY <1>1, FirstObjectsStep, StartMarkStep, RootStepStep, CollectLiveStep,
     DrainFrontierStep, DrainDylibStep, DrainObjectsStep, EndDrainStep,
     ExtractStepStep, MarkStepStep, EndMarkFileStep, EndMarkStep, RedoObjectsStep,
     EraseDeadStep DEF MainStep
<1>2. CASE ParallelStep
  BY <1>2, DylibStepStep, ClearSymbolsStep DEF ParallelStep
<1>3. CASE Finished \/ UNCHANGED vars
  BY <1>3, StutterStep DEF Finished
<1> QED
  BY <1>1, <1>2, <1>3 DEF Next

-----------------------------------------------------------------------------
LEMMA PendingStep ==
  ASSUME IInv, FrontierPending, [Next]_vars
  PROVE  FrontierPending'
<1> USE DEF IInv, QueueHolds, FrontierPending
<1>1. CASE FirstObjects \/ StartMark \/ CollectLive \/ EndMarkFile \/ EndMark
             \/ RedoObjects \/ EraseDead
  BY <1>1 DEF FirstObjects, StartMark, CollectLive, EndMarkFile, EndMark, RedoObjects,
              EraseDead, AtDrain
<1>2. CASE RootStep
  BY <1>2 DEF RootStep, MaybeExtract
<1>3. CASE DrainFrontier \/ DrainObjects \/ EndDrain
  BY <1>3 DEF DrainFrontier, DrainObjects, EndDrain, AtDrain
<1>4. ASSUME NEW d \in Dylib, DrainDylib(d) PROVE FrontierPending'
  BY <1>4 DEF DrainDylib
<1>5. ASSUME NEW x \in Sym, ExtractStep(x) PROVE FrontierPending'
  BY <1>5 DEF ExtractStep, MaybeExtract, Revive
<1>6. ASSUME NEW x \in Sym, MarkStep(x) PROVE FrontierPending'
  BY <1>6 DEF MarkStep, MaybeExtract
<1>7. ASSUME NEW d \in Dylib, NEW x \in Sym, DylibStep(d, x) PROVE FrontierPending'
  BY <1>7 DEF DylibStep
<1>8. ASSUME NEW f \in Files, ClearSymbols(f) PROVE FrontierPending'
  BY <1>8 DEF ClearSymbols
<1>9. CASE UNCHANGED vars
  BY <1>9 DEF vars
<1> QED
  BY <1>1, <1>2, <1>3, <1>4, <1>5, <1>6, <1>7, <1>8, <1>9
     DEF Next, MainStep, ParallelStep, Finished

(* The steps of the last round. *)
LEMMA LastPhases ==
  ASSUME IInv, [Next]_vars, phase' \in {"clear", "redoDylibs", "done"}
  PROVE  \/ EndMark
         \/ \E f \in Files : ClearSymbols(f)
         \/ RedoObjects
         \/ phase = "redoDylibs" /\ \E d \in Dylib, x \in Sym : DylibStep(d, x)
         \/ EraseDead
         \/ UNCHANGED vars
<1> USE DEF IInv, QueueHolds
<1>1. ~(FirstObjects \/ StartMark \/ RootStep \/ CollectLive \/ DrainFrontier
          \/ DrainObjects \/ EndDrain \/ EndMarkFile)
  BY DEF FirstObjects, StartMark, RootStep, CollectLive, DrainFrontier, DrainObjects,
         EndDrain, EndMarkFile
<1>2. ASSUME NEW d \in Dylib, DrainDylib(d) PROVE FALSE
  BY <1>2 DEF DrainDylib
<1>3. ASSUME NEW x \in Sym, ExtractStep(x) PROVE FALSE
  BY <1>3 DEF ExtractStep
<1>4. ASSUME NEW x \in Sym, MarkStep(x) PROVE FALSE
  BY <1>4 DEF MarkStep
<1>5. ASSUME NEW d \in Dylib, NEW x \in Sym, DylibStep(d, x) PROVE phase = "redoDylibs"
  BY <1>5 DEF DylibStep
<1> QED
  BY <1>1, <1>2, <1>3, <1>4, <1>5 DEF Next, MainStep, ParallelStep, Finished

LEMMA OwnersStep ==
  ASSUME IInv, OwnersAreAlive, [Next]_vars
  PROVE  OwnersAreAlive'
<1> SUFFICES ASSUME phase' \in {"clear", "redoDylibs", "done"} PROVE OwnersAreAlive'
  BY DEF OwnersAreAlive
<1>1. CASE EndMark
  BY <1>1 DEF EndMark, OwnersAreAlive, IInv, ClaimsMatch
<1>2. ASSUME NEW f \in Files, ClearSymbols(f) PROVE OwnersAreAlive'
  <2> USE <1>2 DEF ClearSymbols
  <2> SUFFICES ASSUME NEW x \in Sym
               PROVE  sym'[x].file \in alive \cup (clearing \ {f}) \cup {None}
    BY DEF OwnersAreAlive
  <2>1. CASE sym[x].file = f
    BY <2>1 DEF Unclaimed
  <2>2. CASE sym[x].file # f
    BY <2>2 DEF OwnersAreAlive
  <2> QED
    BY <2>1, <2>2
<1>3. CASE RedoObjects
  <2> USE <1>3 DEF RedoObjects
  <2> SUFFICES ASSUME NEW x \in Sym PROVE sym'[x].file \in alive \cup {None}
    BY DEF OwnersAreAlive, DylibClaims, Defines
  <2>1. objs \cap alive \in SUBSET objs /\ sym[x].file \in alive \cup {None}
    BY DEF OwnersAreAlive
  <2>2. sym'[x] = sym[x] \/ \E f \in objs \cap alive : sym'[x] = ApplyObject(f, x)
    BY <2>1, ResolveObjectsFacts DEF IInv
  <2>3. ASSUME NEW f \in objs \cap alive, sym'[x] = ApplyObject(f, x)
        PROVE  sym'[x].file \in alive
    BY <2>3 DEF ApplyObject
  <2> QED
    BY <2>1, <2>2, <2>3
<1>4. ASSUME NEW d \in Dylib, NEW x \in Sym, DylibStep(d, x), phase = "redoDylibs"
      PROVE  OwnersAreAlive'
  <2> USE <1>4 DEF DylibStep
  <2>1. d \in alive /\ d \in dylibs /\ Defines(d, x)
    BY DEF OwnersAreAlive, DylibClaims
  <2>2. \A y \in Sym : sym'[y] = sym[y] \/ (y = x /\ sym'[y] = ClaimByDylib(d, x))
    BY DEF IInv, Types
  <2>3. ClaimByDylib(d, x) = sym[x] \/ ClaimByDylib(d, x).file = d
    BY DEF ClaimByDylib
  <2>4. \A y \in Sym : sym'[y].file \in alive \cup {None}
    BY <2>1, <2>2, <2>3 DEF OwnersAreAlive
  <2> QED
    BY <2>4 DEF OwnersAreAlive, DylibClaims, Defines
<1>5. CASE EraseDead
  BY <1>5 DEF EraseDead, OwnersAreAlive, DylibClaims, Defines
<1>6. CASE UNCHANGED vars
  BY <1>6 DEF vars, OwnersAreAlive, DylibClaims, Defines
<1> QED
  BY <1>1, <1>2, <1>3, <1>4, <1>5, <1>6, LastPhases
-----------------------------------------------------------------------------
(* Ranks do not change in a step that leaves the live files alone. *)
LEMMA RanksKept ==
  ASSUME inp' = inp, alive' = alive
  PROVE  /\ \A f, x : DocumentedRank(f, x)' = DocumentedRank(f, x)
         /\ \A f, x : DefRank(f, x)' = DefRank(f, x)
         /\ \A s : SymRank(s)' = SymRank(s)
BY DEF DocumentedRank, DefRank, SymRank, Rank

(* The rank of a claim is the documented rank of the definition. *)
LEMMA OwnerRank ==
  ASSUME NEW s, NEW f, NEW x, s.file = f, f # None,
         s.common = (inp.kind[f][x] = "common"), s.weak = IsWeak(f, x)
  PROVE  SymRank(s) = DocumentedRank(f, x)
BY Zenon DEF SymRank, DocumentedRank, IsWeak

(* For an object file it is the rank that resolve_object_symbols uses. *)
LEMMA ObjectRank ==
  ASSUME IInv, NEW f \in objs, NEW x \in Sym
  PROVE  DocumentedRank(f, x) = DefRank(f, x)
<1>1. f \notin inp.weakLibs
  BY InputFacts, FilesAssumption DEF IInv, Types, Files
<1> QED
  BY <1>1 DEF DocumentedRank, DefRank

(* The documented rank of a dylib, and what can lie above it. *)
LEMMA DylibRank ==
  ASSUME IInv, NEW d \in Dylib, NEW x \in Sym, Defines(d, x)
  PROVE  /\ StrongRank(d) \in Nat
         /\ StrongRank(d) <= DocumentedRank(d, x)
         /\ ~IsWeak(d, x) => DocumentedRank(d, x) = StrongRank(d)
         /\ \A f \in objs \cap alive : StrongRank(d) < DocumentedRank(f, x)
              => DocumentedRank(d, x) <= DocumentedRank(f, x)
<1> DEFINE p == inp.priority[d]
<1>1. p \in 0 .. RankSpan - 1 /\ inp.kind[d][x] # "common" /\ RankSpan \in Nat \ {0}
  BY InputFacts, FilesAssumption DEF IInv, Types, Files
<1>2. StrongRank(d) = 3 * RankSpan + p
  BY DEF StrongRank, Rank, RankClass
<1>3. /\ IsWeak(d, x) => DocumentedRank(d, x) = 4 * RankSpan + p
      /\ ~IsWeak(d, x) => DocumentedRank(d, x) = 3 * RankSpan + p
  BY <1>1 DEF DocumentedRank, IsWeak, Rank, RankClass
<1>4. ASSUME NEW f \in objs \cap alive, StrongRank(d) < DocumentedRank(f, x)
      PROVE  DocumentedRank(d, x) <= DocumentedRank(f, x)
  <2> DEFINE r == inp.priority[f]
  <2>1. r \in 0 .. RankSpan - 1 /\ f \notin Dylib
    BY InputFacts, FilesAssumption DEF IInv, Types, Files
  <2>2. DocumentedRank(f, x) \in {1 * RankSpan + r, 2 * RankSpan + r, 5 * RankSpan + r}
    BY <2>1 DEF DocumentedRank, Rank, RankClass
  <2> HIDE DEF r, p
  <2>3. DocumentedRank(f, x) = 5 * RankSpan + r
    <3>1. ~(3 * RankSpan + p < 1 * RankSpan + r) /\ ~(3 * RankSpan + p < 2 * RankSpan + r)
      BY <1>1, <2>1
    <3> QED
      BY <1>2, <1>4, <2>2, <3>1
  <2> QED
    BY <1>1, <1>3, <2>1, <2>3
<1> HIDE DEF p
<1>5. StrongRank(d) \in Nat
  BY <1>1, <1>2
<1>6. StrongRank(d) <= DocumentedRank(d, x)
  BY <1>1, <1>2, <1>3
<1>7. ~IsWeak(d, x) => DocumentedRank(d, x) = StrongRank(d)
  BY <1>2, <1>3
<1> QED
  BY <1>4, <1>5, <1>6, <1>7
LEMMA BestStep ==
  ASSUME IInv, FrontierPending, OwnersAreAlive, WeakExportsAreUnique, BestSoFar, [Next]_vars
  PROVE  BestSoFar'
<1> SUFFICES ASSUME phase' \in {"redoDylibs", "done"} PROVE BestSoFar'
  BY DEF BestSoFar
<1>0. IInv'
  BY StepIInv
<1>1. CASE RedoObjects
  <2> USE <1>1 DEF RedoObjects
  <2> DEFINE S == objs \cap alive
  <2>1. /\ \A f, x : DocumentedRank(f, x)' = DocumentedRank(f, x)
        /\ \A s : SymRank(s)' = SymRank(s)
        /\ \A f, x : Defines(f, x)' = Defines(f, x)
    BY RanksKept DEF Defines
  <2>2. ASSUME NEW x \in Sym, NEW g \in S, Defines(g, x)
        PROVE  SymRank(sym'[x]) <= DocumentedRank(g, x)
    <3>1. DocumentedRank(g, x) = DefRank(g, x)
      BY ObjectRank
    <3>2. CASE sym'[x] = sym[x] /\ \A h \in S : Defines(h, x) => SymRank(sym[x]) <= DefRank(h, x)
      BY <2>2, <3>1, <3>2
    <3>3. ASSUME NEW f \in S, Defines(f, x), sym'[x] = ApplyObject(f, x),
                 \A h \in S : Defines(h, x) => DefRank(f, x) <= DefRank(h, x)
          PROVE  SymRank(sym'[x]) <= DefRank(g, x)
      <4>1. f # None
        BY FilesAssumption DEF IInv, Types, Files
      <4>2. SymRank(sym'[x]) = DefRank(f, x)
        BY <3>3, <4>1 DEF SymRank, DefRank, ApplyObject
      <4> QED
        BY <2>2, <3>3, <4>2
    <3> QED
      BY <3>1, <3>2, <3>3, ResolveObjectsFacts DEF IInv
  <2>3. \A d \in dylibs \cap alive : \A x \in Sym : Defines(d, x) => <<d, x>> \in claims'
    BY DEF DylibClaims
  <2>4. \A x \in Sym : (SymRank(sym[x]))' = SymRank(sym'[x])
    BY DEF SymRank, Rank
  <2> QED
    BY <2>1, <2>2, <2>3, <2>4 DEF BestSoFar
<1>2. ASSUME NEW d \in Dylib, NEW x \in Sym, DylibStep(d, x), phase = "redoDylibs"
      PROVE  BestSoFar'
  <2> USE <1>2 DEF DylibStep
  <2>1. /\ \A f, y : DocumentedRank(f, y)' = DocumentedRank(f, y)
        /\ \A y \in Sym : (SymRank(sym[y]))' = SymRank(sym'[y])
        /\ \A f, y : Defines(f, y)' = Defines(f, y)
    BY DEF DocumentedRank, SymRank, Rank, Defines
  <2>2. d \in alive /\ d \in dylibs /\ Defines(d, x)
    BY DEF OwnersAreAlive, DylibClaims
  <2>3. /\ \A y \in Sym : y # x => sym'[y] = sym[y]
        /\ sym'[x] = ClaimByDylib(d, x)
    BY DEF IInv, Types
  <2>4. /\ \A f \in Files : DocumentedRank(f, x) \in Nat
        /\ SymRank(sym[x]) \in Nat /\ StrongRank(d) \in Nat
    BY <2>2, DefRankType, SymRankType, DylibRank DEF IInv
  <2>5. \A f \in objs \cap alive : f \in Files
    BY DEF IInv, Types, Files
  <2>6. \A e \in dylibs \cap alive : e \in Files /\ e \in Dylib
    BY DEF IInv, Types, Files
  <2>7. /\ \A f \in objs \cap alive : Defines(f, x) => SymRank(sym[x]) <= DocumentedRank(f, x)
        /\ \A e \in dylibs \cap alive : (Defines(e, x) /\ <<e, x>> \notin claims)
             => SymRank(sym[x]) <= DocumentedRank(e, x)
    BY DEF BestSoFar
  <2>8. /\ \A f \in objs \cap alive : Defines(f, x) => SymRank(sym'[x]) <= DocumentedRank(f, x)
        /\ \A e \in dylibs \cap alive : (Defines(e, x) /\ <<e, x>> \notin claims')
             => SymRank(sym'[x]) <= DocumentedRank(e, x)
    <3>1. \A e \in dylibs \cap alive : <<e, x>> \notin claims' => e = d \/ <<e, x>> \notin claims
      OBVIOUS
    <3>2. CASE StrongRank(d) < SymRank(sym[x])
      <4>1. sym'[x].file = d /\ sym'[x].file # None
        BY <2>2, <2>3, <3>2, FilesAssumption DEF ClaimByDylib, Files, StrongRank
      <4>2. SymRank(sym'[x]) = DocumentedRank(d, x)
        <5>1. /\ sym'[x].common = (inp.kind[d][x] = "common")
              /\ sym'[x].weak = IsWeak(d, x)
          BY <1>0, <4>1 DEF IInv, ClaimsMatch, IsWeak
        <5> QED
          BY <4>1, <5>1, OwnerRank
      <4>3. ASSUME NEW f \in objs \cap alive, Defines(f, x)
            PROVE  DocumentedRank(d, x) <= DocumentedRank(f, x)
        <5>1. StrongRank(d) < DocumentedRank(f, x)
          BY <2>4, <2>5, <2>7, <3>2, <4>3
        <5> QED
          BY <2>2, <5>1, DylibRank
      <4>4. ASSUME NEW e \in dylibs \cap alive, Defines(e, x), <<e, x>> \notin claims'
            PROVE  DocumentedRank(d, x) <= DocumentedRank(e, x)
        <5>1. CASE e = d
          BY <5>1, <2>4, <2>6
        <5>2. CASE e # d
          <6>1. ~IsWeak(d, x)
            BY <2>2, <2>6, <4>4, <5>2 DEF WeakExportsAreUnique
          <6>2. DocumentedRank(d, x) = StrongRank(d)
            BY <2>2, <6>1, DylibRank
          <6>3. SymRank(sym[x]) <= DocumentedRank(e, x)
            BY <2>7, <3>1, <4>4, <5>2
          <6> QED
            BY <2>4, <2>6, <3>2, <6>2, <6>3
        <5> QED
          BY <5>1, <5>2
      <4> QED
        BY <4>2, <4>3, <4>4
    <3>3. CASE ~(StrongRank(d) < SymRank(sym[x]))
      <4>1. sym'[x] = sym[x]
        BY <2>3, <3>3 DEF ClaimByDylib, StrongRank
      <4>2. SymRank(sym[x]) <= DocumentedRank(d, x)
        <5>1. StrongRank(d) <= DocumentedRank(d, x)
          BY <2>2, DylibRank
        <5>2. DocumentedRank(d, x) \in Nat
          BY <2>2, <2>4, <2>6
        <5> QED
          BY <5>1, <5>2, <2>4, <3>3
      <4> QED
        BY <2>7, <3>1, <4>1, <4>2
    <3> QED
      BY <3>2, <3>3
  <2>9. ASSUME NEW y \in Sym, y # x
        PROVE  /\ \A f \in objs \cap alive : Defines(f, y) => SymRank(sym'[y]) <= DocumentedRank(f, y)
               /\ \A e \in dylibs \cap alive : (Defines(e, y) /\ <<e, y>> \notin claims')
                    => SymRank(sym'[y]) <= DocumentedRank(e, y)
    BY <2>3, <2>9 DEF BestSoFar
  <2> QED
    BY <2>1, <2>8, <2>9 DEF BestSoFar
<1>3. CASE EraseDead
  <2> USE <1>3 DEF EraseDead
  <2>1. /\ \A f, y : DocumentedRank(f, y)' = DocumentedRank(f, y)
        /\ \A y \in Sym : (SymRank(sym[y]))' = SymRank(sym[y])
        /\ \A f, y : Defines(f, y)' = Defines(f, y)
    BY DEF DocumentedRank, SymRank, Rank, Defines
  <2> QED
    BY <2>1 DEF BestSoFar
<1>4. CASE UNCHANGED vars
  BY <1>4 DEF vars, BestSoFar, DocumentedRank, SymRank, Rank, Defines
<1>5. ~EndMark /\ ~ \E f \in Files : ClearSymbols(f)
  BY DEF EndMark, ClearSymbols
<1> QED
  BY <1>1, <1>2, <1>3, <1>4, <1>5, LastPhases
-----------------------------------------------------------------------------
(* Types, claims and reasons are kept by every step. *)
THEOREM Inductive == Spec => [](IInv /\ FrontierPending /\ OwnersAreAlive)
<1>1. Init => IInv /\ FrontierPending /\ OwnersAreAlive
  BY InitIInv DEF Init, FrontierPending, OwnersAreAlive
<1>2. IInv /\ FrontierPending /\ OwnersAreAlive /\ [Next]_vars
        => (IInv /\ FrontierPending /\ OwnersAreAlive)'
  BY StepIInv, PendingStep, OwnersStep
<1> QED
  BY <1>1, <1>2, PTL DEF Spec

LEMMA UniqueKept ==
  ASSUME IInv, [Next]_vars
  PROVE  WeakExportsAreUnique' = WeakExportsAreUnique
<1>1. inp' = inp
  BY DEF Next, MainStep, ParallelStep, Finished, vars, FirstObjects, StartMark, RootStep,
    CollectLive, DrainFrontier, DrainDylib, DrainObjects, EndDrain, ExtractStep, MarkStep,
    EndMarkFile, EndMark, RedoObjects, EraseDead, DylibStep, ClearSymbols
<1> QED
  BY <1>1 DEF WeakExportsAreUnique, Defines, IsWeak

(* Where a symbol that is exported weakly has one exporter, the outcome of *)
(* resolve_symbols does not depend on the order of the claims: every       *)
(* symbol belongs to the live definition with the best documented rank.    *)
THEOREM BestDefinitionWins == Spec => [](WeakExportsAreUnique => OwnedByBest)
<1> DEFINE J == WeakExportsAreUnique => BestSoFar
<1>1. Init => J
  BY DEF Init, BestSoFar
<1>2. IInv /\ FrontierPending /\ OwnersAreAlive /\ J /\ [Next]_vars => J'
  <2> SUFFICES ASSUME IInv, FrontierPending, OwnersAreAlive, J, [Next]_vars,
                      WeakExportsAreUnique'
               PROVE  BestSoFar'
    OBVIOUS
  <2> QED
    BY UniqueKept, BestStep
<1>3. IInv /\ OwnersAreAlive /\ J => (WeakExportsAreUnique => OwnedByBest)
  <2> SUFFICES ASSUME IInv, OwnersAreAlive, BestSoFar, phase = "done", NEW x \in Sym
               PROVE  LET D == {f \in Loaded \cap alive : Defines(f, x)}
                      IN  IF D = {} THEN sym[x].file = None
                          ELSE /\ sym[x].file \in D
                               /\ \A f \in D :
                                    DocumentedRank(sym[x].file, x) <= DocumentedRank(f, x)
    BY DEF OwnedByBest
  <2> DEFINE D == {f \in Loaded \cap alive : Defines(f, x)}
  <2>1. sym[x].file # None => sym[x].file \in D
    BY DEF IInv, ClaimsMatch, OwnersAreAlive, Loaded
  <2>2. \A f \in D : f \in Files /\ SymRank(sym[x]) <= DocumentedRank(f, x)
    BY DEF BestSoFar, IInv, Types, QueueHolds, Loaded, Files
  <2>3. ASSUME NEW f \in D PROVE sym[x].file # None
    <3>1. SymRank(sym[x]) <= DocumentedRank(f, x) /\ DocumentedRank(f, x) < 7 * RankSpan
            /\ DocumentedRank(f, x) \in Nat
      BY <2>2, DefRankType DEF IInv
    <3>2. 7 * RankSpan \in Nat
      BY FilesAssumption
    <3>3. SymRank(sym[x]) # 7 * RankSpan
      BY <3>1, <3>2, SymRankType DEF IInv
    <3> QED
      BY <3>3 DEF SymRank
  <2>4. sym[x].file # None => SymRank(sym[x]) = DocumentedRank(sym[x].file, x)
    BY ZenonT(30), OwnerRank DEF IInv, ClaimsMatch
  <2> QED
    BY <2>1, <2>2, <2>3, <2>4
<1> QED
  BY <1>1, <1>2, <1>3, Inductive, PTL DEF Spec

(* State is typed, and archives are not swallowed whole: at every moment a *)
(* loaded member is one that its archive lists for a symbol that is wanted *)
(* now, and a live one defines a wanted symbol or a personality function   *)
(* of a live object (maybe_extract_archive_member, load_archive_member,    *)
(* ObjectFile::mark_live_objects).                                         *)
THEOREM ReasonsHold == Spec => [](TypeOK /\ MembersForAReason)
<1>1. IInv => TypeOK
  BY DEF IInv, Types, TypeOK, DylibClaims
<1>2. IInv => MembersForAReason
  BY DEF IInv, MembersHaveReasons, MembersForAReason, Reasons
<1> QED
  BY <1>1, <1>2, Inductive, PTL

-----------------------------------------------------------------------------
(***************************************************************************)
(* Nothing wanted is left behind in an archive.                            *)
(***************************************************************************)
Offers(x) == Range(inp.toc[x])

(* m answers a reference to y whatever else is in the link: another file   *)
(* that defines y is a dylib, which ranks below the strong definition of m *)
(* even while m is dead.                                                   *)
Clear(m, y) ==
  \A f \in Files : Defines(f, y) =>
    \/ f = m
    \/ /\ f \in Dylib /\ inp.kind[m][y] = "strong"
       /\ inp.priority[m] < inp.priority[f]

(* What the program is given where extraction misses nothing: a table of   *)
(* contents names members that define the symbol, and a member that can be *)
(* extracted for several symbols is the one chosen for each of them.       *)
IndexIsRight ==
  /\ \A x \in Sym : \A m \in Offers(x) : Defines(m, x)
  /\ \A x, y \in Sym : \A m \in (Offers(x) \cap Offers(y)) \ inp.objs :
       x # y => Clear(m, x)

(* Symbols whose member was loaded since the frontier was last drained, and *)
(* the objects loaded for the symbols that are being walked.               *)
Waiting == IF drain = "walk" THEN again ELSE extracts
Read == IF drain = "walk" THEN objs \ newObjs ELSE objs

(* A member is loaded for a symbol of the frontier, which is walked after  *)
(* the member has claimed its symbols.                                     *)
Waits ==
  /\ phase \in {"objects", "dylibs"} =>
       /\ objs = inp.objs /\ newObjs = {} /\ asked = {}
       /\ extracts = {} /\ again = {} /\ drain = "idle"
  /\ phase \in {"roots", "mark"} =>
       /\ inp.objs \subseteq objs
       /\ drain # "walk" => again = {}
       /\ asked \subseteq Waiting
       /\ \A m \in newObjs : m \notin inp.objs /\ \E y \in Waiting : m \in Offers(y)
       /\ \A y \in extracts : Offers(y) \cap Read # {}
       /\ \A y \in again : Offers(y) \cap objs # {}

(* Every object that was resolved has made its claims.                     *)
Claimed ==
  phase \in {"dylibs", "roots", "mark"} =>
    \A f \in objs \ newObjs : \A x \in Sym : Defines(f, x) => sym[x].file # None

(* A member that no other definition can beat holds its symbol.            *)
Held ==
  phase \in {"roots", "mark"} =>
    \A x \in Sym : \A m \in (objs \ newObjs) \ inp.objs :
      Defines(m, x) /\ Clear(m, x) => sym[x].file = m

LiveDefines(x) == \E f \in alive : Defines(f, x)

(* m is kept when the symbol y of the frontier is walked, and defines x.   *)
Supplies(m, y, x) ==
  m \in Offers(y) /\ m \notin inp.objs /\ Defines(m, y) /\ Clear(m, y) /\ Defines(m, x)

(* Nothing more has to be done for x than what is on its way.              *)
Settled(x) ==
  \/ inp.toc[x] = <<>>
  \/ LiveDefines(x)
  \/ x \in extracts \cup again
  \/ \E y \in extracts : \E m \in Read : Supplies(m, y, x)
  \/ \E y \in again : \E m \in objs : Supplies(m, y, x)

InQueue(f, x) == \E i \in 1 .. Len(queue) : queue[i] = f /\ (i = 1 => x \in scan)

RootsLooked ==
  phase = "roots" => \A x \in Range(inp.roots) : x \in Range(queue) \/ Settled(x)

FilesLooked ==
  phase = "mark" =>
    /\ \A x \in Range(inp.roots) : Settled(x)
    /\ \A f \in objs \cap alive : \A x \in Sym :
         inp.kind[f][x] = "undef" => Settled(x) \/ InQueue(f, x)

WantedAnswered ==
  phase \in {"clear", "redoDylibs", "done"} =>
    \A x \in Wanted : inp.toc[x] = <<>> \/ LiveDefines(x)

Looked == RootsLooked /\ FilesLooked /\ WantedAnswered

(* In the end no live definition goes without an owner.                    *)
EndClaimed ==
  /\ phase = "done" => dylibs \subseteq alive
  /\ phase \in {"redoDylibs", "done"} =>
       \A f \in alive : \A x \in Sym :
         Defines(f, x) /\ <<f, x>> \notin claims => sym[x].file # None

Frontier == Waits /\ Claimed /\ Held /\ EndClaimed

(* What is loaded when a member is asked for.                              *)
LEMMA LoadFacts ==
  ASSUME Types, NEW x \in Sym, MaybeExtract(x)
  PROVE  IF Extracts(x)
         THEN \E m \in Offers(x) \cap Member :
                /\ m \notin objs /\ objs' = objs \cup {m}
                /\ newObjs' = newObjs \cup {m} /\ asked' = asked \cup {x}
         ELSE objs' = objs /\ newObjs' = newObjs /\ asked' = asked
<1>1. CASE ~Extracts(x)
  BY <1>1 DEF MaybeExtract
<1>2. CASE Extracts(x)
  <2> DEFINE U == Unloaded(x)
             i == CHOOSE i \in U : \A j \in U : i <= j
  <2>1. inp.toc[x] \in Seq(Member)
    BY InputFacts DEF Types
  <2>2. U \in SUBSET Nat /\ U # {}
    BY <1>2, <2>1 DEF Unloaded, Extracts
  <2>3. \E k \in U : \A j \in U : k <= j
    BY <2>2, LeastNatural
  <2>4. i \in U
    BY <2>3
  <2>5. NextMember(x) = inp.toc[x][i]
    BY DEF NextMember
  <2> HIDE DEF i
  <2>6. NextMember(x) \in Offers(x) \cap Member /\ NextMember(x) \notin objs
    BY <2>1, <2>4, <2>5 DEF Unloaded, Offers, Range
  <2> QED
    BY <1>2, <2>6 DEF MaybeExtract
<1> QED
  BY <1>1, <1>2

(* Nothing is loaded only if the symbol has an owner, waits already, or    *)
(* everything its archives offer is loaded.                                *)
LEMMA NotLoaded ==
  ASSUME Types, NEW x \in Sym, ~Extracts(x), sym[x].file = None, inp.toc[x] # <<>>
  PROVE  x \in asked \/ \E m \in Offers(x) : m \in objs
<1>1. inp.toc[x] \in Seq(Member)
  BY InputFacts DEF Types
<1>2. x \in asked \/ Unloaded(x) = {}
  BY DEF Extracts, ShouldExtract
<1>3. 1 \in DOMAIN inp.toc[x]
  BY <1>1
<1>4. Unloaded(x) = {} => inp.toc[x][1] \in objs
  BY <1>3 DEF Unloaded
<1> QED
  BY <1>2, <1>3, <1>4 DEF Offers, Range

(* Claims never leave a defined symbol without an owner.                   *)
LEMMA ObjectsOwn ==
  ASSUME IInv, NEW S \in SUBSET objs, NEW x \in Sym
  PROVE  /\ sym[x].file # None => ResolveObjects(S)[x].file # None
         /\ \A f \in S : Defines(f, x) => ResolveObjects(S)[x].file # None
<1>1. \A f \in S : f # None /\ f \in Files
  BY FilesAssumption DEF IInv, Types, Files
<1>2. ASSUME NEW f \in S, ResolveObjects(S)[x] = ApplyObject(f, x)
      PROVE  ResolveObjects(S)[x].file # None
  BY <1>1, <1>2 DEF ApplyObject
<1>3. ASSUME ResolveObjects(S)[x] = sym[x],
             \A g \in S : Defines(g, x) => SymRank(sym[x]) <= DefRank(g, x),
             NEW f \in S, Defines(f, x), sym[x].file = None
      PROVE  FALSE
  <2>1. SymRank(sym[x]) = 7 * RankSpan /\ 7 * RankSpan \in Nat
    BY <1>3, FilesAssumption DEF SymRank
  <2>2. DefRank(f, x) \in Nat /\ DefRank(f, x) < 7 * RankSpan
    BY <1>1, DefRankType DEF IInv
  <2>3. SymRank(sym[x]) <= DefRank(f, x)
    BY <1>3
  <2> QED
    BY <2>1, <2>2, <2>3
<1> QED
  BY <1>2, <1>3, ResolveObjectsFacts DEF IInv

LEMMA DylibOwns ==
  ASSUME IInv, NEW d \in dylibs, NEW x \in Sym, Defines(d, x)
  PROVE  ClaimByDylib(d, x).file # None
<1>1. d \in Files /\ d # None
  BY FilesAssumption DEF IInv, Types, Files
<1>2. ASSUME sym[x].file = None PROVE StrongRank(d) < SymRank(sym[x])
  <2>1. StrongRank(d) < 7 * RankSpan
    BY <1>1, RankType DEF IInv, Types, StrongRank
  <2> QED
    BY <1>2, <2>1 DEF SymRank
<1>3. CASE ClaimByDylib(d, x) = sym[x] /\ ~(StrongRank(d) < SymRank(sym[x]))
  BY <1>2, <1>3
<1>4. CASE ClaimByDylib(d, x) = [ file |-> d, common |-> FALSE, scope |-> "global",
                                  weak |-> IsWeak(d, x) ]
  BY <1>1, <1>4
<1> QED
  BY <1>3, <1>4, DylibClaimFacts

(* A dylib that defines the symbol too ranks below a clear definition.     *)
LEMMA ClearBeats ==
  ASSUME IInv, NEW x \in Sym, NEW m \in objs, Defines(m, x), Clear(m, x),
         NEW d \in dylibs, Defines(d, x)
  PROVE  DefRank(m, x) < StrongRank(d)
<1> DEFINE p == inp.priority[m]
           r == inp.priority[d]
<1>1. m \in Files /\ d \in Files /\ m \notin Dylib /\ d # m
  BY FilesAssumption DEF IInv, Types, Files
<1>2. d \in Dylib /\ inp.kind[m][x] = "strong" /\ p < r
  BY <1>1 DEF Clear
<1>3. p \in 0 .. RankSpan - 1 /\ r \in 0 .. RankSpan - 1 /\ RankSpan \in Nat \ {0}
  BY <1>1, InputFacts, FilesAssumption DEF IInv, Types
<1>4. DefRank(m, x) \in {1 * RankSpan + p, 3 * RankSpan + p}
  BY <1>1, <1>2 DEF DefRank, Rank, RankClass
<1>5. StrongRank(d) = 3 * RankSpan + r
  BY <1>2 DEF StrongRank, Rank, RankClass
<1> HIDE DEF p, r
<1> QED
  BY <1>2, <1>3, <1>4, <1>5

(* The rank of a symbol's entry is that of its owner's definition.         *)
LEMMA EntryRank ==
  ASSUME IInv, NEW x \in Sym, sym[x].file # None
  PROVE  SymRank(sym[x]) = DocumentedRank(sym[x].file, x)
BY ZenonT(30), OwnerRank DEF IInv, ClaimsMatch

(* So no dylib takes the symbol from such a member, and the member gets it *)
(* when it claims it.                                                      *)
LEMMA HeldByDylib ==
  ASSUME IInv, NEW x \in Sym, NEW m \in objs, Defines(m, x), Clear(m, x),
         sym[x].file = m, NEW d \in dylibs, Defines(d, x)
  PROVE  ClaimByDylib(d, x) = sym[x]
<1>1. m # None /\ m \in Files /\ d \in Files
  BY FilesAssumption DEF IInv, Types, Files
<1>2. SymRank(sym[x]) = DefRank(m, x)
  BY <1>1, EntryRank, ObjectRank
<1>3. DefRank(m, x) < StrongRank(d)
  BY ClearBeats
<1>4. DefRank(m, x) \in Nat /\ StrongRank(d) \in Nat
  BY <1>1, DefRankType, RankType DEF IInv, Types, StrongRank
<1>5. ~(StrongRank(d) < SymRank(sym[x]))
  BY <1>2, <1>3, <1>4
<1> QED
  BY <1>5, DylibClaimFacts

LEMMA HeldByObjects ==
  ASSUME IInv, NEW S \in SUBSET objs, NEW x \in Sym, NEW m \in objs,
         Defines(m, x), Clear(m, x), m \in S \/ sym[x].file = m
  PROVE  ResolveObjects(S)[x].file = m
<1>1. ASSUME NEW f \in S, Defines(f, x) PROVE f = m
  BY <1>1, FilesAssumption DEF Clear, IInv, Types, Files
<1>2. ASSUME NEW f \in S, Defines(f, x), ResolveObjects(S)[x] = ApplyObject(f, x)
      PROVE  ResolveObjects(S)[x].file = m
  BY <1>1, <1>2 DEF ApplyObject
<1>3. ASSUME ResolveObjects(S)[x] = sym[x], m \in S, SymRank(sym[x]) <= DefRank(m, x),
             sym[x].file # m
      PROVE  FALSE
  <2>1. m \in Files /\ DefRank(m, x) \in Nat /\ DefRank(m, x) < 7 * RankSpan
    BY DefRankType DEF IInv, Types, Files
  <2>2. 7 * RankSpan \in Nat
    BY FilesAssumption
  <2>3. sym[x].file # None
    BY <1>3, <2>1, <2>2 DEF SymRank
  <2> DEFINE o == sym[x].file
  <2>4. o \in objs \cup dylibs /\ Defines(o, x) /\ o # m
    BY <1>3, <2>3 DEF IInv, ClaimsMatch
  <2>5. o \in dylibs
    BY <2>4, FilesAssumption DEF Clear, IInv, Types, Files
  <2>6. SymRank(sym[x]) = DocumentedRank(o, x)
    BY <2>3, EntryRank
  <2>7. o \in Dylib /\ o \in Files
    BY <2>5 DEF IInv, Types, Files
  <2> HIDE DEF o
  <2>8. DefRank(m, x) < StrongRank(o)
    BY <2>4, <2>5, ClearBeats
  <2>9. StrongRank(o) \in Nat /\ StrongRank(o) <= DocumentedRank(o, x)
          /\ DocumentedRank(o, x) \in Nat
    BY <2>4, <2>7, DylibRank, DefRankType DEF IInv
  <2> QED
    BY <1>3, <2>1, <2>6, <2>8, <2>9
<1>4. CASE ResolveObjects(S)[x] = sym[x]
             /\ \A g \in S : Defines(g, x) => SymRank(sym[x]) <= DefRank(g, x)
  BY <1>3, <1>4
<1> QED
  BY <1>2, <1>4, ResolveObjectsFacts DEF IInv

(* A sequence made of a set of files has all of them.                      *)
LEMMA SetToSeqRange ==
  ASSUME NEW S \in SUBSET Files
  PROVE  /\ \A f \in S : \E i \in 1 .. Len(SetToSeq(S)) : SetToSeq(S)[i] = f
         /\ \A q \in SetToSeqs(S) : \A f \in S : \E i \in 1 .. Len(q) : q[i] = f
<1> DEFINE c == Cardinality(S)
<1>1. IsFiniteSet(S)
  BY FilesAssumption, FS_Subset
<1>2. c \in Nat /\ ExistsBijection(1 .. c, S)
  BY <1>1, FS_CardinalityType
<1>3. IsFiniteSet(1 .. c) /\ Cardinality(1 .. c) = c
  <2>1. PICK b : b \in Bijection(1 .. c, S)
    BY <1>2 DEF ExistsBijection
  <2>2. b \in Surjection(1 .. c, S) /\ b \in Injection(1 .. c, S)
    BY <2>1 DEF Bijection
  <2>3. IsFiniteSet(1 .. c)
    BY <1>1, <2>2, FS_Injection
  <2> QED
    BY <2>2, <2>3, FS_Surjection
<1>4. ASSUME NEW q \in [1 .. c -> S], \A i, j \in 1 .. c : q[i] = q[j] => i = j
      PROVE  \A f \in S : \E i \in 1 .. Len(q) : q[i] = f
  <2>1. q \in Injection(1 .. c, S)
    BY <1>4 DEF Injection, IsInjective
  <2>2. q \in Surjection(1 .. c, S)
    BY <1>1, <1>3, <2>1, FS_Injection
  <2>3. Len(q) = c
    BY <1>2
  <2> QED
    BY <2>2, <2>3 DEF Surjection
<1>5. \E f \in [1 .. c -> S] : IsInjective(f)
  BY <1>2 DEF ExistsBijection, Bijection, Injection, IsInjective
<1>6. SetToSeq(S) \in [1 .. c -> S] /\ IsInjective(SetToSeq(S))
  BY <1>5 DEF SetToSeq
<1>7. \A i, j \in 1 .. c : SetToSeq(S)[i] = SetToSeq(S)[j] => i = j
  BY <1>6 DEF IsInjective
<1>8. \A q \in SetToSeqs(S) : q \in [1 .. c -> S] /\ \A i, j \in 1 .. c : q[i] = q[j] => i = j
  BY DEF SetToSeqs
<1> QED
  BY <1>4, <1>6, <1>7, <1>8

(* A symbol for which a member is loaded waits in the frontier.            *)
LEMMA WaitsLoaded ==
  ASSUME IInv, Waits, phase \in {"roots", "mark"}, NEW x \in Sym, MaybeExtract(x),
         inp' = inp, phase' = phase, drain' = drain,
         IF drain = "walk"
         THEN /\ extracts' \subseteq extracts
              /\ again' = IF Extracts(x) THEN again \cup {x} ELSE again
         ELSE /\ again' = again
              /\ extracts' = IF Extracts(x) THEN extracts \cup {x} ELSE extracts
  PROVE  Waits'
<1> USE DEF Waits, Waiting, Read
<1>1. CASE ~Extracts(x)
  BY <1>1, LoadFacts DEF IInv, Offers
<1>2. CASE Extracts(x)
  <2>1. PICK m \in Offers(x) \cap Member :
          /\ m \notin objs /\ objs' = objs \cup {m}
          /\ newObjs' = newObjs \cup {m} /\ asked' = asked \cup {x}
    BY <1>2, LoadFacts DEF IInv
  <2>2. m \notin inp.objs /\ m \in Offers(x)
    BY <2>1
  <2>3. \A y : Offers(y)' = Offers(y)
    BY DEF Offers
  <2>4. CASE drain = "walk"
    <3>1. again' = again \cup {x} /\ extracts' \subseteq extracts
      BY <1>2, <2>4
    <3>2. objs \ newObjs \subseteq objs' \ newObjs'
      BY <2>1
    <3>3. asked' \subseteq again'
      BY <2>1, <2>4, <3>1
    <3>4. \A k \in newObjs' : k \notin inp.objs /\ \E y \in again' : k \in Offers(y)
      BY <2>1, <2>2, <2>4, <3>1
    <3>5. \A y \in extracts' : Offers(y) \cap (objs' \ newObjs') # {}
      BY <2>4, <3>1, <3>2
    <3>6. \A y \in again' : Offers(y) \cap objs' # {}
      BY <2>1, <2>2, <2>4, <3>1
    <3> QED
      BY <2>1, <2>3, <2>4, <3>3, <3>4, <3>5, <3>6
  <2>5. CASE drain # "walk"
    <3>1. again' = {} /\ extracts' = extracts \cup {x}
      BY <1>2, <2>5
    <3>2. asked' \subseteq extracts'
      BY <2>1, <2>5, <3>1
    <3>3. \A k \in newObjs' : k \notin inp.objs /\ \E y \in extracts' : k \in Offers(y)
      BY <2>1, <2>2, <2>5, <3>1
    <3>4. \A y \in extracts' : Offers(y) \cap objs' # {}
      BY <2>1, <2>2, <2>5, <3>1
    <3> QED
      BY <2>1, <2>3, <2>5, <3>1, <3>2, <3>3, <3>4
  <2> QED
    BY <2>4, <2>5
<1> QED
  BY <1>1, <1>2

LEMMA WaitsStep ==
  ASSUME IInv, FrontierPending, Waits, [Next]_vars
  PROVE  Waits'
<1> USE DEF Waits, Waiting, Read
<1>1. CASE FirstObjects
  BY <1>1 DEF FirstObjects
<1>2. CASE StartMark
  BY <1>2 DEF StartMark
<1>3. CASE RootStep
  <2> USE <1>3 DEF RootStep
  <2>1. drain = "idle"
    BY DEF FrontierPending, IInv, Types
  <2>2. Head(queue) \in Sym
    BY InputFacts DEF IInv, QueueHolds, Types, Range
  <2> QED
    BY <2>1, <2>2, WaitsLoaded
<1>4. CASE CollectLive
  BY <1>4 DEF CollectLive, AtDrain, Offers
<1>5. CASE DrainFrontier
  BY <1>5 DEF DrainFrontier, AtDrain, Offers
<1>6. ASSUME NEW d \in Dylib, DrainDylib(d) PROVE Waits'
  BY <1>6 DEF DrainDylib, Offers
<1>7. CASE DrainObjects
  BY <1>7 DEF DrainObjects, Offers
<1>8. CASE EndDrain
  BY <1>8 DEF EndDrain, Offers
<1>9. ASSUME NEW x \in Sym, ExtractStep(x) PROVE Waits'
  <2> USE <1>9 DEF ExtractStep
  <2>1. phase \in {"roots", "mark"}
    BY DEF IInv, QueueHolds
  <2> QED
    BY <2>1, WaitsLoaded
<1>10. ASSUME NEW x \in Sym, MarkStep(x) PROVE Waits'
  <2> USE <1>10 DEF MarkStep
  <2>1. CASE inp.kind[Head(queue)][x] \in {"undef", "common"}
    BY <2>1, WaitsLoaded
  <2>2. CASE inp.kind[Head(queue)][x] \notin {"undef", "common"}
    BY <2>2 DEF Offers
  <2> QED
    BY <2>1, <2>2
<1>11. CASE EndMarkFile
  BY <1>11 DEF EndMarkFile, AtDrain, Offers
<1>12. CASE EndMark \/ RedoObjects \/ EraseDead
  BY <1>12 DEF EndMark, RedoObjects, EraseDead
<1>13. ASSUME NEW d \in Dylib, NEW x \in Sym, DylibStep(d, x) PROVE Waits'
  BY <1>13 DEF DylibStep
<1>14. ASSUME NEW f \in Files, ClearSymbols(f) PROVE Waits'
  BY <1>14 DEF ClearSymbols
<1>15. CASE UNCHANGED vars
  BY <1>15 DEF vars, Offers
<1> QED
  BY <1>1, <1>2, <1>3, <1>4, <1>5, <1>6, <1>7, <1>8, <1>9, <1>10, <1>11, <1>12,
     <1>13, <1>14, <1>15 DEF Next, MainStep, ParallelStep, Finished

(* Before the clearing symbols change owners in these steps only.          *)
LEMMA OwnersChange ==
  ASSUME IInv, [Next]_vars, phase' \in {"dylibs", "roots", "mark"}
  PROVE  \/ FirstObjects
         \/ phase = "dylibs" /\ \E d \in Dylib, x \in Sym : DylibStep(d, x)
         \/ \E d \in Dylib : DrainDylib(d)
         \/ DrainObjects
         \/ /\ phase \in {"dylibs", "roots", "mark"} /\ inp' = inp
            /\ phase = "dylibs" => phase' = "dylibs" \/ StartMark
            /\ objs' \ newObjs' \subseteq objs \ newObjs
            /\ \A y \in Sym : sym'[y].file = sym[y].file
<1> DEFINE Same == /\ phase \in {"dylibs", "roots", "mark"} /\ inp' = inp
                   /\ phase = "dylibs" => phase' = "dylibs" \/ StartMark
                   /\ objs' \ newObjs' \subseteq objs \ newObjs
                   /\ \A y \in Sym : sym'[y].file = sym[y].file
<1>1. CASE StartMark \/ CollectLive \/ DrainFrontier \/ EndDrain \/ EndMarkFile
  BY <1>1 DEF StartMark, CollectLive, DrainFrontier, EndDrain, EndMarkFile, IInv, QueueHolds
<1>2. CASE RootStep
  <2> USE <1>2 DEF RootStep
  <2>1. Head(queue) \in Sym
    BY InputFacts DEF IInv, QueueHolds, Types, Range
  <2>2. objs' \ newObjs' \subseteq objs \ newObjs
    BY <2>1, LoadFacts DEF IInv
  <2> QED
    BY <2>2
<1>3. ASSUME NEW x \in Sym, ExtractStep(x) PROVE Same
  <2> USE <1>3 DEF ExtractStep
  <2>1. objs' \ newObjs' \subseteq objs \ newObjs
    BY LoadFacts DEF IInv
  <2> QED
    BY <2>1 DEF IInv, QueueHolds
<1>4. ASSUME NEW x \in Sym, MarkStep(x) PROVE Same
  <2> USE <1>4 DEF MarkStep
  <2>1. objs' \ newObjs' \subseteq objs \ newObjs
    BY LoadFacts DEF IInv
  <2>2. \A y \in Sym : sym'[y].file = sym[y].file
    BY DEF IInv, Types
  <2> QED
    BY <2>1, <2>2
<1>5. CASE EndMark \/ RedoObjects \/ EraseDead
  BY <1>5 DEF EndMark, RedoObjects, EraseDead
<1>6. ASSUME NEW d \in Dylib, NEW x \in Sym, DylibStep(d, x) PROVE phase = "dylibs"
  BY <1>6 DEF DylibStep
<1>7. ASSUME NEW f \in Files, ClearSymbols(f) PROVE FALSE
  BY <1>7 DEF ClearSymbols
<1>8. CASE UNCHANGED vars
  BY <1>8 DEF vars
<1>9. CASE Finished
  BY <1>9 DEF Finished, vars
<1> QED
  BY <1>1, <1>2, <1>3, <1>4, <1>5, <1>6, <1>7, <1>8, <1>9 DEF Next, MainStep, ParallelStep

(* A dylib that makes some of its claims takes no owner away.              *)
LEMMA DylibsOwn ==
  ASSUME IInv, NEW d \in dylibs, NEW X \in SUBSET Sym, \A x \in X : Defines(d, x),
         sym' = [x \in Sym |-> IF x \in X THEN ClaimByDylib(d, x) ELSE sym[x]]
  PROVE  /\ \A x \in Sym : sym[x].file # None => sym'[x].file # None
         /\ \A x \in X : sym'[x].file # None
         /\ \A x \in Sym : \A m \in objs :
              (Defines(m, x) /\ Clear(m, x) /\ sym[x].file = m) => sym'[x].file = m
<1>1. \A x \in Sym : x \notin X => sym'[x] = sym[x]
  OBVIOUS
<1>2. \A x \in X : sym'[x] = ClaimByDylib(d, x)
  OBVIOUS
<1>3. \A x \in X : sym'[x].file # None
  BY <1>2, DylibOwns
<1>4. ASSUME NEW x \in X, NEW m \in objs, Defines(m, x), Clear(m, x), sym[x].file = m
      PROVE  sym'[x].file = m
  <2>1. ClaimByDylib(d, x) = sym[x]
    BY <1>4, HeldByDylib
  <2> QED
    BY <1>2, <1>4, <2>1
<1> QED
  BY <1>1, <1>3, <1>4

(* The two steps in which a dylib claims, as functions of the table.       *)
LEMMA DylibStepTable ==
  ASSUME IInv, NEW d \in Dylib, NEW x \in Sym, DylibStep(d, x)
  PROVE  /\ d \in dylibs /\ Defines(d, x)
         /\ sym' = [y \in Sym |-> IF y \in {x} THEN ClaimByDylib(d, y) ELSE sym[y]]
<1> USE DEF DylibStep
<1>1. d \in dylibs /\ Defines(d, x)
  BY DEF IInv, Types, DylibClaims
<1>2. sym' = [y \in Sym |-> IF y \in {x} THEN ClaimByDylib(d, y) ELSE sym[y]]
  <2>1. sym = [y \in Sym |-> sym[y]]
    BY DEF IInv, Types
  <2>2. sym' = [y \in Sym |-> IF y = x THEN ClaimByDylib(d, x) ELSE sym[y]]
    BY <2>1
  <2> QED
    BY <2>2
<1> QED
  BY <1>1, <1>2

LEMMA DrainDylibTable ==
  ASSUME IInv, NEW d \in Dylib, DrainDylib(d)
  PROVE  /\ d \in dylibs
         /\ sym' = [y \in Sym |-> IF y \in {z \in Sym : Defines(d, z)}
                                  THEN ClaimByDylib(d, y) ELSE sym[y]]
<1> USE DEF DrainDylib
<1>1. d \in dylibs
  BY DEF IInv, Types
<1>2. sym' = [y \in Sym |-> IF Defines(d, y) THEN ClaimByDylib(d, y) ELSE sym[y]]
  OBVIOUS
<1>3. \A y \in Sym : y \in {z \in Sym : Defines(d, z)} <=> Defines(d, y)
  OBVIOUS
<1> QED
  BY <1>1, <1>2, <1>3

LEMMA ClaimedStep ==
  ASSUME IInv, Claimed, [Next]_vars
  PROVE  Claimed'
<1> SUFFICES ASSUME phase' \in {"dylibs", "roots", "mark"},
                    NEW f \in objs' \ newObjs', NEW x \in Sym, Defines(f, x)'
             PROVE  sym'[x].file # None
  BY DEF Claimed
<1>1. CASE FirstObjects
  <2> USE <1>1 DEF FirstObjects
  <2>1. Defines(f, x) /\ f \in objs /\ sym' = ResolveObjects(objs)
    BY DEF Defines
  <2> QED
    BY <2>1, ObjectsOwn
<1>2. CASE DrainObjects
  <2> USE <1>2 DEF DrainObjects
  <2>1. Defines(f, x) /\ f \in objs /\ sym' = ResolveObjects(newObjs)
    BY DEF Defines
  <2>2. newObjs \in SUBSET objs /\ phase \in {"roots", "mark"}
    BY DEF IInv, Types, QueueHolds
  <2>3. f \notin newObjs => sym[x].file # None
    BY <2>1, <2>2 DEF Claimed
  <2> QED
    BY <2>1, <2>2, <2>3, ObjectsOwn
<1>3. ASSUME phase = "dylibs", NEW d \in Dylib, NEW y \in Sym, DylibStep(d, y)
      PROVE  sym'[x].file # None
  <2>1. Defines(f, x) /\ f \in objs \ newObjs
    BY <1>3 DEF DylibStep, Defines
  <2>2. sym[x].file # None
    BY <1>3, <2>1 DEF Claimed
  <2>3. /\ d \in dylibs /\ Defines(d, y)
        /\ sym' = [z \in Sym |-> IF z \in {y} THEN ClaimByDylib(d, z) ELSE sym[z]]
    BY <1>3, DylibStepTable
  <2>4. {y} \in SUBSET Sym /\ \A z \in {y} : Defines(d, z)
    BY <2>3
  <2> QED
    BY <2>2, <2>3, <2>4, DylibsOwn
<1>4. ASSUME NEW d \in Dylib, DrainDylib(d)
      PROVE  sym'[x].file # None
  <2>1. Defines(f, x) /\ f \in objs \ newObjs /\ phase \in {"roots", "mark"}
    BY <1>4 DEF DrainDylib, Defines, IInv, QueueHolds
  <2>2. sym[x].file # None
    BY <2>1 DEF Claimed
  <2> DEFINE X == {z \in Sym : Defines(d, z)}
  <2>3. /\ d \in dylibs
        /\ sym' = [z \in Sym |-> IF z \in X THEN ClaimByDylib(d, z) ELSE sym[z]]
    BY <1>4, DrainDylibTable
  <2>4. X \in SUBSET Sym /\ \A z \in X : Defines(d, z)
    OBVIOUS
  <2> HIDE DEF X
  <2> QED
    BY <2>2, <2>3, <2>4, DylibsOwn
<1>5. CASE /\ phase \in {"dylibs", "roots", "mark"} /\ inp' = inp
           /\ objs' \ newObjs' \subseteq objs \ newObjs
           /\ \A y \in Sym : sym'[y].file = sym[y].file
  BY <1>5 DEF Claimed, Defines
<1> QED
  BY <1>1, <1>2, <1>3, <1>4, <1>5, OwnersChange

LEMMA HeldStep ==
  ASSUME IInv, Waits, Held, [Next]_vars
  PROVE  Held'
<1> SUFFICES ASSUME phase' \in {"roots", "mark"}, NEW x \in Sym,
                    NEW m \in (objs' \ newObjs') \ inp'.objs,
                    Defines(m, x)', Clear(m, x)'
             PROVE  sym'[x].file = m
  BY DEF Held
<1>1. CASE FirstObjects
  BY <1>1 DEF FirstObjects
<1>2. CASE DrainObjects
  <2> USE <1>2 DEF DrainObjects
  <2>1. Defines(m, x) /\ Clear(m, x) /\ m \in objs \ inp.objs
          /\ sym' = ResolveObjects(newObjs)
    BY DEF Defines, Clear
  <2>2. newObjs \in SUBSET objs /\ phase \in {"roots", "mark"}
    BY DEF IInv, Types, QueueHolds
  <2>3. m \notin newObjs => sym[x].file = m
    BY <2>1, <2>2 DEF Held
  <2> QED
    BY <2>1, <2>2, <2>3, HeldByObjects
<1>3. ASSUME phase = "dylibs", NEW d \in Dylib, NEW y \in Sym, DylibStep(d, y)
      PROVE  FALSE
  BY <1>3 DEF DylibStep
<1>4. ASSUME NEW d \in Dylib, DrainDylib(d)
      PROVE  sym'[x].file = m
  <2>1. Defines(m, x) /\ Clear(m, x) /\ m \in (objs \ newObjs) \ inp.objs
          /\ phase \in {"roots", "mark"}
    BY <1>4 DEF DrainDylib, Defines, Clear, IInv, QueueHolds
  <2>2. sym[x].file = m
    BY <2>1 DEF Held
  <2> DEFINE X == {z \in Sym : Defines(d, z)}
  <2>3. /\ d \in dylibs
        /\ sym' = [z \in Sym |-> IF z \in X THEN ClaimByDylib(d, z) ELSE sym[z]]
    BY <1>4, DrainDylibTable
  <2>4. X \in SUBSET Sym /\ \A z \in X : Defines(d, z)
    OBVIOUS
  <2> HIDE DEF X
  <2> QED
    BY <2>1, <2>2, <2>3, <2>4, DylibsOwn
<1>5. CASE /\ phase \in {"dylibs", "roots", "mark"} /\ inp' = inp
           /\ phase = "dylibs" => phase' = "dylibs" \/ StartMark
           /\ objs' \ newObjs' \subseteq objs \ newObjs
           /\ \A y \in Sym : sym'[y].file = sym[y].file
  <2>1. CASE phase = "dylibs"
    BY <1>5, <2>1 DEF StartMark, Waits
  <2>2. CASE phase \in {"roots", "mark"}
    BY <1>5, <2>2 DEF Held, Defines, Clear
  <2> QED
    BY <1>5, <2>1, <2>2
<1> QED
  BY <1>1, <1>2, <1>3, <1>4, <1>5, OwnersChange

LEMMA EndClaimedStep ==
  ASSUME IInv, OwnersAreAlive, EndClaimed, [Next]_vars
  PROVE  EndClaimed'
<1> SUFFICES ASSUME phase' \in {"redoDylibs", "done"}, NEW f \in alive', NEW x \in Sym,
                    Defines(f, x)', <<f, x>> \notin claims'
             PROVE  sym'[x].file # None
  <2>1. phase' = "done" => dylibs' \subseteq alive'
    <3> SUFFICES ASSUME phase' = "done" PROVE dylibs' \subseteq alive'
      OBVIOUS
    <3>1. CASE EraseDead
      BY <3>1 DEF EraseDead
    <3>2. CASE UNCHANGED vars
      BY <3>2 DEF vars, EndClaimed
    <3>3. ~EndMark /\ ~RedoObjects
      BY DEF EndMark, RedoObjects
    <3>4. ASSUME NEW f \in Files, ClearSymbols(f) PROVE FALSE
      BY <3>4 DEF ClearSymbols
    <3>5. ASSUME phase = "redoDylibs", NEW d \in Dylib, NEW x \in Sym, DylibStep(d, x)
          PROVE  FALSE
      BY <3>5 DEF DylibStep
    <3> QED
      BY <3>1, <3>2, <3>3, <3>4, <3>5, LastPhases
  <2> QED
    BY <2>1 DEF EndClaimed
<1>1. CASE EndMark \/ \E g \in Files : ClearSymbols(g)
  BY <1>1 DEF EndMark, ClearSymbols
<1>2. CASE RedoObjects
  <2> USE <1>2 DEF RedoObjects
  <2>1. Defines(f, x) /\ f \in alive /\ sym' = ResolveObjects(objs \cap alive)
    BY DEF Defines
  <2>2. f \in objs \cap alive
    BY <2>1 DEF DylibClaims, IInv, Types
  <2> QED
    BY <2>1, <2>2, ObjectsOwn
<1>3. ASSUME phase = "redoDylibs", NEW d \in Dylib, NEW y \in Sym, DylibStep(d, y)
      PROVE  sym'[x].file # None
  <2>1. Defines(f, x) /\ f \in alive /\ (<<f, x>> \notin claims \/ x = y)
    BY <1>3 DEF DylibStep, Defines
  <2>2. x # y => sym[x].file # None
    BY <1>3, <2>1 DEF EndClaimed
  <2>3. /\ d \in dylibs /\ Defines(d, y)
        /\ sym' = [z \in Sym |-> IF z \in {y} THEN ClaimByDylib(d, z) ELSE sym[z]]
    BY <1>3, DylibStepTable
  <2>4. {y} \in SUBSET Sym /\ \A z \in {y} : Defines(d, z)
    BY <2>3
  <2> QED
    BY <2>2, <2>3, <2>4, DylibsOwn
<1>4. CASE EraseDead
  BY <1>4 DEF EraseDead, EndClaimed, Defines
<1>5. CASE UNCHANGED vars
  BY <1>5 DEF vars, EndClaimed, Defines
<1> QED
  BY <1>1, <1>2, <1>3, <1>4, <1>5, LastPhases

-----------------------------------------------------------------------------
(* What is settled stays so while the frontier and the live files grow.    *)
LEMMA SettledKept ==
  ASSUME NEW x \in Sym, Settled(x), inp' = inp, alive \subseteq alive',
         objs \subseteq objs', Read \subseteq Read',
         extracts \subseteq extracts', again \subseteq again'
  PROVE  Settled(x)'
<1>1. \A y, m : Supplies(m, y, x)' = Supplies(m, y, x)
  BY DEF Supplies, Offers, Clear, Defines
<1>2. LiveDefines(x) => LiveDefines(x)'
  BY DEF LiveDefines, Defines
<1>3. \A y \in extracts : \A m \in Read : Supplies(m, y, x) =>
        y \in extracts' /\ m \in Read' /\ Supplies(m, y, x)'
  BY <1>1
<1>4. \A y \in again : \A m \in objs : Supplies(m, y, x) =>
        y \in again' /\ m \in objs' /\ Supplies(m, y, x)'
  BY <1>1
<1> QED
  BY <1>2, <1>3, <1>4 DEF Settled

(* A symbol that was just looked at is settled: it has an owner, which is  *)
(* kept, a member was loaded for it, or a member that offers it is on its  *)
(* way for another symbol.                                                 *)
LEMMA LookedAt ==
  ASSUME IInv, Waits, Claimed, IndexIsRight, phase \in {"roots", "mark"}, drain = "idle",
         NEW x \in Sym, MaybeExtract(x), inp' = inp, drain' = drain, again' = again,
         extracts' = IF Extracts(x) THEN extracts \cup {x} ELSE extracts,
         alive \cup OwnerOf(x) \subseteq alive'
  PROVE  Settled(x)'
<1>1. \A y, m : Supplies(m, y, x)' = Supplies(m, y, x)
  BY DEF Supplies, Offers, Clear, Defines
<1>2. CASE sym[x].file # None
  <2>1. sym[x].file \in alive' /\ Defines(sym[x].file, x)
    BY <1>2 DEF OwnerOf, IInv, ClaimsMatch
  <2> QED
    BY <2>1 DEF Settled, LiveDefines, Defines
<1>3. CASE Extracts(x)
  BY <1>3 DEF Settled
<1>4. CASE sym[x].file = None /\ ~Extracts(x) /\ inp.toc[x] # <<>>
  <2>1. objs' = objs /\ extracts' = extracts /\ asked \subseteq extracts
    BY <1>4, LoadFacts DEF IInv, Waits, Waiting
  <2>2. x \in asked \/ \E m \in Offers(x) : m \in objs
    BY <1>4, NotLoaded DEF IInv
  <2>3. CASE x \in asked
    BY <2>1, <2>3 DEF Settled
  <2>4. ASSUME NEW m \in Offers(x), m \in objs PROVE Settled(x)'
    <3>1. Defines(m, x)
      BY DEF IndexIsRight
    <3>2. m \in newObjs
      BY <1>4, <2>4, <3>1 DEF Claimed
    <3>3. m \notin inp.objs /\ \E y \in extracts : m \in Offers(y)
      BY <3>2 DEF Waits, Waiting
    <3>4. PICK y \in extracts : m \in Offers(y)
      BY <3>3
    <3>5. CASE y = x
      BY <2>1, <3>4, <3>5 DEF Settled
    <3>6. CASE y # x
      <4>1. y \in Sym
        BY <3>4 DEF IInv, Types
      <4>2. Supplies(m, y, x)
        BY <3>1, <3>3, <3>4, <3>6, <4>1 DEF IndexIsRight, Supplies
      <4>3. m \in Read' /\ y \in extracts'
        BY <2>1, <2>4, <3>4 DEF Read
      <4> QED
        BY <1>1, <4>2, <4>3 DEF Settled
    <3> QED
      BY <3>5, <3>6
  <2> QED
    BY <2>2, <2>3, <2>4
<1>5. CASE inp.toc[x] = <<>>
  BY <1>5 DEF Settled
<1> QED
  BY <1>2, <1>3, <1>4, <1>5

(* Walking a symbol of the frontier keeps the file that answered it, and   *)
(* with it the answers to what the file was to supply.                     *)
LEMMA SettledWalked ==
  ASSUME IInv, Waits, Claimed, Held, IndexIsRight, NEW y \in Sym, ExtractStep(y),
         NEW x \in Sym, Settled(x)
  PROVE  Settled(x)'
<1> USE DEF ExtractStep
<1>0. phase \in {"roots", "mark"}
  BY DEF IInv, QueueHolds
<1>1. \A z, m : Supplies(m, z, x)' = Supplies(m, z, x)
  BY DEF Supplies, Offers, Clear, Defines
<1>2. alive' = alive \cup OwnerOf(y) /\ again \subseteq again' /\ inp' = inp
  BY DEF Revive
<1>3. objs \subseteq objs' /\ objs \ newObjs \subseteq objs' \ newObjs'
  BY LoadFacts DEF IInv
<1>4. CASE inp.toc[x] = <<>>
  BY <1>4 DEF Settled
<1>5. CASE LiveDefines(x)
  BY <1>2, <1>5 DEF Settled, LiveDefines, Defines
<1>6. CASE x \in extracts \cup again /\ x # y
  BY <1>2, <1>6 DEF Settled
<1>7. CASE x = y
  <2>1. PICK m \in Offers(x) : m \in objs \ newObjs
    BY <1>0, <1>7 DEF Waits, Read
  <2>2. Defines(m, x)
    BY <2>1 DEF IndexIsRight
  <2>3. sym[x].file # None
    BY <1>0, <2>1, <2>2 DEF Claimed
  <2>4. sym[x].file \in alive' /\ Defines(sym[x].file, x)
    BY <1>2, <1>7, <2>3 DEF OwnerOf, IInv, ClaimsMatch
  <2> QED
    BY <1>2, <2>4 DEF Settled, LiveDefines, Defines
<1>8. ASSUME NEW z \in extracts, NEW m \in Read, Supplies(m, z, x)
      PROVE  Settled(x)'
  <2>1. m \in objs \ newObjs
    BY DEF Read
  <2>2. CASE z = y
    <3>1. sym[y].file = m
      BY <1>0, <1>8, <2>1, <2>2 DEF Held, Supplies
    <3>2. m # None
      BY <2>1, FilesAssumption DEF IInv, Types, Files
    <3>3. m \in alive'
      BY <1>2, <3>1, <3>2 DEF OwnerOf
    <3> QED
      BY <1>2, <1>8, <3>3 DEF Supplies, Settled, LiveDefines, Defines
  <2>3. CASE z # y
    <3>1. z \in extracts' /\ m \in Read'
      BY <1>3, <2>1, <2>3 DEF Read
    <3> QED
      BY <1>1, <1>8, <3>1 DEF Settled
  <2> QED
    BY <2>2, <2>3
<1>9. ASSUME NEW z \in again, NEW m \in objs, Supplies(m, z, x)
      PROVE  Settled(x)'
  <2>1. z \in again' /\ m \in objs' /\ Supplies(m, z, x)'
    BY <1>1, <1>2, <1>3, <1>9
  <2> QED
    BY <2>1 DEF Settled
<1> QED
  BY <1>4, <1>5, <1>6, <1>7, <1>8, <1>9 DEF Settled

(* The frontier that was collected during a walk is walked next.           *)
LEMMA SettledInNextDrain ==
  ASSUME EndDrain, NEW x \in Sym, Settled(x)
  PROVE  Settled(x)'
<1> USE DEF EndDrain
<1>1. \A z, m : Supplies(m, z, x)' = Supplies(m, z, x)
  BY DEF Supplies, Offers, Clear, Defines
<1>2. ASSUME NEW z \in again, NEW m \in objs, Supplies(m, z, x) PROVE Settled(x)'
  <2>1. z \in extracts' /\ m \in Read' /\ Supplies(m, z, x)'
    BY <1>1, <1>2 DEF Read
  <2> QED
    BY <2>1 DEF Settled
<1>3. CASE inp.toc[x] = <<>> \/ LiveDefines(x) \/ x \in again
  BY <1>3 DEF Settled, LiveDefines, Defines
<1> QED
  BY <1>2, <1>3 DEF Settled

LEMMA SettledGrows ==
  ASSUME IInv, FrontierPending, Waits, Claimed, Held, IndexIsRight, [Next]_vars,
         phase \in {"roots", "mark"}, phase' \in {"roots", "mark"},
         NEW x \in Sym, Settled(x)
  PROVE  Settled(x)'
<1>1. CASE RootStep
  <2> USE <1>1 DEF RootStep
  <2>1. drain = "idle"
    BY DEF FrontierPending, IInv, Types
  <2>2. Head(queue) \in Sym
    BY InputFacts DEF IInv, QueueHolds, Types, Range
  <2>3. objs \subseteq objs'
    BY <2>2, LoadFacts DEF IInv
  <2> QED
    BY <2>1, <2>3, SettledKept DEF Read
<1>2. CASE CollectLive \/ DrainFrontier \/ EndMarkFile
  BY <1>2, SettledKept DEF CollectLive, DrainFrontier, EndMarkFile, Read
<1>3. ASSUME NEW d \in Dylib, DrainDylib(d) PROVE Settled(x)'
  BY <1>3, SettledKept DEF DrainDylib, Read
<1>4. CASE DrainObjects
  <2>1. Read \subseteq Read'
    BY <1>4 DEF DrainObjects, Read
  <2> QED
    BY <1>4, <2>1, SettledKept DEF DrainObjects
<1>5. CASE EndDrain
  BY <1>5, SettledInNextDrain
<1>6. ASSUME NEW y \in Sym, ExtractStep(y) PROVE Settled(x)'
  BY <1>6, SettledWalked
<1>7. ASSUME NEW y \in Sym, MarkStep(y) PROVE Settled(x)'
  <2> USE <1>7 DEF MarkStep
  <2>1. objs \subseteq objs'
    BY LoadFacts DEF IInv
  <2>2. alive \subseteq alive' /\ extracts \subseteq extracts'
    BY DEF Revive
  <2>3. Read \subseteq Read'
    BY <2>1 DEF Read
  <2> QED
    BY <2>1, <2>2, <2>3, SettledKept
<1>8. ~(FirstObjects \/ StartMark \/ EndMark \/ RedoObjects \/ EraseDead)
  BY DEF FirstObjects, StartMark, EndMark, RedoObjects, EraseDead
<1>9. ~ParallelStep
  BY DEF ParallelStep, DylibStep, ClearSymbols
<1>10. CASE UNCHANGED vars
  BY <1>10, SettledKept DEF vars, Read
<1> QED
  BY <1>1, <1>2, <1>3, <1>4, <1>5, <1>6, <1>7, <1>8, <1>9, <1>10
     DEF Next, MainStep, Finished

(* Every root is looked at.                                                *)
LEMMA RootsLookedStep ==
  ASSUME IInv, FrontierPending, Waits, Claimed, Held, IndexIsRight, RootsLooked, [Next]_vars
  PROVE  RootsLooked'
<1> SUFFICES ASSUME phase' = "roots", NEW x \in Range(inp'.roots)
             PROVE  x \in Range(queue') \/ Settled(x)'
  BY DEF RootsLooked
<1>1. CASE StartMark
  BY <1>1 DEF StartMark
<1>2. CASE RootStep
  <2> USE <1>2 DEF RootStep
  <2>1. x \in Sym /\ Head(queue) \in Sym /\ queue \in Seq(Range(inp.roots))
    BY InputFacts DEF IInv, QueueHolds, Types, Range
  <2>2. drain = "idle"
    BY DEF FrontierPending, IInv, Types
  <2>3. CASE x = Head(queue)
    BY <2>1, <2>2, <2>3, LookedAt
  <2>4. CASE x # Head(queue) /\ x \in Range(queue)
    <3>1. PICK i \in DOMAIN queue : queue[i] = x
      BY <2>4 DEF Range
    <3>2. i - 1 \in DOMAIN Tail(queue) /\ Tail(queue)[i - 1] = x
      BY <2>1, <2>4, <3>1
    <3> QED
      BY <3>2 DEF Range
  <2>5. CASE Settled(x)
    BY <2>1, <2>5, SettledGrows
  <2> QED
    BY <2>3, <2>4, <2>5 DEF RootsLooked
<1>3. CASE phase = "roots" /\ queue' = queue /\ inp' = inp
  <2>1. x \in Sym
    BY <1>3, InputFacts DEF IInv, Types, Range
  <2> QED
    BY <1>3, <2>1, SettledGrows DEF RootsLooked
<1>4. CASE \/ DrainFrontier \/ DrainObjects \/ EndDrain \/ Finished \/ UNCHANGED vars
           \/ (\E d \in Dylib : DrainDylib(d)) \/ \E y \in Sym : ExtractStep(y)
  <2>1. phase = "roots" /\ queue' = queue /\ inp' = inp
    BY <1>4 DEF DrainFrontier, DrainObjects, EndDrain, Finished, vars, DrainDylib,
                ExtractStep, Revive
  <2> QED
    BY <2>1, <1>3
<1>5. ~(FirstObjects \/ CollectLive \/ EndMarkFile \/ EndMark \/ RedoObjects \/ EraseDead)
  BY DEF FirstObjects, CollectLive, EndMarkFile, EndMark, RedoObjects, EraseDead
<1>6. ASSUME NEW y \in Sym, MarkStep(y) PROVE FALSE
  BY <1>6 DEF MarkStep
<1>7. ~ParallelStep
  BY DEF ParallelStep, DylibStep, ClearSymbols
<1> QED
  BY <1>1, <1>2, <1>4, <1>5, <1>6, <1>7 DEF Next, MainStep

LEMMA ConcatFacts ==
  ASSUME NEW S, NEW T, NEW p \in Seq(S), NEW r \in Seq(T), NEW q, q = p \o r
  PROVE  /\ Len(q) = Len(p) + Len(r)
         /\ \A i \in 1 .. Len(p) : q[i] = p[i]
         /\ \A i \in 1 .. Len(r) : q[Len(p) + i] = r[i]
         /\ q # <<>> => Head(q) = q[1]
<1>1. Len(q) = Len(p) + Len(r)
  OBVIOUS
<1>2. \A i \in 1 .. Len(p) : q[i] = p[i]
  OBVIOUS
<1>3. \A i \in 1 .. Len(r) : q[Len(p) + i] = r[i]
  OBVIOUS
<1>4. q # <<>> => Head(q) = q[1]
  <2>1. q \in Seq(S \cup T)
    OBVIOUS
  <2> QED
    BY <2>1
<1> QED
  BY <1>1, <1>2, <1>3, <1>4

LEMMA TailFacts ==
  ASSUME NEW S, NEW T, NEW p \in Seq(S), p # <<>>, NEW r \in Seq(T),
         NEW q, q = Tail(p) \o r
  PROVE  /\ Len(p) \in Nat \ {0} /\ Len(r) \in Nat
         /\ Len(q) = Len(p) - 1 + Len(r)
         /\ \A i \in 1 .. Len(p) : i # 1 => q[i - 1] = p[i]
         /\ \A i \in 1 .. Len(r) : q[Len(p) - 1 + i] = r[i]
         /\ q # <<>> => Head(q) = q[1]
<1> DEFINE t == Tail(p)
<1>1. /\ Len(p) \in Nat \ {0} /\ t \in Seq(S) /\ Len(t) = Len(p) - 1
      /\ \A i \in 1 .. Len(p) : i # 1 => t[i - 1] = p[i]
  OBVIOUS
<1>2. Len(r) \in Nat /\ q = t \o r
  OBVIOUS
<1> HIDE DEF t
<1>3. /\ Len(q) = Len(t) + Len(r)
      /\ \A i \in 1 .. Len(t) : q[i] = t[i]
      /\ \A i \in 1 .. Len(r) : q[Len(t) + i] = r[i]
      /\ q # <<>> => Head(q) = q[1]
  BY <1>1, <1>2, ConcatFacts
<1>4. \A i \in 1 .. Len(p) : i # 1 => q[i - 1] = p[i]
  BY <1>1, <1>3
<1> QED
  BY <1>1, <1>2, <1>3, <1>4

(* A file that comes alive is queued behind the current one.               *)
LEMMA RevivedQueued ==
  ASSUME IInv, phase = "mark", queue # <<>>,
         NEW F \in SUBSET (objs \cup dylibs), Revive(F)
  PROVE  /\ \A i \in 1 .. Len(queue) : i \in 1 .. Len(queue') /\ queue'[i] = queue[i]
         /\ \A f \in (F \ alive) \ Dylib :
              \E i \in 1 .. Len(queue') : i # 1 /\ queue'[i] = f
<1> DEFINE R == (F \ alive) \ Dylib
           s == SetToSeq(R)
<1>1. R \in SUBSET Files
  BY DEF IInv, Types, Files
<1>2. s \in Seq(R) /\ \A f \in R : \E i \in 1 .. Len(s) : s[i] = f
  BY <1>1, SetToSeqType, SetToSeqRange
<1>3. queue \in Seq(objs \cap alive) /\ queue' = queue \o s
  BY DEF IInv, QueueHolds, Revive
<1> HIDE DEF s, R
<1>4. /\ Len(queue) \in Nat \ {0} /\ Len(s) \in Nat
      /\ Len(queue') = Len(queue) + Len(s)
      /\ \A i \in 1 .. Len(queue) : queue'[i] = queue[i]
      /\ \A i \in 1 .. Len(s) : queue'[Len(queue) + i] = s[i]
  BY <1>2, <1>3
<1>5. ASSUME NEW f \in R PROVE \E i \in 1 .. Len(queue') : i # 1 /\ queue'[i] = f
  <2>1. PICK i \in 1 .. Len(s) : s[i] = f
    BY <1>2
  <2>2. /\ Len(queue) + i \in 1 .. Len(queue') /\ Len(queue) + i # 1
        /\ queue'[Len(queue) + i] = f
    BY <1>4, <2>1
  <2> QED
    BY <2>2
<1> QED
  BY <1>4, <1>5 DEF R

(* The objects that come alive are those among the files that are revived. *)
LEMMA NewlyLive ==
  ASSUME IInv, objs \subseteq objs', objs' \subseteq Obj \cup Member,
         NEW F \in SUBSET (objs \cup dylibs), alive' = alive \cup F,
         NEW f \in objs' \cap alive'
  PROVE  f \in objs \cap alive \/ f \in (F \ alive) \ Dylib
<1>1. f \notin Dylib
  BY FilesAssumption
<1>2. f \in alive => f \in objs
  BY <1>1 DEF IInv, Types
<1> QED
  BY <1>1, <1>2

(* Looking at the files that are alive when marking starts.                *)
LEMMA CollectLooked ==
  ASSUME IInv, Waits, RootsLooked, CollectLive,
         \A x \in Sym : Settled(x) => Settled(x)'
  PROVE  FilesLooked'
<1> USE DEF CollectLive
<1> DEFINE keep == (UNION {OwnerOf(x) : x \in inp.builtin}) \cap Dylib
<1>1. PICK live \in SetToSeqs(objs \cap alive) :
        queue' = live /\ scan' = IF live = <<>> THEN {} ELSE ExternSyms(Head(live))
  OBVIOUS
<1>2. objs \cap alive \in SUBSET Files
  BY DEF IInv, Types, Files
<1>3. live \in Seq(objs \cap alive)
        /\ \A f \in objs \cap alive : \E i \in 1 .. Len(live) : live[i] = f
  BY <1>2, SetToSeqType, SetToSeqRange
<1>4. objs' \cap alive' = objs \cap alive /\ inp' = inp
  <2>1. alive' = alive \cup keep
    OBVIOUS
  <2>2. keep \subseteq Dylib
    OBVIOUS
  <2> HIDE DEF keep
  <2> QED
    BY <2>1, <2>2, FilesAssumption DEF IInv, Types
<1>5. \A x \in Range(inp.roots) : Settled(x)'
  <2>1. \A x \in Range(inp.roots) : x \notin Range(queue) /\ x \in Sym
    BY InputFacts DEF AtDrain, Range, IInv, Types
  <2> QED
    BY <2>1 DEF RootsLooked
<1>6. ASSUME NEW f \in objs \cap alive, NEW x \in Sym, inp.kind[f][x] = "undef"
      PROVE  InQueue(f, x)'
  <2>1. PICK i \in 1 .. Len(live) : live[i] = f
    BY <1>3
  <2>2. i = 1 => f = Head(live) /\ live # <<>>
    BY <1>3, <2>1
  <2>3. i = 1 => x \in scan'
    BY <1>1, <1>6, <2>2 DEF ExternSyms
  <2> QED
    BY <1>1, <2>1, <2>3 DEF InQueue
<1> QED
  BY <1>4, <1>5, <1>6 DEF FilesLooked

(* Looking at one symbol of the file at the head.                          *)
LEMMA MarkLooked ==
  ASSUME IInv, Waits, Claimed, IndexIsRight, FilesLooked, NEW y \in Sym, MarkStep(y),
         \A x \in Sym : Settled(x) => Settled(x)'
  PROVE  FilesLooked'
<1> USE DEF MarkStep
<1> DEFINE h == Head(queue)
           k == inp.kind[h][y]
           F == IF k = "undef" \/ (k = "common" /\ ~sym[y].common) THEN OwnerOf(y) ELSE {}
<1>1. h \in objs \cap alive /\ queue \in Seq(objs \cap alive) /\ queue # <<>>
  BY DEF IInv, QueueHolds
<1>2. F \in SUBSET (objs \cup dylibs) /\ Revive(F)
  BY OwnerFacts
<1>3. objs \subseteq objs' /\ objs' \subseteq Obj \cup Member /\ inp' = inp
  BY ExtractFacts DEF IInv, Types
<1>4. k = "undef" => Settled(y)'
  <2> SUFFICES ASSUME k = "undef" PROVE Settled(y)'
    OBVIOUS
  <2>1. OwnerOf(y) \subseteq alive' /\ alive \subseteq alive'
    BY DEF Revive
  <2> QED
    BY <2>1, LookedAt
<1> HIDE DEF F
<1>5. /\ \A i \in 1 .. Len(queue) : i \in 1 .. Len(queue') /\ queue'[i] = queue[i]
      /\ \A f \in (F \ alive) \ Dylib :
           \E i \in 1 .. Len(queue') : i # 1 /\ queue'[i] = f
  BY <1>1, <1>2, RevivedQueued
<1>6. \A x \in Range(inp.roots) : Settled(x)'
  BY InputFacts DEF FilesLooked, IInv, Types, Range
<1>7. ASSUME NEW f \in objs' \cap alive', NEW x \in Sym, inp.kind[f][x] = "undef"
      PROVE  Settled(x)' \/ InQueue(f, x)'
  <2>1. CASE f \in (F \ alive) \ Dylib
    BY <1>5, <2>1 DEF InQueue
  <2>2. CASE f \in objs \cap alive /\ Settled(x)
    BY <2>2
  <2>3. CASE f \in objs \cap alive /\ InQueue(f, x)
    <3>1. PICK i \in 1 .. Len(queue) : queue[i] = f /\ (i = 1 => x \in scan)
      BY <2>3 DEF InQueue
    <3>2. CASE i = 1 /\ x = y
      BY <1>1, <1>4, <1>7, <3>1, <3>2
    <3>3. CASE ~(i = 1 /\ x = y)
      <4>1. i \in 1 .. Len(queue') /\ queue'[i] = f /\ (i = 1 => x \in scan')
        BY <1>5, <3>1, <3>3
      <4> QED
        BY <4>1 DEF InQueue
    <3> QED
      BY <3>2, <3>3
  <2>4. alive' = alive \cup F
    BY <1>2 DEF Revive
  <2> QED
    BY <1>2, <1>3, <2>1, <2>2, <2>3, <2>4, NewlyLive, <1>7 DEF FilesLooked
<1> QED
  BY <1>3, <1>6, <1>7 DEF FilesLooked

LEMMA WalkLooked ==
  ASSUME IInv, FilesLooked, phase = "mark", NEW y \in Sym, ExtractStep(y),
         \A x \in Sym : Settled(x) => Settled(x)'
  PROVE  FilesLooked'
<1> USE DEF ExtractStep
<1> DEFINE F == OwnerOf(y)
<1>1. queue # <<>> /\ F \in SUBSET (objs \cup dylibs) /\ Revive(F)
  BY OwnerFacts DEF IInv, QueueHolds
<1>2. objs \subseteq objs' /\ objs' \subseteq Obj \cup Member /\ inp' = inp
  BY ExtractFacts DEF IInv
<1> HIDE DEF F
<1>3. /\ \A i \in 1 .. Len(queue) : i \in 1 .. Len(queue') /\ queue'[i] = queue[i]
      /\ \A f \in (F \ alive) \ Dylib :
           \E i \in 1 .. Len(queue') : i # 1 /\ queue'[i] = f
  BY <1>1, RevivedQueued
<1>4. \A x \in Range(inp.roots) : Settled(x)'
  BY InputFacts DEF FilesLooked, IInv, Types, Range
<1>5. ASSUME NEW f \in objs' \cap alive', NEW x \in Sym, inp.kind[f][x] = "undef"
      PROVE  Settled(x)' \/ InQueue(f, x)'
  <2>1. CASE f \in (F \ alive) \ Dylib
    BY <1>3, <2>1 DEF InQueue
  <2>2. CASE f \in objs \cap alive /\ Settled(x)
    BY <2>2
  <2>3. CASE f \in objs \cap alive /\ InQueue(f, x)
    BY <1>3, <2>3 DEF InQueue
  <2>4. alive' = alive \cup F
    BY <1>1 DEF Revive
  <2> QED
    BY <1>1, <1>2, <2>1, <2>2, <2>3, <2>4, NewlyLive, <1>5 DEF FilesLooked
<1> QED
  BY <1>2, <1>4, <1>5 DEF FilesLooked

(* The file at the head has been looked at when the next one is taken.     *)
LEMMA EndFileLooked ==
  ASSUME IInv, FilesLooked, EndMarkFile,
         \A x \in Sym : Settled(x) => Settled(x)'
  PROVE  FilesLooked'
<1> USE DEF EndMarkFile
<1> DEFINE F == UNION {OwnerOf(x) : x \in inp.personality[Head(queue)]}
           R == (F \ alive) \ Dylib
           s == SetToSeq(R)
           q == Tail(queue) \o s
<1>1. /\ alive' = alive \cup F /\ queue' = q /\ inp' = inp /\ objs' = objs
      /\ scan' = IF q = <<>> THEN {} ELSE ExternSyms(Head(q))
  OBVIOUS
<1>2. queue \in Seq(objs \cap alive) /\ queue # <<>> /\ scan = {}
  BY DEF IInv, QueueHolds, AtDrain
<1>3. F \in SUBSET (objs \cup dylibs)
  <2>1. inp.personality[Head(queue)] \subseteq Sym
    BY <1>2, InputFacts DEF IInv, Types, Files
  <2> QED
    BY <2>1, OwnerFacts
<1> HIDE DEF F
<1>4. R \in SUBSET Files
  BY <1>3 DEF IInv, Types, Files
<1>5. s \in Seq(R) /\ \A f \in R : \E i \in 1 .. Len(s) : s[i] = f
  BY <1>4, SetToSeqType, SetToSeqRange
<1> HIDE DEF s
<1>10. q = Tail(queue) \o s
  OBVIOUS
<1> HIDE DEF q
<1>6. /\ Len(queue) \in Nat \ {0} /\ Len(s) \in Nat
      /\ Len(q) = Len(queue) - 1 + Len(s)
      /\ \A i \in 1 .. Len(queue) : i # 1 => q[i - 1] = queue[i]
      /\ \A i \in 1 .. Len(s) : q[Len(queue) - 1 + i] = s[i]
      /\ q # <<>> => Head(q) = q[1]
  BY <1>2, <1>5, <1>10, TailFacts
<1>7. ASSUME NEW f, NEW x \in Sym, inp.kind[f][x] = "undef", NEW i \in 1 .. Len(q), q[i] = f
      PROVE  InQueue(f, x)'
  <2>1. q # <<>>
    BY <1>6, <1>7
  <2>2. i = 1 => x \in scan'
    BY <1>1, <1>6, <1>7, <2>1 DEF ExternSyms
  <2> QED
    BY <1>1, <1>7, <2>2 DEF InQueue
<1>8. \A x \in Range(inp.roots) : Settled(x)'
  BY InputFacts DEF FilesLooked, IInv, Types, Range
<1>9. ASSUME NEW f \in objs' \cap alive', NEW x \in Sym, inp.kind[f][x] = "undef"
      PROVE  Settled(x)' \/ InQueue(f, x)'
  <2>1. CASE f \in R
    <3>1. PICK i \in 1 .. Len(s) : s[i] = f
      BY <1>5, <2>1
    <3>2. Len(queue) - 1 + i \in 1 .. Len(q) /\ q[Len(queue) - 1 + i] = f
      BY <1>6, <3>1
    <3> QED
      BY <1>7, <1>9, <3>2
  <2>2. CASE f \in objs \cap alive /\ Settled(x)
    BY <2>2
  <2>3. CASE f \in objs \cap alive /\ InQueue(f, x)
    <3>1. PICK i \in 1 .. Len(queue) : queue[i] = f /\ i # 1
      BY <1>2, <2>3 DEF InQueue
    <3>2. i - 1 \in 1 .. Len(q) /\ q[i - 1] = f
      BY <1>6, <3>1
    <3> QED
      BY <1>7, <1>9, <3>2
  <2>4. objs' \subseteq Obj \cup Member /\ objs \subseteq objs'
    BY <1>1 DEF IInv, Types
  <2> QED
    BY <1>1, <1>3, <2>1, <2>2, <2>3, <2>4, NewlyLive, <1>9 DEF FilesLooked
<1> QED
  BY <1>1, <1>8, <1>9 DEF FilesLooked

LEMMA FilesLookedStep ==
  ASSUME IInv, FrontierPending, Waits, Claimed, Held, IndexIsRight,
         RootsLooked, FilesLooked, [Next]_vars
  PROVE  FilesLooked'
<1> SUFFICES ASSUME phase' = "mark" PROVE FilesLooked'
  BY DEF FilesLooked
<1>0. ASSUME phase \in {"roots", "mark"} PROVE \A x \in Sym : Settled(x) => Settled(x)'
  BY <1>0, SettledGrows
<1>1. CASE CollectLive
  BY <1>0, <1>1, CollectLooked DEF CollectLive
<1>2. ASSUME NEW y \in Sym, MarkStep(y) PROVE FilesLooked'
  BY <1>0, <1>2, MarkLooked DEF MarkStep
<1>3. ASSUME NEW y \in Sym, ExtractStep(y) PROVE FilesLooked'
  <2>1. phase = "mark"
    BY <1>3 DEF ExtractStep
  <2> QED
    BY <1>0, <1>3, <2>1, WalkLooked
<1>4. CASE EndMarkFile
  BY <1>0, <1>4, EndFileLooked DEF EndMarkFile
<1>5. ASSUME phase = "mark", inp' = inp, objs' \cap alive' = objs \cap alive,
             queue' = queue, scan' = scan
      PROVE  FilesLooked'
  <2>1. \A x \in Range(inp.roots) : Settled(x)'
    BY <1>0, <1>5, InputFacts DEF FilesLooked, IInv, Types, Range
  <2>2. \A f, x : InQueue(f, x) => InQueue(f, x)'
    BY <1>5 DEF InQueue
  <2> QED
    BY <1>0, <1>5, <2>1, <2>2 DEF FilesLooked
<1>6. CASE DrainFrontier
  <2> USE <1>6 DEF DrainFrontier
  <2> DEFINE L == (UNION {inp.autolink[m] : m \in newObjs}) \ dylibs
  <2>1. L \subseteq Dylib
    BY InputFacts DEF IInv, Types
  <2>2. alive' = alive \cup (L \cap inp.live)
    OBVIOUS
  <2> HIDE DEF L
  <2>3. objs' \cap alive' = objs \cap alive
    BY <2>1, <2>2, FilesAssumption DEF IInv, Types
  <2> QED
    BY <1>5, <2>3
<1>7. CASE \/ DrainObjects \/ EndDrain \/ Finished \/ UNCHANGED vars
           \/ \E d \in Dylib : DrainDylib(d)
  <2>1. /\ phase = "mark" /\ inp' = inp /\ objs' \cap alive' = objs \cap alive
        /\ queue' = queue /\ scan' = scan
    BY <1>7 DEF DrainObjects, EndDrain, Finished, vars, DrainDylib
  <2> QED
    BY <1>5, <2>1
<1>8. ~(FirstObjects \/ StartMark \/ RootStep \/ EndMark \/ RedoObjects \/ EraseDead)
  BY DEF FirstObjects, StartMark, RootStep, EndMark, RedoObjects, EraseDead
<1>9. ~ParallelStep
  BY DEF ParallelStep, DylibStep, ClearSymbols
<1> QED
  BY <1>1, <1>2, <1>3, <1>4, <1>6, <1>7, <1>8, <1>9 DEF Next, MainStep

(* When no live file is left to look at, every wanted symbol is answered.  *)
LEMMA WantedAnsweredStep ==
  ASSUME IInv, FrontierPending, Waits, FilesLooked, WantedAnswered, [Next]_vars
  PROVE  WantedAnswered'
<1> SUFFICES ASSUME phase' \in {"clear", "redoDylibs", "done"}, NEW x \in Wanted'
             PROVE  inp'.toc[x] = <<>> \/ LiveDefines(x)'
  BY DEF WantedAnswered
<1>1. CASE EndMark
  <2> USE <1>1 DEF EndMark
  <2>1. drain = "idle" /\ extracts = {} /\ again = {}
    BY DEF IInv, QueueHolds, Types, Waits
  <2>2. \A z \in Sym : Settled(z) => inp.toc[z] = <<>> \/ LiveDefines(z)
    BY <2>1 DEF Settled
  <2>3. \A f, z : ~InQueue(f, z)
    BY DEF InQueue
  <2>4. x \in Wanted /\ inp' = inp /\ alive' = alive
    BY DEF Wanted
  <2>5. CASE x \in Range(inp.roots)
    <3>1. x \in Sym /\ Settled(x)
      BY <2>5, InputFacts DEF FilesLooked, IInv, Types, Range
    <3> QED
      BY <2>2, <2>4, <3>1 DEF LiveDefines, Defines
  <2>6. ASSUME x \in Sym, NEW f \in objs \cap alive, inp.kind[f][x] \in {"undef", "common"}
        PROVE  inp.toc[x] = <<>> \/ LiveDefines(x)
    <3>1. CASE inp.kind[f][x] = "common"
      BY <3>1 DEF LiveDefines, Defines
    <3>2. CASE inp.kind[f][x] = "undef"
      BY <2>2, <2>3, <2>6, <3>2 DEF FilesLooked
    <3> QED
      BY <2>6, <3>1, <3>2
  <2> QED
    BY <2>4, <2>5, <2>6 DEF Wanted, LiveDefines, Defines
<1>2. ASSUME phase \in {"clear", "redoDylibs", "done"}, inp' = inp, alive' = alive,
             objs' \cap alive' = objs \cap alive
      PROVE  inp'.toc[x] = <<>> \/ LiveDefines(x)'
  <2>1. x \in Wanted
    BY <1>2 DEF Wanted
  <2> QED
    BY <1>2, <2>1 DEF WantedAnswered, LiveDefines, Defines
<1>3. CASE (\E f \in Files : ClearSymbols(f)) \/ RedoObjects \/ EraseDead \/ UNCHANGED vars
             \/ (phase = "redoDylibs" /\ \E d \in Dylib, y \in Sym : DylibStep(d, y))
  BY <1>2, <1>3 DEF ClearSymbols, RedoObjects, EraseDead, vars, DylibStep
<1> QED
  BY <1>1, <1>3, LastPhases

LEMMA IndexKept ==
  ASSUME IInv, [Next]_vars
  PROVE  IndexIsRight' = IndexIsRight
<1>1. inp' = inp
  BY DEF Next, MainStep, ParallelStep, Finished, vars, FirstObjects, StartMark, RootStep,
    CollectLive, DrainFrontier, DrainDylib, DrainObjects, EndDrain, ExtractStep, MarkStep,
    EndMarkFile, EndMark, RedoObjects, EraseDead, DylibStep, ClearSymbols
<1> QED
  BY <1>1 DEF IndexIsRight, Offers, Clear, Defines

(* What waits in the frontier, what has been claimed and what has been     *)
(* looked at are kept by every step.                                       *)
THEOREM FrontierInductive == Spec => [](Frontier /\ (IndexIsRight => Looked))
<1> DEFINE J == Frontier /\ (IndexIsRight => Looked)
<1>1. Init => J
  BY DEF Init, Frontier, Waits, Claimed, Held, EndClaimed, Looked, RootsLooked,
         FilesLooked, WantedAnswered
<1>2. IInv /\ FrontierPending /\ OwnersAreAlive /\ J /\ [Next]_vars => J'
  <2> SUFFICES ASSUME IInv, FrontierPending, OwnersAreAlive, J, [Next]_vars PROVE J'
    OBVIOUS
  <2>1. Frontier'
    BY WaitsStep, ClaimedStep, HeldStep, EndClaimedStep DEF Frontier
  <2>2. ASSUME IndexIsRight' PROVE Looked'
    <3>1. IndexIsRight
      BY <2>2, IndexKept
    <3> QED
      BY <3>1, RootsLookedStep, FilesLookedStep, WantedAnsweredStep DEF Frontier, Looked
  <2> QED
    BY <2>1, <2>2
<1> QED
  BY <1>1, <1>2, Inductive, PTL DEF Spec

(* Archives give exactly what the link needs (the loop of                  *)
(* drain_archive_member_frontier and mark_live_objects): a wanted symbol   *)
(* that is left without a definition is exported by no dylib of the link   *)
(* and, where the index is right, listed by no archive; no member comes    *)
(* unasked.                                                                *)
THEOREM ExtractionExact ==
  Spec => [](IndexIsRight => ExtractionIsRight)
<1>1. IInv /\ Frontier /\ WantedAnswered => NothingLeftBehind
  <2> SUFFICES ASSUME IInv, Frontier, WantedAnswered, phase = "done",
                      NEW x \in Wanted, sym[x].file = None
               PROVE  inp.toc[x] = <<>> /\ \A d \in dylibs : ~Defines(d, x)
    BY DEF NothingLeftBehind
  <2>1. x \in Sym /\ claims = {} /\ dylibs \subseteq alive
    BY InputFacts DEF Wanted, IInv, Types, QueueHolds, Range, Frontier, EndClaimed
  <2>2. ~LiveDefines(x)
    BY <2>1 DEF Frontier, EndClaimed, LiveDefines
  <2>3. inp.toc[x] = <<>>
    BY <2>2 DEF WantedAnswered
  <2> QED
    BY <2>1, <2>2, <2>3 DEF LiveDefines
<1> QED
  BY <1>1, FrontierInductive, Inductive, ReasonsHold, PTL DEF ExtractionIsRight, Looked
=============================================================================
