------------------------------- MODULE Resolve -------------------------------
(***************************************************************************)
(* Symbol resolution of the Mach-O linker: resolve_symbols in main.cc with *)
(* the functions it calls.  Object files and dylibs claim symbols by rank; *)
(* -u symbols, the entry point and the references of live objects pull     *)
(* members out of archives; the symbols of files that stay dead are        *)
(* cleared and the claims are made again among the live ones.              *)
(*                                                                         *)
(* Everything but the two loops over ctx.dylibs and the clearing loop runs *)
(* on the main thread.  The order of a file's symbol table is left open,   *)
(* and so is that of ctx.objs, which decides only in which order files are *)
(* visited.  Link-time optimisation is not modelled, nor is an archive     *)
(* that the linker option of an extracted member opens: toc is fixed, and  *)
(* autolink names dylibs.                                                  *)
(***************************************************************************)
EXTENDS Integers, Sequences, FiniteSets, SequencesExt

CONSTANTS Obj, Member, Dylib, Sym,
          None,       \* the null pointer
          RankSpan,   \* the 2^24 priorities of one rank class
          Inputs      \* the inputs considered

Files == Obj \cup Member \cup Dylib

ASSUME FilesAssumption ==
  /\ Dylib \cap (Obj \cup Member) = {} /\ None \notin Files
  /\ IsFiniteSet(Files)
  /\ RankSpan \in Nat \ {0}

Kinds == {"none", "undef", "strong", "weak", "common"}
Scopes == {"local", "module", "global"}

(***************************************************************************)
(* An input: what read_input_files leaves behind, and what the archive     *)
(* members hold that may still be loaded.                                  *)
(***************************************************************************)
IsInput(i) ==
  /\ i.kind \in [Files -> [Sym -> Kinds]]      \* what a file says of a symbol
  /\ \A d \in Dylib : \A x \in Sym : i.kind[d][x] # "common"
  /\ i.hidden \in [Files -> SUBSET Sym]        \* is_module_local definitions
  /\ i.personality \in [Files -> SUBSET Sym]   \* of its unwind records,
  /\ \A m \in Member \ i.live : i.personality[m] = {}  \* unread while parsing is deferred
  /\ i.priority \in [Files -> 0 .. RankSpan - 1]
  /\ i.toc \in [Sym -> Seq(Member)]            \* ctx.archive_symbol_map
  /\ i.autolink \in [Member -> SUBSET Dylib]   \* LC_LINKER_OPTION of a member
  /\ i.objs \in SUBSET (Obj \cup Member)       \* ctx.objs
  /\ i.live \in SUBSET Files                   \* is_alive when created
  /\ i.weakLibs \in SUBSET Dylib               \* -weak-l
  /\ i.roots \in Seq(Sym)                      \* -u, then the entry point
  /\ i.builtin \in SUBSET Sym                  \* _objc_msgSend, stub binder

ASSUME InputsAssumption == \A i \in Inputs : IsInput(i)

VARIABLES
  inp,        \* the input; never changes
  phase,
  objs,       \* ctx.objs
  dylibs,     \* ctx.dylibs
  alive,      \* files with is_alive set
  sym,        \* the symbol table
  claims,     \* (dylib, symbol) pairs of the running loop over ctx.dylibs
  clearing,   \* files whose symbols are still to be cleared
  queue,      \* live_objs
  scan,       \* symbols of the current file (or roots) still to be looked at
  extracts,   \* pending_extracts / pending_root_extracts
  again,      \* next: extracts of the following drain
  drain,      \* progress of the current drain of the archive frontier
  newObjs,    \* objects loaded since the frontier was last drained
  newLibs,    \* dylibs of the frontier that have not been resolved
  asked       \* ctx.pending_archive_symbols

vars == <<inp, phase, objs, dylibs, alive, sym, claims, clearing, queue, scan,
          extracts, again, drain, newObjs, newLibs, asked>>

Unclaimed == [file |-> None, weak |-> FALSE, common |-> FALSE, scope |-> "local"]

Defines(f, x) == inp.kind[f][x] \in {"strong", "weak", "common"}

(***************************************************************************)
(* get_rank / get_symbol_rank: a class from 1 (best) to 7, ties broken by  *)
(* the priority of the file.  Aliveness is read when the rank is computed. *)
(***************************************************************************)
RankClass(f, common, weak, live) ==
  CASE common -> IF live THEN 5 ELSE 6
    [] ~common /\ (f \in Dylib \/ ~live) -> IF weak THEN 4 ELSE 3
    [] OTHER -> IF weak THEN 2 ELSE 1

Rank(f, common, weak) ==
  RankClass(f, common, weak, f \in alive) * RankSpan + inp.priority[f]

SymRank(s) == IF s.file = None THEN 7 * RankSpan
                               ELSE Rank(s.file, s.common, s.weak)

DefRank(f, x) ==
  Rank(f, inp.kind[f][x] = "common", inp.kind[f][x] = "weak")

(***************************************************************************)
(* resolve_object_symbols: candidates are sorted by symbol and rank, and   *)
(* the first of each symbol is applied if it beats the current claim.      *)
(***************************************************************************)
BestOf(S, x) ==
  CHOOSE f \in S : \A g \in S : DefRank(f, x) <= DefRank(g, x)

ApplyObject(f, x) ==
  [ file |-> f, weak |-> inp.kind[f][x] = "weak",
    common |-> inp.kind[f][x] = "common", scope |-> "module" ]

ResolveObjects(S) ==
  [x \in Sym |->
     LET C == {f \in S : Defines(f, x)}
     IN  IF C # {} /\ DefRank(BestOf(C, x), x) < SymRank(sym[x])
         THEN ApplyObject(BestOf(C, x), x) ELSE sym[x]]

(* DylibFile::resolve_symbols, for one symbol, under the symbol's lock. *)
ClaimByDylib(d, x) ==
  IF Rank(d, FALSE, FALSE) < SymRank(sym[x])
  THEN [ file |-> d, common |-> FALSE, scope |-> "global",
         weak |-> d \in inp.weakLibs \/ inp.kind[d][x] = "weak" ]
  ELSE sym[x]

DylibClaims(D) == {c \in D \X Sym : Defines(c[1], c[2])}

(***************************************************************************)
(* maybe_extract_archive_member and load_archive_member.  A member's       *)
(* priority was assigned when its archive was indexed.                     *)
(***************************************************************************)
ShouldExtract(x) ==
  \/ sym[x].file \in {None} \cup Dylib
  \/ sym[x].common
  \/ sym[x].file \notin alive /\ sym[x].weak

Unloaded(x) == {i \in DOMAIN inp.toc[x] : inp.toc[x][i] \notin objs}

Extracts(x) == ShouldExtract(x) /\ x \notin asked /\ Unloaded(x) # {}

NextMember(x) ==
  inp.toc[x][CHOOSE i \in Unloaded(x) : \A j \in Unloaded(x) : i <= j]

(* Mutant: every listed member is read with the one that was asked for. *)
MaybeExtract_Whole(x) ==
  IF Extracts(x)
  THEN LET all == UNION {Range(inp.toc[y]) : y \in Sym} \ objs
       IN  /\ objs' = objs \cup all
           /\ newObjs' = newObjs \cup all
           /\ asked' = asked \cup {x}
  ELSE UNCHANGED <<objs, newObjs, asked>>

MaybeExtract(x) ==
  IF Extracts(x)
  THEN /\ objs' = objs \cup {NextMember(x)}
       /\ newObjs' = newObjs \cup {NextMember(x)}
       /\ asked' = asked \cup {x}
  ELSE UNCHANGED <<objs, newObjs, asked>>

Init ==
  /\ inp \in Inputs
  /\ phase = "objects"
  /\ objs = inp.objs
  /\ dylibs = Dylib \ UNION {inp.autolink[m] : m \in Member \ inp.objs}
  /\ alive = inp.live \cap (objs \cup dylibs)
  /\ sym = [x \in Sym |-> Unclaimed]
  /\ claims = {} /\ clearing = {}
  /\ queue = <<>> /\ scan = {} /\ extracts = {} /\ again = {}
  /\ drain = "idle"
  /\ newObjs = {} /\ newLibs = {} /\ asked = {}

(***************************************************************************)
(* The first claims.                                                       *)
(***************************************************************************)
FirstObjects ==
  /\ phase = "objects"
  /\ sym' = ResolveObjects(objs)
  /\ claims' = DylibClaims(dylibs)
  /\ phase' = "dylibs"
  /\ UNCHANGED <<inp, objs, dylibs, alive, clearing, queue, scan, extracts,
                 again, drain, newObjs, newLibs, asked>>

(* One iteration of a dylib's loop; the dylibs run in parallel. *)
DylibStep(d, x) ==
  /\ phase \in {"dylibs", "redoDylibs"}
  /\ <<d, x>> \in claims
  /\ sym' = [sym EXCEPT ![x] = ClaimByDylib(d, x)]
  /\ claims' = claims \ {<<d, x>>}
  /\ UNCHANGED <<inp, phase, objs, dylibs, alive, clearing, queue, scan,
                 extracts, again, drain, newObjs, newLibs, asked>>

StartMark ==
  /\ phase = "dylibs"
  /\ claims = {}
  /\ phase' = "roots"
  /\ queue' = inp.roots
  /\ UNCHANGED <<inp, objs, dylibs, alive, sym, claims, clearing, scan,
                 extracts, again, drain, newObjs, newLibs, asked>>

(***************************************************************************)
(* mark_live_objects of resolve_symbols.  In phase "roots" the queue holds *)
(* the root symbols, in phase "mark" the live objects.                     *)
(***************************************************************************)
OwnerOf(x) == {sym[x].file} \ {None}

RootStep ==
  /\ phase = "roots"
  /\ queue # <<>>
  /\ LET x == Head(queue)
     IN  /\ MaybeExtract(x)
         /\ extracts' = IF Extracts(x) THEN extracts \cup {x} ELSE extracts
         /\ alive' = alive \cup OwnerOf(x)
  /\ queue' = Tail(queue)
  /\ UNCHANGED <<inp, phase, dylibs, sym, claims, clearing, scan, again,
                 drain, newLibs>>

(* A file that becomes alive is queued if it is an object (the feeder). *)
Revive(F) ==
  /\ alive' = alive \cup F
  /\ queue' = IF phase = "mark"
              THEN queue \o SetToSeq((F \ alive) \ Dylib) ELSE queue

(* drain_archive_member_frontier: wait for the parsers, which may have     *)
(* read more dylibs, then resolve the new dylibs and the new objects.      *)
AtDrain == scan = {} /\ (phase = "roots" => queue = <<>>) /\ drain = "idle"

DrainFrontier ==
  /\ phase \in {"roots", "mark"}
  /\ AtDrain
  /\ extracts # {}
  /\ LET L == (UNION {inp.autolink[m] : m \in newObjs}) \ dylibs
     IN  /\ newLibs' = L
         /\ dylibs' = dylibs \cup L
         /\ alive' = alive \cup (L \cap inp.live)
  /\ drain' = "resolve"
  /\ UNCHANGED <<inp, phase, objs, sym, claims, clearing, queue, scan,
                 extracts, again, newObjs, asked>>

(* The new dylibs are resolved one after the other, as ctx.dylibs lists    *)
(* them, an order that is left open like that of ctx.objs.                 *)
DrainDylib(d) ==
  /\ drain = "resolve" /\ d \in newLibs
  /\ sym' = [x \in Sym |-> IF Defines(d, x) THEN ClaimByDylib(d, x) ELSE sym[x]]
  /\ newLibs' = newLibs \ {d}
  /\ UNCHANGED <<inp, phase, objs, dylibs, alive, claims, clearing, queue,
                 scan, extracts, again, drain, newObjs, asked>>

DrainObjects ==
  /\ drain = "resolve" /\ newLibs = {}
  /\ sym' = ResolveObjects(newObjs)
  /\ newObjs' = {}
  /\ asked' = {}
  /\ drain' = "walk"
  /\ UNCHANGED <<inp, phase, objs, dylibs, alive, claims, clearing, queue,
                 scan, extracts, again, newLibs>>

(* Mutants: the file that answered is not kept; a symbol is asked for      *)
(* again although no member was loaded for it.                             *)
ExtractStep_NotKept(x) ==
  /\ drain = "walk"
  /\ x \in extracts
  /\ MaybeExtract(x)
  /\ extracts' = extracts \ {x}
  /\ again' = IF Extracts(x) THEN again \cup {x} ELSE again
  /\ UNCHANGED <<inp, phase, alive, queue, dylibs, sym, claims, clearing,
                 scan, drain, newLibs>>

ExtractStep_AskForEver(x) ==
  /\ drain = "walk"
  /\ x \in extracts
  /\ Revive(OwnerOf(x))
  /\ MaybeExtract(x)
  /\ extracts' = extracts \ {x}
  /\ again' = IF ShouldExtract(x) THEN again \cup {x} ELSE again
  /\ UNCHANGED <<inp, phase, dylibs, sym, claims, clearing, scan, drain,
                 newLibs>>

(* One symbol of the drained frontier: its file is kept, and another       *)
(* member is asked for when that did not settle it.                        *)
ExtractStep(x) ==
  /\ drain = "walk"
  /\ x \in extracts
  /\ Revive(OwnerOf(x))
  /\ MaybeExtract(x)
  /\ extracts' = extracts \ {x}
  /\ again' = IF Extracts(x) THEN again \cup {x} ELSE again
  /\ UNCHANGED <<inp, phase, dylibs, sym, claims, clearing, scan, drain,
                 newLibs>>

EndDrain ==
  /\ drain = "walk" /\ extracts = {}
  /\ extracts' = again
  /\ again' = {}
  /\ drain' = "idle"
  /\ UNCHANGED <<inp, phase, objs, dylibs, alive, sym, claims, clearing,
                 queue, scan, newObjs, newLibs, asked>>

ExternSyms(f) == {x \in Sym : inp.kind[f][x] # "none"}

(* The dylibs of symbols the linker itself uses are kept, and live_objs is *)
(* built from the objects that are alive by now.                           *)
CollectLive ==
  /\ phase = "roots"
  /\ AtDrain /\ extracts = {}
  /\ LET keep == (UNION {OwnerOf(x) : x \in inp.builtin}) \cap Dylib
     IN  /\ alive' = alive \cup keep
         /\ \E live \in SetToSeqs(objs \cap alive) :
              /\ queue' = live
              /\ scan' = IF live = <<>> THEN {} ELSE ExternSyms(Head(live))
  /\ phase' = "mark"
  /\ UNCHANGED <<inp, objs, dylibs, sym, claims, clearing, extracts, again,
                 drain, newObjs, newLibs, asked>>

(* ObjectFile::mark_live_objects, one symbol of the file at the head. *)
MarkStep(x) ==
  /\ phase = "mark" /\ drain = "idle"
  /\ x \in scan
  /\ LET k == inp.kind[Head(queue)][x]
         s == sym[x]
     IN  /\ IF k \in {"undef", "common"}
            THEN /\ MaybeExtract(x)
                 /\ extracts' = IF Extracts(x) THEN extracts \cup {x}
                                               ELSE extracts
            ELSE UNCHANGED <<objs, newObjs, asked, extracts>>
         /\ sym' = IF k # "undef" /\ x \notin inp.hidden[Head(queue)]
                   THEN [sym EXCEPT ![x].scope = "global"] ELSE sym
         /\ Revive(IF k = "undef" \/ (k = "common" /\ ~s.common)
                   THEN OwnerOf(x) ELSE {})
  /\ scan' = scan \ {x}
  /\ UNCHANGED <<inp, phase, dylibs, claims, clearing, again, drain,
                 newLibs>>

(* The personality functions of its unwind records, then the next file. *)
EndMarkFile ==
  /\ phase = "mark"
  /\ queue # <<>>
  /\ AtDrain /\ extracts = {}
  /\ LET F == UNION {OwnerOf(x) : x \in inp.personality[Head(queue)]}
         q == Tail(queue) \o SetToSeq((F \ alive) \ Dylib)
     IN  /\ alive' = alive \cup F
         /\ queue' = q
         /\ scan' = IF q = <<>> THEN {} ELSE ExternSyms(Head(q))
  /\ UNCHANGED <<inp, phase, objs, dylibs, sym, claims, clearing, extracts,
                 again, drain, newObjs, newLibs, asked>>

EndMark ==
  /\ phase = "mark"
  /\ queue = <<>>
  /\ phase' = "clear"
  /\ clearing' = (objs \cup dylibs) \ alive
  /\ UNCHANGED <<inp, objs, dylibs, alive, sym, claims, queue, scan, extracts,
                 again, drain, newObjs, newLibs, asked>>

(***************************************************************************)
(* Clearing and the second round of claims.                                *)
(***************************************************************************)
ClearSymbols(f) ==
  /\ phase = "clear"
  /\ f \in clearing
  /\ clearing' = clearing \ {f}
  /\ sym' = [x \in Sym |-> IF sym[x].file = f THEN Unclaimed ELSE sym[x]]
  /\ UNCHANGED <<inp, phase, objs, dylibs, alive, claims, queue, scan,
                 extracts, again, drain, newObjs, newLibs, asked>>

(* Mutant: extracted members do not get to claim symbols at their new rank. *)
RedoObjects_Skipped ==
  /\ phase = "clear"
  /\ clearing = {}
  /\ sym' = sym
  /\ claims' = DylibClaims(dylibs \cap alive)
  /\ phase' = "redoDylibs"
  /\ UNCHANGED <<inp, objs, dylibs, alive, clearing, queue, scan, extracts,
                 again, drain, newObjs, newLibs, asked>>

RedoObjects ==
  /\ phase = "clear"
  /\ clearing = {}
  /\ sym' = ResolveObjects(objs \cap alive)
  /\ claims' = DylibClaims(dylibs \cap alive)
  /\ phase' = "redoDylibs"
  /\ UNCHANGED <<inp, objs, dylibs, alive, clearing, queue, scan, extracts,
                 again, drain, newObjs, newLibs, asked>>

EraseDead ==
  /\ phase = "redoDylibs"
  /\ claims = {}
  /\ objs' = objs \cap alive
  /\ dylibs' = dylibs \cap alive
  /\ phase' = "done"
  /\ UNCHANGED <<inp, alive, sym, claims, clearing, queue, scan, extracts,
                 again, drain, newObjs, newLibs, asked>>

Finished == phase = "done" /\ UNCHANGED vars

MainStep ==
  \/ FirstObjects \/ StartMark \/ RootStep \/ CollectLive
  \/ DrainFrontier \/ (\E d \in Dylib : DrainDylib(d)) \/ DrainObjects \/ EndDrain
  \/ \E x \in Sym : ExtractStep(x) \/ MarkStep(x)
  \/ EndMarkFile \/ EndMark \/ RedoObjects \/ EraseDead

ParallelStep ==
  \/ \E d \in Dylib, x \in Sym : DylibStep(d, x)
  \/ \E f \in Files : ClearSymbols(f)

Next == MainStep \/ ParallelStep \/ Finished

(* The main thread runs and the parallel loops run their tasks. *)
Spec == Init /\ [][Next]_vars /\ WF_vars(MainStep) /\ WF_vars(ParallelStep)

-----------------------------------------------------------------------------
(***************************************************************************)
(* Properties.                                                             *)
(***************************************************************************)
TypeOK ==
  /\ phase \in {"objects", "dylibs", "roots", "mark", "clear", "redoDylibs",
                "done"}
  /\ objs \subseteq Obj \cup Member
  /\ dylibs \subseteq Dylib
  /\ alive \subseteq objs \cup dylibs
  /\ sym \in [Sym -> [file : Files \cup {None}, weak : BOOLEAN,
                      common : BOOLEAN, scope : Scopes]]
  /\ claims \subseteq dylibs \X Sym
  /\ clearing \subseteq Files
  /\ scan \subseteq Sym /\ extracts \subseteq Sym /\ again \subseteq Sym
  /\ drain \in {"idle", "resolve", "walk"}
  /\ newObjs \subseteq objs \cap Member
  /\ asked \subseteq Sym

Loaded == objs \cup dylibs

(* The rank the comment above get_rank gives to a definition, whatever     *)
(* kind of file holds it.                                                  *)
DocumentedRank(f, x) ==
  Rank(f, inp.kind[f][x] = "common",
       inp.kind[f][x] = "weak" \/ f \in inp.weakLibs)

(* The outcome does not depend on the order in which threads and archive   *)
(* members claimed a symbol: in the end it belongs to the live file whose  *)
(* definition ranks best, or to none if no live file defines it, although  *)
(* ranks changed under the claims as files came alive.                     *)
OwnedByBest ==
  phase = "done" =>
    \A x \in Sym :
      LET D == {f \in Loaded \cap alive : Defines(f, x)}
      IN  IF D = {} THEN sym[x].file = None
          ELSE /\ sym[x].file \in D
               /\ \A f \in D :
                    DocumentedRank(sym[x].file, x) <= DocumentedRank(f, x)

(* Symbols that pull in archive members: the roots and what a live object  *)
(* file refers to or defines tentatively.                                  *)
Wanted ==
  Range(inp.roots)
    \cup {x \in Sym : \E f \in objs \cap alive :
                         inp.kind[f][x] \in {"undef", "common"}}

(* Nothing that could have been linked is reported undefined: a wanted     *)
(* symbol without a definition is in no archive and in no dylib.           *)
NothingLeftBehind ==
  phase = "done" =>
    \A x \in Wanted : sym[x].file = None =>
      inp.toc[x] = <<>> /\ \A d \in dylibs : ~Defines(d, x)

(* Archives are not swallowed whole, at no moment of the resolution: a     *)
(* member is loaded only because its archive lists it for a symbol that    *)
(* the link wants, and made part of the link only because it defines such  *)
(* a symbol or a personality function that a live object names.           *)
MembersForAReason ==
  /\ \A m \in objs \ inp.objs : \E x \in Wanted : m \in Range(inp.toc[x])
  /\ \A m \in (Member \cap alive) \ inp.live :
       \E x \in Wanted \cup UNION {inp.personality[f] : f \in objs \cap alive} :
         Defines(m, x)

(* Archives give exactly what the link needs, from a state that is typed:   *)
(* nothing wanted is left in an archive and no member came unasked.        *)
ExtractionIsRight == TypeOK /\ NothingLeftBehind /\ MembersForAReason

(* The extraction loop ends although every drained frontier may ask for    *)
(* another member.                                                         *)
Terminates == <>(phase = "done")

(* The comment in mark_live_objects: "If at least one symbol defines it as *)
(* an GLOBAL symbol, the result is an GLOBAL symbol instead of MODULE, so  *)
(* that the symbol is exported."                                           *)
GlobalIfAnyIsGlobal ==
  phase = "done" =>
    \A x \in Sym :
      (\E f \in objs \cap alive :
          Defines(f, x) /\ x \notin inp.hidden[f])
        => sym[x].scope = "global"
=============================================================================
