------------------------------ MODULE DeadStrip ------------------------------
(***************************************************************************)
(* The -dead_strip pass of the Mach-O linker (src/macho/dead-strip.cc):    *)
(* roots are collected from every object file, everything they reach       *)
(* through relocations and unwind records is marked, "live support"        *)
(* subsections are then added until a round adds none, and what is not     *)
(* marked is swept from the symbol tables and from the subsection lists.   *)
(*                                                                         *)
(* The four parallel loops run on Worker threads that take work items in   *)
(* any order; each loop ends with a barrier.  A relocation or an unwind    *)
(* record is abstracted to the subsections and symbols it names.           *)
(***************************************************************************)
EXTENDS FiniteSets

CONSTANTS Subsec, Symbol, File, Worker,
          None,      \* the null pointer
          Programs   \* the linker inputs considered

(***************************************************************************)
(* What the parsers and the symbol resolver hand to the pass.              *)
(***************************************************************************)
Program ==
  [ subsecs     : [File -> SUBSET Subsec],   \* file->subsections
    syms        : [File -> SUBSET Symbol],   \* file->syms
    symFile     : [Symbol -> File \cup {None}],
    symSubsec   : [Symbol -> Subsec \cup {None}],
    relSyms     : [Subsec -> SUBSET Symbol], \* relocations against symbols
    relSubsecs  : [Subsec -> SUBSET Subsec], \* and against subsections
    unwindSyms  : [Subsec -> SUBSET Symbol], \* personalities of its records
    unwindSubsecs : [Subsec -> SUBSET Subsec], \* rec.subsec, lsda, fde
    initFuncs   : [File -> SUBSET Symbol],
    personality : [File -> SUBSET Symbol],   \* of the file's CIEs
    noDeadStrip : SUBSET Symbol,             \* N_NO_DEAD_STRIP
    global      : SUBSET Symbol,             \* visibility == SCOPE_GLOBAL
    keepSect    : SUBSET Subsec,    \* S_ATTR_NO_DEAD_STRIP, mod_init, mod_term
    liveSupport : SUBSET Subsec,             \* S_ATTR_LIVE_SUPPORT
    outputType  : {"execute", "dylib", "bundle"},
    undefs      : SUBSET Symbol,             \* -u
    entry       : Symbol ]

ASSUME ProgramsAssumption == Programs \subseteq Program
ASSUME NoneAssumption == None \notin Subsec /\ None \notin File

VARIABLES
  prog,         \* the program being linked; never changes
  phase,        \* the loop that is running
  todo,         \* files the running loop has not handed out
  rootset,      \* roots found and not handed to a worker
  is_alive,     \* subsections whose is_alive flag is set
  visiting,     \* per worker: subsections its recursion has still to visit
  scan,         \* per worker: subsections of its file still to be examined
  exam,         \* per worker: the dead live-support subsection it examines
  found,        \* per worker: it is visiting for a live-support subsection
  repeat,       \* the do-while flag of mark
  syms,         \* per file: symbol table entries that are not null
  subsections   \* per file: the subsection list

vars == <<prog, phase, todo, rootset, is_alive, visiting, scan, exam, found,
          repeat, syms, subsections>>

Phases == {"collect", "mark", "support", "sweepSyms", "sweepSubsecs", "done"}

SubsecsOf(p, S) == {p.symSubsec[x] : x \in S} \ {None}

(* Roots contributed by one file and by the command line. *)
Keep(p, x) ==
  \/ x \in p.noDeadStrip
  \/ p.outputType \in {"dylib", "bundle"} /\ x \in p.global

FileRoots(p, f) ==
  SubsecsOf(p, {x \in p.syms[f] : p.symFile[x] = f /\ Keep(p, x)}
                 \cup p.initFuncs[f] \cup p.personality[f])
    \cup (p.subsecs[f] \cap p.keepSect)

ArgRoots(p) ==
  SubsecsOf(p, {x \in p.undefs : p.symFile[x] # None} \cup {p.entry})

(* What visit goes on to from a subsection, and what makes one supported. *)
RelTargets(p, s) == p.relSubsecs[s] \cup SubsecsOf(p, p.relSyms[s])

VisitTargets(p, s) ==
  RelTargets(p, s) \cup p.unwindSubsecs[s] \cup SubsecsOf(p, p.unwindSyms[s])

RefersToLive(p, s, A) == RelTargets(p, s) \cap A # {}

Init ==
  /\ prog \in Programs
  /\ phase = "collect"
  /\ todo = File
  /\ rootset = {}
  /\ is_alive = {}
  /\ visiting = [w \in Worker |-> {}]
  /\ scan = [w \in Worker |-> {}]
  /\ exam = [w \in Worker |-> None]
  /\ found = [w \in Worker |-> FALSE]
  /\ repeat = FALSE
  /\ syms = prog.syms
  /\ subsections = prog.subsecs

Idle(w) == visiting[w] = {} /\ scan[w] = {} /\ exam[w] = None /\ ~found[w]
AllIdle == \A w \in Worker : Idle(w)

(***************************************************************************)
(* collect_root_set: one parallel task per file, then the command line.    *)
(* ctx.stub_helper is created after this pass, so its root is never added. *)
(***************************************************************************)
CollectFile(f) ==
  /\ phase = "collect"
  /\ f \in todo
  /\ todo' = todo \ {f}
  /\ rootset' = rootset \cup FileRoots(prog, f)
  /\ UNCHANGED <<prog, phase, is_alive, visiting, scan, exam, found, repeat,
                 syms, subsections>>

CollectArgs ==
  /\ phase = "collect"
  /\ todo = {}
  /\ rootset' = rootset \cup ArgRoots(prog)
  /\ phase' = "mark"
  /\ UNCHANGED <<prog, todo, is_alive, visiting, scan, exam, found, repeat,
                 syms, subsections>>

(***************************************************************************)
(* mark.  A worker takes a root and runs the recursive visit: its call     *)
(* stack is the set of subsections it has still to try, and the atomic     *)
(* test_and_set decides which of two workers goes on from a subsection.    *)
(***************************************************************************)
TakeRoot(w, s) ==
  /\ phase = "mark"
  /\ Idle(w)
  /\ s \in rootset
  /\ rootset' = rootset \ {s}
  /\ visiting' = [visiting EXCEPT ![w] = {s}]
  /\ UNCHANGED <<prog, phase, todo, is_alive, scan, exam, found, repeat,
                 syms, subsections>>

Visit(w, s) ==
  /\ s \in visiting[w]
  /\ visiting' = [visiting EXCEPT ![w] =
       (@ \ {s}) \cup IF s \in is_alive THEN {} ELSE VisitTargets(prog, s)]
  /\ is_alive' = is_alive \cup {s}
  /\ UNCHANGED <<prog, phase, todo, rootset, scan, exam, found, repeat,
                 syms, subsections>>

(* Mutant: repeat is not reset at the top of the do-while loop. *)
StartRound_NoReset ==
  /\ todo' = File
  /\ repeat' = repeat
  /\ phase' = "support"

StartRound ==
  /\ todo' = File
  /\ repeat' = FALSE
  /\ phase' = "support"

FinishMark ==
  /\ phase = "mark"
  /\ rootset = {}
  /\ AllIdle
  /\ StartRound
  /\ UNCHANGED <<prog, rootset, is_alive, visiting, scan, exam, found, syms,
                 subsections>>

(***************************************************************************)
(* One round of the live-support loop.  refers_to_live_subsection reads    *)
(* several flags, which only ever go up: when it answers FALSE all of them *)
(* were down at its first read, so its reads are one step.                 *)
(***************************************************************************)
TakeFile(w, f) ==
  /\ phase = "support"
  /\ Idle(w)
  /\ f \in todo
  /\ todo' = todo \ {f}
  /\ scan' = [scan EXCEPT ![w] = subsections[f]]
  /\ UNCHANGED <<prog, phase, rootset, is_alive, visiting, exam, found,
                 repeat, syms, subsections>>

Examine(w, s) ==
  /\ phase = "support"
  /\ visiting[w] = {} /\ exam[w] = None /\ ~found[w]
  /\ s \in scan[w]
  /\ scan' = [scan EXCEPT ![w] = @ \ {s}]
  /\ exam' = [exam EXCEPT ![w] =
       IF s \in prog.liveSupport /\ s \notin is_alive THEN s ELSE None]
  /\ UNCHANGED <<prog, phase, todo, rootset, is_alive, visiting, found,
                 repeat, syms, subsections>>

(* Mutant: every dead live-support subsection is visited. *)
Decide_Untested(w) ==
  /\ exam[w] # None
  /\ visiting' = [visiting EXCEPT ![w] = {exam[w]}]
  /\ found' = [found EXCEPT ![w] = TRUE]
  /\ exam' = [exam EXCEPT ![w] = None]
  /\ UNCHANGED <<prog, phase, todo, rootset, is_alive, scan, repeat, syms,
                 subsections>>

Decide(w) ==
  /\ exam[w] # None
  /\ LET hit == RefersToLive(prog, exam[w], is_alive)
     IN  /\ visiting' = [visiting EXCEPT ![w] =
                           IF hit THEN {exam[w]} ELSE {}]
         /\ found' = [found EXCEPT ![w] = hit]
  /\ exam' = [exam EXCEPT ![w] = None]
  /\ UNCHANGED <<prog, phase, todo, rootset, is_alive, scan, repeat, syms,
                 subsections>>

(* The visit has returned: repeat = true. *)
RequestRepeat(w) ==
  /\ found[w] /\ visiting[w] = {}
  /\ repeat' = TRUE
  /\ found' = [found EXCEPT ![w] = FALSE]
  /\ UNCHANGED <<prog, phase, todo, rootset, is_alive, visiting, scan, exam,
                 syms, subsections>>

NextRound ==
  /\ phase = "support"
  /\ todo = {}
  /\ AllIdle
  /\ repeat
  /\ StartRound
  /\ UNCHANGED <<prog, rootset, is_alive, visiting, scan, exam, found, syms,
                 subsections>>

(* Mutant: the live-support loop runs once. *)
FinishSupport_OneRound ==
  /\ phase = "support"
  /\ todo = {}
  /\ AllIdle
  /\ phase' = "sweepSyms"
  /\ todo' = File
  /\ UNCHANGED <<prog, rootset, is_alive, visiting, scan, exam, found, repeat,
                 syms, subsections>>

FinishSupport ==
  /\ phase = "support"
  /\ todo = {}
  /\ AllIdle
  /\ ~repeat
  /\ phase' = "sweepSyms"
  /\ todo' = File
  /\ UNCHANGED <<prog, rootset, is_alive, visiting, scan, exam, found, repeat,
                 syms, subsections>>

(***************************************************************************)
(* sweep: the symbol tables of all files first, then the subsections.      *)
(***************************************************************************)
(* Mutant: symbols without a subsection are taken for dead ones. *)
SweptSyms_NullIsDead(f) ==
  {x \in syms[f] : prog.symFile[x] = f /\ prog.symSubsec[x] \notin is_alive}

SweptSyms(f) ==
  {x \in syms[f] : prog.symFile[x] = f /\ prog.symSubsec[x] # None
                     /\ prog.symSubsec[x] \notin is_alive}

SweepSyms(f) ==
  /\ phase = "sweepSyms"
  /\ f \in todo
  /\ todo' = todo \ {f}
  /\ syms' = [syms EXCEPT ![f] = @ \ SweptSyms(f)]
  /\ UNCHANGED <<prog, phase, rootset, is_alive, visiting, scan, exam, found,
                 repeat, subsections>>

FinishSweepSyms ==
  /\ phase = "sweepSyms"
  /\ todo = {}
  /\ phase' = "sweepSubsecs"
  /\ todo' = File
  /\ UNCHANGED <<prog, rootset, is_alive, visiting, scan, exam, found, repeat,
                 syms, subsections>>

SweepSubsecs(f) ==
  /\ phase = "sweepSubsecs"
  /\ f \in todo
  /\ todo' = todo \ {f}
  /\ subsections' = [subsections EXCEPT ![f] = @ \cap is_alive]
  /\ UNCHANGED <<prog, phase, rootset, is_alive, visiting, scan, exam, found,
                 repeat, syms>>

FinishSweep ==
  /\ phase = "sweepSubsecs"
  /\ todo = {}
  /\ phase' = "done"
  /\ UNCHANGED <<prog, todo, rootset, is_alive, visiting, scan, exam, found,
                 repeat, syms, subsections>>

Finished == phase = "done" /\ UNCHANGED vars

WorkerStep(w) ==
  \/ \E s \in Subsec : TakeRoot(w, s) \/ Visit(w, s) \/ Examine(w, s)
  \/ \E f \in File : TakeFile(w, f)
  \/ Decide(w)
  \/ RequestRepeat(w)

PassStep ==
  \/ \E f \in File : CollectFile(f) \/ SweepSyms(f) \/ SweepSubsecs(f)
  \/ CollectArgs \/ FinishMark \/ NextRound \/ FinishSupport
  \/ FinishSweepSyms \/ FinishSweep

Next == PassStep \/ (\E w \in Worker : WorkerStep(w)) \/ Finished

Spec == Init /\ [][Next]_vars

(* tbb::parallel_for_each runs every task it was given to its end, and the *)
(* main thread goes on when the last one returns.                          *)
FairSpec ==
  Spec /\ WF_vars(PassStep) /\ \A w \in Worker : WF_vars(WorkerStep(w))

-----------------------------------------------------------------------------
(***************************************************************************)
(* Properties.                                                             *)
(***************************************************************************)
TypeOK ==
  /\ phase \in Phases
  /\ todo \in SUBSET File
  /\ rootset \in SUBSET Subsec
  /\ is_alive \in SUBSET Subsec
  /\ visiting \in [Worker -> SUBSET Subsec]
  /\ scan \in [Worker -> SUBSET Subsec]
  /\ exam \in [Worker -> Subsec \cup {None}]
  /\ found \in [Worker -> BOOLEAN]
  /\ repeat \in BOOLEAN
  /\ syms \in [File -> SUBSET Symbol]
  /\ subsections \in [File -> SUBSET Subsec]

Roots(p) == ArgRoots(p) \cup UNION {FileRoots(p, f) : f \in File}

InFiles(p) == UNION {p.subsecs[f] : f \in File}

(* The sets of subsections -dead_strip may keep: they hold the roots, what *)
(* they refer to, and every live-support subsection that refers into them. *)
IsClosed(p, X) ==
  /\ Roots(p) \subseteq X
  /\ \A s \in X : VisitTargets(p, s) \subseteq X
  /\ \A s \in InFiles(p) \cap p.liveSupport :
       RefersToLive(p, s, X) => s \in X

(* Nothing is dropped that is needed: whatever order the workers ran in,   *)
(* when marking is over the marked set is closed, although mark re-scans   *)
(* live-support subsections only while a round reported a change.          *)
MarkedSetIsClosed ==
  phase \in {"sweepSyms", "sweepSubsecs", "done"} => IsClosed(prog, is_alive)

(* Nothing is kept without a reason: at every moment the marked set lies   *)
(* in every closed set.  With MarkedSetIsClosed the result is the least    *)
(* closed set, the same one for every schedule of the workers.             *)
OnlyNeededIsMarked ==
  \A X \in SUBSET Subsec : IsClosed(prog, X) => is_alive \subseteq X

(* The pass keeps the promise of StripSpec: the four loops and the rounds  *)
(* are one decision, which is the least closed set whatever the workers    *)
(* did, followed by the sweep; in the end every file has lost exactly what *)
(* is not in that set, symbols that have no subsection stay, and no table  *)
(* was touched before the decision.                                        *)
stage ==
  IF phase \in {"collect", "mark", "support"} THEN "linking"
  ELSE IF phase = "done" THEN "done" ELSE "decided"
decided == IF stage = "linking" THEN {} ELSE is_alive

Promise == INSTANCE StripSpec WITH Closed <- IsClosed, live <- decided
KeepsPromise == Promise!Spec

(* The pass ends: the live-support loop is not repeated for ever, although *)
(* its flag is raised even when another worker marked the subsection first.*)
Terminates == <>(phase = "done")
=============================================================================
