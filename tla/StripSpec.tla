------------------------------ MODULE StripSpec ------------------------------
(***************************************************************************)
(* What -dead_strip promises, without workers, roots in flight or rounds:  *)
(* what is needed is decided once, all of it and nothing else; then each   *)
(* file loses the symbols and the subsections that are not, the symbol     *)
(* tables of all files before any subsection.                              *)
(***************************************************************************)
CONSTANTS
  File, Subsec, None,
  Programs,      \* the linker inputs considered
  Closed(_, _)   \* Closed(p, X): X holds the roots of p and what X needs

VARIABLES
  prog,          \* the program being linked
  stage,         \* "linking", "decided" or "done"
  live,          \* what is kept, once that is decided
  syms,          \* per file: its symbols
  subsections    \* per file: its subsections

vars == <<prog, stage, live, syms, subsections>>

IsLeast(p, X) ==
  /\ Closed(p, X)
  /\ \A Y \in SUBSET Subsec : Closed(p, Y) => X \subseteq Y

KeptSyms(f) ==
  prog.syms[f] \ {x \in prog.syms[f] : prog.symFile[x] = f /\ prog.symSubsec[x] # None
                                         /\ prog.symSubsec[x] \notin live}
KeptSubsecs(f) == prog.subsecs[f] \cap live

Init ==
  /\ prog \in Programs
  /\ stage = "linking"
  /\ live = {}
  /\ syms = prog.syms
  /\ subsections = prog.subsecs

Decide ==
  /\ stage = "linking"
  /\ stage' = "decided"
  /\ live' \in SUBSET Subsec
  /\ IsLeast(prog, live')
  /\ UNCHANGED <<prog, syms, subsections>>

DropSyms(f) ==
  /\ stage = "decided"
  /\ syms' = [syms EXCEPT ![f] = KeptSyms(f)]
  /\ UNCHANGED <<prog, stage, live, subsections>>

DropSubsecs(f) ==
  /\ stage = "decided"
  /\ \A g \in File : syms[g] = KeptSyms(g)
  /\ subsections' = [subsections EXCEPT ![f] = KeptSubsecs(f)]
  /\ UNCHANGED <<prog, stage, live, syms>>

Finish ==
  /\ stage = "decided"
  /\ \A g \in File : syms[g] = KeptSyms(g) /\ subsections[g] = KeptSubsecs(g)
  /\ stage' = "done"
  /\ UNCHANGED <<prog, live, syms, subsections>>

Next == Decide \/ Finish \/ \E f \in File : DropSyms(f) \/ DropSubsecs(f)

Spec == Init /\ [][Next]_vars
=============================================================================
