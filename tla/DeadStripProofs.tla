--------------------------- MODULE DeadStripProofs ---------------------------
(***************************************************************************)
(* Proofs that the -dead_strip pass marks exactly the least closed set,    *)
(* for every program, every number of workers and every schedule.          *)
(***************************************************************************)
EXTENDS DeadStrip, TLAPS

(* A subsection is marked or some worker is about to visit it. *)
Reached(s) == s \in is_alive \/ \E w \in Worker : s \in visiting[w]

(* Who may be busy in which phase. *)
Discipline ==
  /\ phase \notin {"collect", "mark"} => rootset = {}
  /\ phase \notin {"mark", "support"} => AllIdle
  /\ phase = "mark" =>
       \A w \in Worker : scan[w] = {} /\ exam[w] = None /\ ~found[w]
  /\ phase = "support" =>
       \A w \in Worker : /\ visiting[w] # {} => found[w]
                         /\ exam[w] # None => ~found[w] /\ visiting[w] = {}
  /\ phase \notin {"sweepSubsecs", "done"} => subsections = prog.subsecs

(* No root and no successor of a marked subsection is forgotten. *)
RootsKept ==
  /\ phase = "collect" =>
       \A f \in File \ todo : FileRoots(prog, f) \subseteq rootset
  /\ phase # "collect" =>
       \A s \in Roots(prog) : s \in rootset \/ Reached(s)

TargetsKept == \A s \in is_alive : \A t \in VisitTargets(prog, s) : Reached(t)

(* While a round has found nothing, the marked set is what it was when the *)
(* round began, so a subsection already examined need not be looked at     *)
(* again.                                                                  *)
Unexamined(s) == \E w \in Worker : s \in scan[w] \/ s = exam[w]

QuietRound ==
  (phase = "support" /\ ~repeat /\ \A w \in Worker : ~found[w]) =>
    \A f \in File \ todo : \A s \in prog.subsecs[f] \cap prog.liveSupport :
      RefersToLive(prog, s, is_alive) => s \in is_alive \/ Unexamined(s)

SupportClosed ==
  phase \in {"sweepSyms", "sweepSubsecs", "done"} =>
    \A s \in InFiles(prog) \cap prog.liveSupport :
      RefersToLive(prog, s, is_alive) => s \in is_alive

(* Every work item is justified. *)
Justified ==
  /\ rootset \subseteq Roots(prog)
  /\ \A w \in Worker : /\ scan[w] \subseteq InFiles(prog)
                       /\ exam[w] # None =>
                            exam[w] \in InFiles(prog) \cap prog.liveSupport
  /\ \A X \in SUBSET Subsec : IsClosed(prog, X) =>
       is_alive \subseteq X /\ \A w \in Worker : visiting[w] \subseteq X

IInv ==
  /\ prog \in Programs
  /\ TypeOK
  /\ Discipline
  /\ RootsKept
  /\ TargetsKept
  /\ QuietRound
  /\ SupportClosed
  /\ Justified

-----------------------------------------------------------------------------
(* What the operators on a program return. *)
LEMMA ProgramFields ==
  ASSUME NEW p \in Program
  PROVE  /\ p.subsecs \in [File -> SUBSET Subsec]
         /\ p.syms \in [File -> SUBSET Symbol]
         /\ p.symFile \in [Symbol -> File \cup {None}]
         /\ p.symSubsec \in [Symbol -> Subsec \cup {None}]
         /\ p.relSyms \in [Subsec -> SUBSET Symbol]
         /\ p.relSubsecs \in [Subsec -> SUBSET Subsec]
         /\ p.unwindSyms \in [Subsec -> SUBSET Symbol]
         /\ p.unwindSubsecs \in [Subsec -> SUBSET Subsec]
         /\ p.initFuncs \in [File -> SUBSET Symbol]
         /\ p.personality \in [File -> SUBSET Symbol]
         /\ p.undefs \in SUBSET Symbol
         /\ p.entry \in Symbol
  BY DEF Program

LEMMA SubsecsOfType ==
  ASSUME NEW p \in Program, NEW S \in SUBSET Symbol
  PROVE  SubsecsOf(p, S) \subseteq Subsec
  BY ProgramFields DEF SubsecsOf

LEMMA FileRootsType ==
  ASSUME NEW p \in Program, NEW f \in File
  PROVE  FileRoots(p, f) \subseteq Subsec
<1> DEFINE S == {x \in p.syms[f] : p.symFile[x] = f /\ Keep(p, x)}
                  \cup p.initFuncs[f] \cup p.personality[f]
<1>1. S \in SUBSET Symbol
  BY ProgramFields
<1>2. SubsecsOf(p, S) \subseteq Subsec
  BY <1>1, SubsecsOfType
<1>3. p.subsecs[f] \subseteq Subsec
  BY ProgramFields
<1> QED
  BY <1>2, <1>3 DEF FileRoots

LEMMA ArgRootsType ==
  ASSUME NEW p \in Program
  PROVE  ArgRoots(p) \subseteq Subsec
<1> DEFINE S == {x \in p.undefs : p.symFile[x] # None} \cup {p.entry}
<1>1. S \in SUBSET Symbol
  BY ProgramFields
<1>2. SubsecsOf(p, S) \subseteq Subsec
  BY <1>1, SubsecsOfType
<1> QED
  BY <1>2 DEF ArgRoots

LEMMA RelTargetsType ==
  ASSUME NEW p \in Program, NEW s \in Subsec
  PROVE  RelTargets(p, s) \subseteq Subsec
<1>1. p.relSyms[s] \in SUBSET Symbol /\ p.relSubsecs[s] \subseteq Subsec
  BY ProgramFields
<1> QED
  BY <1>1, SubsecsOfType DEF RelTargets

LEMMA VisitTargetsType ==
  ASSUME NEW p \in Program, NEW s \in Subsec
  PROVE  VisitTargets(p, s) \subseteq Subsec
<1>1. p.unwindSyms[s] \in SUBSET Symbol /\ p.unwindSubsecs[s] \subseteq Subsec
  BY ProgramFields
<1> QED
  BY <1>1, SubsecsOfType, RelTargetsType DEF VisitTargets

-----------------------------------------------------------------------------
LEMMA InitIInv == Init => IInv
<1> SUFFICES ASSUME Init PROVE IInv
  OBVIOUS
<1>1. prog \in Programs /\ prog \in Program
  BY ProgramsAssumption DEF Init
<1>2. TypeOK
  BY <1>1, ProgramFields DEF Init, TypeOK, Phases
<1>3. Discipline
  BY DEF Init, Discipline, AllIdle, Idle
<1>4. RootsKept /\ TargetsKept /\ QuietRound /\ SupportClosed /\ Justified
  BY DEF Init, RootsKept, TargetsKept, QuietRound, SupportClosed, Justified
<1> QED
  BY <1>1, <1>2, <1>3, <1>4 DEF IInv

(* The types. *)
LEMMA TypeStep ==
  ASSUME IInv, [Next]_vars
  PROVE  prog' \in Programs /\ TypeOK'
<1> USE DEF TypeOK
<1>1. prog \in Program /\ prog \in Programs /\ TypeOK
  BY ProgramsAssumption DEF IInv
<1>2. CASE UNCHANGED vars
  BY <1>1, <1>2 DEF vars
<1>3. CASE Next
  <2>1. ASSUME NEW f \in File, CollectFile(f) PROVE TypeOK' /\ prog' = prog
    BY <1>1, <2>1, FileRootsType DEF CollectFile
  <2>2. ASSUME NEW f \in File, SweepSyms(f) PROVE TypeOK' /\ prog' = prog
    BY <1>1, <2>2 DEF SweepSyms
  <2>3. ASSUME NEW f \in File, SweepSubsecs(f) PROVE TypeOK' /\ prog' = prog
    BY <1>1, <2>3 DEF SweepSubsecs
  <2>4. CASE CollectArgs
    BY <1>1, <2>4, ArgRootsType DEF CollectArgs, Phases
  <2>5. CASE FinishMark \/ NextRound
    BY <1>1, <2>5 DEF FinishMark, NextRound, StartRound, Phases
  <2>6. CASE FinishSupport \/ FinishSweepSyms \/ FinishSweep
    BY <1>1, <2>6 DEF FinishSupport, FinishSweepSyms, FinishSweep, Phases
  <2>7. ASSUME NEW w \in Worker, NEW s \in Subsec, TakeRoot(w, s)
        PROVE  TypeOK' /\ prog' = prog
    BY <1>1, <2>7 DEF TakeRoot
  <2>8. ASSUME NEW w \in Worker, NEW s \in Subsec, Visit(w, s)
        PROVE  TypeOK' /\ prog' = prog
    <3>1. VisitTargets(prog, s) \subseteq Subsec
      BY <1>1, VisitTargetsType
    <3> QED
      BY <1>1, <2>8, <3>1 DEF Visit
  <2>9. ASSUME NEW w \in Worker, NEW s \in Subsec, Examine(w, s)
        PROVE  TypeOK' /\ prog' = prog
    BY <1>1, <2>9 DEF Examine
  <2>10. ASSUME NEW w \in Worker, NEW f \in File, TakeFile(w, f)
         PROVE  TypeOK' /\ prog' = prog
    BY <1>1, <2>10 DEF TakeFile
  <2>11. ASSUME NEW w \in Worker, Decide(w) PROVE TypeOK' /\ prog' = prog
    <3>1. RefersToLive(prog, exam[w], is_alive) \in BOOLEAN
      BY DEF RefersToLive
    <3> QED
      BY <1>1, <2>11, <3>1 DEF Decide
  <2>12. ASSUME NEW w \in Worker, RequestRepeat(w)
         PROVE  TypeOK' /\ prog' = prog
    BY <1>1, <2>12 DEF RequestRepeat
  <2>13. CASE Finished
    BY <1>1, <2>13 DEF Finished, vars
  <2> QED
    BY <1>1, <1>3, <2>1, <2>2, <2>3, <2>4, <2>5, <2>6, <2>7, <2>8, <2>9,
       <2>10, <2>11, <2>12, <2>13
    DEF Next, PassStep, WorkerStep, CollectArgs, FinishMark, NextRound,
        FinishSupport, FinishSweepSyms, FinishSweep, Finished, vars
<1> QED
  BY <1>2, <1>3

(* Which worker may be busy when. *)
LEMMA DisciplineStep ==
  ASSUME IInv, [Next]_vars
  PROVE  Discipline'
<1> USE DEF Discipline
<1>1. TypeOK /\ Discipline
  BY DEF IInv
<1>2. CASE UNCHANGED vars
  BY <1>1, <1>2 DEF vars, AllIdle, Idle
<1>3. CASE Next
  <2> USE DEF AllIdle, Idle, TypeOK
  <2>1. ASSUME NEW f \in File, CollectFile(f) PROVE Discipline'
    BY <1>1, <2>1 DEF CollectFile
  <2>2. ASSUME NEW f \in File, SweepSyms(f) PROVE Discipline'
    BY <1>1, <2>2 DEF SweepSyms
  <2>3. ASSUME NEW f \in File, SweepSubsecs(f) PROVE Discipline'
    BY <1>1, <2>3 DEF SweepSubsecs
  <2>4. CASE CollectArgs
    BY <1>1, <2>4 DEF CollectArgs
  <2>5. CASE FinishMark \/ NextRound
    BY <1>1, <2>5 DEF FinishMark, NextRound, StartRound
  <2>6. CASE FinishSupport \/ FinishSweepSyms \/ FinishSweep
    BY <1>1, <2>6 DEF FinishSupport, FinishSweepSyms, FinishSweep
  <2>7. ASSUME NEW w \in Worker, NEW s \in Subsec, TakeRoot(w, s)
        PROVE  Discipline'
    BY <1>1, <2>7 DEF TakeRoot
  <2>8. ASSUME NEW w \in Worker, NEW s \in Subsec, Visit(w, s)
        PROVE  Discipline'
    BY <1>1, <2>8 DEF Visit
  <2>9. ASSUME NEW w \in Worker, NEW s \in Subsec, Examine(w, s)
        PROVE  Discipline'
    BY <1>1, <2>9 DEF Examine
  <2>10. ASSUME NEW w \in Worker, NEW f \in File, TakeFile(w, f)
         PROVE  Discipline'
    BY <1>1, <2>10 DEF TakeFile
  <2>11. ASSUME NEW w \in Worker, Decide(w) PROVE Discipline'
    BY <1>1, <2>11 DEF Decide
  <2>12. ASSUME NEW w \in Worker, RequestRepeat(w) PROVE Discipline'
    BY <1>1, <2>12 DEF RequestRepeat
  <2>13. CASE Finished
    BY <1>1, <2>13 DEF Finished, vars
  <2> QED
    BY <1>3, <2>1, <2>2, <2>3, <2>4, <2>5, <2>6, <2>7, <2>8, <2>9, <2>10,
       <2>11, <2>12, <2>13 DEF Next, PassStep, WorkerStep
<1> QED
  BY <1>2, <1>3

(* No root is lost between its file and a worker. *)
LEMMA RootsStep ==
  ASSUME IInv, [Next]_vars
  PROVE  RootsKept'
<1> USE DEF RootsKept
<1>1. TypeOK /\ Discipline /\ RootsKept
  BY DEF IInv
<1>2. CASE UNCHANGED vars
  BY <1>1, <1>2 DEF vars, Reached
<1>3. CASE Next
  <2> USE DEF TypeOK, Reached
  <2>1. ASSUME NEW f \in File, CollectFile(f) PROVE RootsKept'
    BY <1>1, <2>1 DEF CollectFile
  <2>2. ASSUME NEW f \in File, SweepSyms(f) \/ SweepSubsecs(f)
        PROVE  RootsKept'
    BY <1>1, <2>2 DEF SweepSyms, SweepSubsecs
  <2>4. CASE CollectArgs
    BY <1>1, <2>4 DEF CollectArgs, Roots
  <2>5. CASE FinishMark \/ NextRound
    BY <1>1, <2>5 DEF FinishMark, NextRound, StartRound
  <2>6. CASE FinishSupport \/ FinishSweepSyms \/ FinishSweep
    BY <1>1, <2>6 DEF FinishSupport, FinishSweepSyms, FinishSweep
  <2>7. ASSUME NEW w \in Worker, NEW s \in Subsec, TakeRoot(w, s)
        PROVE  RootsKept'
    BY <1>1, <2>7 DEF TakeRoot, Idle
  <2>8. ASSUME NEW w \in Worker, NEW s \in Subsec, Visit(w, s)
        PROVE  RootsKept'
    BY <1>1, <2>8 DEF Visit, Discipline, AllIdle, Idle
  <2>9. ASSUME NEW w \in Worker, NEW s \in Subsec, Examine(w, s)
        PROVE  RootsKept'
    BY <1>1, <2>9 DEF Examine
  <2>10. ASSUME NEW w \in Worker, NEW f \in File, TakeFile(w, f)
         PROVE  RootsKept'
    BY <1>1, <2>10 DEF TakeFile
  <2>11. ASSUME NEW w \in Worker, Decide(w) PROVE RootsKept'
    BY <1>1, <2>11 DEF Decide, Discipline, AllIdle, Idle
  <2>12. ASSUME NEW w \in Worker, RequestRepeat(w) PROVE RootsKept'
    BY <1>1, <2>12 DEF RequestRepeat, Discipline, AllIdle, Idle
  <2>13. CASE Finished
    BY <1>1, <2>13 DEF Finished, vars
  <2> QED
    BY <1>3, <2>1, <2>2, <2>4, <2>5, <2>6, <2>7, <2>8, <2>9, <2>10, <2>11,
       <2>12, <2>13 DEF Next, PassStep, WorkerStep
<1> QED
  BY <1>2, <1>3

(* No successor of a marked subsection is lost. *)
LEMMA TargetsStep ==
  ASSUME IInv, [Next]_vars
  PROVE  TargetsKept'
<1> USE DEF TargetsKept, Reached
<1>1. TypeOK /\ Discipline /\ TargetsKept
  BY DEF IInv
<1>2. CASE UNCHANGED vars
  BY <1>1, <1>2 DEF vars
<1>3. CASE Next
  <2> USE DEF TypeOK
  <2>1. ASSUME NEW f \in File,
               CollectFile(f) \/ SweepSyms(f) \/ SweepSubsecs(f)
        PROVE  TargetsKept'
    BY <1>1, <2>1 DEF CollectFile, SweepSyms, SweepSubsecs
  <2>4. CASE CollectArgs
    BY <1>1, <2>4 DEF CollectArgs
  <2>5. CASE FinishMark \/ NextRound
    BY <1>1, <2>5 DEF FinishMark, NextRound
  <2>6. CASE FinishSupport \/ FinishSweepSyms \/ FinishSweep
    BY <1>1, <2>6 DEF FinishSupport, FinishSweepSyms, FinishSweep
  <2>7. ASSUME NEW w \in Worker, NEW s \in Subsec, TakeRoot(w, s)
        PROVE  TargetsKept'
    BY <1>1, <2>7 DEF TakeRoot, Idle
  <2>8. ASSUME NEW w \in Worker, NEW s \in Subsec, Visit(w, s)
        PROVE  TargetsKept'
    BY <1>1, <2>8 DEF Visit
  <2>9. ASSUME NEW w \in Worker, NEW s \in Subsec, Examine(w, s)
        PROVE  TargetsKept'
    BY <1>1, <2>9 DEF Examine
  <2>10. ASSUME NEW w \in Worker, NEW f \in File, TakeFile(w, f)
         PROVE  TargetsKept'
    BY <1>1, <2>10 DEF TakeFile
  <2>11. ASSUME NEW w \in Worker, Decide(w) PROVE TargetsKept'
    BY <1>1, <2>11 DEF Decide, Discipline, AllIdle, Idle
  <2>12. ASSUME NEW w \in Worker, RequestRepeat(w) PROVE TargetsKept'
    BY <1>1, <2>12 DEF RequestRepeat
  <2>13. CASE Finished
    BY <1>1, <2>13 DEF Finished, vars
  <2> QED
    BY <1>3, <2>1, <2>4, <2>5, <2>6, <2>7, <2>8, <2>9, <2>10, <2>11, <2>12,
       <2>13 DEF Next, PassStep, WorkerStep
<1> QED
  BY <1>2, <1>3

(* A round that finds nothing has looked at everything: a step either      *)
(* leaves the marked set alone or is taken by a worker that has found      *)
(* something and will raise repeat.                                        *)
LEMMA QuietStep ==
  ASSUME IInv, [Next]_vars
  PROVE  QuietRound'
<1> USE DEF QuietRound, Unexamined
<1>1. prog \in Program /\ TypeOK /\ Discipline /\ QuietRound
  BY ProgramsAssumption DEF IInv
<1>2. CASE UNCHANGED vars
  BY <1>1, <1>2 DEF vars
<1>3. CASE Next
  <2> USE DEF TypeOK
  <2>1. ASSUME NEW f \in File,
               CollectFile(f) \/ SweepSyms(f) \/ SweepSubsecs(f)
        PROVE  QuietRound'
    BY <1>1, <2>1 DEF CollectFile, SweepSyms, SweepSubsecs
  <2>4. CASE CollectArgs
    BY <1>1, <2>4 DEF CollectArgs
  <2>5. CASE FinishMark \/ NextRound
    BY <1>1, <2>5 DEF FinishMark, NextRound, StartRound
  <2>6. CASE FinishSupport \/ FinishSweepSyms \/ FinishSweep
    BY <1>1, <2>6 DEF FinishSupport, FinishSweepSyms, FinishSweep
  <2>7. ASSUME NEW w \in Worker, NEW s \in Subsec, TakeRoot(w, s)
        PROVE  QuietRound'
    BY <1>1, <2>7 DEF TakeRoot
  <2>8. ASSUME NEW w \in Worker, NEW s \in Subsec, Visit(w, s)
        PROVE  QuietRound'
    BY <1>1, <2>8 DEF Visit, Discipline
  <2>9. ASSUME NEW w \in Worker, NEW s \in Subsec, Examine(w, s)
        PROVE  QuietRound'
    <3> SUFFICES ASSUME phase = "support", ~repeat,
                        \A v \in Worker : ~found'[v],
                        NEW g \in File \ todo',
                        NEW t \in prog.subsecs[g] \cap prog.liveSupport,
                        RefersToLive(prog, t, is_alive)
                 PROVE  t \in is_alive \/ Unexamined(t)'
      BY <2>9 DEF Examine
    <3>1. t \in is_alive \/ Unexamined(t)
      BY <1>1, <2>9 DEF Examine
    <3>2. CASE t = s
      BY <1>1, <2>9, <3>2 DEF Examine
    <3>3. ASSUME t # s, NEW v \in Worker, t \in scan[v] \/ t = exam[v]
          PROVE  t \in is_alive \/ Unexamined(t)'
      <4>1. t # None
        BY <1>1, NoneAssumption, ProgramFields
      <4>2. t \in scan'[v] \/ t = exam'[v]
        BY <1>1, <2>9, <3>3, <4>1 DEF Examine
      <4> QED
        BY <4>2
    <3> QED
      BY <3>1, <3>2, <3>3
  <2>10. ASSUME NEW w \in Worker, NEW f \in File, TakeFile(w, f)
         PROVE  QuietRound'
    <3> SUFFICES ASSUME phase = "support", ~repeat,
                        \A v \in Worker : ~found'[v],
                        NEW g \in File \ todo',
                        NEW t \in prog.subsecs[g] \cap prog.liveSupport,
                        RefersToLive(prog, t, is_alive)
                 PROVE  t \in is_alive \/ Unexamined(t)'
      BY <2>10 DEF TakeFile
    <3>1. CASE g = f
      BY <1>1, <2>10, <3>1 DEF TakeFile, Discipline
    <3>2. CASE g # f
      <4>1. t \in is_alive \/ Unexamined(t)
        BY <1>1, <2>10, <3>2 DEF TakeFile
      <4>2. ASSUME NEW v \in Worker, t \in scan[v] \/ t = exam[v]
            PROVE  t \in scan'[v] \/ t = exam'[v]
        BY <1>1, <2>10, <4>2 DEF TakeFile, Idle
      <4> QED
        BY <2>10, <4>1, <4>2 DEF TakeFile
    <3> QED
      BY <3>1, <3>2
  <2>11. ASSUME NEW w \in Worker, Decide(w) PROVE QuietRound'
    <3> SUFFICES ASSUME phase = "support", ~repeat,
                        \A v \in Worker : ~found'[v],
                        NEW g \in File \ todo',
                        NEW t \in prog.subsecs[g] \cap prog.liveSupport,
                        RefersToLive(prog, t, is_alive)
                 PROVE  t \in is_alive \/ Unexamined(t)'
      BY <2>11 DEF Decide
    <3>1. ~RefersToLive(prog, exam[w], is_alive)
      BY <1>1, <2>11 DEF Decide
    <3>2. \A v \in Worker : ~found[v]
      BY <1>1, <2>11 DEF Decide, Discipline
    <3>3. t \in is_alive \/ Unexamined(t)
      BY <1>1, <2>11, <3>2 DEF Decide
    <3>4. ASSUME NEW v \in Worker, t \in scan[v] \/ t = exam[v]
          PROVE  t \in scan'[v] \/ t = exam'[v]
      BY <1>1, <2>11, <3>1, <3>4 DEF Decide
    <3> QED
      BY <2>11, <3>3, <3>4 DEF Decide
  <2>12. ASSUME NEW w \in Worker, RequestRepeat(w) PROVE QuietRound'
    BY <1>1, <2>12 DEF RequestRepeat
  <2>13. CASE Finished
    BY <1>1, <2>13 DEF Finished, vars
  <2> QED
    BY <1>3, <2>1, <2>4, <2>5, <2>6, <2>7, <2>8, <2>9, <2>10, <2>11, <2>12,
       <2>13 DEF Next, PassStep, WorkerStep
<1> QED
  BY <1>2, <1>3

(* The loop stops only when the marked set is closed under live support.   *)
LEMMA SupportStep ==
  ASSUME IInv, [Next]_vars
  PROVE  SupportClosed'
<1> USE DEF SupportClosed
<1>1. prog \in Program /\ TypeOK /\ Discipline /\ QuietRound /\ SupportClosed
  BY ProgramsAssumption DEF IInv
<1>2. CASE UNCHANGED vars
  BY <1>1, <1>2 DEF vars
<1>3. CASE Next
  <2> USE DEF TypeOK
  <2>1. ASSUME NEW f \in File,
               CollectFile(f) \/ SweepSyms(f) \/ SweepSubsecs(f)
        PROVE  SupportClosed'
    BY <1>1, <2>1 DEF CollectFile, SweepSyms, SweepSubsecs
  <2>4. CASE CollectArgs \/ FinishMark \/ NextRound
    BY <1>1, <2>4 DEF CollectArgs, FinishMark, NextRound, StartRound
  <2>5. CASE FinishSupport
    <3>1. SUFFICES ASSUME NEW s \in InFiles(prog) \cap prog.liveSupport,
                          RefersToLive(prog, s, is_alive)
                   PROVE  s \in is_alive
      BY <2>5 DEF FinishSupport
    <3>2. PICK f \in File : s \in prog.subsecs[f]
      BY DEF InFiles
    <3>3. s # None
      BY <1>1, <3>2, NoneAssumption, ProgramFields
    <3>4. ~Unexamined(s)
      BY <1>1, <2>5, <3>3 DEF FinishSupport, AllIdle, Idle, Unexamined
    <3> QED
      BY <1>1, <2>5, <3>1, <3>2, <3>4
      DEF QuietRound, FinishSupport, AllIdle, Idle
  <2>6. CASE FinishSweepSyms \/ FinishSweep
    BY <1>1, <2>6 DEF FinishSweepSyms, FinishSweep
  <2>7. ASSUME NEW w \in Worker, NEW s \in Subsec, TakeRoot(w, s)
        PROVE  SupportClosed'
    BY <1>1, <2>7 DEF TakeRoot
  <2>8. ASSUME NEW w \in Worker, NEW s \in Subsec, Visit(w, s)
        PROVE  SupportClosed'
    <3>1. phase \in {"mark", "support"}
      BY <1>1, <2>8 DEF Visit, Discipline, AllIdle, Idle
    <3> QED
      BY <2>8, <3>1 DEF Visit
  <2>9. ASSUME NEW w \in Worker, NEW s \in Subsec, Examine(w, s)
        PROVE  SupportClosed'
    BY <1>1, <2>9 DEF Examine
  <2>10. ASSUME NEW w \in Worker, NEW f \in File, TakeFile(w, f)
         PROVE  SupportClosed'
    BY <1>1, <2>10 DEF TakeFile
  <2>11. ASSUME NEW w \in Worker, Decide(w) \/ RequestRepeat(w)
         PROVE  SupportClosed'
    BY <1>1, <2>11 DEF Decide, RequestRepeat
  <2>13. CASE Finished
    BY <1>1, <2>13 DEF Finished, vars
  <2> QED
    BY <1>3, <2>1, <2>4, <2>5, <2>6, <2>7, <2>8, <2>9, <2>10, <2>11, <2>13
    DEF Next, PassStep, WorkerStep
<1> QED
  BY <1>2, <1>3

(* Every work item lies in every closed set. *)
LEMMA JustifiedStep ==
  ASSUME IInv, [Next]_vars
  PROVE  Justified'
<1> USE DEF Justified
<1>1. prog \in Program /\ TypeOK /\ Discipline /\ Justified
  BY ProgramsAssumption DEF IInv
<1>2. CASE UNCHANGED vars
  BY <1>1, <1>2 DEF vars
<1>3. CASE Next
  <2> USE DEF TypeOK
  <2>1. ASSUME NEW f \in File,
               CollectFile(f) \/ SweepSyms(f) \/ SweepSubsecs(f)
        PROVE  Justified'
    BY <1>1, <2>1 DEF CollectFile, SweepSyms, SweepSubsecs, Roots
  <2>4. CASE CollectArgs
    BY <1>1, <2>4 DEF CollectArgs, Roots
  <2>5. CASE FinishMark \/ NextRound
    BY <1>1, <2>5 DEF FinishMark, NextRound, StartRound
  <2>6. CASE FinishSupport \/ FinishSweepSyms \/ FinishSweep
    BY <1>1, <2>6 DEF FinishSupport, FinishSweepSyms, FinishSweep
  <2>7. ASSUME NEW w \in Worker, NEW s \in Subsec, TakeRoot(w, s)
        PROVE  Justified'
    BY <1>1, <2>7 DEF TakeRoot, IsClosed
  <2>8. ASSUME NEW w \in Worker, NEW s \in Subsec, Visit(w, s)
        PROVE  Justified'
    BY <1>1, <2>8 DEF Visit, IsClosed
  <2>9. ASSUME NEW w \in Worker, NEW s \in Subsec, Examine(w, s)
        PROVE  Justified'
    BY <1>1, <2>9 DEF Examine
  <2>10. ASSUME NEW w \in Worker, NEW f \in File, TakeFile(w, f)
         PROVE  Justified'
    BY <1>1, <2>10 DEF TakeFile, Discipline, InFiles
  <2>11. ASSUME NEW w \in Worker, Decide(w) PROVE Justified'
    <3>1. ASSUME NEW X \in SUBSET Subsec, IsClosed(prog, X),
                 RefersToLive(prog, exam[w], is_alive)
          PROVE  exam[w] \in X
      <4>1. is_alive \subseteq X
        BY <1>1, <3>1
      <4>2. RefersToLive(prog, exam[w], X)
        BY <3>1, <4>1 DEF RefersToLive
      <4> QED
        BY <1>1, <2>11, <3>1, <4>2 DEF Decide, IsClosed
    <3> QED
      BY <1>1, <2>11, <3>1 DEF Decide
  <2>12. ASSUME NEW w \in Worker, RequestRepeat(w) PROVE Justified'
    BY <1>1, <2>12 DEF RequestRepeat
  <2>13. CASE Finished
    BY <1>1, <2>13 DEF Finished, vars
  <2> QED
    BY <1>3, <2>1, <2>4, <2>5, <2>6, <2>7, <2>8, <2>9, <2>10, <2>11, <2>12,
       <2>13 DEF Next, PassStep, WorkerStep
<1> QED
  BY <1>2, <1>3

LEMMA Inductive == Spec => []IInv
<1>1. IInv /\ [Next]_vars => IInv'
  BY TypeStep, DisciplineStep, RootsStep, TargetsStep, QuietStep,
     SupportStep, JustifiedStep DEF IInv
<1> QED
  BY InitIInv, <1>1, PTL DEF Spec

-----------------------------------------------------------------------------
LEMMA InvariantsHold == IInv => MarkedSetIsClosed /\ OnlyNeededIsMarked
<1>1. IInv => MarkedSetIsClosed
  BY DEF IInv, Discipline, RootsKept, TargetsKept, SupportClosed, Reached,
         AllIdle, Idle, MarkedSetIsClosed, IsClosed
<1>2. IInv => OnlyNeededIsMarked
  BY DEF IInv, Justified, OnlyNeededIsMarked
<1> QED
  BY <1>1, <1>2

(* Type correctness of the state of the -dead_strip pass. *)
THEOREM TypeCorrect == Spec => []TypeOK
<1>1. IInv => TypeOK
  BY DEF IInv
<1> QED
  BY Inductive, <1>1, PTL

(* When marking is over nothing that is needed is unmarked: the repeat     *)
(* flag of mark suffices for the live-support fixed point, whatever the    *)
(* number of threads.                                                      *)
THEOREM MarkIsComplete == Spec => []MarkedSetIsClosed
  BY Inductive, InvariantsHold, PTL

(* visit and the live-support loop never mark a subsection that some       *)
(* closed set leaves out; with MarkIsComplete, the pass computes the least *)
(* closed set and is independent of the schedule.                          *)
THEOREM MarkIsMinimal == Spec => []OnlyNeededIsMarked
  BY Inductive, InvariantsHold, PTL

-----------------------------------------------------------------------------
(* What the tables hold in each phase: all of the file until the sweep, and *)
(* exactly what StripSpec keeps of it once the sweep has been there.        *)
PrunedSyms(f) ==
  prog.syms[f] \ {x \in prog.syms[f] : prog.symFile[x] = f /\ prog.symSubsec[x] # None
                                         /\ prog.symSubsec[x] \notin is_alive}
PrunedSubsecs(f) == prog.subsecs[f] \cap is_alive

Tables ==
  /\ stage = "linking" => syms = prog.syms
  /\ phase = "sweepSyms" =>
       \A f \in File : syms[f] = IF f \in todo THEN prog.syms[f] ELSE PrunedSyms(f)
  /\ phase \in {"sweepSubsecs", "done"} => \A f \in File : syms[f] = PrunedSyms(f)
  /\ phase = "sweepSubsecs" =>
       \A f \in File : subsections[f] = IF f \in todo THEN prog.subsecs[f] ELSE PrunedSubsecs(f)
  /\ phase = "done" => \A f \in File : subsections[f] = PrunedSubsecs(f)

(* Before the sweep no step touches a table or ends the first stage, save   *)
(* the one that leaves the live-support loop.                               *)
LEMMA MarkingStep ==
  ASSUME IInv,
         \/ \E f \in File : CollectFile(f)
         \/ CollectArgs \/ FinishMark \/ NextRound
         \/ \E w \in Worker : WorkerStep(w)
  PROVE  /\ stage = "linking" /\ stage' = "linking"
         /\ UNCHANGED <<prog, syms, subsections>>
<1> USE DEF stage
<1>1. ASSUME NEW f \in File, CollectFile(f)
      PROVE  stage = "linking" /\ stage' = "linking" /\ UNCHANGED <<prog, syms, subsections>>
  BY <1>1 DEF CollectFile
<1>2. CASE CollectArgs \/ FinishMark \/ NextRound
  BY <1>2 DEF CollectArgs, FinishMark, NextRound, StartRound
<1>3. ASSUME NEW w \in Worker, WorkerStep(w)
      PROVE  stage = "linking" /\ stage' = "linking" /\ UNCHANGED <<prog, syms, subsections>>
  <2>1. phase \in {"mark", "support"}
    BY <1>3 DEF IInv, TypeOK, Phases, Discipline, AllIdle, Idle, WorkerStep, TakeRoot, Visit, Examine, TakeFile, Decide,
                RequestRepeat
  <2>2. UNCHANGED <<prog, phase, syms, subsections>>
    BY <1>3 DEF WorkerStep, TakeRoot, Visit, Examine, TakeFile, Decide, RequestRepeat
  <2> QED
    BY <2>1, <2>2
<1> QED
  BY <1>1, <1>2, <1>3

LEMMA TablesStep ==
  ASSUME IInv, Tables, [Next]_vars
  PROVE  Tables'
<1> USE DEF Tables, PrunedSyms, PrunedSubsecs
<1>1. prog \in Program /\ TypeOK /\ Discipline
  BY ProgramsAssumption DEF IInv
<1>2. CASE UNCHANGED vars \/ Finished
  BY <1>2 DEF vars, stage, Finished
<1>3. CASE \/ \E f \in File : CollectFile(f)
           \/ CollectArgs \/ FinishMark \/ NextRound
           \/ \E w \in Worker : WorkerStep(w)
  BY <1>3, MarkingStep DEF stage
<1>4. ASSUME NEW f \in File, SweepSyms(f) PROVE Tables'
  <2>1. /\ phase = "sweepSyms" /\ f \in todo /\ todo' = todo \ {f}
        /\ UNCHANGED <<prog, phase, is_alive>>
    BY <1>4 DEF SweepSyms
  <2>2. syms[f] = prog.syms[f] /\ syms'[f] = syms[f] \ SweptSyms(f)
    BY <1>1, <1>4, <2>1 DEF SweepSyms, TypeOK
  <2>3. syms'[f] = PrunedSyms(f)
    BY <2>2 DEF SweptSyms
  <2>4. \A g \in File \ {f} : syms'[g] = syms[g]
    BY <1>1, <1>4 DEF SweepSyms, TypeOK
  <2>5. ASSUME NEW g \in File
        PROVE  syms'[g] = IF g \in todo' THEN prog'.syms[g] ELSE PrunedSyms(g)'
    <3>1. PrunedSyms(g)' = PrunedSyms(g)
      BY <2>1
    <3>2. CASE g = f
      BY <2>1, <2>3, <3>1, <3>2
    <3>3. CASE g # f
      <4> HIDE DEF PrunedSyms
      <4>1. syms[g] = IF g \in todo THEN prog.syms[g] ELSE PrunedSyms(g)
        BY <2>1
      <4> QED
        BY <2>1, <2>4, <3>1, <3>3, <4>1
    <3> QED
      BY <3>2, <3>3
  <2> QED
    BY <2>1, <2>5 DEF stage
<1>5. ASSUME NEW f \in File, SweepSubsecs(f) PROVE Tables'
  BY <1>1, <1>5 DEF SweepSubsecs, stage, TypeOK
<1>6. CASE FinishSupport
  BY <1>1, <1>6 DEF FinishSupport, stage
<1>7. CASE FinishSweepSyms
  BY <1>1, <1>7 DEF FinishSweepSyms, stage, Discipline
<1>8. CASE FinishSweep
  BY <1>1, <1>8 DEF FinishSweep, stage
<1> QED
  BY <1>2, <1>3, <1>4, <1>5, <1>6, <1>7, <1>8 DEF Next, PassStep

(* Every step of the pass is a step of StripSpec or leaves its state alone. *)
LEMMA PromiseStep ==
  ASSUME IInv, Tables, [Next]_vars
  PROVE  [Promise!Next]_(Promise!vars)
<1> USE DEF Promise!vars, Promise!KeptSyms, Promise!KeptSubsecs, decided, Tables, PrunedSyms, PrunedSubsecs
<1>1. prog \in Program /\ TypeOK /\ Discipline
  BY ProgramsAssumption DEF IInv
<1>2. CASE UNCHANGED vars \/ Finished
  BY <1>2 DEF vars, stage, Finished
<1>3. CASE \/ \E f \in File : CollectFile(f)
           \/ CollectArgs \/ FinishMark \/ NextRound
           \/ \E w \in Worker : WorkerStep(w)
  BY <1>3, MarkingStep
<1>4. ASSUME NEW f \in File, SweepSyms(f) PROVE Promise!DropSyms(f)
  BY <1>1, <1>4 DEF SweepSyms, SweptSyms, stage, TypeOK, Promise!DropSyms
<1>5. ASSUME NEW f \in File, SweepSubsecs(f) PROVE Promise!DropSubsecs(f)
  BY <1>1, <1>5 DEF SweepSubsecs, stage, TypeOK, Promise!DropSubsecs
<1>6. ASSUME FinishSupport PROVE Promise!Decide
  <2>1. IInv'
    BY TypeStep, DisciplineStep, RootsStep, TargetsStep, QuietStep, SupportStep, JustifiedStep DEF IInv
  <2>2. MarkedSetIsClosed' /\ OnlyNeededIsMarked'
    BY <2>1, InvariantsHold, PTL
  <2>3. /\ phase = "support" /\ phase' = "sweepSyms"
        /\ UNCHANGED <<prog, is_alive, syms, subsections>>
    BY <1>6 DEF FinishSupport
  <2>4. stage = "linking" /\ stage' = "decided" /\ decided' = is_alive
    BY <2>3 DEF stage
  <2>5. is_alive \in SUBSET Subsec
    BY <1>1 DEF TypeOK
  <2>6. IsClosed(prog, is_alive)
    BY <2>2, <2>3 DEF MarkedSetIsClosed
  <2>7. \A X \in SUBSET Subsec : IsClosed(prog, X) => is_alive \subseteq X
    BY <2>2, <2>3 DEF OnlyNeededIsMarked
  <2>8. Promise!IsLeast(prog, is_alive)
    BY <2>6, <2>7 DEF Promise!IsLeast
  <2> QED
    BY <2>3, <2>4, <2>5, <2>8 DEF Promise!Decide
<1>7. CASE FinishSweepSyms
  BY <1>7 DEF FinishSweepSyms, stage
<1>8. ASSUME FinishSweep PROVE Promise!Finish
  BY <1>1, <1>8 DEF FinishSweep, stage, Promise!Finish
<1> QED
  BY <1>2, <1>3, <1>4, <1>5, <1>6, <1>7, <1>8 DEF Next, PassStep, Promise!Next

(* The pass implements StripSpec: for every program, any number of workers  *)
(* and every schedule it is one decision of the least closed set followed   *)
(* by a sweep that removes what is not in it and nothing else.              *)
THEOREM PassKeepsPromise == Spec => KeepsPromise
<1>1. Init => Promise!Init /\ Tables
  BY DEF Init, Promise!Init, Tables, stage, decided
<1>2. IInv /\ Tables /\ [Next]_vars => Tables' /\ [Promise!Next]_(Promise!vars)
  BY TablesStep, PromiseStep
<1> QED
  BY Inductive, <1>1, <1>2, PTL DEF Spec, KeepsPromise, Promise!Spec
=============================================================================
