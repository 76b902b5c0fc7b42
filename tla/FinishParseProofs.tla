-------------------------- MODULE FinishParseProofs --------------------------
(***************************************************************************)
(* Proofs that deferred parsing handles every live archive member exactly  *)
(* once and before the passes that use it, for any number of members of    *)
(* any kind, on both architectures and for every schedule of the tasks.    *)
(***************************************************************************)
EXTENDS FinishParse, TLAPS

(* A finish_parse call is the only one of its file, which is not finished; *)
(* it has parsed relocations only once it is past that step; its group is  *)
(* one that finish_parsing_archive_members waits for.                      *)
TasksAreOwners ==
  /\ \A t, u \in tasks : t.file = u.file => t = u
  /\ \A t \in tasks :
       /\ once[t.file] /\ ~full[t.file]
       /\ t.group \in {EarlyGroup, LateGroup}
       /\ begun[t.file] = (IF t.step = "unwind" THEN 1 ELSE 0)

(* A member is finished, unstarted, or some call is at work on it. *)
StartedIsOwned ==
  /\ \A f \in Member : once[f] /\ ~full[f] => \E t \in tasks : t.file = f
  /\ \A f \in Member : ~once[f] => begun[f] = 0
  /\ \A f \in Member : begun[f] \in {0, 1}

(* The state of local_symbols_once and what it guards. *)
LocalsGuarded ==
  /\ \A f \in Member : localsOnce[f] = "new" /\ ~locals[f] => built[f] = 0
  /\ \A f \in Member : localsOnce[f] = "done" => locals[f]
  /\ \A f \in Member : built[f] \in {0, 1}
  /\ RelocsSeeLocals

(* How far macho_main has taken the live members. *)
MainProgress ==
  /\ pc = "locals" => \A f \in live \ todo : locals[f]
  /\ pc \notin {"mark", "locals"} => \A f \in live : locals[f]
  /\ pc = "finish" => \A f \in live \ todo : once[f] \/ full[f]
  /\ pc \in {"none pending", "done"} => \A f \in live : full[f]

(* Members with common symbols wait until the conversion is over. *)
CommonLast ==
  /\ pc \in {"mark", "locals", "convert"} =>
       \A t \in tasks : t.file \notin Common
  /\ pc # "convert" => converting = {}
  /\ pc = "convert" => todo \cup converting \subseteq Common

IInv ==
  /\ TypeOK
  /\ TasksAreOwners
  /\ StartedIsOwned
  /\ LocalsGuarded
  /\ MainProgress
  /\ CommonLast

-----------------------------------------------------------------------------
(* What the records of two task sets that differ by one step look like. *)
LEMMA AdvanceTask ==
  ASSUME TypeOK, TasksAreOwners, NEW t \in tasks, NEW step \in Steps,
         Advance(t, step)
  PROVE  \E u : /\ u \in [file : live, group : {"early", "late", "tg"}, step : Steps]
                /\ u.file = t.file /\ u.group = t.group /\ u.step = step
                /\ tasks' = (tasks \ {t}) \cup {u}
                /\ \A v \in tasks \ {t} : v.file # t.file
<1> DEFINE u == [t EXCEPT !.step = step]
<1>1. t \in [file : live, group : {"early", "late", "tg"}, step : Steps]
  BY DEF TypeOK
<1>2. /\ u \in [file : live, group : {"early", "late", "tg"}, step : Steps]
      /\ u.file = t.file /\ u.group = t.group /\ u.step = step
  BY <1>1
<1>3. tasks' = (tasks \ {t}) \cup {u}
  BY DEF Advance
<1>4. \A v \in tasks \ {t} : v.file # t.file
  BY DEF TasksAreOwners
<1> QED
  BY <1>2, <1>3, <1>4

(* parse() leaves every member in a state the invariant describes. *)
LEMMA InitIInv == Init => IInv
<1> SUFFICES ASSUME Init PROVE IInv
  OBVIOUS
<1> USE KindsAssumption DEF Init
<1>1. TypeOK
  BY DEF TypeOK
<1>2. TasksAreOwners
  BY DEF TasksAreOwners
<1>3. StartedIsOwned
  BY DEF StartedIsOwned
<1>4. LocalsGuarded
  BY DEF LocalsGuarded, RelocsSeeLocals
<1>5. MainProgress
  BY DEF MainProgress
<1>6. CommonLast
  BY DEF CommonLast
<1> QED
  BY <1>1, <1>2, <1>3, <1>4, <1>5, <1>6 DEF IInv

(* The types the proofs below need besides those of the tasks. *)
LEMMA StateTypes ==
  ASSUME TypeOK
  PROVE  /\ live \subseteq Member /\ todo \subseteq live /\ converting \subseteq live
         /\ once \in [Member -> BOOLEAN] /\ full \in [Member -> BOOLEAN]
         /\ locals \in [Member -> BOOLEAN]
         /\ localsOnce \in [Member -> {"new", "main", "task", "done"}]
         /\ begun \in [Member -> Nat] /\ built \in [Member -> Nat]
         /\ \A v \in tasks : v.file \in live /\ v.file \in Member
  BY DEF TypeOK

(* Updates of a per-member table. *)
LEMMA Updated ==
  ASSUME NEW S, NEW g \in [Member -> S], NEW f \in Member, NEW e \in S
  PROVE  /\ [g EXCEPT ![f] = e] \in [Member -> S]
         /\ \A h \in Member : [g EXCEPT ![f] = e][h] = IF h = f THEN e ELSE g[h]
  OBVIOUS

(* A counter of a per-member table goes up by one. *)
LEMMA Counted ==
  ASSUME NEW g \in [Member -> Nat], NEW f \in Member
  PROVE  /\ [g EXCEPT ![f] = @ + 1] \in [Member -> Nat]
         /\ \A h \in Member :
              [g EXCEPT ![f] = @ + 1][h] = IF h = f THEN g[f] + 1 ELSE g[h]
  OBVIOUS

(* Entering the call_once of local_symbols_once closes it for others. *)
LEMMA Entered ==
  ASSUME TypeOK, NEW f \in Member, NEW who \in {"main", "task"},
         EnterLocals(f, who)
  PROVE  /\ ~locals[f] /\ localsOnce[f] = "new" /\ locals' = locals
         /\ localsOnce' \in [Member -> {"new", "main", "task", "done"}]
         /\ \A h \in Member : localsOnce'[h] = IF h = f THEN who ELSE localsOnce[h]
         /\ built' \in [Member -> Nat]
         /\ \A h \in Member : built'[h] = IF h = f THEN built[f] + 1 ELSE built[h]
  BY StateTypes, Updated, Counted DEF EnterLocals

(* Leaving it publishes the local symbols. *)
LEMMA Left ==
  ASSUME TypeOK, NEW f \in Member, NEW who \in {"main", "task"},
         LeaveLocals(f, who)
  PROVE  /\ localsOnce[f] = who /\ built' = built
         /\ localsOnce' \in [Member -> {"new", "main", "task", "done"}]
         /\ \A h \in Member : localsOnce'[h] = IF h = f THEN "done" ELSE localsOnce[h]
         /\ locals' \in [Member -> BOOLEAN]
         /\ \A h \in Member : locals'[h] = IF h = f THEN TRUE ELSE locals[h]
  BY StateTypes, Updated DEF LeaveLocals

(* A call that goes on to its next step still owns its file. *)
LEMMA OwnersAdvance ==
  ASSUME TasksAreOwners, StartedIsOwned, NEW t \in tasks, NEW u,
         u.file = t.file, u.group = t.group,
         tasks' = (tasks \ {t}) \cup {u},
         \A v \in tasks \ {t} : v.file # t.file /\ begun'[v.file] = begun[v.file],
         begun'[t.file] = (IF u.step = "unwind" THEN 1 ELSE 0),
         x86' = x86, once' = once, full' = full
  PROVE  /\ TasksAreOwners'
         /\ \A f \in Member : once'[f] /\ ~full'[f] => \E v \in tasks' : v.file = f
<1>1. \A v, w \in tasks' : v.file = w.file => v = w
  BY DEF TasksAreOwners
<1>2. ASSUME NEW v \in tasks'
      PROVE  /\ once'[v.file] /\ ~full'[v.file]
             /\ v.group \in {EarlyGroup, LateGroup}'
             /\ begun'[v.file] = (IF v.step = "unwind" THEN 1 ELSE 0)
  <2>1. CASE v = u
    BY <2>1 DEF TasksAreOwners, EarlyGroup, LateGroup
  <2>2. CASE v \in tasks \ {t}
    BY <2>2 DEF TasksAreOwners, EarlyGroup, LateGroup
  <2> QED
    BY <2>1, <2>2
<1>3. ASSUME NEW f \in Member, once'[f], ~full'[f]
      PROVE  \E v \in tasks' : v.file = f
  <2>1. PICK v \in tasks : v.file = f
    BY <1>3 DEF StartedIsOwned
  <2>2. CASE v = t
    BY <2>1, <2>2
  <2>3. CASE v # t
    BY <2>1, <2>3
  <2> QED
    BY <2>2, <2>3
<1> QED
  BY <1>1, <1>2, <1>3 DEF TasksAreOwners

(* The steps of a finish_parse call. *)
LEMMA TaskStepIInv ==
  ASSUME IInv, TaskStep
  PROVE  IInv'
<1>0. PICK t \in tasks : \/ TaskBegin(t) \/ TaskEnter(t) \/ TaskLeave(t)
                         \/ TaskPass(t) \/ TaskRelocs(t) \/ TaskEnd(t)
  BY DEF TaskStep
<1>a. x86' = x86
  BY DEF TaskStep
<1>b. /\ TypeOK /\ TasksAreOwners /\ StartedIsOwned
      /\ LocalsGuarded /\ MainProgress /\ CommonLast
  BY DEF IInv
<1>c. /\ t.file \in live /\ t.file \in Member
      /\ once[t.file] /\ ~full[t.file]
      /\ \A v \in tasks \ {t} : v.file # t.file
  BY <1>b, StateTypes DEF TasksAreOwners
<1>1. CASE TaskBegin(t)
  <2>1. /\ Advance(t, "locals") /\ "locals" \in Steps
        /\ t.step = "begin" /\ UNCHANGED <<pc, live, once, full, localsOnce, locals, begun, built, todo, converting>>
    BY <1>1, <1>c DEF TaskBegin, Steps, localsVars
  <2>2. PICK u : /\ u \in [file : live, group : {"early", "late", "tg"}, step : Steps]
                 /\ u.file = t.file /\ u.group = t.group /\ u.step = "locals"
                 /\ tasks' = (tasks \ {t}) \cup {u}
                 /\ \A v \in tasks \ {t} : v.file # t.file
    BY <1>b, <2>1, AdvanceTask
  <2>4. TypeOK'
    BY <1>a, <1>b, <1>c, <2>1, <2>2, StateTypes DEF TypeOK
  <2>5. /\ TasksAreOwners'
         /\ \A f \in Member : once'[f] /\ ~full'[f] => \E v \in tasks' : v.file = f
    <3>1. /\ \A v \in tasks \ {t} : begun'[v.file] = begun[v.file]
          /\ begun'[t.file] = (IF u.step = "unwind" THEN 1 ELSE 0)
      BY <1>b, <1>c, <2>1, <2>2, StateTypes DEF TasksAreOwners
    <3> QED
      BY <1>a, <1>b, <2>1, <2>2, <3>1, OwnersAdvance
  <2>6. StartedIsOwned'
    BY <1>b, <1>c, <2>1, <2>2, StateTypes, <2>5 DEF StartedIsOwned
  <2>7. LocalsGuarded'
    BY <1>b, <1>c, <2>1, <2>2, StateTypes DEF LocalsGuarded, RelocsSeeLocals
  <2>8. MainProgress'
    BY <1>b, <1>c, <2>1, StateTypes DEF MainProgress
  <2>9. CommonLast'
    BY <1>b, <1>c, <2>1, <2>2, StateTypes DEF CommonLast
  <2> QED
    BY <2>4, <2>5, <2>6, <2>7, <2>8, <2>9 DEF IInv
<1>2. CASE TaskEnter(t)
  <2>1. /\ Advance(t, "in locals") /\ "in locals" \in Steps
        /\ t.step = "locals" /\ UNCHANGED <<pc, live, once, full, begun, todo, converting>>
    BY <1>2, <1>c DEF TaskEnter, Steps, localsVars
  <2>2. PICK u : /\ u \in [file : live, group : {"early", "late", "tg"}, step : Steps]
                 /\ u.file = t.file /\ u.group = t.group /\ u.step = "in locals"
                 /\ tasks' = (tasks \ {t}) \cup {u}
                 /\ \A v \in tasks \ {t} : v.file # t.file
    BY <1>b, <2>1, AdvanceTask
  <2>3. /\ ~locals[t.file] /\ localsOnce[t.file] = "new"
        /\ locals' = locals
        /\ localsOnce' \in [Member -> {"new", "main", "task", "done"}]
        /\ \A h \in Member :
             localsOnce'[h] = IF h = t.file THEN "task" ELSE localsOnce[h]
        /\ built' \in [Member -> Nat]
        /\ \A h \in Member :
             built'[h] = IF h = t.file THEN built[t.file] + 1 ELSE built[h]
        /\ built[t.file] = 0
    BY <1>2, <1>b, <1>c, Entered DEF TaskEnter, LocalsGuarded
  <2>4. TypeOK'
    BY <1>a, <1>b, <1>c, <2>1, <2>2, <2>3, StateTypes DEF TypeOK
  <2>5. /\ TasksAreOwners'
         /\ \A f \in Member : once'[f] /\ ~full'[f] => \E v \in tasks' : v.file = f
    <3>1. /\ \A v \in tasks \ {t} : begun'[v.file] = begun[v.file]
          /\ begun'[t.file] = (IF u.step = "unwind" THEN 1 ELSE 0)
      BY <1>b, <1>c, <2>1, <2>2, StateTypes DEF TasksAreOwners
    <3> QED
      BY <1>a, <1>b, <2>1, <2>2, <3>1, OwnersAdvance
  <2>6. StartedIsOwned'
    BY <1>b, <1>c, <2>1, <2>2, StateTypes, <2>5 DEF StartedIsOwned
  <2>7. LocalsGuarded'
    <3>1. RelocsSeeLocals'
      BY <1>b, <2>2, <2>3 DEF LocalsGuarded, RelocsSeeLocals
    <3>2. \A f \in Member : built'[f] \in {0, 1}
      BY <1>b, <2>3 DEF LocalsGuarded
    <3> QED
      BY <1>b, <2>3, <3>1, <3>2 DEF LocalsGuarded
  <2>8. MainProgress'
    BY <1>b, <1>c, <2>1, <2>3, StateTypes DEF MainProgress
  <2>9. CommonLast'
    BY <1>b, <1>c, <2>1, <2>2, StateTypes DEF CommonLast
  <2> QED
    BY <2>4, <2>5, <2>6, <2>7, <2>8, <2>9 DEF IInv
<1>3. CASE TaskLeave(t)
  <2>1. /\ Advance(t, "relocs") /\ "relocs" \in Steps
        /\ t.step = "in locals" /\ UNCHANGED <<pc, live, once, full, begun, todo, converting>>
    BY <1>3, <1>c DEF TaskLeave, Steps, localsVars
  <2>2. PICK u : /\ u \in [file : live, group : {"early", "late", "tg"}, step : Steps]
                 /\ u.file = t.file /\ u.group = t.group /\ u.step = "relocs"
                 /\ tasks' = (tasks \ {t}) \cup {u}
                 /\ \A v \in tasks \ {t} : v.file # t.file
    BY <1>b, <2>1, AdvanceTask
  <2>3. /\ built' = built
        /\ localsOnce' \in [Member -> {"new", "main", "task", "done"}]
        /\ \A h \in Member :
             localsOnce'[h] = IF h = t.file THEN "done" ELSE localsOnce[h]
        /\ locals' \in [Member -> BOOLEAN]
        /\ \A h \in Member : locals'[h] = IF h = t.file THEN TRUE ELSE locals[h]
    BY <1>3, <1>b, <1>c, Left DEF TaskLeave
  <2>4. TypeOK'
    BY <1>a, <1>b, <1>c, <2>1, <2>2, <2>3, StateTypes DEF TypeOK
  <2>5. /\ TasksAreOwners'
         /\ \A f \in Member : once'[f] /\ ~full'[f] => \E v \in tasks' : v.file = f
    <3>1. /\ \A v \in tasks \ {t} : begun'[v.file] = begun[v.file]
          /\ begun'[t.file] = (IF u.step = "unwind" THEN 1 ELSE 0)
      BY <1>b, <1>c, <2>1, <2>2, StateTypes DEF TasksAreOwners
    <3> QED
      BY <1>a, <1>b, <2>1, <2>2, <3>1, OwnersAdvance
  <2>6. StartedIsOwned'
    BY <1>b, <1>c, <2>1, <2>2, StateTypes, <2>5 DEF StartedIsOwned
  <2>7. LocalsGuarded'
    BY ZenonT(30), <1>b, <1>c, <2>1, <2>2, <2>3, StateTypes DEF LocalsGuarded, RelocsSeeLocals
  <2>8. MainProgress'
    BY <1>b, <1>c, <2>1, <2>3, StateTypes DEF MainProgress
  <2>9. CommonLast'
    BY <1>b, <1>c, <2>1, <2>2, StateTypes DEF CommonLast
  <2> QED
    BY <2>4, <2>5, <2>6, <2>7, <2>8, <2>9 DEF IInv
<1>4. CASE TaskPass(t)
  <2>1. /\ Advance(t, "relocs") /\ "relocs" \in Steps
        /\ t.step = "locals" /\ UNCHANGED <<pc, live, once, full, localsOnce, locals, begun, built, todo, converting>>
    BY <1>4, <1>c DEF TaskPass, Steps, localsVars
  <2>2. PICK u : /\ u \in [file : live, group : {"early", "late", "tg"}, step : Steps]
                 /\ u.file = t.file /\ u.group = t.group /\ u.step = "relocs"
                 /\ tasks' = (tasks \ {t}) \cup {u}
                 /\ \A v \in tasks \ {t} : v.file # t.file
    BY <1>b, <2>1, AdvanceTask
  <2>3. locals[t.file]
    BY <1>4, <1>b, <1>c DEF TaskPass, PassLocals, LocalsGuarded
  <2>4. TypeOK'
    BY <1>a, <1>b, <1>c, <2>1, <2>2, StateTypes DEF TypeOK
  <2>5. /\ TasksAreOwners'
         /\ \A f \in Member : once'[f] /\ ~full'[f] => \E v \in tasks' : v.file = f
    <3>1. /\ \A v \in tasks \ {t} : begun'[v.file] = begun[v.file]
          /\ begun'[t.file] = (IF u.step = "unwind" THEN 1 ELSE 0)
      BY <1>b, <1>c, <2>1, <2>2, StateTypes DEF TasksAreOwners
    <3> QED
      BY <1>a, <1>b, <2>1, <2>2, <3>1, OwnersAdvance
  <2>6. StartedIsOwned'
    BY <1>b, <1>c, <2>1, <2>2, StateTypes, <2>5 DEF StartedIsOwned
  <2>7. LocalsGuarded'
    BY <1>b, <1>c, <2>1, <2>2, <2>3, StateTypes DEF LocalsGuarded, RelocsSeeLocals
  <2>8. MainProgress'
    BY <1>b, <1>c, <2>1, StateTypes DEF MainProgress
  <2>9. CommonLast'
    BY <1>b, <1>c, <2>1, <2>2, StateTypes DEF CommonLast
  <2> QED
    BY <2>4, <2>5, <2>6, <2>7, <2>8, <2>9 DEF IInv
<1>5. CASE TaskRelocs(t)
  <2>1. /\ Advance(t, "unwind") /\ "unwind" \in Steps
        /\ t.step = "relocs" /\ UNCHANGED <<pc, live, once, full, localsOnce, locals, built, todo, converting>>
    BY <1>5, <1>c DEF TaskRelocs, Steps, localsVars
  <2>2. PICK u : /\ u \in [file : live, group : {"early", "late", "tg"}, step : Steps]
                 /\ u.file = t.file /\ u.group = t.group /\ u.step = "unwind"
                 /\ tasks' = (tasks \ {t}) \cup {u}
                 /\ \A v \in tasks \ {t} : v.file # t.file
    BY <1>b, <2>1, AdvanceTask
  <2>3. /\ begun' \in [Member -> Nat]
        /\ \A h \in Member :
             begun'[h] = IF h = t.file THEN begun[t.file] + 1 ELSE begun[h]
        /\ begun[t.file] = 0
    BY <1>5, <1>b, <1>c, StateTypes, Counted DEF TaskRelocs, TasksAreOwners
  <2>4. TypeOK'
    BY <1>a, <1>b, <1>c, <2>1, <2>2, <2>3, StateTypes DEF TypeOK
  <2>5. /\ TasksAreOwners'
         /\ \A f \in Member : once'[f] /\ ~full'[f] => \E v \in tasks' : v.file = f
    <3>1. /\ \A v \in tasks \ {t} : begun'[v.file] = begun[v.file]
          /\ begun'[t.file] = (IF u.step = "unwind" THEN 1 ELSE 0)
      BY <1>b, <1>c, <2>1, <2>2, <2>3, StateTypes DEF TasksAreOwners
    <3> QED
      BY <1>a, <1>b, <2>1, <2>2, <3>1, OwnersAdvance
  <2>6. StartedIsOwned'
    BY <1>b, <1>c, <2>1, <2>2, <2>3, StateTypes, <2>5 DEF StartedIsOwned
  <2>7. LocalsGuarded'
    BY <1>b, <1>c, <2>1, <2>2, StateTypes DEF LocalsGuarded, RelocsSeeLocals
  <2>8. MainProgress'
    BY <1>b, <1>c, <2>1, StateTypes DEF MainProgress
  <2>9. CommonLast'
    BY <1>b, <1>c, <2>1, <2>2, StateTypes DEF CommonLast
  <2> QED
    BY <2>4, <2>5, <2>6, <2>7, <2>8, <2>9 DEF IInv
<1>6. CASE TaskEnd(t)
  <2>1. t.step = "unwind" /\ UNCHANGED <<pc, live, once, localsOnce, locals, begun, built, todo, converting>>
    BY <1>6 DEF TaskEnd, localsVars
  <2>2. tasks' = tasks \ {t}
    BY <1>6 DEF TaskEnd
  <2>3. /\ full' \in [Member -> BOOLEAN]
        /\ \A h \in Member : full'[h] = IF h = t.file THEN TRUE ELSE full[h]
    BY <1>6, <1>b, <1>c, StateTypes, Updated DEF TaskEnd
  <2>4. TypeOK'
    BY <1>a, <1>b, <1>c, <2>1, <2>2, <2>3, StateTypes DEF TypeOK
  <2>5. TasksAreOwners'
    BY <1>a, <1>b, <1>c, <2>1, <2>2, <2>3, StateTypes DEF TasksAreOwners, EarlyGroup, LateGroup
  <2>6. StartedIsOwned'
    BY <1>b, <1>c, <2>1, <2>2, <2>3, StateTypes DEF StartedIsOwned
  <2>7. LocalsGuarded'
    BY <1>b, <1>c, <2>1, <2>2, StateTypes DEF LocalsGuarded, RelocsSeeLocals
  <2>8. MainProgress'
    BY <1>b, <1>c, <2>1, <2>3, StateTypes DEF MainProgress
  <2>9. CommonLast'
    BY <1>b, <1>c, <2>1, <2>2, StateTypes DEF CommonLast
  <2> QED
    BY <2>4, <2>5, <2>6, <2>7, <2>8, <2>9 DEF IInv
<1> QED
  BY <1>0, <1>1, <1>2, <1>3, <1>4, <1>5, <1>6

-----------------------------------------------------------------------------
(* start_finish_parse and finish_parse_now: either a new call owns the     *)
(* file, or nothing is started because one does or the file is finished.   *)
LEMMA Started ==
  ASSUME TypeOK, TasksAreOwners, StartedIsOwned,
         NEW f \in live', live \subseteq live', NEW group \in {EarlyGroup, LateGroup},
         live' \subseteq Member, StartIn(f, group),
         x86' = x86, full' = full, begun' = begun
  PROVE  /\ once' \in [Member -> BOOLEAN]
         /\ \A h \in Member : once'[h] = IF h = f THEN TRUE ELSE once[h]
         /\ tasks' \subseteq [file : live', group : {"early", "late", "tg"}, step : Steps]
         /\ \A v \in tasks' : v \in tasks \/ (v.file = f /\ v.step = "begin")
         /\ TasksAreOwners'
         /\ StartedIsOwned'
<1> DEFINE new == [file |-> f, group |-> group, step |-> "begin"]
<1>1. /\ once' \in [Member -> BOOLEAN]
      /\ \A h \in Member : once'[h] = IF h = f THEN TRUE ELSE once[h]
  BY StateTypes, Updated DEF StartIn
<1>2. /\ new \in [file : live', group : {"early", "late", "tg"}, step : Steps]
      /\ new.file = f /\ new.group = group /\ new.step = "begin"
  BY DEF EarlyGroup, LateGroup, Steps
<1>3. tasks \subseteq [file : live', group : {"early", "late", "tg"}, step : Steps]
  BY DEF TypeOK
<1>4. CASE once[f] \/ full[f]
  <2>1. tasks' = tasks
    BY <1>4 DEF StartIn
  <2>2. \A h \in Member : once'[h] /\ ~full'[h] => once[h]
    BY <1>1, <1>4
  <2>3. TasksAreOwners'
    BY <1>1, <2>1, StateTypes DEF TasksAreOwners, EarlyGroup, LateGroup
  <2>4. StartedIsOwned'
    BY <1>1, <2>1, <2>2 DEF StartedIsOwned
  <2> QED
    BY <1>1, <1>3, <2>1, <2>3, <2>4
<1>5. CASE ~once[f] /\ ~full[f]
  <2>1. tasks' = tasks \cup {new}
    BY <1>5 DEF StartIn
  <2>2. \A v \in tasks : v.file # f /\ v.file \in Member
    BY <1>5, StateTypes DEF TasksAreOwners
  <2>3. begun[f] = 0
    BY <1>5 DEF StartedIsOwned
  <2>4. TasksAreOwners'
    <3>1. \A v, w \in tasks' : v.file = w.file => v = w
      BY <1>2, <2>1, <2>2 DEF TasksAreOwners
    <3>2. ASSUME NEW v \in tasks'
          PROVE  /\ once'[v.file] /\ ~full'[v.file]
                 /\ v.group \in {EarlyGroup, LateGroup}'
                 /\ begun'[v.file] = (IF v.step = "unwind" THEN 1 ELSE 0)
      <4>1. CASE v = new
        BY <1>1, <1>2, <1>5, <2>3, <4>1 DEF EarlyGroup, LateGroup
      <4>2. CASE v \in tasks
        BY <1>1, <2>2, <4>2 DEF TasksAreOwners, EarlyGroup, LateGroup
      <4> QED
        BY <2>1, <4>1, <4>2
    <3> QED
      BY <3>1, <3>2 DEF TasksAreOwners
  <2>5. StartedIsOwned'
    <3>1. \A h \in Member : once'[h] /\ ~full'[h] => \E v \in tasks' : v.file = h
      BY <1>1, <1>2, <2>1 DEF StartedIsOwned
    <3> QED
      BY <1>1, <2>3, <3>1 DEF StartedIsOwned
  <2>6. tasks' \subseteq [file : live', group : {"early", "late", "tg"}, step : Steps]
    BY <1>2, <1>3, <2>1
  <2>7. \A v \in tasks' : v \in tasks \/ (v.file = f /\ v.step = "begin")
    BY <1>2, <2>1
  <2> QED
    BY <1>1, <2>4, <2>5, <2>6, <2>7
<1> QED
  BY <1>4, <1>5

(* The steps of macho_main. *)
LEMMA MainStepIInv ==
  ASSUME IInv, MainStep
  PROVE  IInv'
<1>a. x86' = x86
  BY DEF MainStep
<1>b. /\ TypeOK /\ TasksAreOwners /\ StartedIsOwned
      /\ LocalsGuarded /\ MainProgress /\ CommonLast
  BY DEF IInv
<1>1. ASSUME NEW f \in Member, MarkLive(f)
      PROVE  IInv'
  <2>1. /\ pc = "mark" /\ live' = live \cup {f}
        /\ UNCHANGED <<pc, full, localsOnce, locals, begun, built, todo, converting>>
    BY <1>1 DEF MarkLive, localsVars
  <2>2. live' \subseteq Member /\ live \subseteq live' /\ f \in live'
    BY <1>b, <2>1, StateTypes
  <2>3. CASE CanStartEarly(f)
    <3>1. StartIn(f, EarlyGroup) /\ f \notin Common
      BY <1>1, <2>3 DEF MarkLive, CanStartEarly
    <3>2. /\ once' \in [Member -> BOOLEAN]
          /\ tasks' \subseteq [file : live', group : {"early", "late", "tg"}, step : Steps]
          /\ \A v \in tasks' : v \in tasks \/ (v.file = f /\ v.step = "begin")
          /\ TasksAreOwners' /\ StartedIsOwned'
      BY <1>a, <1>b, <2>1, <2>2, <3>1, Started
    <3>3. TypeOK'
      BY <1>a, <1>b, <2>1, <2>2, <3>2 DEF TypeOK
    <3>4. LocalsGuarded'
      BY <1>b, <2>1, <3>2 DEF LocalsGuarded, RelocsSeeLocals
    <3>5. MainProgress' /\ CommonLast'
      BY <1>b, <2>1, <3>1, <3>2 DEF MainProgress, CommonLast
    <3> QED
      BY <3>2, <3>3, <3>4, <3>5 DEF IInv
  <2>4. CASE ~CanStartEarly(f)
    <3>1. UNCHANGED <<once, tasks>>
      BY <1>1, <2>4 DEF MarkLive
    <3>2. TypeOK'
      BY <1>a, <1>b, <2>1, <2>2, <3>1 DEF TypeOK
    <3>3. TasksAreOwners' /\ StartedIsOwned'
      BY <1>a, <1>b, <2>1, <3>1
         DEF TasksAreOwners, StartedIsOwned, EarlyGroup, LateGroup
    <3>4. LocalsGuarded'
      BY <1>b, <2>1, <3>1 DEF LocalsGuarded, RelocsSeeLocals
    <3>5. MainProgress' /\ CommonLast'
      BY <1>b, <2>1, <3>1 DEF MainProgress, CommonLast
    <3> QED
      BY <3>2, <3>3, <3>4, <3>5 DEF IInv
  <2> QED
    BY <2>3, <2>4
<1>2. ASSUME NEW f \in Member, MainEnter(f)
      PROVE  IInv'
  <2>1. /\ pc = "locals" /\ f \in todo
        /\ ~locals[f] /\ localsOnce[f] = "new"
        /\ locals' = locals
        /\ localsOnce' \in [Member -> {"new", "main", "task", "done"}]
        /\ \A h \in Member : localsOnce'[h] = IF h = f THEN "main" ELSE localsOnce[h]
        /\ built' \in [Member -> Nat]
        /\ \A h \in Member : built'[h] = IF h = f THEN 1 ELSE built[h]
        /\ UNCHANGED <<pc, live, once, full, tasks, begun, todo, converting>>
    BY <1>2, <1>b, StateTypes, Entered DEF MainEnter, LocalsGuarded
  <2>2. TypeOK'
    BY <1>a, <1>b, <2>1, StateTypes DEF TypeOK
  <2>3. TasksAreOwners'
    BY <1>a, <1>b, <2>1, StateTypes DEF TasksAreOwners, EarlyGroup, LateGroup
  <2>4. StartedIsOwned'
    BY <1>b, <2>1, StateTypes DEF StartedIsOwned
  <2>5. LocalsGuarded'
    BY <1>b, <2>1, StateTypes DEF LocalsGuarded, RelocsSeeLocals
  <2>6. MainProgress'
    BY <1>b, <2>1, StateTypes DEF MainProgress
  <2>7. CommonLast'
    BY <1>b, <2>1, StateTypes DEF CommonLast
  <2> QED
    BY <2>2, <2>3, <2>4, <2>5, <2>6, <2>7 DEF IInv
<1>3. ASSUME NEW f \in Member, MainLeave(f)
      PROVE  IInv'
  <2>1. /\ pc = "locals" /\ f \in todo
        /\ built' = built
        /\ todo' = todo \ {f}
        /\ localsOnce' \in [Member -> {"new", "main", "task", "done"}]
        /\ \A h \in Member : localsOnce'[h] = IF h = f THEN "done" ELSE localsOnce[h]
        /\ locals' \in [Member -> BOOLEAN]
        /\ \A h \in Member : locals'[h] = IF h = f THEN TRUE ELSE locals[h]
        /\ UNCHANGED <<pc, live, once, full, tasks, begun, converting>>
    BY <1>3, <1>b, StateTypes, Left DEF MainLeave
  <2>2. TypeOK'
    BY <1>a, <1>b, <2>1, StateTypes DEF TypeOK
  <2>3. TasksAreOwners'
    BY <1>a, <1>b, <2>1, StateTypes DEF TasksAreOwners, EarlyGroup, LateGroup
  <2>4. StartedIsOwned'
    BY <1>b, <2>1, StateTypes DEF StartedIsOwned
  <2>5. LocalsGuarded'
    BY <1>b, <2>1, StateTypes DEF LocalsGuarded, RelocsSeeLocals
  <2>6. MainProgress'
    BY <1>b, <2>1, StateTypes DEF MainProgress
  <2>7. CommonLast'
    BY <1>b, <2>1, StateTypes DEF CommonLast
  <2> QED
    BY <2>2, <2>3, <2>4, <2>5, <2>6, <2>7 DEF IInv
<1>4. ASSUME NEW f \in Member, MainPass(f)
      PROVE  IInv'
  <2>1. /\ pc = "locals" /\ locals[f]
        /\ todo' = todo \ {f}
        /\ UNCHANGED <<pc, live, once, full, localsOnce, locals, tasks, begun, built, converting>>
    BY <1>4, <1>b, StateTypes DEF MainPass, PassLocals, LocalsGuarded, localsVars
  <2>2. TypeOK'
    BY <1>a, <1>b, <2>1, StateTypes DEF TypeOK
  <2>3. TasksAreOwners'
    BY <1>a, <1>b, <2>1, StateTypes DEF TasksAreOwners, EarlyGroup, LateGroup
  <2>4. StartedIsOwned'
    BY <1>b, <2>1, StateTypes DEF StartedIsOwned
  <2>5. LocalsGuarded'
    BY <1>b, <2>1, StateTypes DEF LocalsGuarded, RelocsSeeLocals
  <2>6. MainProgress'
    BY <1>b, <2>1, StateTypes DEF MainProgress
  <2>7. CommonLast'
    BY <1>b, <2>1, StateTypes DEF CommonLast
  <2> QED
    BY <2>2, <2>3, <2>4, <2>5, <2>6, <2>7 DEF IInv
<1>5. ASSUME NEW f \in Member, BeginConvert(f)
      PROVE  IInv'
  <2>1. /\ pc = "convert" /\ f \in todo
        /\ todo' = todo \ {f}
        /\ converting' = {f}
        /\ UNCHANGED <<pc, live, once, full, localsOnce, locals, tasks, begun, built>>
    BY <1>5, <1>b, StateTypes DEF BeginConvert, localsVars
  <2>2. TypeOK'
    BY <1>a, <1>b, <2>1, StateTypes DEF TypeOK
  <2>3. TasksAreOwners'
    BY <1>a, <1>b, <2>1, StateTypes DEF TasksAreOwners, EarlyGroup, LateGroup
  <2>4. StartedIsOwned'
    BY <1>b, <2>1, StateTypes DEF StartedIsOwned
  <2>5. LocalsGuarded'
    BY <1>b, <2>1, StateTypes DEF LocalsGuarded, RelocsSeeLocals
  <2>6. MainProgress'
    BY <1>b, <2>1, StateTypes DEF MainProgress
  <2>7. CommonLast'
    BY <1>b, <2>1, StateTypes DEF CommonLast
  <2> QED
    BY <2>2, <2>3, <2>4, <2>5, <2>6, <2>7 DEF IInv
<1>6. ASSUME EndResolve
      PROVE  IInv'
  <2>1. /\ pc = "mark" /\ pc' = "locals"
        /\ todo' = live
        /\ UNCHANGED <<live, once, full, localsOnce, locals, tasks, begun, built, converting>>
    BY <1>6, <1>b, StateTypes DEF EndResolve, localsVars
  <2>2. TypeOK'
    BY <1>a, <1>b, <2>1, StateTypes DEF TypeOK
  <2>3. TasksAreOwners'
    BY <1>a, <1>b, <2>1, StateTypes DEF TasksAreOwners, EarlyGroup, LateGroup
  <2>4. StartedIsOwned'
    BY <1>b, <2>1, StateTypes DEF StartedIsOwned
  <2>5. LocalsGuarded'
    BY <1>b, <2>1, StateTypes DEF LocalsGuarded, RelocsSeeLocals
  <2>6. MainProgress'
    BY <1>b, <2>1, StateTypes DEF MainProgress
  <2>7. CommonLast'
    BY <1>b, <2>1, StateTypes DEF CommonLast
  <2> QED
    BY <2>2, <2>3, <2>4, <2>5, <2>6, <2>7 DEF IInv
<1>7. ASSUME EndLocals
      PROVE  IInv'
  <2>1. /\ pc = "locals" /\ todo = {} /\ pc' = "convert"
        /\ todo' = live \cap Common
        /\ UNCHANGED <<live, once, full, localsOnce, locals, tasks, begun, built, converting>>
    BY <1>7, <1>b, StateTypes DEF EndLocals, localsVars
  <2>2. TypeOK'
    BY <1>a, <1>b, <2>1, StateTypes DEF TypeOK
  <2>3. TasksAreOwners'
    BY <1>a, <1>b, <2>1, StateTypes DEF TasksAreOwners, EarlyGroup, LateGroup
  <2>4. StartedIsOwned'
    BY <1>b, <2>1, StateTypes DEF StartedIsOwned
  <2>5. LocalsGuarded'
    BY <1>b, <2>1, StateTypes DEF LocalsGuarded, RelocsSeeLocals
  <2>6. MainProgress'
    BY <1>b, <2>1, StateTypes DEF MainProgress
  <2>7. CommonLast'
    BY <1>b, <2>1, StateTypes DEF CommonLast
  <2> QED
    BY <2>2, <2>3, <2>4, <2>5, <2>6, <2>7 DEF IInv
<1>8. ASSUME EndConvert
      PROVE  IInv'
  <2>1. /\ pc = "convert"
        /\ converting' = {}
        /\ UNCHANGED <<pc, live, once, full, localsOnce, locals, tasks, begun, built, todo>>
    BY <1>8, <1>b, StateTypes DEF EndConvert, localsVars
  <2>2. TypeOK'
    BY <1>a, <1>b, <2>1, StateTypes DEF TypeOK
  <2>3. TasksAreOwners'
    BY <1>a, <1>b, <2>1, StateTypes DEF TasksAreOwners, EarlyGroup, LateGroup
  <2>4. StartedIsOwned'
    BY <1>b, <2>1, StateTypes DEF StartedIsOwned
  <2>5. LocalsGuarded'
    BY <1>b, <2>1, StateTypes DEF LocalsGuarded, RelocsSeeLocals
  <2>6. MainProgress'
    BY <1>b, <2>1, StateTypes DEF MainProgress
  <2>7. CommonLast'
    BY <1>b, <2>1, StateTypes DEF CommonLast
  <2> QED
    BY <2>2, <2>3, <2>4, <2>5, <2>6, <2>7 DEF IInv
<1>9. ASSUME CollectPending
      PROVE  IInv'
  <2>1. /\ pc = "convert" /\ converting = {}
        /\ todo' = {f \in live : ~full[f]}
        /\ pc' = IF todo' # {} THEN "finish" ELSE "none pending"
        /\ UNCHANGED <<live, once, full, localsOnce, locals, tasks, begun, built, converting>>
    BY <1>9, <1>b, StateTypes DEF CollectPending, localsVars
  <2>2. TypeOK'
    BY <1>a, <1>b, <2>1, StateTypes DEF TypeOK
  <2>3. TasksAreOwners'
    BY <1>a, <1>b, <2>1, StateTypes DEF TasksAreOwners, EarlyGroup, LateGroup
  <2>4. StartedIsOwned'
    BY <1>b, <2>1, StateTypes DEF StartedIsOwned
  <2>5. LocalsGuarded'
    BY <1>b, <2>1, StateTypes DEF LocalsGuarded, RelocsSeeLocals
  <2>6. MainProgress'
    BY <1>b, <2>1, StateTypes DEF MainProgress
  <2>7. CommonLast'
    BY <1>b, <2>1, StateTypes DEF CommonLast
  <2> QED
    BY <2>2, <2>3, <2>4, <2>5, <2>6, <2>7 DEF IInv
<1>10. ASSUME NEW f \in Member, FinishMember(f)
      PROVE  IInv'
  <2>1. /\ pc = "finish" /\ f \in todo /\ todo' = todo \ {f}
        /\ StartIn(f, LateGroup)
        /\ UNCHANGED <<pc, live, full, localsOnce, locals, begun, built, converting>>
    BY <1>10 DEF FinishMember, localsVars
  <2>2. f \in live' /\ live \subseteq live' /\ live' \subseteq Member
    BY <1>b, <2>1, StateTypes
  <2>3. /\ once' \in [Member -> BOOLEAN]
        /\ \A h \in Member : once'[h] = IF h = f THEN TRUE ELSE once[h]
        /\ tasks' \subseteq [file : live', group : {"early", "late", "tg"}, step : Steps]
        /\ \A v \in tasks' : v \in tasks \/ (v.file = f /\ v.step = "begin")
        /\ TasksAreOwners' /\ StartedIsOwned'
    BY <1>a, <1>b, <2>1, <2>2, Started
  <2>4. TypeOK'
    BY <1>a, <1>b, <2>1, <2>2, <2>3 DEF TypeOK
  <2>5. LocalsGuarded'
    BY <1>b, <2>1, <2>3 DEF LocalsGuarded, RelocsSeeLocals
  <2>6. MainProgress'
    BY <1>b, <2>1, <2>2, <2>3 DEF MainProgress
  <2>7. CommonLast'
    BY <1>b, <2>1 DEF CommonLast
  <2> QED
    BY <2>3, <2>4, <2>5, <2>6, <2>7 DEF IInv
<1>11. ASSUME WaitForMembers
      PROVE  IInv'
  <2>1. /\ pc' = "done"
        /\ UNCHANGED <<live, once, full, localsOnce, locals, tasks, begun, built,
                       todo, converting>>
        /\ \/ pc = "finish" /\ todo = {} /\ Idle({LateGroup, "early"})
           \/ pc = "none pending"
    BY <1>11 DEF WaitForMembers, localsVars
  <2>2. \A f \in live : full[f] /\ locals[f]
    <3>1. CASE pc = "finish" /\ todo = {} /\ Idle({LateGroup, "early"})
      <4>1. tasks = {}
        BY <1>b, <3>1 DEF Idle, TasksAreOwners, EarlyGroup, LateGroup
      <4>2. \A f \in live : once[f] \/ full[f]
        BY <1>b, <3>1 DEF MainProgress
      <4> QED
        BY <1>b, <3>1, <4>1, <4>2, StateTypes DEF StartedIsOwned, MainProgress
    <3>2. CASE pc = "none pending"
      BY <1>b, <3>2 DEF MainProgress
    <3> QED
      BY <2>1, <3>1, <3>2
  <2>3. TypeOK'
    BY <1>a, <1>b, <2>1 DEF TypeOK
  <2>4. TasksAreOwners' /\ StartedIsOwned'
    BY <1>a, <1>b, <2>1 DEF TasksAreOwners, StartedIsOwned, EarlyGroup, LateGroup
  <2>5. LocalsGuarded'
    BY <1>b, <2>1 DEF LocalsGuarded, RelocsSeeLocals
  <2>6. MainProgress' /\ CommonLast'
    BY <1>b, <2>1, <2>2 DEF MainProgress, CommonLast
  <2> QED
    BY <2>3, <2>4, <2>5, <2>6 DEF IInv
<1> QED
  BY <1>1, <1>2, <1>3, <1>4, <1>5, <1>6, <1>7, <1>8, <1>9, <1>10, <1>11 DEF MainStep

-----------------------------------------------------------------------------
(* Every step of the link preserves the invariant. *)
LEMMA NextIInv ==
  ASSUME IInv, [Next]_vars
  PROVE  IInv'
<1>1. CASE MainStep
  BY <1>1, MainStepIInv
<1>2. CASE TaskStep
  BY <1>2, TaskStepIInv
<1>3. CASE UNCHANGED vars
  BY <1>3 DEF IInv, TypeOK, TasksAreOwners, StartedIsOwned, LocalsGuarded,
              RelocsSeeLocals, MainProgress, CommonLast, EarlyGroup, LateGroup, vars
<1> QED
  BY <1>1, <1>2, <1>3 DEF Next, Finished

(* The invariant holds throughout the link. *)
LEMMA Invariance == Spec => []IInv
<1>1. Init => IInv
  BY InitIInv
<1>2. IInv /\ [Next]_vars => IInv'
  BY NextIInv
<1> QED
  BY <1>1, <1>2, PTL DEF Spec

(* The state of deferred parsing keeps its types: in particular a task is  *)
(* always at work on a live member, and only live members are converted.   *)
THEOREM TypeCorrect == Spec => []TypeOK
<1>1. IInv => TypeOK
  BY DEF IInv
<1> QED
  BY <1>1, Invariance, PTL

(* When finish_parsing_archive_members returns, every live member has its  *)
(* local symbols, relocations and unwind records, and no task still runs,  *)
(* whichever of the task groups it was started in.                         *)
THEOREM FinishedIsParsed == Spec => []ParsedBeforeUse
<1>1. ASSUME IInv PROVE ParsedBeforeUse
  <2>1. SUFFICES ASSUME pc = "done"
                 PROVE  (\A f \in live : full[f] /\ locals[f]) /\ tasks = {}
    BY DEF ParsedBeforeUse
  <2>2. \A f \in live : full[f] /\ locals[f]
    BY <1>1, <2>1 DEF IInv, MainProgress
  <2>3. \A t \in tasks : t.file \in live /\ ~full[t.file]
    BY <1>1, StateTypes DEF IInv, TasksAreOwners
  <2> QED
    BY <2>2, <2>3
<1> QED
  BY <1>1, Invariance, PTL

(* The two call_once guards work together: relocations are parsed and      *)
(* local symbols created at most once for each member.                     *)
THEOREM ParsedOnce == Spec => []DoneOnce
<1>1. ASSUME IInv PROVE DoneOnce
  BY <1>1 DEF IInv, DoneOnce, StartedIsOwned, LocalsGuarded
<1> QED
  BY <1>1, Invariance, PTL

(* finish_parse never reads relocations before the local symbols they may  *)
(* name have been created, also when the main thread is creating them.     *)
THEOREM LocalsFirst == Spec => []RelocsSeeLocals
<1>1. IInv => RelocsSeeLocals
  BY DEF IInv, LocalsGuarded
<1> QED
  BY <1>1, Invariance, PTL

(* convert_common_symbols has every file it changes to itself. *)
THEOREM ConvertedAlone == Spec => []NoParseWhileConverting
<1>1. ASSUME IInv PROVE NoParseWhileConverting
  BY <1>1 DEF IInv, NoParseWhileConverting, CommonLast
<1> QED
  BY <1>1, Invariance, PTL
=============================================================================
