---------------------------- MODULE FinishParse ----------------------------
(***************************************************************************)
(* Deferred parsing of archive members.  ObjectFile::parse leaves local    *)
(* symbols, relocations and unwind records of a lazy member for later.     *)
(* Once symbol resolution finds the member live, finish_parse may start as *)
(* a task that runs beside the rest of resolution; otherwise               *)
(* finish_parsing_archive_members starts it.  The dead-strip and layout    *)
(* passes come after that.  std::call_once guards both finish_parse and    *)
(* materialize_local_symbols.                                              *)
(***************************************************************************)
EXTENDS Integers, FiniteSets

CONSTANTS Member,    \* archive members
          Common,    \* members with common symbols
          Simple,    \* members with nothing to defer but local symbols
          Eager      \* members that parse() has parsed completely

ASSUME KindsAssumption ==
  Common \cup Simple \cup Eager \subseteq Member

VARIABLES
  x86,        \* E::cputype == CPU_TYPE_X86_64: the early lane is used
  pc,         \* where macho_main is
  live,       \* members that mark_live_objects has reached
  once,       \* finish_parse_once
  full,       \* fully_parsed
  localsOnce, \* local_symbols_once: "new", who runs it, or "done"
  locals,     \* local_symbols_materialized
  tasks,      \* finish_parse calls on their way: file, task group, step
  begun,      \* how often relocations were parsed
  built,      \* how often local symbols were created
  todo,       \* files the current pass has still to visit
  converting  \* files convert_common_symbols is changing

vars == <<x86, pc, live, once, full, localsOnce, locals, tasks, begun, built, todo,
          converting>>

localsVars == <<localsOnce, locals, built>>

Init ==
  /\ x86 \in BOOLEAN
  /\ pc = "mark"
  /\ live = {}
  /\ once = [f \in Member |-> f \in Eager]
  /\ full = [f \in Member |-> f \in Eager \cup Simple]
  /\ localsOnce = [f \in Member |-> "new"]
  /\ locals = [f \in Member |-> f \in Eager]
  /\ tasks = {}
  /\ begun = [f \in Member |-> IF f \in Eager THEN 1 ELSE 0]
  /\ built = [f \in Member |-> IF f \in Eager THEN 1 ELSE 0]
  /\ todo = {}
  /\ converting = {}

(***************************************************************************)
(* start_finish_parse and finish_parse_now: the call_once either starts a  *)
(* finish_parse in the given task group or does nothing.                   *)
(***************************************************************************)
(* Mutant: there is no call_once. *)
StartIn_NotOnce(f, group) ==
  /\ once' = [once EXCEPT ![f] = TRUE]
  /\ tasks' = IF full[f] THEN tasks
              ELSE tasks \cup {[file |-> f, group |-> group, step |-> "begin"]}

StartIn(f, group) ==
  /\ once' = [once EXCEPT ![f] = TRUE]
  /\ tasks' = IF once[f] \/ full[f] THEN tasks
              ELSE tasks \cup {[file |-> f, group |-> group, step |-> "begin"]}

EarlyGroup == IF x86 THEN "early" ELSE "tg"

(* Mutant: common symbols are not looked at. *)
CanStartEarly_Any(f) == f \in Member

CanStartEarly(f) == f \notin Common

MarkLive(f) ==
  /\ pc = "mark" /\ f \notin live
  /\ live' = live \cup {f}
  /\ IF CanStartEarly(f) THEN StartIn(f, EarlyGroup)
     ELSE UNCHANGED <<once, tasks>>
  /\ UNCHANGED <<pc, full, localsVars, begun, todo, converting>>

(* resolve_symbols is over; dead members are erased. *)
EndResolve ==
  /\ pc = "mark"
  /\ pc' = "locals"
  /\ todo' = live
  /\ UNCHANGED <<live, once, full, localsVars, tasks, begun, converting>>

(***************************************************************************)
(* materialize_local_symbols, called by the pass over all files (who is    *)
(* "main") and by finish_parse ("task").                                   *)
(***************************************************************************)
EnterLocals(f, who) ==
  /\ ~locals[f] /\ localsOnce[f] = "new"
  /\ localsOnce' = [localsOnce EXCEPT ![f] = who]
  /\ built' = [built EXCEPT ![f] = @ + 1]
  /\ UNCHANGED locals

LeaveLocals(f, who) ==
  /\ localsOnce[f] = who
  /\ localsOnce' = [localsOnce EXCEPT ![f] = "done"]
  /\ locals' = [locals EXCEPT ![f] = TRUE]
  /\ UNCHANGED built

PassLocals(f) == locals[f] \/ localsOnce[f] = "done"

MainEnter(f) ==
  /\ pc = "locals" /\ f \in todo
  /\ EnterLocals(f, "main")
  /\ UNCHANGED <<pc, live, once, full, tasks, begun, todo, converting>>

MainLeave(f) ==
  /\ pc = "locals" /\ f \in todo
  /\ LeaveLocals(f, "main")
  /\ todo' = todo \ {f}
  /\ UNCHANGED <<pc, live, once, full, tasks, begun, converting>>

MainPass(f) ==
  /\ pc = "locals" /\ f \in todo /\ PassLocals(f)
  /\ todo' = todo \ {f}
  /\ UNCHANGED <<pc, live, once, full, localsVars, tasks, begun, converting>>

EndLocals ==
  /\ pc = "locals" /\ todo = {}
  /\ pc' = "convert"
  /\ todo' = live \cap Common
  /\ UNCHANGED <<live, once, full, localsVars, tasks, begun, converting>>

(***************************************************************************)
(* convert_common_symbols adds to sections and subsections of each file    *)
(* with common symbols, one file after the other.                          *)
(***************************************************************************)
BeginConvert(f) ==
  /\ pc = "convert" /\ converting = {} /\ f \in todo
  /\ converting' = {f}
  /\ todo' = todo \ {f}
  /\ UNCHANGED <<pc, live, once, full, localsVars, tasks, begun>>

EndConvert ==
  /\ pc = "convert" /\ converting # {}
  /\ converting' = {}
  /\ UNCHANGED <<pc, live, once, full, localsVars, tasks, begun, todo>>

(***************************************************************************)
(* finish_parsing_archive_members.                                         *)
(***************************************************************************)
CollectPending ==
  /\ pc = "convert" /\ converting = {} /\ todo = {}
  /\ todo' = {f \in live : ~full[f]}
  /\ pc' = IF todo' # {} THEN "finish" ELSE "none pending"
  /\ UNCHANGED <<live, once, full, localsVars, tasks, begun, converting>>

LateGroup == IF x86 THEN "late" ELSE "tg"

(* Mutant: the same member is taken again and again. *)
FinishMember_NotTaken(f) ==
  /\ pc = "finish" /\ f \in todo
  /\ StartIn(f, LateGroup)
  /\ todo' = todo
  /\ UNCHANGED <<pc, live, full, localsVars, begun, converting>>

FinishMember(f) ==
  /\ pc = "finish" /\ f \in todo
  /\ StartIn(f, LateGroup)
  /\ todo' = todo \ {f}
  /\ UNCHANGED <<pc, live, full, localsVars, begun, converting>>

Idle(groups) == \A t \in tasks : t.group \notin groups

(* Mutant: the early lane is not waited for. *)
WaitForMembers_NoEarly ==
  /\ \/ pc = "finish" /\ todo = {} /\ Idle({LateGroup})
     \/ pc = "none pending" /\ Idle({"early"})
  /\ pc' = "done"
  /\ UNCHANGED <<live, once, full, localsVars, tasks, begun, todo, converting>>

(* The pass waits for the late workers, or ctx.tg, and the early lane; if  *)
(* nothing was pending, for the early lane only.                           *)
WaitForMembers ==
  /\ \/ pc = "finish" /\ todo = {} /\ Idle({LateGroup, "early"})
     \/ pc = "none pending" /\ Idle({"early"})
  /\ pc' = "done"
  /\ UNCHANGED <<live, once, full, localsVars, tasks, begun, todo, converting>>

(***************************************************************************)
(* The steps of finish_parse.                                              *)
(***************************************************************************)
Advance(t, step) == tasks' = (tasks \ {t}) \cup {[t EXCEPT !.step = step]}

TaskBegin(t) ==
  /\ t.step = "begin"
  /\ IF full[t.file] THEN tasks' = tasks \ {t} ELSE Advance(t, "locals")
  /\ UNCHANGED <<pc, live, once, full, localsVars, begun, todo, converting>>

TaskEnter(t) ==
  /\ t.step = "locals"
  /\ EnterLocals(t.file, "task")
  /\ Advance(t, "in locals")
  /\ UNCHANGED <<pc, live, once, full, begun, todo, converting>>

TaskLeave(t) ==
  /\ t.step = "in locals"
  /\ LeaveLocals(t.file, "task")
  /\ Advance(t, "relocs")
  /\ UNCHANGED <<pc, live, once, full, begun, todo, converting>>

(* Mutant: a started call_once is taken for a finished one. *)
TaskPass_NoWait(t) ==
  /\ t.step = "locals" /\ localsOnce[t.file] # "new"
  /\ Advance(t, "relocs")
  /\ UNCHANGED <<pc, live, once, full, localsVars, begun, todo, converting>>

TaskPass(t) ==
  /\ t.step = "locals" /\ PassLocals(t.file)
  /\ Advance(t, "relocs")
  /\ UNCHANGED <<pc, live, once, full, localsVars, begun, todo, converting>>

TaskRelocs(t) ==
  /\ t.step = "relocs"
  /\ begun' = [begun EXCEPT ![t.file] = @ + 1]
  /\ Advance(t, "unwind")
  /\ UNCHANGED <<pc, live, once, full, localsVars, todo, converting>>

TaskEnd(t) ==
  /\ t.step = "unwind"
  /\ full' = [full EXCEPT ![t.file] = TRUE]
  /\ tasks' = tasks \ {t}
  /\ UNCHANGED <<pc, live, once, localsVars, begun, todo, converting>>

Finished == pc = "done" /\ UNCHANGED vars

MainStep ==
  /\ \/ \E f \in Member : MarkLive(f) \/ MainEnter(f) \/ MainLeave(f)
                            \/ MainPass(f) \/ BeginConvert(f) \/ FinishMember(f)
     \/ EndResolve \/ EndLocals \/ EndConvert \/ CollectPending \/ WaitForMembers
  /\ UNCHANGED x86

TaskStep ==
  /\ \E t \in tasks : \/ TaskBegin(t) \/ TaskEnter(t) \/ TaskLeave(t)
                       \/ TaskPass(t) \/ TaskRelocs(t) \/ TaskEnd(t)
  /\ UNCHANGED x86

Next == MainStep \/ TaskStep \/ Finished

(* Every task group runs its tasks, and the main thread waits only for     *)
(* tasks and for call_once.                                                *)
Spec == Init /\ [][Next]_vars /\ WF_vars(MainStep) /\ WF_vars(TaskStep)

-----------------------------------------------------------------------------
(***************************************************************************)
(* Properties.                                                             *)
(***************************************************************************)
Steps == {"begin", "locals", "in locals", "relocs", "unwind"}

TypeOK ==
  /\ x86 \in BOOLEAN
  /\ pc \in {"mark", "locals", "convert", "finish", "none pending", "done"}
  /\ live \subseteq Member
  /\ once \in [Member -> BOOLEAN] /\ full \in [Member -> BOOLEAN]
  /\ localsOnce \in [Member -> {"new", "main", "task", "done"}]
  /\ locals \in [Member -> BOOLEAN]
  /\ tasks \subseteq [file : live, group : {"early", "late", "tg"},
                      step : Steps]
  /\ begun \in [Member -> Nat] /\ built \in [Member -> Nat]
  /\ todo \subseteq live /\ converting \subseteq live

(* When the passes after finish_parsing_archive_members run, every live    *)
(* member is fully parsed and no task is still at work on any, also when   *)
(* it was started long before and when the pass found nothing pending.     *)
ParsedBeforeUse ==
  pc = "done" => /\ \A f \in live : full[f] /\ locals[f]
                 /\ tasks = {}

(* The relocations of a member are parsed once and its local symbols       *)
(* created once, whoever comes first.                                      *)
DoneOnce == \A f \in Member : begun[f] <= 1 /\ built[f] <= 1

(* When relocations are parsed, the local symbols they may name exist.     *)
RelocsSeeLocals ==
  \A t \in tasks : t.step \in {"relocs", "unwind"} => locals[t.file]

(* Nobody parses the relocations of a file while convert_common_symbols    *)
(* adds to its subsections.                                                *)
NoParseWhileConverting ==
  \A t \in tasks : t.file \notin converting

(* The passes after finish_parsing_archive_members are reached if the set  *)
(* of members to mark is finite.                                           *)
Terminates == <>(pc = "done")
=============================================================================
