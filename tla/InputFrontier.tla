---------------------------- MODULE InputFrontier ----------------------------
(***************************************************************************)
(* Reading the inputs: read_input_files and the frontier loop of main.cc,  *)
(* with the parse tasks of ObjectFile and DylibFile.  The main thread      *)
(* walks the command line, creating a file and a parse task for each       *)
(* input; a dylib's task creates and parses the libraries it re-exports;   *)
(* an object's task publishes its LC_LINKER_OPTION requests, which the     *)
(* main thread serves in the order of the objects while it waits.  Later,  *)
(* symbol resolution loads archive members and runs the same loop again.   *)
(*                                                                         *)
(* A library is a name given to -l; different names may lead to files with *)
(* the same install name.  Failing to open a file ends the linker and is   *)
(* left out.  So are linker options that name a static archive, or a       *)
(* library that is not found, which is skipped: each names a dylib.        *)
(***************************************************************************)
EXTENDS Integers, Sequences, FiniteSets, SequencesExt

CONSTANTS Obj,       \* object files and archive members
          Lib,       \* library names
          Name,      \* install names
          Inputs     \* the inputs considered

ASSUME DisjointAssumption == Obj \cap Lib = {}

(* How an input is asked for: the fields of ReaderContext that matter. *)
Modes == [weak : BOOLEAN, needed : BOOLEAN, implicit : BOOLEAN]
Plain == [weak |-> FALSE, needed |-> FALSE, implicit |-> FALSE]

IsInput(i) ==
  /\ i.cmdline \in Seq([file : Obj \cup Lib, mode : Modes])
  /\ i.members \in Seq(Obj)                 \* archive members used later
  /\ i.autolink \in [Obj -> Seq([file : Lib, needed : BOOLEAN])]
  /\ i.installName \in [Lib -> Name]
  /\ i.reexports \in [Lib -> Seq(Lib)]
  /\ i.system \in SUBSET Name               \* is_system_dylib
  /\ i.strippable \in SUBSET Lib            \* dead-strippable dylibs
  /\ i.nameless \in SUBSET Lib    \* no install name, or a -bundle_loader
  \* ObjectFile::create makes a file of its own of every input.
  /\ \A j, k \in 1 .. Len(i.cmdline) :
       i.cmdline[j].file = i.cmdline[k].file => j = k \/ i.cmdline[j].file \in Lib
  /\ \A j, k \in 1 .. Len(i.members) : i.members[j] = i.members[k] => j = k
  /\ \A j \in 1 .. Len(i.cmdline), k \in 1 .. Len(i.members) :
       i.cmdline[j].file # i.members[k]

ASSUME InputsAssumption == \A i \in Inputs : IsInput(i)

VARIABLES
  inp,
  pc,            \* where the main thread is
  stage,         \* "inputs", or "archives" once read_input_files is over
  cmd,           \* rest of the command line
  members,       \* archive members still to be loaded
  reader,        \* ctx.reader
  objs,          \* ctx.objs
  dylibs,        \* ctx.dylibs: indices into dfile
  dfile,         \* every DylibFile created
  libDylib,      \* ctx.lib_dylibs, for names in ctx.seen_libraries
  nextPriority,  \* ctx.next_dylib_priority
  tasks,         \* call stacks of the running dylib parse tasks
  objState,      \* per object: "none", "parsing", "queued", "parsed"
  parsed,        \* DylibFiles whose parse_complete is set
  ready,         \* ctx.ready_autolink_objects: ordinals
  nextAuto,      \* ctx.next_autolink_to_process
  batch,         \* objects of the autolink frontier being served
  opts,          \* linker options of the object being served, still to do
  pending,       \* archive members were loaded and not drained yet
  launched,      \* the current frontier loaded something
  objBegin, dylibBegin, \* what the frontier loop has already waited for
  at, rest,      \* loops over dylibs: the last one reached, its hoisted
                 \* libraries still to be looked at
  kept           \* dedup_dylibs_by_install_name: the list it makes

vars == <<inp, pc, stage, cmd, members, reader, objs, dylibs, dfile, libDylib,
          nextPriority, tasks, objState, parsed, ready, nextAuto, batch, opts,
          pending, launched, objBegin, dylibBegin, at, rest, kept>>

walkVars == <<at, rest, kept>>
inputVars == <<inp, stage, cmd, members>>
frontierVars ==
  <<ready, nextAuto, batch, opts, pending, launched, objBegin, dylibBegin,
    walkVars>>

Init ==
  /\ inp \in Inputs
  /\ pc = "read"
  /\ stage = "inputs"
  /\ cmd = inp.cmdline
  /\ members = inp.members
  /\ reader = Plain
  /\ objs = <<>> /\ dylibs = <<>> /\ dfile = <<>>
  /\ libDylib = [l \in Lib |-> 0]
  /\ nextPriority = 0
  /\ tasks = {}
  /\ objState = [o \in Obj |-> "none"]
  /\ parsed = {} /\ ready = {} /\ nextAuto = 1
  /\ batch = <<>> /\ opts = <<>> /\ pending = FALSE /\ launched = FALSE
  /\ objBegin = 0 /\ dylibBegin = 0
  /\ at = 0 /\ rest = <<>> /\ kept = <<>>

NewDylib(l, mode, prio) ==
  [ lib |-> l, priority |-> prio, weak |-> mode.weak,
    alive |-> mode.needed \/ (~mode.implicit /\ l \notin inp.strippable),
    hoisted |-> <<>> ]

Frame(id, l) == [id |-> id, rest |-> inp.reexports[l], ticket |-> -1]

(***************************************************************************)
(* read_file and read_library on the main thread: a name that was seen     *)
(* before only makes its dylib needed.                                     *)
(***************************************************************************)
CreateObject(o) ==
  /\ objs' = Append(objs, o)
  /\ objState' = [objState EXCEPT ![o] = "parsing"]

ReadLibrary(l, mode) ==
  IF libDylib[l] # 0
  THEN /\ dfile' = [dfile EXCEPT ![libDylib[l]].alive = @ \/ mode.needed]
       /\ UNCHANGED <<dylibs, libDylib, nextPriority, tasks>>
  ELSE LET id == Len(dfile) + 1
       IN  /\ dfile' = Append(dfile, NewDylib(l, mode, nextPriority))
           /\ nextPriority' = nextPriority + 1
           /\ dylibs' = Append(dylibs, id)
           /\ libDylib' = [libDylib EXCEPT ![l] = id]
           /\ tasks' = tasks \cup {<<Frame(id, l)>>}

ReadItem ==
  /\ pc = "read" /\ cmd # <<>>
  /\ LET c == Head(cmd)
     IN  /\ reader' = c.mode
         /\ IF c.file \in Obj
            THEN /\ CreateObject(c.file)
                 /\ UNCHANGED <<dylibs, dfile, libDylib, nextPriority, tasks>>
            ELSE /\ ReadLibrary(c.file, c.mode)
                 /\ UNCHANGED <<objs, objState>>
  /\ cmd' = Tail(cmd)
  /\ pc' = "restore"
  /\ UNCHANGED <<inp, stage, members, parsed, frontierVars>>

RestoreReader ==
  /\ pc = "restore"
  /\ reader' = Plain
  /\ pc' = "read"
  /\ UNCHANGED <<inputVars, objs, dylibs, dfile, libDylib, nextPriority,
                 tasks, objState, parsed, frontierVars>>

EndOfCommandLine ==
  /\ pc = "read" /\ cmd = <<>>
  /\ pc' = "frontier"
  /\ launched' = FALSE
  /\ UNCHANGED <<inputVars, reader, objs, dylibs, dfile, libDylib,
                 nextPriority, tasks, objState, parsed, ready, nextAuto,
                 batch, opts, pending, objBegin, dylibBegin, walkVars>>

(***************************************************************************)
(* Parse tasks.  An object's task enters it in ready_autolink_objects and  *)
(* then reports completion.                                                *)
(***************************************************************************)
Ordinal(o) == CHOOSE k \in 1 .. Len(objs) : objs[k] = o

EnqueueParsed(o) ==
  /\ objState[o] = "parsing"
  /\ objState' = [objState EXCEPT ![o] = "queued"]
  /\ ready' = ready \cup {Ordinal(o)}
  /\ UNCHANGED <<inputVars, pc, reader, objs, dylibs, dfile, libDylib,
                 nextPriority, tasks, parsed, nextAuto, batch, opts, pending,
                 launched, objBegin, dylibBegin, walkVars>>

NotifyParsed(o) ==
  /\ objState[o] = "queued"
  /\ objState' = [objState EXCEPT ![o] = "parsed"]
  /\ UNCHANGED <<inputVars, pc, reader, objs, dylibs, dfile, libDylib,
                 nextPriority, tasks, parsed, frontierVars>>

(* DylibFile::create called by a parse task: next_dylib_priority++ is not  *)
(* atomic, and ctx.reader is whatever the main thread has set it to.       *)
TakeTicket(t) ==
  /\ Head(t).rest # <<>> /\ Head(t).ticket = -1
  /\ tasks' = (tasks \ {t}) \cup {<<[Head(t) EXCEPT !.ticket = nextPriority]>>
                                    \o Tail(t)}
  /\ UNCHANGED <<inputVars, pc, reader, objs, dylibs, dfile, libDylib,
                 nextPriority, objState, parsed, frontierVars>>

CreateChild(t) ==
  /\ Head(t).rest # <<>> /\ Head(t).ticket # -1
  /\ LET f == Head(t)
         l == Head(f.rest)
         up == [f EXCEPT !.rest = Tail(@), !.ticket = -1]
     IN  /\ nextPriority' = f.ticket + 1
         /\ dfile' = Append(dfile, NewDylib(l, reader, f.ticket))
         /\ tasks' = (tasks \ {t})
                       \cup {<<Frame(Len(dfile) + 1, l), up>> \o Tail(t)}
  /\ UNCHANGED <<inputVars, pc, reader, objs, dylibs, libDylib, objState,
                 parsed, frontierVars>>

InstallName(id) == inp.installName[dfile[id].lib]

(* A dylib is parsed.  If it is a child, a system library is hoisted into  *)
(* its parent's list and is dead until used; any other one is absorbed.    *)
ParseReturns(t) ==
  /\ Head(t).rest = <<>>
  /\ LET c == Head(t).id
     IN  /\ parsed' = parsed \cup {c}
         /\ IF Len(t) = 1
            THEN UNCHANGED dfile
            ELSE LET q == t[2].id
                 IN  dfile' =
                   IF InstallName(c) \in inp.system
                   THEN [dfile EXCEPT ![q].hoisted = Append(@, c),
                                      ![c].alive = FALSE]
                   ELSE [dfile EXCEPT ![q].hoisted = @ \o dfile[c].hoisted]
  /\ tasks' = (tasks \ {t}) \cup (IF Len(t) = 1 THEN {} ELSE {Tail(t)})
  /\ UNCHANGED <<inputVars, pc, reader, objs, dylibs, libDylib, nextPriority,
                 objState, frontierVars>>

(***************************************************************************)
(* wait_for_new_input_frontier.                                            *)
(***************************************************************************)
(* The first object from next_autolink_to_process on that is not ready.    *)
ReadyEnd ==
  CHOOSE k \in nextAuto .. Len(objs) + 1 :
    k \notin ready /\ nextAuto .. k - 1 \subseteq ready

TakeFrontier ==
  /\ pc = "frontier"
  /\ batch' = SubSeq(objs, nextAuto, ReadyEnd - 1)
  /\ nextAuto' = ReadyEnd
  /\ ready' = ready \ (nextAuto .. ReadyEnd - 1)
  /\ launched' = FALSE
  /\ pc' = "serve"
  /\ UNCHANGED <<inputVars, reader, objs, dylibs, dfile, libDylib,
                 nextPriority, tasks, objState, parsed, opts, pending,
                 objBegin, dylibBegin, walkVars>>

(* process_linker_options: the requests of one object, in order.  Parse    *)
(* tasks run between two of them and see the reader they set.              *)
ServeObject ==
  /\ pc = "serve" /\ batch # <<>>
  /\ opts' = inp.autolink[Head(batch)]
  /\ batch' = Tail(batch)
  /\ pc' = "options"
  /\ UNCHANGED <<inputVars, reader, objs, dylibs, dfile, libDylib,
                 nextPriority, tasks, objState, parsed, ready, nextAuto,
                 pending, launched, objBegin, dylibBegin, walkVars>>

ServeOption ==
  /\ pc = "options" /\ opts # <<>>
  /\ reader' = [Plain EXCEPT !.needed = Head(opts).needed, !.implicit = TRUE]
  /\ ReadLibrary(Head(opts).file, reader')
  /\ launched' = (launched \/ dylibs' # dylibs)
  /\ opts' = Tail(opts)
  /\ UNCHANGED <<inputVars, pc, objs, objState, parsed, ready, nextAuto,
                 batch, pending, objBegin, dylibBegin, walkVars>>

EndOptions ==
  /\ pc = "options" /\ opts = <<>>
  /\ reader' = Plain
  /\ pc' = "serve"
  /\ UNCHANGED <<inputVars, objs, dylibs, dfile, libDylib, nextPriority,
                 tasks, objState, parsed, frontierVars>>

AllWaited == objBegin = Len(objs) /\ dylibBegin = Len(dylibs)

(* Nothing new to wait for: leave the loop, or look at the frontier again  *)
(* if it loaded something.                                                 *)
LeaveOrRepeat ==
  /\ pc = "serve" /\ batch = <<>> /\ AllWaited
  /\ pc' = IF launched THEN "frontier"
           ELSE IF stage = "inputs" THEN "dedup" ELSE "resolving"
  /\ pending' = FALSE
  /\ at' = 0 /\ rest' = <<>> /\ kept' = <<>>
  /\ UNCHANGED <<inputVars, reader, objs, dylibs, dfile, libDylib,
                 nextPriority, tasks, objState, parsed, ready, nextAuto,
                 batch, opts, launched, objBegin, dylibBegin>>

WaitForFrontier ==
  /\ pc = "serve" /\ batch = <<>> /\ ~AllWaited
  /\ \A k \in objBegin + 1 .. Len(objs) : objState[objs[k]] = "parsed"
  /\ \A k \in dylibBegin + 1 .. Len(dylibs) : dylibs[k] \in parsed
  /\ at' = 0 /\ rest' = <<>>
  /\ pc' = "hoist"
  /\ UNCHANGED <<inputVars, reader, objs, dylibs, dfile, libDylib,
                 nextPriority, tasks, objState, parsed, ready, nextAuto, batch,
                 opts, pending, launched, objBegin, dylibBegin, kept>>

(* collect_hoisted_dylibs: the list grows while it is walked. *)
SameName(i, j) ==
  \/ i = j
  \/ /\ {dfile[i].lib, dfile[j].lib} \cap inp.nameless = {}
     /\ inp.installName[dfile[i].lib] = inp.installName[dfile[j].lib]

Listed(list, id) == \E k \in 1 .. Len(list) : SameName(list[k], id)

Hoist(list, id) == IF Listed(list, id) THEN list ELSE Append(list, id)

HoistNext ==
  /\ pc = "hoist" /\ rest = <<>> /\ at < Len(dylibs)
  /\ at' = at + 1
  /\ rest' = dfile[dylibs[at + 1]].hoisted
  /\ UNCHANGED <<inputVars, pc, reader, objs, dylibs, dfile, libDylib,
                 nextPriority, tasks, objState, parsed, ready, nextAuto, batch,
                 opts, pending, launched, objBegin, dylibBegin, kept>>

HoistLibrary ==
  /\ pc = "hoist" /\ rest # <<>>
  /\ dylibs' = Hoist(dylibs, Head(rest))
  /\ rest' = Tail(rest)
  /\ UNCHANGED <<inputVars, pc, reader, objs, dfile, libDylib, nextPriority,
                 tasks, objState, parsed, ready, nextAuto, batch, opts, pending,
                 launched, objBegin, dylibBegin, at, kept>>

(* Mutant: the loop is left after the first wait. *)
EndHoisting_LeaveLoop ==
  /\ pc = "hoist" /\ rest = <<>> /\ at = Len(dylibs)
  /\ objBegin' = Len(objs)
  /\ dylibBegin' = Len(dylibs)
  /\ at' = 0
  /\ pc' = IF stage = "inputs" THEN "dedup" ELSE "resolving"
  /\ UNCHANGED <<inputVars, reader, objs, dylibs, dfile, libDylib,
                 nextPriority, tasks, objState, parsed, ready, nextAuto, batch,
                 opts, pending, launched, rest, kept>>

(* Mutant: obj_begin is not advanced. *)
EndHoisting_ObjBeginKept ==
  /\ pc = "hoist" /\ rest = <<>> /\ at = Len(dylibs)
  /\ dylibBegin' = Len(dylibs)
  /\ pc' = "frontier"
  /\ UNCHANGED <<inputVars, reader, objs, dylibs, dfile, libDylib,
                 nextPriority, tasks, objState, parsed, ready, nextAuto, batch,
                 opts, pending, launched, objBegin, walkVars>>

EndHoisting ==
  /\ pc = "hoist" /\ rest = <<>> /\ at = Len(dylibs)
  /\ objBegin' = Len(objs)
  /\ dylibBegin' = Len(dylibs)
  /\ pc' = "frontier"
  /\ UNCHANGED <<inputVars, reader, objs, dylibs, dfile, libDylib,
                 nextPriority, tasks, objState, parsed, ready, nextAuto, batch,
                 opts, pending, launched, walkVars>>

(***************************************************************************)
(* dedup_dylibs_by_install_name, at the end of read_input_files.  The      *)
(* first dylib with an install name stands for the others.                 *)
(***************************************************************************)
(* Mutant: only live dylibs can stand for others. *)
Canonical_LiveOnly(id) ==
  IF \E k \in Range(kept) : SameName(k, id) /\ dfile[k].alive
  THEN CHOOSE k \in Range(kept) : SameName(k, id) /\ dfile[k].alive ELSE id

Canonical(id) ==
  IF Listed(kept, id) THEN CHOOSE k \in Range(kept) : SameName(k, id) ELSE id

(* Mutant: is_alive of the duplicates is dropped. *)
DedupDylib_KeepsAlive ==
  /\ pc = "dedup" /\ at < Len(dylibs)
  /\ LET id == dylibs[at + 1]
         first == Canonical(id)
     IN  /\ kept' = IF first = id THEN Append(kept, id) ELSE kept
         /\ dfile' = [dfile EXCEPT ![first].weak = @ /\ dfile[id].weak]
  /\ at' = at + 1
  /\ UNCHANGED <<inputVars, pc, reader, objs, dylibs, libDylib, nextPriority,
                 tasks, objState, parsed, ready, nextAuto, batch, opts, pending,
                 launched, objBegin, dylibBegin, rest>>

DedupDylib ==
  /\ pc = "dedup" /\ at < Len(dylibs)
  /\ LET id == dylibs[at + 1]
         first == Canonical(id)
     IN  /\ kept' = IF first = id THEN Append(kept, id) ELSE kept
         /\ dfile' = [dfile EXCEPT ![first].alive = @ \/ dfile[id].alive,
                                   ![first].weak = @ /\ dfile[id].weak]
  /\ at' = at + 1
  /\ UNCHANGED <<inputVars, pc, reader, objs, dylibs, libDylib, nextPriority,
                 tasks, objState, parsed, ready, nextAuto, batch, opts, pending,
                 launched, objBegin, dylibBegin, rest>>

(* The names of the command line follow. *)
Redirect(id) == IF id \in Range(dylibs) THEN Canonical(id) ELSE id

RedirectNames ==
  /\ pc = "dedup" /\ at = Len(dylibs)
  /\ libDylib' = [l \in Lib |-> IF libDylib[l] = 0 THEN 0
                                ELSE Redirect(libDylib[l])]
  /\ at' = 0
  /\ pc' = "redirect"
  /\ UNCHANGED <<inputVars, reader, objs, dylibs, dfile, nextPriority, tasks,
                 objState, parsed, ready, nextAuto, batch, opts, pending,
                 launched, objBegin, dylibBegin, rest, kept>>

(* And the hoisted libraries of the dylibs kept, each one once. *)
RedirectNext ==
  /\ pc = "redirect" /\ rest = <<>> /\ at < Len(kept)
  /\ at' = at + 1
  /\ rest' = dfile[kept[at + 1]].hoisted
  /\ dfile' = [dfile EXCEPT ![kept[at + 1]].hoisted = <<>>]
  /\ UNCHANGED <<inputVars, pc, reader, objs, dylibs, libDylib, nextPriority,
                 tasks, objState, parsed, ready, nextAuto, batch, opts, pending,
                 launched, objBegin, dylibBegin, kept>>

RedirectHoisted ==
  /\ pc = "redirect" /\ rest # <<>>
  /\ LET t == Redirect(Head(rest))
     IN  dfile' = [dfile EXCEPT ![kept[at]].hoisted =
                     IF t \in Range(@) THEN @ ELSE Append(@, t)]
  /\ rest' = Tail(rest)
  /\ UNCHANGED <<inputVars, pc, reader, objs, dylibs, libDylib, nextPriority,
                 tasks, objState, parsed, ready, nextAuto, batch, opts, pending,
                 launched, objBegin, dylibBegin, at, kept>>

EndDedup ==
  /\ pc = "redirect" /\ rest = <<>> /\ at = Len(kept)
  /\ dylibs' = kept
  /\ stage' = "archives"
  /\ pc' = "resolving"
  /\ UNCHANGED <<inp, cmd, members, reader, objs, dfile, libDylib,
                 nextPriority, tasks, objState, parsed, frontierVars>>

(***************************************************************************)
(* Symbol resolution loads archive members, one frontier at a time, and    *)
(* in the end erases the dylibs that are not alive.                        *)
(***************************************************************************)
LoadMember ==
  /\ pc = "resolving" /\ members # <<>>
  /\ CreateObject(Head(members))
  /\ members' = Tail(members)
  /\ objBegin' = IF pending THEN objBegin ELSE Len(objs)
  /\ dylibBegin' = IF pending THEN dylibBegin ELSE Len(dylibs)
  /\ pending' = TRUE
  /\ UNCHANGED <<inp, pc, stage, cmd, reader, dylibs, dfile, libDylib,
                 nextPriority, tasks, parsed, ready, nextAuto, batch, opts,
                 launched, walkVars>>

DrainMembers ==
  /\ pc = "resolving" /\ pending
  /\ pc' = "frontier"
  /\ UNCHANGED <<inputVars, reader, objs, dylibs, dfile, libDylib,
                 nextPriority, tasks, objState, parsed, frontierVars>>

(* std::erase_if, one dylib after the other.                               *)
StartErase ==
  /\ pc = "resolving" /\ members = <<>> /\ ~pending
  /\ pc' = "erase"
  /\ UNCHANGED <<inputVars, reader, objs, dylibs, dfile, libDylib,
                 nextPriority, tasks, objState, parsed, frontierVars>>

EraseDead ==
  /\ pc = "erase"
  /\ \E k \in 1 .. Len(dylibs) :
       /\ ~dfile[dylibs[k]].alive
       /\ \A j \in 1 .. k - 1 : dfile[dylibs[j]].alive
       /\ dylibs' = RemoveAt(dylibs, k)
  /\ UNCHANGED <<inputVars, pc, reader, objs, dfile, libDylib, nextPriority,
                 tasks, objState, parsed, frontierVars>>

EndErase ==
  /\ pc = "erase"
  /\ \A k \in 1 .. Len(dylibs) : dfile[dylibs[k]].alive
  /\ pc' = "done"
  /\ UNCHANGED <<inputVars, reader, objs, dylibs, dfile, libDylib,
                 nextPriority, tasks, objState, parsed, frontierVars>>

Finished == pc = "done" /\ UNCHANGED vars

MainStep ==
  \/ ReadItem \/ RestoreReader \/ EndOfCommandLine
  \/ TakeFrontier \/ ServeObject \/ ServeOption \/ EndOptions
  \/ LeaveOrRepeat \/ WaitForFrontier
  \/ HoistNext \/ HoistLibrary \/ EndHoisting
  \/ DedupDylib \/ RedirectNames \/ RedirectNext \/ RedirectHoisted \/ EndDedup
  \/ LoadMember \/ DrainMembers \/ StartErase \/ EraseDead \/ EndErase

ParserStep ==
  \/ \E o \in Obj : EnqueueParsed(o) \/ NotifyParsed(o)
  \/ \E t \in tasks : TakeTicket(t) \/ CreateChild(t) \/ ParseReturns(t)

Next == MainStep \/ ParserStep \/ Finished

(* The main thread blocks only on parse_cv, and the task group runs every  *)
(* parse task to its end.                                                  *)
Spec == Init /\ [][Next]_vars /\ WF_vars(MainStep) /\ WF_vars(ParserStep)

-----------------------------------------------------------------------------
(***************************************************************************)
(* Properties.                                                             *)
(***************************************************************************)
TypeOK ==
  /\ pc \in {"read", "restore", "frontier", "serve", "options", "hoist",
             "dedup", "redirect", "resolving", "erase", "done"}
  /\ reader \in Modes
  /\ objs \in Seq(Obj)
  /\ \A k \in 1 .. Len(dfile) :
       /\ dfile[k].lib \in Lib /\ dfile[k].priority \in Nat
       /\ dfile[k].weak \in BOOLEAN /\ dfile[k].alive \in BOOLEAN
       /\ Range(dfile[k].hoisted) \subseteq 1 .. Len(dfile)
  /\ Range(dylibs) \subseteq 1 .. Len(dfile)
  /\ libDylib \in [Lib -> 0 .. Len(dfile)]
  /\ objState \in [Obj -> {"none", "parsing", "queued", "parsed"}]
  /\ parsed \subseteq 1 .. Len(dfile)
  /\ ready \subseteq nextAuto .. Len(objs)
  /\ objBegin \in 0 .. Len(objs) /\ dylibBegin \in Nat
  /\ pending \in BOOLEAN /\ launched \in BOOLEAN

(* When the frontier loop is left, nothing is still on its way: every      *)
(* object read has been parsed and its linker options served, and every    *)
(* listed dylib, hoisted ones included, is parsed.                         *)
FrontierIsComplete ==
  (pc \in {"dedup", "redirect", "resolving", "erase", "done"} /\ ~pending) =>
    /\ nextAuto = Len(objs) + 1
    /\ \A k \in 1 .. Len(objs) : objState[objs[k]] = "parsed"
    /\ Range(dylibs) \subseteq parsed

(* A request for a library: on the command line, or by an object read.     *)
Requests ==
  {[file |-> c.file, needed |-> c.mode.needed] :
      c \in {c \in Range(inp.cmdline) : c.file \in Lib}}
    \cup UNION {Range(inp.autolink[o]) : o \in Range(objs)}

(* A library somebody asked to be needed stays in the link, even when the  *)
(* request came under another name or for a file seen before, or when the  *)
(* same library was also hoisted and so marked dead.                       *)
NeededStaysInLink ==
  pc = "done" =>
    \A r \in Requests : r.needed =>
      \E id \in Range(dylibs) :
        InstallName(id) = inp.installName[r.file]

NoNameTwice ==
  \A i, j \in 1 .. Len(dylibs) : SameName(dylibs[i], dylibs[j]) => i = j

(* When read_input_files returns, no install name is listed twice, however *)
(* the library was reached: by name, by a linker option or by hoisting.    *)
UniqueWhenRead ==
  (stage = "archives" /\ members = inp.members) => NoNameTwice

(* Deduplication loses no request and leaves no name twice.                *)
LibrariesAreMerged == TypeOK /\ NeededStaysInLink /\ UniqueWhenRead

(* Reading the inputs ends. *)
Terminates == <>(pc = "done")

(* The comment on dedup_dylibs_by_install_name: "ctx.dylibs must list each *)
(* install name at most once or the output repeats LC_LOAD_DYLIB".         *)
UniqueInOutput == pc = "done" => NoNameTwice

(* The order of ctx.dylibs when every parser is done before the frontier   *)
(* loop starts: requested libraries first, then hoisted ones.              *)
RequestedLibs ==
  SelectSeq([k \in 1 .. Len(inp.cmdline) |-> inp.cmdline[k].file],
            LAMBDA f : f \in Lib)
    \o FlattenSeq([k \in 1 .. Len(objs) |->
          [j \in 1 .. Len(inp.autolink[objs[k]]) |->
             inp.autolink[objs[k]][j].file]])

HoistFrom(list, k) ==
  IF k > Len(list) THEN list ELSE FoldLeft(Hoist, list, dfile[list[k]].hoisted)

UnhurriedOrder ==
  FoldLeft(HoistFrom, FoldLeft(Hoist, <<>>,
    [k \in 1 .. Len(RequestedLibs) |-> libDylib[RequestedLibs[k]]]),
    [k \in 1 .. Len(dfile) |-> k])

(* design.md: "The output from the linker should be deterministic".  The   *)
(* order of ctx.dylibs, hence of the load commands, is the same whenever   *)
(* the parse tasks finish.                                                 *)
OrderIsDeterministic ==
  (pc = "resolving" /\ members = inp.members) =>
    [k \in 1 .. Len(dylibs) |-> InstallName(dylibs[k])]
      = [k \in 1 .. Len(UnhurriedOrder) |-> InstallName(UnhurriedOrder[k])]

(* design.md again: whether a dylib is weak depends on the command line    *)
(* only.  No option made any library weak, so none is.                     *)
WeakOnlyIfAsked ==
  \A id \in 1 .. Len(dfile) : dfile[id].weak =>
    \E c \in Range(inp.cmdline) : c.mode.weak /\
      dfile[id].lib \in {c.file} \cup
        (IF c.file \in Lib THEN Range(inp.reexports[c.file]) ELSE {})

(* The comment above get_rank: "Ties are broken by file priority."  That   *)
(* needs priorities to differ.                                             *)
PrioritiesDiffer ==
  \A i, j \in 1 .. Len(dfile) :
    dfile[i].priority = dfile[j].priority => i = j
=============================================================================
