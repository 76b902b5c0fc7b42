------------------------- MODULE InputFrontierProofs -------------------------
(***************************************************************************)
(* Proofs that the frontier loop waits for everything it lists and serves  *)
(* every linker option, and that deduplication leaves each install name    *)
(* once and keeps what is needed, for any files, libraries and inputs and  *)
(* every schedule of the parse tasks.                                      *)
(***************************************************************************)
EXTENDS InputFrontier, NatFacts, TLAPS

-----------------------------------------------------------------------------
(***************************************************************************)
(* The inductive invariant.                                                *)
(***************************************************************************)
Item == [file : Obj \cup Lib, mode : Modes]
Option == [file : Lib, needed : BOOLEAN]
Dylib == [lib : Lib, priority : Nat, weak : BOOLEAN, alive : BOOLEAN,
          hoisted : Seq(Nat)]
StackFrame == [id : Nat, rest : Seq(Lib), ticket : Nat \cup {-1}]

Types ==
  /\ inp \in Inputs
  /\ pc \in {"read", "restore", "frontier", "serve", "options", "hoist",
             "dedup", "redirect", "resolving", "erase", "done"}
  /\ stage \in {"inputs", "archives"}
  /\ cmd \in Seq(Item) /\ members \in Seq(Obj)
  /\ reader \in Modes
  /\ objs \in Seq(Obj)
  /\ dylibs \in Seq(Nat) /\ dfile \in Seq(Dylib)
  /\ libDylib \in [Lib -> Nat]
  /\ nextPriority \in Nat
  /\ tasks \subseteq Seq(StackFrame)
  /\ objState \in [Obj -> {"none", "parsing", "queued", "parsed"}]
  /\ nextAuto \in Nat \ {0}
  /\ batch \in Seq(Obj) /\ opts \in Seq(Option)
  /\ pending \in BOOLEAN /\ launched \in BOOLEAN
  /\ objBegin \in Nat /\ dylibBegin \in Nat
  /\ at \in Nat /\ rest \in Seq(Nat) /\ kept \in Seq(Nat)

In(x, s) == \E k \in 1 .. Len(s) : s[k] = x
Distinct(s) == \A i, j \in 1 .. Len(s) : s[i] = s[j] => i = j

(* The command line and the members are read from left to right, and the   *)
(* objects are what was read of them.                                      *)
CmdRead == Len(inp.cmdline) - Len(cmd)
MembersRead == Len(inp.members) - Len(members)

InputsRead ==
  /\ CmdRead \in Nat /\ MembersRead \in Nat
  /\ \A k \in 1 .. Len(cmd) : cmd[k] = inp.cmdline[CmdRead + k]
  /\ \A k \in 1 .. Len(members) : members[k] = inp.members[MembersRead + k]
  /\ pc \notin {"read", "restore"} => cmd = <<>>
  /\ \A k \in 1 .. Len(objs) :
       \/ \E j \in 1 .. CmdRead : inp.cmdline[j].file = objs[k]
       \/ \E j \in 1 .. MembersRead : inp.members[j] = objs[k]
  /\ Distinct(objs)

(* An object that is queued or parsed is ready or was taken. *)
Queue ==
  /\ nextAuto <= Len(objs) + 1
  /\ ready \subseteq nextAuto .. Len(objs)
  /\ \A k \in 1 .. Len(objs) :
       objState[objs[k]] \in {"queued", "parsed"} <=> k \in ready \/ k < nextAuto
  /\ \A o \in Obj : objState[o] # "none" => In(o, objs)

(* Ids are those of files; what is hoisted is parsed. *)
Ids ==
  /\ \A k \in 1 .. Len(dylibs) : dylibs[k] \in 1 .. Len(dfile)
  /\ Distinct(dylibs)
  /\ parsed \subseteq 1 .. Len(dfile)
  /\ \A k \in 1 .. Len(dfile) : \A j \in 1 .. Len(dfile[k].hoisted) :
       dfile[k].hoisted[j] \in parsed
  /\ \A j \in 1 .. Len(rest) : rest[j] \in parsed

(* A parse task works for a listed dylib, which is not parsed yet; the     *)
(* children on its stack are not listed.                                   *)
Root(t) == t[Len(t)].id

Running ==
  /\ \A t \in tasks :
       /\ t # <<>>
       /\ \A i \in 1 .. Len(t) : t[i].id \in 1 .. Len(dfile)
       /\ In(Root(t), dylibs) /\ Root(t) \notin parsed
       /\ \A i \in 1 .. Len(t) - 1 : ~In(t[i].id, dylibs)
  /\ \A t, u \in tasks : Root(t) = Root(u) => t = u

(* What the loop has waited for is parsed; after a wait, and outside of    *)
(* the loop, everything is.                                                *)
ObjsParsed == \A k \in 1 .. Len(objs) : objState[objs[k]] = "parsed"
DylibsParsed == \A k \in 1 .. Len(dylibs) : dylibs[k] \in parsed
Left == pc \in {"dedup", "redirect", "erase", "done"} \/ (pc = "resolving" /\ ~pending)

Waited ==
  /\ objBegin <= Len(objs)
  /\ \A k \in 1 .. objBegin : objState[objs[k]] = "parsed"
  /\ pc \in {"read", "restore"} => dylibBegin = 0
  /\ pc \in {"read", "restore", "frontier", "serve", "options"} =>
       /\ dylibBegin <= Len(dylibs)
       /\ \A k \in 1 .. dylibBegin : dylibs[k] \in parsed
  /\ pc \in {"hoist", "dedup", "redirect", "resolving", "erase", "done"} =>
       DylibsParsed /\ tasks = {}
  /\ pc = "resolving" /\ pending => dylibBegin <= Len(dylibs)
  /\ pc = "hoist" \/ Left => ObjsParsed
  /\ pc \in {"serve", "options"} /\ objBegin = Len(objs) => nextAuto = Len(objs) + 1
  /\ Left => nextAuto = Len(objs) + 1
  /\ pc \in {"dedup", "redirect"} => ~pending

(* Requests for libraries: those of the part of the command line that was  *)
(* read and of the objects that were served are met.                       *)
Met(l, needed) == libDylib[l] # 0 /\ (needed => dfile[libDylib[l]].alive)

Taken == nextAuto - Len(batch) - (IF pc = "options" THEN 1 ELSE 0)
Serving == inp.autolink[objs[Taken]]

RequestsMet ==
  /\ \A j \in 1 .. CmdRead :
       inp.cmdline[j].file \in Lib => Met(inp.cmdline[j].file, inp.cmdline[j].mode.needed)
  /\ Taken \in Nat \ {0}
  /\ \A k \in 1 .. Taken - 1 : \A j \in 1 .. Len(inp.autolink[objs[k]]) :
       Met(inp.autolink[objs[k]][j].file, inp.autolink[objs[k]][j].needed)
  /\ \A k \in 1 .. Len(batch) : batch[k] = objs[nextAuto - Len(batch) - 1 + k]
  /\ pc \notin {"serve", "options"} => batch = <<>>
  /\ pc = "options" =>
       /\ Len(Serving) - Len(opts) \in Nat
       /\ \A k \in 1 .. Len(opts) : opts[k] = Serving[Len(Serving) - Len(opts) + k]
       /\ \A j \in 1 .. Len(Serving) - Len(opts) : Met(Serving[j].file, Serving[j].needed)

(* The dylib behind a name: it has the install name, and is listed unless  *)
(* it was erased.                                                          *)
Names ==
  \A l \in Lib : libDylib[l] # 0 =>
    /\ libDylib[l] \in 1 .. Len(dfile)
    /\ inp.installName[dfile[libDylib[l]].lib] = inp.installName[l]
    /\ pc \in {"erase", "done"} /\ dfile[libDylib[l]].alive => In(libDylib[l], dylibs)
    /\ pc \notin {"erase", "done"} => In(libDylib[l], dylibs)
    /\ pc = "redirect" => In(libDylib[l], kept)

(* The walks over the dylibs. *)
Walks ==
  /\ pc = "hoist" => at <= Len(dylibs)
  /\ pc \in {"dedup", "redirect"} =>
       /\ \A i, j \in 1 .. Len(kept) : SameName(kept[i], kept[j]) => i = j
       /\ \A k \in 1 .. Len(kept) : In(kept[k], dylibs)
  /\ pc = "dedup" =>
       /\ at <= Len(dylibs) /\ rest = <<>>
       /\ \A k \in 1 .. Len(kept) : \E j \in 1 .. at : kept[k] = dylibs[j]
       /\ \A j \in 1 .. at : \E k \in 1 .. Len(kept) :
            /\ SameName(kept[k], dylibs[j])
            /\ dfile[dylibs[j]].alive => dfile[kept[k]].alive
  /\ pc = "redirect" => at <= Len(kept) /\ (rest # <<>> => at # 0)

(* Until a member is loaded the list is as deduplication left it. *)
Unique ==
  /\ stage = "archives" /\ MembersRead = 0 =>
       pc \in {"resolving", "erase", "done"} /\ ~pending /\ NoNameTwice

IInv ==
  /\ Types /\ InputsRead /\ Queue /\ Ids /\ Running /\ Waited /\ RequestsMet
  /\ Names /\ Walks /\ Unique

-----------------------------------------------------------------------------
(***************************************************************************)
(* Facts about the inputs and the operators.                               *)
(***************************************************************************)
(* The fields of an input. *)
LEMMA InputFacts ==
  ASSUME inp \in Inputs
  PROVE  /\ inp.cmdline \in Seq(Item) /\ inp.members \in Seq(Obj)
         /\ inp.autolink \in [Obj -> Seq(Option)]
         /\ inp.installName \in [Lib -> Name] /\ inp.reexports \in [Lib -> Seq(Lib)]
         /\ \A j, k \in 1 .. Len(inp.cmdline) :
              inp.cmdline[j].file = inp.cmdline[k].file => j = k \/ inp.cmdline[j].file \in Lib
         /\ \A j, k \in 1 .. Len(inp.members) : inp.members[j] = inp.members[k] => j = k
         /\ \A j \in 1 .. Len(inp.cmdline), k \in 1 .. Len(inp.members) :
              inp.cmdline[j].file # inp.members[k]
<1>1. IsInput(inp)
  BY InputsAssumption
<1> QED
  BY <1>1 DEF IsInput, Item, Option

(* Members of the range of a sequence. *)
LEMMA InRange ==
  ASSUME NEW S, NEW s \in Seq(S)
  PROVE  /\ \A k \in 1 .. Len(s) : s[k] \in S
         /\ Len(s) \in Nat
         /\ \A x : x \in Range(s) <=> In(x, s)
BY DEF Range, In

LEMMA HeadTail ==
  ASSUME NEW S, NEW s \in Seq(S), s # <<>>
  PROVE  /\ Head(s) \in S /\ Tail(s) \in Seq(S) /\ Len(s) \in Nat \ {0}
         /\ Head(s) = s[1] /\ Len(Tail(s)) = Len(s) - 1
         /\ \A k \in 1 .. Len(s) - 1 : Tail(s)[k] = s[k + 1]
OBVIOUS

(* One more element. *)
LEMMA Appended ==
  ASSUME NEW S, NEW s \in Seq(S), NEW x \in S
  PROVE  /\ Append(s, x) \in Seq(S) /\ Len(s) \in Nat /\ Len(Append(s, x)) = Len(s) + 1
         /\ \A k \in 1 .. Len(s) : Append(s, x)[k] = s[k]
         /\ Append(s, x)[Len(s) + 1] = x
OBVIOUS

LEMMA AppendedTo ==
  ASSUME NEW S, NEW s \in Seq(S), NEW x \in S
  PROVE  /\ \A y : In(y, Append(s, x)) <=> In(y, s) \/ y = x
         /\ Distinct(s) /\ ~In(x, s) => Distinct(Append(s, x))
<1> DEFINE t == Append(s, x)
<1>1. /\ Len(s) \in Nat /\ Len(t) = Len(s) + 1
      /\ \A k \in 1 .. Len(s) : t[k] = s[k]
      /\ t[Len(s) + 1] = x
  BY Appended
<1> HIDE DEF t
<1>2. \A k \in 1 .. Len(t) : k \in 1 .. Len(s) \/ k = Len(s) + 1
  BY <1>1
<1>3. 1 .. Len(s) \subseteq 1 .. Len(t) /\ Len(s) + 1 \in 1 .. Len(t)
  BY <1>1
<1>4. ASSUME NEW y PROVE In(y, t) <=> In(y, s) \/ y = x
  BY <1>1, <1>2, <1>3 DEF In
<1>5. ASSUME Distinct(s), ~In(x, s), NEW i \in 1 .. Len(t), NEW j \in 1 .. Len(t), t[i] = t[j]
      PROVE  i = j
  BY <1>1, <1>2, <1>5 DEF In, Distinct
<1> QED
  BY <1>4, <1>5 DEF t, Distinct

(* The kind of dylib that is created. *)
LEMMA NewDylibType ==
  ASSUME NEW l \in Lib, NEW mode \in Modes, NEW prio \in Nat
  PROVE  /\ NewDylib(l, mode, prio) \in Dylib
         /\ NewDylib(l, mode, prio).lib = l /\ NewDylib(l, mode, prio).hoisted = <<>>
         /\ mode.needed => NewDylib(l, mode, prio).alive
<1>1. <<>> \in Seq(Nat)
  OBVIOUS
<1> QED
  BY <1>1 DEF NewDylib, Dylib, Modes

(* read_library: a name that was seen keeps its dylib, which may become    *)
(* needed; another one gets a new dylib and a parse task for it.           *)
Seen(l, mode) ==
  /\ libDylib[l] # 0
  /\ dfile' = [dfile EXCEPT ![libDylib[l]].alive = @ \/ mode.needed]
  /\ UNCHANGED <<dylibs, libDylib, nextPriority, tasks>>

Created(l, mode) ==
  /\ libDylib[l] = 0
  /\ dfile' = Append(dfile, NewDylib(l, mode, nextPriority))
  /\ nextPriority' = nextPriority + 1
  /\ dylibs' = Append(dylibs, Len(dfile) + 1)
  /\ libDylib' = [libDylib EXCEPT ![l] = Len(dfile) + 1]
  /\ tasks' = tasks \cup {<<Frame(Len(dfile) + 1, l)>>}

LEMMA ReadCases ==
  ASSUME NEW l, NEW mode, ReadLibrary(l, mode)
  PROVE  Seen(l, mode) \/ Created(l, mode)
BY DEF ReadLibrary, Seen, Created

(* Changing an element of a sequence, or one field of a dylib. *)
LEMMA ElementChanged ==
  ASSUME NEW S, NEW s \in Seq(S), NEW k \in 1 .. Len(s), NEW x \in S
  PROVE  LET new == [s EXCEPT ![k] = x] IN
         /\ new \in Seq(S) /\ Len(new) = Len(s) /\ new[k] = x
         /\ \A i \in 1 .. Len(s) : i # k => new[i] = s[i]
OBVIOUS

LEMMA AliveChanged ==
  ASSUME dfile \in Seq(Dylib), NEW k \in 1 .. Len(dfile), NEW v \in BOOLEAN,
         NEW new, new = [dfile EXCEPT ![k].alive = v]
  PROVE  /\ new \in Seq(Dylib) /\ Len(new) = Len(dfile)
         /\ \A i \in 1 .. Len(dfile) :
              new[i].lib = dfile[i].lib /\ new[i].hoisted = dfile[i].hoisted
         /\ \A i \in 1 .. Len(dfile) : i # k => new[i] = dfile[i]
         /\ new[k].alive = v
<1> DEFINE r == [dfile[k] EXCEPT !.alive = v]
<1>1. dfile[k] \in Dylib
  OBVIOUS
<1>2. r \in Dylib /\ r.lib = dfile[k].lib /\ r.hoisted = dfile[k].hoisted /\ r.alive = v
  BY <1>1 DEF Dylib
<1>3. new = [dfile EXCEPT ![k] = r]
  OBVIOUS
<1> HIDE DEF r
<1>4. /\ new \in Seq(Dylib) /\ Len(new) = Len(dfile) /\ new[k] = r
      /\ \A i \in 1 .. Len(dfile) : i # k => new[i] = dfile[i]
  BY <1>2, <1>3, ElementChanged
<1> QED
  BY <1>2, <1>4

LEMMA HoistedChanged ==
  ASSUME dfile \in Seq(Dylib), NEW k \in 1 .. Len(dfile), NEW v \in Seq(Nat),
         NEW new, new = [dfile EXCEPT ![k].hoisted = v]
  PROVE  /\ new \in Seq(Dylib) /\ Len(new) = Len(dfile)
         /\ \A i \in 1 .. Len(dfile) :
              new[i].lib = dfile[i].lib /\ new[i].alive = dfile[i].alive
         /\ \A i \in 1 .. Len(dfile) : i # k => new[i] = dfile[i]
         /\ new[k].hoisted = v
<1> DEFINE r == [dfile[k] EXCEPT !.hoisted = v]
<1>1. dfile[k] \in Dylib
  OBVIOUS
<1>2. r \in Dylib /\ r.lib = dfile[k].lib /\ r.alive = dfile[k].alive /\ r.hoisted = v
  BY <1>1 DEF Dylib
<1>3. new = [dfile EXCEPT ![k] = r]
  OBVIOUS
<1> HIDE DEF r
<1>4. /\ new \in Seq(Dylib) /\ Len(new) = Len(dfile) /\ new[k] = r
      /\ \A i \in 1 .. Len(dfile) : i # k => new[i] = dfile[i]
  BY <1>2, <1>3, ElementChanged
<1> QED
  BY <1>2, <1>4

LEMMA RecordChanged ==
  ASSUME NEW r \in Dylib, NEW v \in Seq(Nat)
  PROVE  LET new == [r EXCEPT !.hoisted = v]
         IN  new \in Dylib /\ new.lib = r.lib /\ new.alive = r.alive /\ new.hoisted = v
BY DEF Dylib

(* The dylib that stands for others, and what a name leads to. *)
LEMMA SameNameFacts ==
  ASSUME NEW i, NEW j, NEW k, SameName(i, j)
  PROVE  /\ SameName(j, i)
         /\ SameName(j, k) => SameName(i, k)
         /\ InstallName(i) = InstallName(j)
BY DEF SameName, InstallName

LEMMA CanonicalFacts ==
  ASSUME kept \in Seq(Nat), NEW id
  PROVE  \/ Canonical(id) = id /\ ~Listed(kept, id)
         \/ \E k \in 1 .. Len(kept) : Canonical(id) = kept[k] /\ SameName(kept[k], id)
<1>1. CASE Listed(kept, id)
  <2>1. \E x \in Range(kept) : SameName(x, id)
    BY <1>1 DEF Listed, Range
  <2>2. Canonical(id) \in Range(kept) /\ SameName(Canonical(id), id)
    BY <1>1, <2>1 DEF Canonical
  <2> QED
    BY <2>2, InRange DEF In
<1>2. CASE ~Listed(kept, id)
  BY <1>2 DEF Canonical
<1> QED
  BY <1>1, <1>2

(* Where the run of ready objects ends. *)
LEMMA ReadyEndFacts ==
  ASSUME Types, Queue
  PROVE  /\ ReadyEnd \in nextAuto .. Len(objs) + 1
         /\ ReadyEnd \notin ready /\ nextAuto .. ReadyEnd - 1 \subseteq ready
<1> DEFINE T == {k \in nextAuto .. Len(objs) + 1 : k \notin ready}
<1>1. nextAuto \in Nat /\ Len(objs) \in Nat /\ nextAuto <= Len(objs) + 1
  BY DEF Types, Queue
<1>2. Len(objs) + 1 \in T
  BY <1>1 DEF Queue
<1>3. T \in SUBSET Nat /\ T # {}
  BY <1>1, <1>2
<1>4. PICK m \in T : \A k \in T : m <= k
  BY <1>3, LeastNatural
<1>5. nextAuto .. m - 1 \subseteq ready
  BY <1>1, <1>4
<1> QED
  BY <1>4, <1>5 DEF ReadyEnd

-----------------------------------------------------------------------------
(***************************************************************************)
(* Types.                                                                  *)
(***************************************************************************)
LEMMA ReadTypes ==
  ASSUME Types, Names, NEW l \in Lib, NEW mode \in Modes, ReadLibrary(l, mode)
  PROVE  /\ dfile' \in Seq(Dylib) /\ dylibs' \in Seq(Nat)
         /\ libDylib' \in [Lib -> Nat] /\ nextPriority' \in Nat
         /\ tasks' \subseteq Seq(StackFrame)
<1>1. CASE Seen(l, mode)
  <2>1. libDylib[l] \in 1 .. Len(dfile)
    BY <1>1 DEF Names, Seen
  <2>3. (dfile[libDylib[l]].alive \/ mode.needed) \in BOOLEAN
    OBVIOUS
  <2>4. dfile' = [dfile EXCEPT ![libDylib[l]].alive = dfile[libDylib[l]].alive \/ mode.needed]
    BY <1>1 DEF Seen
  <2>5. dfile' \in Seq(Dylib)
    BY <2>1, <2>3, <2>4, AliveChanged DEF Types
  <2> QED
    BY <1>1, <2>5 DEF Seen, Types
<1>2. CASE Created(l, mode)
  <2>1. NewDylib(l, mode, nextPriority) \in Dylib
    BY NewDylibType DEF Types
  <2>2. Len(dfile) + 1 \in Nat /\ inp.reexports[l] \in Seq(Lib)
    BY InputFacts DEF Types
  <2>3. Frame(Len(dfile) + 1, l) \in StackFrame
    BY <2>2 DEF Frame, StackFrame
  <2>4. <<Frame(Len(dfile) + 1, l)>> \in Seq(StackFrame)
    BY <2>3
  <2>5. tasks' \subseteq Seq(StackFrame)
    BY <1>2, <2>4 DEF Types, Created
  <2>6. dfile' \in Seq(Dylib) /\ dylibs' \in Seq(Nat)
    BY <1>2, <2>1, <2>2 DEF Types, Created
  <2>7. libDylib' \in [Lib -> Nat] /\ nextPriority' \in Nat
    BY <1>2, <2>2 DEF Types, Created
  <2> QED
    BY <2>5, <2>6, <2>7
<1> QED
  BY <1>1, <1>2, ReadCases

(* What types say of lengths and elements. *)
LEMMA Lengths ==
  ASSUME Types
  PROVE  /\ Len(dfile) \in Nat /\ Len(dylibs) \in Nat /\ Len(objs) \in Nat
         /\ Len(rest) \in Nat /\ Len(kept) \in Nat /\ Len(cmd) \in Nat
         /\ Len(members) \in Nat /\ Len(batch) \in Nat /\ Len(opts) \in Nat
         /\ at \in Nat /\ nextAuto \in Nat /\ objBegin \in Nat /\ dylibBegin \in Nat
         /\ \A k \in 1 .. Len(dylibs) : dylibs[k] \in Nat
         /\ \A k \in 1 .. Len(kept) : kept[k] \in Nat
         /\ \A k \in 1 .. Len(rest) : rest[k] \in Nat
         /\ \A k \in 1 .. Len(objs) : objs[k] \in Obj
<1>1. /\ dfile \in Seq(Dylib) /\ dylibs \in Seq(Nat) /\ objs \in Seq(Obj)
      /\ rest \in Seq(Nat) /\ kept \in Seq(Nat) /\ cmd \in Seq(Item)
      /\ members \in Seq(Obj) /\ batch \in Seq(Obj) /\ opts \in Seq(Option)
      /\ at \in Nat /\ nextAuto \in Nat /\ objBegin \in Nat /\ dylibBegin \in Nat
  BY DEF Types
<1>2. /\ Len(dfile) \in Nat /\ Len(dylibs) \in Nat /\ Len(objs) \in Nat
      /\ Len(rest) \in Nat /\ Len(kept) \in Nat /\ Len(cmd) \in Nat
      /\ Len(members) \in Nat /\ Len(batch) \in Nat /\ Len(opts) \in Nat
  BY <1>1
<1>3. \A S : \A s \in Seq(S) : \A k \in 1 .. Len(s) : s[k] \in S
  OBVIOUS
<1>4. /\ \A k \in 1 .. Len(dylibs) : dylibs[k] \in Nat
      /\ \A k \in 1 .. Len(kept) : kept[k] \in Nat
      /\ \A k \in 1 .. Len(rest) : rest[k] \in Nat
      /\ \A k \in 1 .. Len(objs) : objs[k] \in Obj
  <2>1. dylibs \in Seq(Nat) /\ kept \in Seq(Nat) /\ rest \in Seq(Nat) /\ objs \in Seq(Obj)
    BY <1>1
  <2> QED
    BY <2>1, <1>3
<1> QED
  BY <1>1, <1>2, <1>3, <1>4

(* What is kept is listed. *)
LEMMA KeptIds ==
  ASSUME Ids, Walks, pc \in {"dedup", "redirect"}, NEW k \in 1 .. Len(kept)
  PROVE  kept[k] \in 1 .. Len(dfile)
<1>1. PICK j \in 1 .. Len(dylibs) : dylibs[j] = kept[k]
  BY DEF Walks, In
<1> QED
  BY <1>1 DEF Ids

LEMMA DylibFields ==
  ASSUME Types, NEW k \in 1 .. Len(dfile)
  PROVE  /\ dfile[k] \in Dylib /\ dfile[k].lib \in Lib
         /\ dfile[k].hoisted \in Seq(Nat) /\ Len(dfile[k].hoisted) \in Nat
<1>1. dfile[k] \in Dylib
  BY DEF Types
<1> QED
  BY <1>1 DEF Dylib

LEMMA CanonicalType ==
  ASSUME Types, NEW id \in Nat
  PROVE  Canonical(id) \in Nat /\ Redirect(id) \in Nat
<1>1. kept \in Seq(Nat) /\ \A k \in 1 .. Len(kept) : kept[k] \in Nat
  BY DEF Types
<1>2. Canonical(id) \in Nat
  BY <1>1, CanonicalFacts
<1> QED
  BY <1>2 DEF Redirect

LEMMA Erased ==
  ASSUME NEW S, NEW s \in Seq(S), NEW k \in 1 .. Len(s)
  PROVE  /\ RemoveAt(s, k) \in Seq(S) /\ Len(s) \in Nat \ {0}
         /\ Len(RemoveAt(s, k)) = Len(s) - 1
         /\ \A i \in 1 .. Len(s) - 1 :
              RemoveAt(s, k)[i] = IF i < k THEN s[i] ELSE s[i + 1]
<1> DEFINE u == SubSeq(s, 1, k - 1)
           v == SubSeq(s, k + 1, Len(s))
<1>1. Len(s) \in Nat \ {0} /\ k \in Nat \ {0} /\ k <= Len(s)
  OBVIOUS
<1>2. u \in Seq(S) /\ Len(u) = k - 1 /\ \A i \in 1 .. k - 1 : u[i] = s[i]
  BY <1>1
<1>3. v \in Seq(S) /\ Len(v) = Len(s) - k /\ \A i \in 1 .. Len(s) - k : v[i] = s[k + i]
  BY <1>1
<1>4. RemoveAt(s, k) = u \o v
  BY DEF RemoveAt
<1> HIDE DEF u, v
<1>5. /\ u \o v \in Seq(S) /\ Len(u \o v) = Len(s) - 1
      /\ \A i \in 1 .. Len(s) - 1 : (u \o v)[i] = IF i < k THEN u[i] ELSE v[i - (k - 1)]
  BY <1>1, <1>2, <1>3
<1>6. ASSUME NEW i \in 1 .. Len(s) - 1
      PROVE  (u \o v)[i] = IF i < k THEN s[i] ELSE s[i + 1]
  <2>1. CASE i < k
    BY <1>1, <1>2, <1>5, <2>1
  <2>2. CASE ~(i < k)
    <3>1. i - (k - 1) \in 1 .. Len(s) - k /\ k + (i - (k - 1)) = i + 1
      BY <1>1, <2>2
    <3> QED
      BY <1>3, <1>5, <2>2, <3>1
  <2> QED
    BY <2>1, <2>2
<1> QED
  BY <1>1, <1>4, <1>5, <1>6

(* The input stays. *)
LEMMA InputKept ==
  ASSUME [Next]_vars
  PROVE  inp' = inp
BY DEF vars, Next, MainStep, ParserStep, Finished, ReadItem, RestoreReader, EndOfCommandLine,
   TakeFrontier, ServeObject, ServeOption, EndOptions, LeaveOrRepeat, WaitForFrontier,
   HoistNext, HoistLibrary, EndHoisting, DedupDylib, RedirectNames, RedirectNext,
   RedirectHoisted, EndDedup, LoadMember, DrainMembers, StartErase, EraseDead, EndErase,
   EnqueueParsed, NotifyParsed, TakeTicket, CreateChild, ParseReturns, inputVars

(* The actions one by one. *)
LEMMA TypesMain ==
  ASSUME Types, InputsRead, Queue, Ids, Names, RequestsMet, Walks, MainStep
  PROVE  Types'
<1> USE DEF inputVars, frontierVars, walkVars
<1>0. /\ Len(dfile) \in Nat /\ Len(dylibs) \in Nat /\ Len(objs) \in Nat
      /\ <<>> \in Seq(Nat)
  BY Lengths
<1>1. CASE ReadItem
  <2>1. /\ Head(cmd) \in Item /\ Tail(cmd) \in Seq(Item)
        /\ reader' = Head(cmd).mode /\ cmd' = Tail(cmd)
    BY <1>1, HeadTail DEF ReadItem, Types
  <2>2. reader' \in Modes
    BY <2>1 DEF Item
  <2>3. CASE Head(cmd).file \in Obj
    <3>1. /\ objs' = Append(objs, Head(cmd).file)
          /\ objState' = [objState EXCEPT ![Head(cmd).file] = "parsing"]
      BY <1>1, <2>3 DEF ReadItem, CreateObject
    <3>2. objs' \in Seq(Obj)
      BY <3>1, <2>3 DEF Types
    <3>3. objState' \in [Obj -> {"none", "parsing", "queued", "parsed"}]
      BY <3>1, <2>3 DEF Types
    <3> QED
      BY <1>1, <2>1, <2>2, <2>3, <3>2, <3>3 DEF ReadItem, Types
  <2>4. CASE Head(cmd).file \notin Obj
    <3>1. Head(cmd).file \in Lib /\ Head(cmd).mode \in Modes
      BY <2>1, <2>4 DEF Item
    <3>2. ReadLibrary(Head(cmd).file, Head(cmd).mode)
      BY <1>1, <2>4 DEF ReadItem
    <3>3. /\ dfile' \in Seq(Dylib) /\ dylibs' \in Seq(Nat)
          /\ libDylib' \in [Lib -> Nat] /\ nextPriority' \in Nat
          /\ tasks' \subseteq Seq(StackFrame)
      BY <3>1, <3>2, ReadTypes
    <3> QED
      BY <1>1, <2>1, <2>2, <2>4, <3>3 DEF ReadItem, Types
  <2> QED
    BY <2>3, <2>4
<1>2. CASE RestoreReader \/ EndOfCommandLine \/ DrainMembers \/ StartErase \/ EndErase \/ EndOptions
  <2>1. Plain \in Modes
    BY DEF Plain, Modes
  <2> QED
    BY <1>2, <2>1 DEF RestoreReader, EndOfCommandLine, DrainMembers, StartErase, EndErase,
       EndOptions, Types
<1>3. CASE TakeFrontier
  <2>1. ReadyEnd \in Nat \ {0} /\ ReadyEnd <= Len(objs) + 1
    BY <1>0, ReadyEndFacts DEF Types
  <2>2. SubSeq(objs, nextAuto, ReadyEnd - 1) \in Seq(Obj)
    BY <2>1 DEF Types
  <2> QED
    BY <1>3, <2>1, <2>2 DEF TakeFrontier, Types
<1>4. CASE ServeObject
  <2>1. Head(batch) \in Obj /\ Tail(batch) \in Seq(Obj)
    BY <1>4, HeadTail DEF ServeObject, Types
  <2>2. inp.autolink[Head(batch)] \in Seq(Option)
    BY <2>1, InputFacts DEF Types
  <2> QED
    BY <1>4, <2>1, <2>2 DEF ServeObject, Types
<1>5. CASE ServeOption
  <2>1. Head(opts) \in Option /\ Tail(opts) \in Seq(Option)
    BY <1>5, HeadTail DEF ServeOption, Types
  <2>2. Head(opts).file \in Lib /\ reader' \in Modes
    BY <1>5, <2>1 DEF ServeOption, Option, Plain, Modes
  <2>3. /\ dfile' \in Seq(Dylib) /\ dylibs' \in Seq(Nat)
        /\ libDylib' \in [Lib -> Nat] /\ nextPriority' \in Nat
        /\ tasks' \subseteq Seq(StackFrame)
    BY <1>5, <2>2, ReadTypes DEF ServeOption
  <2>4. launched' \in BOOLEAN
    BY <1>5 DEF ServeOption, Types
  <2> QED
    BY <1>5, <2>1, <2>2, <2>3, <2>4 DEF ServeOption, Types
<1>6. CASE LeaveOrRepeat \/ WaitForFrontier \/ EndHoisting
  <2>1. CASE LeaveOrRepeat
    <3>1. pc' \in {"frontier", "dedup", "resolving"} /\ at' = 0 /\ rest' = <<>> /\ kept' = <<>>
      BY <2>1 DEF LeaveOrRepeat
    <3>2. at' \in Nat /\ rest' \in Seq(Nat) /\ kept' \in Seq(Nat) /\ pending' \in BOOLEAN
      BY <2>1, <1>0 DEF LeaveOrRepeat
    <3> HIDE DEF walkVars
    <3> QED
      BY <2>1, <3>1, <3>2 DEF LeaveOrRepeat, Types
  <2>2. CASE WaitForFrontier
    <3>1. at' = 0 /\ rest' = <<>>
      BY <2>2 DEF WaitForFrontier
    <3> QED
      BY <2>2, <3>1, <1>0 DEF WaitForFrontier, Types
  <2>3. CASE EndHoisting
    BY <2>3, <1>0 DEF EndHoisting, Types
  <2> QED
    BY <1>6, <2>1, <2>2, <2>3
<1>7. CASE HoistNext
  <2>1. dylibs[at + 1] \in 1 .. Len(dfile)
    BY SMTT(30), <1>7, Lengths DEF HoistNext, Ids
  <2>2. rest' \in Seq(Nat) /\ at' \in Nat
    BY SMTT(30), <1>7, <2>1, DylibFields, Lengths DEF HoistNext
  <2> QED
    BY <1>7, <2>2 DEF HoistNext, Types
<1>8. CASE HoistLibrary
  <2>1. Head(rest) \in Nat /\ Tail(rest) \in Seq(Nat)
    BY <1>8, HeadTail DEF HoistLibrary, Types
  <2>2. Hoist(dylibs, Head(rest)) \in Seq(Nat)
    BY <2>1 DEF Hoist, Types
  <2> QED
    BY <1>8, <2>1, <2>2 DEF HoistLibrary, Types
<1>9. CASE DedupDylib
  <2> DEFINE id == dylibs[at + 1]
  <2>1. id \in Nat /\ id \in 1 .. Len(dfile)
    BY SMTT(30), <1>9, Lengths DEF DedupDylib, Ids
  <2>2. Canonical(id) \in 1 .. Len(dfile)
    <3>1. \A k \in 1 .. Len(kept) : kept[k] \in 1 .. Len(dfile)
      BY <1>9, KeptIds DEF DedupDylib
    <3> HIDE DEF id
    <3> QED
      BY <2>1, <3>1, CanonicalFacts DEF Types
  <2> DEFINE alive == dfile[Canonical(id)].alive \/ dfile[id].alive
             weak == dfile[Canonical(id)].weak /\ dfile[id].weak
             new == [dfile EXCEPT ![Canonical(id)] =
                       [dfile[Canonical(id)] EXCEPT !.alive = alive, !.weak = weak]]
  <2>3. dfile' = new /\ kept' \in {kept, Append(kept, id)}
    BY <1>9 DEF DedupDylib
  <2>4. alive \in BOOLEAN /\ weak \in BOOLEAN /\ dfile[Canonical(id)] \in Dylib
    BY <2>2 DEF Types
  <2>5. [dfile[Canonical(id)] EXCEPT !.alive = alive, !.weak = weak] \in Dylib
    <3> HIDE DEF alive, weak, id
    <3> QED
      BY <2>4 DEF Dylib
  <2>6. new \in Seq(Dylib)
    BY <2>2, <2>5, ElementChanged DEF Types
  <2>7. kept' \in Seq(Nat)
    <3> HIDE DEF id
    <3>1. Append(kept, id) \in Seq(Nat) /\ kept \in Seq(Nat)
      BY <2>1 DEF Types
    <3> QED
      BY <2>3, <3>1
  <2>8. at' \in Nat
    BY SMTT(30), <1>9, Lengths DEF DedupDylib
  <2> HIDE DEF new, id
  <2> QED
    BY <1>9, <2>3, <2>6, <2>7, <2>8 DEF DedupDylib, Types
<1>10. CASE RedirectNames
  <2>1. ASSUME NEW l \in Lib, libDylib[l] # 0 PROVE Redirect(libDylib[l]) \in Nat
    <3>1. libDylib[l] \in Nat
      BY DEF Types
    <3> QED
      BY <3>1, CanonicalType
  <2>2. libDylib' \in [Lib -> Nat]
    BY <1>10, <2>1 DEF RedirectNames
  <2> QED
    BY <1>10, <2>2 DEF RedirectNames, Types
<1>11. CASE RedirectNext
  <2>1. kept[at + 1] \in 1 .. Len(dfile)
    <3>1. at + 1 \in 1 .. Len(kept)
      BY <1>11, Lengths DEF RedirectNext
    <3> QED
      BY <1>11, <3>1, KeptIds DEF RedirectNext
  <2>2. rest' \in Seq(Nat) /\ at' \in Nat
    BY SMTT(30), <1>11, <2>1, DylibFields, Lengths DEF RedirectNext
  <2>3. dfile' \in Seq(Dylib)
    BY <1>11, <1>0, <2>1, HoistedChanged DEF RedirectNext, Types
  <2> QED
    BY <1>11, <2>2, <2>3 DEF RedirectNext, Types
<1>12. CASE RedirectHoisted
  <2>1. Head(rest) \in Nat /\ Tail(rest) \in Seq(Nat)
    BY <1>12, HeadTail DEF RedirectHoisted, Types
  <2>2. Redirect(Head(rest)) \in Nat
    BY <2>1, CanonicalType
  <2>3. at \in 1 .. Len(kept)
    <3>1. pc = "redirect" /\ rest # <<>>
      BY <1>12 DEF RedirectHoisted
    <3>2. at <= Len(kept) /\ at # 0
      BY <3>1 DEF Walks
    <3>3. at \in Nat /\ Len(kept) \in Nat
      BY Lengths
    <3> QED
      BY <3>2, <3>3
  <2>4. kept[at] \in 1 .. Len(dfile)
    BY <1>12, <2>3, KeptIds DEF RedirectHoisted
  <2> DEFINE old == dfile[kept[at]].hoisted
             list == IF Redirect(Head(rest)) \in Range(old) THEN old
                     ELSE Append(old, Redirect(Head(rest)))
  <2>5. old \in Seq(Nat)
    BY <2>4, DylibFields
  <2>6. list \in Seq(Nat)
    BY <2>2, <2>5
  <2>7. dfile' = [dfile EXCEPT ![kept[at]].hoisted = list]
    BY <1>12 DEF RedirectHoisted
  <2>8. dfile' \in Seq(Dylib)
    <3> HIDE DEF list
    <3> QED
      BY <2>4, <2>6, <2>7, HoistedChanged DEF Types
  <2> QED
    BY <1>12, <2>1, <2>8 DEF RedirectHoisted, Types
<1>13. CASE EndDedup
  BY <1>13 DEF EndDedup, Types
<1>14. CASE LoadMember
  <2>1. Head(members) \in Obj /\ Tail(members) \in Seq(Obj)
    BY <1>14, HeadTail DEF LoadMember, Types
  <2>2. objs' \in Seq(Obj)
    BY <1>14, <2>1 DEF LoadMember, CreateObject, Types
  <2>3. objState' \in [Obj -> {"none", "parsing", "queued", "parsed"}]
    BY <1>14, <2>1 DEF LoadMember, CreateObject, Types
  <2> QED
    BY <1>14, <1>0, <2>1, <2>2, <2>3 DEF LoadMember, Types
<1>15. CASE EraseDead
  <2>1. \A k \in 1 .. Len(dylibs) : RemoveAt(dylibs, k) \in Seq(Nat)
    BY Erased DEF Types
  <2> QED
    BY <1>15, <2>1 DEF EraseDead, Types
<1> QED
  BY <1>1, <1>2, <1>3, <1>4, <1>5, <1>6, <1>7, <1>8, <1>9, <1>10, <1>11, <1>12, <1>13,
     <1>14, <1>15 DEF MainStep

(* The stacks of parse tasks. *)
LEMMA TaskFacts ==
  ASSUME Types, Running, NEW t \in tasks
  PROVE  /\ t \in Seq(StackFrame) /\ t # <<>> /\ Len(t) \in Nat \ {0}
         /\ Head(t) = t[1] /\ Tail(t) \in Seq(StackFrame) /\ Len(Tail(t)) = Len(t) - 1
         /\ \A i \in 1 .. Len(t) - 1 : Tail(t)[i] = t[i + 1]
         /\ \A i \in 1 .. Len(t) : t[i] \in StackFrame
         /\ \A i \in 1 .. Len(t) :
              /\ t[i].id \in 1 .. Len(dfile) /\ t[i].rest \in Seq(Lib)
              /\ t[i].ticket \in Nat \cup {-1}
<1>1. t \in Seq(StackFrame) /\ t # <<>>
  BY DEF Types, Running
<1>2. Len(t) \in Nat \ {0} /\ \A i \in 1 .. Len(t) : t[i] \in StackFrame
  BY <1>1
<1>3. /\ Head(t) = t[1] /\ Tail(t) \in Seq(StackFrame) /\ Len(Tail(t)) = Len(t) - 1
      /\ \A i \in 1 .. Len(t) - 1 : Tail(t)[i] = t[i + 1]
  BY <1>1, HeadTail
<1>4. \A i \in 1 .. Len(t) :
        /\ t[i].id \in 1 .. Len(dfile) /\ t[i].rest \in Seq(Lib)
        /\ t[i].ticket \in Nat \cup {-1}
  BY <1>2 DEF StackFrame, Running
<1> QED
  BY <1>1, <1>2, <1>3, <1>4

(* A stack with another top frame, or two for one. *)
LEMMA NewTop ==
  ASSUME NEW S, NEW t \in Seq(S), t # <<>>, NEW f \in S, NEW g \in S
  PROVE  /\ <<f>> \o Tail(t) \in Seq(S) /\ Len(<<f>> \o Tail(t)) = Len(t)
         /\ (<<f>> \o Tail(t))[1] = f
         /\ \A i \in 2 .. Len(t) : (<<f>> \o Tail(t))[i] = t[i]
         /\ <<f, g>> \o Tail(t) \in Seq(S) /\ Len(<<f, g>> \o Tail(t)) = Len(t) + 1
         /\ (<<f, g>> \o Tail(t))[1] = f /\ (<<f, g>> \o Tail(t))[2] = g
         /\ \A i \in 2 .. Len(t) : (<<f, g>> \o Tail(t))[i + 1] = t[i]
<1>1. /\ Tail(t) \in Seq(S) /\ Len(t) \in Nat \ {0} /\ Len(Tail(t)) = Len(t) - 1
      /\ \A k \in 1 .. Len(t) - 1 : Tail(t)[k] = t[k + 1]
  BY HeadTail
<1> DEFINE r == Tail(t)
<1>2. r \in Seq(S) /\ Len(r) = Len(t) - 1 /\ \A i \in 2 .. Len(t) : t[i] = r[i - 1]
  BY <1>1
<1> HIDE DEF r
<1>3. /\ <<f>> \o r \in Seq(S) /\ Len(<<f>> \o r) = 1 + Len(r)
      /\ (<<f>> \o r)[1] = f
      /\ \A i \in 2 .. 1 + Len(r) : (<<f>> \o r)[i] = r[i - 1]
  BY <1>2
<1>4. /\ <<f, g>> \o r \in Seq(S) /\ Len(<<f, g>> \o r) = 2 + Len(r)
      /\ (<<f, g>> \o r)[1] = f /\ (<<f, g>> \o r)[2] = g
      /\ \A i \in 3 .. 2 + Len(r) : (<<f, g>> \o r)[i] = r[i - 2]
  BY <1>2
<1>5. /\ <<f>> \o r \in Seq(S) /\ Len(<<f>> \o r) = Len(t)
      /\ (<<f>> \o r)[1] = f
      /\ \A i \in 2 .. Len(t) : (<<f>> \o r)[i] = t[i]
  <2>1. 1 + Len(r) = Len(t)
    BY <1>1, <1>2
  <2> QED
    BY <1>2, <1>3, <2>1
<1>6. \A i \in 2 .. Len(t) : (<<f, g>> \o r)[i + 1] = t[i]
  BY <1>1, <1>2, <1>4
<1>7. Len(<<f, g>> \o r) = Len(t) + 1
  BY <1>1, <1>2, <1>4
<1> QED
  BY <1>4, <1>5, <1>6, <1>7 DEF r

(* The frames that the steps of a task put on its stack. *)
LEMMA FrameFacts ==
  ASSUME Types, Running, NEW t \in tasks, Head(t).rest # <<>>
  PROVE  LET f == Head(t)
             up == [f EXCEPT !.rest = Tail(@), !.ticket = -1] IN
         /\ [f EXCEPT !.ticket = nextPriority] \in StackFrame
         /\ [f EXCEPT !.ticket = nextPriority].id = f.id
         /\ up \in StackFrame /\ up.id = f.id
         /\ Head(f.rest) \in Lib
         /\ Frame(Len(dfile) + 1, Head(f.rest)) \in StackFrame
         /\ Frame(Len(dfile) + 1, Head(f.rest)).id = Len(dfile) + 1
<1> DEFINE f == Head(t)
<1>1. f \in StackFrame /\ f.rest \in Seq(Lib)
  BY TaskFacts
<1>2. Head(f.rest) \in Lib /\ Tail(f.rest) \in Seq(Lib)
  BY <1>1, HeadTail
<1>3. nextPriority \in Nat /\ Len(dfile) + 1 \in Nat /\ inp.reexports \in [Lib -> Seq(Lib)]
  BY InputFacts, Lengths DEF Types
<1>4. Frame(Len(dfile) + 1, Head(f.rest)) \in StackFrame
  BY <1>2, <1>3 DEF Frame, StackFrame
<1> HIDE DEF f
<1>5. /\ [f EXCEPT !.ticket = nextPriority] \in StackFrame
      /\ [f EXCEPT !.ticket = nextPriority].id = f.id
  BY <1>1, <1>3 DEF StackFrame
<1>6. LET up == [f EXCEPT !.rest = Tail(@), !.ticket = -1]
      IN  up \in StackFrame /\ up.id = f.id
  BY <1>1, <1>2 DEF StackFrame
<1> QED
  BY <1>2, <1>4, <1>5, <1>6 DEF f, Frame

(* What a parse task does to the dylibs. *)
LEMMA ParserFiles ==
  ASSUME Types, Ids, Running, NEW t \in tasks, CreateChild(t) \/ ParseReturns(t)
  PROVE  /\ dfile' \in Seq(Dylib) /\ Len(dfile) <= Len(dfile')
         /\ \A k \in 1 .. Len(dfile) : dfile'[k].lib = dfile[k].lib
         /\ \A k \in 1 .. Len(dfile) :
              dfile'[k].alive = dfile[k].alive
                \/ (1 < Len(t) /\ k = t[1].id /\ dfile'[k].alive = FALSE)
<1>0. Len(dfile) \in Nat /\ dfile \in Seq(Dylib)
  BY Lengths DEF Types
<1>1. CASE CreateChild(t)
  <2>1. Head(t).rest # <<>> /\ Head(t).ticket # -1
    BY <1>1 DEF CreateChild
  <2>2. Head(Head(t).rest) \in Lib /\ Head(t).ticket \in Nat
    <3>1. Head(Head(t).rest) \in Lib
      BY <2>1, FrameFacts
    <3>2. Head(t).ticket \in Nat \cup {-1}
      BY TaskFacts
    <3> QED
      BY <2>1, <3>1, <3>2
  <2>3. NewDylib(Head(Head(t).rest), reader, Head(t).ticket) \in Dylib
    BY <2>2, NewDylibType DEF Types
  <2>4. dfile' = Append(dfile, NewDylib(Head(Head(t).rest), reader, Head(t).ticket))
    BY <1>1 DEF CreateChild
  <2> QED
    BY <1>0, <2>3, <2>4, Appended
<1>2. CASE ParseReturns(t)
  <2> DEFINE c == t[1].id
             q == t[2].id
  <2>1. c \in 1 .. Len(dfile) /\ Head(t).id = c /\ Len(t) \in Nat \ {0}
    BY TaskFacts
  <2>2. CASE Len(t) = 1
    BY <1>0, <1>2, <2>2 DEF ParseReturns
  <2>3. CASE Len(t) # 1
    <3>1. q \in 1 .. Len(dfile) /\ 1 < Len(t)
      <4>1. \A n \in Nat \ {0} : n # 1 => 1 < n /\ 2 \in 1 .. n
        OBVIOUS
      <4> QED
        BY <2>1, <2>3, <4>1, TaskFacts
    <3>2. dfile[q].hoisted \in Seq(Nat) /\ dfile[c].hoisted \in Seq(Nat) /\ c \in Nat
      BY <2>1, <3>1, DylibFields, <1>0
    <3>3. CASE dfile' = [dfile EXCEPT ![q].hoisted = Append(@, c), ![c].alive = FALSE]
      <4> DEFINE list == Append(dfile[q].hoisted, c)
                 parent == [dfile[q] EXCEPT !.hoisted = list]
                 mid == [dfile EXCEPT ![q] = parent]
                 last == [mid[c] EXCEPT !.alive = FALSE]
      <4>1. list \in Seq(Nat)
        BY <3>2
      <4>2. dfile' = [mid EXCEPT ![c] = last]
        BY <3>3
      <4> HIDE DEF list, c, q
      <4>0. parent \in Dylib /\ parent.lib = dfile[q].lib /\ parent.alive = dfile[q].alive
        BY <3>1, <4>1, DylibFields, RecordChanged
      <4> HIDE DEF parent
      <4>3. /\ mid \in Seq(Dylib) /\ Len(mid) = Len(dfile)
            /\ \A i \in 1 .. Len(dfile) :
                 mid[i].lib = dfile[i].lib /\ mid[i].alive = dfile[i].alive
        BY <1>0, <3>1, <4>0, ElementChanged
      <4> HIDE DEF mid
      <4>4. mid[c] \in Dylib
        BY <2>1, <4>3
      <4>5. last \in Dylib /\ last.lib = mid[c].lib /\ last.alive = FALSE
        BY <4>4 DEF Dylib
      <4> HIDE DEF last
      <4>6. /\ dfile' \in Seq(Dylib) /\ Len(dfile') = Len(dfile) /\ dfile'[c] = last
            /\ \A i \in 1 .. Len(dfile) : i # c => dfile'[i] = mid[i]
        BY <2>1, <4>2, <4>3, <4>5, ElementChanged
      <4>7. \A k \in 1 .. Len(dfile) :
              /\ dfile'[k].lib = dfile[k].lib
              /\ k # c => dfile'[k].alive = dfile[k].alive
              /\ k = c => dfile'[k].alive = FALSE
        BY <4>3, <4>5, <4>6
      <4>8. Len(dfile) <= Len(dfile')
        BY <1>0, <4>6
      <4> QED
        BY <3>1, <4>6, <4>7, <4>8 DEF c
    <3>4. CASE dfile' = [dfile EXCEPT ![q].hoisted = @ \o dfile[c].hoisted]
      <4> DEFINE list == dfile[q].hoisted \o dfile[c].hoisted
      <4>1. list \in Seq(Nat)
        BY <3>2
      <4> DEFINE parent == [dfile[q] EXCEPT !.hoisted = list]
      <4>2. dfile' = [dfile EXCEPT ![q] = parent]
        BY <3>4
      <4> HIDE DEF list, q, c
      <4>0. parent \in Dylib /\ parent.lib = dfile[q].lib /\ parent.alive = dfile[q].alive
        BY <3>1, <4>1, DylibFields, RecordChanged
      <4> HIDE DEF parent
      <4>3. /\ dfile' \in Seq(Dylib) /\ Len(dfile') = Len(dfile)
            /\ \A i \in 1 .. Len(dfile) :
                 dfile'[i].lib = dfile[i].lib /\ dfile'[i].alive = dfile[i].alive
        BY <1>0, <3>1, <4>0, <4>2, ElementChanged
      <4> QED
        BY <1>0, <4>3
    <3> QED
      BY <1>2, <2>1, <2>3, <3>3, <3>4 DEF ParseReturns
  <2> QED
    BY <2>2, <2>3
<1> QED
  BY <1>1, <1>2

LEMMA TypesParser ==
  ASSUME Types, Ids, Running, ParserStep
  PROVE  Types'
<1> USE DEF inputVars, frontierVars, walkVars
<1>1. CASE \E o \in Obj : EnqueueParsed(o) \/ NotifyParsed(o)
  <2>1. CASE \E o \in Obj : EnqueueParsed(o)
    BY <2>1 DEF EnqueueParsed, Types
  <2>2. CASE \E o \in Obj : NotifyParsed(o)
    BY <2>2 DEF NotifyParsed, Types
  <2> QED
    BY <1>1, <2>1, <2>2
<1>2. ASSUME NEW t \in tasks, TakeTicket(t)
      PROVE  Types'
  <2>1. <<[Head(t) EXCEPT !.ticket = nextPriority]>> \o Tail(t) \in Seq(StackFrame)
    BY <1>2, FrameFacts, TaskFacts, NewTop DEF TakeTicket
  <2>2. tasks' \subseteq Seq(StackFrame)
    BY <1>2, <2>1 DEF TakeTicket, Types
  <2> QED
    BY <1>2, <2>2 DEF TakeTicket, Types
<1>3. ASSUME NEW t \in tasks, CreateChild(t)
      PROVE  Types'
  <2> DEFINE f == Head(t)
             up == [f EXCEPT !.rest = Tail(@), !.ticket = -1]
             new == <<Frame(Len(dfile) + 1, Head(f.rest)), up>> \o Tail(t)
  <2>1. new \in Seq(StackFrame)
    BY <1>3, FrameFacts, TaskFacts, NewTop DEF CreateChild
  <2>2. tasks' = (tasks \ {t}) \cup {new} /\ nextPriority' = Head(t).ticket + 1
    BY <1>3 DEF CreateChild
  <2>3. tasks' \subseteq Seq(StackFrame)
    BY <2>1, <2>2 DEF Types
  <2>4. nextPriority' \in Nat
    BY <1>3, <2>2, TaskFacts DEF CreateChild
  <2>5. dfile' \in Seq(Dylib)
    BY <1>3, ParserFiles
  <2> QED
    BY <1>3, <2>3, <2>4, <2>5 DEF CreateChild, Types
<1>4. ASSUME NEW t \in tasks, ParseReturns(t)
      PROVE  Types'
  <2>1. Tail(t) \in Seq(StackFrame)
    BY TaskFacts
  <2>2. tasks' \subseteq Seq(StackFrame)
    BY <1>4, <2>1 DEF ParseReturns, Types
  <2>3. dfile' \in Seq(Dylib)
    BY <1>4, ParserFiles
  <2> QED
    BY <1>4, <2>2, <2>3 DEF ParseReturns, Types
<1> QED
  BY <1>1, <1>2, <1>3, <1>4 DEF ParserStep

LEMMA TypesStep ==
  ASSUME IInv, [Next]_vars
  PROVE  Types'
<1>1. CASE MainStep
  BY <1>1, TypesMain DEF IInv
<1>2. CASE ParserStep
  BY <1>2, TypesParser DEF IInv
<1>3. CASE UNCHANGED vars
  BY <1>3 DEF IInv, Types, vars
<1> QED
  BY <1>1, <1>2, <1>3 DEF Next, Finished

-----------------------------------------------------------------------------
(***************************************************************************)
(* What steps do to the dylibs.                                            *)
(***************************************************************************)
LEMMA ReadFiles ==
  ASSUME Types, Names, NEW l \in Lib, NEW mode \in Modes, ReadLibrary(l, mode)
  PROVE  /\ Len(dfile) <= Len(dfile')
         /\ \A k \in 1 .. Len(dfile) :
              /\ dfile'[k].lib = dfile[k].lib /\ dfile'[k].hoisted = dfile[k].hoisted
              /\ dfile[k].alive => dfile'[k].alive
         /\ libDylib[l] = 0 =>
              /\ Len(dfile') = Len(dfile) + 1
              /\ dfile'[Len(dfile')].lib = l /\ dfile'[Len(dfile')].hoisted = <<>>
              /\ libDylib'[l] = Len(dfile')
              /\ \A m \in Lib : m # l => libDylib'[m] = libDylib[m]
              /\ dylibs' = Append(dylibs, Len(dfile'))
              /\ tasks' = tasks \cup {<<Frame(Len(dfile'), l)>>}
         /\ libDylib[l] # 0 =>
              Len(dfile') = Len(dfile) /\ UNCHANGED <<libDylib, dylibs, tasks>>
         /\ libDylib'[l] # 0 /\ (mode.needed => dfile'[libDylib'[l]].alive)
<1>0. Len(dfile) \in Nat /\ dfile \in Seq(Dylib) /\ libDylib \in [Lib -> Nat]
  BY Lengths DEF Types
<1>1. CASE Seen(l, mode)
  <2> DEFINE d == libDylib[l]
             v == dfile[d].alive \/ mode.needed
  <2>1. d \in 1 .. Len(dfile) /\ d # 0 /\ UNCHANGED <<libDylib, dylibs, tasks>>
    BY <1>1 DEF Names, Seen
  <2>2. v \in BOOLEAN /\ dfile' = [dfile EXCEPT ![d].alive = v]
    BY <1>1 DEF Seen
  <2>3. (dfile[d].alive => v) /\ (mode.needed => v)
    OBVIOUS
  <2> HIDE DEF v, d
  <2>4. /\ Len(dfile') = Len(dfile)
        /\ \A i \in 1 .. Len(dfile) :
             dfile'[i].lib = dfile[i].lib /\ dfile'[i].hoisted = dfile[i].hoisted
        /\ \A i \in 1 .. Len(dfile) : i # d => dfile'[i] = dfile[i]
        /\ dfile'[d].alive = v
    BY <1>0, <2>1, <2>2, AliveChanged
  <2>5. \A k \in 1 .. Len(dfile) : dfile[k].alive => dfile'[k].alive
    BY <2>3, <2>4
  <2>6. libDylib'[l] = d /\ (mode.needed => dfile'[d].alive)
    BY <2>1, <2>3, <2>4 DEF d
  <2> QED
    BY <1>0, <2>1, <2>4, <2>5, <2>6 DEF d
<1>2. CASE Created(l, mode)
  <2> DEFINE new == NewDylib(l, mode, nextPriority)
  <2>1. new \in Dylib /\ new.lib = l /\ new.hoisted = <<>> /\ (mode.needed => new.alive)
    BY NewDylibType DEF Types
  <2>2. dfile' = Append(dfile, new)
    BY <1>2 DEF Created
  <2> HIDE DEF new
  <2>3. /\ Len(dfile') = Len(dfile) + 1 /\ dfile'[Len(dfile) + 1] = new
        /\ \A k \in 1 .. Len(dfile) : dfile'[k] = dfile[k]
    BY <1>0, <2>1, <2>2, Appended
  <2>4. /\ libDylib[l] = 0 /\ libDylib'[l] = Len(dfile) + 1
        /\ \A m \in Lib : m # l => libDylib'[m] = libDylib[m]
        /\ dylibs' = Append(dylibs, Len(dfile) + 1)
        /\ tasks' = tasks \cup {<<Frame(Len(dfile) + 1, l)>>}
    BY <1>0, <1>2 DEF Created
  <2> QED
    BY <1>0, <2>1, <2>3, <2>4
<1> QED
  BY <1>1, <1>2, ReadCases

(* One step of the deduplication. *)
LEMMA DedupFacts ==
  ASSUME Types, Ids, Walks, DedupDylib
  PROVE  LET id == dylibs[at + 1] IN
         /\ at + 1 \in 1 .. Len(dylibs) /\ id \in 1 .. Len(dfile)
         /\ Canonical(id) \in 1 .. Len(dfile)
         /\ Len(dfile') = Len(dfile)
         /\ \A k \in 1 .. Len(dfile) :
              /\ dfile'[k].lib = dfile[k].lib /\ dfile'[k].hoisted = dfile[k].hoisted
              /\ dfile[k].alive => dfile'[k].alive
              /\ k # Canonical(id) => dfile'[k] = dfile[k]
         /\ dfile'[Canonical(id)].alive <=> dfile[Canonical(id)].alive \/ dfile[id].alive
         /\ kept' = IF Canonical(id) = id THEN Append(kept, id) ELSE kept
<1> DEFINE id == dylibs[at + 1]
           c == Canonical(id)
<1>0. Len(dfile) \in Nat /\ dfile \in Seq(Dylib)
  BY Lengths DEF Types
<1>1. at + 1 \in 1 .. Len(dylibs) /\ id \in 1 .. Len(dfile)
  <2>1. at \in Nat /\ Len(dylibs) \in Nat /\ at < Len(dylibs)
    BY Lengths DEF DedupDylib
  <2>2. at + 1 \in 1 .. Len(dylibs)
    BY <2>1
  <2> QED
    BY <2>2 DEF Ids
<1>2. c \in 1 .. Len(dfile)
  <2>1. \A k \in 1 .. Len(kept) : kept[k] \in 1 .. Len(dfile)
    BY KeptIds DEF DedupDylib
  <2> HIDE DEF id
  <2> QED
    BY <1>1, <2>1, CanonicalFacts DEF Types
<1> DEFINE v == dfile[c].alive \/ dfile[id].alive
           w == dfile[c].weak /\ dfile[id].weak
           r == [dfile[c] EXCEPT !.alive = v, !.weak = w]
<1>3. dfile' = [dfile EXCEPT ![c] = r] /\ kept' = IF c = id THEN Append(kept, id) ELSE kept
  BY DEF DedupDylib
<1>4. v \in BOOLEAN /\ w \in BOOLEAN /\ (dfile[c].alive => v)
  OBVIOUS
<1>5. dfile[c] \in Dylib
  BY <1>2, DylibFields
<1>6. v <=> dfile[c].alive \/ dfile[id].alive
  OBVIOUS
<1> HIDE DEF v, w, c, id
<1>7. r \in Dylib /\ r.lib = dfile[c].lib /\ r.hoisted = dfile[c].hoisted /\ r.alive = v
  BY <1>4, <1>5 DEF Dylib
<1> HIDE DEF r
<1>8. /\ Len(dfile') = Len(dfile) /\ dfile'[c] = r
      /\ \A k \in 1 .. Len(dfile) : k # c => dfile'[k] = dfile[k]
  BY <1>0, <1>2, <1>3, <1>7, ElementChanged
<1>9. \A k \in 1 .. Len(dfile) :
        /\ dfile'[k].lib = dfile[k].lib /\ dfile'[k].hoisted = dfile[k].hoisted
        /\ dfile[k].alive => dfile'[k].alive
  BY <1>4, <1>7, <1>8
<1>10. dfile'[c].alive <=> dfile[c].alive \/ dfile[id].alive
  BY <1>6, <1>7, <1>8
<1> QED
  BY <1>1, <1>2, <1>3, <1>8, <1>9, <1>10 DEF c, id

(* The steps that rewrite the hoisted libraries of a dylib. *)
LEMMA RedirectFacts ==
  ASSUME Types, Ids, Walks, RedirectNext \/ RedirectHoisted
  PROVE  LET t == Redirect(Head(rest)) IN
         \E d \in 1 .. Len(dfile) :
           /\ Len(dfile') = Len(dfile)
           /\ \A k \in 1 .. Len(dfile) :
                /\ dfile'[k].lib = dfile[k].lib /\ dfile'[k].alive = dfile[k].alive
                /\ k # d => dfile'[k] = dfile[k]
           /\ RedirectNext => rest' = dfile[d].hoisted /\ dfile'[d].hoisted = <<>>
           /\ RedirectHoisted =>
                dfile'[d].hoisted \in {dfile[d].hoisted, Append(dfile[d].hoisted, t)}
<1>0. Len(dfile) \in Nat /\ dfile \in Seq(Dylib)
  BY Lengths DEF Types
<1> DEFINE pos == IF RedirectNext THEN at + 1 ELSE at
           d == kept[pos]
           t == Redirect(Head(rest))
<1>1. pos \in 1 .. Len(kept)
  <2>0. at \in Nat /\ Len(kept) \in Nat
    BY Lengths
  <2>1. CASE RedirectNext
    <3>1. at < Len(kept)
      BY <2>0, <2>1 DEF RedirectNext
    <3> QED
      BY <2>0, <2>1, <3>1
  <2>2. CASE ~RedirectNext
    BY <2>2, Lengths DEF RedirectHoisted, Walks
  <2> QED
    BY <2>1, <2>2
<1>2. d \in 1 .. Len(dfile)
  BY <1>1, KeptIds DEF RedirectNext, RedirectHoisted
<1>3. ~(RedirectNext /\ RedirectHoisted)
  BY DEF RedirectNext, RedirectHoisted
<1>4. dfile[d] \in Dylib /\ dfile[d].hoisted \in Seq(Nat)
  BY <1>2, DylibFields
<1>5. PICK v \in Seq(Nat) :
        /\ dfile' = [dfile EXCEPT ![d] = [dfile[d] EXCEPT !.hoisted = v]]
        /\ RedirectNext => v = <<>>
        /\ RedirectHoisted => v \in {dfile[d].hoisted, Append(dfile[d].hoisted, t)}
  <2>1. CASE RedirectNext
    <3>1. dfile' = [dfile EXCEPT ![d] = [dfile[d] EXCEPT !.hoisted = <<>>]]
      BY <2>1 DEF RedirectNext
    <3>2. <<>> \in Seq(Nat)
      OBVIOUS
    <3> HIDE DEF d, t
    <3> QED
      BY <2>1, <1>3, <3>1, <3>2
  <2>2. CASE RedirectHoisted
    <3> DEFINE v == IF t \in Range(dfile[d].hoisted) THEN dfile[d].hoisted
                    ELSE Append(dfile[d].hoisted, t)
    <3>1. dfile' = [dfile EXCEPT ![d] = [dfile[d] EXCEPT !.hoisted = v]]
      BY <2>2, <1>3 DEF RedirectHoisted
    <3>2. t \in Nat
      BY <2>2, HeadTail, CanonicalType DEF RedirectHoisted, Types
    <3>3. v \in Seq(Nat) /\ v \in {dfile[d].hoisted, Append(dfile[d].hoisted, t)}
      BY <1>4, <3>2
    <3> HIDE DEF v
    <3> QED
      BY <2>2, <1>3, <3>1, <3>3
  <2> QED
    BY <2>1, <2>2
<1> DEFINE r == [dfile[d] EXCEPT !.hoisted = v]
<1>6. r \in Dylib /\ r.lib = dfile[d].lib /\ r.alive = dfile[d].alive /\ r.hoisted = v
  BY <1>4, RecordChanged
<1>7. dfile' = [dfile EXCEPT ![d] = r]
  BY <1>5
<1>8. RedirectNext => rest' = dfile[d].hoisted
  BY DEF RedirectNext
<1> HIDE DEF r, d, t
<1>9. /\ Len(dfile') = Len(dfile) /\ dfile'[d] = r
      /\ \A k \in 1 .. Len(dfile) : k # d => dfile'[k] = dfile[k]
  BY <1>0, <1>2, <1>6, <1>7, ElementChanged
<1>10. \A k \in 1 .. Len(dfile) :
         /\ dfile'[k].lib = dfile[k].lib /\ dfile'[k].alive = dfile[k].alive
         /\ k # d => dfile'[k] = dfile[k]
  BY <1>6, <1>9
<1>11. dfile'[d].hoisted = v
  BY <1>6, <1>9
<1> QED
  BY <1>2, <1>5, <1>8, <1>9, <1>10, <1>11 DEF t

(* Reading an item of the command line, or serving an option. *)
LEMMA ReadStep ==
  ASSUME Types, ReadItem \/ ServeOption
  PROVE  \/ /\ ReadItem /\ Head(cmd).file \in Obj /\ CreateObject(Head(cmd).file)
            /\ UNCHANGED <<dylibs, dfile, libDylib, tasks>>
         \/ \E l \in Lib, mode \in Modes :
              /\ ReadLibrary(l, mode) /\ UNCHANGED <<objs, objState>>
              /\ ReadItem => l = Head(cmd).file /\ mode = Head(cmd).mode
              /\ ServeOption => l = Head(opts).file /\ mode.needed = Head(opts).needed
<1>1. CASE ReadItem
  <2>1. Head(cmd) \in Item /\ ~ServeOption
    BY <1>1, HeadTail DEF ReadItem, ServeOption, Types
  <2>2. Head(cmd).file \in Obj \cup Lib /\ Head(cmd).mode \in Modes
    BY <2>1 DEF Item
  <2>3. CASE Head(cmd).file \in Obj
    BY <1>1, <2>3 DEF ReadItem
  <2>4. CASE Head(cmd).file \notin Obj
    BY <1>1, <2>1, <2>2, <2>4 DEF ReadItem
  <2> QED
    BY <2>3, <2>4
<1>2. CASE ServeOption
  <2>1. Head(opts) \in Option /\ ~ReadItem
    BY <1>2, HeadTail DEF ReadItem, ServeOption, Types
  <2> DEFINE m == [Plain EXCEPT !.needed = Head(opts).needed, !.implicit = TRUE]
  <2>2. Head(opts).file \in Lib /\ m \in Modes /\ m.needed = Head(opts).needed
    BY <2>1 DEF Option, Plain, Modes
  <2>3. ReadLibrary(Head(opts).file, m) /\ UNCHANGED <<objs, objState>>
    BY <1>2 DEF ServeOption
  <2> HIDE DEF m
  <2> QED
    BY <2>1, <2>2, <2>3
<1> QED
  BY <1>1, <1>2

(* All others leave the dylibs alone. *)
LEMMA OtherSteps ==
  ASSUME [Next]_vars, ~ReadItem, ~ServeOption, ~DedupDylib, ~RedirectNext, ~RedirectHoisted,
         \A t \in tasks : ~CreateChild(t) /\ ~ParseReturns(t)
  PROVE  dfile' = dfile
BY DEF vars, Next, MainStep, ParserStep, Finished, RestoreReader, EndOfCommandLine,
   TakeFrontier, ServeObject, EndOptions, LeaveOrRepeat, WaitForFrontier,
   HoistNext, HoistLibrary, EndHoisting, RedirectNames,
   EndDedup, LoadMember, DrainMembers, StartErase, EraseDead, EndErase,
   EnqueueParsed, NotifyParsed, TakeTicket

(* A dylib keeps its library, and stays alive unless it is the child of a  *)
(* running parse task.                                                     *)
LEMMA FilesStep ==
  ASSUME IInv, [Next]_vars
  PROVE  /\ Len(dfile) \in Nat /\ Len(dfile') \in Nat /\ Len(dfile) <= Len(dfile')
         /\ \A k \in 1 .. Len(dfile) : dfile'[k].lib = dfile[k].lib
         /\ \A k \in 1 .. Len(dfile) :
              (dfile[k].alive => dfile'[k].alive) \/ (tasks # {} /\ ~In(k, dylibs))
<1>0. /\ Types /\ Ids /\ Names /\ Running /\ Walks
      /\ Len(dfile) \in Nat /\ dfile' \in Seq(Dylib)
  BY TypesStep, Lengths DEF IInv, Types
<1>1. Len(dfile') \in Nat
  BY <1>0
<1>2. CASE ReadItem \/ ServeOption
  <2>1. CASE dfile' = dfile
    BY <1>0, <2>1
  <2>2. CASE dfile' # dfile
    <3>1. PICK l \in Lib, mode \in Modes : ReadLibrary(l, mode)
      BY <1>0, <1>2, <2>2, ReadStep
    <3> QED
      BY <1>0, <1>1, <3>1, ReadFiles
  <2> QED
    BY <2>1, <2>2
<1>3. CASE DedupDylib
  BY <1>0, <1>1, <1>3, DedupFacts
<1>4. CASE RedirectNext \/ RedirectHoisted
  BY <1>0, <1>1, <1>4, RedirectFacts
<1>5. ASSUME NEW t \in tasks, CreateChild(t) \/ ParseReturns(t)
      PROVE  /\ Len(dfile) <= Len(dfile')
             /\ \A k \in 1 .. Len(dfile) : dfile'[k].lib = dfile[k].lib
             /\ \A k \in 1 .. Len(dfile) :
                  (dfile[k].alive => dfile'[k].alive) \/ (tasks # {} /\ ~In(k, dylibs))
  <2>1. Len(t) \in Nat \ {0}
    BY <1>0, TaskFacts
  <2>2. 1 < Len(t) => ~In(t[1].id, dylibs)
    <3>1. 1 < Len(t) => 1 \in 1 .. Len(t) - 1
      BY <2>1
    <3> QED
      BY <1>0, <3>1 DEF Running
  <2> QED
    BY <1>0, <1>5, <2>2, ParserFiles
<1>6. CASE /\ ~ReadItem /\ ~ServeOption /\ ~DedupDylib /\ ~RedirectNext /\ ~RedirectHoisted
           /\ \A t \in tasks : ~CreateChild(t) /\ ~ParseReturns(t)
  BY <1>0, <1>6, OtherSteps
<1> QED
  BY <1>0, <1>1, <1>2, <1>3, <1>4, <1>5, <1>6

(* Hence names mean the same after a step. *)
LEMMA SameNameKept ==
  ASSUME IInv, [Next]_vars, NEW i \in 1 .. Len(dfile), NEW j \in 1 .. Len(dfile)
  PROVE  SameName(i, j)' <=> SameName(i, j)
<1>1. inp' = inp /\ dfile'[i].lib = dfile[i].lib /\ dfile'[j].lib = dfile[j].lib
  BY FilesStep, InputKept
<1> QED
  BY <1>1 DEF SameName

-----------------------------------------------------------------------------
(***************************************************************************)
(* The inputs and the objects.                                             *)
(***************************************************************************)
LEMMA OtherInputs ==
  ASSUME [Next]_vars, ~ReadItem, ~LoadMember
  PROVE  /\ UNCHANGED <<cmd, members, objs>>
         /\ pc' \notin {"read", "restore"} => cmd = <<>> \/ pc \notin {"read", "restore"}
BY DEF vars, inputVars, Next, MainStep, ParserStep, Finished, RestoreReader, EndOfCommandLine,
   TakeFrontier, ServeObject, ServeOption, EndOptions, LeaveOrRepeat, WaitForFrontier,
   HoistNext, HoistLibrary, EndHoisting, DedupDylib, RedirectNames, RedirectNext,
   RedirectHoisted, EndDedup, DrainMembers, StartErase, EraseDead, EndErase,
   EnqueueParsed, NotifyParsed, TakeTicket, CreateChild, ParseReturns

(* The next item of a list that is read from left to right. *)
LEMMA NextItem ==
  ASSUME NEW S, NEW full \in Seq(S), NEW s \in Seq(S), s # <<>>,
         Len(full) - Len(s) \in Nat,
         \A k \in 1 .. Len(s) : s[k] = full[Len(full) - Len(s) + k]
  PROVE  /\ Len(full) - Len(Tail(s)) = Len(full) - Len(s) + 1
         /\ Len(full) - Len(s) + 1 \in 1 .. Len(full)
         /\ Head(s) = full[Len(full) - Len(s) + 1]
         /\ \A k \in 1 .. Len(Tail(s)) : Tail(s)[k] = full[Len(full) - Len(Tail(s)) + k]
<1>1. /\ Len(full) \in Nat /\ Len(s) \in Nat \ {0} /\ Len(Tail(s)) = Len(s) - 1
      /\ Head(s) = s[1] /\ \A k \in 1 .. Len(s) - 1 : Tail(s)[k] = s[k + 1]
  BY HeadTail
<1>2. ASSUME NEW k \in 1 .. Len(s) - 1
      PROVE  Tail(s)[k] = full[Len(full) - Len(Tail(s)) + k]
  <2>1. k + 1 \in 1 .. Len(s) /\ Len(full) - Len(s) + (k + 1) = Len(full) - (Len(s) - 1) + k
    BY <1>1
  <2> QED
    BY <1>1, <2>1
<1>3. 1 \in 1 .. Len(s) /\ Len(full) - Len(s) + 1 \in 1 .. Len(full)
  BY <1>1
<1> QED
  BY <1>1, <1>2, <1>3

(* A new object is not one that was read before. *)
LEMMA NewObject ==
  ASSUME IInv,
         \/ ReadItem /\ Head(cmd).file \in Obj
         \/ LoadMember
  PROVE  LET o == IF ReadItem THEN Head(cmd).file ELSE Head(members) IN
         /\ o \in Obj /\ ~In(o, objs) /\ objState[o] = "none"
         /\ objs' = Append(objs, o) /\ objState' = [objState EXCEPT ![o] = "parsing"]
         /\ Len(objs') = Len(objs) + 1 /\ objs'[Len(objs) + 1] = o
         /\ \A k \in 1 .. Len(objs) : objs'[k] = objs[k]
         /\ Distinct(objs') /\ \A y : In(y, objs') <=> In(y, objs) \/ y = o
         /\ \A k \in 1 .. Len(objs) : objState'[objs[k]] = objState[objs[k]]
<1> DEFINE o == IF ReadItem THEN Head(cmd).file ELSE Head(members)
<1>0. Types /\ InputsRead /\ Queue
  BY DEF IInv
<1>1. /\ inp.cmdline \in Seq(Item) /\ inp.members \in Seq(Obj)
      /\ \A j, k \in 1 .. Len(inp.cmdline) :
           inp.cmdline[j].file = inp.cmdline[k].file => j = k \/ inp.cmdline[j].file \in Lib
      /\ \A j, k \in 1 .. Len(inp.members) : inp.members[j] = inp.members[k] => j = k
      /\ \A j \in 1 .. Len(inp.cmdline), k \in 1 .. Len(inp.members) :
           inp.cmdline[j].file # inp.members[k]
  BY <1>0, InputFacts DEF Types
<1>2. /\ Len(inp.cmdline) \in Nat /\ Len(inp.members) \in Nat
      /\ Len(cmd) \in Nat /\ Len(members) \in Nat /\ CmdRead \in Nat /\ MembersRead \in Nat
      /\ CmdRead <= Len(inp.cmdline) /\ MembersRead <= Len(inp.members)
  <2>1. Len(inp.cmdline) \in Nat /\ Len(inp.members) \in Nat
    BY <1>1
  <2>2. Len(cmd) \in Nat /\ Len(members) \in Nat
    BY <1>0, Lengths
  <2>3. CmdRead \in Nat /\ MembersRead \in Nat
    BY <1>0 DEF InputsRead
  <2> QED
    BY <2>1, <2>2, <2>3 DEF CmdRead, MembersRead
<1>3. o \in Obj /\ objs' = Append(objs, o) /\ objState' = [objState EXCEPT ![o] = "parsing"]
  <2>1. CASE ReadItem
    BY <2>1 DEF ReadItem, CreateObject, LoadMember
  <2>2. CASE ~ReadItem
    BY <2>2, <1>0, HeadTail DEF LoadMember, CreateObject, Types
  <2> QED
    BY <2>1, <2>2
<1>4. ~In(o, objs)
  <2>1. SUFFICES ASSUME NEW k \in 1 .. Len(objs), objs[k] = o PROVE FALSE
    BY DEF In
  <2>2. \/ \E j \in 1 .. CmdRead : inp.cmdline[j].file = o
        \/ \E j \in 1 .. MembersRead : inp.members[j] = o
    <3>1. \/ \E j \in 1 .. CmdRead : inp.cmdline[j].file = objs[k]
          \/ \E j \in 1 .. MembersRead : inp.members[j] = objs[k]
      BY <1>0 DEF InputsRead
    <3> QED
      BY <2>1, <3>1
  <2>3. CASE ReadItem
    <3>1. cmd \in Seq(Item) /\ cmd # <<>>
      BY <1>0, <2>3 DEF ReadItem, Types
    <3>2. /\ CmdRead + 1 \in 1 .. Len(inp.cmdline)
          /\ Head(cmd) = inp.cmdline[CmdRead + 1]
      BY <1>0, <1>1, <3>1, NextItem DEF InputsRead, CmdRead
    <3>3. inp.cmdline[CmdRead + 1].file = o /\ o \notin Lib
      BY <2>3, <3>2, <1>3, DisjointAssumption
    <3>4. ASSUME NEW j \in 1 .. CmdRead, inp.cmdline[j].file = o
          PROVE  FALSE
      <4>1. j \in 1 .. Len(inp.cmdline) /\ j # CmdRead + 1
        BY <1>2
      <4> QED
        BY <1>1, <3>2, <3>3, <3>4, <4>1
    <3>5. CASE \E j \in 1 .. MembersRead : inp.members[j] = o
      BY <1>1, <1>2, <3>2, <3>3, <3>5
    <3> QED
      BY <2>2, <3>4, <3>5
  <2>4. CASE ~ReadItem
    <3>1. members \in Seq(Obj) /\ members # <<>>
      BY <1>0, <2>4 DEF LoadMember, Types
    <3>2. /\ MembersRead + 1 \in 1 .. Len(inp.members)
          /\ Head(members) = inp.members[MembersRead + 1]
      BY <1>0, <1>1, <3>1, NextItem DEF InputsRead, MembersRead
    <3>3. inp.members[MembersRead + 1] = o
      BY <2>4, <3>2
    <3>4. ASSUME NEW j \in 1 .. CmdRead, inp.cmdline[j].file = o
          PROVE  FALSE
      <4>1. j \in 1 .. Len(inp.cmdline)
        BY <1>2
      <4> QED
        BY <1>1, <3>2, <3>3, <3>4, <4>1
    <3>5. CASE \E j \in 1 .. MembersRead : inp.members[j] = o
      BY <1>1, <1>2, <3>2, <3>3, <3>5
    <3> QED
      BY <2>2, <3>4, <3>5
  <2> QED
    BY <2>3, <2>4
<1> HIDE DEF o
<1>5. objState[o] = "none"
  BY <1>0, <1>3, <1>4 DEF Queue
<1>6. objs \in Seq(Obj) /\ objState \in [Obj -> {"none", "parsing", "queued", "parsed"}]
  BY <1>0 DEF Types
<1>7. /\ Len(objs') = Len(objs) + 1 /\ objs'[Len(objs) + 1] = o
      /\ \A k \in 1 .. Len(objs) : objs'[k] = objs[k]
  BY <1>3, <1>6, Appended
<1>8. \A k \in 1 .. Len(objs) : objState'[objs[k]] = objState[objs[k]]
  BY <1>3, <1>4, <1>6 DEF In
<1>9. Distinct(objs') /\ \A y : In(y, objs') <=> In(y, objs) \/ y = o
  BY <1>0, <1>3, <1>4, <1>6, AppendedTo DEF InputsRead
<1> QED
  BY <1>3, <1>4, <1>5, <1>7, <1>8, <1>9 DEF o

LEMMA InputsReadStep ==
  ASSUME IInv, [Next]_vars
  PROVE  InputsRead'
<1>0. Types /\ InputsRead /\ inp' = inp
  BY InputKept DEF IInv
<1>1. /\ Len(cmd) \in Nat /\ Len(members) \in Nat /\ Len(objs) \in Nat
      /\ inp.cmdline \in Seq(Item) /\ inp.members \in Seq(Obj)
      /\ cmd \in Seq(Item) /\ members \in Seq(Obj)
  BY <1>0, Lengths, InputFacts DEF Types
<1>2. CASE ReadItem
  <2>0. cmd' = Tail(cmd) /\ members' = members /\ cmd # <<>> /\ pc' = "restore"
    BY <1>2 DEF ReadItem
  <2>1. /\ CmdRead' = CmdRead + 1
        /\ CmdRead + 1 \in 1 .. Len(inp.cmdline) /\ Head(cmd) = inp.cmdline[CmdRead + 1]
        /\ \A k \in 1 .. Len(cmd') : cmd'[k] = inp.cmdline[CmdRead' + k]
    <3>1. /\ Len(inp.cmdline) - Len(cmd) \in Nat
          /\ \A k \in 1 .. Len(cmd) : cmd[k] = inp.cmdline[Len(inp.cmdline) - Len(cmd) + k]
      BY <1>0 DEF InputsRead, CmdRead
    <3>2. /\ Len(inp.cmdline) - Len(Tail(cmd)) = Len(inp.cmdline) - Len(cmd) + 1
          /\ Len(inp.cmdline) - Len(cmd) + 1 \in 1 .. Len(inp.cmdline)
          /\ Head(cmd) = inp.cmdline[Len(inp.cmdline) - Len(cmd) + 1]
          /\ \A k \in 1 .. Len(Tail(cmd)) :
               Tail(cmd)[k] = inp.cmdline[Len(inp.cmdline) - Len(Tail(cmd)) + k]
      <4> DEFINE full == inp.cmdline
                 n == Len(full) - Len(cmd)
      <4>1. full \in Seq(Item) /\ cmd \in Seq(Item) /\ cmd # <<>>
        BY <1>1, <2>0
      <4>2. n \in Nat /\ \A k \in 1 .. Len(cmd) : cmd[k] = full[n + k]
        BY <3>1
      <4> HIDE DEF full
      <4>3. /\ Len(full) - Len(Tail(cmd)) = n + 1
            /\ n + 1 \in 1 .. Len(full)
            /\ Head(cmd) = full[n + 1]
            /\ \A k \in 1 .. Len(Tail(cmd)) : Tail(cmd)[k] = full[n + 1 + k]
        <5>1. n = Len(full) - Len(cmd) /\ Len(full) \in Nat
          BY <4>1
        <5>2. /\ Len(cmd) \in Nat \ {0} /\ Len(Tail(cmd)) = Len(cmd) - 1
              /\ Head(cmd) = cmd[1]
              /\ \A k \in 1 .. Len(cmd) - 1 : Tail(cmd)[k] = cmd[k + 1]
          BY <4>1, HeadTail
        <5> HIDE DEF n
        <5>3. 1 \in 1 .. Len(cmd) /\ n + 1 \in 1 .. Len(full)
              /\ Len(full) - Len(Tail(cmd)) = n + 1
          BY <4>2, <5>1, <5>2
        <5>4. ASSUME NEW k \in 1 .. Len(Tail(cmd)) PROVE Tail(cmd)[k] = full[n + 1 + k]
          <6>1. k + 1 \in 1 .. Len(cmd) /\ n + (k + 1) = n + 1 + k /\ k \in 1 .. Len(cmd) - 1
            BY <4>2, <5>2
          <6> QED
            BY <4>2, <5>2, <6>1
        <5> QED
          BY <4>2, <5>2, <5>3, <5>4
      <4>4. Len(full) - Len(Tail(cmd)) = n + 1
        BY <4>3
      <4> HIDE DEF n
      <4>5. \A k \in 1 .. Len(Tail(cmd)) :
              Tail(cmd)[k] = full[Len(full) - Len(Tail(cmd)) + k]
        BY <4>3, <4>4
      <4> QED
        BY <4>3, <4>4, <4>5 DEF full, n
    <3>3. CmdRead' = Len(inp.cmdline) - Len(Tail(cmd))
      BY <1>0, <2>0 DEF CmdRead
    <3> QED
      BY <2>0, <3>2, <3>3 DEF CmdRead
  <2>2. MembersRead' = MembersRead
    BY <1>0, <2>0 DEF MembersRead
  <2>3. CmdRead' \in Nat /\ CmdRead \in Nat
    BY <1>0, <2>1 DEF InputsRead
  <2>4. CASE Head(cmd).file \in Obj
    <3>1. /\ ~In(Head(cmd).file, objs) /\ Len(objs') = Len(objs) + 1
          /\ objs'[Len(objs) + 1] = Head(cmd).file
          /\ \A k \in 1 .. Len(objs) : objs'[k] = objs[k]
      BY <1>2, <2>4, NewObject
    <3>2. Distinct(objs')
      BY <1>2, <2>4, NewObject
    <3>3. ASSUME NEW k \in 1 .. Len(objs')
          PROVE  \/ \E j \in 1 .. CmdRead' : inp.cmdline[j].file = objs'[k]
                 \/ \E j \in 1 .. MembersRead : inp.members[j] = objs'[k]
      <4>1. CASE k = Len(objs) + 1
        BY <2>1, <2>3, <3>1, <4>1
      <4>2. CASE k # Len(objs) + 1
        <5>1. k \in 1 .. Len(objs)
          BY <1>1, <3>1, <4>2
        <5>2. 1 .. CmdRead \subseteq 1 .. CmdRead'
          BY <2>1, <2>3
        <5> QED
          BY SMTT(30), <1>0, <3>1, <5>1, <5>2 DEF InputsRead
      <4> QED
        BY <4>1, <4>2
    <3> QED
      BY <1>0, <2>0, <2>1, <2>2, <2>3, <3>2, <3>3 DEF InputsRead
  <2>5. CASE Head(cmd).file \notin Obj
    <3>1. objs' = objs
      BY <1>2, <2>5 DEF ReadItem
    <3>2. 1 .. CmdRead \subseteq 1 .. CmdRead'
      BY <2>1, <2>3
    <3>3. \A k \in 1 .. Len(objs') :
            \/ \E j \in 1 .. CmdRead' : inp.cmdline[j].file = objs'[k]
            \/ \E j \in 1 .. MembersRead : inp.members[j] = objs'[k]
      BY <1>0, <3>1, <3>2 DEF InputsRead
    <3> QED
      BY <1>0, <2>0, <2>1, <2>2, <2>3, <3>1, <3>3 DEF InputsRead
  <2> QED
    BY <2>4, <2>5
<1>3. CASE LoadMember
  <2>0. members' = Tail(members) /\ cmd' = cmd /\ members # <<>> /\ pc' = pc
    BY <1>3 DEF LoadMember
  <2>1. /\ MembersRead' = MembersRead + 1
        /\ MembersRead + 1 \in 1 .. Len(inp.members)
        /\ Head(members) = inp.members[MembersRead + 1]
        /\ \A k \in 1 .. Len(members') : members'[k] = inp.members[MembersRead' + k]
    <3>1. /\ Len(inp.members) - Len(members) \in Nat
          /\ \A k \in 1 .. Len(members) :
               members[k] = inp.members[Len(inp.members) - Len(members) + k]
      BY <1>0 DEF InputsRead, MembersRead
    <3>2. /\ Len(inp.members) - Len(Tail(members)) = Len(inp.members) - Len(members) + 1
          /\ Len(inp.members) - Len(members) + 1 \in 1 .. Len(inp.members)
          /\ Head(members) = inp.members[Len(inp.members) - Len(members) + 1]
          /\ \A k \in 1 .. Len(Tail(members)) :
               Tail(members)[k] = inp.members[Len(inp.members) - Len(Tail(members)) + k]
      <4> DEFINE full == inp.members
                 n == Len(full) - Len(members)
      <4>1. full \in Seq(Obj) /\ members \in Seq(Obj) /\ members # <<>>
        BY <1>1, <2>0
      <4>2. n \in Nat /\ \A k \in 1 .. Len(members) : members[k] = full[n + k]
        BY <3>1
      <4> HIDE DEF full
      <4>3. /\ Len(full) - Len(Tail(members)) = n + 1
            /\ n + 1 \in 1 .. Len(full)
            /\ Head(members) = full[n + 1]
            /\ \A k \in 1 .. Len(Tail(members)) : Tail(members)[k] = full[n + 1 + k]
        <5>1. n = Len(full) - Len(members) /\ Len(full) \in Nat
          BY <4>1
        <5>2. /\ Len(members) \in Nat \ {0} /\ Len(Tail(members)) = Len(members) - 1
              /\ Head(members) = members[1]
              /\ \A k \in 1 .. Len(members) - 1 : Tail(members)[k] = members[k + 1]
          BY <4>1, HeadTail
        <5> HIDE DEF n
        <5>3. 1 \in 1 .. Len(members) /\ n + 1 \in 1 .. Len(full)
              /\ Len(full) - Len(Tail(members)) = n + 1
          BY <4>2, <5>1, <5>2
        <5>4. ASSUME NEW k \in 1 .. Len(Tail(members)) PROVE Tail(members)[k] = full[n + 1 + k]
          <6>1. k + 1 \in 1 .. Len(members) /\ n + (k + 1) = n + 1 + k /\ k \in 1 .. Len(members) - 1
            BY <4>2, <5>2
          <6> QED
            BY <4>2, <5>2, <6>1
        <5> QED
          BY <4>2, <5>2, <5>3, <5>4
      <4>4. Len(full) - Len(Tail(members)) = n + 1
        BY <4>3
      <4> HIDE DEF n
      <4>5. \A k \in 1 .. Len(Tail(members)) :
              Tail(members)[k] = full[Len(full) - Len(Tail(members)) + k]
        BY <4>3, <4>4
      <4> QED
        BY <4>3, <4>4, <4>5 DEF full, n
    <3>3. MembersRead' = Len(inp.members) - Len(Tail(members))
      BY <1>0, <2>0 DEF MembersRead
    <3> QED
      BY <2>0, <3>2, <3>3 DEF MembersRead
  <2>2. CmdRead' = CmdRead
    BY <1>0, <2>0 DEF CmdRead
  <2>3. MembersRead' \in Nat /\ MembersRead \in Nat
    BY <1>0, <2>1 DEF InputsRead
  <2>4. ~ReadItem
    BY <1>3 DEF ReadItem, LoadMember
  <2>5. /\ ~In(Head(members), objs) /\ Len(objs') = Len(objs) + 1
        /\ objs'[Len(objs) + 1] = Head(members)
        /\ \A k \in 1 .. Len(objs) : objs'[k] = objs[k]
    BY <1>3, <2>4, NewObject
  <2>6. Distinct(objs')
    BY <1>3, <2>4, NewObject
  <2>7. ASSUME NEW k \in 1 .. Len(objs')
        PROVE  \/ \E j \in 1 .. CmdRead : inp.cmdline[j].file = objs'[k]
               \/ \E j \in 1 .. MembersRead' : inp.members[j] = objs'[k]
    <3>1. CASE k = Len(objs) + 1
      BY <2>1, <2>3, <2>5, <3>1
    <3>2. CASE k # Len(objs) + 1
      <4>1. k \in 1 .. Len(objs)
        BY <1>1, <2>5, <3>2
      <4>2. 1 .. MembersRead \subseteq 1 .. MembersRead'
        BY <2>1, <2>3
      <4> QED
        BY SMTT(30), <1>0, <2>5, <4>1, <4>2 DEF InputsRead
    <3> QED
      BY <3>1, <3>2
  <2> QED
    BY <1>0, <2>0, <2>1, <2>2, <2>3, <2>6, <2>7 DEF InputsRead
<1>4. CASE ~ReadItem /\ ~LoadMember
  BY <1>0, <1>4, OtherInputs DEF InputsRead, CmdRead, MembersRead
<1> QED
  BY <1>2, <1>3, <1>4

LEMMA OtherQueue ==
  ASSUME [Next]_vars, ~ReadItem, ~LoadMember, ~TakeFrontier,
         \A o \in Obj : ~EnqueueParsed(o) /\ ~NotifyParsed(o)
  PROVE  UNCHANGED <<objs, objState, ready, nextAuto>>
BY DEF vars, frontierVars, inputVars, Next, MainStep, ParserStep, Finished, RestoreReader,
   EndOfCommandLine, ServeObject, ServeOption, EndOptions, LeaveOrRepeat, WaitForFrontier,
   HoistNext, HoistLibrary, EndHoisting, DedupDylib, RedirectNames, RedirectNext,
   RedirectHoisted, EndDedup, DrainMembers, StartErase, EraseDead, EndErase,
   TakeTicket, CreateChild, ParseReturns

(* The position of an object that was read. *)
LEMMA OrdinalFacts ==
  ASSUME IInv, NEW o \in Obj, objState[o] # "none"
  PROVE  /\ Ordinal(o) \in 1 .. Len(objs) /\ objs[Ordinal(o)] = o
         /\ \A k \in 1 .. Len(objs) : objs[k] = o => k = Ordinal(o)
<1>1. \E k \in 1 .. Len(objs) : objs[k] = o
  BY DEF IInv, Queue, In
<1>2. Ordinal(o) \in 1 .. Len(objs) /\ objs[Ordinal(o)] = o
  BY <1>1 DEF Ordinal
<1> QED
  BY <1>2 DEF IInv, InputsRead, Distinct

LEMMA QueueStep ==
  ASSUME IInv, [Next]_vars
  PROVE  Queue'
<1>0. /\ Types /\ Queue /\ InputsRead
      /\ Len(objs) \in Nat /\ nextAuto \in Nat \ {0} /\ nextAuto <= Len(objs) + 1
      /\ objState \in [Obj -> {"none", "parsing", "queued", "parsed"}]
      /\ \A k \in 1 .. Len(objs) : objs[k] \in Obj
      /\ ready \subseteq nextAuto .. Len(objs)
  BY Lengths DEF IInv, Types, Queue
<1>1. CASE (ReadItem /\ Head(cmd).file \in Obj) \/ LoadMember
  <2> DEFINE o == IF ReadItem THEN Head(cmd).file ELSE Head(members)
  <2>1. /\ o \in Obj /\ ~In(o, objs)
        /\ objState' = [objState EXCEPT ![o] = "parsing"]
        /\ Len(objs') = Len(objs) + 1 /\ objs'[Len(objs) + 1] = o
        /\ \A k \in 1 .. Len(objs) : objs'[k] = objs[k]
        /\ \A y : In(y, objs') <=> In(y, objs) \/ y = o
        /\ \A k \in 1 .. Len(objs) : objState'[objs[k]] = objState[objs[k]]
    BY <1>1, NewObject
  <2>2. ready' = ready /\ nextAuto' = nextAuto
    BY <1>1 DEF ReadItem, LoadMember, frontierVars
  <2> HIDE DEF o
  <2>3. nextAuto' <= Len(objs') + 1 /\ ready' \subseteq nextAuto' .. Len(objs')
    BY <1>0, <2>1, <2>2
  <2>4. ASSUME NEW k \in 1 .. Len(objs')
        PROVE  objState'[objs'[k]] \in {"queued", "parsed"} <=> k \in ready' \/ k < nextAuto'
    <3>1. CASE k = Len(objs) + 1
      <4>1. objState'[objs'[k]] = "parsing"
        BY <1>0, <2>1, <3>1
      <4>2. k \notin ready /\ ~(k < nextAuto)
        BY <1>0, <3>1
      <4> QED
        BY <2>2, <4>1, <4>2
    <3>2. CASE k # Len(objs) + 1
      <4>1. k \in 1 .. Len(objs)
        BY <1>0, <2>1, <3>2
      <4> QED
        BY <1>0, <2>1, <2>2, <4>1 DEF Queue
    <3> QED
      BY <3>1, <3>2
  <2>5. \A y \in Obj : objState'[y] # "none" => In(y, objs')
    BY <1>0, <2>1 DEF Queue
  <2> QED
    BY <2>3, <2>4, <2>5 DEF Queue
<1>2. ASSUME NEW o \in Obj, EnqueueParsed(o)
      PROVE  Queue'
  <2> DEFINE n == Ordinal(o)
  <2>1. /\ objState[o] = "parsing" /\ objState' = [objState EXCEPT ![o] = "queued"]
        /\ ready' = ready \cup {n} /\ UNCHANGED <<objs, nextAuto>>
    BY <1>2 DEF EnqueueParsed
  <2>2. /\ n \in 1 .. Len(objs) /\ objs[n] = o
        /\ \A k \in 1 .. Len(objs) : objs[k] = o => k = n
    BY <2>1, OrdinalFacts
  <2> HIDE DEF n
  <2>3. ~(n < nextAuto)
    BY <1>0, <2>1, <2>2 DEF Queue
  <2>4. ready' \subseteq nextAuto .. Len(objs)
    BY <1>0, <2>1, <2>2, <2>3
  <2>5. ASSUME NEW k \in 1 .. Len(objs)
        PROVE  objState'[objs[k]] \in {"queued", "parsed"} <=> k \in ready' \/ k < nextAuto
    BY <1>0, <2>1, <2>2 DEF Queue
  <2>6. \A y \in Obj : objState'[y] # "none" => In(y, objs)
    BY <1>0, <2>1, <2>2 DEF Queue, In
  <2> QED
    BY <1>0, <2>1, <2>4, <2>5, <2>6 DEF Queue
<1>3. ASSUME NEW o \in Obj, NotifyParsed(o)
      PROVE  Queue'
  <2>1. /\ objState[o] = "queued" /\ objState' = [objState EXCEPT ![o] = "parsed"]
        /\ UNCHANGED <<objs, nextAuto, ready>>
    BY <1>3 DEF NotifyParsed, frontierVars
  <2>2. \A y \in Obj : /\ objState'[y] \in {"queued", "parsed"} <=> objState[y] \in {"queued", "parsed"}
                       /\ objState'[y] # "none" <=> objState[y] # "none"
    BY <1>0, <2>1
  <2> QED
    BY <1>0, <2>1, <2>2 DEF Queue
<1>4. CASE TakeFrontier
  <2> DEFINE e == ReadyEnd
  <2>1. e \in nextAuto .. Len(objs) + 1 /\ e \notin ready /\ nextAuto .. e - 1 \subseteq ready
    BY <1>0, ReadyEndFacts
  <2>2. /\ nextAuto' = e /\ ready' = ready \ (nextAuto .. e - 1)
        /\ UNCHANGED <<objs, objState>>
    BY <1>4 DEF TakeFrontier
  <2> HIDE DEF e
  <2>3. ready' \subseteq e .. Len(objs) /\ e <= Len(objs) + 1
    BY <1>0, <2>1, <2>2
  <2>4. \A k \in 1 .. Len(objs) : k \in ready' \/ k < e <=> k \in ready \/ k < nextAuto
    BY <1>0, <2>1, <2>2
  <2> QED
    BY <1>0, <2>2, <2>3, <2>4 DEF Queue
<1>5. CASE ReadItem /\ Head(cmd).file \notin Obj
  BY <1>0, <1>5 DEF ReadItem, Queue, frontierVars
<1>6. CASE /\ ~ReadItem /\ ~LoadMember /\ ~TakeFrontier
           /\ \A o \in Obj : ~EnqueueParsed(o) /\ ~NotifyParsed(o)
  BY <1>0, <1>6, OtherQueue DEF Queue
<1> QED
  BY <1>1, <1>2, <1>3, <1>4, <1>5, <1>6

-----------------------------------------------------------------------------
(***************************************************************************)
(* The dylibs listed, parsed and hoisted.                                  *)
(***************************************************************************)
LEMMA OtherDylibs ==
  ASSUME [Next]_vars, ~ReadItem, ~ServeOption, ~HoistLibrary, ~EndDedup, ~EraseDead
  PROVE  dylibs' = dylibs
BY DEF vars, Next, MainStep, ParserStep, Finished, RestoreReader, EndOfCommandLine,
   TakeFrontier, ServeObject, EndOptions, LeaveOrRepeat, WaitForFrontier,
   HoistNext, EndHoisting, DedupDylib, RedirectNames, RedirectNext,
   RedirectHoisted, LoadMember, DrainMembers, StartErase, EndErase,
   EnqueueParsed, NotifyParsed, TakeTicket, CreateChild, ParseReturns

LEMMA OtherRest ==
  ASSUME [Next]_vars, ~HoistNext, ~HoistLibrary, ~RedirectNext, ~RedirectHoisted
  PROVE  rest' = rest \/ rest' = <<>>
BY DEF vars, frontierVars, walkVars, Next, MainStep, ParserStep, Finished, ReadItem,
   RestoreReader, EndOfCommandLine, TakeFrontier, ServeObject, ServeOption, EndOptions,
   LeaveOrRepeat, WaitForFrontier, EndHoisting, DedupDylib, RedirectNames,
   EndDedup, LoadMember, DrainMembers, StartErase, EraseDead, EndErase,
   EnqueueParsed, NotifyParsed, TakeTicket, CreateChild, ParseReturns

LEMMA OtherParsed ==
  ASSUME [Next]_vars, \A t \in tasks : ~ParseReturns(t)
  PROVE  parsed' = parsed
BY DEF vars, Next, MainStep, ParserStep, Finished, ReadItem,
   RestoreReader, EndOfCommandLine, TakeFrontier, ServeObject, ServeOption, EndOptions,
   LeaveOrRepeat, WaitForFrontier, HoistNext, HoistLibrary, EndHoisting, DedupDylib,
   RedirectNames, RedirectNext, RedirectHoisted, EndDedup, LoadMember, DrainMembers,
   StartErase, EraseDead, EndErase, EnqueueParsed, NotifyParsed, TakeTicket, CreateChild

(* A parse task that returns enters its dylib in parsed. *)
LEMMA ParsedGrows ==
  ASSUME IInv, [Next]_vars
  PROVE  parsed \subseteq parsed' /\ parsed' \subseteq 1 .. Len(dfile')
<1>0. /\ Types /\ Ids /\ Running /\ Len(dfile) \in Nat /\ Len(dfile') \in Nat
      /\ Len(dfile) <= Len(dfile') /\ parsed \subseteq 1 .. Len(dfile)
  BY FilesStep DEF IInv, Ids
<1>1. 1 .. Len(dfile) \subseteq 1 .. Len(dfile')
  BY <1>0
<1>2. ASSUME NEW t \in tasks, ParseReturns(t)
      PROVE  parsed \subseteq parsed' /\ parsed' \subseteq 1 .. Len(dfile')
  <2>1. parsed' = parsed \cup {Head(t).id}
    BY <1>2 DEF ParseReturns
  <2>2. Head(t).id \in 1 .. Len(dfile)
    BY <1>0, TaskFacts
  <2> QED
    BY <1>0, <1>1, <2>1, <2>2
<1> QED
  BY <1>0, <1>1, <1>2, OtherParsed

(* What a parse task hoists is parsed. *)
LEMMA ParserHoisted ==
  ASSUME Types, Ids, Running, NEW t \in tasks, CreateChild(t) \/ ParseReturns(t),
         parsed \subseteq parsed'
  PROVE  \A k \in 1 .. Len(dfile') : \A j \in 1 .. Len(dfile'[k].hoisted) :
           dfile'[k].hoisted[j] \in parsed'
<1>0. Len(dfile) \in Nat /\ dfile \in Seq(Dylib)
  BY Lengths DEF Types
<1>00. \A k \in 1 .. Len(dfile) : \A j \in 1 .. Len(dfile[k].hoisted) :
         dfile[k].hoisted[j] \in parsed'
  BY DEF Ids
<1>1. CASE CreateChild(t)
  <2> DEFINE new == NewDylib(Head(Head(t).rest), reader, Head(t).ticket)
  <2>1. dfile' = Append(dfile, new) /\ new.hoisted = <<>>
    BY <1>1 DEF CreateChild, NewDylib
  <2>2. Len(new.hoisted) = 0
    BY <2>1
  <2> HIDE DEF new
  <2>3. ASSUME NEW k \in 1 .. Len(dfile'), NEW j \in 1 .. Len(dfile'[k].hoisted)
        PROVE  dfile'[k].hoisted[j] \in parsed'
    <3>1. Len(dfile') = Len(dfile) + 1 /\ dfile'[k] = IF k = Len(dfile) + 1 THEN new ELSE dfile[k]
      BY <1>0, <2>1
    <3>2. CASE k = Len(dfile) + 1
      BY <2>2, <3>1, <3>2
    <3>3. CASE k # Len(dfile) + 1
      <4>1. k \in 1 .. Len(dfile) /\ dfile'[k] = dfile[k]
        BY <1>0, <3>1, <3>3
      <4> QED
        BY <4>1, <1>00
    <3> QED
      BY <3>2, <3>3
  <2> QED
    BY <2>3
<1>2. CASE ParseReturns(t)
  <2> DEFINE c == t[1].id
             q == t[2].id
  <2>1. c \in 1 .. Len(dfile) /\ Head(t).id = c /\ Len(t) \in Nat \ {0}
    BY TaskFacts
  <2>2. c \in parsed'
    BY <1>2, <2>1 DEF ParseReturns
  <2>3. CASE Len(t) = 1
    BY <1>00, <1>2, <2>3 DEF ParseReturns
  <2>4. CASE Len(t) # 1
    <3>1. q \in 1 .. Len(dfile)
      <4>1. \A n \in Nat \ {0} : n # 1 => 1 < n /\ 2 \in 1 .. n
        OBVIOUS
      <4> QED
        BY <2>1, <2>4, <4>1, TaskFacts
    <3>2. dfile[q].hoisted \in Seq(Nat) /\ dfile[c].hoisted \in Seq(Nat) /\ c \in Nat
      BY <2>1, <3>1, DylibFields, <1>0
    <3>3. /\ \A j \in 1 .. Len(dfile[q].hoisted) : dfile[q].hoisted[j] \in parsed'
          /\ \A j \in 1 .. Len(dfile[c].hoisted) : dfile[c].hoisted[j] \in parsed'
      BY <1>00, <2>1, <3>1
    <3>4. PICK list \in Seq(Nat) :
            /\ \/ dfile' = [dfile EXCEPT ![q].hoisted = list]
               \/ dfile' = [dfile EXCEPT ![q].hoisted = list, ![c].alive = FALSE]
            /\ \A j \in 1 .. Len(list) : list[j] \in parsed'
      <4>1. CASE dfile' = [dfile EXCEPT ![q].hoisted = Append(@, c), ![c].alive = FALSE]
        <5> DEFINE l == Append(dfile[q].hoisted, c)
        <5>1. l \in Seq(Nat) /\ \A j \in 1 .. Len(l) : l[j] \in parsed'
          <6> DEFINE h == dfile[q].hoisted
          <6>1. h \in Seq(Nat) /\ \A j \in 1 .. Len(h) : h[j] \in parsed'
            BY <3>2, <3>3
          <6>2. c \in Nat /\ c \in parsed'
            BY <2>2, <3>2
          <6> HIDE DEF h, c
          <6>3. /\ Append(h, c) \in Seq(Nat)
                /\ \A j \in 1 .. Len(Append(h, c)) : Append(h, c)[j] \in parsed'
            BY <6>1, <6>2
          <6> QED
            BY <6>3 DEF h
        <5> QED
          BY <4>1, <5>1
      <4>2. CASE dfile' = [dfile EXCEPT ![q].hoisted = @ \o dfile[c].hoisted]
        <5> DEFINE l == dfile[q].hoisted \o dfile[c].hoisted
        <5>1. l \in Seq(Nat) /\ \A j \in 1 .. Len(l) : l[j] \in parsed'
          <6> DEFINE h == dfile[q].hoisted
                     g == dfile[c].hoisted
          <6>1. /\ h \in Seq(Nat) /\ \A j \in 1 .. Len(h) : h[j] \in parsed'
                /\ g \in Seq(Nat) /\ \A j \in 1 .. Len(g) : g[j] \in parsed'
            BY <3>2, <3>3
          <6> HIDE DEF h, g
          <6>2. /\ h \o g \in Seq(Nat)
                /\ \A j \in 1 .. Len(h \o g) : (h \o g)[j] \in parsed'
            BY <6>1
          <6> QED
            BY <6>2 DEF h, g
        <5> QED
          BY <4>2, <5>1
      <4> QED
        BY <1>2, <2>1, <2>4, <4>1, <4>2 DEF ParseReturns
    <3> DEFINE parent == [dfile[q] EXCEPT !.hoisted = list]
               mid == [dfile EXCEPT ![q] = parent]
               last == [mid[c] EXCEPT !.alive = FALSE]
    <3>5. dfile' = mid \/ dfile' = [mid EXCEPT ![c] = last]
      BY <3>4
    <3> HIDE DEF c, q
    <3>6. parent \in Dylib /\ parent.hoisted = list
      BY <3>1, <3>4, DylibFields, RecordChanged
    <3> HIDE DEF parent
    <3>7. /\ mid \in Seq(Dylib) /\ Len(mid) = Len(dfile) /\ mid[q] = parent
          /\ \A i \in 1 .. Len(dfile) : i # q => mid[i] = dfile[i]
      BY <1>0, <3>1, <3>6, ElementChanged
    <3> HIDE DEF mid
    <3>8. \A k \in 1 .. Len(dfile) : \A j \in 1 .. Len(mid[k].hoisted) :
            mid[k].hoisted[j] \in parsed'
      BY <1>00, <3>4, <3>6, <3>7
    <3>9. last \in Dylib /\ last.hoisted = mid[c].hoisted
      <4>1. mid[c] \in Dylib
        BY <2>1, <3>7
      <4> QED
        BY <4>1 DEF Dylib
    <3> HIDE DEF last
    <3>10. CASE dfile' = mid
      BY <3>7, <3>8, <3>10
    <3>11. CASE dfile' = [mid EXCEPT ![c] = last]
      <4>1. /\ Len(dfile') = Len(dfile) /\ dfile'[c] = last
            /\ \A i \in 1 .. Len(dfile) : i # c => dfile'[i] = mid[i]
        BY <2>1, <3>7, <3>9, <3>11, ElementChanged
      <4>2. \A k \in 1 .. Len(dfile) : dfile'[k].hoisted = mid[k].hoisted
        BY <3>9, <4>1
      <4> QED
        BY <3>8, <4>1, <4>2
    <3> QED
      BY <3>5, <3>10, <3>11
  <2> QED
    BY <2>3, <2>4
<1> QED
  BY <1>1, <1>2

(* The list of dylibs holds files, each one once. *)
LEMMA ListStep ==
  ASSUME IInv, [Next]_vars
  PROVE  /\ \A k \in 1 .. Len(dylibs') : dylibs'[k] \in 1 .. Len(dfile')
         /\ Distinct(dylibs')
<1>0. /\ Types /\ Ids /\ Names /\ Walks /\ Len(dylibs) \in Nat /\ dylibs \in Seq(Nat)
      /\ Len(dfile) \in Nat /\ Len(dfile') \in Nat /\ Len(dfile) <= Len(dfile')
      /\ Distinct(dylibs)
      /\ \A k \in 1 .. Len(dylibs) : dylibs[k] \in 1 .. Len(dfile)
  BY FilesStep, Lengths DEF IInv, Ids, Types
<1>1. 1 .. Len(dfile) \subseteq 1 .. Len(dfile')
  BY <1>0
<1>2. CASE dylibs' = dylibs
  BY <1>0, <1>1, <1>2
<1>3. ASSUME NEW x \in 1 .. Len(dfile'), ~In(x, dylibs), dylibs' = Append(dylibs, x)
      PROVE  /\ \A k \in 1 .. Len(dylibs') : dylibs'[k] \in 1 .. Len(dfile')
             /\ Distinct(dylibs')
  <2>1. x \in Nat
    BY <1>0
  <2>2. /\ Len(dylibs') = Len(dylibs) + 1 /\ dylibs'[Len(dylibs) + 1] = x
        /\ \A k \in 1 .. Len(dylibs) : dylibs'[k] = dylibs[k]
    BY <1>0, <1>3, <2>1, Appended
  <2>3. Distinct(dylibs')
    BY <1>0, <1>3, <2>1, AppendedTo
  <2>4. ASSUME NEW k \in 1 .. Len(dylibs') PROVE dylibs'[k] \in 1 .. Len(dfile')
    <3>1. k \in 1 .. Len(dylibs) \/ k = Len(dylibs) + 1
      BY <1>0, <2>2
    <3> QED
      BY <1>0, <1>1, <2>2, <3>1
  <2> QED
    BY <2>3, <2>4
<1>4. CASE ReadItem \/ ServeOption
  <2>1. CASE dylibs' # dylibs
    <3>1. PICK l \in Lib, mode \in Modes : ReadLibrary(l, mode)
      BY <1>0, <1>4, <2>1, ReadStep
    <3>2. Len(dfile') = Len(dfile) + 1 /\ dylibs' = Append(dylibs, Len(dfile'))
      BY <1>0, <2>1, <3>1, ReadFiles
    <3>3. ~In(Len(dfile'), dylibs) /\ Len(dfile') \in 1 .. Len(dfile')
      BY <1>0, <3>2 DEF In
    <3> QED
      BY <1>3, <3>2, <3>3
  <2> QED
    BY <1>2, <2>1
<1>5. CASE HoistLibrary
  <2>1. rest \in Seq(Nat) /\ rest # <<>> /\ dylibs' = Hoist(dylibs, Head(rest))
    BY <1>0, <1>5 DEF HoistLibrary, Types
  <2>2. Head(rest) = rest[1] /\ Len(rest) \in Nat \ {0}
    BY <2>1, HeadTail
  <2>3. Head(rest) \in 1 .. Len(dfile)
    <3>1. 1 \in 1 .. Len(rest)
      BY <2>2
    <3> QED
      BY <1>0, <2>2, <3>1 DEF Ids
  <2>4. CASE ~Listed(dylibs, Head(rest))
    <3>1. ~In(Head(rest), dylibs)
      BY <2>4 DEF Listed, In, SameName
    <3>2. dylibs' = Append(dylibs, Head(rest))
      BY <2>1, <2>4 DEF Hoist
    <3> QED
      BY <1>1, <1>3, <2>3, <3>1, <3>2
  <2> QED
    BY <1>2, <2>1, <2>4 DEF Hoist
<1>6. CASE EndDedup
  <2>1. dylibs' = kept /\ pc = "redirect"
    BY <1>6 DEF EndDedup
  <2>2. \A k \in 1 .. Len(kept) : kept[k] \in 1 .. Len(dfile)
    BY <1>0, <2>1, KeptIds
  <2>3. Distinct(kept)
    BY <1>0, <2>1 DEF Distinct, Walks, SameName
  <2> QED
    BY <1>1, <2>1, <2>2, <2>3
<1>7. CASE EraseDead
  <2>1. PICK n \in 1 .. Len(dylibs) : dylibs' = RemoveAt(dylibs, n)
    BY <1>7 DEF EraseDead
  <2>2. /\ Len(dylibs') = Len(dylibs) - 1
        /\ \A i \in 1 .. Len(dylibs) - 1 :
             dylibs'[i] = IF i < n THEN dylibs[i] ELSE dylibs[i + 1]
    BY <1>0, <2>1, Erased
  <2>3. \A i \in 1 .. Len(dylibs) - 1 : i \in 1 .. Len(dylibs) /\ i + 1 \in 1 .. Len(dylibs)
    BY <1>0
  <2>4. \A k \in 1 .. Len(dylibs') : dylibs'[k] \in 1 .. Len(dfile')
    BY <1>0, <1>1, <2>2, <2>3
  <2>5. ASSUME NEW i \in 1 .. Len(dylibs'), NEW j \in 1 .. Len(dylibs'), dylibs'[i] = dylibs'[j]
        PROVE  i = j
    <3>1. i \in 1 .. Len(dylibs) - 1 /\ j \in 1 .. Len(dylibs) - 1 /\ i \in Nat /\ j \in Nat
      BY <2>2, <1>0
    <3> DEFINE a == IF i < n THEN i ELSE i + 1
               b == IF j < n THEN j ELSE j + 1
    <3>2. dylibs'[i] = dylibs[a] /\ dylibs'[j] = dylibs[b]
      BY <2>2, <3>1
    <3>3. a \in 1 .. Len(dylibs) /\ b \in 1 .. Len(dylibs)
      BY <2>3, <3>1
    <3>4. a = b
      BY <1>0, <2>5, <3>2, <3>3 DEF Distinct
    <3> QED
      BY SMTT(30), <1>0, <3>1, <3>4
  <2> QED
    BY <2>4, <2>5 DEF Distinct
<1> QED
  BY <1>2, <1>4, <1>5, <1>6, <1>7, OtherDylibs

LEMMA IdsStep ==
  ASSUME IInv, [Next]_vars
  PROVE  Ids'
<1>0. /\ Types /\ Ids /\ Names /\ Walks /\ Running /\ Waited
      /\ Len(dfile) \in Nat /\ Len(dfile') \in Nat /\ dfile \in Seq(Dylib)
      /\ parsed \subseteq parsed' /\ parsed' \subseteq 1 .. Len(dfile')
  BY FilesStep, ParsedGrows DEF IInv, Types
<1>1. /\ \A k \in 1 .. Len(dfile) : \A j \in 1 .. Len(dfile[k].hoisted) :
           dfile[k].hoisted[j] \in parsed'
      /\ \A j \in 1 .. Len(rest) : rest[j] \in parsed'
  BY <1>0 DEF Ids
<1>2. \A k \in 1 .. Len(dfile') : \A j \in 1 .. Len(dfile'[k].hoisted) :
        dfile'[k].hoisted[j] \in parsed'
  <2>1. CASE ReadItem \/ ServeOption
    <3>1. CASE dfile' # dfile
      <4>1. PICK l \in Lib, mode \in Modes : ReadLibrary(l, mode)
        BY <1>0, <2>1, <3>1, ReadStep
      <4>2. /\ \A k \in 1 .. Len(dfile) : dfile'[k].hoisted = dfile[k].hoisted
            /\ \/ Len(dfile') = Len(dfile)
               \/ Len(dfile') = Len(dfile) + 1 /\ dfile'[Len(dfile')].hoisted = <<>>
        BY <1>0, <4>1, ReadFiles
      <4>3. ASSUME NEW k \in 1 .. Len(dfile'), NEW j \in 1 .. Len(dfile'[k].hoisted)
            PROVE  dfile'[k].hoisted[j] \in parsed'
        <5>1. k \in 1 .. Len(dfile) \/ dfile'[k].hoisted = <<>>
          BY <1>0, <4>2
        <5>2. CASE dfile'[k].hoisted = <<>>
          BY <4>3, <5>2
        <5> QED
          BY <1>1, <4>2, <5>1, <5>2, <4>3
      <4> QED
        BY <4>3
    <3> QED
      BY <1>1, <3>1
  <2>2. CASE DedupDylib
    BY <1>0, <1>1, <2>2, DedupFacts
  <2>3. CASE RedirectNext \/ RedirectHoisted
    <3> DEFINE t == Redirect(Head(rest))
    <3>1. PICK d \in 1 .. Len(dfile) :
           /\ Len(dfile') = Len(dfile)
           /\ \A k \in 1 .. Len(dfile) : k # d => dfile'[k] = dfile[k]
           /\ RedirectNext => dfile'[d].hoisted = <<>>
           /\ RedirectHoisted =>
                dfile'[d].hoisted \in {dfile[d].hoisted, Append(dfile[d].hoisted, t)}
      BY <1>0, <2>3, RedirectFacts
    <3>2. RedirectHoisted => t \in parsed' /\ t \in Nat
      <4>1. SUFFICES ASSUME RedirectHoisted PROVE t \in parsed' /\ t \in Nat
        OBVIOUS
      <4>2. rest \in Seq(Nat) /\ rest # <<>> /\ pc = "redirect"
        BY <1>0, <4>1 DEF RedirectHoisted, Types
      <4>3. Head(rest) \in parsed' /\ Head(rest) \in Nat
        <5>1. Head(rest) = rest[1] /\ Len(rest) \in Nat \ {0} /\ Head(rest) \in Nat
          BY <4>2, HeadTail
        <5> QED
          BY <1>1, <5>1
      <4>4. kept \in Seq(Nat) /\ DylibsParsed
        BY <1>0, <4>2 DEF Types, Waited
      <4>5. \A k \in 1 .. Len(kept) : kept[k] \in parsed'
        BY <1>0, <4>2, <4>4 DEF Walks, In, DylibsParsed
      <4>6. Canonical(Head(rest)) \in parsed'
        BY <4>3, <4>4, <4>5, CanonicalFacts
      <4>7. t \in parsed'
        BY <4>3, <4>6 DEF Redirect
      <4> QED
        BY <1>0, <4>7, <4>3, CanonicalType
    <3> HIDE DEF t
    <3>3. dfile[d].hoisted \in Seq(Nat)
      BY <1>0, DylibFields
    <3>4. \A j \in 1 .. Len(dfile'[d].hoisted) : dfile'[d].hoisted[j] \in parsed'
      <4> DEFINE h == dfile[d].hoisted
                 g == dfile'[d].hoisted
      <4>1. h \in Seq(Nat) /\ \A j \in 1 .. Len(h) : h[j] \in parsed'
        BY <1>1, <3>3
      <4>2. g = <<>> \/ g = h \/ (g = Append(h, t) /\ t \in Nat /\ t \in parsed')
        BY <2>3, <3>1, <3>2
      <4> HIDE DEF h, g
      <4>3. \A j \in 1 .. Len(g) : g[j] \in parsed'
        <5>1. CASE g = Append(h, t) /\ t \in Nat /\ t \in parsed'
          BY <4>1, <5>1
        <5>2. CASE g = <<>>
          BY <5>2
        <5> QED
          BY <4>1, <4>2, <5>1, <5>2
      <4> QED
        BY <4>3 DEF g
    <3> QED
      BY <1>1, <3>1, <3>4
  <2>4. ASSUME NEW t \in tasks, CreateChild(t) \/ ParseReturns(t)
        PROVE  \A k \in 1 .. Len(dfile') : \A j \in 1 .. Len(dfile'[k].hoisted) :
                 dfile'[k].hoisted[j] \in parsed'
    BY <1>0, <2>4, ParserHoisted
  <2>5. CASE dfile' = dfile
    BY <1>1, <2>5
  <2> QED
    BY <2>1, <2>2, <2>3, <2>4, <2>5, OtherSteps
<1>3. \A j \in 1 .. Len(rest') : rest'[j] \in parsed'
  <2>1. CASE HoistLibrary \/ RedirectHoisted
    <3>1. rest' = Tail(rest) /\ rest # <<>> /\ rest \in Seq(Nat)
      BY <1>0, <2>1 DEF HoistLibrary, RedirectHoisted, Types
    <3>2. /\ Len(rest) \in Nat /\ Len(rest') = Len(rest) - 1
          /\ \A k \in 1 .. Len(rest) - 1 : rest'[k] = rest[k + 1]
      BY <3>1, HeadTail
    <3>3. \A k \in 1 .. Len(rest) - 1 : k + 1 \in 1 .. Len(rest)
      BY <3>2
    <3> QED
      BY <1>1, <3>2, <3>3
  <2>2. CASE HoistNext
    <3>1. at + 1 \in 1 .. Len(dylibs) /\ rest' = dfile[dylibs[at + 1]].hoisted
      BY SMTT(30), <1>0, <2>2, Lengths DEF HoistNext
    <3> QED
      BY <1>0, <1>1, <3>1 DEF Ids
  <2>3. CASE RedirectNext
    <3>1. PICK d \in 1 .. Len(dfile) : rest' = dfile[d].hoisted
      BY <1>0, <2>3, RedirectFacts
    <3> QED
      BY <1>1, <3>1
  <2>4. CASE rest' = rest
    BY <1>1, <2>4
  <2>5. CASE rest' = <<>>
    BY <2>5
  <2> QED
    BY <2>1, <2>2, <2>3, <2>4, <2>5, OtherRest
<1> QED
  BY <1>0, <1>2, <1>3, ListStep DEF Ids

-----------------------------------------------------------------------------
(***************************************************************************)
(* The parse tasks.                                                        *)
(***************************************************************************)
LEMMA OtherTasks ==
  ASSUME [Next]_vars, ~ReadItem, ~ServeOption,
         \A t \in tasks : ~TakeTicket(t) /\ ~CreateChild(t) /\ ~ParseReturns(t)
  PROVE  tasks' = tasks
BY DEF vars, Next, MainStep, ParserStep, Finished, RestoreReader, EndOfCommandLine,
   TakeFrontier, ServeObject, EndOptions, LeaveOrRepeat, WaitForFrontier,
   HoistNext, HoistLibrary, EndHoisting, DedupDylib, RedirectNames, RedirectNext,
   RedirectHoisted, EndDedup, LoadMember, DrainMembers, StartErase, EraseDead, EndErase,
   EnqueueParsed, NotifyParsed

(* A task goes on with another stack. *)
LEMMA Replaced ==
  ASSUME IInv, [Next]_vars, dylibs' = dylibs, NEW t \in tasks, NEW u,
         u # <<>>, Root(u) = Root(t),
         \A i \in 1 .. Len(u) : u[i].id \in 1 .. Len(dfile'),
         \A i \in 1 .. Len(u) - 1 : ~In(u[i].id, dylibs),
         tasks' = (tasks \ {t}) \cup {u},
         \A v \in tasks : Root(v) \notin parsed'
  PROVE  Running'
<1>0. Running /\ Len(dfile) \in Nat /\ Len(dfile') \in Nat /\ Len(dfile) <= Len(dfile')
  BY FilesStep DEF IInv
<1>1. 1 .. Len(dfile) \subseteq 1 .. Len(dfile')
  BY <1>0
<1>2. ASSUME NEW v \in tasks'
      PROVE  /\ v # <<>>
             /\ \A i \in 1 .. Len(v) : v[i].id \in 1 .. Len(dfile')
             /\ In(Root(v), dylibs') /\ Root(v) \notin parsed'
             /\ \A i \in 1 .. Len(v) - 1 : ~In(v[i].id, dylibs')
  <2>1. CASE v = u
    BY <1>0, <2>1 DEF Running
  <2>2. CASE v # u
    BY <1>0, <1>1, <2>2 DEF Running
  <2> QED
    BY <2>1, <2>2
<1>3. ASSUME NEW v \in tasks', NEW w \in tasks', Root(v) = Root(w)
      PROVE  v = w
  BY <1>0, <1>3 DEF Running
<1> QED
  BY <1>2, <1>3 DEF Running

(* The dylib of a frame that is not the last one is not that of a task. *)
LEMMA TopIsNoRoot ==
  ASSUME Types, Running, NEW t \in tasks, NEW v \in tasks, Root(v) = t[1].id
  PROVE  v = t /\ Len(t) = 1
<1>1. Len(t) \in Nat \ {0}
  BY TaskFacts
<1>2. CASE Len(t) = 1
  BY <1>2 DEF Running, Root
<1>3. CASE Len(t) # 1
  <2>0. \A n \in Nat \ {0} : n # 1 => 1 \in 1 .. n - 1
    OBVIOUS
  <2>1. 1 \in 1 .. Len(t) - 1
    BY <1>1, <1>3, <2>0
  <2> QED
    BY <2>1 DEF Running
<1> QED
  BY <1>2, <1>3

LEMMA RunningStep ==
  ASSUME IInv, [Next]_vars
  PROVE  Running'
<1>0. /\ Types /\ Ids /\ Names /\ Walks /\ Running /\ Waited
      /\ Len(dfile) \in Nat /\ Len(dfile') \in Nat /\ Len(dfile) <= Len(dfile')
      /\ dylibs \in Seq(Nat)
  BY FilesStep DEF IInv, Types
<1>00. 1 .. Len(dfile) \subseteq 1 .. Len(dfile')
  BY <1>0
<1>1. CASE tasks' = {}
  BY <1>1 DEF Running
<1>2. CASE tasks' = tasks /\ dylibs' = dylibs /\ parsed' = parsed
  BY <1>0, <1>00, <1>2 DEF Running
<1>3. CASE HoistLibrary \/ EndDedup \/ EraseDead
  <2>1. tasks' = tasks /\ pc \in {"hoist", "redirect", "erase"}
    BY <1>3 DEF HoistLibrary, EndDedup, EraseDead
  <2> QED
    BY <1>0, <1>1, <2>1 DEF Waited
<1>4. CASE ReadItem \/ ServeOption
  <2>1. parsed' = parsed
    BY <1>4 DEF ReadItem, ServeOption
  <2>2. CASE dylibs' # dylibs \/ tasks' # tasks
    <3>1. PICK l \in Lib, mode \in Modes : ReadLibrary(l, mode)
      BY <1>0, <1>4, <2>2, ReadStep
    <3> DEFINE n == Len(dfile')
               u == <<Frame(n, l)>>
    <3>2. /\ n = Len(dfile) + 1 /\ dylibs' = Append(dylibs, n)
          /\ tasks' = tasks \cup {u}
      BY <1>0, <2>2, <3>1, ReadFiles
    <3>3. Len(u) = 1 /\ u # <<>> /\ u[1].id = n
      BY DEF Frame
    <3>4. n \in Nat /\ n \in 1 .. n /\ n \notin 1 .. Len(dfile) /\ n \notin parsed
      BY <1>0, <3>2 DEF Ids
    <3> HIDE DEF n, u
    <3>5. \A y : In(y, dylibs') <=> In(y, dylibs) \/ y = n
      BY <1>0, <3>2, <3>4, AppendedTo
    <3>6. ASSUME NEW v \in tasks
          PROVE  /\ v # <<>>
                 /\ \A i \in 1 .. Len(v) : v[i].id \in 1 .. Len(dfile')
                 /\ In(Root(v), dylibs') /\ Root(v) \notin parsed' /\ Root(v) # n
                 /\ \A i \in 1 .. Len(v) - 1 : ~In(v[i].id, dylibs')
      <4>1. /\ v # <<>> /\ Len(v) \in Nat \ {0}
            /\ \A i \in 1 .. Len(v) : v[i].id \in 1 .. Len(dfile)
        BY <1>0, TaskFacts
      <4>2. Root(v) \in 1 .. Len(dfile)
        BY <4>1 DEF Root
      <4>3. \A i \in 1 .. Len(v) - 1 : i \in 1 .. Len(v)
        BY <4>1
      <4>4. \A i \in 1 .. Len(v) - 1 : ~In(v[i].id, dylibs')
        BY <1>0, <3>4, <3>5, <4>1, <4>3 DEF Running
      <4>5. In(Root(v), dylibs') /\ Root(v) \notin parsed'
        BY <1>0, <2>1, <3>5 DEF Running
      <4> QED
        BY <1>00, <3>4, <4>1, <4>2, <4>4, <4>5
    <3>7. /\ u # <<>> /\ Root(u) = n /\ Root(u) \notin parsed' /\ In(Root(u), dylibs')
          /\ \A i \in 1 .. Len(u) : u[i].id \in 1 .. Len(dfile')
          /\ \A i \in 1 .. Len(u) - 1 : ~In(u[i].id, dylibs')
      <4>1. Root(u) = n
        BY <3>3 DEF Root
      <4>2. \A i \in 1 .. Len(u) : u[i].id = n
        BY <3>3
      <4>3. 1 .. Len(u) - 1 = {}
        BY <3>3
      <4> QED
        BY <2>1, <3>3, <3>4, <3>5, <4>1, <4>2, <4>3 DEF n
    <3>8. \A v, w \in tasks' : Root(v) = Root(w) => v = w
      BY <1>0, <3>2, <3>6, <3>7 DEF Running
    <3> QED
      BY <3>2, <3>6, <3>7, <3>8 DEF Running
  <2> QED
    BY <1>2, <2>1, <2>2
<1>5. ASSUME NEW t \in tasks, TakeTicket(t) \/ CreateChild(t)
      PROVE  Running'
  <2>1. /\ t \in Seq(StackFrame) /\ t # <<>> /\ Len(t) \in Nat \ {0} /\ Head(t) = t[1]
        /\ \A i \in 1 .. Len(t) : t[i].id \in 1 .. Len(dfile)
    BY <1>0, TaskFacts
  <2>2. parsed' = parsed /\ dylibs' = dylibs /\ Head(t).rest # <<>>
    BY <1>5 DEF TakeTicket, CreateChild
  <2>3. \A v \in tasks : Root(v) \notin parsed'
    BY <1>0, <2>2 DEF Running
  <2>4. \A i \in 1 .. Len(t) - 1 : ~In(t[i].id, dylibs)
    BY <1>0 DEF Running
  <2>5. CASE TakeTicket(t)
    <3> DEFINE f == [Head(t) EXCEPT !.ticket = nextPriority]
               u == <<f>> \o Tail(t)
    <3>1. f \in StackFrame /\ f.id = t[1].id
      BY <1>0, <2>1, <2>2, FrameFacts
    <3>2. tasks' = (tasks \ {t}) \cup {u}
      BY <2>5 DEF TakeTicket
    <3> HIDE DEF f
    <3>3. u \in Seq(StackFrame) /\ Len(u) = Len(t) /\ u[1] = f /\ \A i \in 2 .. Len(t) : u[i] = t[i]
      BY <2>1, <3>1, NewTop
    <3> HIDE DEF u
    <3>4. \A i \in 1 .. Len(t) : u[i].id = t[i].id
      BY <2>1, <3>1, <3>3
    <3>5. Root(u) = Root(t) /\ u # <<>>
      BY <2>1, <3>3, <3>4 DEF Root
    <3>6. \A i \in 1 .. Len(t) - 1 : i \in 1 .. Len(t)
      BY <2>1
    <3>7. \A i \in 1 .. Len(u) - 1 : ~In(u[i].id, dylibs)
      BY <2>4, <3>3, <3>4, <3>6
    <3>8. \A i \in 1 .. Len(u) : u[i].id \in 1 .. Len(dfile')
      BY <1>00, <2>1, <3>3, <3>4
    <3> QED
      BY <2>2, <2>3, <3>2, <3>5, <3>7, <3>8, Replaced
  <2>6. CASE CreateChild(t)
    <3> DEFINE l == Head(Head(t).rest)
               f == Frame(Len(dfile) + 1, l)
               g == [Head(t) EXCEPT !.rest = Tail(@), !.ticket = -1]
               u == <<f, g>> \o Tail(t)
    <3>1. f \in StackFrame /\ f.id = Len(dfile) + 1 /\ g \in StackFrame /\ g.id = t[1].id
      BY <1>0, <2>1, <2>2, FrameFacts
    <3>2. tasks' = (tasks \ {t}) \cup {u}
      BY <2>6 DEF CreateChild
    <3>20. Len(dfile') = Len(dfile) + 1
      <4>1. \E d : dfile' = Append(dfile, d)
        BY <2>6 DEF CreateChild
      <4> QED
        BY <1>0, <4>1 DEF Types
    <3> HIDE DEF f, g
    <3>3. /\ u \in Seq(StackFrame) /\ Len(u) = Len(t) + 1 /\ u[1] = f /\ u[2] = g
          /\ \A i \in 2 .. Len(t) : u[i + 1] = t[i]
      BY <2>1, <3>1, NewTop
    <3> HIDE DEF u
    <3>4. \A i \in 1 .. Len(t) : u[i + 1].id = t[i].id
      BY <2>1, <3>1, <3>3
    <3>5. Root(u) = Root(t) /\ u # <<>>
      BY <2>1, <3>3, <3>4 DEF Root
    <3>6. \A i \in 1 .. Len(u) : i = 1 \/ i - 1 \in 1 .. Len(t)
      BY <2>1, <3>3
    <3>7. \A i \in 1 .. Len(u) - 1 : i = 1 \/ i - 1 \in 1 .. Len(t) - 1
      BY <2>1, <3>3
    <3>8. \A i \in 1 .. Len(u) : i # 1 => u[i].id = t[i - 1].id
      BY <2>1, <3>3, <3>4, <3>6
    <3>9. ~In(Len(dfile) + 1, dylibs)
      BY <1>0 DEF Ids, In
    <3>10. \A i \in 1 .. Len(u) - 1 : ~In(u[i].id, dylibs)
      <4>1. \A i \in 1 .. Len(u) - 1 : i \in 1 .. Len(u)
        BY <2>1, <3>3
      <4> QED
        BY <2>4, <3>1, <3>3, <3>7, <3>8, <3>9, <4>1
    <3>11. \A i \in 1 .. Len(u) : u[i].id \in 1 .. Len(dfile')
      <4>1. Len(dfile) + 1 \in 1 .. Len(dfile')
        BY <1>0, <3>20
      <4> QED
        BY <1>00, <2>1, <3>1, <3>3, <3>6, <3>8, <4>1
    <3> QED
      BY <2>2, <2>3, <3>2, <3>5, <3>10, <3>11, Replaced
  <2> QED
    BY <1>5, <2>5, <2>6
<1>6. ASSUME NEW t \in tasks, ParseReturns(t)
      PROVE  Running'
  <2>1. /\ t \in Seq(StackFrame) /\ t # <<>> /\ Len(t) \in Nat \ {0} /\ Head(t) = t[1]
        /\ Len(Tail(t)) = Len(t) - 1 /\ Tail(t) \in Seq(StackFrame)
        /\ \A i \in 1 .. Len(t) - 1 : Tail(t)[i] = t[i + 1]
        /\ \A i \in 1 .. Len(t) : t[i].id \in 1 .. Len(dfile)
    BY <1>0, TaskFacts
  <2>2. parsed' = parsed \cup {t[1].id} /\ dylibs' = dylibs
    BY <1>6, <2>1 DEF ParseReturns
  <2>3. CASE Len(t) = 1
    <3>1. tasks' = tasks \ {t}
      BY <1>6, <2>3 DEF ParseReturns
    <3>2. \A v \in tasks' : Root(v) \notin parsed'
      BY <1>0, <2>2, <3>1, TopIsNoRoot DEF Running
    <3>3. \A v \in tasks' : /\ v # <<>>
                            /\ \A i \in 1 .. Len(v) : v[i].id \in 1 .. Len(dfile')
                            /\ In(Root(v), dylibs')
                            /\ \A i \in 1 .. Len(v) - 1 : ~In(v[i].id, dylibs')
      BY <1>0, <1>00, <2>2, <3>1 DEF Running
    <3>4. \A v, w \in tasks' : Root(v) = Root(w) => v = w
      BY <1>0, <3>1 DEF Running
    <3> QED
      BY <3>2, <3>3, <3>4 DEF Running
  <2>4. CASE Len(t) # 1
    <3> DEFINE u == Tail(t)
    <3>1. tasks' = (tasks \ {t}) \cup {u}
      BY <1>6, <2>4 DEF ParseReturns
    <3>2. /\ u \in Seq(StackFrame) /\ Len(u) = Len(t) - 1
          /\ \A i \in 1 .. Len(t) - 1 : u[i] = t[i + 1]
      BY <2>1
    <3> HIDE DEF u
    <3>3. Len(t) - 1 \in 1 .. Len(t) - 1 /\ (Len(t) - 1) + 1 = Len(t)
      BY <2>1, <2>4
    <3>4. Root(u) = Root(t) /\ u # <<>>
      <4>1. u[Len(u)] = t[Len(t)]
        BY <3>2, <3>3
      <4>2. Len(u) # 0
        BY <3>2, <3>3
      <4> QED
        BY <4>1, <4>2 DEF Root
    <3>5. \A i \in 1 .. Len(u) : u[i].id \in 1 .. Len(dfile')
      <4>1. \A i \in 1 .. Len(u) : i + 1 \in 1 .. Len(t)
        BY <2>1, <3>2
      <4> QED
        BY <1>00, <2>1, <3>2, <4>1
    <3>6. \A i \in 1 .. Len(u) - 1 : ~In(u[i].id, dylibs)
      <4>1. \A i \in 1 .. Len(u) - 1 : i + 1 \in 1 .. Len(t) - 1 /\ i \in 1 .. Len(t) - 1
        BY <2>1, <3>2
      <4>2. \A i \in 1 .. Len(t) - 1 : ~In(t[i].id, dylibs)
        BY <1>0 DEF Running
      <4> QED
        BY <3>2, <4>1, <4>2
    <3>7. \A v \in tasks : Root(v) \notin parsed'
      BY <1>0, <2>2, <2>4, TopIsNoRoot DEF Running
    <3> QED
      BY <2>2, <3>1, <3>4, <3>5, <3>6, <3>7, Replaced
  <2> QED
    BY <2>3, <2>4
<1> QED
  BY <1>2, <1>3, <1>4, <1>5, <1>6, OtherTasks, OtherDylibs, OtherParsed

-----------------------------------------------------------------------------
(***************************************************************************)
(* The frontier loop.                                                      *)
(***************************************************************************)
(* When every listed dylib is parsed, no parse task runs. *)
LEMMA NoTaskLeft ==
  ASSUME Running, DylibsParsed
  PROVE  tasks = {}
BY DEF Running, DylibsParsed, In

(* Objects keep their place and stay parsed. *)
LEMMA ObjectsKept ==
  ASSUME IInv, [Next]_vars
  PROVE  /\ Len(objs) \in Nat /\ Len(objs') \in Nat /\ Len(objs) <= Len(objs')
         /\ \A k \in 1 .. Len(objs) :
              /\ objs'[k] = objs[k]
              /\ objState[objs[k]] = "parsed" => objState'[objs[k]] = "parsed"
<1>0. Types /\ Types' /\ Len(objs) \in Nat /\ \A k \in 1 .. Len(objs) : objs[k] \in Obj
  BY TypesStep, Lengths DEF IInv
<1>1. Len(objs') \in Nat
  BY <1>0 DEF Types
<1>2. CASE (ReadItem /\ Head(cmd).file \in Obj) \/ LoadMember
  BY <1>0, <1>1, <1>2, NewObject
<1>3. CASE ReadItem /\ Head(cmd).file \notin Obj
  BY <1>0, <1>1, <1>3 DEF ReadItem
<1>4. ASSUME NEW o \in Obj, EnqueueParsed(o) \/ NotifyParsed(o)
      PROVE  objs' = objs /\ \A p \in Obj : objState[p] = "parsed" => objState'[p] = "parsed"
  BY <1>0, <1>4 DEF EnqueueParsed, NotifyParsed, Types
<1>5. CASE TakeFrontier
  BY <1>0, <1>5 DEF TakeFrontier
<1> QED
  BY <1>0, <1>1, <1>2, <1>3, <1>4, <1>5, OtherQueue

(* Of what the parse tasks do, only that they finish matters. *)
LEMMA ParserQuiet ==
  ASSUME ParserStep
  PROVE  UNCHANGED <<inputVars, pc, objs, dylibs, libDylib, nextAuto, batch, opts, pending,
                     launched, objBegin, dylibBegin, walkVars>>
BY DEF ParserStep, EnqueueParsed, NotifyParsed, TakeTicket, CreateChild, ParseReturns,
   frontierVars

LEMMA WaitedStep ==
  ASSUME IInv, [Next]_vars
  PROVE  Waited'
<1>0. /\ Types /\ InputsRead /\ Queue /\ Ids /\ Running /\ Waited /\ Walks
      /\ Len(objs) \in Nat /\ Len(dylibs) \in Nat /\ objBegin \in Nat /\ dylibBegin \in Nat
      /\ nextAuto \in Nat /\ dylibs \in Seq(Nat)
      /\ pc \in {"read", "restore", "frontier", "serve", "options", "hoist",
                 "dedup", "redirect", "resolving", "erase", "done"}
  BY Lengths DEF IInv, Types
<1>1. /\ Len(objs') \in Nat /\ Len(objs) <= Len(objs')
      /\ \A k \in 1 .. Len(objs) :
           /\ objs'[k] = objs[k]
           /\ objState[objs[k]] = "parsed" => objState'[objs[k]] = "parsed"
  BY ObjectsKept
<1>2. parsed \subseteq parsed'
  BY ParsedGrows
<1>3. objBegin <= Len(objs) /\ \A k \in 1 .. objBegin : objState[objs[k]] = "parsed"
  BY <1>0 DEF Waited
<1>4. ASSUME objBegin' = objBegin
      PROVE  /\ objBegin' <= Len(objs')
             /\ \A k \in 1 .. objBegin' : objState'[objs'[k]] = "parsed"
  <2>1. \A k \in 1 .. objBegin : k \in 1 .. Len(objs)
    BY <1>0, <1>3
  <2> QED
    BY <1>0, <1>1, <1>3, <1>4, <2>1
<1>5. CASE ReadItem
  <2>1. pc = "read" /\ pc' = "restore" /\ UNCHANGED <<objBegin, dylibBegin>>
    BY <1>5 DEF ReadItem, frontierVars
  <2>2. dylibBegin' = 0 /\ 1 .. 0 = {} /\ Len(dylibs') \in Nat
    BY <1>0, <2>1, TypesStep DEF Waited, Types
  <2> QED
    BY <1>4, <2>1, <2>2 DEF Waited, Left
<1>6. CASE RestoreReader \/ EndOfCommandLine \/ ServeObject \/ EndOptions
  <2>1. UNCHANGED <<objs, objState, dylibs, parsed, nextAuto, objBegin, dylibBegin>>
    BY <1>6 DEF RestoreReader, EndOfCommandLine, ServeObject, EndOptions, frontierVars
  <2>2. \/ (pc = "restore" /\ pc' = "read") \/ (pc = "read" /\ pc' = "frontier")
        \/ (pc = "serve" /\ pc' = "options") \/ (pc = "options" /\ pc' = "serve")
    BY <1>6 DEF RestoreReader, EndOfCommandLine, ServeObject, EndOptions
  <2>3. pc' = "read" => dylibBegin' = 0
    BY <1>0, <2>1, <2>2 DEF Waited
  <2>4. dylibBegin' <= Len(dylibs') /\ \A k \in 1 .. dylibBegin' : dylibs'[k] \in parsed'
    BY <1>0, <2>1, <2>2 DEF Waited
  <2>5. pc' \in {"serve", "options"} /\ objBegin' = Len(objs') => nextAuto' = Len(objs') + 1
    BY <1>0, <2>1, <2>2 DEF Waited
  <2> QED
    BY <1>4, <2>1, <2>2, <2>3, <2>4, <2>5 DEF Waited, Left
<1>7. CASE TakeFrontier
  <2>1. /\ UNCHANGED <<objs, objState, dylibs, parsed, objBegin, dylibBegin>>
        /\ pc = "frontier" /\ pc' = "serve" /\ nextAuto' = ReadyEnd
    BY <1>7 DEF TakeFrontier
  <2>2. dylibBegin' <= Len(dylibs') /\ \A k \in 1 .. dylibBegin' : dylibs'[k] \in parsed'
    BY <1>0, <2>1 DEF Waited
  <2>3. ASSUME objBegin = Len(objs) PROVE ReadyEnd = Len(objs) + 1
    <3> DEFINE e == ReadyEnd
    <3>1. e \in nextAuto .. Len(objs) + 1 /\ e \notin ready
      BY <1>0, ReadyEndFacts
    <3> HIDE DEF e
    <3>2. nextAuto # 0
      BY <1>0 DEF Types
    <3>3. ASSUME e # Len(objs) + 1 PROVE FALSE
      <4>1. e \in 1 .. Len(objs) /\ ~(e < nextAuto)
        BY <1>0, <3>1, <3>2, <3>3
      <4>2. objState[objs[e]] = "parsed"
        BY <1>3, <2>3, <4>1
      <4> QED
        BY <1>0, <3>1, <4>1, <4>2 DEF Queue
    <3> QED
      BY <3>3 DEF e
  <2> QED
    BY <1>4, <2>1, <2>2, <2>3 DEF Waited, Left
<1>8. CASE ServeOption
  <2>1. /\ UNCHANGED <<objs, parsed, nextAuto, objBegin, dylibBegin>>
        /\ pc = "options" /\ pc' = "options"
    BY <1>8 DEF ServeOption
  <2>2. dylibBegin <= Len(dylibs) /\ \A k \in 1 .. dylibBegin : dylibs[k] \in parsed
    BY <1>0, <2>1 DEF Waited
  <2>3. dylibs' = dylibs \/ \E x \in Nat : dylibs' = Append(dylibs, x)
    <3>1. Len(dfile) + 1 \in Nat
      BY <1>0, Lengths
    <3>2. dylibs' = dylibs \/ dylibs' = Append(dylibs, Len(dfile) + 1)
      BY <1>8 DEF ServeOption, ReadLibrary
    <3> QED
      BY <3>1, <3>2
  <2>4. Len(dylibs) <= Len(dylibs') /\ \A k \in 1 .. Len(dylibs) : dylibs'[k] = dylibs[k]
    BY <1>0, <2>3, Appended
  <2>5. Len(dylibs') \in Nat
    BY TypesStep DEF Types
  <2>6. dylibBegin' <= Len(dylibs')
    BY <1>0, <2>1, <2>2, <2>4, <2>5
  <2>7. 1 .. dylibBegin \subseteq 1 .. Len(dylibs)
    BY <1>0, <2>2
  <2>8. \A k \in 1 .. dylibBegin' : dylibs'[k] \in parsed'
    BY <2>1, <2>2, <2>4, <2>7
  <2>9. objBegin' = Len(objs') => nextAuto' = Len(objs') + 1
    BY <1>0, <2>1 DEF Waited
  <2> QED
    BY <1>4, <2>1, <2>6, <2>8, <2>9 DEF Waited, Left
<1>9. CASE LeaveOrRepeat
  <2>1. /\ UNCHANGED <<objs, objState, dylibs, parsed, nextAuto, objBegin, dylibBegin, tasks>>
        /\ pc = "serve" /\ pc' \in {"frontier", "dedup", "resolving"} /\ pending' = FALSE
        /\ objBegin = Len(objs) /\ dylibBegin = Len(dylibs)
    BY <1>9 DEF LeaveOrRepeat, AllWaited
  <2>2. DylibsParsed /\ ObjsParsed
    BY <1>0, <1>3, <2>1 DEF Waited, DylibsParsed, ObjsParsed
  <2>3. tasks' = {}
    BY <1>0, <2>1, <2>2, NoTaskLeft
  <2>4. nextAuto' = Len(objs') + 1
    BY <1>0, <2>1 DEF Waited
  <2>5. DylibsParsed' /\ ObjsParsed'
    BY <2>1, <2>2 DEF DylibsParsed, ObjsParsed
  <2>6. dylibBegin' <= Len(dylibs') /\ \A k \in 1 .. dylibBegin' : dylibs'[k] \in parsed'
    BY <1>0, <2>1, <2>2 DEF DylibsParsed
  <2> HIDE DEF DylibsParsed, ObjsParsed
  <2> QED
    BY <1>4, <2>1, <2>3, <2>4, <2>5, <2>6 DEF Waited
<1>10. CASE WaitForFrontier
  <2>1. /\ UNCHANGED <<objs, objState, dylibs, parsed, nextAuto, objBegin, dylibBegin, tasks>>
        /\ pc = "serve" /\ pc' = "hoist"
        /\ \A k \in objBegin + 1 .. Len(objs) : objState[objs[k]] = "parsed"
        /\ \A k \in dylibBegin + 1 .. Len(dylibs) : dylibs[k] \in parsed
    BY <1>10 DEF WaitForFrontier
  <2>2. ObjsParsed
    <3>1. \A k \in 1 .. Len(objs) : k \in 1 .. objBegin \/ k \in objBegin + 1 .. Len(objs)
      BY <1>0
    <3> QED
      BY <1>3, <2>1, <3>1 DEF ObjsParsed
  <2>3. DylibsParsed
    <3>1. \A k \in 1 .. Len(dylibs) : k \in 1 .. dylibBegin \/ k \in dylibBegin + 1 .. Len(dylibs)
      BY <1>0
    <3>2. \A k \in 1 .. dylibBegin : dylibs[k] \in parsed
      BY <1>0, <2>1 DEF Waited
    <3> QED
      BY <2>1, <3>1, <3>2 DEF DylibsParsed
  <2>4. tasks' = {} /\ DylibsParsed' /\ ObjsParsed'
    BY <1>0, <2>1, <2>2, <2>3, NoTaskLeft DEF DylibsParsed, ObjsParsed
  <2> HIDE DEF DylibsParsed, ObjsParsed
  <2> QED
    BY <1>4, <2>1, <2>4 DEF Waited, Left
<1>11. CASE HoistNext \/ HoistLibrary
  <2>1. /\ UNCHANGED <<objs, objState, parsed, tasks, objBegin>>
        /\ pc = "hoist" /\ pc' = "hoist"
    BY <1>11 DEF HoistNext, HoistLibrary
  <2>2. DylibsParsed /\ tasks' = {} /\ ObjsParsed
    BY <1>0, <2>1 DEF Waited
  <2>3. DylibsParsed'
    <3>1. CASE dylibs' = dylibs
      BY <2>1, <2>2, <3>1 DEF DylibsParsed
    <3>2. CASE dylibs' # dylibs
      <4>1. dylibs' = Append(dylibs, Head(rest)) /\ rest # <<>> /\ rest \in Seq(Nat)
        BY <1>0, <1>11, <3>2 DEF HoistNext, HoistLibrary, Hoist, Types
      <4>2. Head(rest) = rest[1] /\ Head(rest) \in Nat /\ 1 \in 1 .. Len(rest)
        <5>1. Len(rest) \in Nat \ {0} /\ Head(rest) = rest[1] /\ Head(rest) \in Nat
          BY <4>1, HeadTail
        <5> QED
          BY <5>1
      <4>3. Head(rest) \in parsed
        BY <1>0, <4>2 DEF Ids
      <4> DEFINE x == Head(rest)
      <4> HIDE DEF x
      <4>4. dylibs' = Append(dylibs, x) /\ x \in Nat /\ x \in parsed'
        BY <2>1, <4>1, <4>2, <4>3 DEF x
      <4>5. /\ Len(dylibs') = Len(dylibs) + 1 /\ dylibs'[Len(dylibs) + 1] = x
            /\ \A k \in 1 .. Len(dylibs) : dylibs'[k] = dylibs[k]
        BY <1>0, <4>4, Appended
      <4>6. \A k \in 1 .. Len(dylibs') : k \in 1 .. Len(dylibs) \/ k = Len(dylibs) + 1
        BY <1>0, <4>5
      <4> QED
        BY <2>1, <2>2, <4>4, <4>5, <4>6 DEF DylibsParsed
    <3> QED
      BY <3>1, <3>2
  <2>4. ObjsParsed'
    BY <2>1, <2>2 DEF ObjsParsed
  <2> HIDE DEF DylibsParsed, ObjsParsed
  <2> QED
    BY <1>4, <2>1, <2>2, <2>3, <2>4 DEF Waited, Left
<1>12. CASE EndHoisting
  <2>1. /\ UNCHANGED <<objs, objState, dylibs, parsed>>
        /\ objBegin' = Len(objs) /\ dylibBegin' = Len(dylibs)
        /\ pc = "hoist" /\ pc' = "frontier"
    BY <1>12 DEF EndHoisting
  <2>2. DylibsParsed /\ ObjsParsed
    BY <1>0, <2>1 DEF Waited
  <2>3. /\ dylibBegin' <= Len(dylibs') /\ objBegin' <= Len(objs')
        /\ \A k \in 1 .. dylibBegin' : dylibs'[k] \in parsed'
        /\ \A k \in 1 .. objBegin' : objState'[objs'[k]] = "parsed"
    BY <1>0, <2>1, <2>2 DEF DylibsParsed, ObjsParsed
  <2> QED
    BY <2>1, <2>3 DEF Waited, Left
<1>13. CASE DedupDylib \/ RedirectNames \/ RedirectNext \/ RedirectHoisted
  <2>1. /\ UNCHANGED <<objs, objState, dylibs, parsed, nextAuto, objBegin, dylibBegin, tasks,
                       pending>>
        /\ pc \in {"dedup", "redirect"} /\ pc' \in {"dedup", "redirect"}
    BY <1>13 DEF DedupDylib, RedirectNames, RedirectNext, RedirectHoisted
  <2> QED
    BY <1>0, <1>4, <2>1 DEF Waited, Left, DylibsParsed, ObjsParsed
<1>14. CASE EndDedup
  <2>1. /\ UNCHANGED <<objs, objState, parsed, nextAuto, objBegin, dylibBegin, tasks, pending>>
        /\ pc = "redirect" /\ pc' = "resolving" /\ dylibs' = kept
    BY <1>14 DEF EndDedup, frontierVars
  <2>2. DylibsParsed /\ tasks = {} /\ ObjsParsed /\ ~pending /\ nextAuto = Len(objs) + 1
    BY <1>0, <2>1 DEF Waited, Left
  <2>3. DylibsParsed'
    BY <1>0, <2>1, <2>2 DEF DylibsParsed, Walks, In
  <2>4. ObjsParsed'
    BY <2>1, <2>2 DEF ObjsParsed
  <2> HIDE DEF DylibsParsed, ObjsParsed
  <2> QED
    BY <1>4, <2>1, <2>2, <2>3, <2>4 DEF Waited
<1>15. CASE LoadMember
  <2>1. /\ UNCHANGED <<dylibs, parsed, tasks, pc>> /\ pc = "resolving" /\ pending' = TRUE
        /\ objBegin' = (IF pending THEN objBegin ELSE Len(objs))
        /\ dylibBegin' = (IF pending THEN dylibBegin ELSE Len(dylibs))
    BY <1>15 DEF LoadMember
  <2>2. DylibsParsed' /\ tasks' = {}
    BY <1>0, <2>1 DEF Waited, DylibsParsed
  <2>3. dylibBegin' <= Len(dylibs')
    BY <1>0, <2>1 DEF Waited
  <2>4. objBegin' <= Len(objs') /\ \A k \in 1 .. objBegin' : objState'[objs'[k]] = "parsed"
    <3>1. CASE pending
      BY <1>4, <2>1, <3>1
    <3>2. CASE ~pending
      <4>1. ObjsParsed /\ objBegin' = Len(objs)
        BY <1>0, <2>1, <3>2 DEF Waited, Left
      <4> QED
        BY <1>0, <1>1, <4>1 DEF ObjsParsed
    <3> QED
      BY <3>1, <3>2
  <2> HIDE DEF DylibsParsed
  <2> QED
    BY <2>1, <2>2, <2>3, <2>4 DEF Waited, Left
<1>16. CASE DrainMembers
  <2>1. /\ UNCHANGED <<objs, objState, dylibs, parsed, objBegin, dylibBegin>>
        /\ pc = "resolving" /\ pending /\ pc' = "frontier"
    BY <1>16 DEF DrainMembers, frontierVars
  <2>2. DylibsParsed /\ dylibBegin <= Len(dylibs)
    BY <1>0, <2>1 DEF Waited
  <2>3. 1 .. dylibBegin \subseteq 1 .. Len(dylibs)
    BY <1>0, <2>2
  <2>4. dylibBegin' <= Len(dylibs') /\ \A k \in 1 .. dylibBegin' : dylibs'[k] \in parsed'
    BY <2>1, <2>2, <2>3 DEF DylibsParsed
  <2> QED
    BY <1>4, <2>1, <2>4 DEF Waited, Left
<1>17. CASE StartErase \/ EraseDead \/ EndErase
  <2>1. /\ UNCHANGED <<objs, objState, parsed, nextAuto, objBegin, tasks>>
        /\ Left /\ pc \in {"resolving", "erase"} /\ pc' \in {"erase", "done"}
    BY <1>17 DEF StartErase, EraseDead, EndErase, frontierVars, Left
  <2>2. DylibsParsed /\ tasks = {} /\ ObjsParsed /\ nextAuto = Len(objs) + 1
    BY <1>0, <2>1 DEF Waited
  <2>3. DylibsParsed'
    <3>1. CASE dylibs' = dylibs
      BY <2>1, <2>2, <3>1 DEF DylibsParsed
    <3>2. CASE EraseDead
      <4>1. PICK n \in 1 .. Len(dylibs) : dylibs' = RemoveAt(dylibs, n)
        BY <3>2 DEF EraseDead
      <4>2. /\ Len(dylibs') = Len(dylibs) - 1
            /\ \A i \in 1 .. Len(dylibs) - 1 :
                 dylibs'[i] = IF i < n THEN dylibs[i] ELSE dylibs[i + 1]
        BY <1>0, <4>1, Erased
      <4>3. \A i \in 1 .. Len(dylibs) - 1 : i \in 1 .. Len(dylibs) /\ i + 1 \in 1 .. Len(dylibs)
        BY <1>0
      <4> QED
        BY <2>1, <2>2, <4>2, <4>3 DEF DylibsParsed
    <3> QED
      BY <1>17, <3>1, <3>2 DEF StartErase, EndErase
  <2>4. ObjsParsed'
    BY <2>1, <2>2 DEF ObjsParsed
  <2> HIDE DEF DylibsParsed, ObjsParsed
  <2> QED
    BY <1>4, <2>1, <2>2, <2>3, <2>4 DEF Waited
<1>18. CASE ParserStep
  <2>1. UNCHANGED <<pc, objs, dylibs, nextAuto, pending, objBegin, dylibBegin>>
    BY <1>18, ParserQuiet
  <2>2. \A k \in 1 .. Len(dylibs) : dylibs[k] \in parsed => dylibs'[k] \in parsed'
    BY <1>2, <2>1
  <2>3. DylibsParsed => DylibsParsed'
    BY <2>1, <2>2 DEF DylibsParsed
  <2>4. ObjsParsed => ObjsParsed'
    BY <1>1, <2>1 DEF ObjsParsed
  <2>5. pc \in {"read", "restore", "frontier", "serve", "options"} =>
          /\ dylibBegin' <= Len(dylibs')
          /\ \A k \in 1 .. dylibBegin' : dylibs'[k] \in parsed'
    BY <1>0, <1>2, <2>1 DEF Waited
  <2>6. tasks = {} => tasks' = {}
    BY <1>18 DEF ParserStep, EnqueueParsed, NotifyParsed
  <2>7. Left' <=> Left
    BY <2>1 DEF Left
  <2>8. /\ (pc \in {"read", "restore"} => dylibBegin' = 0)
        /\ (pc = "resolving" /\ pending => dylibBegin' <= Len(dylibs'))
        /\ (pc \in {"serve", "options"} /\ objBegin' = Len(objs') => nextAuto' = Len(objs') + 1)
        /\ (Left => nextAuto' = Len(objs') + 1)
        /\ (pc \in {"dedup", "redirect"} => ~pending)
    BY <1>0, <2>1 DEF Waited
  <2>9. /\ (pc = "hoist" \/ Left => ObjsParsed')
        /\ (pc \in {"hoist", "dedup", "redirect", "resolving", "erase", "done"} =>
              DylibsParsed' /\ tasks' = {})
    BY <1>0, <2>3, <2>4, <2>6 DEF Waited
  <2> HIDE DEF DylibsParsed, ObjsParsed, Left
  <2> QED
    BY <1>4, <2>1, <2>5, <2>7, <2>8, <2>9 DEF Waited
<1>19. CASE UNCHANGED vars
  BY <1>0, <1>19 DEF vars, Waited, Left, DylibsParsed, ObjsParsed
<1> QED
  BY <1>5, <1>6, <1>7, <1>8, <1>9, <1>10, <1>11, <1>12, <1>13, <1>14, <1>15, <1>16, <1>17,
     <1>18, <1>19 DEF Next, MainStep, Finished

-----------------------------------------------------------------------------
(***************************************************************************)
(* Requests for libraries.                                                 *)
(***************************************************************************)
LEMMA OtherNames ==
  ASSUME [Next]_vars, ~ReadItem, ~ServeOption, ~RedirectNames
  PROVE  libDylib' = libDylib
BY DEF vars, Next, MainStep, ParserStep, Finished, RestoreReader, EndOfCommandLine,
   TakeFrontier, ServeObject, EndOptions, LeaveOrRepeat, WaitForFrontier,
   HoistNext, HoistLibrary, EndHoisting, DedupDylib, RedirectNext,
   RedirectHoisted, EndDedup, LoadMember, DrainMembers, StartErase, EraseDead, EndErase,
   EnqueueParsed, NotifyParsed, TakeTicket, CreateChild, ParseReturns

(* Once all dylibs were looked at, a listed one leads to the one kept for  *)
(* its name, which is alive if it is.                                      *)
LEMMA RedirectedToKept ==
  ASSUME Types, Walks, pc = "dedup", at = Len(dylibs), NEW id, In(id, dylibs)
  PROVE  \E k \in 1 .. Len(kept) :
           /\ Redirect(id) = kept[k] /\ SameName(kept[k], id)
           /\ dfile[id].alive => dfile[kept[k]].alive
<1>1. PICK j \in 1 .. Len(dylibs) : dylibs[j] = id
  BY DEF In
<1>2. PICK k \in 1 .. Len(kept) :
        SameName(kept[k], id) /\ (dfile[id].alive => dfile[kept[k]].alive)
  BY <1>1 DEF Walks
<1>3. Listed(kept, id) /\ kept \in Seq(Nat)
  BY <1>2 DEF Listed, Types
<1>4. PICK i \in 1 .. Len(kept) : Canonical(id) = kept[i] /\ SameName(kept[i], id)
  BY <1>3, CanonicalFacts
<1>5. SameName(kept[i], kept[k])
  BY <1>2, <1>4, SameNameFacts
<1>6. i = k
  BY <1>5 DEF Walks
<1>7. id \in Range(dylibs)
  <2>1. dylibs \in Seq(Nat)
    BY DEF Types
  <2> QED
    BY <2>1, InRange
<1> QED
  BY <1>2, <1>4, <1>6, <1>7 DEF Redirect

(* A request that was met stays met. *)
LEMMA MetStep ==
  ASSUME IInv, [Next]_vars, NEW l \in Lib, NEW needed, Met(l, needed)
  PROVE  Met(l, needed)'
<1>0. /\ Types /\ Names /\ Walks /\ Waited /\ libDylib \in [Lib -> Nat]
      /\ libDylib[l] # 0 /\ libDylib[l] \in 1 .. Len(dfile)
      /\ needed => dfile[libDylib[l]].alive
      /\ pc \in {"read", "restore", "frontier", "serve", "options", "hoist",
                 "dedup", "redirect", "resolving", "erase", "done"}
  BY DEF IInv, Names, Met, Types
<1>1. tasks = {} \/ In(libDylib[l], dylibs)
  BY <1>0 DEF Names, Waited
<1>2. needed => dfile'[libDylib[l]].alive
  BY <1>0, <1>1, FilesStep
<1>3. CASE libDylib'[l] = libDylib[l]
  BY <1>0, <1>2, <1>3 DEF Met
<1>4. CASE ReadItem \/ ServeOption
  <2>1. CASE libDylib' # libDylib
    <3>1. PICK m \in Lib, mode \in Modes : ReadLibrary(m, mode)
      BY <1>0, <1>4, <2>1, ReadStep
    <3>2. libDylib'[l] = libDylib[l]
      BY <1>0, <3>1, ReadFiles
    <3> QED
      BY <1>3, <3>2
  <2> QED
    BY <1>3, <2>1
<1>5. CASE RedirectNames
  <2>1. /\ pc = "dedup" /\ at = Len(dylibs) /\ dfile' = dfile
        /\ libDylib'[l] = Redirect(libDylib[l])
    BY <1>0, <1>5 DEF RedirectNames
  <2>2. In(libDylib[l], dylibs)
    BY <1>0, <2>1 DEF Names
  <2>3. PICK k \in 1 .. Len(kept) :
          /\ Redirect(libDylib[l]) = kept[k]
          /\ dfile[libDylib[l]].alive => dfile[kept[k]].alive
    BY <1>0, <2>1, <2>2, RedirectedToKept
  <2>4. kept[k] \in 1 .. Len(dfile)
    BY <2>1, KeptIds DEF IInv
  <2>5. kept[k] # 0
    BY <2>4
  <2> QED
    BY <1>0, <2>1, <2>3, <2>5 DEF Met
<1> QED
  BY <1>3, <1>4, <1>5, OtherNames

(* The objects of the batch and the one being served. *)
LEMMA TakenFacts ==
  ASSUME Types, Queue, RequestsMet
  PROVE  /\ Taken \in Nat \ {0} /\ Len(batch) \in Nat /\ Len(objs) \in Nat
         /\ nextAuto \in Nat \ {0} /\ nextAuto <= Len(objs) + 1
         /\ Taken = nextAuto - Len(batch) - (IF pc = "options" THEN 1 ELSE 0)
         /\ 1 .. Taken - 1 \subseteq 1 .. Len(objs)
         /\ \A k \in 1 .. Len(batch) : nextAuto - Len(batch) - 1 + k \in 1 .. Len(objs)
         /\ pc = "options" => Taken \in 1 .. Len(objs)
<1>1. /\ Taken \in Nat \ {0} /\ Len(batch) \in Nat /\ Len(objs) \in Nat
      /\ nextAuto \in Nat \ {0} /\ nextAuto <= Len(objs) + 1
      /\ Taken = nextAuto - Len(batch) - (IF pc = "options" THEN 1 ELSE 0)
  BY Lengths DEF RequestsMet, Queue, Taken, Types
<1>2. nextAuto - Len(batch) \in Nat \ {0}
  BY <1>1
<1>3. 1 .. Taken - 1 \subseteq 1 .. Len(objs)
  BY <1>1
<1>4. \A k \in 1 .. Len(batch) : nextAuto - Len(batch) - 1 + k \in 1 .. Len(objs)
  BY <1>1, <1>2
<1>5. pc = "options" => Taken \in 1 .. Len(objs)
  BY <1>1
<1> QED
  BY <1>1, <1>3, <1>4, <1>5

(* The options of an object that was read. *)
LEMMA AutolinkFacts ==
  ASSUME Types, NEW k \in 1 .. Len(objs)
  PROVE  /\ inp.autolink[objs[k]] \in Seq(Option) /\ Len(inp.autolink[objs[k]]) \in Nat
         /\ \A j \in 1 .. Len(inp.autolink[objs[k]]) : inp.autolink[objs[k]][j].file \in Lib
<1>1. objs[k] \in Obj /\ inp.autolink \in [Obj -> Seq(Option)]
  BY Lengths, InputFacts DEF Types
<1> DEFINE s == inp.autolink[objs[k]]
<1>2. s \in Seq(Option)
  BY <1>1
<1> HIDE DEF s
<1>3. Len(s) \in Nat /\ \A j \in 1 .. Len(s) : s[j] \in Option
  BY <1>2
<1>4. \A j \in 1 .. Len(s) : s[j].file \in Lib
  BY <1>3 DEF Option
<1> QED
  BY <1>2, <1>3, <1>4 DEF s

(* Which steps touch the batch. *)
LEMMA OtherBatch ==
  ASSUME IInv, [Next]_vars, ~TakeFrontier, ~ServeObject, ~ServeOption, ~EndOptions
  PROVE  /\ UNCHANGED <<nextAuto, batch, opts>>
         /\ pc' = "options" <=> pc = "options"
         /\ pc' \notin {"serve", "options"} => batch = <<>>
<1>0. RequestsMet
  BY DEF IInv
<1>1. CASE ParserStep \/ UNCHANGED vars
  BY <1>0, <1>1, ParserQuiet DEF vars, RequestsMet
<1>2. CASE MainStep
  BY <1>0, <1>2 DEF RequestsMet, frontierVars, MainStep, ReadItem, RestoreReader,
     EndOfCommandLine, LeaveOrRepeat, WaitForFrontier, HoistNext, HoistLibrary,
     EndHoisting, DedupDylib, RedirectNames, RedirectNext, RedirectHoisted, EndDedup,
     LoadMember, DrainMembers, StartErase, EraseDead, EndErase
<1> QED
  BY <1>1, <1>2 DEF Next, Finished

(* The same after the step. *)
MetNext(l, needed) == libDylib'[l] # 0 /\ (needed => dfile'[libDylib'[l]].alive)

LEMMA RequestsMetStep ==
  ASSUME IInv, [Next]_vars
  PROVE  RequestsMet'
<1>0. /\ Types /\ Types' /\ InputsRead /\ Queue /\ RequestsMet /\ Names /\ inp' = inp
      /\ pc \in {"read", "restore", "frontier", "serve", "options", "hoist",
                 "dedup", "redirect", "resolving", "erase", "done"}
  BY TypesStep, InputKept DEF IInv, Types
<1>00. \A l \in Lib : \A needed : Met(l, needed) => MetNext(l, needed)
  BY MetStep DEF Met, MetNext
<1>1. /\ Taken \in Nat \ {0} /\ Len(batch) \in Nat /\ Len(objs) \in Nat
      /\ nextAuto \in Nat \ {0} /\ nextAuto <= Len(objs) + 1
      /\ Taken = nextAuto - Len(batch) - (IF pc = "options" THEN 1 ELSE 0)
      /\ 1 .. Taken - 1 \subseteq 1 .. Len(objs)
      /\ \A k \in 1 .. Len(batch) : nextAuto - Len(batch) - 1 + k \in 1 .. Len(objs)
      /\ pc = "options" => Taken \in 1 .. Len(objs)
  BY <1>0, TakenFacts
<1>2. \A k \in 1 .. Len(objs) : objs'[k] = objs[k]
  BY ObjectsKept
<1>3. \A k \in 1 .. Len(objs) : \A j \in 1 .. Len(inp.autolink[objs[k]]) :
        inp.autolink[objs[k]][j].file \in Lib
  BY <1>0, AutolinkFacts
(* What was met of the command line and of the objects served. *)
<1>4. \A j \in 1 .. CmdRead : inp.cmdline[j].file \in Lib =>
        MetNext(inp.cmdline[j].file, inp.cmdline[j].mode.needed)
  BY <1>0, <1>00 DEF RequestsMet
<1>5. \A k \in 1 .. Taken - 1 : \A j \in 1 .. Len(inp.autolink[objs[k]]) :
        MetNext(inp.autolink[objs[k]][j].file, inp.autolink[objs[k]][j].needed)
  BY <1>0, <1>00, <1>1, <1>3 DEF RequestsMet
<1>6. pc = "options" =>
        /\ Len(Serving) - Len(opts) \in Nat /\ Serving \in Seq(Option)
        /\ \A k \in 1 .. Len(opts) : opts[k] = Serving[Len(Serving) - Len(opts) + k]
        /\ \A j \in 1 .. Len(Serving) : Serving[j].file \in Lib
        /\ \A j \in 1 .. Len(Serving) - Len(opts) : MetNext(Serving[j].file, Serving[j].needed)
  <2>1. SUFFICES ASSUME pc = "options"
                 PROVE  /\ Len(Serving) - Len(opts) \in Nat /\ Serving \in Seq(Option)
                        /\ \A k \in 1 .. Len(opts) :
                             opts[k] = Serving[Len(Serving) - Len(opts) + k]
                        /\ \A j \in 1 .. Len(Serving) : Serving[j].file \in Lib
                        /\ \A j \in 1 .. Len(Serving) - Len(opts) :
                             MetNext(Serving[j].file, Serving[j].needed)
    OBVIOUS
  <2>2. /\ Serving \in Seq(Option) /\ Len(Serving) \in Nat
        /\ \A j \in 1 .. Len(Serving) : Serving[j].file \in Lib
    BY <1>0, <1>1, <2>1, AutolinkFacts DEF Serving
  <2>3. /\ Len(Serving) - Len(opts) \in Nat
        /\ \A k \in 1 .. Len(opts) : opts[k] = Serving[Len(Serving) - Len(opts) + k]
        /\ \A j \in 1 .. Len(Serving) - Len(opts) : Met(Serving[j].file, Serving[j].needed)
    BY <1>0, <2>1 DEF RequestsMet
  <2>4. 1 .. Len(Serving) - Len(opts) \subseteq 1 .. Len(Serving)
    <3>1. Len(opts) \in Nat
      BY <1>0, Lengths
    <3> QED
      BY <2>2, <2>3, <3>1
  <2> QED
    BY <1>00, <2>2, <2>3, <2>4
<1>12. ASSUME CmdRead' = CmdRead
       PROVE  \A j \in 1 .. CmdRead' : inp'.cmdline[j].file \in Lib =>
                MetNext(inp'.cmdline[j].file, inp'.cmdline[j].mode.needed)
  BY <1>0, <1>4, <1>12
<1>13. ASSUME Taken' = Taken, NEW k \in 1 .. Taken' - 1,
              NEW j \in 1 .. Len(inp'.autolink[objs'[k]])
       PROVE  MetNext(inp'.autolink[objs'[k]][j].file, inp'.autolink[objs'[k]][j].needed)
  <2>1. k \in 1 .. Taken - 1 /\ k \in 1 .. Len(objs)
    BY <1>1, <1>13
  <2>2. objs'[k] = objs[k]
    BY <1>2, <2>1
  <2>3. j \in 1 .. Len(inp.autolink[objs[k]])
    BY <1>0, <2>2
  <2> QED
    BY <1>0, <1>5, <2>1, <2>2, <2>3
<1>14. Len(batch) \in Nat /\ nextAuto \in Nat /\ Taken \in Nat \ {0}
  BY <1>1
<1>15. Taken = IF pc = "options" THEN nextAuto - Len(batch) - 1 ELSE nextAuto - Len(batch)
  BY <1>1
<1>7. CASE cmd' = cmd /\ ~TakeFrontier /\ ~ServeObject /\ ~ServeOption /\ ~EndOptions
  <2>1. /\ UNCHANGED <<nextAuto, batch, opts>> /\ (pc' = "options" <=> pc = "options")
        /\ pc' \notin {"serve", "options"} => batch = <<>>
    BY <1>7, OtherBatch
  <2>2. CmdRead' = CmdRead /\ Taken' = Taken
    BY <1>0, <1>7, <2>1 DEF CmdRead, Taken
  <2>3. pc = "options" => Serving' = Serving
    BY <1>0, <1>1, <1>2, <2>2 DEF Serving
  <2>4. \A k \in 1 .. Len(batch') : batch'[k] = objs'[nextAuto' - Len(batch') - 1 + k]
    BY <1>0, <1>1, <1>2, <2>1 DEF RequestsMet
  <2>5. \A k \in 1 .. Taken' - 1 : \A j \in 1 .. Len(inp'.autolink[objs'[k]]) :
          MetNext(inp'.autolink[objs'[k]][j].file, inp'.autolink[objs'[k]][j].needed)
    BY <1>13, <2>2
  <2>6. pc' = "options" =>
          /\ Len(Serving') - Len(opts') \in Nat
          /\ \A k \in 1 .. Len(opts') : opts'[k] = Serving'[Len(Serving') - Len(opts') + k]
          /\ \A j \in 1 .. Len(Serving') - Len(opts') :
               MetNext(Serving'[j].file, Serving'[j].needed)
    BY <1>6, <2>1, <2>3
  <2> QED
    BY <1>0, <1>1, <1>12, <2>1, <2>2, <2>4, <2>5, <2>6 DEF RequestsMet, Met, MetNext
<1>8. CASE ReadItem
  <2>1. /\ pc = "read" /\ pc' = "restore" /\ cmd' = Tail(cmd) /\ cmd # <<>> /\ cmd \in Seq(Item)
        /\ UNCHANGED <<nextAuto, batch, opts>>
    BY <1>0, <1>8 DEF ReadItem, frontierVars, Types
  <2>2. batch = <<>> /\ Taken' = Taken
    BY <1>0, <2>1 DEF RequestsMet, Taken
  <2>3. /\ CmdRead' = CmdRead + 1 /\ CmdRead \in Nat /\ Head(cmd) = inp.cmdline[CmdRead + 1]
    <3>1. inp.cmdline \in Seq(Item)
      BY <1>0, InputFacts DEF Types
    <3> QED
      BY <1>0, <2>1, <3>1, NextItem DEF InputsRead, CmdRead
  <2>4. Head(cmd).file \in Lib => MetNext(Head(cmd).file, Head(cmd).mode.needed)
    <3>1. SUFFICES ASSUME Head(cmd).file \in Lib
                   PROVE  MetNext(Head(cmd).file, Head(cmd).mode.needed)
      OBVIOUS
    <3>2. Head(cmd).file \notin Obj
      BY <3>1, DisjointAssumption
    <3>3. PICK l \in Lib, mode \in Modes :
            ReadLibrary(l, mode) /\ l = Head(cmd).file /\ mode = Head(cmd).mode
      BY <1>0, <1>8, <3>2, ReadStep
    <3> QED
      BY <1>0, <3>3, ReadFiles DEF MetNext
  <2>5. \A j \in 1 .. CmdRead' : inp'.cmdline[j].file \in Lib =>
          MetNext(inp'.cmdline[j].file, inp'.cmdline[j].mode.needed)
    <3>1. \A j \in 1 .. CmdRead' : j \in 1 .. CmdRead \/ j = CmdRead + 1
      BY <2>3
    <3> QED
      BY <1>0, <1>4, <2>3, <2>4, <3>1
  <2>6. \A k \in 1 .. Taken' - 1 : \A j \in 1 .. Len(inp'.autolink[objs'[k]]) :
          MetNext(inp'.autolink[objs'[k]][j].file, inp'.autolink[objs'[k]][j].needed)
    BY <1>13, <2>2
  <2>7. batch' = <<>> /\ 1 .. Len(batch') = {}
    BY <2>1, <2>2
  <2> QED
    BY <1>1, <2>1, <2>2, <2>5, <2>6, <2>7 DEF RequestsMet, Met, MetNext
<1>9. CASE TakeFrontier \/ ServeObject \/ EndOptions
  <2>0. UNCHANGED <<cmd, objs>>
    BY <1>9 DEF TakeFrontier, ServeObject, EndOptions, inputVars
  <2>1. CmdRead' = CmdRead
    BY <1>0, <2>0 DEF CmdRead
  <2>2. CASE TakeFrontier
    <3> DEFINE e == ReadyEnd
    <3>1. /\ pc = "frontier" /\ pc' = "serve" /\ nextAuto' = e
          /\ batch' = SubSeq(objs, nextAuto, e - 1)
      BY <2>2 DEF TakeFrontier
    <3>2. batch = <<>> /\ Taken = nextAuto
      <4>1. batch = <<>>
        BY <1>0, <3>1 DEF RequestsMet
      <4>2. Len(batch) = 0
        BY <4>1
      <4> QED
        BY <1>1, <3>1, <4>1, <4>2
    <3>3. e \in nextAuto .. Len(objs) + 1
      BY <1>0, ReadyEndFacts
    <3> HIDE DEF e
    <3>4. e \in Nat /\ nextAuto <= e /\ e <= Len(objs) + 1 /\ objs \in Seq(Obj)
      BY <1>0, <1>1, <3>3 DEF Types
    <3>5. /\ Len(batch') = e - nextAuto
          /\ \A k \in 1 .. e - nextAuto : batch'[k] = objs[nextAuto - 1 + k]
      BY <1>1, <3>1, <3>4
    <3>6. Taken' = Taken
      BY <1>14, <3>1, <3>2, <3>4, <3>5 DEF Taken
    <3>7. nextAuto' - Len(batch') - 1 = nextAuto - 1
      BY <1>14, <3>1, <3>4, <3>5
    <3>8. \A k \in 1 .. Len(batch') : batch'[k] = objs'[nextAuto' - Len(batch') - 1 + k]
      BY <2>0, <3>5, <3>7
    <3> QED
      BY <1>12, <1>13, <1>14, <2>1, <3>1, <3>6, <3>8 DEF RequestsMet, Met, MetNext
  <2>3. CASE ServeObject
    <3>1. /\ pc = "serve" /\ pc' = "options" /\ nextAuto' = nextAuto /\ batch # <<>>
          /\ batch' = Tail(batch) /\ opts' = inp.autolink[Head(batch)] /\ batch \in Seq(Obj)
      BY <1>0, <2>3 DEF ServeObject, Types
    <3>2. /\ Len(batch) \in Nat \ {0} /\ Head(batch) = batch[1] /\ Len(batch') = Len(batch) - 1
          /\ \A k \in 1 .. Len(batch) - 1 : batch'[k] = batch[k + 1]
      BY <3>1, HeadTail
    <3>3. Taken' = Taken /\ Taken = nextAuto - Len(batch)
      <4>1. Taken = nextAuto - Len(batch)
        BY <1>15, <3>1
      <4>2. Taken' = nextAuto - (Len(batch) - 1) - 1
        BY <3>1, <3>2 DEF Taken
      <4> QED
        BY <1>14, <4>1, <4>2
    <3>4. \A k \in 1 .. Len(batch) : batch[k] = objs[nextAuto - Len(batch) - 1 + k]
      BY <1>0 DEF RequestsMet
    <3>5. ASSUME NEW k \in 1 .. Len(batch')
          PROVE  batch'[k] = objs'[nextAuto' - Len(batch') - 1 + k]
      <4>1. k \in 1 .. Len(batch) - 1 /\ k + 1 \in 1 .. Len(batch)
        BY <3>2
      <4>2. nextAuto - Len(batch) - 1 + (k + 1) = nextAuto' - Len(batch') - 1 + k
        BY <1>14, <3>1, <3>2
      <4> QED
        BY <2>0, <3>2, <3>4, <4>1, <4>2
    <3>6. Head(batch) = objs[Taken]
      <4>1. 1 \in 1 .. Len(batch) /\ nextAuto - Len(batch) - 1 + 1 = Taken
        BY <1>14, <3>2, <3>3
      <4> QED
        BY <3>2, <3>4, <4>1
    <3>7. opts' = Serving'
      BY <1>0, <2>0, <3>1, <3>3, <3>6 DEF Serving
    <3>8. Len(opts') \in Nat
      BY <1>0, Lengths DEF Types
    <3>9. Len(Serving') - Len(opts') = 0
      BY <3>7, <3>8
    <3>10. \A k \in 1 .. Len(opts') : opts'[k] = Serving'[Len(Serving') - Len(opts') + k]
      BY <3>7, <3>9
    <3>11. /\ 1 .. Len(Serving') - Len(opts') = {}
           /\ Len(Serving') - Len(opts') \in Nat
      BY <3>9
    <3> QED
      BY <1>12, <1>13, <1>14, <2>1, <3>1, <3>3, <3>5, <3>10, <3>11
      DEF RequestsMet, Met, MetNext
  <2>4. CASE EndOptions
    <3>1. pc = "options" /\ pc' = "serve" /\ opts = <<>> /\ UNCHANGED <<nextAuto, batch>>
      BY <2>4 DEF EndOptions, frontierVars
    <3>2. Taken' = Taken + 1
      <4>1. Taken = nextAuto - Len(batch) - 1
        BY <1>15, <3>1
      <4>2. Taken' = nextAuto - Len(batch)
        BY <1>14, <3>1 DEF Taken
      <4> QED
        BY <1>14, <4>1, <4>2
    <3>3. Len(opts) = 0 /\ Len(Serving) \in Nat
      BY <1>6, <3>1
    <3>4. \A j \in 1 .. Len(Serving) : MetNext(Serving[j].file, Serving[j].needed)
      BY <1>6, <3>1, <3>3
    <3>5. \A k \in 1 .. Taken' - 1 : k \in 1 .. Taken - 1 \/ k = Taken
      BY <1>14, <3>2
    <3>6. \A k \in 1 .. Taken' - 1 : \A j \in 1 .. Len(inp'.autolink[objs'[k]]) :
            MetNext(inp'.autolink[objs'[k]][j].file, inp'.autolink[objs'[k]][j].needed)
      BY <1>0, <1>5, <2>0, <3>4, <3>5 DEF Serving
    <3>7. \A k \in 1 .. Len(batch') : batch'[k] = objs'[nextAuto' - Len(batch') - 1 + k]
      BY <1>0, <2>0, <3>1 DEF RequestsMet
    <3>8. Taken' \in Nat \ {0}
      BY <1>14, <3>2
    <3> QED
      BY <1>12, <2>1, <3>1, <3>6, <3>7, <3>8 DEF RequestsMet, Met, MetNext
  <2> QED
    BY <1>9, <2>2, <2>3, <2>4
<1>10. CASE ServeOption
  <2>1. /\ pc = "options" /\ pc' = "options" /\ opts' = Tail(opts) /\ opts # <<>>
        /\ opts \in Seq(Option) /\ UNCHANGED <<cmd, objs, nextAuto, batch>>
    BY <1>0, <1>10 DEF ServeOption, inputVars, Types
  <2>2. CmdRead' = CmdRead /\ Taken' = Taken /\ Serving' = Serving
    BY <1>0, <2>1 DEF CmdRead, Taken, Serving
  <2> DEFINE n == Len(Serving) - Len(opts)
  <2>3. /\ Len(Serving) - Len(Tail(opts)) = n + 1 /\ n \in Nat
        /\ Head(opts) = Serving[n + 1]
        /\ \A k \in 1 .. Len(Tail(opts)) :
             Tail(opts)[k] = Serving[Len(Serving) - Len(Tail(opts)) + k]
    <3>1. /\ Serving \in Seq(Option) /\ n \in Nat
          /\ \A k \in 1 .. Len(opts) : opts[k] = Serving[n + k]
      BY <1>6, <2>1
    <3> HIDE DEF Serving
    <3> QED
      BY <2>1, <3>1, NextItem
  <2>4. MetNext(Head(opts).file, Head(opts).needed)
    <3>1. ~ReadItem
      BY <1>10 DEF ReadItem, ServeOption
    <3>2. PICK l \in Lib, mode \in Modes :
            ReadLibrary(l, mode) /\ l = Head(opts).file /\ mode.needed = Head(opts).needed
      BY <1>0, <1>10, <3>1, ReadStep
    <3>3. libDylib'[l] # 0 /\ (mode.needed => dfile'[libDylib'[l]].alive)
      BY <1>0, <3>2, ReadFiles
    <3> QED
      BY <3>2, <3>3 DEF MetNext
  <2>5. \A j \in 1 .. n : MetNext(Serving[j].file, Serving[j].needed)
    BY <1>6, <2>1
  <2> HIDE DEF n
  <2>6. \A j \in 1 .. n + 1 : MetNext(Serving[j].file, Serving[j].needed)
    <3>1. \A j \in 1 .. n + 1 : j \in 1 .. n \/ j = n + 1
      BY <2>3
    <3> QED
      BY <2>3, <2>4, <2>5, <3>1
  <2>7. n + 1 \in Nat
    BY <2>3
  <2>8. pc' = "options" =>
          /\ Len(Serving') - Len(opts') \in Nat
          /\ \A k \in 1 .. Len(opts') : opts'[k] = Serving'[Len(Serving') - Len(opts') + k]
          /\ \A j \in 1 .. Len(Serving') - Len(opts') :
               MetNext(Serving'[j].file, Serving'[j].needed)
    BY <2>1, <2>2, <2>3, <2>6, <2>7
  <2>9. \A k \in 1 .. Len(batch') : batch'[k] = objs'[nextAuto' - Len(batch') - 1 + k]
    BY <1>0, <2>1 DEF RequestsMet
  <2> QED
    BY <1>12, <1>13, <1>14, <2>1, <2>2, <2>8, <2>9 DEF RequestsMet, Met, MetNext
<1>11. ~ReadItem => cmd' = cmd
  <2>1. CASE LoadMember
    BY <2>1 DEF LoadMember
  <2> QED
    BY <2>1, OtherInputs
<1> QED
  BY <1>7, <1>8, <1>9, <1>10, <1>11

-----------------------------------------------------------------------------
(***************************************************************************)
(* Names and the walks over the dylibs.                                    *)
(***************************************************************************)
(* Only two steps take something off the list. *)
LEMMA ListGrows ==
  ASSUME IInv, [Next]_vars, ~EndDedup, ~EraseDead, NEW x, In(x, dylibs)
  PROVE  In(x, dylibs')
<1>0. Types /\ Names /\ dylibs \in Seq(Nat)
  BY DEF IInv, Types
<1>1. CASE ReadItem \/ ServeOption
  <2>1. CASE dylibs' # dylibs
    <3>1. PICK l \in Lib, mode \in Modes : ReadLibrary(l, mode)
      BY <1>0, <1>1, <2>1, ReadStep
    <3>2. dylibs' = Append(dylibs, Len(dfile')) /\ Len(dfile') \in Nat
      BY <1>0, <2>1, <3>1, ReadFiles, FilesStep
    <3> QED
      BY <1>0, <3>2, AppendedTo
  <2> QED
    BY <2>1
<1>2. CASE HoistLibrary
  <2>1. Head(rest) \in Nat
    BY <1>0, <1>2, HeadTail DEF HoistLibrary, Types
  <2>2. dylibs' = dylibs \/ dylibs' = Append(dylibs, Head(rest))
    BY <1>2 DEF HoistLibrary, Hoist
  <2>3. In(x, Append(dylibs, Head(rest)))
    BY <1>0, <2>1, AppendedTo
  <2> QED
    BY <2>2, <2>3
<1> QED
  BY <1>1, <1>2, OtherDylibs

(* How the walks and the erasing are entered. *)
LEMMA Entered ==
  ASSUME [Next]_vars
  PROVE  /\ pc' \in {"erase", "done"} => pc \in {"erase", "done"} \/ StartErase
         /\ pc \in {"erase", "done"} => pc' \in {"erase", "done"}
         /\ pc' = "redirect" => RedirectNames \/ (pc = "redirect" /\ kept' = kept /\ ~EndDedup)
         /\ pc' = "dedup" => LeaveOrRepeat \/ (pc = "dedup" /\ ~RedirectNames)
         /\ pc' = "hoist" => WaitForFrontier \/ pc = "hoist"
BY DEF vars, frontierVars, walkVars, Next, MainStep, ParserStep, Finished, ReadItem,
   RestoreReader, EndOfCommandLine, TakeFrontier, ServeObject, ServeOption, EndOptions,
   LeaveOrRepeat, WaitForFrontier, HoistNext, HoistLibrary, EndHoisting, DedupDylib,
   RedirectNames, RedirectNext, RedirectHoisted, EndDedup, LoadMember, DrainMembers,
   StartErase, EraseDead, EndErase, EnqueueParsed, NotifyParsed, TakeTicket, CreateChild,
   ParseReturns

(* No dylib changes while the dead ones are erased. *)
LEMMA ErasingKeepsFiles ==
  ASSUME IInv, [Next]_vars, pc \in {"erase", "done"}
  PROVE  dfile' = dfile
<1>1. tasks = {}
  BY DEF IInv, Waited
<1>2. ~ReadItem /\ ~ServeOption /\ ~DedupDylib /\ ~RedirectNext /\ ~RedirectHoisted
  BY DEF ReadItem, ServeOption, DedupDylib, RedirectNext, RedirectHoisted
<1> QED
  BY <1>1, <1>2, OtherSteps

(* A live dylib is not erased. *)
LEMMA LiveStays ==
  ASSUME IInv, EraseDead, NEW x, In(x, dylibs), dfile[x].alive
  PROVE  In(x, dylibs')
<1>0. dylibs \in Seq(Nat) /\ Len(dylibs) \in Nat
  BY Lengths DEF IInv, Types
<1>1. PICK n \in 1 .. Len(dylibs) : ~dfile[dylibs[n]].alive /\ dylibs' = RemoveAt(dylibs, n)
  BY DEF EraseDead
<1>2. /\ Len(dylibs') = Len(dylibs) - 1
      /\ \A i \in 1 .. Len(dylibs) - 1 :
           dylibs'[i] = IF i < n THEN dylibs[i] ELSE dylibs[i + 1]
  BY <1>0, <1>1, Erased
<1>3. PICK i \in 1 .. Len(dylibs) : dylibs[i] = x
  BY DEF In
<1>4. i # n
  BY <1>1, <1>3
<1>5. CASE i < n
  <2>1. i \in 1 .. Len(dylibs) - 1
    BY <1>0, <1>5
  <2>2. dylibs'[i] = x
    BY <1>2, <1>3, <1>5, <2>1
  <2> QED
    BY <1>2, <2>1, <2>2 DEF In
<1>6. CASE ~(i < n)
  <2>1. i - 1 \in 1 .. Len(dylibs) - 1 /\ ~(i - 1 < n) /\ (i - 1) + 1 = i
    BY <1>0, <1>4, <1>6
  <2>2. dylibs'[i - 1] = x
    BY <1>2, <1>3, <2>1
  <2> QED
    BY <1>2, <2>1, <2>2 DEF In
<1> QED
  BY <1>5, <1>6

LEMMA NamesStep ==
  ASSUME IInv, [Next]_vars
  PROVE  Names'
<1>0. /\ Types /\ Ids /\ Names /\ Walks /\ Waited /\ inp' = inp /\ libDylib \in [Lib -> Nat]
      /\ Len(dfile) \in Nat /\ Len(dfile') \in Nat /\ Len(dfile) <= Len(dfile')
      /\ \A k \in 1 .. Len(dfile) : dfile'[k].lib = dfile[k].lib
  BY FilesStep, InputKept DEF IInv, Types
<1>00. 1 .. Len(dfile) \subseteq 1 .. Len(dfile')
  BY <1>0
<1>1. SUFFICES ASSUME NEW l \in Lib, libDylib'[l] # 0
      PROVE  /\ libDylib'[l] \in 1 .. Len(dfile')
             /\ inp'.installName[dfile'[libDylib'[l]].lib] = inp'.installName[l]
             /\ (pc' \in {"erase", "done"} /\ dfile'[libDylib'[l]].alive
                   => In(libDylib'[l], dylibs'))
             /\ (pc' \notin {"erase", "done"} => In(libDylib'[l], dylibs'))
             /\ (pc' = "redirect" => In(libDylib'[l], kept'))
  BY DEF Names
<1>2. CASE libDylib'[l] = libDylib[l] /\ ~RedirectNames
  <2> DEFINE d == libDylib[l]
  <2>1. /\ d \in 1 .. Len(dfile) /\ inp.installName[dfile[d].lib] = inp.installName[l]
        /\ (pc \in {"erase", "done"} /\ dfile[d].alive => In(d, dylibs))
        /\ (pc \notin {"erase", "done"} => In(d, dylibs))
        /\ (pc = "redirect" => In(d, kept))
    BY <1>0, <1>1, <1>2 DEF Names
  <2> HIDE DEF d
  <2>2. d \in 1 .. Len(dfile') /\ inp'.installName[dfile'[d].lib] = inp'.installName[l]
    BY <1>0, <1>00, <2>1
  <2>3. pc' = "redirect" => In(d, kept')
    BY <1>2, <2>1, Entered
  <2>4. ASSUME pc' \in {"erase", "done"}, dfile'[d].alive PROVE In(d, dylibs')
    <3>1. CASE pc \in {"erase", "done"}
      <4>1. In(d, dylibs) /\ dfile[d].alive
        BY <2>1, <2>4, <3>1, ErasingKeepsFiles
      <4>2. ~EndDedup
        BY <3>1 DEF EndDedup
      <4> QED
        BY <4>1, <4>2, ListGrows, LiveStays
    <3>2. CASE StartErase
      BY <2>1, <3>2 DEF StartErase
    <3> QED
      BY <2>4, <3>1, <3>2, Entered
  <2>5. ASSUME pc' \notin {"erase", "done"} PROVE In(d, dylibs')
    <3>1. pc \notin {"erase", "done"} /\ In(d, dylibs)
      BY <2>1, <2>5, Entered
    <3>2. CASE EndDedup
      BY <2>1, <3>2 DEF EndDedup
    <3>3. CASE ~EndDedup
      <4>1. ~EraseDead
        BY <3>1 DEF EraseDead
      <4> QED
        BY <3>1, <3>3, <4>1, ListGrows
    <3> QED
      BY <3>2, <3>3
  <2> QED
    BY <1>2, <2>2, <2>3, <2>4, <2>5 DEF d
<1>3. CASE (ReadItem \/ ServeOption) /\ libDylib'[l] # libDylib[l]
  <2>1. PICK m \in Lib, mode \in Modes : ReadLibrary(m, mode)
    BY <1>0, <1>3, ReadStep
  <2>2. /\ m = l /\ libDylib'[l] = Len(dfile') /\ dfile'[Len(dfile')].lib = l
        /\ dylibs' = Append(dylibs, Len(dfile')) /\ Len(dfile') = Len(dfile) + 1
    BY <1>0, <1>3, <2>1, ReadFiles
  <2>3. pc' \in {"restore", "options"}
    BY <1>3 DEF ReadItem, ServeOption
  <2>4. In(Len(dfile'), dylibs')
    BY <1>0, <2>2, AppendedTo DEF Types
  <2>5. Len(dfile') \in 1 .. Len(dfile')
    BY <1>0, <2>2
  <2> QED
    BY <2>2, <2>3, <2>4, <2>5
<1>4. CASE RedirectNames
  <2>1. /\ pc = "dedup" /\ pc' = "redirect" /\ at = Len(dylibs)
        /\ UNCHANGED <<dfile, dylibs, kept>>
        /\ libDylib'[l] = IF libDylib[l] = 0 THEN 0 ELSE Redirect(libDylib[l])
    BY <1>4 DEF RedirectNames
  <2>2. libDylib[l] # 0 /\ libDylib'[l] = Redirect(libDylib[l])
    BY <1>1, <2>1
  <2>3. In(libDylib[l], dylibs) /\ InstallName(libDylib[l]) = inp.installName[l]
    BY <1>0, <2>1, <2>2 DEF Names, InstallName
  <2>4. PICK k \in 1 .. Len(kept) :
          Redirect(libDylib[l]) = kept[k] /\ SameName(kept[k], libDylib[l])
    BY <1>0, <2>1, <2>3, RedirectedToKept
  <2>5. InstallName(kept[k]) = inp.installName[l]
    BY <2>3, <2>4, SameNameFacts
  <2>6. kept[k] \in 1 .. Len(dfile) /\ In(kept[k], kept) /\ In(kept[k], dylibs)
    BY <1>0, <2>1, KeptIds DEF In, Walks
  <2> QED
    BY <1>0, <2>1, <2>2, <2>4, <2>5, <2>6 DEF InstallName
<1> QED
  BY <1>2, <1>3, <1>4, OtherNames

(* The same install name after the step. *)
SameNext(i, j) ==
  \/ i = j
  \/ /\ {dfile'[i].lib, dfile'[j].lib} \cap inp'.nameless = {}
     /\ inp'.installName[dfile'[i].lib] = inp'.installName[dfile'[j].lib]

(* What DedupDylib does to the list it makes: a dylib with a new name is   *)
(* entered, and any other one hands on that it is alive.                   *)
LEMMA DedupKept ==
  ASSUME IInv, DedupDylib, [Next]_vars
  PROVE  /\ \A i, j \in 1 .. Len(kept') : SameName(kept'[i], kept'[j]) => i = j
         /\ \A k \in 1 .. Len(kept') : \E j \in 1 .. at + 1 : kept'[k] = dylibs[j]
         /\ \A j \in 1 .. at + 1 : \E k \in 1 .. Len(kept') :
              /\ SameName(kept'[k], dylibs[j])
              /\ dfile'[dylibs[j]].alive => dfile'[kept'[k]].alive
<1> DEFINE id == dylibs[at + 1]
           c == Canonical(id)
<1>0. /\ Types /\ Ids /\ Walks /\ pc = "dedup" /\ at \in Nat /\ Len(kept) \in Nat
      /\ Len(dylibs) \in Nat /\ kept \in Seq(Nat) /\ id \in Nat
  <2>1. Types /\ Ids /\ Walks /\ pc = "dedup" /\ kept \in Seq(Nat) /\ at < Len(dylibs)
    BY DEF IInv, DedupDylib, Types
  <2>2. at \in Nat /\ Len(kept) \in Nat /\ Len(dylibs) \in Nat
    BY <2>1, Lengths
  <2>3. at + 1 \in 1 .. Len(dylibs)
    BY <2>1, <2>2
  <2> QED
    BY <2>1, <2>2, <2>3, Lengths
<1>1. /\ at + 1 \in 1 .. Len(dylibs) /\ id \in 1 .. Len(dfile) /\ c \in 1 .. Len(dfile)
      /\ \A k \in 1 .. Len(dfile) :
           /\ dfile[k].alive => dfile'[k].alive
           /\ k # c => dfile'[k] = dfile[k]
      /\ dfile'[c].alive <=> dfile[c].alive \/ dfile[id].alive
      /\ kept' = IF c = id THEN Append(kept, id) ELSE kept
  BY <1>0, DedupFacts
<1>2. /\ \A i, j \in 1 .. Len(kept) : SameName(kept[i], kept[j]) => i = j
      /\ \A k \in 1 .. Len(kept) : \E j \in 1 .. at : kept[k] = dylibs[j]
      /\ \A j \in 1 .. at : \E k \in 1 .. Len(kept) :
           SameName(kept[k], dylibs[j]) /\ (dfile[dylibs[j]].alive => dfile[kept[k]].alive)
  BY <1>0 DEF Walks
<1>3. \/ c = id /\ ~Listed(kept, id)
      \/ \E k \in 1 .. Len(kept) : c = kept[k] /\ SameName(kept[k], id)
  BY <1>0, CanonicalFacts
<1>4. \A j \in 1 .. at : dylibs[j] # id /\ j \in 1 .. Len(dylibs) /\ dylibs[j] \in 1 .. Len(dfile)
  <2>1. ASSUME NEW j \in 1 .. at PROVE j \in 1 .. Len(dylibs) /\ j # at + 1
    BY <1>0, <1>1
  <2>2. ASSUME NEW j \in 1 .. at PROVE dylibs[j] # id
    BY <1>0, <1>1, <2>1 DEF Ids, Distinct
  <2> QED
    BY <1>0, <2>1, <2>2 DEF Ids
<1>5. \A k \in 1 .. Len(kept) : kept[k] \in 1 .. Len(dfile) /\ kept[k] # id
  BY <1>2, <1>4
<1>6. \A j \in 1 .. at + 1 : j \in 1 .. at \/ j = at + 1
  BY <1>0
<1>7. 1 .. at \subseteq 1 .. at + 1 /\ at + 1 \in 1 .. at + 1
  BY <1>0
<1>8. dylibs[at + 1] = id
  OBVIOUS
<1>9. Listed(kept, id) <=> \E k \in 1 .. Len(kept) : SameName(kept[k], id)
  BY DEF Listed
<1> HIDE DEF c, id
(* Of the others that were looked at, none changes but the one kept. *)
<1>10. ASSUME NEW j \in 1 .. at, dylibs[j] # c
       PROVE  \E k \in 1 .. Len(kept) :
                /\ SameName(kept[k], dylibs[j])
                /\ dfile'[dylibs[j]].alive => dfile'[kept[k]].alive
  <2>1. PICK k \in 1 .. Len(kept) :
          SameName(kept[k], dylibs[j]) /\ (dfile[dylibs[j]].alive => dfile[kept[k]].alive)
    BY <1>2
  <2>2. dfile'[dylibs[j]] = dfile[dylibs[j]]
    BY <1>1, <1>4, <1>10
  <2>3. dfile[kept[k]].alive => dfile'[kept[k]].alive
    BY <1>1, <1>5
  <2> QED
    BY <2>1, <2>2, <2>3
<1>11. CASE c = id /\ ~Listed(kept, id)
  <2>1. /\ kept' = Append(kept, id) /\ Len(kept') = Len(kept) + 1
        /\ \A k \in 1 .. Len(kept) : kept'[k] = kept[k]
        /\ kept'[Len(kept) + 1] = id
    BY <1>0, <1>1, <1>11, Appended
  <2>2. \A k \in 1 .. Len(kept') : k \in 1 .. Len(kept) \/ k = Len(kept) + 1
    BY <1>0, <2>1
  <2>3. 1 .. Len(kept) \subseteq 1 .. Len(kept') /\ Len(kept) + 1 \in 1 .. Len(kept')
    BY <1>0, <2>1
  <2>4. \A k \in 1 .. Len(kept) : ~SameName(kept[k], id) /\ ~SameName(id, kept[k])
    BY <1>9, <1>11, SameNameFacts
  <2>5. \A i, j \in 1 .. Len(kept') : SameName(kept'[i], kept'[j]) => i = j
    BY <1>2, <2>1, <2>2, <2>4
  <2>6. \A k \in 1 .. Len(kept') : \E j \in 1 .. at + 1 : kept'[k] = dylibs[j]
    <3>1. ASSUME NEW k \in 1 .. Len(kept')
          PROVE  \E j \in 1 .. at + 1 : kept'[k] = dylibs[j]
      <4>1. CASE k = Len(kept) + 1
        BY <1>7, <1>8, <2>1, <4>1
      <4>2. CASE k \in 1 .. Len(kept)
        <5>1. PICK j \in 1 .. at : kept[k] = dylibs[j]
          BY <1>2, <4>2
        <5>2. j \in 1 .. at + 1 /\ kept'[k] = dylibs[j]
          BY <1>7, <2>1, <4>2, <5>1
        <5> QED
          BY <5>2
      <4> QED
        BY <2>2, <4>1, <4>2
    <3> QED
      BY <3>1
  <2>7. SameName(id, id)
    BY DEF SameName
  <2>8. ASSUME NEW j \in 1 .. at + 1
        PROVE  \E k \in 1 .. Len(kept') :
                 /\ SameName(kept'[k], dylibs[j])
                 /\ dfile'[dylibs[j]].alive => dfile'[kept'[k]].alive
    <3>1. CASE j = at + 1
      BY <1>8, <2>1, <2>3, <2>7, <3>1
    <3>2. CASE j \in 1 .. at
      <4>1. PICK k \in 1 .. Len(kept) :
              /\ SameName(kept[k], dylibs[j])
              /\ dfile'[dylibs[j]].alive => dfile'[kept[k]].alive
        BY <1>4, <1>10, <1>11, <3>2
      <4> QED
        BY <2>1, <2>3, <4>1
    <3> QED
      BY <1>6, <3>1, <3>2
  <2> QED
    BY <2>5, <2>6, <2>8
<1>12. CASE \E k \in 1 .. Len(kept) : c = kept[k] /\ SameName(kept[k], id)
  <2>1. PICK m \in 1 .. Len(kept) : c = kept[m] /\ SameName(kept[m], id)
    BY <1>12
  <2>2. c # id /\ kept' = kept
    BY <1>1, <1>5, <2>1
  <2>3. ASSUME NEW j \in 1 .. at + 1
        PROVE  \E k \in 1 .. Len(kept') :
                 /\ SameName(kept'[k], dylibs[j])
                 /\ dfile'[dylibs[j]].alive => dfile'[kept'[k]].alive
    <3>1. CASE j = at + 1
      <4>1. dfile'[id] = dfile[id]
        BY <1>1, <2>2
      <4>2. dfile'[id].alive => dfile'[c].alive
        BY <1>1, <4>1
      <4> QED
        BY <1>8, <2>1, <2>2, <3>1, <4>2
    <3>2. CASE j \in 1 .. at /\ dylibs[j] # c
      BY <1>10, <2>2, <3>2
    <3>3. CASE j \in 1 .. at /\ dylibs[j] = c
      <4>1. SameName(kept[m], dylibs[j]) /\ kept[m] = dylibs[j]
        BY <2>1, <3>3 DEF SameName
      <4> QED
        BY <2>2, <4>1
    <3> QED
      BY <1>6, <3>1, <3>2, <3>3
  <2>4. \A k \in 1 .. Len(kept') : \E j \in 1 .. at + 1 : kept'[k] = dylibs[j]
    BY <1>2, <1>7, <2>2
  <2> QED
    BY <1>2, <2>2, <2>3, <2>4
<1> QED
  BY <1>3, <1>11, <1>12

LEMMA WalksStep ==
  ASSUME IInv, [Next]_vars
  PROVE  Walks'
<1>0. /\ Types /\ Types' /\ Ids /\ Walks /\ Waited /\ at \in Nat /\ Len(dylibs) \in Nat
      /\ Len(kept) \in Nat /\ dylibs \in Seq(Nat) /\ inp' = inp
  BY TypesStep, Lengths, InputKept DEF IInv, Types
<1>1. \A i, j \in 1 .. Len(dfile) : SameNext(i, j) <=> SameName(i, j)
  BY SameNameKept DEF SameNext, SameName
<1>2. pc' = "hoist" => at' <= Len(dylibs')
  <2>1. SUFFICES ASSUME pc' = "hoist" PROVE at' <= Len(dylibs')
    OBVIOUS
  <2>2. Len(dylibs') \in Nat
    BY <1>0 DEF Types
  <2>3. CASE WaitForFrontier
    BY <1>0, <2>2, <2>3 DEF WaitForFrontier
  <2>4. CASE pc = "hoist"
    <3>0. at <= Len(dylibs)
      BY <1>0, <2>4 DEF Walks
    <3>1. CASE HoistNext
      BY <1>0, <3>1 DEF HoistNext
    <3>2. CASE HoistLibrary
      <4>1. Head(rest) \in Nat
        BY <1>0, <3>2, HeadTail DEF HoistLibrary, Types
      <4>2. at' = at /\ (dylibs' = dylibs \/ dylibs' = Append(dylibs, Head(rest)))
        BY <3>2 DEF HoistLibrary, Hoist
      <4>3. Len(dylibs') = Len(dylibs) \/ Len(dylibs') = Len(dylibs) + 1
        BY <1>0, <4>1, <4>2, Appended
      <4> QED
        BY <1>0, <3>0, <4>2, <4>3
    <3>3. CASE ~HoistNext /\ ~HoistLibrary
      <4>1. at' = at /\ dylibs' = dylibs
        <5>1. CASE ParserStep
          BY <5>1, ParserQuiet DEF walkVars
        <5>2. CASE MainStep
          BY <2>1, <2>4, <3>3, <5>2 DEF MainStep, ReadItem,
             RestoreReader, EndOfCommandLine, TakeFrontier, ServeObject, ServeOption,
             EndOptions, LeaveOrRepeat, WaitForFrontier, EndHoisting, DedupDylib,
             RedirectNames, RedirectNext, RedirectHoisted, EndDedup, LoadMember,
             DrainMembers, StartErase, EraseDead, EndErase
        <5>3. CASE UNCHANGED vars
          BY <5>3 DEF vars
        <5> QED
          BY <5>1, <5>2, <5>3 DEF Next, Finished
      <4> QED
        BY <3>0, <4>1
    <3> QED
      BY <3>1, <3>2, <3>3
  <2> QED
    BY <2>1, <2>3, <2>4, Entered
<1>3. CASE LeaveOrRepeat /\ pc' = "dedup"
  <2>1. at' = 0 /\ rest' = <<>> /\ kept' = <<>> /\ dylibs' = dylibs
    BY <1>3 DEF LeaveOrRepeat
  <2>2. 1 .. at' = {} /\ 1 .. Len(kept') = {} /\ at' <= Len(dylibs')
    BY <1>0, <2>1
  <2> QED
    BY <1>3, <2>1, <2>2 DEF Walks
<1>4. CASE DedupDylib
  <2>1. /\ pc = "dedup" /\ pc' = "dedup" /\ at < Len(dylibs) /\ at' = at + 1
        /\ dylibs' = dylibs /\ rest' = rest
    BY <1>4 DEF DedupDylib
  <2>2. /\ \A i, j \in 1 .. Len(kept') : SameName(kept'[i], kept'[j]) => i = j
        /\ \A k \in 1 .. Len(kept') : \E j \in 1 .. at' : kept'[k] = dylibs[j]
        /\ \A j \in 1 .. at' : \E k \in 1 .. Len(kept') :
             /\ SameName(kept'[k], dylibs[j])
             /\ dfile'[dylibs[j]].alive => dfile'[kept'[k]].alive
    BY <1>4, <2>1, DedupKept
  <2>3. at' <= Len(dylibs') /\ 1 .. at' \subseteq 1 .. Len(dylibs) /\ rest' = <<>>
    BY <1>0, <2>1 DEF Walks
  <2>4. \A k \in 1 .. Len(kept') : In(kept'[k], dylibs') /\ kept'[k] \in 1 .. Len(dfile)
    BY <1>0, <2>1, <2>2, <2>3 DEF In, Ids
  <2>5. \A j \in 1 .. at' : dylibs[j] \in 1 .. Len(dfile)
    BY <1>0, <2>3 DEF Ids
  <2>6. \A i, j \in 1 .. Len(dfile) : SameNext(i, j) <=> SameName(i, j)
    BY <1>1
  <2>7. \A i, j \in 1 .. Len(kept') : SameNext(kept'[i], kept'[j]) => i = j
    BY <2>2, <2>4, <2>6
  <2>8. \A j \in 1 .. at' : \E k \in 1 .. Len(kept') :
          /\ SameNext(kept'[k], dylibs'[j])
          /\ dfile'[dylibs'[j]].alive => dfile'[kept'[k]].alive
    BY <2>1, <2>2, <2>4, <2>5, <2>6
  <2>9. (\A i, j \in 1 .. Len(kept) : SameName(kept[i], kept[j]) => i = j)'
    BY <2>7 DEF SameNext, SameName
  <2>10. (\A j \in 1 .. at : \E k \in 1 .. Len(kept) :
            /\ SameName(kept[k], dylibs[j])
            /\ dfile[dylibs[j]].alive => dfile[kept[k]].alive)'
    BY <2>8 DEF SameNext, SameName
  <2> QED
    BY <2>1, <2>2, <2>3, <2>4, <2>9, <2>10 DEF Walks
<1>5. CASE pc \in {"dedup", "redirect"} /\ pc' \in {"dedup", "redirect"} /\ ~DedupDylib
  <2>1. kept' = kept /\ dylibs' = dylibs
    <3>1. CASE ParserStep
      BY <3>1, ParserQuiet DEF walkVars
    <3>2. CASE MainStep
      BY <1>5, <3>2 DEF MainStep, ReadItem,
         RestoreReader, EndOfCommandLine, TakeFrontier, ServeObject, ServeOption,
         EndOptions, LeaveOrRepeat, WaitForFrontier, HoistNext, HoistLibrary, EndHoisting,
         RedirectNames, RedirectNext, RedirectHoisted, EndDedup, LoadMember,
         DrainMembers, StartErase, EraseDead, EndErase
    <3>3. CASE UNCHANGED vars
      BY <3>3 DEF vars
    <3> QED
      BY <3>1, <3>2, <3>3 DEF Next, Finished
  <2>2. /\ \A i, j \in 1 .. Len(kept) : SameName(kept[i], kept[j]) => i = j
        /\ \A k \in 1 .. Len(kept) : In(kept[k], dylibs) /\ kept[k] \in 1 .. Len(dfile)
    BY <1>0, <1>5, KeptIds DEF Walks
  <2>3. \A i, j \in 1 .. Len(kept') : SameNext(kept'[i], kept'[j]) => i = j
    BY <1>1, <2>1, <2>2
  <2>4. (\A i, j \in 1 .. Len(kept) : SameName(kept[i], kept[j]) => i = j)'
    BY <2>3 DEF SameNext, SameName
  <2>5. \A k \in 1 .. Len(kept') : In(kept'[k], dylibs')
    BY <2>1, <2>2
  <2>6. CASE pc' = "dedup"
    <3>1. pc = "dedup" /\ ~RedirectNames
      BY <1>5, <2>6, Entered DEF LeaveOrRepeat
    <3>2. tasks = {} /\ ~ReadItem /\ ~ServeOption /\ ~RedirectNext /\ ~RedirectHoisted
      BY <1>0, <3>1 DEF Waited, ReadItem, ServeOption, RedirectNext, RedirectHoisted
    <3>3. dfile' = dfile
      BY <1>5, <3>2, OtherSteps
    <3>4. at' = at /\ rest' = rest
      <4>1. CASE ParserStep
        BY <4>1, ParserQuiet DEF walkVars
      <4>2. CASE MainStep
        BY <1>5, <2>6, <3>1, <4>2 DEF MainStep, ReadItem,
           RestoreReader, EndOfCommandLine, TakeFrontier, ServeObject, ServeOption,
           EndOptions, LeaveOrRepeat, WaitForFrontier, HoistNext, HoistLibrary, EndHoisting,
           RedirectNext, RedirectHoisted, EndDedup, LoadMember,
           DrainMembers, StartErase, EraseDead, EndErase
      <4>3. CASE UNCHANGED vars
        BY <4>3 DEF vars
      <4> QED
        BY <4>1, <4>2, <4>3 DEF Next, Finished
    <3>5. /\ at <= Len(dylibs) /\ rest = <<>>
          /\ \A k \in 1 .. Len(kept) : \E j \in 1 .. at : kept[k] = dylibs[j]
          /\ \A j \in 1 .. at : \E k \in 1 .. Len(kept) :
               /\ SameName(kept[k], dylibs[j])
               /\ dfile[dylibs[j]].alive => dfile[kept[k]].alive
      BY <1>0, <3>1 DEF Walks
    <3>6. (\A j \in 1 .. at : \E k \in 1 .. Len(kept) :
             /\ SameName(kept[k], dylibs[j])
             /\ dfile[dylibs[j]].alive => dfile[kept[k]].alive)'
      BY <1>0, <2>1, <3>3, <3>4, <3>5 DEF SameName
    <3> QED
      BY <2>1, <2>4, <2>5, <2>6, <3>4, <3>5, <3>6 DEF Walks
  <2>7. CASE pc' = "redirect"
    <3>1. at' <= Len(kept') /\ (rest' # <<>> => at' # 0)
      <4>1. CASE RedirectNames
        <5>1. rest = <<>> /\ at' = 0 /\ rest' = rest
          BY <1>0, <4>1 DEF RedirectNames, Walks
        <5> QED
          BY <1>0, <2>1, <5>1
      <4>2. CASE pc = "redirect"
        <5>0. at <= Len(kept) /\ (rest # <<>> => at # 0)
          BY <1>0, <4>2 DEF Walks
        <5>1. CASE RedirectNext
          BY <1>0, <2>1, <5>1 DEF RedirectNext
        <5>2. CASE RedirectHoisted
          BY <1>0, <2>1, <5>0, <5>2 DEF RedirectHoisted
        <5>3. CASE ~RedirectNext /\ ~RedirectHoisted
          <6>1. at' = at /\ rest' = rest
            <7>1. CASE ParserStep
              BY <7>1, ParserQuiet DEF walkVars
            <7>2. CASE MainStep
              BY <1>5, <2>7, <4>2, <5>3, <7>2 DEF MainStep, ReadItem,
                 RestoreReader, EndOfCommandLine, TakeFrontier, ServeObject, ServeOption,
                 EndOptions, LeaveOrRepeat, WaitForFrontier, HoistNext, HoistLibrary,
                 EndHoisting, RedirectNames, EndDedup, LoadMember,
                 DrainMembers, StartErase, EraseDead, EndErase
            <7>3. CASE UNCHANGED vars
              BY <7>3 DEF vars
            <7> QED
              BY <7>1, <7>2, <7>3 DEF Next, Finished
          <6> QED
            BY <2>1, <5>0, <6>1
        <5> QED
          BY <5>1, <5>2, <5>3
      <4> QED
        BY <2>7, <4>1, <4>2, Entered
    <3> QED
      BY <2>1, <2>4, <2>5, <2>7, <3>1 DEF Walks
  <2> QED
    BY <1>5, <2>6, <2>7
<1>6. CASE pc' \notin {"dedup", "redirect"}
  BY <1>2, <1>6 DEF Walks
<1>7. pc' \in {"dedup", "redirect"} =>
        (LeaveOrRepeat /\ pc' = "dedup") \/ pc \in {"dedup", "redirect"}
  BY Entered DEF RedirectNames
<1> QED
  BY <1>3, <1>4, <1>5, <1>6, <1>7

LEMMA OtherStage ==
  ASSUME [Next]_vars, ~EndDedup
  PROVE  stage' = stage
BY DEF vars, inputVars, Next, MainStep, ParserStep, Finished, ReadItem, RestoreReader,
   EndOfCommandLine, TakeFrontier, ServeObject, ServeOption, EndOptions, LeaveOrRepeat,
   WaitForFrontier, HoistNext, HoistLibrary, EndHoisting, DedupDylib, RedirectNames,
   RedirectNext, RedirectHoisted, LoadMember, DrainMembers, StartErase, EraseDead, EndErase,
   EnqueueParsed, NotifyParsed, TakeTicket, CreateChild, ParseReturns

LEMMA UniqueStep ==
  ASSUME IInv, [Next]_vars
  PROVE  Unique'
<1>0. /\ Types /\ Ids /\ Walks /\ Waited /\ Unique /\ InputsRead /\ inp' = inp
      /\ dylibs \in Seq(Nat) /\ Len(dylibs) \in Nat /\ members \in Seq(Obj)
      /\ \A i, j \in 1 .. Len(dfile) : SameNext(i, j) <=> SameName(i, j)
  BY Lengths, InputKept, SameNameKept DEF IInv, Types, SameNext, SameName
<1>1. SUFFICES ASSUME stage' = "archives", MembersRead' = 0
               PROVE  pc' \in {"resolving", "erase", "done"} /\ ~pending' /\ NoNameTwice'
  BY DEF Unique
<1>2. CASE EndDedup
  <2>1. pc = "redirect" /\ pc' = "resolving" /\ pending' = pending /\ dylibs' = kept
    BY <1>2 DEF EndDedup, frontierVars
  <2>2. ~pending'
    BY <1>0, <2>1 DEF Waited
  <2>3. \A i, j \in 1 .. Len(kept) : SameName(kept[i], kept[j]) => i = j
    BY <1>0, <2>1 DEF Walks
  <2>4. \A k \in 1 .. Len(kept) : kept[k] \in 1 .. Len(dfile)
    BY <1>0, <2>1, KeptIds
  <2>5. \A i, j \in 1 .. Len(dylibs') : SameNext(dylibs'[i], dylibs'[j]) => i = j
    BY <1>0, <2>1, <2>3, <2>4
  <2> QED
    BY <2>1, <2>2, <2>5 DEF NoNameTwice, SameNext, SameName
<1>3. CASE LoadMember
  <2>1. members # <<>> /\ members' = Tail(members)
    BY <1>3 DEF LoadMember
  <2>2. Len(members') = Len(members) - 1 /\ Len(members) \in Nat
    BY <1>0, <2>1, HeadTail
  <2>3. Len(inp.members) \in Nat
    BY <1>0, InputFacts DEF Types
  <2>4. MembersRead' = MembersRead + 1 /\ MembersRead \in Nat
    BY <1>0, <2>2, <2>3 DEF MembersRead, InputsRead
  <2> QED
    BY <1>1, <2>4
<1>4. CASE ~EndDedup /\ ~LoadMember
  <2>1. stage = "archives" /\ MembersRead = 0
    <3>1. members' = members
      <4>1. CASE ReadItem
        BY <4>1 DEF ReadItem
      <4> QED
        BY <1>4, <4>1, OtherInputs
    <3> QED
      BY <1>0, <1>1, <1>4, <3>1, OtherStage DEF MembersRead
  <2>2. pc \in {"resolving", "erase", "done"} /\ ~pending /\ NoNameTwice
    BY <1>0, <2>1 DEF Unique
  <2>3. pc' \in {"resolving", "erase", "done"} /\ pending' = pending
    <3>1. CASE ParserStep
      BY <2>2, <3>1, ParserQuiet
    <3>2. CASE MainStep
      BY <1>4, <2>2, <3>2 DEF frontierVars, MainStep, ReadItem,
         RestoreReader, EndOfCommandLine, TakeFrontier, ServeObject, ServeOption,
         EndOptions, LeaveOrRepeat, WaitForFrontier, HoistNext, HoistLibrary, EndHoisting,
         DedupDylib, RedirectNames, RedirectNext, RedirectHoisted,
         DrainMembers, StartErase, EraseDead, EndErase
    <3>3. CASE UNCHANGED vars
      BY <2>2, <3>3 DEF vars
    <3> QED
      BY <3>1, <3>2, <3>3 DEF Next, Finished
  <2>4. NoNameTwice'
    <3>1. \A i, j \in 1 .. Len(dylibs) : SameNext(dylibs[i], dylibs[j]) => i = j
      BY <1>0, <2>2 DEF Ids, NoNameTwice
    <3>2. CASE dylibs' = dylibs
      <4>1. \A i, j \in 1 .. Len(dylibs') : SameNext(dylibs'[i], dylibs'[j]) => i = j
        BY <3>1, <3>2
      <4> QED
        BY <4>1 DEF NoNameTwice, SameNext, SameName
    <3>3. CASE EraseDead
      <4>1. PICK n \in 1 .. Len(dylibs) : dylibs' = RemoveAt(dylibs, n)
        BY <3>3 DEF EraseDead
      <4>2. /\ Len(dylibs') = Len(dylibs) - 1
            /\ \A i \in 1 .. Len(dylibs) - 1 :
                 dylibs'[i] = IF i < n THEN dylibs[i] ELSE dylibs[i + 1]
        BY <1>0, <4>1, Erased
      <4>3. \A i \in 1 .. Len(dylibs) - 1 : i \in 1 .. Len(dylibs) /\ i + 1 \in 1 .. Len(dylibs)
        BY <1>0
      <4>4. ASSUME NEW i \in 1 .. Len(dylibs'), NEW j \in 1 .. Len(dylibs'),
                   SameNext(dylibs'[i], dylibs'[j])
            PROVE  i = j
        <5>1. i \in 1 .. Len(dylibs) - 1 /\ j \in 1 .. Len(dylibs) - 1 /\ i \in Nat /\ j \in Nat
          BY <4>2, <1>0
        <5> DEFINE a == IF i < n THEN i ELSE i + 1
                   b == IF j < n THEN j ELSE j + 1
        <5>2. dylibs'[i] = dylibs[a] /\ dylibs'[j] = dylibs[b]
          BY <4>2, <5>1
        <5>3. a \in 1 .. Len(dylibs) /\ b \in 1 .. Len(dylibs)
          BY <4>3, <5>1
        <5>4. a = b
          BY <3>1, <4>4, <5>2, <5>3
        <5> QED
          BY SMTT(30), <1>0, <5>1, <5>4
      <4> QED
        BY <4>4 DEF NoNameTwice, SameNext, SameName
    <3>4. ~ReadItem /\ ~ServeOption /\ ~HoistLibrary
      BY <2>2 DEF ReadItem, ServeOption, HoistLibrary
    <3> QED
      BY <1>4, <3>2, <3>3, <3>4, OtherDylibs
  <2> QED
    BY <2>2, <2>3, <2>4
<1> QED
  BY <1>2, <1>3, <1>4

-----------------------------------------------------------------------------
(***************************************************************************)
(* The theorems.                                                           *)
(***************************************************************************)
LEMMA InitIInv ==
  ASSUME Init
  PROVE  IInv
<1>0. /\ inp \in Inputs /\ pc = "read" /\ stage = "inputs" /\ cmd = inp.cmdline
      /\ members = inp.members /\ reader = Plain /\ objs = <<>> /\ dylibs = <<>>
      /\ dfile = <<>> /\ libDylib = [l \in Lib |-> 0] /\ nextPriority = 0 /\ tasks = {}
      /\ objState = [o \in Obj |-> "none"] /\ parsed = {} /\ ready = {} /\ nextAuto = 1
      /\ batch = <<>> /\ opts = <<>> /\ pending = FALSE /\ launched = FALSE
      /\ objBegin = 0 /\ dylibBegin = 0 /\ at = 0 /\ rest = <<>> /\ kept = <<>>
  BY DEF Init
<1>1. inp.cmdline \in Seq(Item) /\ inp.members \in Seq(Obj)
  BY <1>0, InputFacts
<1>2. /\ <<>> \in Seq(Obj) /\ <<>> \in Seq(Nat) /\ <<>> \in Seq(Dylib) /\ <<>> \in Seq(Option)
      /\ Len(<<>>) = 0 /\ 1 .. 0 = {}
  OBVIOUS
<1>3. Types
  <2>1. Plain \in Modes
    BY DEF Plain, Modes
  <2>2. cmd \in Seq(Item) /\ members \in Seq(Obj)
    BY <1>0, <1>1
  <2>3. libDylib \in [Lib -> Nat] /\ objState \in [Obj -> {"none", "parsing", "queued", "parsed"}]
    BY <1>0
  <2>4. tasks \subseteq Seq(StackFrame)
    BY <1>0
  <2>5. /\ objs \in Seq(Obj) /\ dylibs \in Seq(Nat) /\ dfile \in Seq(Dylib)
        /\ batch \in Seq(Obj) /\ opts \in Seq(Option) /\ rest \in Seq(Nat) /\ kept \in Seq(Nat)
    BY <1>0, <1>2
  <2>6. /\ nextPriority \in Nat /\ nextAuto \in Nat \ {0} /\ objBegin \in Nat
        /\ dylibBegin \in Nat /\ at \in Nat
    BY <1>0
  <2>7. /\ inp \in Inputs /\ pc = "read" /\ stage = "inputs" /\ reader \in Modes
        /\ pending \in BOOLEAN /\ launched \in BOOLEAN
    BY <1>0, <2>1
  <2> QED
    BY <2>2, <2>3, <2>4, <2>5, <2>6, <2>7 DEF Types
<1>4. CmdRead = 0 /\ MembersRead = 0
  <2>1. Len(inp.cmdline) \in Nat /\ Len(inp.members) \in Nat
    BY <1>1
  <2> QED
    BY <1>0, <2>1 DEF CmdRead, MembersRead
<1>5. InputsRead
  <2>1. \A k \in 1 .. Len(cmd) : cmd[k] = inp.cmdline[CmdRead + k]
    BY <1>0, <1>1, <1>4
  <2>2. \A k \in 1 .. Len(members) : members[k] = inp.members[MembersRead + k]
    BY <1>0, <1>1, <1>4
  <2>3. Distinct(objs) /\ 1 .. Len(objs) = {}
    BY <1>0, <1>2 DEF Distinct
  <2> QED
    BY <1>0, <1>4, <2>1, <2>2, <2>3 DEF InputsRead
<1>6. Queue
  BY <1>0, <1>2 DEF Queue
<1>7. Ids /\ Running
  BY <1>0, <1>2 DEF Ids, Running, Distinct
<1>8. Waited
  BY <1>0, <1>2 DEF Waited, Left
<1>9. RequestsMet
  <2>1. Taken = 1 /\ 1 .. Taken - 1 = {}
    BY <1>0, <1>2 DEF Taken
  <2>2. 1 .. CmdRead = {} /\ 1 .. Len(batch) = {}
    BY <1>0, <1>2, <1>4
  <2> QED
    BY <1>0, <2>1, <2>2 DEF RequestsMet
<1>10. Names /\ Walks /\ Unique
  BY <1>0 DEF Names, Walks, Unique
<1> QED
  BY <1>3, <1>5, <1>6, <1>7, <1>8, <1>9, <1>10 DEF IInv

(* The parts of the invariant hold together in every reachable state, for  *)
(* any inputs and any schedule of the parse tasks.                         *)
THEOREM Inductive == Spec => []IInv
<1>1. Init => IInv
  BY InitIInv
<1>2. IInv /\ [Next]_vars => IInv'
  BY TypesStep, InputsReadStep, QueueStep, IdsStep, RunningStep, WaitedStep,
     RequestsMetStep, NamesStep, WalksStep, UniqueStep DEF IInv
<1> QED
  BY <1>1, <1>2, PTL DEF Spec

(* When wait_for_new_input_frontier has returned with nothing launched,    *)
(* every object read is parsed and served, and every listed dylib, hoisted *)
(* ones included, is parsed.                                               *)
THEOREM FrontierComplete == Spec => []FrontierIsComplete
<1>1. ASSUME IInv PROVE FrontierIsComplete
  <2>1. SUFFICES ASSUME pc \in {"dedup", "redirect", "resolving", "erase", "done"}, ~pending
                 PROVE  /\ nextAuto = Len(objs) + 1
                        /\ \A k \in 1 .. Len(objs) : objState[objs[k]] = "parsed"
                        /\ Range(dylibs) \subseteq parsed
    BY DEF FrontierIsComplete
  <2>2. nextAuto = Len(objs) + 1 /\ ObjsParsed /\ DylibsParsed
    BY <1>1, <2>1 DEF IInv, Waited, Left
  <2>3. dylibs \in Seq(Nat)
    BY <1>1 DEF IInv, Types
  <2>4. Range(dylibs) \subseteq parsed
    BY <2>2, <2>3, InRange DEF DylibsParsed, In
  <2> QED
    BY <2>2, <2>4 DEF ObjsParsed
<1> QED
  BY <1>1, Inductive, PTL

(* A library that was asked to be needed, on the command line or by an     *)
(* object read, is in the link in the end, under whichever name it came;   *)
(* and read_input_files leaves each install name once.                     *)
THEOREM LibrariesMerged == Spec => []LibrariesAreMerged
<1>1. ASSUME IInv PROVE TypeOK
  <2>0. Types /\ Queue /\ Ids /\ Names /\ Waited
    BY <1>1 DEF IInv
  <2>1. /\ Len(dfile) \in Nat /\ Len(objs) \in Nat /\ dylibs \in Seq(Nat)
        /\ libDylib \in [Lib -> Nat]
    BY <2>0, Lengths DEF Types
  <2>2. ASSUME NEW k \in 1 .. Len(dfile)
        PROVE  /\ dfile[k].lib \in Lib /\ dfile[k].priority \in Nat
               /\ dfile[k].weak \in BOOLEAN /\ dfile[k].alive \in BOOLEAN
               /\ Range(dfile[k].hoisted) \subseteq 1 .. Len(dfile)
    <3>1. dfile[k] \in Dylib /\ dfile[k].hoisted \in Seq(Nat)
      BY <2>0, DylibFields
    <3>2. Range(dfile[k].hoisted) \subseteq parsed
      <4>1. \A j \in 1 .. Len(dfile[k].hoisted) : dfile[k].hoisted[j] \in parsed
        BY <2>0 DEF Ids
      <4> QED
        BY <3>1, <4>1, InRange DEF In
    <3>3. parsed \subseteq 1 .. Len(dfile)
      BY <2>0 DEF Ids
    <3>4. /\ dfile[k].lib \in Lib /\ dfile[k].priority \in Nat
          /\ dfile[k].weak \in BOOLEAN /\ dfile[k].alive \in BOOLEAN
      BY <3>1 DEF Dylib
    <3> QED
      BY <3>2, <3>3, <3>4
  <2>3. Range(dylibs) \subseteq 1 .. Len(dfile)
    BY <2>0, <2>1, InRange DEF Ids, In
  <2>4. libDylib \in [Lib -> 0 .. Len(dfile)]
    <3>1. ASSUME NEW l \in Lib PROVE libDylib[l] \in 0 .. Len(dfile)
      BY <2>0, <2>1 DEF Names
    <3> QED
      BY <2>1, <3>1
  <2>5. objBegin \in 0 .. Len(objs)
    BY <2>0, <2>1 DEF Types, Waited
  <2>6. parsed \subseteq 1 .. Len(dfile) /\ ready \subseteq nextAuto .. Len(objs)
    BY <2>0 DEF Ids, Queue
  <2> QED
    BY <2>0, <2>2, <2>3, <2>4, <2>5, <2>6 DEF TypeOK, Types
<1>2. ASSUME IInv PROVE NeededStaysInLink
  <2>1. SUFFICES ASSUME pc = "done", NEW r \in Requests, r.needed
                 PROVE  \E id \in Range(dylibs) : InstallName(id) = inp.installName[r.file]
    BY DEF NeededStaysInLink
  <2>2. /\ Types /\ Names /\ InputsRead /\ RequestsMet /\ cmd = <<>> /\ batch = <<>>
        /\ nextAuto = Len(objs) + 1
    BY <1>2, <2>1 DEF IInv, InputsRead, RequestsMet, Waited, Left
  <2>3. /\ Len(objs) \in Nat /\ objs \in Seq(Obj) /\ inp.cmdline \in Seq(Item)
        /\ dylibs \in Seq(Nat)
    BY <2>2, InputFacts, Lengths DEF Types
  <2>4. CmdRead = Len(inp.cmdline) /\ Taken - 1 = Len(objs)
    <3>1. Len(cmd) = 0 /\ Len(batch) = 0 /\ Len(inp.cmdline) \in Nat
      BY <2>2, <2>3
    <3> QED
      BY <2>1, <2>2, <2>3, <3>1 DEF CmdRead, Taken
  <2>5. r.file \in Lib /\ Met(r.file, TRUE)
    <3>1. CASE \E c \in Range(inp.cmdline) :
                 c.file \in Lib /\ r = [file |-> c.file, needed |-> c.mode.needed]
      <4>1. PICK c \in Range(inp.cmdline) :
              c.file \in Lib /\ r = [file |-> c.file, needed |-> c.mode.needed]
        BY <3>1
      <4>2. PICK j \in 1 .. Len(inp.cmdline) : inp.cmdline[j] = c
        BY <2>3, InRange DEF In
      <4>3. Met(c.file, c.mode.needed)
        BY <2>2, <2>4, <4>1, <4>2 DEF RequestsMet
      <4> QED
        BY <2>1, <4>1, <4>3 DEF Met
    <3>2. CASE \E o \in Range(objs) : r \in Range(inp.autolink[o])
      <4>1. PICK o \in Range(objs) : r \in Range(inp.autolink[o])
        BY <3>2
      <4>2. PICK k \in 1 .. Len(objs) : objs[k] = o
        BY <2>3, InRange DEF In
      <4>3. /\ inp.autolink[o] \in Seq(Option)
            /\ \A j \in 1 .. Len(inp.autolink[o]) : inp.autolink[o][j].file \in Lib
        BY <2>2, <4>2, AutolinkFacts
      <4>4. PICK j \in 1 .. Len(inp.autolink[o]) : inp.autolink[o][j] = r
        BY <4>1, <4>3, InRange DEF In
      <4>5. Met(r.file, r.needed)
        BY <2>2, <2>4, <4>2, <4>4 DEF RequestsMet
      <4> QED
        BY <2>1, <4>3, <4>4, <4>5 DEF Met
    <3> QED
      BY <3>1, <3>2 DEF Requests
  <2>6. In(libDylib[r.file], dylibs) /\ InstallName(libDylib[r.file]) = inp.installName[r.file]
    BY <2>1, <2>2, <2>5 DEF Names, Met, InstallName
  <2> QED
    BY <2>3, <2>6, InRange
<1>3. ASSUME IInv PROVE UniqueWhenRead
  <2>1. SUFFICES ASSUME stage = "archives", members = inp.members PROVE NoNameTwice
    BY DEF UniqueWhenRead
  <2>2. Len(members) \in Nat
    BY <1>3, Lengths DEF IInv
  <2>3. MembersRead = 0
    BY <2>1, <2>2 DEF MembersRead
  <2> QED
    BY <1>3, <2>1, <2>3 DEF IInv, Unique
<1>4. IInv => LibrariesAreMerged
  BY <1>1, <1>2, <1>3 DEF LibrariesAreMerged
<1> QED
  BY <1>4, Inductive, PTL
=============================================================================
