--------------------------- MODULE MCInputFrontier ---------------------------
(***************************************************************************)
(* InputFrontier on small command lines: two objects, an archive member, a *)
(* library U that re-exports H, a plain library B, and S, another name of  *)
(* the library that H also names.                                          *)
(***************************************************************************)
EXTENDS InputFrontier, TLC

CONSTANTS o1, o2, o3, libU, libV, libB, libS, libH, nameU, nameV, nameB, nameS

Weak == [Plain EXCEPT !.weak = TRUE]
Needed == [Plain EXCEPT !.needed = TRUE]

Item(f, mode) == [file |-> f, mode |-> mode]
Want(f) == [file |-> f, needed |-> FALSE]
Need(f) == [file |-> f, needed |-> TRUE]

Mk(cmdline, later, auto1, auto2, auto3) ==
  [ cmdline |-> cmdline, members |-> later,
    autolink |-> (o1 :> auto1 @@ o2 :> auto2 @@ o3 :> auto3),
    installName |-> (libU :> nameU @@ libV :> nameV @@ libB :> nameB
                      @@ libS :> nameS @@ libH :> nameS),
    reexports |-> (libU :> <<libH>> @@ libV :> <<libU>> @@ libB :> <<>>
                    @@ libS :> <<>> @@ libH :> <<>>),
    system |-> {nameS}, strippable |-> {libB}, nameless |-> {} ]

(* Archive members ask for libraries that are not aliases of others. *)
MCInputs ==
  { Mk(<<Item(o1, Plain), Item(libU, m)>>, <<o2, o3>>, a, <<Need(libB)>>,
       <<Want(libB), Need(libU)>>)
    : m \in {Plain, Weak, Needed},
      a \in {<<>>, <<Want(libB), Want(libS)>>, <<Need(libS), Want(libU)>>} }
  \cup
  { Mk(<<Item(o1, Plain), Item(x, Plain), Item(o2, Plain), Item(libS, m)>>,
       <<>>, <<Need(libB)>>, b, <<>>)
    : x \in {libU, libV, libH}, m \in {Weak, Needed},
      b \in {<<Want(libS)>>, <<Need(libU)>>} }
  \cup
  { Mk(<<Item(libS, Plain), Item(o1, Plain), Item(libU, Plain),
         Item(libS, Needed), Item(o2, Plain)>>, <<>>, <<Need(libB)>>,
       <<Want(libB)>>, <<>>),
    Mk(<<Item(o1, Plain), Item(libV, Plain)>>, <<o2>>, <<Need(libS)>>,
       <<Need(libB)>>, <<>>),
    [Mk(<<Item(o1, Plain), Item(libU, Needed), Item(libS, Plain)>>, <<>>,
        <<Need(libH)>>, <<>>, <<>>) EXCEPT !.nameless = {libS}] }

(* An archive member needs S, a second name of H. *)
MCLateAlias ==
  { Mk(<<Item(o1, Plain), Item(libH, Plain)>>, <<o2>>, <<>>, <<Need(s)>>,
       <<>>) : s \in {libS, libB} }

(* An object asks for B while U, which hoists H, is being parsed. *)
MCAutolinkRace ==
  { Mk(<<Item(o1, Plain), Item(libU, Plain)>>, <<>>, <<Want(libB)>>, <<>>,
       <<>>) }

(* A weak library follows a library that re-exports another one. *)
MCWeakAfter ==
  { Mk(<<Item(o1, Plain), Item(libU, Plain), Item(libB, Weak)>>, <<>>, <<>>,
       <<>>, <<>>) }

(* Two libraries that re-export others are parsed at the same time. *)
MCTwoParents ==
  { Mk(<<Item(o1, Plain), Item(libU, Plain), Item(libV, Plain)>>, <<>>, <<>>,
       <<>>, <<>>) }

(* What the passing run leaves out. *)
MCOpen == MCLateAlias \cup MCAutolinkRace \cup MCWeakAfter \cup MCTwoParents
=============================================================================
