------------------------------ MODULE MCThunks ------------------------------
(***************************************************************************)
(* Thunks in units of 4 MiB: the distance is 25, the reach 32, a batch 4.  *)
(* Sections of up to twenty members that call the first member, the last   *)
(* one and a function elsewhere, which may have a stub.                    *)
(***************************************************************************)
EXTENDS Thunks, TLC

CONSTANTS first, last, other, other2

Call(offs, s) == [off |-> offs, sym |-> s]

Section(sizes, alignment, rels, keys, stub) ==
  LET n == Len(sizes)
  IN  [ size |-> sizes,
        align |-> [k \in 1 .. n |-> IF k % 2 = 0 THEN alignment ELSE 1],
        rels |-> [k \in 1 .. n |-> rels[(k % Len(rels)) + 1]],
        stub |-> (first :> 0 @@ last :> 0 @@ other :> stub @@ other2 :> 0),
        at |-> (first :> (IF n = 0 THEN 0 ELSE 1) @@ last :> n @@ other :> 0 @@ other2 :> 0),
        key |-> keys ]

Keys == (first :> 1 @@ last :> 2 @@ other :> 3 @@ other2 :> 4)
Tied == (first :> 1 @@ last :> 2 @@ other :> 3 @@ other2 :> 3)

Calls ==
  { << <<Call(0, first), Call(0, last), Call(0, other)>> >>,
    << <<Call(0, last)>>, <<Call(0, first), Call(0, other)>> >>,
    << <<Call(0, other), Call(0, first)>>, <<>>, <<Call(0, last)>> >>,
    << <<Call(0, other)>> >> }

MCInputs ==
  { Section(<<4, s, t, 4, 4, t, s, 4, 4, s, t, 4, 4, t, s, 4, 4, 4>>,
            al, r, Keys, stub)
    : s \in {1, 2, 4}, t \in {1, 3, 4}, al \in {1, 4}, r \in Calls,
      stub \in {0, 9} }
  \cup
  { Section(<<1, 1, s, 4, 1, t, 1, 4, 1, 1, s, 4, 1, t, 1, 4, 1, 1, 1, 4>>,
            1, r, Keys, 0)
    : s \in {1, 2}, t \in {1, 2}, r \in Calls }
  \cup { Section(<<>>, 1, << <<>> >>, Keys, 0),
         Section(<<3>>, 1, << <<Call(0, other)>> >>, Keys, 0) }

(* One member is nearly as large as the distance. *)
MCLarge ==
  { Section(<<4, 4, 4, 4, t, 18, 1>>, 1, << <<Call(0, other)>> >>, Keys, 0)
    : t \in {1, 2, 3, 4} }

(* Two functions of one dylib: equal priority, value 0. *)
MCTied ==
  { Section(<<2, 1, 3, 2>>, 1,
            << <<Call(0, other)>>, <<Call(0, other2)>> >>, Tied, 0) }

(* What the passing run leaves out. *)
MCOpen == MCLarge \cup MCTied
=============================================================================
