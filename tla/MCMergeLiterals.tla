-------------------------- MODULE MCMergeLiterals --------------------------
(***************************************************************************)
(* Up to four literals with two contents, in a table of four buckets with  *)
(* shards of two, where both contents start in the last bucket of a shard. *)
(***************************************************************************)
EXTENDS MergeLiterals, TLC

CONSTANTS foo, bar

Input(contents, priorities, aligns, second, targets) ==
  [ content |-> contents, priority |-> priorities, align |-> aligns,
    home |-> (foo :> 1 @@ bar :> second), pointers |-> targets ]

MCInputs ==
  { Input(<<foo, bar, foo>>, <<1, p, 2>>, <<2, 1, 0>>, h, <<2, 1, 0, 3>>)
    : p \in {1, 2}, h \in {0, 1} }
  \cup { Input(<<foo, bar, foo, foo>>, <<1, 1, 2, 3>>, <<0, 0, 1, 3>>, 1, <<4, 3>>),
         Input(<<foo, foo, bar, bar>>, <<1, 2, 2, 3>>, <<0, 1, 0, 2>>, 1, <<1, 2, 4>>),
         Input(<<foo, foo>>, <<2, 2>>, <<1, 1>>, 3, <<>>) }

MCTied == { Input(<<foo, foo>>, <<1, 1>>, <<0, 0>>, 1, <<>>) }

MCAligned == { Input(<<foo, foo>>, <<1, 2>>, <<4, 0>>, 1, <<>>) }

(* What the passing run leaves out. *)
MCOpen == MCTied \cup MCAligned
=============================================================================
