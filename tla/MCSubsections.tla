--------------------------- MODULE MCSubsections ---------------------------
(***************************************************************************)
(* Object files of four sections: a regular one, one of literals, an empty *)
(* one and another regular one, with up to three local symbols and         *)
(* relocations in every order.  A table is built from eight subsections    *)
(* on, with buckets of three addresses.                                    *)
(***************************************************************************)
EXTENDS Subsections

Section(from, n, sizes) == [addr |-> from, size |-> n, pieces |-> sizes]

Layouts(start) ==
  { << Section(start, 5, <<>>), Section(start + 5, 4, p),
       Section(start + 9, 0, <<>>), Section(start + 9, 3, <<>>) >>
    : p \in {<<1, 3>>, <<2, 1, 1>>} }
  \cup
  { << Section(start, 0, <<>>), Section(start, 4, <<2, 2>>),
       Section(start + 4, 5, <<>>), Section(start + 9, 3, <<1, 2>>) >> }

(* Symbols in any of the sections, at their ends too. *)
Syms(list) ==
  { [sect |-> i, value |-> list[i].addr + d, alt |-> a]
    : i \in DOMAIN list, d \in {0, 2, 3}, a \in BOOLEAN }
  \cup { [sect |-> i, value |-> End(list[i]), alt |-> FALSE]
         : i \in {j \in DOMAIN list : list[j].pieces = <<>>} }

Big(list) == {i \in DOMAIN list : list[i].size >= 5}

Placed(list) ==
  {s \in Syms(list) :
     \/ s.value < End(list[s.sect])
     \/ (s.value = End(list[s.sect]) /\ list[s.sect].pieces = <<>>)}

SymLists(list) ==
  { <<s, [sect |-> i, value |-> list[i].addr + 2, alt |-> FALSE], t>>
    : s \in {r \in Placed(list) : r.sect # 4}, i \in {1, 3} \cap Big(list),
      t \in {r \in Placed(list) : r.sect = 4 /\ ~r.alt} }

Rel(offset, addr) == [off |-> offset, to |-> addr]

RelLists(start) ==
  { <<Rel(2, start + 10), Rel(1, start), Rel(1, start + 8), Rel(0, start + 8)>>,
    <<Rel(0, start + 4), Rel(0, start + 3), Rel(2, start + 6)>>,
    <<Rel(1, start + 11), Rel(2, start + 11), Rel(1, start + 6), Rel(0, start)>> }

Objects(late, commonSyms) ==
  UNION { UNION {
    { [ sections |-> list, syms |-> s,
        rels |-> [i \in DOMAIN list |-> IF list[i].size < 3 THEN <<>> ELSE r],
        viaSymbols |-> v, deferred |-> late, commons |-> commonSyms ]
      : s \in SymLists(list), r \in RelLists(start), v \in BOOLEAN }
    : list \in Layouts(start) } : start \in {0, 2} }

(* A deferred member with common symbols is the subject of a run of its    *)
(* own.                                                                    *)
MCInputs == Objects(FALSE, 1) \cup Objects(TRUE, 0)

MCCommon ==
  { [ sections |-> << Section(0, 4, <<>>), Section(4, 4, <<2, 2>>) >>,
      syms |-> <<>>,
      rels |-> << <<Rel(0, 5), Rel(2, 6)>>, <<>> >>,
      viaSymbols |-> TRUE, deferred |-> TRUE, commons |-> 1 ] }
=============================================================================
