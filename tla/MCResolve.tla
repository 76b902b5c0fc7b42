------------------------------ MODULE MCResolve ------------------------------
(***************************************************************************)
(* Resolve on small links: one object a, an archive with members m and n,  *)
(* dylibs d and e, two symbols.                                            *)
(***************************************************************************)
EXTENDS Resolve, TLC

CONSTANTS a, m, n, d, e, foo, bar

(* Object priorities start at 10000, dylib priorities at 8000000. *)
Priority == a :> 1 @@ m :> 2 @@ n :> 3 @@ d :> 8 @@ e :> 9

Sy(kx, ky) == foo :> kx @@ bar :> ky

NoSym == [f \in Files |-> {}]

(* A table of contents lists the members that define a symbol, in order. *)
Toc(kind, lazy) ==
  [s \in Sym |-> SelectSeq(<<m, n>>, LAMBDA f :
                   f \in lazy /\ kind[f][s] \in {"strong", "weak", "common"})]

Mk(kind, eager, auto) ==
  [ kind |-> kind, hidden |-> NoSym,
    personality |-> NoSym, priority |-> Priority,
    toc |-> Toc(kind, {m, n} \ eager),
    autolink |-> (m :> auto @@ n :> {}),
    objs |-> {a} \cup eager,
    live |-> {a, d}, weakLibs |-> {}, roots |-> <<bar>>, builtin |-> {foo} ]

(* foo is a personality function of a. *)
MCPersonality ==
  { [Mk(a :> Sy(ka, "undef") @@ m :> Sy(mx, "strong")
          @@ n :> Sy("strong", "none") @@ d :> Sy("none", "none")
          @@ e :> Sy("strong", "none"), {}, {e}) EXCEPT !.personality[a] = {foo}]
    : ka \in {"undef", "weak", "strong"}, mx \in {"none", "strong"} }

(* Two dylibs race for foo. *)
MCRace ==
  { Mk(a :> Sy(ka, "undef") @@ m :> Sy(mx, "strong") @@ n :> Sy("none", "none")
         @@ d :> Sy("strong", "none") @@ e :> Sy("strong", kb), {}, {})
    : ka \in {"undef", "weak", "common"}, mx \in {"none", "weak", "strong"}, kb \in {"none", "strong"} }

(* Ways to define and use foo and bar in which dylibs export strongly. *)
MCInputs ==
  { Mk(a :> Sy(ka, "undef") @@ m :> Sy(mx, my) @@ n :> Sy(nx, ny)
         @@ d :> Sy(lib[1], "none") @@ e :> lib[2], eg, au)
    : ka \in Kinds \ {"strong"},
      mx \in Kinds, my \in Kinds \ {"weak"}, nx \in Kinds, ny \in Kinds \ {"none"},
      lib \in {<<"none", Sy("strong", "none")>>, <<"strong", Sy("none", "strong")>>,
               <<"strong", Sy("strong", "none")>>},
      eg \in {{}, {n}},
      au \in {{e}} }
  \cup MCPersonality \cup MCRace

(* Two dylibs that both export foo, at least one of them weakly. *)
MCWeakExports ==
  { Mk(a :> Sy("undef", "undef") @@ m :> Sy("none", "strong")
         @@ n :> Sy("none", "none") @@ d :> Sy(kd, "none")
         @@ e :> Sy(ke, "none"), {}, {})
    : kd \in {"strong", "weak"}, ke \in {"strong", "weak"} }

(* a defines foo weakly and needs bar; a member defines both, all exported. *)
MCWeakThenStrong ==
  { Mk(a :> Sy("weak", "undef") @@ m :> Sy(mx, "strong")
         @@ n :> Sy("none", "none") @@ d :> Sy("none", "none")
         @@ e :> Sy("none", "none"), {}, {})
    : mx \in {"none", "weak", "strong"} }

(* No root asks for bar: a refers to foo, which a dylib exports, and to    *)
(* bar; a member defines both.                                             *)
MCUnasked ==
  { [Mk(a :> Sy("undef", "undef") @@ m :> Sy(mx, "strong")
          @@ n :> Sy("none", "none") @@ d :> Sy("strong", "none")
          @@ e :> Sy("none", "none"), {}, {}) EXCEPT !.roots = <<>>]
    : mx \in {"weak", "strong"} }

(* What the passing run leaves out. *)
MCOpen == MCWeakExports \cup MCWeakThenStrong \cup MCUnasked
=============================================================================
