----------------------------- MODULE MCDeadStrip -----------------------------
(***************************************************************************)
(* DeadStrip on every reference graph of three subsections in two files,   *)
(* for each kind of root and each choice of live-support subsections.      *)
(***************************************************************************)
EXTENDS DeadStrip, TLC

CONSTANTS s1, s2, s3, x1, x2, x3, f1, f2

NoSyms == [f \in File |-> {}]

(* x1 is in s1 of f1, x2 in s2 of f2, x3 is an absolute symbol of f1; s3   *)
(* is reached by section-relative relocations only.                        *)
Base ==
  [ subsecs |-> (f1 :> {s1} @@ f2 :> {s2, s3}),
    syms |-> (f1 :> {x1, x2, x3} @@ f2 :> {x1, x2}),
    symFile |-> (x1 :> f1 @@ x2 :> f2 @@ x3 :> f1),
    symSubsec |-> (x1 :> s1 @@ x2 :> s2 @@ x3 :> None),
    relSyms |-> [s \in Subsec |-> {}],
    relSubsecs |-> [s \in Subsec |-> {}],
    unwindSyms |-> [s \in Subsec |-> {}],
    unwindSubsecs |-> [s \in Subsec |-> {}],
    initFuncs |-> NoSyms, personality |-> NoSyms,
    noDeadStrip |-> {}, global |-> {x1, x2}, keepSect |-> {},
    liveSupport |-> {}, outputType |-> "execute", undefs |-> {},
    entry |-> x3 ]

(* One program per way in which a root can arise. *)
RootKinds ==
  { [Base EXCEPT !.entry = x1],
    [Base EXCEPT !.noDeadStrip = {x2}, !.unwindSubsecs[s2] = {s3}],
    [Base EXCEPT !.outputType = "dylib", !.global = {x1}],
    [Base EXCEPT !.initFuncs[f1] = {x1}, !.undefs = {x2}],
    [Base EXCEPT !.keepSect = {s3}],
    [Base EXCEPT !.personality[f2] = {x1}, !.unwindSyms[s1] = {x2}] }

Graphs ==
  { <<a, b, c>> : a \in SUBSET {x2, s3}, b \in SUBSET {x1, s3},
                  c \in SUBSET {x1, x2} }

MCPrograms ==
  { [b EXCEPT !.relSyms = (s1 :> ((g[1] \cap Symbol) \cup {x3})
                            @@ s2 :> (g[2] \cap Symbol) @@ s3 :> g[3]),
              !.relSubsecs = (s1 :> (g[1] \cap Subsec)
                            @@ s2 :> (g[2] \cap Subsec) @@ s3 :> {}),
              !.liveSupport = ls]
    : b \in RootKinds, g \in Graphs, ls \in SUBSET {s2, s3} }
=============================================================================
