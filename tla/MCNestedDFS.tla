---------------------------- MODULE MCNestedDFS ----------------------------
(***************************************************************************)
(* Instances of NestedDFS for TLC.                                         *)
(***************************************************************************)
EXTENDS NestedDFS

CONSTANTS s1, s2, s3, p, q, z

\* One featured system; z is a selection the feature diagram excludes.
OneComp == {"main"}
MCStates == {s1, s2, s3}
MCProducts == {p, q, z}
MCValid == {p, q}

Guards == {{p}, {p, q}, {p, z}, MCProducts}
All(x) == [c \in Comp |-> x]

Edges(S) == [src : S, feat : {All(x) : x \in Guards}, dst : State]

\* Every automaton over three states with at most three transitions, s1 or
\* s2 being the accepting state and at most s3 ending the never claim; in a
\* state without a transition the never claim is stuck, or the program is.
Connected(E) ==
  \A e \in E : e.src = s1 \/ \E d \in E : d.dst = e.src /\ d.src # e.src

SmallEdgeSets ==
  LET X == Edges(State) IN {E \in {{a, b, c} : a, b, c \in X} : Connected(E)}

\* ... and those in which s2 is met once for every product, with up to three
\* more transitions behind it.
Again == {[src |-> s1, feat |-> All({x}), dst |-> s2] : x \in {p, q}}

ReExploreEdgeSets ==
  LET X == [src : {s2, s3}, feat : {All(x) : x \in {{p}, {q}, MCProducts}}, dst : State]
  IN {E \cup Again : E \in {{a, b, c} : a, b, c \in X}}

Sources(E) == {e.src : e \in E}

MCGraphs ==
  {g \in
    {[edge |-> E, init |-> s1, initFeat |-> One, accepting |-> A,
      end |-> F, neverLive |-> IF live THEN State \ F ELSE Sources(E)] :
        E \in SmallEdgeSets \cup ReExploreEdgeSets,
        A \in {{s1}, {s2}}, F \in {{}, {s3}}, live \in BOOLEAN} :
    WellFormed(g)}

-----------------------------------------------------------------------------
\* An automaton that is not featured: every run has the same, empty features.
NoComp == {}

PlainGraphs ==
  LET X == [src : State, feat : {One}, dst : State] IN
  {g \in
    {[edge |-> E, init |-> s1, initFeat |-> One, accepting |-> A,
      end |-> F, neverLive |-> IF live THEN State \ F ELSE Sources(E)] :
        E \in {{a, b, c, d} : a, b, c, d \in X},
        A \in SUBSET {s1, s2}, F \in {{}, {s3}}, live \in BOOLEAN} :
    WellFormed(g)}

-----------------------------------------------------------------------------
\* Two featured systems side by side: s2 is met twice, with any two
\* selections, and leads to s3 for any third one.
TwoComp == {"left", "right"}
TwoProducts == {p, q}

Selections == [TwoComp -> {{p}, {q}, {p, q}}]

SystemGraphs ==
  {g \in
    {[edge |-> {[src |-> s1, feat |-> x, dst |-> s2],
                [src |-> s1, feat |-> y, dst |-> s2],
                [src |-> s2, feat |-> u, dst |-> s3]} \cup B,
      init |-> s1, initFeat |-> v, accepting |-> {s2}, end |-> {},
      neverLive |-> {s1, s2} \cup {e.src : e \in B}] :
        x \in Selections, y \in Selections, u \in Selections,
        v \in {One, [c \in TwoComp |-> IF c = "left" THEN {p} ELSE {p, q}]},
        B \in {{}, {[src |-> s3, feat |-> One, dst |-> s2]}}} :
    WellFormed(g)}
=============================================================================
