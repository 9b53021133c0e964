--------------------------- MODULE FeaturedGraph ---------------------------
(***************************************************************************)
(* What the search algorithms see of a Promela product line: the graph     *)
(* that state::Post() unfolds, in which every featured sub-state of a      *)
(* composite state (featStateDecorator) carries a set of products.         *)
(*                                                                         *)
(* A CUDD diagram over the feature variables is the set of the products    *)
(* (feature selections) it maps to a non-zero value:  addOne() is Product, *)
(* addZero() is {}, & is \cap, | is \cup, ~ is complement and  IsZero() is *)
(* equality with {}.  The feature diagram of the TVL model is Valid.       *)
(*                                                                         *)
(* A composite state has one featured component per `system' of the       *)
(* automaton; Comp is the set of their names.  Comp = {} is an automaton   *)
(* that is not featured.                                                   *)
(***************************************************************************)
EXTENDS Naturals, FiniteSets, Sequences

CONSTANTS
  State,    \* the composite states, by hash
  Product,  \* every selection of features
  Valid,    \* the selections the feature diagram allows
  Comp      \* the featured components of a composite state

ASSUME ProductAssumption == Valid \subseteq Product /\ Valid # {}

Feat == [Comp -> SUBSET Product]   \* the features of a composite state
One  == [c \in Comp |-> Product]   \* no constraint on any component
Zero == [c \in Comp |-> {}]

Edge == [src : State, feat : Feat, dst : State]

(***************************************************************************)
(* neverLive holds the states in which the never claim has an executable   *)
(* transition, end those in which it has reached its end.                  *)
(***************************************************************************)
Graph == [edge : SUBSET Edge, init : State, initFeat : Feat,
          accepting : SUBSET State, end : SUBSET State,
          neverLive : SUBSET State]

(***************************************************************************)
(* The automata the program can build: a never claim at its end has no     *)
(* transition, a successor needs a transition of the never claim, only the *)
(* systems of a composition (two or more) have an initial constraint, and  *)
(* startNestedDFS asserts that the never claim can leave its initial state.*)
(* A constraint leaves some selection (constraint() is asserted), which    *)
(* nobody compares with the feature diagram: it need not be a valid one.   *)
(***************************************************************************)
WellFormed(g) ==
  /\ g.init \in g.neverLive
  /\ \A e \in g.edge : e.src \in g.neverLive
  /\ g.end \cap g.neverLive = {}
  /\ \A c \in Comp : g.initFeat[c] # {}
  /\ Cardinality(Comp) <= 1 => g.initFeat = One

And(f, x)    == [c \in Comp |-> f[c] \cap x[c]]
Or(f, x)     == [c \in Comp |-> f[c] \cup x[c]]
Within(f, x) == \A c \in Comp : f[c] \subseteq x[c]

\* (Mutant: no filter.)
ExecutableUnfiltered(e, f) == TRUE

(***************************************************************************)
(* featStateDecorator::executables keeps a candidate that carries no       *)
(* feature expression (here: Product), or one whose expression meets the   *)
(* features of the state within the feature diagram.                       *)
(***************************************************************************)
Executable(e, f) ==
  \A c \in Comp : e.feat[c] = Product \/ Valid \cap f[c] \cap e.feat[c] # {}

\* (Mutant: apply forgets to conjoin the expression.)
PostUnnarrowed(g, s, f) ==
  {[s |-> e.dst, f |-> e.feat] :
      e \in {x \in g.edge : x.src = s /\ Executable(x, f)}}

\* state::Post(): each executable transition applied to a copy of the state.
Post(g, s, f) ==
  {[s |-> e.dst, f |-> And(f, e.feat)] :
      e \in {x \in g.edge : x.src = s /\ Executable(x, f)}}

\* state::Post() raises ERR_DEADLOCK on a state without a successor unless
\* the never claim itself is stuck.
Deadlocked(g, s, f) == Post(g, s, f) = {} /\ s \in g.neverLive

-----------------------------------------------------------------------------
(***************************************************************************)
(* Reference semantics, one product at a time: a configuration fixes a     *)
(* valid product for every component.                                      *)
(***************************************************************************)
Config == [Comp -> Valid]

Has(f, j)     == \A c \in Comp : j[c] \in f[c]
Succ(g, j, s) == {e.dst : e \in {x \in g.edge : x.src = s /\ Has(x.feat, j)}}

Closed(g, j, C) == \A s \in C : Succ(g, j, s) \subseteq C

\* The states j can reach from the states of S: what every closed superset
\* of S contains.
Reach(g, j, S) ==
  {t \in State : \A C \in SUBSET State : S \subseteq C /\ Closed(g, j, C) => t \in C}

ReachInit(g, j) == Reach(g, j, {g.init})

Runs(g) == {j \in Config : Has(g.initFeat, j)}

\* An accepting state that j can reach, and reach again.
AcceptingLasso(g, j) ==
  \E a \in g.accepting \cap ReachInit(g, j) : a \in Reach(g, j, Succ(g, j, a))

\* The never claim can run to its end: a finite counterexample.
BadPrefix(g, j) == g.end \cap ReachInit(g, j) # {}

Counterexample(g, j) == AcceptingLasso(g, j) \/ BadPrefix(g, j)
=============================================================================
