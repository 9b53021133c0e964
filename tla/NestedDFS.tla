----------------------------- MODULE NestedDFS -----------------------------
(***************************************************************************)
(* startNestedDFS, outerDFS and innerDFS of algorithm/explore.cpp with the *)
(* elementStack they search on: the featured nested depth-first search     *)
(* that decides an LTL property for every product of a product line.       *)
(*                                                                         *)
(* One action is one turn of a search loop.  The order of the list Post is *)
(* arbitrary: it is a set and a turn takes any member.  The graph is an    *)
(* input of the search, any member of Graphs.                              *)
(***************************************************************************)
EXTENDS ReachabilityRelation

CONSTANT Graphs

ASSUME GraphsAssumption == Graphs \subseteq {g \in Graph : WellFormed(g)}

VARIABLES
  graph,       \* the automaton under verification
  stackOuter,  \* elementStack::stackElem of the outer search
  setElem,     \* elementStack::setElem of the outer search
  stackInner,  \* elementStack::stackElem of the inner search
  trace,       \* the counterexample printed by printElementStack
  verdict,     \* searching, then how the search ended
  nbExplored

searchVars == <<stackOuter, setElem, stackInner>>
vars == <<relVars, graph, searchVars, nbExplored, trace, verdict>>

\* A state with its features, and an element of a stack.
Node    == [s : State, f : Feat]
Element == [s : State, f : Feat, post : SUBSET Node, dead : BOOLEAN]

NoTrace == [stem |-> <<>>, loop |-> <<>>]

Verdict == {"searching", "satisfied", "violated",
            "deadlock",        \* "Found deadlock", then assert(false)
            "unconstrained",   \* assertion of addTraceViolation
            "undefined",       \* pop of an empty std::stack
            "bug"}             \* "Bug! The above state was found ..."

\* elementStack::element computes the successors when the state is pushed.
NewElement(s, f) == [s    |-> s, f |-> f,
                     post |-> Post(graph, s, f),
                     dead |-> Deadlocked(graph, s, f)]

Top(stack)    == stack[Len(stack)]
Pop(stack)    == SubSeq(stack, 1, Len(stack) - 1)
Take(stack, x) == [stack EXCEPT ![Len(stack)].post = @ \ {x}]
\* (Mutant: the trace holds features instead of states.)
HashesNot(stack) == [i \in 1 .. Len(stack) |-> stack[i].f]

Hashes(stack) == [i \in 1 .. Len(stack) |-> stack[i].s]

NestedInit ==
  /\ graph \in Graphs
  /\ RelInit(graph.init, graph.initFeat)
  /\ stackOuter = <<NewElement(graph.init, graph.initFeat)>>
  /\ setElem = {graph.init}
  /\ stackInner = <<>>
  /\ nbExplored = 0
  /\ trace = NoTrace
  /\ verdict = "searching"

Outer == verdict = "searching" /\ dfsIn = "outer" /\ stackOuter # <<>>
Inner == verdict = "searching" /\ dfsIn = "inner" /\ stackInner # <<>>

\* assert(false) and a failing assertion end the process where it stands.
Abort(why) ==
  /\ verdict' = why
  /\ UNCHANGED <<relVars, graph, searchVars, nbExplored, trace>>

(***************************************************************************)
(* The trace is printed, the features are charged and, unless that fails   *)
(* its assertion, both loops end (exhaustive is 0): outerDFS empties its   *)
(* stack and startNestedDFS reports one of the outcomes.                   *)
(***************************************************************************)
Violation(f, t, outcomes) ==
  /\ trace' = t
  /\ IF Chargeable(f)
     THEN /\ AddTraceViolation(f)
          /\ stackOuter' = <<>>
          /\ setElem' = {}
          /\ stackInner' = <<>>
          /\ SetDFS("outer")
          /\ verdict' \in outcomes
          /\ UNCHANGED <<visited, outerFeatures, innerFeatures, graph, nbExplored>>
     ELSE /\ verdict' = "unconstrained"
          /\ UNCHANGED <<relVars, graph, searchVars, nbExplored>>

-----------------------------------------------------------------------------
(* outerDFS *)

OuterDeadlock == Outer /\ Top(stackOuter).dead /\ Abort("deadlock")

\* The never claim is at its end: the turn reports the features of the
\* state and pops three elements; popping an empty std::stack is undefined.
OuterSafety ==
  /\ Outer
  /\ ~Top(stackOuter).dead
  /\ Top(stackOuter).s \in graph.end
  /\ Violation(Top(stackOuter).f,
               [stem |-> Hashes(stackOuter), loop |-> <<>>],
               {"violated"} \cup IF Len(stackOuter) < 3 THEN {"undefined"} ELSE {})

OuterExplore ==
  /\ Outer
  /\ ~Top(stackOuter).dead
  /\ Top(stackOuter).s \notin graph.end

\* (Mutant: the transition is not taken off the list.)
OuterStopKeep(x) ==
  /\ Status(x.s, x.f) = "visited"
  /\ UNCHANGED vars

\* The successor brings no product that was not met there: _nbStatesStops.
OuterStop(x) ==
  /\ Status(x.s, x.f) = "visited"
  /\ stackOuter' = Take(stackOuter, x)
  /\ UNCHANGED <<relVars, graph, setElem, stackInner, nbExplored, trace, verdict>>

\* A state never visited, or visited without some of its products.
OuterPush(x) ==
  /\ Status(x.s, x.f) # "visited"
  /\ Update(x.s, x.f)
  /\ stackOuter' =
       Append(Take(stackOuter, x), NewElement(x.s, Narrowed(x.s, x.f)))
  /\ setElem' = setElem \cup {x.s}
  /\ nbExplored' = IF x.s \in visited THEN nbExplored ELSE nbExplored + 1
  /\ UNCHANGED <<graph, stackInner, trace, verdict>>

OuterStep ==
  OuterExplore /\ \E x \in Top(stackOuter).post : OuterStop(x) \/ OuterPush(x)

\* (Mutant: pop() does not erase the hash.)
PopOuterKeep == stackOuter' = Pop(stackOuter) /\ setElem' = setElem

\* stackOuter.pop()
PopOuter ==
  /\ stackOuter' = Pop(stackOuter)
  /\ setElem' = setElem \ {Top(stackOuter).s}

\* (Mutant: the inner search starts before all transitions are fired.)
OuterSeedEarly ==
  /\ OuterExplore
  /\ Top(stackOuter).s \in graph.accepting
  /\ stackInner' = <<NewElement(Top(stackOuter).s, Top(stackOuter).f)>>
  /\ SetDFS("inner")
  /\ UNCHANGED <<visited, outerFeatures, innerFeatures, failVars, graph,
                 stackOuter, setElem, nbExplored, trace, verdict>>

\* All transitions fired: an accepting state seeds an inner search ...
OuterSeed ==
  /\ OuterExplore
  /\ Top(stackOuter).post = {}
  /\ Top(stackOuter).s \in graph.accepting
  /\ stackInner' = <<NewElement(Top(stackOuter).s, Top(stackOuter).f)>>
  /\ SetDFS("inner")
  /\ UNCHANGED <<visited, outerFeatures, innerFeatures, failVars, graph,
                 stackOuter, setElem, nbExplored, trace, verdict>>

\* ... any other is left at once.
OuterBacktrack ==
  /\ OuterExplore
  /\ Top(stackOuter).post = {}
  /\ Top(stackOuter).s \notin graph.accepting
  /\ PopOuter
  /\ UNCHANGED <<relVars, graph, stackInner, nbExplored, trace, verdict>>

OuterSatisfied ==
  /\ verdict = "searching"
  /\ dfsIn = "outer"
  /\ stackOuter = <<>>
  /\ verdict' = "satisfied"
  /\ UNCHANGED <<relVars, graph, searchVars, nbExplored, trace>>

-----------------------------------------------------------------------------
(* innerDFS *)

InnerDeadlock == Inner /\ Top(stackInner).dead /\ Abort("deadlock")

InnerBacktrack ==
  /\ Inner
  /\ ~Top(stackInner).dead
  /\ Top(stackInner).post = {}
  /\ stackInner' = Pop(stackInner)
  /\ UNCHANGED <<relVars, graph, stackOuter, setElem, nbExplored, trace, verdict>>

\* The successor is on the outer stack: the cycle is closed and the features
\* of the current state, not those of the successor, are charged.
InnerCloses(x) ==
  /\ x.s \in setElem
  /\ Violation(Top(stackInner).f,
               [stem |-> Hashes(stackOuter),
                loop |-> Append(Hashes(stackInner), x.s)],
               {"violated"})

\* Nothing new about the state: update, called before the status is looked
\* at, adds nothing to the record.
InnerStop(x) ==
  /\ x.s \notin setElem
  /\ Status(x.s, x.f) = "visited"
  /\ stackInner' = Take(stackInner, x)
  /\ UNCHANGED <<relVars, graph, stackOuter, setElem, nbExplored, trace, verdict>>

\* A state only visited by the outer search, or by the inner one without
\* some of its products.  One that is not on record at all is "Bug!".
InnerPush(x) ==
  /\ x.s \notin setElem
  /\ Status(x.s, x.f) # "visited"
  /\ IF x.s \in visited
     THEN /\ Update(x.s, x.f)
          /\ stackInner' =
               Append(Take(stackInner, x), NewElement(x.s, Narrowed(x.s, x.f)))
          /\ UNCHANGED <<graph, stackOuter, setElem, nbExplored, trace, verdict>>
     ELSE Abort("bug")

InnerStep ==
  /\ Inner
  /\ ~Top(stackInner).dead
  /\ \E x \in Top(stackInner).post :
       InnerCloses(x) \/ InnerStop(x) \/ InnerPush(x)

\* innerDFS returns to the turn of outerDFS that called it, which pops the
\* seed.
InnerReturn ==
  /\ verdict = "searching"
  /\ dfsIn = "inner"
  /\ stackInner = <<>>
  /\ SetDFS("outer")
  /\ PopOuter
  /\ UNCHANGED <<visited, outerFeatures, innerFeatures, failVars, graph,
                 stackInner, nbExplored, trace, verdict>>

Next ==
  \/ OuterDeadlock \/ OuterSafety \/ OuterStep
  \/ OuterSeed \/ OuterBacktrack \/ OuterSatisfied
  \/ InnerDeadlock \/ InnerBacktrack \/ InnerStep \/ InnerReturn

Spec == NestedInit /\ [][Next]_vars

\* The search is one thread that runs until it ends.
FairSpec == Spec /\ WF_vars(Next)
-----------------------------------------------------------------------------
(* Properties *)

TypeOK ==
  /\ RelTypeOK
  /\ graph \in Graph
  /\ stackOuter \in Seq(Element)
  /\ setElem \subseteq State
  /\ stackInner \in Seq(Element)
  /\ nbExplored \in Nat
  /\ trace \in [stem : Seq(State), loop : Seq(State)]
  /\ verdict \in Verdict

\* elementStack::isIn looks a hash up in a std::set that pop() erases from:
\* it answers for the stack only because no state is on the stack twice.
SetElemIsStack ==
  /\ setElem = {stackOuter[i].s : i \in 1 .. Len(stackOuter)}
  /\ \A i, k \in 1 .. Len(stackOuter) :
       stackOuter[i].s = stackOuter[k].s => i = k

\* What the comment of updateVisitor relies on: a state on the current stack
\* is never fresh, so the products that are on record for a fresh state were
\* fully explored from it.
OnStackNotFresh ==
  stackOuter # <<>> =>
    \A x \in Top(stackOuter).post :
      x.s \in setElem => Within(x.f, outerFeatures[x.s])

\* The features of the elements only shrink from the bottom of the outer
\* stack to the top of the inner one.  A successor found on the outer stack
\* closes a cycle only for products that every element of the cycle has.
FeaturesShrink ==
  LET stack == stackOuter \o stackInner IN
  \A i \in 1 .. Len(stack) - 1 : Within(stack[i + 1].f, stack[i].f)

\* A product is on record for a state: each of its successors is on record
\* for it too, or waits in the list Post of an element that carries it.
Covered(j) ==
  \A s \in visited : Has(outerFeatures[s], j) =>
    \A t \in Succ(graph, j, s) :
      \/ t \in visited /\ Has(outerFeatures[t], j)
      \/ \E i \in 1 .. Len(stackOuter) :
           /\ stackOuter[i].s = s
           /\ \E x \in stackOuter[i].post : x.s = t /\ Has(x.f, j)

\* Narrowing the features of a state that is met again loses no product:
\* what is skipped as already visited has been, or is being, explored.
Coverage ==
  verdict \in {"searching", "satisfied"} => \A j \in Runs(graph) : Covered(j)

\* The inner search only walks where the outer search has been with the same
\* products, so a state it meets is on record ("Bug!" is unreachable).
InnerWithinOuter ==
  /\ \A s \in State, c \in Comp :
       innerFeatures[s][c] \cap Valid \subseteq outerFeatures[s][c]
  /\ verdict # "bug"

\* A reported trace is a run of some valid product: the stem starts in the
\* initial state, the loop starts at its end, leaves it and comes back to the
\* stem.
StepOf(j, p) ==
  \A i \in 1 .. Len(p) - 1 : p[i + 1] \in Succ(graph, j, p[i])

TraceIsCounterexample ==
  verdict = "violated" =>
    \E j \in Runs(graph) :
      /\ trace.stem # <<>> /\ trace.stem[1] = graph.init
      /\ StepOf(j, trace.stem)
      /\ IF trace.loop = <<>>
         THEN trace.stem[Len(trace.stem)] \in graph.end
         ELSE /\ Len(trace.loop) > 1
              /\ trace.loop[1] = trace.stem[Len(trace.stem)]
              /\ trace.loop[1] \in graph.accepting
              /\ StepOf(j, trace.loop)
              /\ \E i \in 1 .. Len(trace.stem) :
                   trace.stem[i] = trace.loop[Len(trace.loop)]

\* "Property satisfied" means that no valid product can drive the never claim
\* to its end.
SafetyDecided ==
  verdict = "satisfied" => \A j \in Runs(graph) : ~BadPrefix(graph, j)

\* No product is explored twice from the same state by the outer search.
ExploredOnce ==
  [][Len(stackOuter') > Len(stackOuter) =>
       \A c \in Comp : Top(stackOuter').f[c]
                       \cap outerFeatures[Top(stackOuter').s][c] = {}]_vars

\* The search ends, whatever the automaton.
Terminates == <>(verdict # "searching")

(***************************************************************************)
(* The answer the search owes its caller.                                  *)
(***************************************************************************)
Answer == IF verdict \in {"searching", "satisfied", "violated"}
          THEN verdict ELSE "aborted"

LTL == INSTANCE LTLVerdict WITH answer <- Answer

\* "Property satisfied" only if no valid product has a counterexample, and a
\* violation only if one does.
Decides == LTL!Spec

-----------------------------------------------------------------------------
(* What the repository says of the search, and the code does not do. *)

\* "Property satisfied": no valid product has a counterexample.
SatisfiedIsRight ==
  verdict = "satisfied" => \A j \in Runs(graph) : ~Counterexample(graph, j)

\* The report names the failing products of one featured system: each of them
\* has a counterexample ...
FailingProductsFail ==
  verdict = "violated" =>
    \A c \in Comp : \A x \in productFail[c] \cap Valid :
      \E j \in Runs(graph) : j[c] = x /\ Counterexample(graph, j)

\* "Found deadlock" is a problem of the product line: some valid product is
\* stuck in a state it can reach.
DeadlockIsReal ==
  verdict = "deadlock" =>
    \E j \in Runs(graph) : \E s \in graph.neverLive \cap ReachInit(graph, j) :
      Succ(graph, j, s) = {}
=============================================================================
