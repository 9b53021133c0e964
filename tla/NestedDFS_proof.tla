-------------------------- MODULE NestedDFS_proof --------------------------
(***************************************************************************)
(* Theorems about the featured nested depth-first search, for every set of *)
(* automata, states, products and components.                              *)
(***************************************************************************)
EXTENDS NestedDFS, TLAPS, SequenceTheorems

-----------------------------------------------------------------------------
(* The operators of the graph and of the stacks. *)

LEMMA AndType ==
  ASSUME NEW f \in Feat, NEW x \in Feat
  PROVE  And(f, x) \in Feat
BY DEF And, Feat

LEMMA OrType ==
  ASSUME NEW f \in Feat, NEW x \in Feat
  PROVE  Or(f, x) \in Feat
BY DEF Or, Feat

LEMMA PostType ==
  ASSUME NEW g \in Graph, NEW s \in State, NEW f \in Feat
  PROVE  Post(g, s, f) \in SUBSET Node
<1>1. g.edge \subseteq Edge BY DEF Graph
<1>2. ASSUME NEW e \in g.edge
      PROVE  [s |-> e.dst, f |-> And(f, e.feat)] \in Node
  BY <1>1, AndType DEF Edge, Node
<1>3. QED BY <1>2 DEF Post

LEMMA NewElementType ==
  ASSUME graph \in Graph, NEW s \in State, NEW f \in Feat
  PROVE  NewElement(s, f) \in Element
BY PostType DEF NewElement, Element, Deadlocked

LEMMA TopType ==
  ASSUME NEW stack \in Seq(Element), stack # <<>>
  PROVE  /\ Len(stack) \in Nat \ {0}
         /\ Top(stack) \in Element
BY DEF Top

LEMMA PopType ==
  ASSUME NEW stack \in Seq(Element), stack # <<>>
  PROVE  /\ Pop(stack) \in Seq(Element)
         /\ Len(Pop(stack)) = Len(stack) - 1
         /\ \A i \in 1 .. Len(Pop(stack)) : Pop(stack)[i] = stack[i]
<1> DEFINE n == Len(stack) - 1
<1>1. Len(stack) \in Nat \ {0} /\ n \in Nat /\ Pop(stack) = SubSeq(stack, 1, n)
  BY TopType DEF Pop
<1>2. \A i \in 1 .. n : stack[i] \in Element
  BY <1>1, ElementOfSeq
<1> HIDE DEF n
<1>3. /\ SubSeq(stack, 1, n) \in Seq(Element)
      /\ Len(SubSeq(stack, 1, n)) = IF 1 <= n THEN n - 1 + 1 ELSE 0
      /\ \A i \in 1 .. n - 1 + 1 : SubSeq(stack, 1, n)[i] = stack[1 + i - 1]
  BY <1>1, <1>2, SubSeqProperties
<1>4. Len(Pop(stack)) = n
  BY <1>1, <1>3
<1>5. \A i \in 1 .. n : Pop(stack)[i] = stack[i]
  <2> TAKE i \in 1 .. n
  <2>1. i \in 1 .. n - 1 + 1 /\ 1 + i - 1 = i BY <1>1
  <2> QED BY <2>1, <1>1, <1>3
<1>6. QED BY <1>1, <1>3, <1>4, <1>5 DEF n

LEMMA TakeType ==
  ASSUME NEW stack \in Seq(Element), stack # <<>>, NEW x
  PROVE  /\ Take(stack, x) \in Seq(Element)
         /\ Len(Take(stack, x)) = Len(stack)
         /\ Take(stack, x)[Len(stack)].post = Top(stack).post \ {x}
         /\ \A i \in 1 .. Len(stack) :
              /\ Take(stack, x)[i].s = stack[i].s
              /\ Take(stack, x)[i].f = stack[i].f
              /\ Take(stack, x)[i].post \subseteq stack[i].post
              /\ i # Len(stack) => Take(stack, x)[i].post = stack[i].post
<1> DEFINE e == [Top(stack) EXCEPT !.post = @ \ {x}]
<1>1. Top(stack) \in Element /\ Len(stack) \in 1 .. Len(stack)
  BY TopType DEF Top
<1>2. /\ e \in Element /\ e.s = Top(stack).s /\ e.f = Top(stack).f
      /\ e.post = Top(stack).post \ {x}
  BY <1>1 DEF Element
<1>3. Take(stack, x) = [stack EXCEPT ![Len(stack)] = e]
  BY <1>1 DEF Take, Top
<1> HIDE DEF e
<1>4. /\ Take(stack, x) \in Seq(Element) /\ Len(Take(stack, x)) = Len(stack)
      /\ \A i \in 1 .. Len(stack) :
           Take(stack, x)[i] = IF i = Len(stack) THEN e ELSE stack[i]
  BY <1>1, <1>2, <1>3, ExceptSeq
<1>5. Take(stack, x)[Len(stack)].post = Top(stack).post \ {x}
  BY <1>1, <1>2, <1>4
<1>6. ASSUME NEW i \in 1 .. Len(stack)
      PROVE  /\ Take(stack, x)[i].s = stack[i].s
             /\ Take(stack, x)[i].f = stack[i].f
             /\ Take(stack, x)[i].post \subseteq stack[i].post
             /\ i # Len(stack) => Take(stack, x)[i].post = stack[i].post
  <2>1. CASE i = Len(stack)
    BY <1>2, <1>4, <2>1 DEF Top
  <2>2. CASE i # Len(stack)
    BY <1>4, <2>2
  <2>3. QED BY <2>1, <2>2
<1>7. QED BY <1>4, <1>5, <1>6

LEMMA HashesType ==
  ASSUME NEW stack \in Seq(Element)
  PROVE  /\ Hashes(stack) \in Seq(State)
         /\ Len(Hashes(stack)) = Len(stack)
         /\ \A i \in 1 .. Len(stack) : Hashes(stack)[i] = stack[i].s
<1>1. \A i \in 1 .. Len(stack) : stack[i] \in Element
  BY ElementOfSeq
<1>2. Len(stack) \in Nat /\ \A i \in 1 .. Len(stack) : stack[i].s \in State
  BY <1>1 DEF Element
<1>3. Hashes(stack) \in [1 .. Len(stack) -> State]
  BY <1>2 DEF Hashes
<1>4. Hashes(stack) \in Seq(State)
  BY <1>2, <1>3, SeqDef
<1>5. DOMAIN Hashes(stack) = 1 .. Len(stack)
  BY <1>3
<1>6. QED BY <1>2, <1>4, <1>5, LenProperties DEF Hashes

LEMMA NarrowedType ==
  ASSUME RelTypeOK, NEW s \in State, NEW f \in Feat
  PROVE  /\ Narrowed(s, f) \in Feat
         /\ Within(Narrowed(s, f), f)
BY DEF Narrowed, Feat, Within

-----------------------------------------------------------------------------
(* Typing. *)

LEMMA UpdateType ==
  ASSUME RelTypeOK, NEW s \in State, NEW f \in Feat, Update(s, f)
  PROVE  RelTypeOK'
<1>1. CASE s \notin visited
  BY <1>1 DEF Update, RelTypeOK, failVars
<1>2. CASE s \in visited
  BY <1>2, OrType DEF Update, RelTypeOK, failVars
<1>3. QED BY <1>1, <1>2

LEMMA AddTraceViolationType ==
  ASSUME RelTypeOK, NEW f \in Feat, AddTraceViolation(f)
  PROVE  /\ productToVisit' \in Feat
         /\ productFail' \in Feat
         /\ allProductsFail' \in [Comp -> BOOLEAN]
         /\ nbErrors' \in Nat
BY DEF AddTraceViolation, RelTypeOK, Feat

LEMMA ViolationType ==
  ASSUME TypeOK, NEW f \in Feat,
         NEW t \in [stem : Seq(State), loop : Seq(State)],
         NEW outcomes \in SUBSET Verdict, Violation(f, t, outcomes)
  PROVE  TypeOK'
<1>1. CASE Chargeable(f)
  <2>1. RelTypeOK'
    BY <1>1, AddTraceViolationType DEF Violation, TypeOK, RelTypeOK, SetDFS
  <2>2. QED BY <1>1, <2>1 DEF Violation, TypeOK
<1>2. CASE ~Chargeable(f)
  <2>1. RelTypeOK'
    BY <1>2 DEF Violation, TypeOK, RelTypeOK, relVars
  <2>2. QED BY <1>2, <2>1 DEF Violation, TypeOK, searchVars, Verdict
<1>3. QED BY <1>1, <1>2

LEMMA AbortType ==
  ASSUME TypeOK, NEW why \in Verdict, Abort(why)
  PROVE  TypeOK'
BY DEF Abort, TypeOK, RelTypeOK, relVars, searchVars

LEMMA InitType == NestedInit => TypeOK
<1> SUFFICES ASSUME NestedInit PROVE TypeOK
  OBVIOUS
<1>1. graph \in Graph /\ graph.init \in State /\ graph.initFeat \in Feat
  BY GraphsAssumption DEF NestedInit, Graph
<1>2. RelTypeOK
  BY <1>1, ProductAssumption DEF NestedInit, RelInit, RelTypeOK, Feat, Zero
<1>3. stackOuter \in Seq(Element)
  BY <1>1, NewElementType DEF NestedInit
<1>4. QED BY <1>1, <1>2, <1>3 DEF NestedInit, TypeOK, NoTrace, Verdict

LEMMA OuterStopType == ASSUME TypeOK, Outer, NEW x \in Top(stackOuter).post, OuterStop(x)
                       PROVE  TypeOK'
BY TakeType DEF Outer, OuterStop, TypeOK, RelTypeOK, relVars

LEMMA PushType ==
  ASSUME TypeOK, NEW stack \in Seq(Element), stack # <<>>, NEW x \in Top(stack).post
  PROVE  /\ x \in Node /\ x.s \in State /\ x.f \in Feat
         /\ Narrowed(x.s, x.f) \in Feat
         /\ NewElement(x.s, Narrowed(x.s, x.f)) \in Element
         /\ Append(Take(stack, x), NewElement(x.s, Narrowed(x.s, x.f))) \in Seq(Element)
<1>1. x \in Node
  <2>1. Top(stack) \in Element
    BY TopType
  <2>2. QED BY <2>1 DEF Element
<1>2. x.s \in State /\ x.f \in Feat
  BY <1>1 DEF Node
<1>3. Narrowed(x.s, x.f) \in Feat
  BY <1>2, NarrowedType DEF TypeOK
<1>4. NewElement(x.s, Narrowed(x.s, x.f)) \in Element
  BY <1>2, <1>3, NewElementType DEF TypeOK
<1>5. Take(stack, x) \in Seq(Element)
  BY TakeType
<1>6. QED BY <1>1, <1>2, <1>3, <1>4, <1>5, AppendProperties

LEMMA NextType ==
  ASSUME TypeOK, [Next]_vars
  PROVE  TypeOK'
<1>1. CASE OuterDeadlock
  BY <1>1, AbortType DEF OuterDeadlock, Verdict
<1>2. CASE OuterSafety
  <2> DEFINE t == [stem |-> Hashes(stackOuter), loop |-> <<>>]
             outcomes == {"violated"} \cup IF Len(stackOuter) < 3 THEN {"undefined"} ELSE {}
  <2>1. Top(stackOuter).f \in Feat
    BY <1>2, TopType DEF OuterSafety, Outer, TypeOK, Element
  <2>2. t \in [stem : Seq(State), loop : Seq(State)]
    BY HashesType DEF TypeOK
  <2>3. outcomes \in SUBSET Verdict
    BY DEF Verdict
  <2>4. Violation(Top(stackOuter).f, t, outcomes)
    BY <1>2 DEF OuterSafety
  <2> HIDE DEF t, outcomes
  <2>5. QED BY <2>1, <2>2, <2>3, <2>4, ViolationType
<1>3. CASE OuterStep
  <2>1. Outer /\ stackOuter # <<>> /\ stackOuter \in Seq(Element)
    BY <1>3 DEF OuterStep, OuterExplore, Outer, TypeOK
  <2>2. PICK x \in Top(stackOuter).post : OuterStop(x) \/ OuterPush(x)
    BY <1>3 DEF OuterStep
  <2>3. CASE OuterStop(x)
    BY <2>1, <2>3, OuterStopType
  <2>4. CASE OuterPush(x)
    <3>1. RelTypeOK'
      BY <2>1, <2>4, PushType, UpdateType DEF OuterPush, TypeOK
    <3>2. stackOuter' \in Seq(Element) /\ setElem' \subseteq State
      BY <2>1, <2>4, PushType DEF OuterPush, TypeOK
    <3>3. QED BY <2>4, <3>1, <3>2 DEF OuterPush, TypeOK
  <2>5. QED BY <2>2, <2>3, <2>4
<1>4. CASE OuterSeed
  <2>1. NewElement(Top(stackOuter).s, Top(stackOuter).f) \in Element
    BY <1>4, TopType, NewElementType DEF OuterSeed, OuterExplore, Outer, TypeOK, Element
  <2>2. stackInner' \in Seq(Element)
    BY <1>4, <2>1 DEF OuterSeed
  <2>3. QED BY <1>4, <2>2 DEF OuterSeed, SetDFS, TypeOK, RelTypeOK, failVars
<1>5. CASE OuterBacktrack
  BY <1>5, PopType DEF OuterBacktrack, OuterExplore, Outer, PopOuter, TypeOK, RelTypeOK, relVars
<1>6. CASE OuterSatisfied
  BY <1>6 DEF OuterSatisfied, TypeOK, RelTypeOK, relVars, searchVars, Verdict
<1>7. CASE InnerDeadlock
  BY <1>7, AbortType DEF InnerDeadlock, Verdict
<1>8. CASE InnerBacktrack
  BY <1>8, PopType DEF InnerBacktrack, Inner, TypeOK, RelTypeOK, relVars
<1>9. CASE InnerStep
  <2>1. Inner /\ stackInner # <<>> /\ stackInner \in Seq(Element)
    BY <1>9 DEF InnerStep, Inner, TypeOK
  <2>2. PICK x \in Top(stackInner).post : InnerCloses(x) \/ InnerStop(x) \/ InnerPush(x)
    BY <1>9 DEF InnerStep
  <2>3. CASE InnerCloses(x)
    <3> DEFINE t == [stem |-> Hashes(stackOuter), loop |-> Append(Hashes(stackInner), x.s)]
    <3>1. Top(stackInner).f \in Feat /\ x.s \in State
      BY <2>1, TopType, PushType DEF Element
    <3>2. t \in [stem : Seq(State), loop : Seq(State)]
      BY <3>1, HashesType DEF TypeOK
    <3>3. {"violated"} \in SUBSET Verdict
      BY DEF Verdict
    <3>4. Violation(Top(stackInner).f, t, {"violated"})
      BY <2>3 DEF InnerCloses
    <3> HIDE DEF t
    <3>5. QED BY <3>1, <3>2, <3>3, <3>4, ViolationType
  <2>4. CASE InnerStop(x)
    BY <2>1, <2>4, TakeType DEF InnerStop, TypeOK, RelTypeOK, relVars
  <2>5. CASE InnerPush(x)
    <3>1. CASE x.s \in visited
      <4>1. RelTypeOK'
        BY <2>1, <2>5, <3>1, PushType, UpdateType DEF InnerPush, TypeOK
      <4>2. stackInner' \in Seq(Element)
        BY <2>1, <2>5, <3>1, PushType DEF InnerPush
      <4>3. QED BY <2>5, <3>1, <4>1, <4>2 DEF InnerPush, TypeOK
    <3>2. CASE x.s \notin visited
      BY <2>5, <3>2, AbortType DEF InnerPush, Verdict
    <3>3. QED BY <3>1, <3>2
  <2>6. QED BY <2>2, <2>3, <2>4, <2>5
<1>10. CASE InnerReturn
  <2>1. PopOuter /\ UNCHANGED <<graph, stackInner, nbExplored, trace, verdict>>
    BY <1>10 DEF InnerReturn
  <2>2. RelTypeOK'
    BY <1>10 DEF InnerReturn, SetDFS, TypeOK, RelTypeOK, failVars
  <2>3. stackOuter' \in Seq(Element)
    <3>1. CASE stackOuter = <<>>
      <4>1. Len(stackOuter) = 0 /\ Pop(stackOuter) = SubSeq(stackOuter, 1, 0 - 1)
        BY <3>1 DEF Pop
      <4>2. Pop(stackOuter) = <<>>
        BY <4>1, SubSeqEmpty
      <4>3. QED BY <2>1, <4>2 DEF PopOuter
    <3>2. CASE stackOuter # <<>>
      BY <2>1, <3>2, PopType DEF PopOuter, TypeOK
    <3>3. QED BY <3>1, <3>2
  <2>4. QED BY <2>1, <2>2, <2>3 DEF PopOuter, TypeOK
<1>11. CASE UNCHANGED vars
  BY <1>11 DEF vars, relVars, searchVars, TypeOK, RelTypeOK
<1>12. QED BY <1>1, <1>2, <1>3, <1>4, <1>5, <1>6, <1>7, <1>8, <1>9, <1>10, <1>11 DEF Next

(***************************************************************************)
(* The search never leaves its types: every stack holds featured states,   *)
(* every record products, whatever the automaton and the product line.     *)
(***************************************************************************)
THEOREM Typing == Spec => []TypeOK
<1>1. NestedInit => TypeOK
  BY InitType
<1>2. TypeOK /\ [Next]_vars => TypeOK'
  BY NextType
<1>3. QED BY <1>1, <1>2, PTL DEF Spec

-----------------------------------------------------------------------------
(***************************************************************************)
(* The stacks: the features shrink along them, no state is on the outer    *)
(* stack twice, and a cycle is closed for products that all of its states  *)
(* have.                                                                   *)
(***************************************************************************)

\* The list of an element holds successors of its state.
PostsOf(stack) ==
  \A i \in 1 .. Len(stack) :
    stack[i].post \subseteq Post(graph, stack[i].s, stack[i].f)

Shrinks(stack) ==
  \A i, k \in 1 .. Len(stack) : i <= k => Within(stack[k].f, stack[i].f)

OnRecord(stack) ==
  \A i \in 1 .. Len(stack) :
    stack[i].s \in visited /\ Within(stack[i].f, outerFeatures[stack[i].s])

\* The inner stack continues the outer one, whose top is the accepting seed.
Seeded ==
  /\ dfsIn = "outer" => stackInner = <<>>
  /\ verdict = "searching" /\ dfsIn = "inner" =>
       /\ stackOuter # <<>>
       /\ Top(stackOuter).post = {}
       /\ Top(stackOuter).s \in graph.accepting
  /\ stackInner # <<>> =>
       /\ stackOuter # <<>>
       /\ stackInner[1].s = Top(stackOuter).s
       /\ \A i \in 1 .. Len(stackInner) : Within(stackInner[i].f, Top(stackOuter).f)

StackInv ==
  /\ PostsOf(stackOuter)
  /\ PostsOf(stackInner)
  /\ Shrinks(stackOuter)
  /\ Shrinks(stackInner)
  /\ OnRecord(stackOuter)
  /\ Seeded
  /\ SetElemIsStack

-----------------------------------------------------------------------------
\* A position of a stack that grew by one.
LEMMA LastOrBelow ==
  ASSUME NEW n \in Nat, NEW i \in 1 .. n + 1
  PROVE  i \in 1 .. n \/ i = n + 1
OBVIOUS

LEMMA PostFeatures ==
  ASSUME NEW g \in Graph, NEW s \in State, NEW f \in Feat, NEW x \in Post(g, s, f)
  PROVE  Within(x.f, f)
BY DEF Post, And, Within

\* What pushing the successor x of the top does to a stack.
LEMMA PushShape ==
  ASSUME NEW stack \in Seq(Element), stack # <<>>, NEW x, NEW e \in Element,
         NEW new, new = Append(Take(stack, x), e)
  PROVE  /\ new \in Seq(Element)
         /\ new # <<>>
         /\ Len(stack) \in Nat /\ Len(new) = Len(stack) + 1
         /\ Top(new) = e /\ new[Len(stack) + 1] = e
         /\ \A i \in 1 .. Len(stack) :
              /\ new[i].s = stack[i].s
              /\ new[i].f = stack[i].f
              /\ new[i].post \subseteq stack[i].post
<1>1. Take(stack, x) \in Seq(Element) /\ Len(Take(stack, x)) = Len(stack)
  BY TakeType
<1>2. /\ new \in Seq(Element) /\ new # <<>>
      /\ Len(new) = Len(Take(stack, x)) + 1
      /\ \A i \in 1 .. Len(Take(stack, x)) : new[i] = Take(stack, x)[i]
      /\ new[Len(Take(stack, x)) + 1] = e
  BY <1>1, AppendProperties
<1>3. \A i \in 1 .. Len(stack) : new[i] = Take(stack, x)[i]
  BY <1>1, <1>2
<1>4. Top(new) = e
  BY <1>1, <1>2 DEF Top
<1>5. Len(stack) \in Nat
  BY TopType
<1>6. \A i \in 1 .. Len(stack) :
        /\ Take(stack, x)[i].s = stack[i].s
        /\ Take(stack, x)[i].f = stack[i].f
        /\ Take(stack, x)[i].post \subseteq stack[i].post
  BY TakeType
<1>7. \A i \in 1 .. Len(stack) :
        /\ new[i].s = stack[i].s
        /\ new[i].f = stack[i].f
        /\ new[i].post \subseteq stack[i].post
  BY <1>3, <1>6
<1>8. QED BY <1>1, <1>2, <1>4, <1>5, <1>7

\* The same elements, some of their transitions fired.
LEMMA TakeShape ==
  ASSUME NEW stack \in Seq(Element), stack # <<>>, NEW x
  PROVE  /\ PostsOf(stack) => PostsOf(Take(stack, x))
         /\ Shrinks(stack) => Shrinks(Take(stack, x))
         /\ OnRecord(stack) => OnRecord(Take(stack, x))
<1>1. /\ Len(Take(stack, x)) = Len(stack)
      /\ \A i \in 1 .. Len(stack) :
              /\ Take(stack, x)[i].s = stack[i].s
              /\ Take(stack, x)[i].f = stack[i].f
              /\ Take(stack, x)[i].post \subseteq stack[i].post
  BY TakeType
<1>2. PostsOf(stack) => PostsOf(Take(stack, x))
  <2> SUFFICES ASSUME PostsOf(stack), NEW i \in 1 .. Len(stack)
               PROVE  Take(stack, x)[i].post
                        \subseteq Post(graph, Take(stack, x)[i].s, Take(stack, x)[i].f)
    BY <1>1 DEF PostsOf
  <2>1. stack[i].post \subseteq Post(graph, stack[i].s, stack[i].f)
    BY DEF PostsOf
  <2>2. QED BY <1>1, <2>1
<1>3. Shrinks(stack) => Shrinks(Take(stack, x))
  BY <1>1 DEF Shrinks
<1>4. OnRecord(stack) => OnRecord(Take(stack, x))
  BY <1>1 DEF OnRecord
<1>5. QED BY <1>2, <1>3, <1>4

LEMMA PopShape ==
  ASSUME NEW stack \in Seq(Element), stack # <<>>
  PROVE  /\ PostsOf(stack) => PostsOf(Pop(stack))
         /\ Shrinks(stack) => Shrinks(Pop(stack))
         /\ OnRecord(stack) => OnRecord(Pop(stack))
<1>1. /\ Len(stack) \in Nat /\ Len(Pop(stack)) = Len(stack) - 1
      /\ \A i \in 1 .. Len(Pop(stack)) : i \in 1 .. Len(stack) /\ Pop(stack)[i] = stack[i]
  BY PopType, TopType
<1>2. PostsOf(stack) => PostsOf(Pop(stack))
  BY <1>1 DEF PostsOf
<1>3. Shrinks(stack) => Shrinks(Pop(stack))
  BY <1>1 DEF Shrinks
<1>4. OnRecord(stack) => OnRecord(Pop(stack))
  BY <1>1 DEF OnRecord
<1>5. QED BY <1>2, <1>3, <1>4

\* Pushing a successor with a part of its features.
LEMMA PushShrinks ==
  ASSUME TypeOK, NEW stack \in Seq(Element), stack # <<>>,
         Shrinks(stack), PostsOf(stack),
         NEW x \in Top(stack).post,
         NEW new, new = Append(Take(stack, x), NewElement(x.s, Narrowed(x.s, x.f)))
  PROVE  /\ Shrinks(new)
         /\ PostsOf(new)
         /\ Within(Narrowed(x.s, x.f), Top(stack).f)
<1> DEFINE e == NewElement(x.s, Narrowed(x.s, x.f))
<1>1. /\ x.s \in State /\ x.f \in Feat /\ Narrowed(x.s, x.f) \in Feat /\ e \in Element
      /\ Top(stack) \in Element /\ Len(stack) \in Nat \ {0}
  BY PushType, TopType
<1>2. x \in Post(graph, Top(stack).s, Top(stack).f)
  BY <1>1 DEF PostsOf, Top
<1>3. Within(x.f, Top(stack).f)
  BY <1>1, <1>2, PostFeatures DEF TypeOK, Element
<1>4. Within(Narrowed(x.s, x.f), x.f)
  BY <1>1, NarrowedType DEF TypeOK
<1>5. Within(e.f, Top(stack).f)
  BY <1>3, <1>4 DEF Within, NewElement
<1>6. e.post = Post(graph, e.s, e.f)
  BY DEF NewElement
<1>7. /\ Len(new) = Len(stack) + 1 /\ new[Len(stack) + 1] = e
      /\ \A i \in 1 .. Len(stack) : /\ new[i].s = stack[i].s
                           /\ new[i].f = stack[i].f
                           /\ new[i].post \subseteq stack[i].post
  BY <1>1, PushShape
<1>8. \A i \in 1 .. Len(stack) : Within(Top(stack).f, stack[i].f)
  BY <1>1 DEF Shrinks, Top
<1>9. Within(Narrowed(x.s, x.f), Top(stack).f)
  BY <1>5 DEF NewElement
<1> HIDE DEF e
<1>10. \A i \in 1 .. Len(stack) : Within(e.f, stack[i].f)
  BY <1>5, <1>8 DEF Within
<1>11. Within(e.f, e.f)
  BY DEF Within
<1>12. Shrinks(new)
  <2>0. Len(stack) \in Nat
    BY <1>1
  <2> SUFFICES ASSUME NEW i \in 1 .. Len(stack) + 1, NEW k \in 1 .. Len(stack) + 1, i <= k
               PROVE  Within(new[k].f, new[i].f)
    BY <1>7 DEF Shrinks
  <2>1. CASE k \in 1 .. Len(stack)
    <3>1. i \in 1 .. Len(stack)
      BY <1>1, <2>1
    <3>2. QED BY <1>7, <2>1, <3>1 DEF Shrinks
  <2>2. CASE k = Len(stack) + 1 /\ i \in 1 .. Len(stack)
    BY <1>7, <1>10, <2>2
  <2>3. CASE k = Len(stack) + 1 /\ i = Len(stack) + 1
    BY <1>7, <1>11, <2>3
  <2>4. /\ i \in 1 .. Len(stack) \/ i = Len(stack) + 1
        /\ k \in 1 .. Len(stack) \/ k = Len(stack) + 1
    BY <2>0, LastOrBelow
  <2>5. QED BY <2>1, <2>2, <2>3, <2>4
<1>13. PostsOf(new)
  <2>0. Len(stack) \in Nat
    BY <1>1
  <2> SUFFICES ASSUME NEW i \in 1 .. Len(stack) + 1
               PROVE  new[i].post \subseteq Post(graph, new[i].s, new[i].f)
    BY <1>7 DEF PostsOf
  <2>1. CASE i \in 1 .. Len(stack)
    <3>1. stack[i].post \subseteq Post(graph, stack[i].s, stack[i].f)
      BY <2>1 DEF PostsOf
    <3>2. QED BY <1>7, <2>1, <3>1
  <2>2. CASE i = Len(stack) + 1
    <3>1. new[i] = e
      BY <1>7, <2>2
    <3>2. QED BY <1>6, <3>1
  <2>3. i \in 1 .. Len(stack) \/ i = Len(stack) + 1
    BY <2>0, LastOrBelow
  <2>4. QED BY <2>1, <2>2, <2>3
<1>14. QED BY <1>9, <1>12, <1>13

LEMMA UpdateGrows ==
  ASSUME TypeOK, NEW s \in State, NEW f \in Feat, Update(s, f)
  PROVE  /\ visited' = visited \cup {s}
         /\ \A t \in visited : Within(outerFeatures[t], outerFeatures'[t])
         /\ dfsIn = "outer" => Within(f, outerFeatures'[s])
         /\ dfsIn = "inner" => outerFeatures' = outerFeatures
         /\ dfsIn' = dfsIn
<1>1. /\ visited' = visited \cup {s} /\ dfsIn' = dfsIn
      /\ visited \subseteq State /\ outerFeatures \in [State -> Feat]
      /\ dfsIn \in {"outer", "inner"}
  BY DEF Update, TypeOK, RelTypeOK
<1>2. CASE s \notin visited
  <2>1. dfsIn = "outer" /\ outerFeatures' = [outerFeatures EXCEPT ![s] = f]
    BY <1>1, <1>2 DEF Update
  <2>2. QED BY <1>1, <1>2, <2>1 DEF Within
<1>3. CASE s \in visited /\ dfsIn = "outer"
  <2>1. outerFeatures' = [outerFeatures EXCEPT ![s] = Or(outerFeatures[s], f)]
    BY <1>1, <1>3 DEF Update
  <2>2. Within(f, Or(outerFeatures[s], f)) /\ Within(outerFeatures[s], Or(outerFeatures[s], f))
    BY DEF Within, Or
  <2>3. outerFeatures'[s] = Or(outerFeatures[s], f)
    BY <1>1, <2>1
  <2>4. \A t \in State : t # s => outerFeatures'[t] = outerFeatures[t]
    BY <1>1, <2>1
  <2>5. \A t \in visited : Within(outerFeatures[t], outerFeatures[t])
    BY DEF Within
  <2>6. QED BY <1>1, <1>3, <2>2, <2>3, <2>4, <2>5
<1>4. CASE s \in visited /\ dfsIn = "inner"
  <2>1. outerFeatures' = outerFeatures
    BY <1>1, <1>4 DEF Update
  <2>2. QED BY <1>1, <1>4, <2>1 DEF Within
<1>5. QED BY <1>1, <1>2, <1>3, <1>4

LEMMA FrameOuter ==
  ASSUME StackInv, UNCHANGED <<graph, stackOuter, setElem, visited, outerFeatures>>
  PROVE  PostsOf(stackOuter)' /\ Shrinks(stackOuter)' /\ OnRecord(stackOuter)' /\ SetElemIsStack'
BY DEF StackInv, PostsOf, Shrinks, OnRecord, SetElemIsStack

LEMMA FrameInner ==
  ASSUME StackInv, UNCHANGED <<graph, stackInner>>
  PROVE  PostsOf(stackInner)' /\ Shrinks(stackInner)'
BY DEF StackInv, PostsOf, Shrinks

\* A step that only ends the search.
LEMMA FrameAll ==
  ASSUME StackInv,
         UNCHANGED <<graph, stackOuter, setElem, stackInner, visited, outerFeatures, dfsIn>>,
         verdict' # "searching" \/ verdict' = verdict
  PROVE  StackInv'
<1>1. Seeded'
  BY DEF StackInv, Seeded, Top
<1>2. QED BY <1>1, FrameOuter, FrameInner DEF StackInv

LEMMA EmptyStacks ==
  ASSUME TypeOK, stackOuter' = <<>>, stackInner' = <<>>, setElem' = {}, dfsIn' = "outer"
  PROVE  StackInv'
BY DEF StackInv, PostsOf, Shrinks, OnRecord, SetElemIsStack, Seeded

LEMMA ViolationStack ==
  ASSUME TypeOK, StackInv, NEW f, NEW t, NEW outcomes, Violation(f, t, outcomes)
  PROVE  StackInv'
<1>1. CASE Chargeable(f)
  BY <1>1, EmptyStacks DEF Violation, SetDFS
<1>2. CASE ~Chargeable(f)
  BY <1>2, FrameAll DEF Violation, relVars, searchVars
<1>3. QED BY <1>1, <1>2

\* A successor on the outer stack brings no product to it.
LEMMA OnStackVisited ==
  ASSUME TypeOK, StackInv, NEW f \in Feat, NEW x,
         x.s \in setElem, \A i \in 1 .. Len(stackOuter) : Within(f, stackOuter[i].f)
  PROVE  x.s \in visited /\ Within(f, outerFeatures[x.s])
<1>1. PICK i \in 1 .. Len(stackOuter) : stackOuter[i].s = x.s
  BY DEF StackInv, SetElemIsStack
<1>2. x.s \in visited /\ Within(stackOuter[i].f, outerFeatures[x.s])
  BY <1>1 DEF StackInv, OnRecord
<1>3. QED BY <1>2 DEF Within

\* The features of the successors of the top are those of every element.
LEMMA TopPost ==
  ASSUME TypeOK, NEW stack \in Seq(Element), stack # <<>>,
         Shrinks(stack), PostsOf(stack), NEW x \in Top(stack).post
  PROVE  /\ x.s \in State /\ x.f \in Feat
         /\ x \in Post(graph, Top(stack).s, Top(stack).f)
         /\ Within(x.f, Top(stack).f)
         /\ \A i \in 1 .. Len(stack) : Within(x.f, stack[i].f)
<1>1. Len(stack) \in Nat \ {0} /\ Top(stack) \in Element
  BY TopType
<1>2. x.s \in State /\ x.f \in Feat
  BY PushType
<1>3. x \in Post(graph, Top(stack).s, Top(stack).f)
  BY <1>1 DEF PostsOf, Top
<1>4. Within(x.f, Top(stack).f)
  BY <1>1, <1>3, PostFeatures DEF TypeOK, Element
<1>5. \A i \in 1 .. Len(stack) : Within(Top(stack).f, stack[i].f)
  BY <1>1 DEF Shrinks, Top
<1>6. QED BY <1>2, <1>3, <1>4, <1>5 DEF Within

LEMMA OuterPushFresh ==
  ASSUME TypeOK, StackInv, Outer, NEW x \in Top(stackOuter).post, OuterPush(x)
  PROVE  x.s \notin setElem
<1>1. /\ stackOuter \in Seq(Element) /\ stackOuter # <<>> /\ dfsIn = "outer"
  BY DEF Outer, TypeOK
<1>2. x.f \in Feat /\ \A i \in 1 .. Len(stackOuter) : Within(x.f, stackOuter[i].f)
  BY <1>1, TopPost DEF StackInv
<1>3. CASE x.s \in setElem
  <2>1. x.s \in visited /\ Within(x.f, outerFeatures[x.s])
    BY <1>2, <1>3, OnStackVisited
  <2>2. Status(x.s, x.f) = "visited"
    BY <1>1, <2>1 DEF Status, Known
  <2>3. QED BY <2>2 DEF OuterPush
<1>4. QED BY <1>3

LEMMA OuterPushStack ==
  ASSUME TypeOK, StackInv, Outer, NEW x \in Top(stackOuter).post, OuterPush(x)
  PROVE  StackInv'
<1> DEFINE e == NewElement(x.s, Narrowed(x.s, x.f))
<1>1. /\ stackOuter \in Seq(Element) /\ stackOuter # <<>> /\ dfsIn = "outer"
      /\ stackInner = <<>>
  BY DEF Outer, TypeOK, StackInv, Seeded
<1>2. /\ x.s \in State /\ x.f \in Feat /\ e \in Element
      /\ Within(Narrowed(x.s, x.f), x.f)
  BY <1>1, PushType, NarrowedType DEF TypeOK
<1>3. x.s \notin setElem
  BY OuterPushFresh
<1>4. /\ stackOuter' = Append(Take(stackOuter, x), e)
      /\ setElem' = setElem \cup {x.s}
      /\ graph' = graph /\ stackInner' = stackInner /\ verdict' = verdict
      /\ Update(x.s, x.f)
  BY DEF OuterPush
<1>5. /\ visited' = visited \cup {x.s} /\ dfsIn' = dfsIn
      /\ \A t \in visited : Within(outerFeatures[t], outerFeatures'[t])
      /\ Within(x.f, outerFeatures'[x.s])
  BY <1>1, <1>2, <1>4, UpdateGrows
<1>6. Shrinks(stackOuter') /\ PostsOf(stackOuter')
  BY <1>1, <1>4, PushShrinks DEF StackInv
<1>7. e.s = x.s /\ e.f = Narrowed(x.s, x.f)
  BY DEF NewElement
<1> HIDE DEF e
<1>8. /\ Len(stackOuter) \in Nat /\ Len(stackOuter') = Len(stackOuter) + 1
      /\ stackOuter'[Len(stackOuter) + 1] = e
      /\ \A i \in 1 .. Len(stackOuter) : /\ stackOuter'[i].s = stackOuter[i].s
                                         /\ stackOuter'[i].f = stackOuter[i].f
  BY <1>1, <1>2, <1>4, PushShape
<1>9. Shrinks(stackOuter)' /\ PostsOf(stackOuter)'
  BY <1>4, <1>6 DEF Shrinks, PostsOf
<1>10. OnRecord(stackOuter)'
  <2> SUFFICES ASSUME NEW i \in 1 .. Len(stackOuter) + 1
               PROVE  /\ stackOuter'[i].s \in visited'
                      /\ Within(stackOuter'[i].f, outerFeatures'[stackOuter'[i].s])
    BY <1>8 DEF OnRecord
  <2>1. CASE i \in 1 .. Len(stackOuter)
    <3>1. stackOuter[i].s \in visited /\ Within(stackOuter[i].f, outerFeatures[stackOuter[i].s])
      BY <2>1 DEF StackInv, OnRecord
    <3>2. Within(stackOuter[i].f, outerFeatures'[stackOuter[i].s])
      BY <1>5, <3>1 DEF Within
    <3>3. QED BY <1>5, <1>8, <2>1, <3>1, <3>2
  <2>2. CASE i = Len(stackOuter) + 1
    <3>1. stackOuter'[i].s = x.s /\ stackOuter'[i].f = Narrowed(x.s, x.f)
      BY <1>7, <1>8, <2>2
    <3>2. Within(Narrowed(x.s, x.f), outerFeatures'[x.s])
      BY <1>2, <1>5 DEF Within
    <3>3. QED BY <1>5, <3>1, <3>2
  <2>3. QED BY <1>8, <2>1, <2>2, LastOrBelow
<1>11. SetElemIsStack'
  <2>1. /\ setElem = {stackOuter[i].s : i \in 1 .. Len(stackOuter)}
        /\ \A i, k \in 1 .. Len(stackOuter) : stackOuter[i].s = stackOuter[k].s => i = k
    BY DEF StackInv, SetElemIsStack
  <2>2. stackOuter'[Len(stackOuter) + 1].s = x.s
    BY <1>7, <1>8
  <2>3. \A i \in 1 .. Len(stackOuter) : stackOuter'[i].s \in setElem /\ stackOuter'[i].s # x.s
    BY <1>3, <1>8, <2>1
  <2>4. \A i \in 1 .. Len(stackOuter) + 1 : i \in 1 .. Len(stackOuter) \/ i = Len(stackOuter) + 1
    BY <1>8, LastOrBelow
  <2>5. /\ Len(stackOuter) + 1 \in 1 .. Len(stackOuter) + 1
        /\ \A i \in 1 .. Len(stackOuter) : i \in 1 .. Len(stackOuter) + 1
    BY <1>8
  <2>6. setElem' = {stackOuter'[i].s : i \in 1 .. Len(stackOuter) + 1}
    BY <1>4, <1>8, <2>1, <2>2, <2>4, <2>5
  <2>7. \A i, k \in 1 .. Len(stackOuter) + 1 : stackOuter'[i].s = stackOuter'[k].s => i = k
    BY <1>8, <2>1, <2>2, <2>3, <2>4
  <2>8. QED BY <1>8, <2>6, <2>7 DEF SetElemIsStack
<1>12. Seeded'
  BY <1>1, <1>4, <1>5 DEF Seeded
<1>13. QED BY <1>1, <1>4, <1>9, <1>10, <1>11, <1>12, FrameInner DEF StackInv

LEMMA PopOuterStack ==
  ASSUME TypeOK, StackInv, stackOuter # <<>>, PopOuter,
         UNCHANGED <<graph, visited, outerFeatures>>
  PROVE  PostsOf(stackOuter)' /\ Shrinks(stackOuter)' /\ OnRecord(stackOuter)' /\ SetElemIsStack'
<1> DEFINE n == Len(stackOuter)
<1>1. stackOuter \in Seq(Element) /\ stackOuter' = Pop(stackOuter)
  BY DEF TypeOK, PopOuter
<1>2. /\ n \in Nat \ {0} /\ Len(stackOuter') = n - 1
      /\ \A i \in 1 .. n - 1 : stackOuter'[i] = stackOuter[i]
  BY <1>1, PopType, TopType
<1>3. PostsOf(stackOuter') /\ Shrinks(stackOuter') /\ OnRecord(stackOuter')
  BY <1>1, PopShape DEF StackInv
<1>4. PostsOf(stackOuter)' /\ Shrinks(stackOuter)' /\ OnRecord(stackOuter)'
  BY <1>3 DEF PostsOf, Shrinks, OnRecord
<1>5. SetElemIsStack'
  <2>1. /\ setElem = {stackOuter[i].s : i \in 1 .. n}
        /\ \A i, k \in 1 .. n : stackOuter[i].s = stackOuter[k].s => i = k
        /\ setElem' = setElem \ {stackOuter[n].s}
    BY DEF StackInv, SetElemIsStack, PopOuter, Top
  <2> HIDE DEF n
  <2>2. /\ \A i \in 1 .. n - 1 : i \in 1 .. n /\ i # n
        /\ \A i \in 1 .. n : i \in 1 .. n - 1 \/ i = n
        /\ n \in 1 .. n
    BY <1>2
  <2>3. \A i \in 1 .. n - 1 : stackOuter[i].s # stackOuter[n].s
    BY <2>1, <2>2
  <2>4. setElem' = {stackOuter[i].s : i \in 1 .. n - 1}
    BY <2>1, <2>2, <2>3
  <2>5. setElem' = {stackOuter'[i].s : i \in 1 .. n - 1}
    BY <1>2, <2>4
  <2>6. \A i, k \in 1 .. n - 1 : stackOuter'[i].s = stackOuter'[k].s => i = k
    BY <1>2, <2>1, <2>2
  <2>7. QED BY <1>2, <2>5, <2>6 DEF SetElemIsStack
<1>6. QED BY <1>4, <1>5

\* An action on the inner stack only.
LEMMA InnerStack ==
  ASSUME TypeOK, StackInv, Inner,
         UNCHANGED <<graph, stackOuter, setElem, visited, outerFeatures, dfsIn, verdict>>,
         PostsOf(stackInner'), Shrinks(stackInner'),
         stackInner' # <<>> => stackInner'[1].s = stackInner[1].s,
         \A i \in 1 .. Len(stackInner') : Within(stackInner'[i].f, Top(stackOuter).f)
  PROVE  StackInv'
<1>1. PostsOf(stackInner)' /\ Shrinks(stackInner)'
  BY DEF PostsOf, Shrinks
<1>2. dfsIn = "inner" /\ stackInner # <<>> /\ verdict = "searching"
  BY DEF Inner
<1>3. Seeded'
  BY <1>2 DEF StackInv, Seeded, Top
<1>4. QED BY <1>1, <1>3, FrameOuter DEF StackInv

LEMMA InnerPushStack ==
  ASSUME TypeOK, StackInv, Inner, NEW x \in Top(stackInner).post, InnerPush(x)
  PROVE  StackInv'
<1> DEFINE e == NewElement(x.s, Narrowed(x.s, x.f))
<1>1. /\ stackInner \in Seq(Element) /\ stackInner # <<>> /\ dfsIn = "inner"
  BY DEF Inner, TypeOK
<1>2. CASE x.s \notin visited
  BY <1>2, FrameAll DEF InnerPush, Abort, relVars, searchVars
<1>3. CASE x.s \in visited
  <2>1. /\ stackInner' = Append(Take(stackInner, x), e)
        /\ UNCHANGED <<graph, stackOuter, setElem, verdict>>
        /\ Update(x.s, x.f)
    BY <1>3 DEF InnerPush
  <2>2. x.s \in State /\ x.f \in Feat /\ e \in Element
    BY <1>1, PushType
  <2>3. visited' = visited /\ outerFeatures' = outerFeatures /\ dfsIn' = dfsIn
    BY <1>1, <1>3, <2>1, <2>2, UpdateGrows
  <2>4. Shrinks(stackInner') /\ PostsOf(stackInner') /\ Within(Narrowed(x.s, x.f), Top(stackInner).f)
    BY <1>1, <2>1, PushShrinks DEF StackInv
  <2>5. e.f = Narrowed(x.s, x.f)
    BY DEF NewElement
  <2> HIDE DEF e
  <2>0. Len(stackInner) \in Nat \ {0}
    BY <1>1, TopType
  <2>6. /\ Len(stackInner') = Len(stackInner) + 1
        /\ stackInner'[Len(stackInner) + 1] = e
        /\ \A i \in 1 .. Len(stackInner) : /\ stackInner'[i].s = stackInner[i].s
                                           /\ stackInner'[i].f = stackInner[i].f
    <3>1. stackInner' = Append(Take(stackInner, x), e)
      BY <2>1
    <3>2. QED BY <1>1, <2>0, <2>2, <3>1, PushShape
  <2>7. \A i \in 1 .. Len(stackInner) : Within(stackInner[i].f, Top(stackOuter).f)
    BY <1>1 DEF StackInv, Seeded
  <2>8. Within(e.f, Top(stackOuter).f)
    <3>1. Within(Top(stackInner).f, Top(stackOuter).f)
      BY <2>0, <2>7 DEF Top
    <3>2. QED BY <2>4, <2>5, <3>1 DEF Within
  <2>9. \A i \in 1 .. Len(stackInner') : Within(stackInner'[i].f, Top(stackOuter).f)
    <3> SUFFICES ASSUME NEW i \in 1 .. Len(stackInner) + 1
                 PROVE  Within(stackInner'[i].f, Top(stackOuter).f)
      BY <2>6
    <3>1. i \in 1 .. Len(stackInner) \/ i = Len(stackInner) + 1
      BY <2>0, LastOrBelow
    <3>2. CASE i \in 1 .. Len(stackInner)
      BY <2>6, <2>7, <3>2
    <3>3. CASE i = Len(stackInner) + 1
      BY <2>6, <2>8, <3>3
    <3>4. QED BY <3>1, <3>2, <3>3
  <2>10. stackInner'[1].s = stackInner[1].s
    BY <2>0, <2>6
  <2>11. QED BY <2>1, <2>3, <2>4, <2>9, <2>10, InnerStack
<1>4. QED BY <1>2, <1>3

LEMMA InnerStopStack ==
  ASSUME TypeOK, StackInv, Inner, NEW x \in Top(stackInner).post, InnerStop(x)
  PROVE  StackInv'
<1>1. stackInner \in Seq(Element) /\ stackInner # <<>>
  BY DEF Inner, TypeOK
<1>2. /\ stackInner' = Take(stackInner, x)
      /\ UNCHANGED <<graph, stackOuter, setElem, visited, outerFeatures, dfsIn, verdict>>
  BY DEF InnerStop, relVars
<1>3. Shrinks(stackInner') /\ PostsOf(stackInner')
  BY <1>1, <1>2, TakeShape DEF StackInv
<1>4. /\ Len(stackInner) \in Nat \ {0} /\ Len(stackInner') = Len(stackInner)
      /\ \A i \in 1 .. Len(stackInner) : /\ stackInner'[i].s = stackInner[i].s
                                         /\ stackInner'[i].f = stackInner[i].f
  BY <1>1, <1>2, TakeType, TopType
<1>5. \A i \in 1 .. Len(stackInner) : Within(stackInner[i].f, Top(stackOuter).f)
  BY <1>1 DEF StackInv, Seeded
<1>6. stackInner'[1].s = stackInner[1].s
  BY <1>4
<1>7. \A i \in 1 .. Len(stackInner') : Within(stackInner'[i].f, Top(stackOuter).f)
  BY <1>4, <1>5
<1>8. QED BY <1>2, <1>3, <1>6, <1>7, InnerStack

LEMMA InnerBacktrackStack ==
  ASSUME TypeOK, StackInv, InnerBacktrack
  PROVE  StackInv'
<1>1. Inner /\ stackInner \in Seq(Element) /\ stackInner # <<>>
  BY DEF InnerBacktrack, Inner, TypeOK
<1>2. /\ stackInner' = Pop(stackInner)
      /\ UNCHANGED <<graph, stackOuter, setElem, visited, outerFeatures, dfsIn, verdict>>
  BY DEF InnerBacktrack, relVars
<1>3. Shrinks(stackInner') /\ PostsOf(stackInner')
  BY <1>1, <1>2, PopShape DEF StackInv
<1>4. /\ Len(stackInner) \in Nat \ {0} /\ Len(stackInner') = Len(stackInner) - 1
      /\ \A i \in 1 .. Len(stackInner') : i \in 1 .. Len(stackInner) /\ stackInner'[i] = stackInner[i]
      /\ stackInner' \in Seq(Element)
  BY <1>1, <1>2, PopType, TopType
<1>5. \A i \in 1 .. Len(stackInner) : Within(stackInner[i].f, Top(stackOuter).f)
  BY <1>1 DEF StackInv, Seeded
<1>6. stackInner' # <<>> => stackInner'[1].s = stackInner[1].s
  <2> SUFFICES ASSUME stackInner' # <<>> PROVE stackInner'[1].s = stackInner[1].s
    OBVIOUS
  <2>1. Len(stackInner') \in Nat \ {0}
    BY <1>4, EmptySeq
  <2>2. 1 \in 1 .. Len(stackInner')
    BY <2>1
  <2>3. QED BY <1>4, <2>2
<1>7. \A i \in 1 .. Len(stackInner') : Within(stackInner'[i].f, Top(stackOuter).f)
  BY <1>4, <1>5
<1>8. QED BY <1>1, <1>2, <1>3, <1>6, <1>7, InnerStack

LEMMA OuterSeedStack ==
  ASSUME TypeOK, StackInv, OuterSeed
  PROVE  StackInv'
<1> DEFINE e == NewElement(Top(stackOuter).s, Top(stackOuter).f)
<1>1. /\ stackOuter # <<>> /\ dfsIn = "outer"
      /\ Top(stackOuter).post = {} /\ Top(stackOuter).s \in graph.accepting
      /\ stackInner' = <<e>> /\ dfsIn' = "inner"
      /\ UNCHANGED <<graph, stackOuter, setElem, visited, outerFeatures, verdict>>
  BY DEF OuterSeed, OuterExplore, Outer, SetDFS
<1>2. e.s = Top(stackOuter).s /\ e.f = Top(stackOuter).f /\ e.post = Post(graph, e.s, e.f)
  BY DEF NewElement
<1> HIDE DEF e
<1>3. Len(stackInner') = 1 /\ stackInner'[1] = e /\ \A i \in 1 .. 1 : i = 1
  BY <1>1
<1>4. Within(e.f, e.f)
  BY DEF Within
<1>5. PostsOf(stackInner)' /\ Shrinks(stackInner)'
  BY <1>1, <1>2, <1>3, <1>4 DEF PostsOf, Shrinks
<1>6. Seeded'
  BY <1>1, <1>2, <1>3, <1>4 DEF Seeded, Top
<1>7. QED BY <1>1, <1>5, <1>6, FrameOuter DEF StackInv

LEMMA InitStack == NestedInit => StackInv
<1> SUFFICES ASSUME NestedInit PROVE StackInv
  OBVIOUS
<1> DEFINE e == NewElement(graph.init, graph.initFeat)
<1>1. /\ stackOuter = <<e>> /\ stackInner = <<>> /\ setElem = {graph.init} /\ dfsIn = "outer"
      /\ visited = {graph.init} /\ outerFeatures[graph.init] = graph.initFeat
  BY GraphsAssumption DEF NestedInit, RelInit, Graph
<1>2. e.s = graph.init /\ e.f = graph.initFeat /\ e.post = Post(graph, e.s, e.f)
  BY DEF NewElement
<1> HIDE DEF e
<1>3. Len(stackOuter) = 1 /\ stackOuter[1] = e /\ \A i \in 1 .. 1 : i = 1
  BY <1>1
<1>4. Within(e.f, e.f)
  BY DEF Within
<1>5. PostsOf(stackOuter) /\ Shrinks(stackOuter) /\ OnRecord(stackOuter)
  BY <1>1, <1>2, <1>3, <1>4 DEF PostsOf, Shrinks, OnRecord
<1>6. PostsOf(stackInner) /\ Shrinks(stackInner) /\ Seeded
  BY <1>1 DEF PostsOf, Shrinks, Seeded
<1>7. SetElemIsStack
  BY <1>1, <1>2, <1>3 DEF SetElemIsStack
<1>8. QED BY <1>5, <1>6, <1>7 DEF StackInv

LEMMA NextStack ==
  ASSUME TypeOK, StackInv, [Next]_vars
  PROVE  StackInv'
<1>1. CASE OuterDeadlock
  BY <1>1, FrameAll DEF OuterDeadlock, Abort, relVars, searchVars
<1>2. CASE OuterSafety
  BY <1>2, ViolationStack DEF OuterSafety
<1>3. CASE OuterStep
  <2>1. Outer /\ stackOuter \in Seq(Element) /\ stackOuter # <<>> /\ dfsIn = "outer"
    BY <1>3 DEF OuterStep, OuterExplore, Outer, TypeOK
  <2>2. PICK x \in Top(stackOuter).post : OuterStop(x) \/ OuterPush(x)
    BY <1>3 DEF OuterStep
  <2>3. CASE OuterStop(x)
    <3>1. /\ stackOuter' = Take(stackOuter, x)
          /\ UNCHANGED <<graph, setElem, stackInner, visited, outerFeatures, dfsIn, verdict>>
      BY <2>3 DEF OuterStop, relVars
    <3>2. PostsOf(stackOuter') /\ Shrinks(stackOuter') /\ OnRecord(stackOuter')
      BY <2>1, <3>1, TakeShape DEF StackInv
    <3>3. PostsOf(stackOuter)' /\ Shrinks(stackOuter)' /\ OnRecord(stackOuter)'
      BY <3>1, <3>2 DEF PostsOf, Shrinks, OnRecord
    <3>4. Len(stackOuter') = Len(stackOuter)
          /\ \A i \in 1 .. Len(stackOuter) : stackOuter'[i].s = stackOuter[i].s
      BY <2>1, <3>1, TakeType
    <3>5. SetElemIsStack'
      BY <3>1, <3>4 DEF StackInv, SetElemIsStack
    <3>6. Seeded'
      BY <2>1, <3>1 DEF StackInv, Seeded
    <3>7. QED BY <3>1, <3>3, <3>5, <3>6, FrameInner DEF StackInv
  <2>4. CASE OuterPush(x)
    BY <2>1, <2>4, OuterPushStack
  <2>5. QED BY <2>2, <2>3, <2>4
<1>4. CASE OuterSeed
  BY <1>4, OuterSeedStack
<1>5. CASE OuterBacktrack
  <2>1. /\ stackOuter # <<>> /\ dfsIn = "outer" /\ PopOuter
        /\ UNCHANGED <<graph, visited, outerFeatures, stackInner, dfsIn, verdict>>
    BY <1>5 DEF OuterBacktrack, OuterExplore, Outer, relVars
  <2>2. Seeded'
    BY <2>1 DEF StackInv, Seeded
  <2>3. QED BY <2>1, <2>2, PopOuterStack, FrameInner DEF StackInv
<1>6. CASE OuterSatisfied
  BY <1>6, FrameAll DEF OuterSatisfied, relVars, searchVars
<1>7. CASE InnerDeadlock
  BY <1>7, FrameAll DEF InnerDeadlock, Abort, relVars, searchVars
<1>8. CASE InnerBacktrack
  BY <1>8, InnerBacktrackStack
<1>9. CASE InnerStep
  <2>1. Inner
    BY <1>9 DEF InnerStep
  <2>2. PICK x \in Top(stackInner).post : InnerCloses(x) \/ InnerStop(x) \/ InnerPush(x)
    BY <1>9 DEF InnerStep
  <2>3. CASE InnerCloses(x)
    BY <2>3, ViolationStack DEF InnerCloses
  <2>4. QED BY <2>1, <2>2, <2>3, InnerStopStack, InnerPushStack
<1>10. CASE InnerReturn
  <2>1. /\ verdict = "searching" /\ dfsIn = "inner" /\ stackInner = <<>> /\ dfsIn' = "outer" /\ PopOuter
        /\ UNCHANGED <<graph, visited, outerFeatures, stackInner, verdict>>
    BY <1>10 DEF InnerReturn, SetDFS
  <2>2. stackOuter # <<>>
    BY <2>1 DEF StackInv, Seeded
  <2>3. Seeded'
    BY <2>1 DEF Seeded
  <2>4. QED BY <2>1, <2>2, <2>3, PopOuterStack, FrameInner DEF StackInv
<1>11. CASE UNCHANGED vars
  BY <1>11, FrameAll DEF vars, relVars, searchVars
<1>12. QED BY <1>1, <1>2, <1>3, <1>4, <1>5, <1>6, <1>7, <1>8, <1>9, <1>10, <1>11 DEF Next

\* The stacks keep their shape throughout the search.
THEOREM StackShape == Spec => [](TypeOK /\ StackInv)
<1>1. NestedInit => TypeOK /\ StackInv
  BY InitType, InitStack
<1>2. TypeOK /\ StackInv /\ [Next]_vars => (TypeOK /\ StackInv)'
  BY NextType, NextStack
<1>3. QED BY <1>1, <1>2, PTL DEF Spec

(***************************************************************************)
(* isIn() looks hashes up in a std::set from which pop() erases: the set   *)
(* and the stack always hold the same states, each once.                   *)
(***************************************************************************)
THEOREM SetElemCorrect == Spec => []SetElemIsStack
<1>1. TypeOK /\ StackInv => SetElemIsStack
  BY DEF StackInv
<1>2. QED BY <1>1, StackShape, PTL

(***************************************************************************)
(* A state on the outer stack is never explored again: its products are    *)
(* on record before it is met a second time.                               *)
(***************************************************************************)
THEOREM OnStackCorrect == Spec => []OnStackNotFresh
<1>1. TypeOK /\ StackInv => OnStackNotFresh
  <2> SUFFICES ASSUME TypeOK, StackInv, stackOuter # <<>>,
                      NEW x \in Top(stackOuter).post, x.s \in setElem
               PROVE  Within(x.f, outerFeatures[x.s])
    BY DEF OnStackNotFresh
  <2>1. x.f \in Feat /\ \A i \in 1 .. Len(stackOuter) : Within(x.f, stackOuter[i].f)
    BY TopPost DEF StackInv, TypeOK
  <2>2. QED BY <2>1, OnStackVisited
<1>2. QED BY <1>1, StackShape, PTL

(***************************************************************************)
(* Following the outer stack and then the inner one, a state has no        *)
(* product that the state below it lacks.                                  *)
(***************************************************************************)
THEOREM FeaturesShrinkCorrect == Spec => []FeaturesShrink
<1>1. TypeOK /\ StackInv => FeaturesShrink
  <2> SUFFICES ASSUME TypeOK, StackInv PROVE FeaturesShrink
    OBVIOUS
  <2> DEFINE stack == stackOuter \o stackInner
             n == Len(stackOuter)
             m == Len(stackInner)
  <2>1. /\ n \in Nat /\ m \in Nat /\ Len(stack) = n + m
        /\ \A i \in 1 .. n + m : stack[i] = IF i <= n THEN stackOuter[i] ELSE stackInner[i - n]
    BY ConcatProperties, LenProperties DEF TypeOK
  <2>2. m > 0 => stackInner # <<>> /\ n > 0
    BY <2>1, EmptySeq DEF StackInv, Seeded, TypeOK
  <2> SUFFICES ASSUME NEW i \in 1 .. n + m - 1
               PROVE  Within(stack[i + 1].f, stack[i].f)
    BY <2>1 DEF FeaturesShrink
  <2>3. CASE i + 1 <= n
    <3>1. stack[i] = stackOuter[i] /\ stack[i + 1] = stackOuter[i + 1] /\ i \in 1 .. n /\ i + 1 \in 1 .. n
      BY <2>1, <2>3
    <3>2. QED BY <3>1 DEF StackInv, Shrinks
  <2>4. CASE i = n
    <3>1. stack[i] = Top(stackOuter) /\ stack[i + 1] = stackInner[1] /\ 1 \in 1 .. m /\ m > 0
      BY <2>1, <2>4 DEF Top
    <3>2. QED BY <2>2, <3>1 DEF StackInv, Seeded
  <2>5. CASE i > n
    <3>1. /\ stack[i] = stackInner[i - n] /\ stack[i + 1] = stackInner[i + 1 - n]
          /\ i - n \in 1 .. m /\ i + 1 - n \in 1 .. m /\ i - n <= i + 1 - n
      BY <2>1, <2>5
    <3>2. QED BY <3>1 DEF StackInv, Shrinks
  <2>6. QED BY <2>1, <2>3, <2>4, <2>5
<1>2. QED BY <1>1, StackShape, PTL
=============================================================================
