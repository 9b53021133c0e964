----------------------- MODULE NestedDFSVerdict_proof ------------------------
(***************************************************************************)
(* What the search concludes is right.                                     *)
(*                                                                         *)
(* First, "Property satisfied".  The search misses no state of a product   *)
(* line with at most one featured system: for every valid product, what is *)
(* on record is closed under the transitions of the product, but for those *)
(* that wait on the outer stack.  With two systems it is not: update       *)
(* narrows each of them on its own.                                        *)
(***************************************************************************)
EXTENDS NestedDFS_proof, FiniteSetTheorems, WellFoundedInduction

OneSystem == \A c, d \in Comp : c = d

\* A transition from s to t that all of K can take waits in a list of stack.
Waits(stack, K, s, t) ==
  \E i \in 1 .. Len(stack) :
    /\ stack[i].s = s
    /\ \E x \in stack[i].post : x.s = t /\ \A j \in K : Has(x.f, j)

CoveredBy(K, s, t) ==
  \/ t \in visited /\ \A j \in K : Has(outerFeatures[t], j)
  \/ Waits(stackOuter, K, s, t)

\* An edge without a feature expression.
PlainEdge(e) == \A c \in Comp : e.feat[c] = Product

ProductsCovered ==
  \A j \in Runs(graph) : \A s \in visited :
    Has(outerFeatures[s], j) => \A t \in Succ(graph, j, s) : CoveredBy({j}, s, t)

EdgesCovered ==
  \A e \in graph.edge :
    e.src \in visited /\ PlainEdge(e) => CoveredBy({}, e.src, e.dst)

InitOnRecord ==
  graph.init \in visited /\ \A j \in Runs(graph) : Has(outerFeatures[graph.init], j)

\* A state where the never claim is at its end is the next to be looked at.
EndOnTop ==
  \A s \in visited \cap graph.end :
    /\ verdict = "searching" /\ dfsIn = "outer"
    /\ stackOuter # <<>> /\ Top(stackOuter).s = s

CoverInv ==
  verdict \in {"searching", "satisfied"} =>
    /\ ProductsCovered
    /\ EdgesCovered
    /\ InitOnRecord
    /\ EndOnTop
    /\ verdict = "satisfied" => stackOuter = <<>>

-----------------------------------------------------------------------------
LEMMA TakeWaits ==
  ASSUME NEW stack \in Seq(Element), stack # <<>>, NEW x, NEW K, NEW s, NEW t,
         Waits(stack, K, s, t)
  PROVE  \/ Waits(Take(stack, x), K, s, t)
         \/ t = x.s /\ \A j \in K : Has(x.f, j)
<1>1. /\ Len(Take(stack, x)) = Len(stack)
      /\ Take(stack, x)[Len(stack)].post = Top(stack).post \ {x}
      /\ \A i \in 1 .. Len(stack) :
           /\ Take(stack, x)[i].s = stack[i].s
           /\ i # Len(stack) => Take(stack, x)[i].post = stack[i].post
  BY TakeType
<1>2. PICK i \in 1 .. Len(stack) :
        stack[i].s = s /\ \E y \in stack[i].post : y.s = t /\ \A j \in K : Has(y.f, j)
  BY DEF Waits
<1>3. PICK y \in stack[i].post : y.s = t /\ \A j \in K : Has(y.f, j)
  BY <1>2
<1>4. CASE y = x
  BY <1>3, <1>4
<1>5. CASE y # x
  <2>1. y \in Take(stack, x)[i].post
    BY <1>1, <1>3, <1>5 DEF Top
  <2>2. QED BY <1>1, <1>2, <1>3, <2>1 DEF Waits
<1>6. QED BY <1>4, <1>5

LEMMA AppendWaits ==
  ASSUME NEW stack \in Seq(Element), NEW e \in Element, NEW K, NEW s, NEW t,
         Waits(stack, K, s, t)
  PROVE  Waits(Append(stack, e), K, s, t)
<1>1. /\ Len(stack) \in Nat /\ Len(Append(stack, e)) = Len(stack) + 1
      /\ \A i \in 1 .. Len(stack) : Append(stack, e)[i] = stack[i]
  BY AppendProperties, LenProperties
<1>2. \A i \in 1 .. Len(stack) : i \in 1 .. Len(stack) + 1
  BY <1>1
<1>3. QED BY <1>1, <1>2 DEF Waits

LEMMA PopWaits ==
  ASSUME NEW stack \in Seq(Element), stack # <<>>, Top(stack).post = {},
         NEW K, NEW s, NEW t, Waits(stack, K, s, t)
  PROVE  Waits(Pop(stack), K, s, t)
<1>1. /\ Len(stack) \in Nat \ {0} /\ Len(Pop(stack)) = Len(stack) - 1
      /\ \A i \in 1 .. Len(stack) - 1 : Pop(stack)[i] = stack[i]
  BY PopType, TopType
<1>2. PICK i \in 1 .. Len(stack) :
        stack[i].s = s /\ \E y \in stack[i].post : y.s = t /\ \A j \in K : Has(y.f, j)
  BY DEF Waits
<1>3. i # Len(stack)
  BY <1>2 DEF Top
<1>4. i \in 1 .. Len(stack) - 1
  BY <1>1, <1>3
<1>5. QED BY <1>1, <1>2, <1>4 DEF Waits

\* What is covered stays covered.
LEMMA StopCovers ==
  ASSUME TypeOK, Outer, NEW x \in Top(stackOuter).post, OuterStop(x),
         NEW K, NEW s, NEW t, CoveredBy(K, s, t)
  PROVE  CoveredBy(K, s, t)'
<1>1. /\ stackOuter \in Seq(Element) /\ stackOuter # <<>> /\ dfsIn = "outer"
      /\ stackOuter' = Take(stackOuter, x) /\ visited' = visited /\ outerFeatures' = outerFeatures
  BY DEF Outer, TypeOK, OuterStop, relVars
<1>2. x.s \in visited /\ Within(x.f, outerFeatures[x.s])
  BY <1>1 DEF OuterStop, Status, Known
<1>3. CASE t \in visited /\ \A j \in K : Has(outerFeatures[t], j)
  BY <1>1, <1>3 DEF CoveredBy
<1>4. CASE Waits(stackOuter, K, s, t)
  <2>1. CASE Waits(Take(stackOuter, x), K, s, t)
    BY <1>1, <2>1 DEF CoveredBy, Waits
  <2>2. CASE t = x.s /\ \A j \in K : Has(x.f, j)
    <3>1. \A j \in K : Has(outerFeatures[x.s], j)
      BY <1>2, <2>2 DEF Within, Has
    <3>2. QED BY <1>1, <1>2, <2>2, <3>1 DEF CoveredBy
  <2>3. QED BY <1>1, <1>4, <2>1, <2>2, TakeWaits
<1>5. QED BY <1>3, <1>4 DEF CoveredBy

LEMMA PushCovers ==
  ASSUME TypeOK, Outer, NEW x \in Top(stackOuter).post, OuterPush(x),
         NEW K, NEW s, NEW t, CoveredBy(K, s, t)
  PROVE  CoveredBy(K, s, t)'
<1> DEFINE e == NewElement(x.s, Narrowed(x.s, x.f))
<1>1. /\ stackOuter \in Seq(Element) /\ stackOuter # <<>> /\ dfsIn = "outer"
      /\ stackOuter' = Append(Take(stackOuter, x), e) /\ Update(x.s, x.f)
  BY DEF Outer, TypeOK, OuterPush
<1>2. x.s \in State /\ x.f \in Feat /\ e \in Element
  BY <1>1, PushType
<1>3. /\ visited' = visited \cup {x.s}
      /\ \A u \in visited : Within(outerFeatures[u], outerFeatures'[u])
      /\ Within(x.f, outerFeatures'[x.s])
  BY <1>1, <1>2, UpdateGrows
<1> HIDE DEF e
<1>4. CASE t \in visited /\ \A j \in K : Has(outerFeatures[t], j)
  <2>1. \A j \in K : Has(outerFeatures'[t], j)
    BY <1>3, <1>4 DEF Within, Has
  <2>2. QED BY <1>3, <1>4, <2>1 DEF CoveredBy
<1>5. CASE Waits(stackOuter, K, s, t)
  <2>1. CASE Waits(Take(stackOuter, x), K, s, t)
    <3>1. Take(stackOuter, x) \in Seq(Element)
      BY <1>1, TakeType
    <3>2. Waits(stackOuter', K, s, t)
      BY <1>1, <1>2, <2>1, <3>1, AppendWaits
    <3>3. QED BY <3>2 DEF CoveredBy, Waits
  <2>2. CASE t = x.s /\ \A j \in K : Has(x.f, j)
    <3>1. \A j \in K : Has(outerFeatures'[x.s], j)
      BY <1>3, <2>2 DEF Within, Has
    <3>2. QED BY <1>3, <2>2, <3>1 DEF CoveredBy
  <2>3. QED BY <1>1, <1>5, <2>1, <2>2, TakeWaits
<1>6. QED BY <1>4, <1>5 DEF CoveredBy

LEMMA PopCovers ==
  ASSUME TypeOK, stackOuter # <<>>, Top(stackOuter).post = {}, PopOuter,
         UNCHANGED <<visited, outerFeatures>>,
         NEW K, NEW s, NEW t, CoveredBy(K, s, t)
  PROVE  CoveredBy(K, s, t)'
<1>1. stackOuter \in Seq(Element) /\ stackOuter' = Pop(stackOuter)
  BY DEF TypeOK, PopOuter
<1>2. CASE t \in visited /\ \A j \in K : Has(outerFeatures[t], j)
  BY <1>2 DEF CoveredBy
<1>3. CASE Waits(stackOuter, K, s, t)
  <2>1. Waits(stackOuter', K, s, t)
    BY <1>1, <1>3, PopWaits
  <2>2. QED BY <2>1 DEF CoveredBy, Waits
<1>4. QED BY <1>2, <1>3 DEF CoveredBy

-----------------------------------------------------------------------------
\* The successors of a new element wait in its list.
LEMMA NewWaits ==
  ASSUME TypeOK, NEW stack \in Seq(Element), NEW s \in State, NEW f \in Feat,
         NEW K, NEW e \in graph.edge, e.src = s, Executable(e, f),
         \A j \in K : Has(f, j) /\ Has(e.feat, j)
  PROVE  Waits(Append(stack, NewElement(s, f)), K, s, e.dst)
<1> DEFINE new == Append(stack, NewElement(s, f))
           x == [s |-> e.dst, f |-> And(f, e.feat)]
<1>1. NewElement(s, f) \in Element
  BY NewElementType DEF TypeOK
<1>2. /\ Len(stack) \in Nat /\ Len(new) = Len(stack) + 1
      /\ new[Len(stack) + 1] = NewElement(s, f)
  BY <1>1, AppendProperties, LenProperties
<1>3. x \in Post(graph, s, f)
  BY DEF Post
<1>4. x.s = e.dst /\ \A j \in K : Has(x.f, j)
  BY DEF Has, And
<1>5. x \in NewElement(s, f).post /\ NewElement(s, f).s = s
  BY <1>3 DEF NewElement
<1> HIDE DEF new, x
<1>6. Len(stack) + 1 \in 1 .. Len(new)
  BY <1>2
<1>7. Waits(new, K, s, e.dst)
  BY <1>2, <1>4, <1>5, <1>6 DEF Waits
<1>8. QED BY <1>7 DEF new

LEMMA HasExecutable ==
  ASSUME NEW f, NEW j \in Config, NEW e, Has(f, j), Has(e.feat, j)
  PROVE  Executable(e, f)
BY DEF Executable, Has, Config

\* With one system, a product that update adds is one the new element has.
LEMMA NarrowedKeeps ==
  ASSUME OneSystem, TypeOK, Outer, NEW s \in State, NEW f \in Feat, NEW j,
         Update(s, f),
         Has(outerFeatures'[s], j), s \in visited => ~Has(outerFeatures[s], j)
  PROVE  Has(Narrowed(s, f), j)
<1>1. dfsIn = "outer" /\ outerFeatures \in [State -> Feat]
  BY DEF Outer, TypeOK, RelTypeOK
<1>2. CASE s \notin visited
  <2>1. outerFeatures'[s] = f
    BY <1>1, <1>2 DEF Update
  <2>2. Narrowed(s, f) = f
    BY <1>2 DEF Narrowed
  <2>3. QED BY <2>1, <2>2
<1>3. CASE s \in visited
  <2>1. outerFeatures'[s] = Or(outerFeatures[s], f)
    BY <1>1, <1>3 DEF Update
  <2>2. PICK c \in Comp : j[c] \notin outerFeatures[s][c]
    BY <1>3 DEF Has
  <2>3. j[c] \in f[c]
    BY <2>1, <2>2 DEF Has, Or
  <2>4. Known(s) = outerFeatures[s]
    BY <1>1 DEF Known
  <2>5. Narrowed(s, f)[c] = f[c] \ outerFeatures[s][c]
    BY <1>3, <2>2, <2>3, <2>4 DEF Narrowed
  <2>6. QED BY <2>2, <2>3, <2>5 DEF Has, OneSystem
<1>4. QED BY <1>2, <1>3

LEMMA OuterPushCover ==
  ASSUME OneSystem, TypeOK, StackInv, CoverInv, OuterExplore,
         NEW x \in Top(stackOuter).post, OuterPush(x)
  PROVE  CoverInv'
<1> DEFINE n == Narrowed(x.s, x.f)
           e == NewElement(x.s, n)
<1>1. /\ stackOuter \in Seq(Element) /\ stackOuter # <<>> /\ dfsIn = "outer"
      /\ verdict = "searching" /\ Top(stackOuter).s \notin graph.end /\ Outer
      /\ ProductsCovered /\ EdgesCovered /\ InitOnRecord /\ EndOnTop
  BY DEF OuterExplore, Outer, TypeOK, CoverInv
<1>2. /\ stackOuter' = Append(Take(stackOuter, x), e) /\ Update(x.s, x.f)
      /\ Status(x.s, x.f) # "visited" /\ graph' = graph /\ verdict' = verdict
  BY DEF OuterPush
<1>3. /\ x.s \in State /\ x.f \in Feat /\ e \in Element /\ n \in Feat
      /\ Take(stackOuter, x) \in Seq(Element)
  BY <1>1, PushType, TakeType
<1>4. /\ visited' = visited \cup {x.s} /\ dfsIn' = dfsIn
      /\ \A u \in visited : Within(outerFeatures[u], outerFeatures'[u])
      /\ Within(x.f, outerFeatures'[x.s])
  BY <1>1, <1>2, <1>3, UpdateGrows
<1>5. \A j \in Runs(graph) : j \in Config
  BY DEF Runs
\* The successors of x for a product that is new to it.
<1>6. ASSUME NEW j \in Runs(graph), Has(n, j), NEW t \in Succ(graph, j, x.s)
      PROVE  CoveredBy({j}, x.s, t)'
  <2>1. PICK d \in graph.edge : d.src = x.s /\ d.dst = t /\ Has(d.feat, j)
    BY DEF Succ
  <2>2. Executable(d, n)
    BY <1>5, <1>6, <2>1, HasExecutable
  <2>3. \A k \in {j} : Has(n, k) /\ Has(d.feat, k)
    BY <1>6, <2>1
  <2> HIDE DEF n
  <2>4. Waits(stackOuter', {j}, x.s, t)
    BY <1>2, <1>3, <2>1, <2>2, <2>3, NewWaits
  <2>5. QED BY <2>4 DEF CoveredBy, Waits
<1>7. ProductsCovered'
  <2> SUFFICES ASSUME NEW j \in Runs(graph), NEW s \in visited', Has(outerFeatures'[s], j),
                      NEW t \in Succ(graph, j, s)
               PROVE  CoveredBy({j}, s, t)'
    BY <1>2 DEF ProductsCovered
  <2>1. CASE s \in visited /\ Has(outerFeatures[s], j)
    <3>1. CoveredBy({j}, s, t)
      BY <1>1, <2>1 DEF ProductsCovered
    <3>2. QED BY <1>1, <3>1, PushCovers
  <2>2. CASE s = x.s /\ (s \in visited => ~Has(outerFeatures[s], j))
    <3>1. Has(n, j)
      BY <1>1, <1>2, <1>3, <2>2, NarrowedKeeps
    <3>2. QED BY <1>6, <2>2, <3>1
  <2>3. CASE s # x.s /\ ~Has(outerFeatures[s], j)
    <3>1. outerFeatures'[s] = outerFeatures[s]
      BY <1>1, <1>3, <1>2, <2>3 DEF Update, TypeOK, RelTypeOK
    <3>2. QED BY <2>3, <3>1
  <2>4. QED BY <1>4, <2>1, <2>2, <2>3
<1>8. EdgesCovered'
  <2> SUFFICES ASSUME NEW d \in graph.edge, d.src \in visited', PlainEdge(d)
               PROVE  CoveredBy({}, d.src, d.dst)'
    BY <1>2 DEF EdgesCovered
  <2>1. CASE d.src \in visited
    <3>1. CoveredBy({}, d.src, d.dst)
      BY <1>1, <2>1 DEF EdgesCovered
    <3>2. QED BY <1>1, <3>1, PushCovers
  <2>2. CASE d.src = x.s
    <3>1. Executable(d, n)
      BY DEF PlainEdge, Executable
    <3> HIDE DEF n
    <3>2. Waits(stackOuter', {}, x.s, d.dst)
      BY <1>2, <1>3, <2>2, <3>1, NewWaits
    <3>3. QED BY <2>2, <3>2 DEF CoveredBy, Waits
  <2>3. QED BY <1>4, <2>1, <2>2
<1>9. InitOnRecord'
  <2>1. graph.init \in visited /\ \A j \in Runs(graph) : Has(outerFeatures[graph.init], j)
    BY <1>1 DEF InitOnRecord
  <2>2. \A j \in Runs(graph) : Has(outerFeatures'[graph.init], j)
    BY <1>4, <2>1 DEF Has, Within
  <2>3. QED BY <1>2, <1>4, <2>1, <2>2 DEF InitOnRecord
<1>10. EndOnTop'
  <2>1. visited \cap graph.end = {}
    BY <1>1 DEF EndOnTop
  <2>2. stackOuter' # <<>> /\ Top(stackOuter').s = x.s
    <3>1. e.s = x.s
      BY DEF NewElement
    <3>2. e \in Element /\ stackOuter \in Seq(Element) /\ stackOuter # <<>>
      BY <1>1, <1>3
    <3>3. stackOuter' = Append(Take(stackOuter, x), e)
      BY <1>2
    <3> HIDE DEF e, n
    <3>4. Take(stackOuter, x) \in Seq(Element)
      BY <3>2, TakeType
    <3>5. /\ stackOuter' # <<>>
          /\ Len(stackOuter') = Len(Take(stackOuter, x)) + 1
          /\ stackOuter'[Len(Take(stackOuter, x)) + 1] = e
      BY <3>2, <3>3, <3>4, AppendProperties
    <3>6. QED BY <3>1, <3>5 DEF Top
  <2>3. QED BY <1>1, <1>2, <1>4, <2>1, <2>2 DEF EndOnTop, Top
<1>11. QED BY <1>1, <1>2, <1>7, <1>8, <1>9, <1>10 DEF CoverInv

\* A step that leaves the record alone and loses nothing that waits.
LEMMA FrameCover ==
  ASSUME CoverInv, verdict \in {"searching", "satisfied"},
         UNCHANGED <<graph, visited, outerFeatures>>,
         \A K, s, t : CoveredBy(K, s, t) => CoveredBy(K, s, t)',
         \A s \in visited \cap graph.end :
           /\ verdict' = "searching" /\ dfsIn' = "outer"
           /\ stackOuter' # <<>> /\ Top(stackOuter').s = s,
         verdict' = "satisfied" => stackOuter' = <<>>
  PROVE  CoverInv'
<1>1. ProductsCovered'
  <2> SUFFICES ASSUME NEW j \in Runs(graph), NEW s \in visited, Has(outerFeatures[s], j),
                      NEW t \in Succ(graph, j, s)
               PROVE  CoveredBy({j}, s, t)'
    BY DEF ProductsCovered
  <2>1. CoveredBy({j}, s, t)
    BY DEF CoverInv, ProductsCovered
  <2>2. QED BY <2>1
<1>2. EdgesCovered'
  <2> SUFFICES ASSUME NEW d \in graph.edge, d.src \in visited, PlainEdge(d)
               PROVE  CoveredBy({}, d.src, d.dst)'
    BY DEF EdgesCovered
  <2>1. CoveredBy({}, d.src, d.dst)
    BY DEF CoverInv, EdgesCovered
  <2>2. QED BY <2>1
<1>3. InitOnRecord'
  BY DEF CoverInv, InitOnRecord
<1>4. EndOnTop'
  BY DEF EndOnTop, Top
<1>5. QED BY <1>1, <1>2, <1>3, <1>4 DEF CoverInv

LEMMA SameCover ==
  ASSUME CoverInv, UNCHANGED <<graph, visited, outerFeatures, stackOuter, dfsIn, verdict>>
  PROVE  CoverInv'
BY DEF CoverInv, ProductsCovered, EdgesCovered, CoveredBy, Waits, InitOnRecord, EndOnTop, Top

\* An end state on record is the top of the outer stack.
LEMMA NoEnd ==
  ASSUME CoverInv, verdict = "searching",
         dfsIn = "inner" \/ stackOuter = <<>> \/ Top(stackOuter).s \notin graph.end
  PROVE  visited \cap graph.end = {}
BY DEF CoverInv, EndOnTop

LEMMA InitCover == NestedInit => CoverInv
<1> SUFFICES ASSUME NestedInit PROVE CoverInv
  OBVIOUS
<1> DEFINE e == NewElement(graph.init, graph.initFeat)
<1>1. /\ TypeOK /\ graph \in Graph /\ graph.init \in State /\ graph.initFeat \in Feat
      /\ visited = {graph.init} /\ outerFeatures[graph.init] = graph.initFeat
      /\ stackOuter = <<e>> /\ verdict = "searching" /\ dfsIn = "outer"
  BY InitType, GraphsAssumption DEF NestedInit, RelInit, Graph
<1>2. stackOuter = Append(<<>>, e) /\ <<>> \in Seq(Element)
  BY <1>1
<1> HIDE DEF e
<1>3. ASSUME NEW K, NEW d \in graph.edge, d.src = graph.init, Executable(d, graph.initFeat),
             \A j \in K : Has(graph.initFeat, j) /\ Has(d.feat, j)
      PROVE  CoveredBy(K, graph.init, d.dst)
  <2>1. Waits(Append(<<>>, NewElement(graph.init, graph.initFeat)), K, graph.init, d.dst)
    BY <1>1, <1>2, <1>3, NewWaits
  <2>2. stackOuter = Append(<<>>, NewElement(graph.init, graph.initFeat))
    BY <1>2 DEF e
  <2>3. QED BY <2>1, <2>2 DEF CoveredBy
<1>4. ProductsCovered
  <2> SUFFICES ASSUME NEW j \in Runs(graph), NEW t \in Succ(graph, j, graph.init)
               PROVE  CoveredBy({j}, graph.init, t)
    BY <1>1 DEF ProductsCovered
  <2>1. PICK d \in graph.edge : d.src = graph.init /\ d.dst = t /\ Has(d.feat, j)
    BY DEF Succ
  <2>2. j \in Config /\ Has(graph.initFeat, j)
    BY DEF Runs
  <2>3. Executable(d, graph.initFeat)
    BY <2>1, <2>2, HasExecutable
  <2>4. QED BY <1>3, <2>1, <2>2, <2>3
<1>5. EdgesCovered
  <2> SUFFICES ASSUME NEW d \in graph.edge, d.src = graph.init, PlainEdge(d)
               PROVE  CoveredBy({}, graph.init, d.dst)
    BY <1>1 DEF EdgesCovered
  <2>1. Executable(d, graph.initFeat)
    BY DEF PlainEdge, Executable
  <2>2. QED BY <1>3, <2>1
<1>6. InitOnRecord
  BY <1>1 DEF InitOnRecord, Runs
<1>7. EndOnTop
  <2>1. Top(stackOuter) = e /\ e.s = graph.init
    BY <1>1 DEF Top, e, NewElement
  <2>2. QED BY <1>1, <2>1 DEF EndOnTop
<1>8. QED BY <1>1, <1>4, <1>5, <1>6, <1>7 DEF CoverInv

LEMMA NextCover ==
  ASSUME OneSystem, TypeOK, StackInv, CoverInv, [Next]_vars
  PROVE  CoverInv'
<1>1. CASE OuterDeadlock \/ InnerDeadlock
  BY <1>1 DEF OuterDeadlock, InnerDeadlock, Abort, CoverInv
<1>2. CASE OuterSafety
  BY <1>2 DEF OuterSafety, Violation, CoverInv
<1>3. CASE OuterStep
  <2>1. Outer /\ OuterExplore
    BY <1>3 DEF OuterStep, OuterExplore
  <2>2. PICK x \in Top(stackOuter).post : OuterStop(x) \/ OuterPush(x)
    BY <1>3 DEF OuterStep
  <2>3. CASE OuterStop(x)
    <3>1. /\ UNCHANGED <<graph, visited, outerFeatures, verdict>> /\ verdict = "searching"
      BY <2>1, <2>3 DEF OuterStop, relVars, Outer
    <3>2. \A K, s, t : CoveredBy(K, s, t) => CoveredBy(K, s, t)'
      BY <2>1, <2>3, StopCovers
    <3>3. visited \cap graph.end = {}
      BY <2>1, <3>1, NoEnd DEF OuterExplore
    <3>4. QED BY <3>1, <3>2, <3>3, FrameCover
  <2>4. CASE OuterPush(x)
    BY <2>1, <2>4, OuterPushCover
  <2>5. QED BY <2>2, <2>3, <2>4
<1>4. CASE OuterSeed
  <2>1. /\ UNCHANGED <<graph, visited, outerFeatures, verdict, stackOuter>> /\ verdict = "searching"
        /\ Top(stackOuter).s \notin graph.end
    BY <1>4 DEF OuterSeed, OuterExplore, Outer
  <2>2. \A K, s, t : CoveredBy(K, s, t) => CoveredBy(K, s, t)'
    BY <2>1 DEF CoveredBy, Waits
  <2>3. visited \cap graph.end = {}
    BY <2>1, NoEnd
  <2>4. QED BY <2>1, <2>2, <2>3, FrameCover
<1>5. CASE OuterBacktrack
  <2>1. /\ UNCHANGED <<graph, visited, outerFeatures, verdict>> /\ verdict = "searching"
        /\ Top(stackOuter).s \notin graph.end /\ Top(stackOuter).post = {}
        /\ stackOuter # <<>> /\ PopOuter
    BY <1>5 DEF OuterBacktrack, OuterExplore, Outer, relVars
  <2>2. \A K, s, t : CoveredBy(K, s, t) => CoveredBy(K, s, t)'
    BY <2>1, PopCovers
  <2>3. visited \cap graph.end = {}
    BY <2>1, NoEnd
  <2>4. QED BY <2>1, <2>2, <2>3, FrameCover
<1>6. CASE OuterSatisfied
  <2>1. /\ UNCHANGED <<graph, visited, outerFeatures, stackOuter>> /\ verdict = "searching"
        /\ stackOuter = <<>>
    BY <1>6 DEF OuterSatisfied, relVars, searchVars
  <2>2. \A K, s, t : CoveredBy(K, s, t) => CoveredBy(K, s, t)'
    BY <2>1 DEF CoveredBy, Waits
  <2>3. visited \cap graph.end = {}
    BY <2>1, NoEnd
  <2>4. QED BY <2>1, <2>2, <2>3, FrameCover
<1>7. CASE InnerBacktrack
  BY <1>7, SameCover DEF InnerBacktrack, relVars
<1>8. CASE InnerStep
  <2>1. PICK x \in Top(stackInner).post : InnerCloses(x) \/ InnerStop(x) \/ InnerPush(x)
    BY <1>8 DEF InnerStep
  <2>2. Inner /\ dfsIn = "inner" /\ stackInner \in Seq(Element) /\ stackInner # <<>>
    BY <1>8 DEF InnerStep, Inner, TypeOK
  <2>3. CASE InnerCloses(x)
    BY <2>3 DEF InnerCloses, Violation, CoverInv
  <2>4. CASE InnerStop(x)
    BY <2>4, SameCover DEF InnerStop, relVars
  <2>5. CASE InnerPush(x) /\ x.s \in visited
    <3>1. UNCHANGED <<graph, stackOuter, verdict>> /\ Update(x.s, x.f) /\ x.s \in State /\ x.f \in Feat
      BY <2>2, <2>5, PushType DEF InnerPush
    <3>2. visited' = visited /\ outerFeatures' = outerFeatures /\ dfsIn' = dfsIn
      BY <2>2, <2>5, <3>1, UpdateGrows
    <3>3. QED BY <3>1, <3>2, SameCover
  <2>6. CASE InnerPush(x) /\ x.s \notin visited
    BY <2>6 DEF InnerPush, Abort, CoverInv
  <2>7. QED BY <2>1, <2>3, <2>4, <2>5, <2>6
<1>9. CASE InnerReturn
  <2>1. /\ UNCHANGED <<graph, visited, outerFeatures, verdict>> /\ verdict = "searching"
        /\ dfsIn = "inner" /\ PopOuter
    BY <1>9 DEF InnerReturn
  <2>2. Top(stackOuter).post = {} /\ stackOuter # <<>>
    BY <2>1 DEF StackInv, Seeded
  <2>3. \A K, s, t : CoveredBy(K, s, t) => CoveredBy(K, s, t)'
    BY <2>1, <2>2, PopCovers
  <2>4. visited \cap graph.end = {}
    BY <2>1, NoEnd
  <2>5. QED BY <2>1, <2>3, <2>4, FrameCover
<1>10. CASE UNCHANGED vars
  BY <1>10, SameCover DEF vars, relVars, searchVars
<1>11. QED BY <1>1, <1>2, <1>3, <1>4, <1>5, <1>6, <1>7, <1>8, <1>9, <1>10 DEF Next

THEOREM CoverShape ==
  ASSUME OneSystem PROVE Spec => [](TypeOK /\ StackInv /\ CoverInv)
<1>1. NestedInit => TypeOK /\ StackInv /\ CoverInv
  BY InitType, InitStack, InitCover
<1>2. TypeOK /\ StackInv /\ CoverInv /\ [Next]_vars => (TypeOK /\ StackInv /\ CoverInv)'
  BY NextType, NextStack, NextCover
<1>3. QED BY <1>1, <1>2, PTL DEF Spec

(***************************************************************************)
(* With at most one featured system, narrowing the features of a state     *)
(* that is met again loses no product.                                     *)
(***************************************************************************)
THEOREM CoverageCorrect == ASSUME OneSystem PROVE Spec => []Coverage
<1>1. TypeOK /\ StackInv /\ CoverInv => Coverage
  BY DEF CoverInv, ProductsCovered, CoveredBy, Waits, Coverage, Covered
<1>2. QED BY <1>1, CoverShape, PTL

\* When the search ends satisfied, all that a product can reach is on record
\* for it: the record is closed under its transitions.
LEMMA SatisfiedReach ==
  ASSUME TypeOK, CoverInv, verdict = "satisfied", NEW j \in Runs(graph)
  PROVE  ReachInit(graph, j) \subseteq {s \in visited : Has(outerFeatures[s], j)}
<1> DEFINE V == {s \in visited : Has(outerFeatures[s], j)}
<1>1. ProductsCovered /\ InitOnRecord /\ stackOuter = <<>> /\ visited \subseteq State
  BY DEF CoverInv, TypeOK, RelTypeOK
<1>2. Closed(graph, j, V)
  BY <1>1 DEF ProductsCovered, CoveredBy, Waits, Closed
<1>3. graph.init \in V /\ V \in SUBSET State
  BY <1>1 DEF InitOnRecord
<1> HIDE DEF V
<1>4. ReachInit(graph, j) \subseteq V
  BY <1>2, <1>3 DEF ReachInit, Reach
<1>5. QED BY <1>4 DEF V

(***************************************************************************)
(* With at most one featured system, "Property satisfied" means that no    *)
(* valid product can drive the never claim to its end.                     *)
(***************************************************************************)
THEOREM SafetyCorrect == ASSUME OneSystem PROVE Spec => []SafetyDecided
<1>1. TypeOK /\ StackInv /\ CoverInv => SafetyDecided
  <2> SUFFICES ASSUME TypeOK, CoverInv, verdict = "satisfied", NEW j \in Runs(graph)
               PROVE  ~BadPrefix(graph, j)
    BY DEF SafetyDecided
  <2>1. visited \cap graph.end = {}
    BY DEF CoverInv, EndOnTop
  <2>2. QED BY <2>1, SatisfiedReach DEF BadPrefix
<1>2. QED BY <1>1, CoverShape, PTL

-----------------------------------------------------------------------------
(* The inner search follows the outer one. *)

InnerInv ==
  /\ WellFormed(graph)
  /\ InnerWithinOuter
  /\ \A t \in State \ visited : \A c \in Comp : innerFeatures[t][c] = {}
  /\ verdict = "searching" =>
       \A i \in 1 .. Len(stackInner) :
         /\ stackInner[i].s \in visited
         /\ \A c \in Comp : stackInner[i].f[c] \cap Valid \subseteq outerFeatures[stackInner[i].s][c]
         /\ i > 1 => stackInner[i].s \notin setElem

LEMMA AllRuns ==
  ASSUME OneSystem, WellFormed(graph)
  PROVE  Runs(graph) = Config
<1>1. Cardinality(Comp) <= 1
  <2>1. CASE Comp = {}
    BY <2>1, FS_EmptySet
  <2>2. CASE Comp # {}
    <3>1. PICK c : c \in Comp
      BY <2>2
    <3>2. Comp = {c}
      BY <3>1 DEF OneSystem
    <3>3. Cardinality({c}) = 1
      BY FS_Singleton, Zenon
    <3>4. QED BY <3>2, <3>3
  <2>3. QED BY <2>1, <2>2
<1>2. graph.initFeat = One
  BY <1>1 DEF WellFormed
<1>3. ASSUME NEW j \in Config
      PROVE  Has(graph.initFeat, j)
  <2>1. \A c \in Comp : j[c] \in Product
    BY ProductAssumption DEF Config
  <2>2. QED BY <1>2, <2>1 DEF Has, One
<1>4. QED BY <1>3 DEF Runs

\* One system has no constraint, so that some valid product meets it.
LEMMA SomeRun ==
  ASSUME OneSystem, WellFormed(graph)
  PROVE  Runs(graph) # {}
<1> DEFINE j == [c \in Comp |-> CHOOSE x \in Valid : TRUE]
<1>1. j \in Config
  BY ProductAssumption DEF Config
<1>2. QED BY <1>1, AllRuns

\* No transition of an inner element waits in the outer search: an inner
\* element is off the outer stack, or is the seed, all of whose transitions
\* have been fired.
LEMMA InnerNotWaiting ==
  ASSUME TypeOK, StackInv, InnerInv, Inner, NEW K, NEW t,
         CoveredBy(K, Top(stackInner).s, t)
  PROVE  t \in visited /\ \A j \in K : Has(outerFeatures[t], j)
<1>1. CASE Waits(stackOuter, K, Top(stackInner).s, t)
  <2>1. PICK i \in 1 .. Len(stackOuter) :
          stackOuter[i].s = Top(stackInner).s /\ stackOuter[i].post # {}
    BY <1>1 DEF Waits
  <2>2. /\ stackInner \in Seq(Element) /\ stackInner # <<>> /\ verdict = "searching"
        /\ stackOuter \in Seq(Element) /\ stackOuter # <<>> /\ Top(stackOuter).post = {}
        /\ stackInner[1].s = Top(stackOuter).s
    BY DEF Inner, TypeOK, StackInv, Seeded
  <2>3. Len(stackInner) \in Nat \ {0} /\ Len(stackOuter) \in Nat \ {0}
    BY <2>2, TopType
  <2>4. stackOuter[i].s \in setElem
    BY DEF StackInv, SetElemIsStack
  <2>5. /\ Len(stackInner) \in 1 .. Len(stackInner) /\ Len(stackOuter) \in 1 .. Len(stackOuter)
        /\ Len(stackInner) = 1 \/ Len(stackInner) > 1
    <3>1. \A n \in Nat \ {0} : n \in 1 .. n /\ (n = 1 \/ n > 1)
      OBVIOUS
    <3>2. QED BY <2>3, <3>1
  <2>6. ~(Len(stackInner) > 1)
    BY <2>1, <2>2, <2>4, <2>5 DEF InnerInv, Top
  <2>7. Top(stackInner).s = stackOuter[Len(stackOuter)].s
    BY <2>2, <2>5, <2>6 DEF Top
  <2>8. i = Len(stackOuter)
    BY <2>1, <2>5, <2>7 DEF StackInv, SetElemIsStack
  <2>9. QED BY <2>1, <2>2, <2>8 DEF Top
<1>2. QED BY <1>1 DEF CoveredBy

LEMMA InnerReached ==
  ASSUME OneSystem, TypeOK, StackInv, CoverInv, InnerInv, Inner,
         NEW x \in Top(stackInner).post
  PROVE  /\ x.s \in visited
         /\ \A c \in Comp : x.f[c] \cap Valid \subseteq outerFeatures[x.s][c]
<1>1. /\ stackInner \in Seq(Element) /\ stackInner # <<>> /\ verdict = "searching"
      /\ ProductsCovered /\ EdgesCovered
  BY DEF Inner, TypeOK, CoverInv
<1> DEFINE s == Top(stackInner).s
           f == Top(stackInner).f
<1>2. Len(stackInner) \in 1 .. Len(stackInner)
  BY <1>1, TopType
<1>3. s \in visited /\ \A c \in Comp : f[c] \cap Valid \subseteq outerFeatures[s][c]
  BY <1>1, <1>2 DEF InnerInv, Top
<1>4. x \in Post(graph, s, f)
  BY <1>1, TopPost DEF StackInv
<1>5. PICK e \in graph.edge : /\ e.src = s /\ Executable(e, f)
                              /\ x = [s |-> e.dst, f |-> And(f, e.feat)]
  BY <1>4 DEF Post
<1> HIDE DEF s, f
\* A valid product of f that takes the edge.
<1>6. ASSUME NEW j \in Config, Has(f, j), Has(e.feat, j)
      PROVE  x.s \in visited /\ Has(outerFeatures[x.s], j)
  <2>1. j \in Runs(graph)
    BY AllRuns DEF InnerInv
  <2>2. Has(outerFeatures[s], j)
    BY <1>3, <1>6 DEF Has, Config
  <2>3. x.s \in Succ(graph, j, s)
    BY <1>5, <1>6 DEF Succ
  <2>4. CoveredBy({j}, s, x.s)
    BY <1>1, <1>3, <2>1, <2>2, <2>3 DEF ProductsCovered
  <2>5. QED BY <2>4, InnerNotWaiting DEF s
<1>7. ASSUME NEW c \in Comp, NEW v \in f[c] \cap e.feat[c] \cap Valid
      PROVE  x.s \in visited /\ v \in outerFeatures[x.s][c]
  <2> DEFINE j == [d \in Comp |-> v]
  <2>1. j \in Config /\ j[c] = v
    BY DEF Config
  <2>2. Has(f, j) /\ Has(e.feat, j)
    BY DEF Has, OneSystem
  <2> HIDE DEF j
  <2>3. QED BY <1>6, <2>1, <2>2 DEF Has
<1>8. \A c \in Comp : x.f[c] \cap Valid \subseteq outerFeatures[x.s][c]
  BY <1>5, <1>7 DEF And
<1>9. CASE PlainEdge(e)
  <2>1. CoveredBy({}, s, x.s)
    BY <1>1, <1>3, <1>5, <1>9 DEF EdgesCovered
  <2>2. QED BY <1>8, <2>1, InnerNotWaiting DEF s
<1>10. CASE ~PlainEdge(e)
  <2>1. PICK c \in Comp : e.feat[c] # Product
    BY <1>10 DEF PlainEdge
  <2>2. Valid \cap f[c] \cap e.feat[c] # {}
    BY <1>5, <2>1 DEF Executable
  <2>3. QED BY <1>7, <1>8, <2>2
<1>11. QED BY <1>9, <1>10

LEMMA InitInner == NestedInit => InnerInv
BY GraphsAssumption DEF NestedInit, RelInit, Graph, InnerInv, InnerWithinOuter, Zero

LEMMA FrameInnerInv ==
  ASSUME TypeOK, InnerInv,
         UNCHANGED <<graph, visited, outerFeatures, innerFeatures>>, verdict' # "bug",
         verdict' = "searching" =>
           \/ stackInner' = <<>>
           \/ UNCHANGED <<stackInner, setElem, verdict>>
  PROVE  InnerInv'
BY DEF InnerInv, InnerWithinOuter

LEMMA InnerPushInner ==
  ASSUME OneSystem, TypeOK, StackInv, CoverInv, InnerInv, Inner,
         NEW x \in Top(stackInner).post, InnerPush(x)
  PROVE  InnerInv'
<1> DEFINE e == NewElement(x.s, Narrowed(x.s, x.f))
<1>1. /\ stackInner \in Seq(Element) /\ stackInner # <<>> /\ dfsIn = "inner" /\ verdict = "searching"
  BY DEF Inner, TypeOK
<1>2. x.s \in visited /\ \A c \in Comp : x.f[c] \cap Valid \subseteq outerFeatures[x.s][c]
  BY InnerReached
<1>3. /\ x.s \in State /\ x.f \in Feat /\ e \in Element /\ Within(Narrowed(x.s, x.f), x.f)
  BY <1>1, PushType, NarrowedType DEF TypeOK
<1>4. /\ stackInner' = Append(Take(stackInner, x), e) /\ Update(x.s, x.f)
      /\ UNCHANGED <<graph, stackOuter, setElem, verdict>> /\ x.s \notin setElem
  BY <1>2 DEF InnerPush
<1>5. visited' = visited /\ outerFeatures' = outerFeatures
  BY <1>1, <1>2, <1>3, <1>4, UpdateGrows
<1>6. /\ innerFeatures' = [innerFeatures EXCEPT ![x.s] = Or(innerFeatures[x.s], x.f)]
      /\ innerFeatures \in [State -> Feat] /\ visited \subseteq State
  BY <1>1, <1>2, <1>4 DEF Update, TypeOK, RelTypeOK
<1>7. \A s \in State, c \in Comp : innerFeatures'[s][c] \cap Valid \subseteq outerFeatures'[s][c]
  <2>1. \A s \in State, c \in Comp : innerFeatures[s][c] \cap Valid \subseteq outerFeatures[s][c]
    BY DEF InnerInv, InnerWithinOuter
  <2>2. \A s \in State : s # x.s => innerFeatures'[s] = innerFeatures[s]
    BY <1>6
  <2>3. \A c \in Comp : innerFeatures'[x.s][c] = innerFeatures[x.s][c] \cup x.f[c]
    BY <1>3, <1>6 DEF Or
  <2>4. QED BY <1>2, <1>3, <1>5, <2>1, <2>2, <2>3
<1>8. \A t \in State \ visited' : \A c \in Comp : innerFeatures'[t][c] = {}
  BY <1>2, <1>5, <1>6 DEF InnerInv
<1>9. e.s = x.s /\ e.f = Narrowed(x.s, x.f)
  BY DEF NewElement
<1>10. Len(stackInner) \in Nat \ {0}
  BY <1>1, TopType
<1>11. /\ Len(stackInner') = Len(stackInner) + 1
       /\ stackInner'[Len(stackInner) + 1] = e
       /\ \A i \in 1 .. Len(stackInner) : /\ stackInner'[i].s = stackInner[i].s
                                          /\ stackInner'[i].f = stackInner[i].f
  <2>1. stackInner' = Append(Take(stackInner, x), e)
    BY <1>4
  <2> HIDE DEF e
  <2>2. QED BY <1>1, <1>3, <1>10, <2>1, PushShape
<1> HIDE DEF e
<1>12. ASSUME NEW i \in 1 .. Len(stackInner')
       PROVE  /\ stackInner'[i].s \in visited
              /\ \A c \in Comp : stackInner'[i].f[c] \cap Valid
                                   \subseteq outerFeatures[stackInner'[i].s][c]
              /\ i > 1 => stackInner'[i].s \notin setElem
  <2>1. i \in 1 .. Len(stackInner) \/ i = Len(stackInner) + 1
    BY <1>10, <1>11, LastOrBelow
  <2>2. CASE i \in 1 .. Len(stackInner)
    BY <1>1, <1>11, <2>2 DEF InnerInv
  <2>3. CASE i = Len(stackInner) + 1
    <3>1. stackInner'[i].s = x.s /\ stackInner'[i].f = Narrowed(x.s, x.f)
      BY <1>9, <1>11, <2>3
    <3>2. \A c \in Comp : Narrowed(x.s, x.f)[c] \cap Valid \subseteq outerFeatures[x.s][c]
      BY <1>2, <1>3 DEF Within
    <3>3. QED BY <1>2, <1>4, <3>1, <3>2
  <2>4. QED BY <2>1, <2>2, <2>3
<1>13. InnerWithinOuter' /\ WellFormed(graph)'
  BY <1>1, <1>4, <1>7 DEF InnerWithinOuter, InnerInv
<1>14. QED BY <1>4, <1>5, <1>8, <1>12, <1>13 DEF InnerInv

LEMMA OuterPushInner ==
  ASSUME TypeOK, StackInv, InnerInv, Outer, NEW x \in Top(stackOuter).post, OuterPush(x)
  PROVE  InnerInv'
<1>1. /\ stackOuter \in Seq(Element) /\ stackOuter # <<>> /\ dfsIn = "outer"
      /\ stackInner = <<>> /\ verdict = "searching"
  BY DEF Outer, TypeOK, StackInv, Seeded
<1>2. /\ Update(x.s, x.f) /\ UNCHANGED <<graph, stackInner, verdict>>
      /\ x.s \in State /\ x.f \in Feat
  BY <1>1, PushType DEF OuterPush
<1>3. /\ visited' = visited \cup {x.s}
      /\ \A t \in visited : Within(outerFeatures[t], outerFeatures'[t])
  BY <1>2, UpdateGrows
<1>4. innerFeatures' = innerFeatures
  BY <1>1, <1>2 DEF Update
<1>5. InnerWithinOuter'
  <2> SUFFICES ASSUME NEW s \in State, NEW c \in Comp
               PROVE  innerFeatures[s][c] \cap Valid \subseteq outerFeatures'[s][c]
    BY <1>1, <1>2, <1>4 DEF InnerWithinOuter
  <2>1. CASE s \in visited
    BY <1>3, <2>1 DEF InnerInv, InnerWithinOuter, Within
  <2>2. CASE s \notin visited
    BY <2>2 DEF InnerInv
  <2>3. QED BY <2>1, <2>2
<1>6. QED BY <1>1, <1>2, <1>3, <1>4, <1>5 DEF InnerInv

LEMMA NextInner ==
  ASSUME OneSystem, TypeOK, StackInv, CoverInv, InnerInv, [Next]_vars
  PROVE  InnerInv'
<1>1. CASE OuterDeadlock \/ InnerDeadlock
  BY <1>1, FrameInnerInv DEF OuterDeadlock, InnerDeadlock, Abort, relVars
<1>2. ASSUME NEW f, NEW t, NEW outcomes, Violation(f, t, outcomes), "bug" \notin outcomes
      PROVE  InnerInv'
  <2>1. CASE Chargeable(f)
    BY <1>2, <2>1, FrameInnerInv DEF Violation
  <2>2. CASE ~Chargeable(f)
    BY <1>2, <2>2, FrameInnerInv DEF Violation, relVars
  <2>3. QED BY <2>1, <2>2
<1>3. CASE OuterSafety
  <2> DEFINE outcomes == {"violated"} \cup IF Len(stackOuter) < 3 THEN {"undefined"} ELSE {}
  <2>1. \E f, t : Violation(f, t, outcomes)
    BY <1>3 DEF OuterSafety
  <2>2. "bug" \notin outcomes
    OBVIOUS
  <2> HIDE DEF outcomes
  <2>3. QED BY <1>2, <2>1, <2>2
<1>4. CASE OuterStep
  <2>1. Outer
    BY <1>4 DEF OuterStep, OuterExplore
  <2>2. PICK x \in Top(stackOuter).post : OuterStop(x) \/ OuterPush(x)
    BY <1>4 DEF OuterStep
  <2>3. CASE OuterStop(x)
    BY <2>1, <2>3, FrameInnerInv DEF OuterStop, relVars, Outer
  <2>4. QED BY <2>1, <2>2, <2>3, OuterPushInner
<1>5. CASE OuterSeed
  <2> DEFINE e == NewElement(Top(stackOuter).s, Top(stackOuter).f)
  <2>1. /\ stackOuter # <<>> /\ stackOuter \in Seq(Element) /\ stackInner' = <<e>>
        /\ UNCHANGED <<graph, visited, outerFeatures, innerFeatures, setElem, verdict>>
    BY <1>5 DEF OuterSeed, OuterExplore, Outer, TypeOK
  <2>2. Len(stackOuter) \in 1 .. Len(stackOuter)
    BY <2>1, TopType
  <2>3. /\ Top(stackOuter).s \in visited
        /\ Within(Top(stackOuter).f, outerFeatures[Top(stackOuter).s])
    BY <2>2 DEF StackInv, OnRecord, Top
  <2>4. e.s = Top(stackOuter).s /\ e.f = Top(stackOuter).f
    BY DEF NewElement
  <2> HIDE DEF e
  <2>5. Len(stackInner') = 1 /\ stackInner'[1] = e /\ \A i \in 1 .. 1 : i = 1
    BY <2>1
  <2>6. QED BY <2>1, <2>3, <2>4, <2>5 DEF InnerInv, InnerWithinOuter, Within
<1>6. CASE OuterBacktrack
  <2>1. stackInner' = <<>> /\ UNCHANGED <<relVars, graph, verdict>> /\ verdict = "searching"
    BY <1>6 DEF OuterBacktrack, OuterExplore, Outer, StackInv, Seeded
  <2>2. QED BY <2>1, FrameInnerInv DEF relVars
<1>7. CASE OuterSatisfied
  BY <1>7, FrameInnerInv DEF OuterSatisfied, relVars
<1>8. CASE InnerBacktrack
  <2>1. /\ stackInner \in Seq(Element) /\ stackInner # <<>> /\ stackInner' = Pop(stackInner)
        /\ UNCHANGED <<relVars, graph, setElem, verdict>> /\ verdict = "searching"
    BY <1>8 DEF InnerBacktrack, Inner, TypeOK
  <2>2. /\ Len(stackInner) \in Nat \ {0} /\ Len(stackInner') = Len(stackInner) - 1
        /\ \A i \in 1 .. Len(stackInner') : stackInner'[i] = stackInner[i]
    BY <2>1, PopType, TopType
  <2>3. \A i \in 1 .. Len(stackInner') : i \in 1 .. Len(stackInner)
    BY <2>2
  <2>4. QED BY <2>1, <2>2, <2>3 DEF InnerInv, InnerWithinOuter, relVars
<1>9. CASE InnerStep
  <2>1. Inner /\ stackInner \in Seq(Element) /\ stackInner # <<>>
    BY <1>9 DEF InnerStep, Inner, TypeOK
  <2>2. PICK x \in Top(stackInner).post : InnerCloses(x) \/ InnerStop(x) \/ InnerPush(x)
    BY <1>9 DEF InnerStep
  <2>3. CASE InnerCloses(x)
    <3>1. "bug" \notin {"violated"}
      OBVIOUS
    <3>2. \E f, t : Violation(f, t, {"violated"})
      BY <2>3 DEF InnerCloses
    <3>3. QED BY <1>2, <3>1, <3>2
  <2>4. CASE InnerStop(x)
    <3>1. /\ stackInner' = Take(stackInner, x)
          /\ UNCHANGED <<relVars, graph, setElem, verdict>>
      BY <2>4 DEF InnerStop
    <3>2. /\ Len(stackInner') = Len(stackInner)
          /\ \A i \in 1 .. Len(stackInner) : /\ stackInner'[i].s = stackInner[i].s
                                             /\ stackInner'[i].f = stackInner[i].f
      BY <2>1, <3>1, TakeType
    <3>3. QED BY <3>1, <3>2 DEF InnerInv, InnerWithinOuter, relVars
  <2>5. QED BY <2>1, <2>2, <2>3, <2>4, InnerPushInner
<1>10. CASE InnerReturn
  <2>1. /\ stackInner' = <<>> /\ verdict = "searching"
        /\ UNCHANGED <<graph, visited, outerFeatures, innerFeatures, verdict>>
    BY <1>10 DEF InnerReturn
  <2>2. QED BY <2>1, FrameInnerInv
<1>11. CASE UNCHANGED vars
  <2>1. verdict # "bug"
    BY DEF InnerInv, InnerWithinOuter
  <2>2. QED BY <1>11, <2>1, FrameInnerInv DEF vars, relVars, searchVars
<1>12. QED BY <1>1, <1>3, <1>4, <1>5, <1>6, <1>7, <1>8, <1>9, <1>10, <1>11 DEF Next

(***************************************************************************)
(* With at most one featured system the inner search stays where the outer *)
(* search has been with the same valid products, and the branch "Bug! The  *)
(* above state was found during the inner DFS but not during the outer!"   *)
(* is dead.                                                                *)
(***************************************************************************)
THEOREM InnerCorrect == ASSUME OneSystem PROVE Spec => []InnerWithinOuter
<1>1. NestedInit => TypeOK /\ StackInv /\ CoverInv /\ InnerInv
  BY InitType, InitStack, InitCover, InitInner
<1>2. TypeOK /\ StackInv /\ CoverInv /\ InnerInv /\ [Next]_vars
        => (TypeOK /\ StackInv /\ CoverInv /\ InnerInv)'
  BY NextType, NextStack, NextCover, NextInner
<1>3. InnerInv => InnerWithinOuter
  BY DEF InnerInv
<1>4. QED BY <1>1, <1>2, <1>3, PTL DEF Spec

-----------------------------------------------------------------------------
(* No work is done twice. *)

FreshIsEmpty == \A t \in State \ visited : \A c \in Comp : outerFeatures[t][c] = {}

LEMMA NextFresh ==
  ASSUME TypeOK, FreshIsEmpty, [Next]_vars
  PROVE  FreshIsEmpty'
<1>1. /\ outerFeatures \in [State -> Feat] /\ visited \subseteq State
  BY DEF TypeOK, RelTypeOK
<1>2. ASSUME NEW s, NEW f, Update(s, f)
      PROVE  FreshIsEmpty'
  BY <1>1, <1>2 DEF Update, FreshIsEmpty
<1>3. CASE UNCHANGED <<visited, outerFeatures>>
  BY <1>3 DEF FreshIsEmpty
<1>4. ASSUME NEW f, NEW t, NEW outcomes, Violation(f, t, outcomes)
      PROVE  UNCHANGED <<visited, outerFeatures>>
  BY <1>4 DEF Violation, relVars
<1>5. CASE OuterSafety
  BY <1>3, <1>4, <1>5 DEF OuterSafety
<1>6. CASE OuterStep
  <2>1. PICK x : OuterStop(x) \/ OuterPush(x)
    BY <1>6 DEF OuterStep
  <2>2. CASE OuterStop(x)
    BY <1>3, <2>2 DEF OuterStop, relVars
  <2>3. CASE OuterPush(x)
    BY <1>2, <2>3 DEF OuterPush
  <2>4. QED BY <2>1, <2>2, <2>3
<1>7. CASE InnerStep
  <2>1. PICK x : InnerCloses(x) \/ InnerStop(x) \/ InnerPush(x)
    BY <1>7 DEF InnerStep
  <2>2. CASE InnerCloses(x)
    BY <1>3, <1>4, <2>2 DEF InnerCloses
  <2>3. CASE InnerStop(x)
    BY <1>3, <2>3 DEF InnerStop, relVars
  <2>4. CASE InnerPush(x)
    BY <1>2, <1>3, <2>4 DEF InnerPush, Abort, relVars
  <2>5. QED BY <2>1, <2>2, <2>3, <2>4
<1>8. CASE OuterDeadlock \/ InnerDeadlock
  BY <1>3, <1>8 DEF OuterDeadlock, InnerDeadlock, Abort, relVars
<1>9. CASE OuterSeed \/ OuterBacktrack \/ OuterSatisfied \/ InnerBacktrack \/ InnerReturn
  BY <1>3, <1>9 DEF OuterSeed, OuterBacktrack, OuterSatisfied, InnerBacktrack, InnerReturn, relVars
<1>10. CASE UNCHANGED vars
  BY <1>3, <1>10 DEF vars, relVars
<1>11. QED BY <1>5, <1>6, <1>7, <1>8, <1>9, <1>10 DEF Next

\* A pushed element carries only products that are new to its state.
LEMMA PushIsNew ==
  ASSUME OneSystem, TypeOK, FreshIsEmpty, Outer, NEW x \in Top(stackOuter).post, OuterPush(x)
  PROVE  \A c \in Comp : Top(stackOuter').f[c] \cap outerFeatures[Top(stackOuter').s][c] = {}
<1> DEFINE e == NewElement(x.s, Narrowed(x.s, x.f))
<1>1. stackOuter \in Seq(Element) /\ stackOuter # <<>> /\ dfsIn = "outer"
  BY DEF Outer, TypeOK
<1>2. x.s \in State /\ x.f \in Feat /\ e \in Element
  BY <1>1, PushType
<1>3. e.s = x.s /\ e.f = Narrowed(x.s, x.f)
  BY DEF NewElement
<1>4. Top(stackOuter') = e
  <2>1. stackOuter' = Append(Take(stackOuter, x), e)
    BY DEF OuterPush
  <2> HIDE DEF e
  <2>2. Take(stackOuter, x) \in Seq(Element)
    BY <1>1, TakeType
  <2>3. /\ Len(stackOuter') = Len(Take(stackOuter, x)) + 1
        /\ stackOuter'[Len(Take(stackOuter, x)) + 1] = e
    BY <1>2, <2>1, <2>2, AppendProperties
  <2>4. QED BY <2>3 DEF Top
<1> HIDE DEF e
<1>5. \A c \in Comp : Narrowed(x.s, x.f)[c] \cap outerFeatures[x.s][c] = {}
  <2>1. CASE x.s \notin visited
    BY <1>2, <2>1 DEF FreshIsEmpty
  <2>2. CASE x.s \in visited
    <3>1. Known(x.s) = outerFeatures[x.s]
      BY <1>1 DEF Known
    <3>2. ~Within(x.f, outerFeatures[x.s])
      BY <2>2, <3>1 DEF OuterPush, Status
    <3>3. \A c \in Comp : ~(x.f[c] \subseteq outerFeatures[x.s][c])
      BY <3>2 DEF Within, OneSystem
    <3>4. \A c \in Comp : Narrowed(x.s, x.f)[c] = x.f[c] \ outerFeatures[x.s][c]
      BY <2>2, <3>1, <3>3 DEF Narrowed
    <3>5. QED BY <3>4
  <2>3. QED BY <2>1, <2>2
<1>6. QED BY <1>3, <1>4, <1>5

\* Only OuterPush makes the outer stack grow.
LEMMA GrowsByPush ==
  ASSUME TypeOK, StackInv, [Next]_vars, Len(stackOuter') > Len(stackOuter)
  PROVE  Outer /\ \E x \in Top(stackOuter).post : OuterPush(x)
<1>1. stackOuter \in Seq(Element) /\ Len(stackOuter) \in Nat
  BY LenProperties DEF TypeOK
<1>2. stackOuter' # stackOuter
  BY <1>1
<1>3. stackOuter' # <<>>
  <2>1. Len(<<>>) = 0
    OBVIOUS
  <2>2. QED BY <1>1, <2>1
<1>4. ~(stackOuter # <<>> /\ PopOuter)
  <2>1. CASE stackOuter # <<>> /\ PopOuter
    <3>1. Len(stackOuter') = Len(stackOuter) - 1
      BY <1>1, <2>1, PopType DEF PopOuter
    <3>2. QED BY <1>1, <3>1
  <2>2. QED BY <2>1
<1>5. ASSUME NEW f, NEW t, NEW outcomes, Violation(f, t, outcomes)
      PROVE  FALSE
  BY <1>2, <1>3, <1>5 DEF Violation, searchVars
<1>6. ~OuterSafety
  BY <1>5 DEF OuterSafety
<1>7. ~InnerStep
  <2> SUFFICES ASSUME NEW x, InnerCloses(x) \/ InnerStop(x) \/ InnerPush(x)
               PROVE  FALSE
    BY DEF InnerStep
  <2>1. ~InnerCloses(x)
    BY <1>5 DEF InnerCloses
  <2>2. ~InnerStop(x) /\ ~InnerPush(x)
    BY <1>2 DEF InnerStop, InnerPush, Abort, searchVars
  <2>3. QED BY <2>1, <2>2
<1>8. ~OuterBacktrack /\ ~InnerReturn
  BY <1>4 DEF OuterBacktrack, OuterExplore, Outer, InnerReturn, StackInv, Seeded
<1>9. /\ ~OuterDeadlock /\ ~InnerDeadlock /\ ~OuterSatisfied /\ ~OuterSeed
      /\ ~InnerBacktrack /\ ~UNCHANGED vars
  BY <1>2 DEF OuterDeadlock, InnerDeadlock, Abort, OuterSatisfied, OuterSeed,
              InnerBacktrack, searchVars, vars
<1>10. OuterStep
  BY <1>6, <1>7, <1>8, <1>9 DEF Next
<1>11. PICK x \in Top(stackOuter).post : OuterStop(x) \/ OuterPush(x)
  BY <1>10 DEF OuterStep
<1>12. Outer
  BY <1>10 DEF OuterStep, OuterExplore
<1>13. ~OuterStop(x)
  <2>1. CASE OuterStop(x)
    <3>1. Len(stackOuter') = Len(stackOuter)
      BY <1>1, <1>12, <2>1, TakeType DEF OuterStop, Outer
    <3>2. QED BY <1>1, <3>1
  <2>2. QED BY <2>1
<1>14. QED BY <1>11, <1>12, <1>13

(***************************************************************************)
(* With at most one featured system the outer search explores a state at   *)
(* most once for each product.                                             *)
(***************************************************************************)
THEOREM ExploredOnceCorrect == ASSUME OneSystem PROVE Spec => ExploredOnce
<1> DEFINE A == Len(stackOuter') > Len(stackOuter) =>
                  \A c \in Comp : Top(stackOuter').f[c]
                                  \cap outerFeatures[Top(stackOuter').s][c] = {}
<1>1. NestedInit => TypeOK /\ StackInv /\ FreshIsEmpty
  <2>1. NestedInit => FreshIsEmpty
    BY DEF NestedInit, RelInit, FreshIsEmpty, Zero
  <2>2. QED BY <2>1, InitType, InitStack
<1>2. TypeOK /\ StackInv /\ FreshIsEmpty /\ [Next]_vars => (TypeOK /\ StackInv /\ FreshIsEmpty)'
  BY NextType, NextStack, NextFresh
<1>3. TypeOK /\ StackInv /\ FreshIsEmpty /\ [Next]_vars => [A]_vars
  BY GrowsByPush, PushIsNew
<1> HIDE DEF A
<1>4. Spec => [][A]_vars
  BY <1>1, <1>2, <1>3, PTL DEF Spec
<1>5. QED BY <1>4 DEF ExploredOnce, A

-----------------------------------------------------------------------------
(***************************************************************************)
(* No acceptance cycle is missed.  What the inner searches have on record  *)
(* for a product is closed under its transitions, but for those that wait  *)
(* on the inner stack, and holds no state of the outer stack: an inner     *)
(* search that met one would have closed a cycle.  So when the search of a *)
(* seed returns, its successors lie in a closed set the seed is not in.    *)
(***************************************************************************)
MarkedBy(j, s, t) == Has(innerFeatures[t], j) \/ Waits(stackInner, {j}, s, t)

MarksCovered ==
  \A j \in Config : \A s \in State :
    Has(innerFeatures[s], j) => \A t \in Succ(graph, j, s) : MarkedBy(j, s, t)

MarksOffStack ==
  \A j \in Config : \A i \in 1 .. Len(stackOuter) :
    Has(stackOuter[i].f, j) => ~Has(innerFeatures[stackOuter[i].s], j)

SeedCovered ==
  dfsIn = "inner" =>
    \A j \in Config : Has(Top(stackOuter).f, j) =>
      \A t \in Succ(graph, j, Top(stackOuter).s) : MarkedBy(j, Top(stackOuter).s, t)

NoCycle(j, s) == s \notin Reach(graph, j, Succ(graph, j, s))

\* The element that explores s for j is on the outer stack.
Unfinished(j, s) ==
  \E i \in 1 .. Len(stackOuter) : stackOuter[i].s = s /\ Has(stackOuter[i].f, j)

CyclesSought ==
  \A j \in Config : \A s \in visited \cap graph.accepting :
    Has(outerFeatures[s], j) => NoCycle(j, s) \/ Unfinished(j, s)

CycleInv ==
  /\ verdict = "searching" => MarksCovered /\ MarksOffStack /\ SeedCovered
  /\ verdict \in {"searching", "satisfied"} => CyclesSought

LEMMA SuccType ==
  ASSUME NEW g \in Graph, NEW j, NEW s
  PROVE  Succ(g, j, s) \subseteq State
BY DEF Succ, Graph, Edge

\* Without a transition that waits, the marks of a product cut off the seed.
LEMMA SeedNoCycle ==
  ASSUME TypeOK, MarksCovered, MarksOffStack, SeedCovered, dfsIn = "inner",
         stackInner = <<>>, stackOuter # <<>>, NEW j \in Config, Has(Top(stackOuter).f, j)
  PROVE  NoCycle(j, Top(stackOuter).s)
<1> DEFINE s == Top(stackOuter).s
           M == {t \in State : Has(innerFeatures[t], j)}
<1>1. \A u, t : MarkedBy(j, u, t) => Has(innerFeatures[t], j)
  BY DEF MarkedBy, Waits
<1>2. graph \in Graph
  BY DEF TypeOK
<1>3. Closed(graph, j, M)
  BY <1>1, <1>2, SuccType DEF MarksCovered, Closed
<1>4. Succ(graph, j, s) \subseteq M
  BY <1>1, <1>2, SuccType DEF SeedCovered
<1>5. s \notin M
  <2>1. Len(stackOuter) \in 1 .. Len(stackOuter)
    BY TopType DEF TypeOK
  <2>2. QED BY <2>1 DEF MarksOffStack, Top
<1>6. M \in SUBSET State
  OBVIOUS
<1> HIDE DEF M, s
<1>7. QED BY <1>3, <1>4, <1>5, <1>6 DEF NoCycle, Reach, s

\* A step that leaves the records and the elements of the outer stack alone.
LEMMA FrameCycle ==
  ASSUME CycleInv, UNCHANGED <<graph, visited, outerFeatures>>,
         verdict \in {"searching", "satisfied"},
         Len(stackOuter') = Len(stackOuter),
         \A i \in 1 .. Len(stackOuter) : /\ stackOuter'[i].s = stackOuter[i].s
                                         /\ stackOuter'[i].f = stackOuter[i].f
  PROVE  /\ CyclesSought'
         /\ (verdict = "searching" /\ innerFeatures' = innerFeatures) => MarksOffStack'
<1>1. CyclesSought'
  BY DEF CycleInv, CyclesSought, NoCycle, Unfinished
<1>2. ASSUME verdict = "searching", innerFeatures' = innerFeatures
      PROVE  MarksOffStack'
  BY <1>2 DEF CycleInv, MarksOffStack
<1>3. QED BY <1>1, <1>2

LEMMA EndsCycle ==
  ASSUME CycleInv, verdict' \notin {"searching", "satisfied"}
  PROVE  CycleInv'
BY DEF CycleInv

LEMMA SameCycle ==
  ASSUME CycleInv, UNCHANGED <<graph, visited, outerFeatures, innerFeatures, dfsIn,
                               stackOuter, stackInner, verdict>>
  PROVE  CycleInv'
<1>1. verdict = "searching" => (MarksCovered /\ MarksOffStack /\ SeedCovered)'
  BY DEF CycleInv, MarksCovered, MarksOffStack, SeedCovered, MarkedBy, Waits
<1>2. verdict \in {"searching", "satisfied"} => CyclesSought'
  BY DEF CycleInv, CyclesSought, NoCycle, Unfinished
<1>3. QED BY <1>1, <1>2 DEF CycleInv

LEMMA InitCycle == ASSUME Comp # {} PROVE NestedInit => CycleInv
<1> SUFFICES ASSUME NestedInit PROVE CycleInv
  OBVIOUS
<1> DEFINE e == NewElement(graph.init, graph.initFeat)
<1>1. /\ visited = {graph.init} /\ graph \in Graph
      /\ outerFeatures[graph.init] = graph.initFeat
      /\ \A s \in State : innerFeatures[s] = Zero
      /\ dfsIn = "outer" /\ stackOuter = <<e>>
  BY GraphsAssumption DEF NestedInit, RelInit, Graph
<1>2. \A j : ~Has(Zero, j)
  BY DEF Has, Zero
<1>3. MarksCovered /\ SeedCovered
  BY <1>1, <1>2 DEF MarksCovered, SeedCovered
<1>4. e.s = graph.init /\ e.f = graph.initFeat
  BY DEF NewElement
<1> HIDE DEF e
<1>5. Len(stackOuter) = 1 /\ stackOuter[1] = e /\ 1 \in 1 .. 1 /\ \A i \in 1 .. 1 : i = 1
  BY <1>1
<1>6. graph.init \in State
  BY <1>1 DEF Graph
<1>7. MarksOffStack
  BY <1>1, <1>2, <1>4, <1>5, <1>6 DEF MarksOffStack
<1>8. CyclesSought
  BY <1>1, <1>4, <1>5 DEF CyclesSought, Unfinished
<1>9. QED BY <1>3, <1>7, <1>8 DEF CycleInv

LEMMA PopOuterCycle ==
  ASSUME TypeOK, CycleInv, verdict = "searching", stackOuter # <<>>, PopOuter,
         UNCHANGED <<graph, visited, outerFeatures, innerFeatures>>,
         \A j \in Config :
           Has(Top(stackOuter).f, j) /\ Top(stackOuter).s \in graph.accepting
             => NoCycle(j, Top(stackOuter).s)
  PROVE  CyclesSought' /\ MarksOffStack'
<1>1. stackOuter \in Seq(Element) /\ stackOuter' = Pop(stackOuter)
  BY DEF TypeOK, PopOuter
<1>2. /\ Len(stackOuter) \in Nat \ {0} /\ Len(stackOuter') = Len(stackOuter) - 1
      /\ \A i \in 1 .. Len(stackOuter') : stackOuter'[i] = stackOuter[i]
  BY <1>1, PopType, TopType
<1>3. \A i \in 1 .. Len(stackOuter') : i \in 1 .. Len(stackOuter)
  BY <1>2
<1>4. MarksOffStack'
  BY <1>2, <1>3 DEF CycleInv, MarksOffStack
<1>5. CyclesSought'
  <2> SUFFICES ASSUME NEW j \in Config, NEW s \in visited \cap graph.accepting,
                      Has(outerFeatures[s], j), ~NoCycle(j, s)
               PROVE  Unfinished(j, s)'
    BY DEF CyclesSought, NoCycle
  <2>1. PICK i \in 1 .. Len(stackOuter) : stackOuter[i].s = s /\ Has(stackOuter[i].f, j)
    BY DEF CycleInv, CyclesSought, Unfinished
  <2>2. i # Len(stackOuter)
    BY <2>1 DEF Top
  <2>3. i \in 1 .. Len(stackOuter')
    BY <1>2, <2>2
  <2>4. QED BY <1>2, <2>1, <2>3 DEF Unfinished
<1>6. QED BY <1>4, <1>5

LEMMA OuterBacktrackCycle ==
  ASSUME TypeOK, StackInv, CycleInv, OuterBacktrack
  PROVE  CycleInv'
<1>1. /\ verdict = "searching" /\ dfsIn = "outer" /\ stackOuter # <<>> /\ PopOuter
      /\ UNCHANGED <<graph, visited, outerFeatures, innerFeatures, dfsIn, stackInner, verdict>>
      /\ Top(stackOuter).s \notin graph.accepting
  BY DEF OuterBacktrack, OuterExplore, Outer, relVars
<1>2. CyclesSought' /\ MarksOffStack'
  BY <1>1, PopOuterCycle
<1>3. MarksCovered' /\ SeedCovered'
  BY <1>1 DEF CycleInv, MarksCovered, SeedCovered, MarkedBy, Waits
<1>4. QED BY <1>2, <1>3 DEF CycleInv

LEMMA InnerReturnCycle ==
  ASSUME TypeOK, StackInv, CycleInv, InnerReturn
  PROVE  CycleInv'
<1>1. /\ verdict = "searching" /\ dfsIn = "inner" /\ stackInner = <<>> /\ PopOuter
      /\ dfsIn' = "outer" /\ stackOuter # <<>>
      /\ UNCHANGED <<graph, visited, outerFeatures, innerFeatures, stackInner, verdict>>
  BY DEF InnerReturn, SetDFS, StackInv, Seeded
<1>2. \A j \in Config : Has(Top(stackOuter).f, j) => NoCycle(j, Top(stackOuter).s)
  BY <1>1, SeedNoCycle DEF CycleInv
<1>3. CyclesSought' /\ MarksOffStack'
  BY <1>1, <1>2, PopOuterCycle
<1>4. MarksCovered' /\ SeedCovered'
  BY <1>1 DEF CycleInv, MarksCovered, SeedCovered, MarkedBy, Waits
<1>5. QED BY <1>3, <1>4 DEF CycleInv

LEMMA OuterStopCycle ==
  ASSUME TypeOK, CycleInv, Outer, NEW x \in Top(stackOuter).post, OuterStop(x)
  PROVE  CycleInv'
<1>1. /\ verdict = "searching" /\ dfsIn = "outer" /\ stackOuter # <<>>
      /\ stackOuter \in Seq(Element) /\ stackOuter' = Take(stackOuter, x)
      /\ UNCHANGED <<graph, visited, outerFeatures, innerFeatures, dfsIn, stackInner, verdict>>
  BY DEF OuterStop, Outer, relVars, TypeOK
<1>2. /\ Len(stackOuter') = Len(stackOuter)
      /\ \A i \in 1 .. Len(stackOuter) : /\ stackOuter'[i].s = stackOuter[i].s
                                         /\ stackOuter'[i].f = stackOuter[i].f
  BY <1>1, TakeType
<1>3. CyclesSought' /\ MarksOffStack'
  BY <1>1, <1>2, FrameCycle
<1>4. MarksCovered' /\ SeedCovered'
  BY <1>1 DEF CycleInv, MarksCovered, SeedCovered, MarkedBy, Waits
<1>5. QED BY <1>3, <1>4 DEF CycleInv

LEMMA OuterPushCycle ==
  ASSUME OneSystem, Comp # {}, TypeOK, StackInv, InnerInv, FreshIsEmpty, CycleInv, Outer,
         NEW x \in Top(stackOuter).post, OuterPush(x)
  PROVE  CycleInv'
<1> DEFINE e == NewElement(x.s, Narrowed(x.s, x.f))
<1>1. /\ verdict = "searching" /\ dfsIn = "outer" /\ stackOuter # <<>>
      /\ stackOuter \in Seq(Element) /\ stackInner = <<>>
  BY DEF Outer, TypeOK, StackInv, Seeded
<1>2. /\ stackOuter' = Append(Take(stackOuter, x), e) /\ Update(x.s, x.f)
      /\ UNCHANGED <<graph, stackInner, verdict>>
  BY DEF OuterPush
<1>3. x.s \in State /\ x.f \in Feat /\ e \in Element
  BY <1>1, PushType
<1>4. /\ visited' = visited \cup {x.s} /\ dfsIn' = dfsIn /\ innerFeatures' = innerFeatures
      /\ \A u \in visited \ {x.s} : outerFeatures'[u] = outerFeatures[u]
  BY <1>1, <1>2, <1>3 DEF Update, TypeOK, RelTypeOK
<1>5. e.s = x.s /\ e.f = Narrowed(x.s, x.f)
  BY DEF NewElement
<1> HIDE DEF e
<1>6. Len(stackOuter) \in Nat \ {0}
  BY <1>1, TopType
<1>7. /\ Len(stackOuter') = Len(stackOuter) + 1 /\ stackOuter'[Len(stackOuter) + 1] = e
      /\ \A i \in 1 .. Len(stackOuter) : /\ stackOuter'[i].s = stackOuter[i].s
                                         /\ stackOuter'[i].f = stackOuter[i].f
  BY <1>1, <1>2, <1>3, <1>6, PushShape
<1>8. \A i \in 1 .. Len(stackOuter') : i \in 1 .. Len(stackOuter) \/ i = Len(stackOuter) + 1
  BY <1>6, <1>7
<1>9. MarksCovered' /\ SeedCovered'
  BY <1>1, <1>2, <1>4 DEF CycleInv, MarksCovered, SeedCovered, MarkedBy, Waits
\* A product of the new element is new to its state, and so not marked there.
<1>10. ASSUME NEW j \in Config, Has(e.f, j)
       PROVE  ~Has(innerFeatures[x.s], j)
  <2>1. Top(stackOuter') = e
    BY <1>6, <1>7 DEF Top
  <2>2. PICK c : c \in Comp
    OBVIOUS
  <2>3. j[c] \notin outerFeatures[x.s][c]
    BY <1>5, <1>10, <2>1, <2>2, PushIsNew DEF Has
  <2>4. j[c] \in Valid
    BY <2>2 DEF Config
  <2>5. QED BY <1>3, <2>2, <2>3, <2>4 DEF Has, InnerInv, InnerWithinOuter
<1>11. MarksOffStack'
  <2> SUFFICES ASSUME NEW j \in Config, NEW i \in 1 .. Len(stackOuter'),
                      Has(stackOuter'[i].f, j)
               PROVE  ~Has(innerFeatures[stackOuter'[i].s], j)
    BY <1>4 DEF MarksOffStack
  <2>1. CASE i \in 1 .. Len(stackOuter)
    BY <1>1, <1>7, <2>1 DEF CycleInv, MarksOffStack
  <2>2. CASE i = Len(stackOuter) + 1
    BY <1>5, <1>7, <1>10, <2>2
  <2>3. QED BY <1>8, <2>1, <2>2
<1>12. CyclesSought'
  <2> SUFFICES ASSUME NEW j \in Config, NEW s \in visited' \cap graph.accepting,
                      Has(outerFeatures'[s], j), ~NoCycle(j, s)
               PROVE  Unfinished(j, s)'
    BY <1>2 DEF CyclesSought, NoCycle
  <2>1. CASE s \in visited /\ Has(outerFeatures[s], j)
    <3>1. PICK i \in 1 .. Len(stackOuter) : stackOuter[i].s = s /\ Has(stackOuter[i].f, j)
      BY <1>1, <2>1 DEF CycleInv, CyclesSought, Unfinished
    <3>2. i \in 1 .. Len(stackOuter')
      BY <1>6, <1>7
    <3>3. QED BY <1>7, <3>1, <3>2 DEF Unfinished
  <2>2. CASE ~(s \in visited /\ Has(outerFeatures[s], j))
    <3>1. s = x.s
      BY <1>4, <2>2
    <3>2. Has(e.f, j)
      BY <1>2, <1>3, <1>5, <2>2, <3>1, NarrowedKeeps
    <3>3. Len(stackOuter) + 1 \in 1 .. Len(stackOuter')
      BY <1>6, <1>7
    <3>4. QED BY <1>5, <1>7, <3>1, <3>2, <3>3 DEF Unfinished
  <2>3. QED BY <2>1, <2>2
<1>13. QED BY <1>9, <1>11, <1>12 DEF CycleInv

LEMMA OuterSeedCycle ==
  ASSUME TypeOK, StackInv, CycleInv, OuterSeed
  PROVE  CycleInv'
<1> DEFINE e == NewElement(Top(stackOuter).s, Top(stackOuter).f)
<1>1. /\ verdict = "searching" /\ dfsIn = "outer" /\ stackOuter # <<>>
      /\ stackOuter \in Seq(Element) /\ stackInner = <<>>
  BY DEF OuterSeed, OuterExplore, Outer, TypeOK, StackInv, Seeded
<1>2. /\ stackInner' = <<e>>
      /\ UNCHANGED <<graph, visited, outerFeatures, innerFeatures, stackOuter, verdict>>
  BY DEF OuterSeed
<1>3. CyclesSought' /\ MarksOffStack'
  BY <1>1, <1>2, FrameCycle
<1>4. MarksCovered'
  <2> SUFFICES ASSUME NEW j \in Config, NEW s \in State, Has(innerFeatures[s], j),
                      NEW t \in Succ(graph, j, s)
               PROVE  Has(innerFeatures[t], j)
    BY <1>2 DEF MarksCovered, MarkedBy
  <2>1. MarkedBy(j, s, t)
    BY <1>1 DEF CycleInv, MarksCovered
  <2>2. QED BY <1>1, <2>1 DEF MarkedBy, Waits
<1>5. SeedCovered'
  <2> SUFFICES ASSUME NEW j \in Config, Has(Top(stackOuter).f, j),
                      NEW t \in Succ(graph, j, Top(stackOuter).s)
               PROVE  Waits(stackInner', {j}, Top(stackOuter).s, t)
    BY <1>2 DEF SeedCovered, MarkedBy, Waits
  <2>1. PICK d \in graph.edge : d.src = Top(stackOuter).s /\ d.dst = t /\ Has(d.feat, j)
    BY DEF Succ
  <2>2. Top(stackOuter).s \in State /\ Top(stackOuter).f \in Feat
    BY <1>1, TopType DEF Element
  <2>3. Executable(d, Top(stackOuter).f)
    BY <2>1, HasExecutable
  <2>4. /\ stackInner \in Seq(Element)
        /\ \A k \in {j} : Has(Top(stackOuter).f, k) /\ Has(d.feat, k)
    BY <2>1 DEF TypeOK
  <2>5. Waits(Append(stackInner, e), {j}, Top(stackOuter).s, d.dst)
    BY <2>1, <2>2, <2>3, <2>4, NewWaits
  <2> HIDE DEF e
  <2>6. Append(stackInner, e) = stackInner'
    BY <1>1, <1>2
  <2>7. QED BY <2>1, <2>5, <2>6
<1>6. QED BY <1>3, <1>4, <1>5 DEF CycleInv

LEMMA InnerBacktrackCycle ==
  ASSUME TypeOK, CycleInv, InnerBacktrack
  PROVE  CycleInv'
<1>1. /\ verdict = "searching" /\ stackInner # <<>> /\ Top(stackInner).post = {}
      /\ stackInner \in Seq(Element) /\ stackInner' = Pop(stackInner)
      /\ UNCHANGED <<graph, visited, outerFeatures, innerFeatures, dfsIn, stackOuter, verdict>>
  BY DEF InnerBacktrack, Inner, relVars, TypeOK
<1>2. ASSUME NEW j, NEW s, NEW t, MarkedBy(j, s, t)
      PROVE  MarkedBy(j, s, t)'
  <2>1. CASE Has(innerFeatures[t], j)
    BY <1>1, <2>1 DEF MarkedBy
  <2>2. CASE Waits(stackInner, {j}, s, t)
    <3>1. Waits(stackInner', {j}, s, t)
      BY <1>1, <2>2, PopWaits
    <3>2. QED BY <3>1 DEF MarkedBy, Waits
  <2>3. QED BY <1>2, <2>1, <2>2 DEF MarkedBy
<1>3. MarksCovered' /\ SeedCovered'
  BY <1>1, <1>2 DEF CycleInv, MarksCovered, SeedCovered
<1>4. CyclesSought' /\ MarksOffStack'
  BY <1>1, FrameCycle
<1>5. QED BY <1>3, <1>4 DEF CycleInv

LEMMA InnerStopCycle ==
  ASSUME TypeOK, CycleInv, Inner, NEW x \in Top(stackInner).post, InnerStop(x)
  PROVE  CycleInv'
<1>1. /\ verdict = "searching" /\ dfsIn = "inner" /\ stackInner # <<>>
      /\ stackInner \in Seq(Element) /\ stackInner' = Take(stackInner, x)
      /\ UNCHANGED <<graph, visited, outerFeatures, innerFeatures, dfsIn, stackOuter, verdict>>
  BY DEF InnerStop, Inner, relVars, TypeOK
<1>2. Within(x.f, innerFeatures[x.s])
  BY <1>1 DEF InnerStop, Status, Known
<1>3. \A j, s, t : MarkedBy(j, s, t) => MarkedBy(j, s, t)'
  <2> SUFFICES ASSUME NEW j, NEW s, NEW t, Waits(stackInner, {j}, s, t)
               PROVE  Waits(stackInner', {j}, s, t) \/ Has(innerFeatures[t], j)
    BY <1>1 DEF MarkedBy, Waits
  <2>1. Waits(stackInner', {j}, s, t) \/ (t = x.s /\ \A k \in {j} : Has(x.f, k))
    BY <1>1, TakeWaits
  <2>2. QED BY <1>2, <2>1 DEF Within, Has
<1>4. MarksCovered' /\ SeedCovered'
  BY <1>1, <1>3 DEF CycleInv, MarksCovered, SeedCovered
<1>5. CyclesSought' /\ MarksOffStack'
  BY <1>1, FrameCycle
<1>6. QED BY <1>4, <1>5 DEF CycleInv

LEMMA InnerPushCycle ==
  ASSUME OneSystem, TypeOK, StackInv, CoverInv, InnerInv, CycleInv, Inner,
         NEW x \in Top(stackInner).post, InnerPush(x)
  PROVE  CycleInv'
<1> DEFINE n == Narrowed(x.s, x.f)
           e == NewElement(x.s, n)
<1>1. /\ verdict = "searching" /\ dfsIn = "inner" /\ stackInner # <<>>
      /\ stackInner \in Seq(Element) /\ graph \in Graph
  BY DEF Inner, TypeOK
<1>2. x.s \in visited
  BY InnerReached
<1>3. /\ x.s \in State /\ x.f \in Feat /\ n \in Feat /\ e \in Element
      /\ Take(stackInner, x) \in Seq(Element)
  BY <1>1, PushType, TakeType
<1>4. /\ stackInner' = Append(Take(stackInner, x), e) /\ Update(x.s, x.f)
      /\ UNCHANGED <<graph, stackOuter, setElem, verdict>> /\ x.s \notin setElem
  BY <1>2 DEF InnerPush
<1>5. visited' = visited /\ outerFeatures' = outerFeatures /\ dfsIn' = dfsIn
  BY <1>1, <1>2, <1>4 DEF Update
<1>6. /\ innerFeatures'[x.s] = Or(innerFeatures[x.s], x.f)
      /\ \A s \in State \ {x.s} : innerFeatures'[s] = innerFeatures[s]
  BY <1>1, <1>2, <1>3, <1>4 DEF Update, TypeOK, RelTypeOK
<1> HIDE DEF e
<1>7. \A j : \A t \in State : Has(innerFeatures[t], j) => Has(innerFeatures'[t], j)
  BY <1>3, <1>6 DEF Has, Or
<1>8. \A j : Has(x.f, j) => Has(innerFeatures'[x.s], j)
  BY <1>6 DEF Has, Or
\* What is marked, or waits, still is or does.
<1>9. ASSUME NEW j, NEW s, NEW t \in State, MarkedBy(j, s, t)
      PROVE  MarkedBy(j, s, t)'
  <2>1. CASE Has(innerFeatures[t], j)
    BY <1>7, <2>1 DEF MarkedBy
  <2>2. CASE Waits(stackInner, {j}, s, t)
    <3>1. CASE Waits(Take(stackInner, x), {j}, s, t)
      <4>1. Waits(stackInner', {j}, s, t)
        BY <1>3, <1>4, <3>1, AppendWaits
      <4>2. QED BY <4>1 DEF MarkedBy, Waits
    <3>2. CASE t = x.s /\ \A k \in {j} : Has(x.f, k)
      BY <1>8, <3>2 DEF MarkedBy
    <3>3. QED BY <1>1, <2>2, <3>1, <3>2, TakeWaits
  <2>3. QED BY <1>9, <2>1, <2>2 DEF MarkedBy
\* A product that is newly marked is one the new element has.
<1>10. ASSUME NEW j \in Config, Has(innerFeatures'[x.s], j), ~Has(innerFeatures[x.s], j)
       PROVE  Has(n, j)
  <2>1. PICK c \in Comp : j[c] \notin innerFeatures[x.s][c]
    BY <1>10 DEF Has
  <2>2. j[c] \in x.f[c]
    BY <1>6, <1>10, <2>1 DEF Has, Or
  <2>3. Known(x.s) = innerFeatures[x.s]
    BY <1>1 DEF Known
  <2>4. n[c] = x.f[c] \ innerFeatures[x.s][c]
    BY <1>2, <2>1, <2>2, <2>3 DEF Narrowed
  <2> HIDE DEF n
  <2>5. QED BY <2>1, <2>2, <2>4 DEF Has, OneSystem
<1>11. MarksCovered'
  <2> SUFFICES ASSUME NEW j \in Config, NEW s \in State, Has(innerFeatures'[s], j),
                      NEW t \in Succ(graph, j, s)
               PROVE  MarkedBy(j, s, t)'
    BY <1>4 DEF MarksCovered
  <2>1. t \in State
    BY <1>1, SuccType
  <2>2. CASE Has(innerFeatures[s], j)
    BY <1>1, <1>9, <2>1, <2>2 DEF CycleInv, MarksCovered
  <2>3. CASE ~Has(innerFeatures[s], j)
    <3>1. s = x.s
      BY <1>6, <2>3
    <3>2. Has(n, j)
      BY <1>10, <2>3, <3>1
    <3>3. PICK d \in graph.edge : d.src = s /\ d.dst = t /\ Has(d.feat, j)
      BY DEF Succ
    <3>4. Executable(d, n)
      BY <3>2, <3>3, HasExecutable
    <3>5. \A k \in {j} : Has(n, k) /\ Has(d.feat, k)
      BY <3>2, <3>3
    <3> HIDE DEF n
    <3>6. Waits(Append(Take(stackInner, x), e), {j}, s, d.dst)
      BY <1>3, <3>1, <3>3, <3>4, <3>5, NewWaits DEF e
    <3>7. Waits(stackInner', {j}, s, t)
      BY <1>4, <3>3, <3>6
    <3>8. QED BY <3>7 DEF MarkedBy, Waits
  <2>4. QED BY <2>2, <2>3
<1>12. SeedCovered'
  <2> SUFFICES ASSUME NEW j \in Config, Has(Top(stackOuter).f, j),
                      NEW t \in Succ(graph, j, Top(stackOuter).s)
               PROVE  MarkedBy(j, Top(stackOuter).s, t)'
    BY <1>4 DEF SeedCovered
  <2>1. t \in State /\ MarkedBy(j, Top(stackOuter).s, t)
    BY <1>1, SuccType DEF CycleInv, SeedCovered
  <2>2. QED BY <1>4, <1>9, <2>1
<1>13. MarksOffStack'
  <2> SUFFICES ASSUME NEW j \in Config, NEW i \in 1 .. Len(stackOuter),
                      Has(stackOuter[i].f, j)
               PROVE  ~Has(innerFeatures'[stackOuter[i].s], j)
    BY <1>4 DEF MarksOffStack
  <2>1. stackOuter[i].s \in setElem /\ stackOuter[i].s \in State
    BY DEF StackInv, SetElemIsStack, TypeOK
  <2>2. innerFeatures'[stackOuter[i].s] = innerFeatures[stackOuter[i].s]
    BY <1>4, <1>6, <2>1
  <2>3. QED BY <1>1, <2>2 DEF CycleInv, MarksOffStack
<1>14. CyclesSought'
  BY <1>1, <1>4, <1>5 DEF CycleInv, CyclesSought, NoCycle, Unfinished
<1>15. QED BY <1>11, <1>12, <1>13, <1>14 DEF CycleInv

LEMMA NextCycle ==
  ASSUME OneSystem, Comp # {}, TypeOK, StackInv, CoverInv, InnerInv, FreshIsEmpty, CycleInv,
         [Next]_vars
  PROVE  CycleInv'
<1>1. CASE OuterDeadlock \/ InnerDeadlock
  <2>1. verdict' = "deadlock"
    BY <1>1 DEF OuterDeadlock, InnerDeadlock, Abort
  <2>2. QED BY <2>1, EndsCycle
<1>2. ASSUME NEW f, NEW t, NEW outcomes, Violation(f, t, outcomes),
             outcomes \cap {"searching", "satisfied"} = {}
      PROVE  CycleInv'
  <2>1. verdict' \in outcomes \cup {"unconstrained"}
    BY <1>2 DEF Violation
  <2>2. QED BY <1>2, <2>1, EndsCycle
<1>3. CASE OuterSafety
  <2> DEFINE outcomes == {"violated"} \cup IF Len(stackOuter) < 3 THEN {"undefined"} ELSE {}
  <2>1. \E f, t : Violation(f, t, outcomes)
    BY <1>3 DEF OuterSafety
  <2>2. outcomes \cap {"searching", "satisfied"} = {}
    OBVIOUS
  <2> HIDE DEF outcomes
  <2>3. QED BY <1>2, <2>1, <2>2
<1>4. CASE OuterStep
  <2>1. Outer
    BY <1>4 DEF OuterStep, OuterExplore
  <2>2. PICK x \in Top(stackOuter).post : OuterStop(x) \/ OuterPush(x)
    BY <1>4 DEF OuterStep
  <2>3. QED BY <2>1, <2>2, OuterStopCycle, OuterPushCycle
<1>5. CASE OuterSeed
  BY <1>5, OuterSeedCycle
<1>6. CASE OuterBacktrack
  BY <1>6, OuterBacktrackCycle
<1>7. CASE OuterSatisfied
  BY <1>7 DEF OuterSatisfied, CycleInv, CyclesSought, NoCycle, Unfinished, relVars, searchVars
<1>8. CASE InnerBacktrack
  BY <1>8, InnerBacktrackCycle
<1>9. CASE InnerStep
  <2>1. Inner
    BY <1>9 DEF InnerStep
  <2>2. PICK x \in Top(stackInner).post : InnerCloses(x) \/ InnerStop(x) \/ InnerPush(x)
    BY <1>9 DEF InnerStep
  <2>3. CASE InnerCloses(x)
    <3>1. {"violated"} \cap {"searching", "satisfied"} = {}
      OBVIOUS
    <3>2. \E f, t : Violation(f, t, {"violated"})
      BY <2>3 DEF InnerCloses
    <3>3. QED BY <1>2, <3>1, <3>2
  <2>4. QED BY <2>1, <2>2, <2>3, InnerStopCycle, InnerPushCycle
<1>10. CASE InnerReturn
  BY <1>10, InnerReturnCycle
<1>11. CASE UNCHANGED vars
  BY <1>11, SameCycle DEF vars, relVars, searchVars
<1>12. QED BY <1>1, <1>3, <1>4, <1>5, <1>6, <1>7, <1>8, <1>9, <1>10, <1>11 DEF Next

THEOREM CycleShape ==
  ASSUME OneSystem, Comp # {}
  PROVE  Spec => [](TypeOK /\ StackInv /\ CoverInv /\ CycleInv)
<1>1. NestedInit => TypeOK /\ StackInv /\ CoverInv /\ InnerInv /\ FreshIsEmpty /\ CycleInv
  <2>1. NestedInit => FreshIsEmpty
    BY DEF NestedInit, RelInit, FreshIsEmpty, Zero
  <2>2. QED BY <2>1, InitType, InitStack, InitCover, InitInner, InitCycle
<1>2. TypeOK /\ StackInv /\ CoverInv /\ InnerInv /\ FreshIsEmpty /\ CycleInv /\ [Next]_vars
        => (TypeOK /\ StackInv /\ CoverInv /\ InnerInv /\ FreshIsEmpty /\ CycleInv)'
  BY NextType, NextStack, NextCover, NextInner, NextFresh, NextCycle
<1>3. QED BY <1>1, <1>2, PTL DEF Spec

(***************************************************************************)
(* With one featured system, "Property satisfied" is right: no valid       *)
(* product has a counterexample, be it a finite one or an acceptance       *)
(* cycle.  Without features the inner searches stop at the first state the *)
(* outer one has met, and with two systems a product can be lost.          *)
(***************************************************************************)
THEOREM SatisfiedCorrect ==
  ASSUME OneSystem, Comp # {} PROVE Spec => []SatisfiedIsRight
<1>1. TypeOK /\ CoverInv /\ CycleInv /\ SafetyDecided => SatisfiedIsRight
  <2> SUFFICES ASSUME TypeOK, CoverInv, CycleInv, SafetyDecided, verdict = "satisfied",
                      NEW j \in Runs(graph)
               PROVE  ~AcceptingLasso(graph, j)
    BY DEF SatisfiedIsRight, SafetyDecided, Counterexample
  <2>1. CyclesSought /\ stackOuter = <<>> /\ j \in Config
    BY DEF CycleInv, CoverInv, Runs
  <2>2. \A s : ~Unfinished(j, s)
    BY <2>1 DEF Unfinished
  <2>3. ReachInit(graph, j) \subseteq {s \in visited : Has(outerFeatures[s], j)}
    BY SatisfiedReach
  <2>4. QED BY <2>1, <2>2, <2>3 DEF AcceptingLasso, CyclesSought, NoCycle
<1>2. QED BY <1>1, CycleShape, SafetyCorrect, PTL

-----------------------------------------------------------------------------
(***************************************************************************)
(* Second, every violation the search reports is real, for every automaton *)
(* and every number of featured components: the printed trace is a run of  *)
(* at least one valid product.                                             *)
(*                                                                         *)
(* The features of the top of the stack are no witness: narrowing may      *)
(* leave only products the feature diagram excludes.  The invariant is     *)
(* that SOME valid configuration follows the whole path, and a new edge    *)
(* extends it: where the edge constrains a component, that component is    *)
(* given a valid product of the top, which every edge below allows.        *)
(***************************************************************************)

\* j takes an edge from a to b that allows all of f.
StepWith(j, a, b, f) ==
  \E e \in graph.edge :
    e.src = a /\ e.dst = b /\ Has(e.feat, j) /\ Within(f, e.feat)

Walk(stack, j) ==
  \A i \in 1 .. Len(stack) - 1 :
    StepWith(j, stack[i].s, stack[i + 1].s, stack[i + 1].f)

Rooted ==
  stackOuter # <<>> => /\ stackOuter[1].s = graph.init
                       /\ Within(stackOuter[1].f, graph.initFeat)

Followed == \E j \in Runs(graph) : Walk(stackOuter, j) /\ Walk(stackInner, j)

PathInv == Rooted /\ Followed /\ TraceIsCounterexample

-----------------------------------------------------------------------------
\* k is j, but for components moved to a product of f.
Moved(j, k, f) == \A c \in Comp : k[c] = j[c] \/ k[c] \in f[c]

\* An executable edge can be taken by moving within the features of its source.
LEMMA MoveToEdge ==
  ASSUME graph \in Graph, NEW f \in Feat, NEW e \in graph.edge, Executable(e, f),
         Within(f, graph.initFeat), NEW j \in Runs(graph)
  PROVE  \E k \in Runs(graph) : Moved(j, k, f) /\ Has(e.feat, k)
<1> DEFINE k == [c \in Comp |-> IF j[c] \in e.feat[c] THEN j[c]
                                ELSE CHOOSE x \in Valid : x \in f[c] /\ x \in e.feat[c]]
<1>1. j \in [Comp -> Valid] /\ \A c \in Comp : j[c] \in graph.initFeat[c]
  BY DEF Runs, Config, Has
<1>2. ASSUME NEW c \in Comp
      PROVE  /\ k[c] \in Valid /\ k[c] \in e.feat[c]
             /\ k[c] = j[c] \/ k[c] \in f[c]
  <2>1. CASE j[c] \in e.feat[c]
    BY <1>1, <2>1
  <2>2. CASE j[c] \notin e.feat[c]
    <3>1. e.feat[c] # Product
      BY <1>1, <2>2, ProductAssumption
    <3>2. \E x \in Valid : x \in f[c] /\ x \in e.feat[c]
      BY <3>1 DEF Executable
    <3>3. k[c] = CHOOSE x \in Valid : x \in f[c] /\ x \in e.feat[c]
      BY <2>2
    <3>4. QED BY <3>2, <3>3
  <2>3. QED BY <2>1, <2>2
<1>3. k \in Config
  BY <1>2 DEF Config
<1> HIDE DEF k
<1>4. Has(e.feat, k) /\ Moved(j, k, f)
  BY <1>2 DEF Has, Moved
<1>5. Has(graph.initFeat, k)
  BY <1>1, <1>2 DEF Has, Within
<1>6. k \in Runs(graph)
  BY <1>3, <1>5 DEF Runs
<1>7. QED BY <1>4, <1>6

\* ... and what was walked before still can be.
LEMMA MoveOnWalk ==
  ASSUME NEW stack \in Seq(Element), NEW f, NEW j, NEW k, Moved(j, k, f), Walk(stack, j),
         \A i \in 1 .. Len(stack) : Within(f, stack[i].f)
  PROVE  Walk(stack, k)
<1> SUFFICES ASSUME NEW i \in 1 .. Len(stack) - 1
             PROVE  StepWith(k, stack[i].s, stack[i + 1].s, stack[i + 1].f)
  BY DEF Walk
<1>1. i + 1 \in 1 .. Len(stack)
  BY LenProperties
<1>2. PICK e \in graph.edge : /\ e.src = stack[i].s /\ e.dst = stack[i + 1].s
                              /\ Has(e.feat, j) /\ Within(stack[i + 1].f, e.feat)
  BY DEF Walk, StepWith
<1>3. Within(f, stack[i + 1].f)
  BY <1>1
<1>4. Has(e.feat, k)
  BY <1>2, <1>3 DEF Has, Moved, Within
<1>5. QED BY <1>2, <1>4 DEF StepWith

\* The edge behind a member of Post.
LEMMA PostEdge ==
  ASSUME NEW s, NEW f, NEW x \in Post(graph, s, f)
  PROVE  \E e \in graph.edge :
           e.src = s /\ e.dst = x.s /\ Executable(e, f) /\ Within(x.f, e.feat)
BY DEF Post, And, Within

\* Pushing a successor of the top, once some k follows the stack and the edge.
LEMMA PushWalk ==
  ASSUME TypeOK, NEW stack \in Seq(Element), stack # <<>>, NEW k, Walk(stack, k),
         NEW x \in Top(stack).post, NEW e \in Element, e.s = x.s, Within(e.f, x.f),
         StepWith(k, Top(stack).s, x.s, x.f),
         NEW new, new = Append(Take(stack, x), e)
  PROVE  Walk(new, k)
<1>1. Len(stack) \in Nat \ {0}
  BY TopType
<1>2. /\ Len(new) = Len(stack) + 1 /\ new[Len(stack) + 1] = e
      /\ \A i \in 1 .. Len(stack) : new[i].s = stack[i].s /\ new[i].f = stack[i].f
  <2>1. /\ Len(new) = Len(stack) + 1 /\ new[Len(stack) + 1] = e
        /\ \A i \in 1 .. Len(stack) :
             /\ new[i].s = stack[i].s
             /\ new[i].f = stack[i].f
             /\ new[i].post \subseteq stack[i].post
    BY PushShape
  <2>2. QED BY <2>1
<1> SUFFICES ASSUME NEW i \in 1 .. Len(stack)
             PROVE  StepWith(k, new[i].s, new[i + 1].s, new[i + 1].f)
  BY <1>1, <1>2 DEF Walk
<1>3. CASE i \in 1 .. Len(stack) - 1
  <2>1. i + 1 \in 1 .. Len(stack)
    BY <1>1, <1>3
  <2>2. StepWith(k, stack[i].s, stack[i + 1].s, stack[i + 1].f)
    BY <1>3 DEF Walk
  <2>3. QED BY <1>2, <2>1, <2>2
<1>4. CASE i = Len(stack)
  <2>1. new[i].s = Top(stack).s /\ new[i + 1] = e
    BY <1>1, <1>2, <1>4 DEF Top
  <2>2. StepWith(k, Top(stack).s, x.s, e.f)
    BY DEF StepWith, Within
  <2>3. QED BY <2>1, <2>2
<1>5. i \in 1 .. Len(stack) - 1 \/ i = Len(stack)
  BY <1>1
<1>6. QED BY <1>3, <1>4, <1>5

LEMMA TakeWalk ==
  ASSUME NEW stack \in Seq(Element), stack # <<>>, NEW x, NEW k, Walk(stack, k)
  PROVE  Walk(Take(stack, x), k)
<1>1. /\ Len(stack) \in Nat /\ Len(Take(stack, x)) = Len(stack)
      /\ \A i \in 1 .. Len(stack) : /\ Take(stack, x)[i].s = stack[i].s
                                    /\ Take(stack, x)[i].f = stack[i].f
  BY TakeType, TopType
<1> SUFFICES ASSUME NEW i \in 1 .. Len(stack) - 1
             PROVE  StepWith(k, Take(stack, x)[i].s, Take(stack, x)[i + 1].s, Take(stack, x)[i + 1].f)
  BY <1>1 DEF Walk
<1>2. i \in 1 .. Len(stack) /\ i + 1 \in 1 .. Len(stack)
  BY <1>1
<1>3. StepWith(k, stack[i].s, stack[i + 1].s, stack[i + 1].f)
  BY DEF Walk
<1>4. QED BY <1>1, <1>2, <1>3

LEMMA PopWalk ==
  ASSUME NEW stack \in Seq(Element), stack # <<>>, NEW k, Walk(stack, k)
  PROVE  Walk(Pop(stack), k)
<1>1. /\ Len(stack) \in Nat /\ Len(Pop(stack)) = Len(stack) - 1
      /\ \A i \in 1 .. Len(stack) - 1 : Pop(stack)[i] = stack[i]
  BY PopType, TopType
<1> SUFFICES ASSUME NEW i \in 1 .. Len(stack) - 2
             PROVE  StepWith(k, Pop(stack)[i].s, Pop(stack)[i + 1].s, Pop(stack)[i + 1].f)
  BY <1>1 DEF Walk
<1>2. i \in 1 .. Len(stack) - 1 /\ i + 1 \in 1 .. Len(stack) - 1
  BY <1>1
<1>3. StepWith(k, stack[i].s, stack[i + 1].s, stack[i + 1].f)
  BY <1>2 DEF Walk
<1>4. QED BY <1>1, <1>2, <1>3

\* A walk is a path of the product.
LEMMA WalkIsPath ==
  ASSUME TypeOK, NEW stack \in Seq(Element), NEW j, Walk(stack, j)
  PROVE  StepOf(j, Hashes(stack))
<1>1. /\ Len(stack) \in Nat /\ Len(Hashes(stack)) = Len(stack)
      /\ \A i \in 1 .. Len(stack) : Hashes(stack)[i] = stack[i].s
  BY HashesType, LenProperties
<1> SUFFICES ASSUME NEW i \in 1 .. Len(stack) - 1
             PROVE  Hashes(stack)[i + 1] \in Succ(graph, j, Hashes(stack)[i])
  BY <1>1 DEF StepOf
<1>2. i \in 1 .. Len(stack) /\ i + 1 \in 1 .. Len(stack)
  BY <1>1
<1>3. stack[i + 1].s \in Succ(graph, j, stack[i].s)
  BY DEF Walk, StepWith, Succ
<1>4. QED BY <1>1, <1>2, <1>3

-----------------------------------------------------------------------------
(* The invariant. *)

\* Every element of either stack is within the features of the first one.
LEMMA WithinRoot ==
  ASSUME TypeOK, StackInv, PathInv
  PROVE  /\ \A i \in 1 .. Len(stackOuter) : Within(stackOuter[i].f, graph.initFeat)
         /\ \A i \in 1 .. Len(stackInner) : Within(stackInner[i].f, graph.initFeat)
<1>1. ASSUME NEW i \in 1 .. Len(stackOuter)
      PROVE  Within(stackOuter[i].f, graph.initFeat)
  <2>1. Len(stackOuter) \in Nat /\ 1 \in 1 .. Len(stackOuter) /\ 1 <= i /\ stackOuter # <<>>
    BY LenProperties DEF TypeOK
  <2>2. Within(stackOuter[i].f, stackOuter[1].f)
    BY <2>1 DEF StackInv, Shrinks
  <2>3. Within(stackOuter[1].f, graph.initFeat)
    BY <2>1 DEF PathInv, Rooted
  <2>4. QED BY <2>2, <2>3 DEF Within
<1>2. ASSUME NEW i \in 1 .. Len(stackInner)
      PROVE  Within(stackInner[i].f, graph.initFeat)
  <2>1. stackInner # <<>>
    BY LenProperties DEF TypeOK
  <2>2. stackOuter # <<>> /\ Within(stackInner[i].f, Top(stackOuter).f)
    BY <2>1 DEF StackInv, Seeded
  <2>3. Len(stackOuter) \in 1 .. Len(stackOuter)
    BY <2>2, TopType DEF TypeOK
  <2>4. Within(Top(stackOuter).f, graph.initFeat)
    BY <1>1, <2>3 DEF Top
  <2>5. QED BY <2>2, <2>4 DEF Within
<1>3. QED BY <1>1, <1>2

\* Some valid configuration follows both stacks and then the edge to x.
LEMMA FollowTo ==
  ASSUME TypeOK, StackInv, PathInv, NEW stack \in {stackOuter, stackInner}, stack # <<>>,
         stack = stackOuter => stackInner \in {<<>>, stackOuter}, NEW x \in Top(stack).post
  PROVE  \E k \in Runs(graph) :
           Walk(stackOuter, k) /\ Walk(stackInner, k) /\ StepWith(k, Top(stack).s, x.s, x.f)
<1>1. /\ stack \in Seq(Element) /\ Shrinks(stack) /\ PostsOf(stack)
      /\ stackOuter \in Seq(Element) /\ stackInner \in Seq(Element)
  BY DEF TypeOK, StackInv
<1>2. Len(stack) \in 1 .. Len(stack) /\ Top(stack) \in Element
  BY <1>1, TopType
<1>3. x \in Post(graph, Top(stack).s, Top(stack).f)
  BY <1>1, TopPost
<1>4. PICK e \in graph.edge : /\ e.src = Top(stack).s /\ e.dst = x.s
                              /\ Executable(e, Top(stack).f) /\ Within(x.f, e.feat)
  BY <1>3, PostEdge
<1>5. Within(Top(stack).f, graph.initFeat)
  BY <1>2, WithinRoot DEF Top
<1>6. PICK j \in Runs(graph) : Walk(stackOuter, j) /\ Walk(stackInner, j)
  BY DEF PathInv, Followed
<1>7. PICK k \in Runs(graph) : Moved(j, k, Top(stack).f) /\ Has(e.feat, k)
  <2>1. Top(stack).f \in Feat /\ graph \in Graph
    BY <1>2 DEF TypeOK, Element
  <2>2. QED BY <1>4, <1>5, <2>1, MoveToEdge
<1>8. \A i \in 1 .. Len(stack) : Within(Top(stack).f, stack[i].f)
  BY <1>1, <1>2 DEF Shrinks, Top
<1>9. /\ \A i \in 1 .. Len(stackOuter) : Within(Top(stack).f, stackOuter[i].f)
      /\ \A i \in 1 .. Len(stackInner) : Within(Top(stack).f, stackInner[i].f)
  <2>1. CASE stack = stackOuter
    BY <1>8, <2>1
  <2>2. CASE stack = stackInner
    <3>1. stackOuter # <<>> /\ Within(Top(stack).f, Top(stackOuter).f)
      BY <1>2, <2>2 DEF StackInv, Seeded, Top
    <3>2. Len(stackOuter) \in 1 .. Len(stackOuter)
      BY <1>1, <3>1, TopType
    <3>3. \A i \in 1 .. Len(stackOuter) : Within(Top(stackOuter).f, stackOuter[i].f)
      BY <3>2 DEF StackInv, Shrinks, Top
    <3>4. QED BY <1>8, <2>2, <3>1, <3>3 DEF Within
  <2>3. QED BY <2>1, <2>2
<1>10. Walk(stackOuter, k) /\ Walk(stackInner, k)
  BY <1>1, <1>6, <1>7, <1>9, MoveOnWalk
<1>11. StepWith(k, Top(stack).s, x.s, x.f)
  BY <1>4, <1>7 DEF StepWith
<1>12. QED BY <1>10, <1>11

\* A step that reports no violation keeps TraceIsCounterexample.
LEMMA FramePath ==
  ASSUME PathInv, graph' = graph, Rooted',
         \E k \in Runs(graph) : Walk(stackOuter', k) /\ Walk(stackInner', k),
         verdict' # "violated" \/ UNCHANGED <<verdict, trace>>
  PROVE  PathInv'
<1>1. Followed'
  BY DEF Followed, Walk, StepWith
<1>2. TraceIsCounterexample'
  BY DEF PathInv, TraceIsCounterexample, StepOf
<1>3. QED BY <1>1, <1>2 DEF PathInv

LEMMA SamePath ==
  ASSUME PathInv, UNCHANGED <<graph, stackOuter, stackInner>>,
         verdict' # "violated" \/ UNCHANGED <<verdict, trace>>
  PROVE  PathInv'
<1>1. Rooted'
  BY DEF PathInv, Rooted
<1>2. \E k \in Runs(graph) : Walk(stackOuter', k) /\ Walk(stackInner', k)
  BY DEF PathInv, Followed
<1>3. QED BY <1>1, <1>2, FramePath

\* A violation is reported with the run of some valid configuration.
LEMMA ViolationPath ==
  ASSUME TypeOK, PathInv, NEW f, NEW t, NEW outcomes, Violation(f, t, outcomes),
         \E j \in Runs(graph) :
           /\ t.stem # <<>> /\ t.stem[1] = graph.init
           /\ StepOf(j, t.stem)
           /\ IF t.loop = <<>>
              THEN t.stem[Len(t.stem)] \in graph.end
              ELSE /\ Len(t.loop) > 1
                   /\ t.loop[1] = t.stem[Len(t.stem)]
                   /\ t.loop[1] \in graph.accepting
                   /\ StepOf(j, t.loop)
                   /\ \E i \in 1 .. Len(t.stem) : t.stem[i] = t.loop[Len(t.loop)]
  PROVE  PathInv'
<1>1. CASE Chargeable(f)
  <2>1. stackOuter' = <<>> /\ stackInner' = <<>> /\ graph' = graph /\ trace' = t
    BY <1>1 DEF Violation
  <2>2. TraceIsCounterexample'
    BY <2>1 DEF TraceIsCounterexample, StepOf
  <2>3. Rooted' /\ Followed'
    BY <2>1 DEF Rooted, PathInv, Followed, Walk
  <2>4. QED BY <2>2, <2>3 DEF PathInv
<1>2. CASE ~Chargeable(f)
  BY <1>2, SamePath DEF Violation, relVars, searchVars
<1>3. QED BY <1>1, <1>2

LEMMA OuterSafetyPath ==
  ASSUME TypeOK, StackInv, PathInv, OuterSafety
  PROVE  PathInv'
<1> DEFINE t == [stem |-> Hashes(stackOuter), loop |-> <<>>]
<1>1. PICK j \in Runs(graph) : Walk(stackOuter, j)
  BY DEF PathInv, Followed
<1>2. /\ stackOuter \in Seq(Element) /\ stackOuter # <<>> /\ Len(stackOuter) \in Nat \ {0}
      /\ Top(stackOuter).s \in graph.end
  BY TopType DEF OuterSafety, Outer, TypeOK
<1>3. StepOf(j, Hashes(stackOuter))
  BY <1>1, <1>2, WalkIsPath
<1>4. /\ Len(Hashes(stackOuter)) = Len(stackOuter)
      /\ Hashes(stackOuter)[1] = stackOuter[1].s
      /\ Hashes(stackOuter)[Len(stackOuter)] = stackOuter[Len(stackOuter)].s
  BY <1>2, HashesType
<1>5. Hashes(stackOuter) # <<>> /\ Hashes(stackOuter)[1] = graph.init
  BY <1>2, <1>4 DEF PathInv, Rooted
<1>6. Hashes(stackOuter)[Len(Hashes(stackOuter))] \in graph.end
  BY <1>2, <1>4 DEF Top
<1>7. t.stem = Hashes(stackOuter) /\ t.loop = <<>>
  OBVIOUS
<1>8. \E outcomes : Violation(Top(stackOuter).f, t, outcomes)
  BY DEF OuterSafety
<1> HIDE DEF t
<1>9. QED BY <1>1, <1>3, <1>5, <1>6, <1>7, <1>8, ViolationPath

LEMMA InnerClosesPath ==
  ASSUME TypeOK, StackInv, PathInv, Inner, NEW x \in Top(stackInner).post, InnerCloses(x)
  PROVE  PathInv'
<1> DEFINE h == Hashes(stackInner)
           t == [stem |-> Hashes(stackOuter), loop |-> Append(h, x.s)]
<1>1. /\ stackInner \in Seq(Element) /\ stackInner # <<>> /\ stackOuter \in Seq(Element)
      /\ stackOuter # <<>> /\ stackInner[1].s = Top(stackOuter).s
      /\ Top(stackOuter).s \in graph.accepting
  BY DEF Inner, TypeOK, StackInv, Seeded
<1>2. Len(stackInner) \in Nat \ {0} /\ Len(stackOuter) \in Nat \ {0} /\ x.s \in State
  BY <1>1, TopType, PushType
<1>3. PICK k \in Runs(graph) : /\ Walk(stackOuter, k) /\ Walk(stackInner, k)
                               /\ StepWith(k, Top(stackInner).s, x.s, x.f)
  BY <1>1, FollowTo
<1>4. StepOf(k, Hashes(stackOuter)) /\ StepOf(k, h)
  BY <1>1, <1>3, WalkIsPath
<1>5. /\ Len(Hashes(stackOuter)) = Len(stackOuter)
      /\ \A i \in 1 .. Len(stackOuter) : Hashes(stackOuter)[i] = stackOuter[i].s
  BY <1>1, HashesType
<1>6. /\ h \in Seq(State) /\ Len(h) = Len(stackInner)
      /\ \A i \in 1 .. Len(stackInner) : h[i] = stackInner[i].s
  BY <1>1, HashesType
<1> HIDE DEF h
<1>7. /\ Append(h, x.s) # <<>> /\ Len(Append(h, x.s)) = Len(stackInner) + 1
      /\ \A i \in 1 .. Len(stackInner) : Append(h, x.s)[i] = h[i]
      /\ Append(h, x.s)[Len(stackInner) + 1] = x.s
  BY <1>2, <1>6, AppendProperties
<1>8. StepOf(k, Append(h, x.s))
  <2> SUFFICES ASSUME NEW i \in 1 .. Len(stackInner)
               PROVE  Append(h, x.s)[i + 1] \in Succ(graph, k, Append(h, x.s)[i])
    BY <1>2, <1>7 DEF StepOf
  <2>1. CASE i \in 1 .. Len(stackInner) - 1
    <3>1. i + 1 \in 1 .. Len(stackInner)
      BY <1>2, <2>1
    <3>2. h[i + 1] \in Succ(graph, k, h[i])
      BY <1>4, <1>6, <2>1 DEF StepOf
    <3>3. QED BY <1>7, <3>1, <3>2
  <2>2. CASE i = Len(stackInner)
    <3>1. Append(h, x.s)[i] = Top(stackInner).s /\ Append(h, x.s)[i + 1] = x.s
      BY <1>2, <1>6, <1>7, <2>2 DEF Top
    <3>2. x.s \in Succ(graph, k, Top(stackInner).s)
      BY <1>3 DEF StepWith, Succ
    <3>3. QED BY <3>1, <3>2
  <2>3. i \in 1 .. Len(stackInner) - 1 \/ i = Len(stackInner)
    BY <1>2
  <2>4. QED BY <2>1, <2>2, <2>3
<1>9. Hashes(stackOuter) # <<>> /\ Hashes(stackOuter)[1] = graph.init
  BY <1>1, <1>2, <1>5 DEF PathInv, Rooted
<1>10. /\ Append(h, x.s)[1] = Hashes(stackOuter)[Len(Hashes(stackOuter))]
       /\ Append(h, x.s)[1] \in graph.accepting
  <2>1. 1 \in 1 .. Len(stackInner) /\ Len(stackOuter) \in 1 .. Len(stackOuter)
    BY <1>2
  <2>2. Append(h, x.s)[1] = stackInner[1].s
    BY <1>6, <1>7, <2>1
  <2>3. Hashes(stackOuter)[Len(Hashes(stackOuter))] = Top(stackOuter).s
    BY <1>5, <2>1 DEF Top
  <2>4. QED BY <1>1, <2>2, <2>3
<1>11. \E i \in 1 .. Len(Hashes(stackOuter)) : Hashes(stackOuter)[i] = x.s
  <2>1. x.s \in setElem
    BY DEF InnerCloses
  <2>2. PICK i \in 1 .. Len(stackOuter) : stackOuter[i].s = x.s
    BY <2>1 DEF StackInv, SetElemIsStack
  <2>3. QED BY <1>5, <2>2
<1>12. t.stem = Hashes(stackOuter) /\ t.loop = Append(h, x.s)
  OBVIOUS
<1>13. Violation(Top(stackInner).f, t, {"violated"})
  BY DEF InnerCloses, h
<1> HIDE DEF t
<1>14. Append(h, x.s)[Len(Append(h, x.s))] = x.s
  BY <1>7
<1>15. /\ t.stem # <<>> /\ t.stem[1] = graph.init
       /\ StepOf(k, t.stem)
       /\ t.loop # <<>> /\ Len(t.loop) > 1
       /\ t.loop[1] = t.stem[Len(t.stem)] /\ t.loop[1] \in graph.accepting
       /\ StepOf(k, t.loop)
       /\ \E i \in 1 .. Len(t.stem) : t.stem[i] = t.loop[Len(t.loop)]
  BY <1>2, <1>4, <1>7, <1>8, <1>9, <1>10, <1>11, <1>12, <1>14
<1>16. k \in Runs(graph)
  BY <1>3
<1>17. QED BY <1>13, <1>15, <1>16, ViolationPath

LEMMA OuterPushPath ==
  ASSUME TypeOK, StackInv, PathInv, Outer, NEW x \in Top(stackOuter).post, OuterPush(x)
  PROVE  PathInv'
<1> DEFINE e == NewElement(x.s, Narrowed(x.s, x.f))
<1>1. /\ stackOuter \in Seq(Element) /\ stackOuter # <<>> /\ verdict = "searching"
      /\ stackInner = <<>>
  BY DEF Outer, TypeOK, StackInv, Seeded
<1>2. PICK k \in Runs(graph) : /\ Walk(stackOuter, k) /\ Walk(stackInner, k)
                               /\ StepWith(k, Top(stackOuter).s, x.s, x.f)
  BY <1>1, FollowTo
<1>3. /\ stackOuter' = Append(Take(stackOuter, x), e)
      /\ UNCHANGED <<graph, stackInner, verdict>>
  BY DEF OuterPush
<1>4. e \in Element /\ e.s = x.s /\ Within(e.f, x.f)
  BY <1>1, PushType, NarrowedType DEF NewElement, TypeOK
<1> HIDE DEF e
<1>5. Walk(stackOuter', k)
  BY <1>1, <1>2, <1>3, <1>4, PushWalk
<1>6. Rooted'
  <2>1. Len(stackOuter) \in Nat \ {0}
    BY <1>1, TopType
  <2>2. /\ Len(stackOuter) \in Nat
        /\ \A i \in 1 .. Len(stackOuter) : /\ stackOuter'[i].s = stackOuter[i].s
                                           /\ stackOuter'[i].f = stackOuter[i].f
    BY <1>1, <1>3, <1>4, PushShape
  <2>3. QED BY <1>1, <1>3, <2>1, <2>2 DEF PathInv, Rooted
<1>7. QED BY <1>1, <1>2, <1>3, <1>5, <1>6, FramePath

LEMMA InnerPushPath ==
  ASSUME TypeOK, StackInv, PathInv, Inner, NEW x \in Top(stackInner).post, InnerPush(x)
  PROVE  PathInv'
<1> DEFINE e == NewElement(x.s, Narrowed(x.s, x.f))
<1>1. /\ stackInner \in Seq(Element) /\ stackInner # <<>> /\ verdict = "searching"
      /\ stackOuter # <<>>
  BY DEF Inner, TypeOK, StackInv, Seeded
<1>2. CASE x.s \notin visited
  BY <1>2, SamePath DEF InnerPush, Abort, searchVars
<1>3. CASE x.s \in visited
  <2>1. PICK k \in Runs(graph) : /\ Walk(stackOuter, k) /\ Walk(stackInner, k)
                                 /\ StepWith(k, Top(stackInner).s, x.s, x.f)
    BY <1>1, FollowTo
  <2>2. /\ stackInner' = Append(Take(stackInner, x), e)
        /\ UNCHANGED <<graph, stackOuter, verdict>>
    BY <1>3 DEF InnerPush
  <2>3. e \in Element /\ e.s = x.s /\ Within(e.f, x.f)
    BY <1>1, PushType, NarrowedType DEF NewElement, TypeOK
  <2> HIDE DEF e
  <2>4. Walk(stackInner', k)
    BY <1>1, <2>1, <2>2, <2>3, PushWalk
  <2>5. Rooted'
    BY <2>2 DEF PathInv, Rooted
  <2>6. QED BY <1>1, <2>1, <2>2, <2>4, <2>5, FramePath
<1>4. QED BY <1>2, <1>3

LEMMA PopOuterPath ==
  ASSUME TypeOK, PathInv, stackOuter # <<>>, PopOuter, verdict = "searching",
         UNCHANGED <<graph, stackInner, verdict>>
  PROVE  PathInv'
<1>1. stackOuter \in Seq(Element) /\ stackOuter' = Pop(stackOuter)
  BY DEF TypeOK, PopOuter
<1>2. PICK k \in Runs(graph) : Walk(stackOuter, k) /\ Walk(stackInner, k)
  BY DEF PathInv, Followed
<1>3. Walk(stackOuter', k) /\ Walk(stackInner', k)
  BY <1>1, <1>2, PopWalk
<1>4. Rooted'
  <2>1. /\ stackOuter' \in Seq(Element)
        /\ \A i \in 1 .. Len(stackOuter') : stackOuter'[i] = stackOuter[i]
    BY <1>1, PopType
  <2>2. stackOuter' # <<>> => 1 \in 1 .. Len(stackOuter')
    <3>1. stackOuter' # <<>> => Len(stackOuter') \in Nat \ {0}
      BY <2>1, EmptySeq
    <3>2. QED BY <3>1
  <2>3. QED BY <2>1, <2>2 DEF PathInv, Rooted
<1>5. QED BY <1>3, <1>4, FramePath

LEMMA InitPath ==
  ASSUME NestedInit, Runs(graph) # {}
  PROVE  PathInv
<1>1. /\ stackOuter = <<NewElement(graph.init, graph.initFeat)>> /\ stackInner = <<>>
      /\ verdict = "searching"
  BY DEF NestedInit
<1>2. Rooted
  BY <1>1 DEF Rooted, NewElement, Within
<1>3. Followed
  <2>1. PICK j : j \in Runs(graph)
    OBVIOUS
  <2>4. Len(stackOuter) = 1 /\ Len(stackInner) = 0
    BY <1>1
  <2>5. Walk(stackOuter, j) /\ Walk(stackInner, j)
    BY <2>4 DEF Walk
  <2>6. QED BY <2>1, <2>5 DEF Followed
<1>4. TraceIsCounterexample
  BY <1>1 DEF TraceIsCounterexample
<1>5. QED BY <1>2, <1>3, <1>4 DEF PathInv

LEMMA NextPath ==
  ASSUME TypeOK, StackInv, PathInv, [Next]_vars
  PROVE  PathInv'
<1>1. CASE OuterDeadlock
  BY <1>1, SamePath DEF OuterDeadlock, Abort, searchVars
<1>2. CASE OuterSafety
  BY <1>2, OuterSafetyPath
<1>3. CASE OuterStep
  <2>1. Outer /\ stackOuter \in Seq(Element) /\ stackOuter # <<>> /\ verdict = "searching"
    BY <1>3 DEF OuterStep, OuterExplore, Outer, TypeOK
  <2>2. PICK x \in Top(stackOuter).post : OuterStop(x) \/ OuterPush(x)
    BY <1>3 DEF OuterStep
  <2>3. CASE OuterStop(x)
    <3>1. stackOuter' = Take(stackOuter, x) /\ UNCHANGED <<graph, stackInner, verdict>>
      BY <2>3 DEF OuterStop
    <3>2. PICK k \in Runs(graph) : Walk(stackOuter, k) /\ Walk(stackInner, k)
      BY DEF PathInv, Followed
    <3>3. Walk(stackOuter', k) /\ Walk(stackInner', k)
      BY <2>1, <3>1, <3>2, TakeWalk
    <3>4. Rooted'
      <4>1. 1 \in 1 .. Len(stackOuter)
        BY <2>1, TopType
      <4>2. stackOuter'[1].s = stackOuter[1].s /\ stackOuter'[1].f = stackOuter[1].f
        BY <2>1, <3>1, <4>1, TakeType
      <4>3. QED BY <2>1, <3>1, <4>2 DEF PathInv, Rooted
    <3>5. QED BY <2>1, <3>1, <3>3, <3>4, FramePath
  <2>4. CASE OuterPush(x)
    BY <2>1, <2>4, OuterPushPath
  <2>5. QED BY <2>2, <2>3, <2>4
<1>4. CASE OuterSeed
  <2>1. /\ stackInner' = <<NewElement(Top(stackOuter).s, Top(stackOuter).f)>>
        /\ UNCHANGED <<graph, stackOuter, verdict>> /\ verdict = "searching"
    BY <1>4 DEF OuterSeed, OuterExplore, Outer
  <2>2. PICK k \in Runs(graph) : Walk(stackOuter, k)
    BY DEF PathInv, Followed
  <2>3. Len(stackInner') = 1
    BY <2>1
  <2>4. Walk(stackInner', k)
    BY <2>3 DEF Walk
  <2>5. Rooted'
    BY <2>1 DEF PathInv, Rooted
  <2>6. QED BY <2>1, <2>2, <2>4, <2>5, FramePath
<1>5. CASE OuterBacktrack
  BY <1>5, PopOuterPath DEF OuterBacktrack, OuterExplore, Outer
<1>6. CASE OuterSatisfied
  BY <1>6, SamePath DEF OuterSatisfied, searchVars
<1>7. CASE InnerDeadlock
  BY <1>7, SamePath DEF InnerDeadlock, Abort, searchVars
<1>8. CASE InnerBacktrack
  <2>1. /\ stackInner \in Seq(Element) /\ stackInner # <<>> /\ stackInner' = Pop(stackInner)
        /\ UNCHANGED <<graph, stackOuter, verdict, trace>>
    BY <1>8 DEF InnerBacktrack, Inner, TypeOK
  <2>2. PICK k \in Runs(graph) : Walk(stackOuter, k) /\ Walk(stackInner, k)
    BY DEF PathInv, Followed
  <2>3. Walk(stackOuter', k) /\ Walk(stackInner', k)
    BY <2>1, <2>2, PopWalk
  <2>4. Rooted'
    BY <2>1 DEF PathInv, Rooted
  <2>5. QED BY <2>1, <2>3, <2>4, FramePath
<1>9. CASE InnerStep
  <2>1. Inner /\ stackInner \in Seq(Element) /\ stackInner # <<>> /\ verdict = "searching"
    BY <1>9 DEF InnerStep, Inner, TypeOK
  <2>2. PICK x \in Top(stackInner).post : InnerCloses(x) \/ InnerStop(x) \/ InnerPush(x)
    BY <1>9 DEF InnerStep
  <2>3. CASE InnerCloses(x)
    BY <2>1, <2>3, InnerClosesPath
  <2>4. CASE InnerStop(x)
    <3>1. stackInner' = Take(stackInner, x) /\ UNCHANGED <<graph, stackOuter, verdict>>
      BY <2>4 DEF InnerStop
    <3>2. PICK k \in Runs(graph) : Walk(stackOuter, k) /\ Walk(stackInner, k)
      BY DEF PathInv, Followed
    <3>3. Walk(stackOuter', k) /\ Walk(stackInner', k)
      BY <2>1, <3>1, <3>2, TakeWalk
    <3>4. Rooted'
      BY <3>1 DEF PathInv, Rooted
    <3>5. QED BY <2>1, <3>1, <3>3, <3>4, FramePath
  <2>5. CASE InnerPush(x)
    BY <2>1, <2>5, InnerPushPath
  <2>6. QED BY <2>2, <2>3, <2>4, <2>5
<1>10. CASE InnerReturn
  <2>1. stackOuter # <<>>
    BY <1>10 DEF InnerReturn, StackInv, Seeded
  <2>2. QED BY <1>10, <2>1, PopOuterPath DEF InnerReturn
<1>11. CASE UNCHANGED vars
  BY <1>11, SamePath DEF vars, searchVars
<1>12. QED BY <1>1, <1>2, <1>3, <1>4, <1>5, <1>6, <1>7, <1>8, <1>9, <1>10, <1>11 DEF Next

\* Nothing happens after the verdict, and no step changes the graph.
LEMMA OneVerdict ==
  ASSUME Next
  PROVE  verdict = "searching" /\ graph' = graph
<1>1. ASSUME NEW f, NEW t, NEW outcomes, Violation(f, t, outcomes)
      PROVE  graph' = graph
  BY <1>1 DEF Violation
<1>2. CASE OuterDeadlock \/ InnerDeadlock
  BY <1>2 DEF OuterDeadlock, InnerDeadlock, Outer, Inner, Abort
<1>3. CASE OuterSafety
  BY <1>1, <1>3 DEF OuterSafety, Outer
<1>4. CASE OuterStep
  BY <1>4 DEF OuterStep, OuterExplore, Outer, OuterStop, OuterPush
<1>5. CASE InnerStep
  <2>1. PICK x : InnerCloses(x) \/ InnerStop(x) \/ InnerPush(x)
    BY <1>5 DEF InnerStep
  <2>2. graph' = graph
    BY <1>1, <2>1 DEF InnerCloses, InnerStop, InnerPush, Abort
  <2>3. QED BY <1>5, <2>2 DEF InnerStep, Inner
<1>6. CASE OuterSeed \/ OuterBacktrack \/ OuterSatisfied \/ InnerBacktrack \/ InnerReturn
  BY <1>6 DEF OuterSeed, OuterBacktrack, OuterSatisfied, InnerBacktrack, InnerReturn,
              OuterExplore, Outer, Inner
<1>7. QED BY <1>2, <1>3, <1>4, <1>5, <1>6 DEF Next

(***************************************************************************)
(* No false alarm, for any number of systems: whenever the search reports a*)
(* violation and some valid product meets the constraints the systems were *)
(* built with, the stem and the loop it has printed are a run of a valid   *)
(* product that visits an accepting state for ever, or drives the never    *)
(* claim to its end.  createProgState does not compare a constraint with   *)
(* the feature diagram; without such a product any trace is a false alarm. *)
(***************************************************************************)
THEOREM TraceCorrect == Spec => [](Runs(graph) # {} => TraceIsCounterexample)
<1> DEFINE PathKept == Runs(graph) # {} => PathInv
<1>1. NestedInit => TypeOK /\ StackInv /\ PathKept
  BY InitType, InitStack, InitPath
<1>2. TypeOK /\ StackInv /\ PathKept /\ [Next]_vars => (TypeOK /\ StackInv /\ PathKept)'
  <2> SUFFICES ASSUME TypeOK, StackInv, PathKept, [Next]_vars
               PROVE  (TypeOK /\ StackInv /\ PathKept)'
    OBVIOUS
  <2>1. graph' = graph
    BY OneVerdict DEF vars
  <2>2. (Runs(graph) # {})' => Runs(graph) # {}
    BY <2>1 DEF Runs, Has
  <2>3. QED BY <2>2, NextType, NextStack, NextPath
<1>3. PathKept => (Runs(graph) # {} => TraceIsCounterexample)
  BY DEF PathInv
<1>4. QED BY <1>1, <1>2, <1>3, PTL DEF Spec

-----------------------------------------------------------------------------
(* What a trace says of the graph, and the verdict of the search. *)

\* Later states of a path are reached from the earlier ones: the first one
\* outside a closed set would follow one inside.
LEMMA PathReach ==
  ASSUME NEW j, NEW p \in Seq(State), StepOf(j, p),
         NEW m \in 1 .. Len(p), NEW n \in m .. Len(p)
  PROVE  p[n] \in Reach(graph, j, {p[m]})
<1> SUFFICES ASSUME NEW C \in SUBSET State, p[m] \in C, Closed(graph, j, C), p[n] \notin C
             PROVE  FALSE
  <2>1. n \in 1 .. Len(p)
    BY LenProperties
  <2>2. p[n] \in State
    BY <2>1, ElementOfSeq
  <2>3. QED BY <2>2 DEF Reach
<1> DEFINE Less == {q \in Nat \X Nat : q[1] < q[2]}
           T == {i \in m .. n : p[i] \notin C}
<1>1. IsWellFoundedOn(Less, Nat)
  BY NatLessThanWellFounded DEF OpToRel
<1>2. T \subseteq Nat /\ n \in T
  BY LenProperties
<1> HIDE DEF Less
<1>3. PICK i \in T : \A k \in T : <<k, i>> \notin Less
  <2> HIDE DEF T
  <2>1. QED BY <1>1, <1>2, WFMin
<1>4. i # m /\ i \in m .. n /\ Len(p) \in Nat
  BY <1>3, LenProperties
<1>5. /\ i - 1 \in m .. n /\ i - 1 \in 1 .. Len(p) - 1 /\ (i - 1) + 1 = i
      /\ i - 1 \in Nat /\ i \in Nat /\ i - 1 < i
  BY <1>4
<1>6. <<i - 1, i>> \in Less
  BY <1>5 DEF Less
<1>7. p[i - 1] \in C
  BY <1>3, <1>5, <1>6
<1>8. p[i] \in Succ(graph, j, p[i - 1])
  BY <1>5 DEF StepOf
<1>9. QED BY <1>3, <1>7, <1>8 DEF Closed

LEMMA ReachTransitive ==
  ASSUME NEW g, NEW j, NEW S, NEW t \in Reach(g, j, S), NEW u \in Reach(g, j, {t})
  PROVE  u \in Reach(g, j, S)
BY DEF Reach

\* "Property violated": some valid product has a counterexample.
ViolatedIsRight ==
  verdict = "violated" => \E j \in Runs(graph) : Counterexample(graph, j)

\* A trace that is a counterexample is one in the sense of the reference
\* semantics: the loop and the part of the stem it comes back to are a cycle.
LEMMA TraceTells ==
  ASSUME TypeOK, TraceIsCounterexample
  PROVE  ViolatedIsRight
<1> SUFFICES ASSUME verdict = "violated"
             PROVE  \E j \in Runs(graph) : Counterexample(graph, j)
  BY DEF ViolatedIsRight
<1> DEFINE stem == trace.stem
           loop == trace.loop
<1>1. PICK j \in Runs(graph) :
        /\ stem # <<>> /\ stem[1] = graph.init
        /\ StepOf(j, stem)
        /\ IF loop = <<>>
           THEN stem[Len(stem)] \in graph.end
           ELSE /\ Len(loop) > 1
                /\ loop[1] = stem[Len(stem)]
                /\ loop[1] \in graph.accepting
                /\ StepOf(j, loop)
                /\ \E i \in 1 .. Len(stem) : stem[i] = loop[Len(loop)]
  BY DEF TraceIsCounterexample
<1>2. stem \in Seq(State) /\ loop \in Seq(State) /\ Len(loop) \in Nat
  BY LenProperties DEF TypeOK
<1> HIDE DEF stem, loop
<1>3. Len(stem) \in Nat \ {0}
  BY <1>1, <1>2, EmptySeq, LenProperties
<1>4. stem[Len(stem)] \in ReachInit(graph, j)
  <2>1. 1 \in 1 .. Len(stem) /\ Len(stem) \in 1 .. Len(stem)
    BY <1>3
  <2>2. QED BY <1>1, <1>2, <2>1, PathReach DEF ReachInit
<1>5. CASE loop = <<>>
  BY <1>1, <1>4, <1>5 DEF Counterexample, BadPrefix
<1>6. CASE loop # <<>>
  <2>1. PICK i \in 1 .. Len(stem) : stem[i] = loop[Len(loop)]
    BY <1>1, <1>6
  <2>2. 2 \in 1 .. Len(loop) /\ Len(loop) \in 2 .. Len(loop) /\ 1 \in 1 .. Len(loop) - 1
    BY <1>1, <1>2, <1>6
  <2>3. loop[2] \in Succ(graph, j, loop[1])
    BY <1>1, <1>6, <2>2 DEF StepOf
  <2>4. loop[Len(loop)] \in Reach(graph, j, {loop[2]})
    BY <1>1, <1>2, <1>6, <2>2, PathReach
  <2>5. loop[1] \in Reach(graph, j, {loop[Len(loop)]})
    <3>1. Len(stem) \in i .. Len(stem)
      BY <1>3
    <3>2. stem[Len(stem)] \in Reach(graph, j, {stem[i]})
      BY <1>1, <1>2, <3>1, PathReach
    <3>3. QED BY <1>1, <1>6, <2>1, <3>2
  <2>6. loop[1] \in Reach(graph, j, {loop[2]})
    BY <2>4, <2>5, ReachTransitive
  <2>7. loop[1] \in Reach(graph, j, Succ(graph, j, loop[1]))
    BY <2>3, <2>6 DEF Reach
  <2>8. AcceptingLasso(graph, j)
    BY <1>1, <1>4, <1>6, <2>7 DEF AcceptingLasso
  <2>9. QED BY <2>8 DEF Counterexample
<1>7. QED BY <1>5, <1>6

(***************************************************************************)
(* "Property violated" is right, for any number of systems whose           *)
(* constraints some valid product meets: such a product drives the never   *)
(* claim to its end, or has an acceptance cycle.                           *)
(***************************************************************************)
THEOREM ViolatedCorrect == Spec => [](Runs(graph) # {} => ViolatedIsRight)
<1>1. TypeOK /\ (Runs(graph) # {} => TraceIsCounterexample)
        => (Runs(graph) # {} => ViolatedIsRight)
  BY TraceTells
<1>2. QED BY <1>1, Typing, TraceCorrect, PTL

-----------------------------------------------------------------------------
(* The search implements LTLVerdict. *)

\* The abstract specification speaks of the same graph.
LEMMA SameMeaning ==
  ASSUME NEW g
  PROVE  /\ LTL!Graph = Graph
         /\ LTL!Runs(g) = Runs(g)
         /\ \A j : LTL!Counterexample(g, j) = Counterexample(g, j)
<1>1. LTL!Graph = Graph
  BY DEF LTL!Graph, Graph, LTL!Edge, Edge, LTL!Feat, Feat
<1>2. \A f, j : LTL!Has(f, j) <=> Has(f, j)
  BY DEF LTL!Has, Has
<1>3. LTL!Runs(g) = Runs(g)
  BY <1>2 DEF LTL!Runs, Runs, LTL!Config, Config
<1>4. \A j, s : LTL!Succ(g, j, s) = Succ(g, j, s)
  BY <1>2 DEF LTL!Succ, Succ
<1>5. \A j, S : LTL!Reach(g, j, S) = Reach(g, j, S)
  BY <1>4 DEF LTL!Reach, Reach, LTL!Closed, Closed
<1>6. \A j : LTL!Counterexample(g, j) = Counterexample(g, j)
  BY <1>4, <1>5 DEF LTL!Counterexample, Counterexample, LTL!AcceptingLasso, AcceptingLasso,
                    LTL!BadPrefix, BadPrefix, LTL!ReachInit, ReachInit
<1>7. QED BY <1>1, <1>3, <1>6

(***************************************************************************)
(* With one featured system, the nested search gives at most one answer,   *)
(* and the right one: "Property satisfied" when no valid product has a     *)
(* counterexample, a violation when one has.                               *)
(***************************************************************************)
THEOREM DecidesCorrect ==
  ASSUME OneSystem, Comp # {} PROVE Spec => Decides
<1>1. NestedInit => LTL!Init
  BY GraphsAssumption, SameMeaning DEF NestedInit, LTL!Init, Answer
<1>2. ViolatedIsRight' /\ SatisfiedIsRight' /\ [Next]_vars => [LTL!Decide]_<<graph, Answer>>
  <2> SUFFICES ASSUME ViolatedIsRight', SatisfiedIsRight', [Next]_vars,
                      ~UNCHANGED <<graph, Answer>>
               PROVE  LTL!Decide
    OBVIOUS
  <2>1. verdict = "searching" /\ graph' = graph
    BY OneVerdict DEF vars, Answer
  <2>2. Answer = "searching"
    BY <2>1 DEF Answer
  <2>3. CASE verdict' = "satisfied"
    BY <2>1, <2>2, <2>3, SameMeaning DEF LTL!Decide, LTL!Satisfied, SatisfiedIsRight, Answer
  <2>4. CASE verdict' = "violated"
    BY <2>1, <2>2, <2>4, SameMeaning DEF LTL!Decide, LTL!Violated, ViolatedIsRight, Answer
  <2>5. CASE verdict' \notin {"searching", "satisfied", "violated"}
    BY <2>1, <2>2, <2>5 DEF LTL!Decide, LTL!Aborted, Answer
  <2>6. verdict' # "searching"
    BY <2>1 DEF Answer
  <2>7. QED BY <2>3, <2>4, <2>5, <2>6
<1>3. Spec => []ViolatedIsRight /\ []SatisfiedIsRight
  <2>1. NestedInit => WellFormed(graph)
    BY GraphsAssumption DEF NestedInit
  <2>2. WellFormed(graph) /\ [Next]_vars => WellFormed(graph)'
    <3>1. [Next]_vars => graph' = graph
      BY OneVerdict DEF vars
    <3>2. QED BY <3>1 DEF WellFormed
  <2>3. WellFormed(graph) => Runs(graph) # {}
    BY SomeRun
  <2>4. QED BY <2>1, <2>2, <2>3, ViolatedCorrect, SatisfiedCorrect, PTL DEF Spec
<1>4. QED BY <1>1, <1>2, <1>3, PTL DEF Spec, Decides, LTL!Spec
=============================================================================
