-------------------------- MODULE StateSpace_proof --------------------------
(***************************************************************************)
(* Proofs about StateSpace, for any program and both functions.            *)
(***************************************************************************)
EXTENDS StateSpace, ProgramSemantics_proof, FiniteSetTheorems

LEMMA PostType ==
  ASSUME NEW m \in Machine
  PROVE  Post(m) \subseteq Machine
<1> SUFFICES ASSUME NEW t \in Executables(m)
             PROVE  Applied(m, t) \in Machine
  BY DEF Post
<1>1. t \in Move
  BY ExecutablesType
<1> QED BY <1>1, AppliedType

LEMMA PayloadType ==
  ASSUME NEW m \in Machine
  PROVE  Payload(m) \in [loc : [Proc -> Node \cup {End}], val : Value]
BY DEF Payload, Machine

LEMMA NewElementType ==
  ASSUME NEW m \in Machine, NEW d \in Nat
  PROVE  /\ NewElement(m, d) \in Element
         /\ NewElement(m, d).s = m
         /\ NewElement(m, d).depth = d
         /\ NewElement(m, d).post = Post(m)
BY PostType DEF NewElement, Element

LEMMA BelowShape ==
  ASSUME NEW stack \in Seq(Element), stack # <<>>
  PROVE  /\ Below(stack) \in Seq(Element)
         /\ Len(Below(stack)) = Len(stack) - 1
         /\ \A k \in 1 .. Len(stack) - 1 : Below(stack)[k] = stack[k]
         /\ Len(stack) \in DOMAIN stack /\ Len(stack) \in Nat \ {0}
<1>1. Len(stack) \in Nat \ {0} /\ Len(stack) \in DOMAIN stack
  OBVIOUS
<1>2. SubSeq(stack, 1, Len(stack) - 1) \in Seq(Element)
  BY <1>1
<1>3. Len(SubSeq(stack, 1, Len(stack) - 1)) = Len(stack) - 1
  BY <1>1
<1>4. ASSUME NEW k \in 1 .. Len(stack) - 1
      PROVE  SubSeq(stack, 1, Len(stack) - 1)[k] = stack[k]
  BY <1>1, <1>2, <1>3
<1> QED BY <1>1, <1>2, <1>3, <1>4 DEF Below

LEMMA BelowDomain ==
  ASSUME NEW stack \in Seq(Element), stack # <<>>
  PROVE  /\ DOMAIN Below(stack) = DOMAIN stack \ {Len(stack)}
         /\ \A k \in DOMAIN Below(stack) :
              k \in DOMAIN stack /\ Below(stack)[k] = stack[k]
<1> DEFINE b == Below(stack)
<1>1. b \in Seq(Element) /\ Len(b) = Len(stack) - 1
  BY BelowShape
<1>2. DOMAIN b = 1 .. Len(stack) - 1 /\ DOMAIN stack = 1 .. Len(stack)
  BY <1>1
<1>3. 1 .. Len(stack) - 1 = 1 .. Len(stack) \ {Len(stack)}
  BY BelowShape
<1>4. \A k \in 1 .. Len(stack) - 1 : b[k] = stack[k]
  BY BelowShape
<1> QED BY <1>2, <1>3, <1>4

LEMMA BootType ==
  ASSUME NEW x \in Starts
  PROVE  Boot(x, Initial) \in Machine /\ Boot(x, Initial).excl = None
BY StateSpaceAssumption, NodeAssumption DEF Boot, Machine

(***************************************************************************)
(* In depth the depth follows the height of the stack, so that a pushed    *)
(* element never has a negative one.                                       *)
(***************************************************************************)
Height == mode = "depth" => depth = Len(st) - 1 /\ nexts = {}

Typed == TypeOK /\ Height

\* What Descend does to the stack: n is taken out of those that follow the top,
\* which makes the stack left, and is pushed unless it is known.
Descends(n, left) ==
  /\ st # <<>> /\ n \in st[Len(st)].post
  /\ depth = Len(st) - 1
  /\ Len(left) = Len(st)
  /\ \A k \in 1 .. Len(st) : left[k].s = st[k].s /\ left[k].depth = st[k].depth
  /\ \A k \in 1 .. Len(st) - 1 : left[k] = st[k]
  /\ left[Len(st)].post = st[Len(st)].post \ {n}
  /\ Payload(n) \in hm => st' = left /\ UNCHANGED <<hm, depth, i, phase>>
  /\ Payload(n) \notin hm =>
       /\ st' = Append(left, NewElement(n, depth))
       /\ hm' = Insert(hm, n)
       /\ depth' = depth + 1
       /\ i' = i + 1
       /\ phase' = Checked(n)

LEMMA DescendParts ==
  ASSUME Typed, Descend
  PROVE  \E n \in Machine, left \in Seq(Element) : Descends(n, left)
<1> USE DEF Typed, TypeOK, Height
<1>1. PICK n \in st[Len(st)].post :
        LET left == [st EXCEPT ![Len(st)].post = Rest(@, n)]
        IN  IF Payload(n) \in hm
            THEN /\ st' = left
                 /\ UNCHANGED <<hm, depth, i, phase>>
            ELSE /\ st' = Append(left, NewElement(n, depth))
                 /\ hm' = Insert(hm, n)
                 /\ depth' = depth + 1
                 /\ i' = i + 1
                 /\ phase' = Checked(n)
  BY DEF Descend
<1> DEFINE left == [st EXCEPT ![Len(st)].post = Rest(@, n)]
<1>2. st # <<>> /\ depth = Len(st) - 1
  BY DEF Descend
<1>3. Len(st) \in DOMAIN st /\ st[Len(st)] \in Element
  BY <1>2
<1>4. n \in Machine
  BY <1>1, <1>3 DEF Element
<1>5. left \in Seq(Element) /\ Len(left) = Len(st)
  BY <1>3 DEF Rest, Element
<1>6. left[Len(st)] = [st[Len(st)] EXCEPT !.post = @ \ {n}]
  BY <1>3 DEF Rest
<1>7. \A k \in 1 .. Len(st) - 1 : left[k] = st[k]
  BY <1>3
<1>8. /\ left[Len(st)].post = st[Len(st)].post \ {n}
      /\ left[Len(st)].s = st[Len(st)].s
      /\ left[Len(st)].depth = st[Len(st)].depth
  BY <1>3, <1>6 DEF Element
<1>9. \A k \in 1 .. Len(st) : left[k].s = st[k].s /\ left[k].depth = st[k].depth
  BY <1>7, <1>8, <1>3
<1>10. Descends(n, left)
  BY <1>1, <1>2, <1>5, <1>7, <1>8, <1>9 DEF Descends
<1> QED BY <1>4, <1>5, <1>10

LEMMA TypedInit == SpaceInit => Typed
<1> SUFFICES ASSUME SpaceInit PROVE Typed
  OBVIOUS
<1>1. init \in Machine
  BY BootType DEF SpaceInit
<1>2. NewElement(init, 0) \in Element
  BY <1>1, NewElementType
<1>3. st \in Seq(Element) /\ Len(st) = 1
  BY <1>2 DEF SpaceInit
<1>4. hm \subseteq [loc : [Proc -> Node \cup {End}], val : Value]
  BY <1>1, PayloadType DEF SpaceInit
<1> QED BY <1>1, <1>3, <1>4 DEF SpaceInit, Typed, TypeOK, Height

LEMMA TypedStep == Typed /\ [Next]_vars => Typed'
<1> SUFFICES ASSUME Typed, [Next]_vars PROVE Typed'
  OBVIOUS
<1> USE DEF Typed, TypeOK, Height
<1>1. CASE Current
  <2>1. st[Len(st)] \in Element
    BY <1>1 DEF Current
  <2>2. Post(st[Len(st)].s) \subseteq Machine
    BY <2>1, PostType DEF Element
  <2>3. NextDepth(st[Len(st)]) \in Nat
    BY <2>1 DEF NextDepth, Element
  <2>4. Below(st) \in Seq(Element)
    BY <1>1 DEF Current, Below
  <2> QED BY <1>1, <2>2, <2>3, <2>4 DEF Current
<1>2. CASE Visit
  <2>1. PICK n \in nexts :
          /\ nexts' = Rest(nexts, n)
          /\ IF Payload(n) \in hm
             THEN UNCHANGED <<st, hm, phase>>
             ELSE /\ st' = Append(st, NewElement(n, depth))
                  /\ hm' = Insert(hm, n)
                  /\ phase' = Checked(n)
    BY <1>2 DEF Visit
  <2>2. mode = "breadth" /\ depth \in Nat /\ n \in Machine
    BY <2>1
  <2>3. NewElement(n, depth) \in Element
    BY <2>2, NewElementType
  <2>4. st' \in Seq(Element)
    BY <2>1, <2>3
  <2>5. hm' \subseteq [loc : [Proc -> Node \cup {End}], val : Value]
    BY <2>1, <2>2, PayloadType DEF Insert
  <2> QED BY <1>2, <2>1, <2>2, <2>4, <2>5 DEF Visit, Rest, Checked
<1>3. CASE Descend
  <2>1. PICK n \in Machine, left \in Seq(Element) : Descends(n, left)
    BY <1>3, DescendParts
  <2>2. mode = "depth" /\ nexts = {} /\ UNCHANGED <<mode, init, nexts>>
    BY <1>3 DEF Descend
  <2>3. CASE Payload(n) \in hm
    BY <2>1, <2>2, <2>3 DEF Descends
  <2>4. CASE Payload(n) \notin hm
    <3>1. NewElement(n, depth) \in Element
      <4>1. depth \in Nat
        BY <2>1 DEF Descends
      <4> QED BY <2>1, <4>1, NewElementType
    <3>2. st' \in Seq(Element) /\ Len(st') = Len(st) + 1
      <4>1. st' = Append(left, NewElement(n, depth)) /\ Len(left) = Len(st)
        BY <2>1, <2>4 DEF Descends
      <4> QED BY <2>1, <3>1, <4>1
    <3>3. hm' \subseteq [loc : [Proc -> Node \cup {End}], val : Value]
      BY <2>1, <2>4, PayloadType DEF Descends, Insert
    <3>4. phase' \in {"running", "done", "aborted"}
      BY <2>1, <2>4 DEF Descends, Checked
    <3>5. depth' = depth + 1 /\ i' = i + 1
      BY <2>1, <2>4 DEF Descends
    <3> QED BY <2>2, <3>2, <3>3, <3>4, <3>5
  <2> QED BY <2>3, <2>4
<1>4. CASE Backtrack
  <2>1. Below(st) \in Seq(Element) /\ Len(Below(st)) = Len(st) - 1
    BY <1>4 DEF Backtrack, Below
  <2> QED BY <1>4, <2>1 DEF Backtrack
<1>5. CASE SpaceEnd
  BY <1>5 DEF SpaceEnd
<1>6. CASE UNCHANGED vars
  BY <1>6 DEF vars
<1> QED BY <1>1, <1>2, <1>3, <1>4, <1>5, <1>6 DEF Next

\* Every variable keeps its type: the depth of an element is never negative.
THEOREM SpaceTypes == Spec => []TypeOK
<1>1. Typed => TypeOK
  BY DEF Typed
<1> QED BY <1>1, TypedInit, TypedStep, PTL DEF Spec
-----------------------------------------------------------------------------
\* What Visit does: n is taken out of the states still to be seen, and is
\* pushed unless it is known.
Visits(n) ==
  /\ nexts' = nexts \ {n}
  /\ UNCHANGED <<mode, init, depth, i>>
  /\ Payload(n) \in hm => UNCHANGED <<st, hm, phase>>
  /\ Payload(n) \notin hm =>
       /\ st' = Append(st, NewElement(n, depth))
       /\ hm' = Insert(hm, n)
       /\ phase' = Checked(n)

LEMMA VisitParts ==
  ASSUME Typed, Visit
  PROVE  /\ mode = "breadth" /\ depth \in Nat
         /\ \E n \in nexts : n \in Machine /\ Visits(n)
BY DEF Typed, TypeOK, Height, Visit, Visits, Rest

(***************************************************************************)
(* The path on the stack.  It goes on because what is left to follow an    *)
(* element follows its state.                                              *)
(***************************************************************************)
Follows == \A k \in DOMAIN st : st[k].post \subseteq Post(st[k].s)

Path == mode = "depth" => Follows /\ StackIsPath

LEMMA PathStep == Typed /\ Path /\ [Next]_vars => Path'
<1> SUFFICES ASSUME Typed, Path, [Next]_vars, mode' = "depth" PROVE Follows' /\ StackIsPath'
  BY DEF Path
<1>1. mode = "depth" /\ nexts = {} /\ st \in Seq(Element)
  BY DEF Next, Current, Visit, Descend, Backtrack, SpaceEnd, vars, Typed, TypeOK, Height
<1>2. Follows /\ StackIsPath
  BY <1>1 DEF Path
<1>3. CASE Current \/ Visit
  BY <1>1, <1>3 DEF Current, Visit
<1>4. CASE Descend
  <2>1. PICK n \in Machine, left \in Seq(Element) : Descends(n, left)
    BY <1>4, DescendParts
  <2>2. n \in Post(st[Len(st)].s) /\ Len(st) \in DOMAIN st
    BY <1>1, <1>2, <2>1 DEF Descends, Follows
  <2>3. \A k \in 1 .. Len(left) : left[k].post \subseteq Post(left[k].s)
    <3> SUFFICES ASSUME NEW k \in 1 .. Len(left)
                 PROVE  left[k].post \subseteq Post(left[k].s)
      OBVIOUS
    <3>1. k \in DOMAIN st /\ left[k].s = st[k].s
      BY <1>1, <2>1 DEF Descends
    <3>2. left[k].post \subseteq st[k].post
      <4>1. CASE k = Len(st)
        BY <2>1, <4>1 DEF Descends
      <4>2. CASE k # Len(st)
        <5>1. k \in 1 .. Len(st) - 1
          BY <1>1, <3>1, <4>2
        <5> QED BY <2>1, <5>1 DEF Descends
      <4> QED BY <4>1, <4>2
    <3> QED BY <1>2, <3>1, <3>2 DEF Follows
  <2>4. \A k \in 2 .. Len(left) :
          left[k].s \in Post(left[k - 1].s) /\ left[k].depth = k - 2
    <3> SUFFICES ASSUME NEW k \in 2 .. Len(left)
                 PROVE  left[k].s \in Post(left[k - 1].s) /\ left[k].depth = k - 2
      OBVIOUS
    <3>1. k \in 2 .. Len(st) /\ k \in 1 .. Len(st) /\ k - 1 \in 1 .. Len(st)
      BY <1>1, <2>1 DEF Descends
    <3>2. left[k].s = st[k].s /\ left[k - 1].s = st[k - 1].s /\ left[k].depth = st[k].depth
      BY <2>1, <3>1 DEF Descends
    <3> QED BY <1>1, <1>2, <3>1, <3>2 DEF StackIsPath
  <2>5. CASE Payload(n) \in hm
    <3>1. st' = left /\ depth' = depth /\ depth = Len(left) - 1
      BY <2>1, <2>5 DEF Descends
    <3> QED BY <2>3, <2>4, <3>1 DEF Follows, StackIsPath
  <2>6. CASE Payload(n) \notin hm
    <3> DEFINE e == NewElement(n, depth)
    <3>1. st' = Append(left, e) /\ depth' = depth + 1 /\ depth = Len(left) - 1
      BY <2>1, <2>6 DEF Descends
    <3>2. e.s = n /\ e.post = Post(n) /\ e.depth = Len(left) - 1
      BY <3>1 DEF NewElement
    <3>3. Len(st') = Len(left) + 1 /\ st'[Len(left) + 1] = e
      BY <3>1
    <3>4. \A k \in 1 .. Len(left) : st'[k] = left[k]
      BY <3>1
    <3>5. left[Len(left)].s = st[Len(st)].s /\ Len(left) \in 1 .. Len(left)
      BY <2>1, <2>2 DEF Descends
    <3>6. Follows'
      BY <2>3, <3>1, <3>2, <3>3, <3>4 DEF Follows
    <3>7. ASSUME NEW k \in 2 .. Len(st')
          PROVE  st'[k].s \in Post(st'[k - 1].s) /\ st'[k].depth = k - 2
      <4>1. CASE k = Len(left) + 1
        BY <2>2, <3>2, <3>3, <3>4, <3>5, <4>1
      <4>2. CASE k # Len(left) + 1
        <5>1. k \in 2 .. Len(left) /\ k \in 1 .. Len(left) /\ k - 1 \in 1 .. Len(left)
          BY <3>3, <4>2
        <5> QED BY <2>4, <3>4, <5>1
      <4> QED BY <4>1, <4>2
    <3>8. depth' = Len(st') - 1
      BY <3>1, <3>3
    <3> QED BY <3>6, <3>7, <3>8 DEF StackIsPath
  <2> QED BY <2>5, <2>6
<1>5. CASE Backtrack
  <2>1. st # <<>> /\ st' = Below(st) /\ depth' = depth - 1
    BY <1>5 DEF Backtrack
  <2>2. Len(st') = Len(st) - 1 /\ \A k \in 1 .. Len(st') : st'[k] = st[k]
    BY <1>1, <2>1, BelowShape
  <2>3. Follows'
    <3>1. \A k \in DOMAIN st' : k \in DOMAIN st /\ st'[k] = st[k]
      BY <1>1, <2>1, BelowDomain
    <3> QED BY <1>2, <3>1 DEF Follows
  <2>4. ASSUME NEW k \in 2 .. Len(st')
        PROVE  st'[k].s \in Post(st'[k - 1].s) /\ st'[k].depth = k - 2
    <3>1. k \in 2 .. Len(st) /\ k \in 1 .. Len(st') /\ k - 1 \in 1 .. Len(st')
      BY <1>1, <2>2
    <3> QED BY <1>1, <1>2, <2>2, <3>1 DEF StackIsPath
  <2> QED BY <1>1, <1>2, <2>1, <2>2, <2>3, <2>4 DEF StackIsPath
<1>6. CASE SpaceEnd \/ UNCHANGED vars
  BY <1>2, <1>6 DEF SpaceEnd, vars, Follows, StackIsPath
<1> QED BY <1>3, <1>4, <1>5, <1>6 DEF Next

\* In depth the stack is a path of the program, as long as depth says.
THEOREM StackIsPathCorrect == Spec => []StackIsPath
<1>1. SpaceInit => Path
  <2> SUFFICES ASSUME SpaceInit PROVE Follows /\ StackIsPath
    BY DEF Path
  <2>1. st = <<NewElement(init, 0)>> /\ depth = 0
    BY DEF SpaceInit
  <2> QED BY <2>1 DEF Follows, StackIsPath, NewElement
<1>2. Path => StackIsPath
  BY DEF Path, StackIsPath
<1> QED BY <1>1, <1>2, TypedInit, TypedStep, PathStep, PTL DEF Spec
-----------------------------------------------------------------------------
(***************************************************************************)
(* Closure.  Without atomic nodes no process ever has exclusivity, so what *)
(* follows a state depends on its payload alone.  Each payload on record   *)
(* is that of an element of the stack, or is followed by payloads that are *)
(* on record or among the states still to be seen; those that follow an    *)
(* element are on record or among the states kept with it.                 *)
(***************************************************************************)
Payloads(S) == {Payload(m) : m \in S}

Free == {m \in Machine : m.excl = None}

LEMMA FreePost ==
  ASSUME NEW m \in Free, Atomic = {}
  PROVE  /\ Post(m) \subseteq Free
         /\ Succ(Payload(m)) = Payloads(Post(m))
<1>1. m \in Machine /\ m.excl = None
  BY DEF Free
<1>2. ASSUME NEW t \in Executables(m)
      PROVE  /\ Applied(m, t) \in Free
             /\ Payload(Applied(Plain(m), t)) = Payload(Applied(m, t))
  <2>1. t \in Move /\ Plain(m) \in Machine
    BY <1>1, <1>2, ExecutablesType, PlainExecutables
  <2>2. Applied(m, t) \in Free
    BY <1>1, <2>1, AppliedType DEF Free
  <2>3. Plain(m).loc = m.loc /\ Plain(m).val = m.val
    BY DEF Plain
  <2>4. /\ Applied(Plain(m), t).loc = Applied(m, t).loc
        /\ Applied(Plain(m), t).val = Applied(m, t).val
    <3>1. /\ Applied(m, t).loc = [m.loc EXCEPT ![t.proc] = t.edge.dst]
          /\ Applied(m, t).val =
               IF t.edge.stm.op = "assign" THEN t.edge.stm.arg ELSE m.val
      BY <1>1, <2>1, AppliedType
    <3>2. /\ Applied(Plain(m), t).loc = [Plain(m).loc EXCEPT ![t.proc] = t.edge.dst]
          /\ Applied(Plain(m), t).val =
               IF t.edge.stm.op = "assign" THEN t.edge.stm.arg ELSE Plain(m).val
      BY <2>1, AppliedType
    <3> QED BY <2>3, <3>1, <3>2
  <2> QED BY <2>2, <2>4 DEF Payload
<1>3. Executables(Plain(m)) = Executables(m)
  BY <1>1, PlainExecutables
<1>4. [loc |-> Payload(m).loc, val |-> Payload(m).val, excl |-> None, last |-> First] = Plain(m)
  BY DEF Payload, Plain
<1>5. Succ(Payload(m)) = {Payload(x) : x \in Post(Plain(m))}
  BY <1>4 DEF Succ
<1>6. Post(Plain(m)) = {Applied(Plain(m), t) : t \in Executables(m)}
  BY <1>3 DEF Post
<1>7. Payloads(Post(m)) = {Payload(x) : x \in {Applied(m, t) : t \in Executables(m)}}
  BY DEF Post, Payloads
<1>8. Post(m) \subseteq Free
  BY <1>2 DEF Post
<1> QED BY <1>2, <1>5, <1>6, <1>7, <1>8

Agenda ==
  /\ nexts \subseteq Free
  /\ \A k \in DOMAIN st :
       /\ st[k].s \in Free /\ st[k].post \subseteq Free
       /\ Succ(Payload(st[k].s)) \subseteq hm \cup Payloads(st[k].post)
  /\ mode = "breadth" => \A k \in DOMAIN st : st[k].post = Post(st[k].s)
  /\ \A h \in hm : h \in OnStack \/ Succ(h) \subseteq hm \cup Payloads(nexts)
  /\ phase = "done" => st = <<>> /\ nexts = {}

LEMMA AgendaInit == ASSUME SpaceInit, Atomic = {} PROVE Agenda
<1>1. init \in Free
  BY BootType DEF SpaceInit, Free
<1>2. st = <<NewElement(init, 0)>> /\ hm = {Payload(init)} /\ nexts = {} /\ phase # "done"
  BY DEF SpaceInit
<1>3. NewElement(init, 0).s = init /\ NewElement(init, 0).post = Post(init)
  BY DEF NewElement
<1>4. 1 \in DOMAIN st /\ st[1].s = init
  BY <1>2, <1>3
<1>5. Payload(init) \in OnStack
  BY <1>4 DEF OnStack
<1>6. \A k \in DOMAIN st : st[k].s = init /\ st[k].post = Post(init)
  BY <1>2, <1>3
<1>7. Post(init) \subseteq Free /\ Succ(Payload(init)) = Payloads(Post(init))
  BY <1>1, FreePost
<1> QED BY <1>1, <1>2, <1>5, <1>6, <1>7 DEF Agenda

\* A state that is not known is pushed on a stack whose payloads are on record.
LEMMA PushKeeps ==
  ASSUME NEW stack \in Seq(Element), NEW m \in Machine, NEW d \in Nat
  PROVE  LET s2 == Append(stack, NewElement(m, d)) IN
         /\ s2 \in Seq(Element)
         /\ DOMAIN s2 = DOMAIN stack \cup {Len(stack) + 1}
         /\ \A k \in DOMAIN stack : s2[k] = stack[k]
         /\ s2[Len(stack) + 1].s = m
         /\ s2[Len(stack) + 1].post = Post(m)
         /\ Len(stack) + 1 \notin DOMAIN stack
<1>1. NewElement(m, d) \in Element
  BY NewElementType
<1> QED BY <1>1 DEF NewElement

LEMMA AgendaStep ==
  ASSUME Typed, Agenda, [Next]_vars, Atomic = {}
  PROVE  Agenda'
<1>0. st \in Seq(Element) /\ nexts \subseteq Machine
  BY DEF Typed, TypeOK
<1>1. CASE Current
  <2> DEFINE top == st[Len(st)]
  <2>1. /\ st # <<>> /\ nexts = {} /\ nexts' = Post(top.s) /\ st' = Below(st)
        /\ hm' = hm /\ mode = "breadth" /\ mode' = mode
        /\ phase' = phase /\ phase = "running"
    BY <1>1 DEF Current
  <2>2. Len(st) \in DOMAIN st /\ top.s \in Free
    BY <1>0, <2>1, BelowShape DEF Agenda
  <2>3. Post(top.s) \subseteq Free /\ Succ(Payload(top.s)) = Payloads(Post(top.s))
    BY <2>2, FreePost
  <2>4. \A k \in DOMAIN st' : k \in DOMAIN st /\ st'[k] = st[k]
    BY <1>0, <2>1, BelowDomain
  <2>5. ASSUME NEW h \in hm
        PROVE  h \in OnStack' \/ Succ(h) \subseteq hm \cup Payloads(nexts')
    <3>1. CASE Succ(h) \subseteq hm \cup Payloads(nexts)
      <4>1. Payloads(nexts) = {}
        BY <2>1 DEF Payloads
      <4> QED BY <3>1, <4>1
    <3>2. CASE h = Payload(top.s)
      BY <2>1, <2>3, <3>2
    <3>3. CASE \E k \in DOMAIN st : k # Len(st) /\ h = Payload(st[k].s)
      <4>1. PICK k \in DOMAIN st : k # Len(st) /\ h = Payload(st[k].s)
        BY <3>3
      <4>2. k \in DOMAIN st' /\ st'[k] = st[k]
        BY <1>0, <2>1, <4>1, BelowDomain
      <4> QED BY <4>1, <4>2 DEF OnStack
    <3> QED BY <2>5, <3>1, <3>2, <3>3 DEF Agenda, OnStack
  <2>6. nexts' \subseteq Free /\ phase' # "done"
    BY <2>1, <2>3
  <2>7. \A k \in DOMAIN st' :
          /\ st'[k].s \in Free /\ st'[k].post \subseteq Free
          /\ st'[k].post = Post(st'[k].s)
          /\ Succ(Payload(st'[k].s)) \subseteq hm' \cup Payloads(st'[k].post)
    BY <2>1, <2>4 DEF Agenda
  <2>8. \A h \in hm' : h \in OnStack' \/ Succ(h) \subseteq hm' \cup Payloads(nexts')
    BY <2>1, <2>5
  <2> QED BY <2>6, <2>7, <2>8 DEF Agenda
<1>2. CASE Visit
  <2>1. PICK n \in nexts : n \in Machine /\ Visits(n)
    BY <1>2, VisitParts
  <2>2. n \in Free /\ depth \in Nat
    BY <1>2, <2>1, VisitParts DEF Agenda
  <2>3. nexts' = nexts \ {n} /\ mode' = mode /\ phase = "running"
    BY <1>2, <2>1 DEF Visits, Visit
  <2>4. Payloads(nexts) \subseteq Payloads(nexts') \cup {Payload(n)}
    BY <2>3 DEF Payloads
  <2>5. CASE Payload(n) \in hm
    <3>1. UNCHANGED <<st, hm, phase>>
      BY <2>1, <2>5 DEF Visits
    <3>2. OnStack' = OnStack
      BY <3>1 DEF OnStack
    <3> QED BY <2>3, <2>4, <2>5, <3>1, <3>2 DEF Agenda
  <2>6. CASE Payload(n) \notin hm
    <3>1. /\ st' = Append(st, NewElement(n, depth)) /\ hm' = hm \cup {Payload(n)}
          /\ phase' # "done"
      BY <2>1, <2>6 DEF Visits, Insert, Checked
    <3>2. /\ DOMAIN st' = DOMAIN st \cup {Len(st) + 1}
          /\ \A k \in DOMAIN st : st'[k] = st[k]
          /\ st'[Len(st) + 1].s = n /\ st'[Len(st) + 1].post = Post(n)
      BY <1>0, <2>1, <2>2, <3>1, PushKeeps
    <3>3. OnStack' = OnStack \cup {Payload(n)}
      BY <3>2 DEF OnStack
    <3>4. Post(n) \subseteq Free /\ Succ(Payload(n)) = Payloads(Post(n))
      BY <2>2, FreePost
    <3>5. nexts' \subseteq Free /\ (phase' # "done")
      BY <2>3, <3>1 DEF Agenda
    <3>6. ASSUME NEW k \in DOMAIN st'
          PROVE  /\ st'[k].s \in Free /\ st'[k].post \subseteq Free
                 /\ st'[k].post = Post(st'[k].s)
                 /\ Succ(Payload(st'[k].s)) \subseteq hm' \cup Payloads(st'[k].post)
      <4>1. CASE k \in DOMAIN st
        BY <1>2, <2>2, <3>1, <3>2, <4>1, VisitParts DEF Agenda
      <4>2. CASE k = Len(st) + 1
        BY <2>2, <3>2, <3>4, <4>2
      <4> QED BY <3>2, <4>1, <4>2
    <3>7. ASSUME NEW h \in hm'
          PROVE  h \in OnStack' \/ Succ(h) \subseteq hm' \cup Payloads(nexts')
      <4>1. CASE h = Payload(n)
        BY <3>3, <4>1
      <4>2. CASE h \in hm
        BY <2>4, <3>1, <3>3, <4>2 DEF Agenda
      <4> QED BY <3>1, <4>1, <4>2
    <3> QED BY <3>5, <3>6, <3>7 DEF Agenda
  <2> QED BY <2>5, <2>6
<1>3. CASE Descend
  <2>1. PICK n \in Machine, left \in Seq(Element) : Descends(n, left)
    BY <1>3, DescendParts
  <2>2. mode = "depth" /\ UNCHANGED <<mode, nexts>> /\ phase = "running"
    BY <1>3 DEF Descend
  <2>3. /\ DOMAIN left = DOMAIN st /\ Len(st) \in DOMAIN st
        /\ n \in st[Len(st)].post
        /\ left[Len(st)].post = st[Len(st)].post \ {n}
        /\ \A k \in DOMAIN st : left[k].s = st[k].s
        /\ \A k \in DOMAIN st : k # Len(st) => left[k] = st[k]
    BY <1>0, <2>1 DEF Descends
  <2>4. n \in Free
    BY <2>3 DEF Agenda
  <2>5. \A k \in DOMAIN left :
          /\ left[k].s \in Free /\ left[k].post \subseteq Free
          /\ Succ(Payload(left[k].s)) \subseteq hm \cup {Payload(n)} \cup Payloads(left[k].post)
    <3> SUFFICES ASSUME NEW k \in DOMAIN left
                 PROVE  /\ left[k].s \in Free /\ left[k].post \subseteq Free
                        /\ Succ(Payload(left[k].s))
                             \subseteq hm \cup {Payload(n)} \cup Payloads(left[k].post)
      OBVIOUS
    <3>1. left[k].post = st[k].post \/ left[k].post = st[k].post \ {n}
      BY <2>3
    <3>2. Payloads(st[k].post) \subseteq Payloads(left[k].post) \cup {Payload(n)}
      BY <3>1 DEF Payloads
    <3> QED BY <2>3, <3>1, <3>2 DEF Agenda
  <2>6. OnStack = {Payload(left[k].s) : k \in DOMAIN left}
    BY <2>3 DEF OnStack
  <2>7. CASE Payload(n) \in hm
    <3>1. st' = left /\ UNCHANGED <<hm, phase>>
      BY <2>1, <2>7 DEF Descends
    <3>2. OnStack' = OnStack
      BY <2>6, <3>1 DEF OnStack
    <3> QED BY <2>2, <2>5, <2>7, <3>1, <3>2 DEF Agenda
  <2>8. CASE Payload(n) \notin hm
    <3>1. /\ st' = Append(left, NewElement(n, depth)) /\ hm' = hm \cup {Payload(n)}
          /\ phase' # "done"
      BY <2>1, <2>8 DEF Descends, Insert, Checked
    <3>0. depth \in Nat
      BY <1>0, <2>1 DEF Descends
    <3>2. /\ DOMAIN st' = DOMAIN left \cup {Len(left) + 1}
          /\ \A k \in DOMAIN left : st'[k] = left[k]
          /\ st'[Len(left) + 1].s = n /\ st'[Len(left) + 1].post = Post(n)
      BY <2>1, <3>0, <3>1, PushKeeps
    <3>3. OnStack' = OnStack \cup {Payload(n)}
      BY <2>6, <3>2 DEF OnStack
    <3>4. Post(n) \subseteq Free /\ Succ(Payload(n)) = Payloads(Post(n))
      BY <2>4, FreePost
    <3>5. \A k \in DOMAIN st' :
            /\ st'[k].s \in Free /\ st'[k].post \subseteq Free
            /\ Succ(Payload(st'[k].s)) \subseteq hm' \cup Payloads(st'[k].post)
      BY <2>4, <2>5, <3>1, <3>2, <3>4
    <3> QED BY <2>2, <3>1, <3>3, <3>5 DEF Agenda
  <2> QED BY <2>7, <2>8
<1>4. CASE Backtrack
  <2>1. /\ st # <<>> /\ st[Len(st)].post = {} /\ st' = Below(st) /\ mode = "depth"
        /\ UNCHANGED <<mode, hm, nexts, phase>> /\ phase = "running"
    BY <1>4 DEF Backtrack
  <2>2. \A k \in DOMAIN st' : k \in DOMAIN st /\ st'[k] = st[k]
    BY <1>0, <2>1, BelowDomain
  <2>3. Succ(Payload(st[Len(st)].s)) \subseteq hm
    <3>1. Payloads(st[Len(st)].post) = {}
      BY <2>1 DEF Payloads
    <3>2. Len(st) \in DOMAIN st
      BY <1>0, <2>1, BelowShape
    <3> QED BY <3>1, <3>2 DEF Agenda
  <2>4. ASSUME NEW h \in hm
        PROVE  h \in OnStack' \/ Succ(h) \subseteq hm \cup Payloads(nexts)
    <3>1. CASE \E k \in DOMAIN st : k # Len(st) /\ h = Payload(st[k].s)
      <4>1. PICK k \in DOMAIN st : k # Len(st) /\ h = Payload(st[k].s)
        BY <3>1
      <4>2. k \in DOMAIN st' /\ st'[k] = st[k]
        BY <1>0, <2>1, <4>1, BelowDomain
      <4> QED BY <4>1, <4>2 DEF OnStack
    <3>2. CASE h \in OnStack
      <4>1. PICK k \in DOMAIN st : h = Payload(st[k].s)
        BY <3>2 DEF OnStack
      <4> QED BY <2>3, <3>1, <4>1
    <3>3. CASE h \notin OnStack
      BY <2>4, <3>3 DEF Agenda
    <3> QED BY <3>2, <3>3
  <2> QED BY <2>1, <2>2, <2>4 DEF Agenda
<1>5. CASE SpaceEnd
  BY <1>5 DEF SpaceEnd, Agenda, OnStack
<1>6. CASE UNCHANGED vars
  BY <1>6 DEF vars, Agenda, OnStack
<1> QED BY <1>1, <1>2, <1>3, <1>4, <1>5, <1>6 DEF Next

\* Without atomic nodes, both functions end with a set of payloads that is
\* closed under the transitions of the program: nothing was forgotten.
THEOREM ClosedCorrect == Spec => []Closed
<1>1. SpaceInit => (Atomic = {} => Agenda)
  BY AgendaInit
<1>2. Typed /\ (Atomic = {} => Agenda) /\ [Next]_vars => (Atomic = {} => Agenda)'
  BY AgendaStep
<1>3. (Atomic = {} => Agenda) => Closed
  <2> SUFFICES ASSUME Agenda, phase = "done", NEW h \in hm
               PROVE  Succ(h) \subseteq hm
    BY DEF Closed
  <2>1. OnStack = {} /\ Payloads(nexts) = {}
    BY DEF Agenda, OnStack, Payloads
  <2> QED BY <2>1 DEF Agenda
<1> QED BY <1>1, <1>2, <1>3, TypedInit, TypedStep, PTL DEF Spec
-----------------------------------------------------------------------------
(***************************************************************************)
(* Counting.  No two elements of the stack have the same payload, because  *)
(* a payload that is pushed is not on record and all those of the stack    *)
(* are.                                                                    *)
(***************************************************************************)
Distinct ==
  \A j, k \in DOMAIN st : Payload(st[j].s) = Payload(st[k].s) => j = k

Counted == IsFiniteSet(hm) /\ Distinct /\ MetOnce

LEMMA CountedInit == SpaceInit => Counted
<1> SUFFICES ASSUME SpaceInit PROVE Counted
  OBVIOUS
<1>1. /\ st = <<NewElement(init, 0)>> /\ hm = {Payload(init)} /\ i = 0
      /\ mode \in {"breadth", "depth"}
  BY DEF SpaceInit
<1>2. DOMAIN st = {1} /\ Len(st) = 1 /\ st[1].s = init
  BY <1>1 DEF NewElement
<1>3. OnStack = {Payload(init)}
  BY <1>2 DEF OnStack
<1>4. /\ IsFiniteSet(hm) /\ Cardinality(hm) = 1 /\ Cardinality(OnStack) = 1
      /\ Cardinality(hm \ OnStack) = 0
  <2>1. hm \ OnStack = {}
    BY <1>1, <1>3
  <2> QED BY <1>1, <1>3, <2>1, FS_Singleton, FS_EmptySet
<1> QED BY <1>1, <1>2, <1>3, <1>4 DEF Counted, Distinct, MetOnce

\* The payloads of a stack whose states are those of st, with one more state.
LEMMA PushCounts ==
  ASSUME st \in Seq(Element), Counted, NEW stack \in Seq(Element), NEW m \in Machine,
         NEW d \in Nat, Len(stack) = Len(st),
         \A k \in DOMAIN st : stack[k].s = st[k].s,
         Payload(m) \notin hm,
         st' = Append(stack, NewElement(m, d)), hm' = hm \cup {Payload(m)}
  PROVE  /\ IsFiniteSet(hm') /\ Distinct'
         /\ OnStack' \subseteq hm'
         /\ Cardinality(OnStack') = Len(st')
         /\ Cardinality(hm') = Cardinality(hm) + 1
         /\ hm' \ OnStack' = hm \ OnStack
         /\ Cardinality(hm) \in Nat
<1>1. DOMAIN stack = DOMAIN st
  OBVIOUS
<1>2. /\ DOMAIN st' = DOMAIN st \cup {Len(st) + 1}
      /\ \A k \in DOMAIN st : st'[k].s = st[k].s
      /\ st'[Len(st) + 1].s = m
      /\ Len(st) + 1 \notin DOMAIN st
  BY <1>1, PushKeeps
<1>3. OnStack' = OnStack \cup {Payload(m)}
  BY <1>2 DEF OnStack
<1>4. /\ IsFiniteSet(hm) /\ OnStack \subseteq hm /\ Cardinality(OnStack) = Len(st)
      /\ Distinct
  BY DEF Counted, MetOnce
<1>5. IsFiniteSet(OnStack)
  BY <1>4, FS_Subset
<1>6. /\ IsFiniteSet(hm') /\ Cardinality(hm') = Cardinality(hm) + 1
      /\ Cardinality(hm) \in Nat
  BY <1>4, FS_AddElement, FS_CardinalityType
<1>7. Cardinality(OnStack') = Len(st) + 1
  BY <1>3, <1>4, <1>5, FS_AddElement
<1>8. Len(st') = Len(st) + 1
  <2>1. NewElement(m, d) \in Element
    BY NewElementType
  <2> QED BY <2>1
<1>9. Distinct'
  <2> SUFFICES ASSUME NEW j \in DOMAIN st', NEW k \in DOMAIN st',
                      Payload(st'[j].s) = Payload(st'[k].s)
               PROVE  j = k
    BY DEF Distinct
  <2>1. \A x \in DOMAIN st : Payload(st[x].s) \in hm
    BY <1>4 DEF OnStack
  <2> QED BY <1>2, <1>4, <2>1 DEF Distinct
<1> QED BY <1>3, <1>4, <1>6, <1>7, <1>8, <1>9

\* The payloads of the stack without its top.
LEMMA PopCounts ==
  ASSUME st \in Seq(Element), Counted, st # <<>>, st' = Below(st), hm' = hm
  PROVE  /\ Distinct'
         /\ OnStack' \subseteq hm'
         /\ Cardinality(OnStack') = Len(st')
         /\ Cardinality(hm' \ OnStack') = Cardinality(hm \ OnStack) + 1
<1> DEFINE top == Payload(st[Len(st)].s)
<1>1. /\ DOMAIN st' = DOMAIN st \ {Len(st)}
      /\ \A k \in DOMAIN st' : k \in DOMAIN st /\ st'[k] = st[k]
  BY BelowDomain
<1>2. Len(st) \in DOMAIN st /\ Len(st') = Len(st) - 1 /\ Len(st) \in Nat
  BY BelowShape
<1>3. /\ IsFiniteSet(hm) /\ OnStack \subseteq hm /\ Cardinality(OnStack) = Len(st)
      /\ Distinct
  BY DEF Counted, MetOnce
<1>4. OnStack' = OnStack \ {top}
  BY <1>1, <1>2, <1>3 DEF OnStack, Distinct
<1>5. top \in OnStack
  BY <1>2 DEF OnStack
<1>6. IsFiniteSet(OnStack) /\ IsFiniteSet(hm \ OnStack)
  BY <1>3, FS_Subset
<1>7. Cardinality(OnStack') = Len(st')
  <2> HIDE DEF top
  <2>1. Cardinality(OnStack \ {top}) = Cardinality(OnStack) - 1
    BY <1>5, <1>6, FS_RemoveElement
  <2> QED BY <1>2, <1>3, <1>4, <2>1
<1>8. hm' \ OnStack' = (hm \ OnStack) \cup {top}
  BY <1>3, <1>4, <1>5
<1>9. Cardinality(hm' \ OnStack') = Cardinality(hm \ OnStack) + 1
  <2> HIDE DEF top
  <2>1. Cardinality((hm \ OnStack) \cup {top}) = Cardinality(hm \ OnStack) + 1
    BY <1>5, <1>6, FS_AddElement
  <2> QED BY <1>8, <2>1
<1>10. Distinct'
  BY <1>1, <1>3 DEF Distinct
<1> QED BY <1>3, <1>4, <1>7, <1>9, <1>10

LEMMA CountedStep ==
  ASSUME Typed, Counted, [Next]_vars
  PROVE  Counted'
<1>0. st \in Seq(Element) /\ i \in Nat /\ mode \in {"breadth", "depth"}
  BY DEF Typed, TypeOK
<1>1. CASE Current
  <2>1. /\ st # <<>> /\ st' = Below(st) /\ hm' = hm /\ i' = i + 1
        /\ mode = "breadth" /\ mode' = mode
    BY <1>1 DEF Current
  <2>2. i = Cardinality(hm \ OnStack) /\ IsFiniteSet(hm)
    BY <2>1 DEF Counted, MetOnce
  <2>3. /\ Distinct' /\ OnStack' \subseteq hm' /\ Cardinality(OnStack') = Len(st')
        /\ Cardinality(hm' \ OnStack') = Cardinality(hm \ OnStack) + 1
    BY <1>0, <2>1, PopCounts
  <2> QED BY <2>1, <2>2, <2>3 DEF Counted, MetOnce
<1>2. CASE Visit
  <2>1. PICK n \in nexts : n \in Machine /\ Visits(n)
    BY <1>2, VisitParts
  <2>2. depth \in Nat /\ mode = "breadth" /\ mode' = mode /\ i' = i
    BY <1>2, <2>1, VisitParts DEF Visits
  <2>3. CASE Payload(n) \in hm
    BY <2>1, <2>2, <2>3 DEF Visits, Counted, Distinct, MetOnce, OnStack
  <2>4. CASE Payload(n) \notin hm
    <3>1. st' = Append(st, NewElement(n, depth)) /\ hm' = hm \cup {Payload(n)}
      BY <2>1, <2>4 DEF Visits, Insert
    <3>2. /\ IsFiniteSet(hm') /\ Distinct' /\ OnStack' \subseteq hm'
          /\ Cardinality(OnStack') = Len(st') /\ hm' \ OnStack' = hm \ OnStack
      BY <1>0, <2>1, <2>2, <2>4, <3>1, PushCounts
    <3> QED BY <2>2, <3>2 DEF Counted, MetOnce
  <2> QED BY <2>3, <2>4
<1>3. CASE Descend
  <2>1. PICK n \in Machine, left \in Seq(Element) : Descends(n, left)
    BY <1>3, DescendParts
  <2>2. mode = "depth" /\ mode' = mode
    BY <1>3 DEF Descend
  <2>3. /\ Len(left) = Len(st) /\ DOMAIN left = DOMAIN st
        /\ \A k \in DOMAIN st : left[k].s = st[k].s
    BY <1>0, <2>1 DEF Descends
  <2>4. CASE Payload(n) \in hm
    <3>1. st' = left /\ UNCHANGED <<hm, i>>
      BY <2>1, <2>4 DEF Descends
    <3>2. OnStack' = OnStack /\ (Distinct <=> Distinct')
      BY <2>3, <3>1 DEF OnStack, Distinct
    <3> QED BY <2>2, <2>3, <3>1, <3>2 DEF Counted, MetOnce
  <2>5. CASE Payload(n) \notin hm
    <3>1. /\ st' = Append(left, NewElement(n, depth)) /\ hm' = hm \cup {Payload(n)}
          /\ i' = i + 1 /\ depth \in Nat
      BY <1>0, <2>1, <2>5 DEF Descends, Insert
    <3>2. /\ IsFiniteSet(hm') /\ Distinct' /\ OnStack' \subseteq hm'
          /\ Cardinality(OnStack') = Len(st')
          /\ Cardinality(hm') = Cardinality(hm) + 1 /\ Cardinality(hm) \in Nat
      BY <1>0, <2>1, <2>3, <2>5, <3>1, PushCounts
    <3> QED BY <2>2, <3>1, <3>2 DEF Counted, MetOnce
  <2> QED BY <2>4, <2>5
<1>4. CASE Backtrack
  <2>1. st # <<>> /\ st' = Below(st) /\ hm' = hm /\ i' = i /\ mode = "depth" /\ mode' = mode
    BY <1>4 DEF Backtrack
  <2>2. i = Cardinality(hm) - 1 /\ IsFiniteSet(hm)
    BY <2>1 DEF Counted, MetOnce
  <2>3. Distinct' /\ OnStack' \subseteq hm' /\ Cardinality(OnStack') = Len(st')
    BY <1>0, <2>1, PopCounts
  <2> QED BY <2>1, <2>2, <2>3 DEF Counted, MetOnce
<1>5. CASE SpaceEnd \/ UNCHANGED vars
  <2>1. UNCHANGED <<st, hm, i, mode>>
    BY <1>5 DEF SpaceEnd, vars
  <2>2. OnStack' = OnStack /\ (Distinct <=> Distinct')
    BY <2>1 DEF OnStack, Distinct
  <2> QED BY <2>1, <2>2 DEF Counted, MetOnce
<1> QED BY <1>1, <1>2, <1>3, <1>4, <1>5 DEF Next

\* Each state is pushed, and so printed, at most once, in both functions.
THEOREM MetOnceCorrect == Spec => []MetOnce
<1>1. Counted => MetOnce
  BY DEF Counted
<1>2. Typed /\ Counted /\ [Next]_vars => Counted'
  BY CountedStep
<1> QED BY <1>1, <1>2, CountedInit, TypedInit, TypedStep, PTL DEF Spec

-----------------------------------------------------------------------------
(***************************************************************************)
(* What is printed is the state space.  Reach is a recursion, from the     *)
(* initial state, whose step adds what follows.                            *)
(***************************************************************************)
Spread(X, j, T) == X \cup UNION {Post(m) : m \in X}
Before(j, T) == j - 1

R == INSTANCE Recursion_proof WITH Step <- Spread, Back <- Before

LEMMA ReachSteps ==
  /\ Reach(0) = {init}
  /\ \A k \in Nat : Reach(k + 1) = Reach(k) \cup UNION {Post(m) : m \in Reach(k)}
<1>1. \A k : Reach(k) = R!Iterate(Nat, {init}, <<>>, k)
  BY DEF Reach, R!Iterate, Spread, Before
<1>2. /\ R!Iterate(Nat, {init}, <<>>, 0) = {init}
      /\ \A k \in Nat : R!Iterate(Nat, {init}, <<>>, k + 1)
                           = Spread(R!Iterate(Nat, {init}, <<>>, k), k + 1, <<>>)
  BY R!CountDown, Zenon DEF Before
<1> QED BY <1>1, <1>2 DEF Spread

\* In breadth, the states that wait can be reached in as many transitions as
\* the depth they are given.
Depths ==
  mode = "breadth" =>
    /\ \A k \in DOMAIN st : st[k].s \in Reach(st[k].depth)
    /\ nexts \subseteq Reach(depth)

LEMMA DepthsInit == SpaceInit => Depths
<1> SUFFICES ASSUME SpaceInit PROVE Depths
  OBVIOUS
<1>1. st = <<NewElement(init, 0)>> /\ nexts = {}
  BY DEF SpaceInit
<1>2. \A k \in DOMAIN st : st[k].s = init /\ st[k].depth = 0
  BY <1>1 DEF NewElement
<1> QED BY <1>1, <1>2, ReachSteps DEF Depths

LEMMA DepthsStep ==
  ASSUME Typed, Depths, [Next]_vars
  PROVE  Depths'
<1> SUFFICES ASSUME mode' = "breadth"
             PROVE  /\ \A k \in DOMAIN st' : st'[k].s \in Reach(st'[k].depth)
                    /\ nexts' \subseteq Reach(depth')
  <2>1. init' = init
    BY DEF Next, Current, Visit, Descend, Backtrack, SpaceEnd, vars
  <2>2. \A k : Reach(k)' = Reach(k)
    BY <2>1 DEF Reach
  <2> QED BY <2>1, <2>2 DEF Depths, Reach
<1>1. mode = "breadth" /\ st \in Seq(Element)
  BY DEF Next, Current, Visit, Descend, Backtrack, SpaceEnd, vars, Typed, TypeOK
<1>2. /\ \A k \in DOMAIN st : st[k].s \in Reach(st[k].depth)
      /\ nexts \subseteq Reach(depth)
  BY <1>1 DEF Depths
<1>3. CASE Current
  <2> DEFINE current == st[Len(st)]
  <2>1. /\ st # <<>> /\ st' = Below(st)
        /\ nexts' = Post(current.s) /\ depth' = NextDepth(current)
    BY <1>3 DEF Current
  <2>2. /\ Len(st) \in DOMAIN st
        /\ \A k \in DOMAIN st' : k \in DOMAIN st /\ st'[k] = st[k]
    BY <1>1, <2>1, BelowShape, BelowDomain
  <2>3. current.s \in Reach(current.depth) /\ current.depth \in Nat
    <3>1. current \in Element
      BY <1>1, <2>2
    <3> QED BY <1>2, <2>2, <3>1 DEF Element
  <2>4. Post(current.s) # {} => depth' = current.depth + 1
    BY <2>1 DEF NextDepth
  <2>5. Post(current.s) \subseteq Reach(current.depth + 1)
    <3>1. \A k \in Nat : \A m \in Reach(k) : Post(m) \subseteq Reach(k + 1)
      BY ReachSteps
    <3> QED BY <2>3, <3>1
  <2>6. nexts' \subseteq Reach(depth')
    BY <2>1, <2>4, <2>5
  <2> QED BY <1>2, <2>2, <2>6
<1>4. CASE Visit
  <2>1. PICK n \in nexts : n \in Machine /\ Visits(n)
    BY <1>4, VisitParts
  <2>2. depth \in Nat /\ depth' = depth /\ nexts' \subseteq nexts
    BY <1>4, <2>1, VisitParts DEF Visit, Visits, Rest
  <2>3. CASE Payload(n) \in hm
    BY <1>2, <2>1, <2>2, <2>3 DEF Visits
  <2>4. CASE Payload(n) \notin hm
    <3>1. st' = Append(st, NewElement(n, depth))
      BY <2>1, <2>4 DEF Visits
    <3>2. /\ DOMAIN st' = DOMAIN st \cup {Len(st) + 1}
          /\ \A k \in DOMAIN st : st'[k] = st[k]
          /\ st'[Len(st) + 1].s = n /\ st'[Len(st) + 1].depth = depth
      BY <1>1, <2>1, <2>2, <3>1, NewElementType
    <3> QED BY <1>2, <2>2, <3>2
  <2> QED BY <2>3, <2>4
<1>5. CASE Descend \/ Backtrack
  BY <1>1, <1>5 DEF Descend, Backtrack
<1>6. CASE SpaceEnd \/ UNCHANGED vars
  BY <1>2, <1>6 DEF SpaceEnd, vars
<1> QED BY <1>3, <1>4, <1>5, <1>6 DEF Next

\* In breadth, the depth printed with a state bounds the length of a shortest
\* path to it, for every program.
THEOREM DepthIsRealCorrect == Spec => []DepthIsReal
<1>1. Depths => DepthIsReal
  BY DEF Depths, DepthIsReal
<1>2. Typed /\ Depths /\ [Next]_vars => Depths'
  BY DepthsStep
<1> QED BY <1>1, <1>2, DepthsInit, TypedInit, TypedStep, PTL DEF Spec

-----------------------------------------------------------------------------
(***************************************************************************)
(* Neither function meets a state that cannot be reached, and without      *)
(* atomic nodes, what is met in the end is closed and holds the initial    *)
(* state: by induction, all that can be reached.                           *)
(***************************************************************************)
Reachable == UNION {Reach(k) : k \in Nat}

LEMMA ReachableClosed ==
  /\ init \in Reachable
  /\ \A m \in Reachable : Post(m) \subseteq Reachable
<1>1. init \in Reachable
  BY ReachSteps DEF Reachable
<1>2. ASSUME NEW m \in Reachable
      PROVE  Post(m) \subseteq Reachable
  <2>1. PICK k \in Nat : m \in Reach(k)
    BY DEF Reachable
  <2>2. k + 1 \in Nat /\ Post(m) \subseteq Reach(k + 1)
    BY <2>1, ReachSteps
  <2> QED BY <2>2 DEF Reachable
<1> QED BY <1>1, <1>2

Sound ==
  /\ \A k \in DOMAIN st : st[k].s \in Reachable /\ st[k].post \subseteq Reachable
  /\ nexts \subseteq Reachable
  /\ hm \subseteq Payloads(Reachable)
  /\ Payload(init) \in hm

LEMMA SoundInit == SpaceInit => Sound
<1> SUFFICES ASSUME SpaceInit PROVE Sound
  OBVIOUS
<1>1. /\ st = <<NewElement(init, 0)>> /\ nexts = {}
      /\ hm = {Payload(init)}
  BY DEF SpaceInit
<1>2. \A k \in DOMAIN st : st[k].s = init /\ st[k].post = Post(init)
  BY <1>1 DEF NewElement
<1> QED BY <1>1, <1>2, ReachableClosed DEF Sound, Payloads

LEMMA SoundStep ==
  ASSUME Typed, Sound, [Next]_vars
  PROVE  Sound'
<1>0. st \in Seq(Element)
  BY DEF Typed, TypeOK
<1>1. init' = init
  BY DEF Next, Current, Visit, Descend, Backtrack, SpaceEnd, vars
<1>2. Reachable' = Reachable
  BY <1>1 DEF Reachable, Reach
<1> SUFFICES
      /\ \A k \in DOMAIN st' : st'[k].s \in Reachable /\ st'[k].post \subseteq Reachable
      /\ nexts' \subseteq Reachable
      /\ hm' \subseteq Payloads(Reachable)
      /\ Payload(init) \in hm'
  BY <1>1, <1>2 DEF Sound, Payloads, Payload
<1>3. CASE Current
  <2>1. /\ st # <<>> /\ st' = Below(st) /\ nexts' = Post(st[Len(st)].s) /\ hm' = hm
    BY <1>3 DEF Current
  <2>2. /\ Len(st) \in DOMAIN st
        /\ \A k \in DOMAIN st' : k \in DOMAIN st /\ st'[k] = st[k]
    BY <1>0, <2>1, BelowShape, BelowDomain
  <2>3. nexts' \subseteq Reachable
    BY <2>1, <2>2, ReachableClosed DEF Sound
  <2> QED BY <2>1, <2>2, <2>3 DEF Sound
<1>4. CASE Visit
  <2>1. PICK n \in nexts : n \in Machine /\ Visits(n)
    BY <1>4, VisitParts
  <2>2. depth \in Nat /\ nexts' \subseteq nexts /\ n \in Reachable
    BY <1>4, <2>1, VisitParts DEF Visits, Sound
  <2>3. CASE Payload(n) \in hm
    BY <2>1, <2>2, <2>3 DEF Visits, Sound
  <2>4. CASE Payload(n) \notin hm
    <3>1. st' = Append(st, NewElement(n, depth)) /\ hm' = hm \cup {Payload(n)}
      BY <2>1, <2>4 DEF Visits, Insert
    <3>2. /\ DOMAIN st' = DOMAIN st \cup {Len(st) + 1}
          /\ \A k \in DOMAIN st : st'[k] = st[k]
          /\ st'[Len(st) + 1].s = n /\ st'[Len(st) + 1].post = Post(n)
      BY <1>0, <2>1, <2>2, <3>1, PushKeeps
    <3> QED BY <2>2, <3>1, <3>2, ReachableClosed DEF Sound, Payloads
  <2> QED BY <2>3, <2>4
<1>5. CASE Descend
  <2>1. PICK n \in Machine, left \in Seq(Element) : Descends(n, left)
    BY <1>5, DescendParts
  <2>2. /\ DOMAIN left = DOMAIN st /\ Len(st) \in DOMAIN st
        /\ n \in st[Len(st)].post /\ depth \in Nat /\ nexts' = nexts
        /\ left[Len(st)].post = st[Len(st)].post \ {n}
        /\ \A k \in DOMAIN st : left[k].s = st[k].s
        /\ \A k \in DOMAIN st : k # Len(st) => left[k] = st[k]
    BY <1>0, <1>5, <2>1 DEF Descends, Descend
  <2>3. n \in Reachable
    BY <2>2 DEF Sound
  <2>4. \A k \in DOMAIN left : left[k].s \in Reachable /\ left[k].post \subseteq Reachable
    <3> SUFFICES ASSUME NEW k \in DOMAIN left
                 PROVE  left[k].s \in Reachable /\ left[k].post \subseteq Reachable
      OBVIOUS
    <3>1. left[k].post \subseteq st[k].post
      BY <2>2
    <3> QED BY <2>2, <3>1 DEF Sound
  <2>5. CASE Payload(n) \in hm
    <3>1. st' = left /\ hm' = hm
      BY <2>1, <2>5 DEF Descends
    <3> QED BY <2>2, <2>4, <3>1 DEF Sound
  <2>6. CASE Payload(n) \notin hm
    <3>1. st' = Append(left, NewElement(n, depth)) /\ hm' = hm \cup {Payload(n)}
      BY <2>1, <2>6 DEF Descends, Insert
    <3>2. /\ DOMAIN st' = DOMAIN left \cup {Len(left) + 1}
          /\ \A k \in DOMAIN left : st'[k] = left[k]
          /\ st'[Len(left) + 1].s = n /\ st'[Len(left) + 1].post = Post(n)
      BY <2>1, <2>2, <3>1, PushKeeps
    <3>3. Payload(n) \in Payloads(Reachable)
      BY <2>3 DEF Payloads
    <3> QED BY <2>2, <2>3, <2>4, <3>1, <3>2, <3>3, ReachableClosed DEF Sound
  <2> QED BY <2>5, <2>6
<1>6. CASE Backtrack
  <2>1. st # <<>> /\ st' = Below(st) /\ nexts' = nexts /\ hm' = hm
    BY <1>6 DEF Backtrack
  <2>2. \A k \in DOMAIN st' : k \in DOMAIN st /\ st'[k] = st[k]
    BY <1>0, <2>1, BelowDomain
  <2> QED BY <2>1, <2>2 DEF Sound
<1>7. CASE SpaceEnd \/ UNCHANGED vars
  BY <1>7 DEF SpaceEnd, vars, Sound
<1> QED BY <1>3, <1>4, <1>5, <1>6, <1>7 DEF Next

\* A closed set of payloads that holds the initial state's holds all that can
\* be reached.
LEMMA ReachMet ==
  ASSUME Atomic = {}, init \in Free, Payload(init) \in hm,
         \A h \in hm : Succ(h) \subseteq hm
  PROVE  \A k \in Nat : Reach(k) \subseteq Free /\ Payloads(Reach(k)) \subseteq hm
<1> DEFINE S == {k \in Nat : Reach(k) \subseteq Free /\ Payloads(Reach(k)) \subseteq hm}
<1>1. 0 \in S
  BY ReachSteps DEF Payloads
<1>2. ASSUME NEW k \in Nat, k \in S
      PROVE  k + 1 \in S
  <2>1. Reach(k + 1) = Reach(k) \cup UNION {Post(m) : m \in Reach(k)}
    BY ReachSteps
  <2>2. ASSUME NEW m \in Reach(k)
        PROVE  Post(m) \subseteq Free /\ Payloads(Post(m)) \subseteq hm
    <3>1. m \in Free /\ Payload(m) \in hm
      BY <1>2 DEF Payloads
    <3> QED BY <3>1, FreePost
  <2>3. Reach(k + 1) \subseteq Free
    BY <1>2, <2>1, <2>2
  <2>4. ASSUME NEW m \in Reach(k + 1)
        PROVE  Payload(m) \in hm
    BY <1>2, <2>1, <2>2 DEF Payloads
  <2> QED BY <2>3, <2>4 DEF Payloads
<1> HIDE DEF S
<1>3. Nat \subseteq S
  BY <1>1, <1>2, R!Induct
<1> QED BY <1>3 DEF S

\* The initial state has no exclusivity, and never changes.
Rooted == init \in Free

\* What the payloads of a search that has ended are: exactly those of the states
\* that can be reached, in any number of transitions.
Printed == phase = "done" => hm = Payloads(Reachable)

\* "prints the state space": without atomic nodes, whatever the program and in
\* whatever order the successors are taken, the function that ends has met the
\* payloads of the reachable states, all of them and no other.
THEOREM PrintedCorrect == ASSUME Atomic = {} PROVE Spec => []Printed
<1>1. SpaceInit => Rooted
  BY BootType DEF SpaceInit, Rooted, Free
<1>2. Rooted /\ [Next]_vars => Rooted'
  BY DEF Rooted, Next, Current, Visit, Descend, Backtrack, SpaceEnd, vars
<1>3. Rooted /\ Sound /\ Closed => Printed
  <2> SUFFICES ASSUME Rooted, Sound, Closed, phase = "done"
               PROVE  Payloads(Reachable) \subseteq hm
    BY DEF Printed, Sound
  <2>1. \A k \in Nat : Payloads(Reach(k)) \subseteq hm
    BY ReachMet DEF Rooted, Sound, Closed
  <2> QED BY <2>1 DEF Payloads, Reachable
<1>4. Typed /\ Sound /\ [Next]_vars => Sound'
  BY SoundStep
<1> QED BY <1>1, <1>2, <1>3, <1>4, SoundInit, ClosedCorrect, TypedInit, TypedStep, PTL DEF Spec

\* So nothing is missed within any number of transitions, be it larger than the
\* one the runs look ahead.
THEOREM AllPrintedCorrect == ASSUME Atomic = {} PROVE Spec => []AllPrinted
<1>1. Printed => AllPrinted
  BY StateSpaceAssumption DEF Printed, AllPrinted, Payloads, Reachable
<1> QED BY <1>1, PrintedCorrect, PTL
=============================================================================
