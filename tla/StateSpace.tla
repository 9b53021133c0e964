----------------------------- MODULE StateSpace -----------------------------
(***************************************************************************)
(* createStateSpaceBFS and createStateSpaceDFS of algorithm/explore.cpp:   *)
(* every state of a program is printed, and with it the states that        *)
(* follow.  The states that were met are known by their hashes, taken here *)
(* to be those of different payloads whenever the payloads differ.  Which  *)
(* of the two functions runs is part of the state.                         *)
(***************************************************************************)
EXTENDS ProgramSemantics, Integers

CONSTANTS
  Starts,   \* the nodes at which the processes of each automaton start
  Initial,  \* the initial value of the variable
  Diameter  \* the number of transitions AllPrinted looks ahead

ASSUME StateSpaceAssumption ==
  /\ Starts \subseteq [Proc -> Node \cup {End}]
  /\ Initial \in Value
  /\ Diameter \in Nat

VARIABLES
  mode,   \* the function that runs: breadth or depth
  init,   \* the initial state
  st,     \* the stack of elements
  hm,     \* the hashes of the states that were met
  nexts,  \* the states that follow the current one and are still to be seen
  depth,  \* the depth given to them, or to the next state of a path
  i,      \* the states counted: those printed as current, or those pushed
  phase

vars == <<mode, init, st, hm, nexts, depth, i, phase>>

\* elementStack::element: the states that follow are computed at once.
Element == [s : Machine, depth : Nat, post : SUBSET Machine]

Post(m) == {Applied(m, t) : t \in Executables(m)}

NewElement(m, d) == [s |-> m, depth |-> d, post |-> Post(m)]

\* The element's constructor fails on a statement that cannot be executed.
Failing(m) == Fatal(m) \/ \E t \in Executables(m) : ~Applicable(m, t)

SpaceInit ==
  /\ mode \in {"breadth", "depth"}
  /\ \E x \in Starts : init = Boot(x, Initial)
  /\ st = <<NewElement(init, 0)>>
  /\ hm = {Payload(init)}
  /\ nexts = {}
  /\ depth = 0
  /\ i = 0
  /\ phase = IF Failing(init) THEN "aborted" ELSE "running"

\* (Mutant: the depth is not increased.)
NextDepthSame(current) == current.depth

NextDepth(current) ==
  IF Post(current.s) # {} THEN current.depth + 1 ELSE current.depth

\* (Mutant: two elements are removed.)
BelowTwo(stack) == SubSeq(stack, 1, Len(stack) - 2)

Below(stack) == SubSeq(stack, 1, Len(stack) - 1)

\* The state on top of the stack is printed and removed.
Current ==
  /\ phase = "running" /\ mode = "breadth"
  /\ nexts = {}
  /\ st # <<>>
  /\ LET current == st[Len(st)] IN
       /\ nexts' = Post(current.s)
       /\ depth' = NextDepth(current)
  /\ st' = Below(st)
  /\ i' = i + 1
  /\ UNCHANGED <<mode, init, hm, phase>>

\* (Mutant: the hash is not recorded.)
InsertNot(set, m) == set

\* hm.insert
Insert(set, m) == set \cup {Payload(m)}

\* (Mutants: only one of the states that follow is seen; it is seen forever.)
RestNone(set, n) == {}
RestKeep(set, n) == set

\* The states after n in the list.
Rest(set, n) == set \ {n}

Checked(n) == IF Failing(n) THEN "aborted" ELSE "running"

\* A state that follows is pushed, unless its hash is known.
Visit ==
  /\ phase = "running"
  /\ \E n \in nexts :
       /\ nexts' = Rest(nexts, n)
       /\ IF Payload(n) \in hm
          THEN UNCHANGED <<st, hm, phase>>
          ELSE /\ st' = Append(st, NewElement(n, depth))
               /\ hm' = Insert(hm, n)
               /\ phase' = Checked(n)
  /\ UNCHANGED <<mode, init, depth, i>>

\* (Mutant: the depth is that of the element left, not one less.)
BacktrackSame ==
  /\ phase = "running" /\ mode = "depth"
  /\ st # <<>>
  /\ st[Len(st)].post = {}
  /\ st' = Below(st)
  /\ UNCHANGED <<mode, init, hm, nexts, depth, i, phase>>

\* In depth: the next state that follows the top is pushed on it and counted,
\* unless its hash is known.
Descend ==
  /\ phase = "running" /\ mode = "depth"
  /\ st # <<>>
  /\ \E n \in st[Len(st)].post :
       LET left == [st EXCEPT ![Len(st)].post = Rest(@, n)]
       IN  IF Payload(n) \in hm
           THEN /\ st' = left
                /\ UNCHANGED <<hm, depth, i, phase>>
           ELSE /\ st' = Append(left, NewElement(n, depth))
                /\ hm' = Insert(hm, n)
                /\ depth' = depth + 1
                /\ i' = i + 1
                /\ phase' = Checked(n)
  /\ UNCHANGED <<mode, init, nexts>>

\* In depth: nothing is left to follow the top, which is removed.
Backtrack ==
  /\ phase = "running" /\ mode = "depth"
  /\ st # <<>>
  /\ st[Len(st)].post = {}
  /\ st' = Below(st)
  /\ depth' = depth - 1
  /\ UNCHANGED <<mode, init, hm, nexts, i, phase>>

\* The number of states is printed.
SpaceEnd ==
  /\ phase = "running"
  /\ nexts = {}
  /\ st = <<>>
  /\ phase' = "done"
  /\ UNCHANGED <<mode, init, st, hm, nexts, depth, i>>

Next == Current \/ Visit \/ Descend \/ Backtrack \/ SpaceEnd

Spec == SpaceInit /\ [][Next]_vars

\* The search is sequential code that runs until it ends.
FairSpec == Spec /\ WF_vars(Next)
-----------------------------------------------------------------------------
(* Properties *)

TypeOK ==
  /\ mode \in {"breadth", "depth"}
  /\ init \in Machine
  /\ st \in Seq(Element)
  /\ hm \subseteq [loc : [Proc -> Node \cup {End}], val : Value]
  /\ nexts \subseteq Machine
  /\ depth \in Int /\ i \in Nat
  /\ (mode = "breadth" => depth \in Nat)
  /\ phase \in {"running", "done", "aborted"}

OnStack == {Payload(st[k].s) : k \in DOMAIN st}

\* No state is printed twice, nor waits twice.  In breadth, those that were met
\* and do not wait on the stack are as many as were counted; in depth the
\* initial state is never counted ("number of states" is one less).
MetOnce ==
  /\ Cardinality(OnStack) = Len(st)
  /\ OnStack \subseteq hm
  /\ i = IF mode = "breadth" THEN Cardinality(hm \ OnStack) ELSE Cardinality(hm) - 1

\* The states that can be reached in n transitions at most.
Reach(n) ==
  LET R[k \in Nat] ==
        IF k = 0 THEN {init} ELSE R[k - 1] \cup UNION {Post(m) : m \in R[k - 1]}
  IN R[n]

\* In breadth, what is met can be reached by as many transitions as the depth
\* says.
DepthIsReal ==
  mode = "breadth" => \A k \in DOMAIN st : st[k].s \in Reach(st[k].depth)

\* In depth, the stack is a path of the program, and depth, which goes up and
\* down with it and names the next state, is the number of its transitions; an
\* element has that of the element below it.
StackIsPath ==
  mode = "depth" =>
    /\ depth = Len(st) - 1
    /\ \A k \in 2 .. Len(st) :
         /\ st[k].s \in Post(st[k - 1].s)
         /\ st[k].depth = k - 2

\* "prints the state space": when the search ends, what any sequence of
\* transitions leads to has been met.  Diameter bounds their number.
AllPrinted ==
  phase = "done" => {Payload(m) : m \in Reach(Diameter)} \subseteq hm

\* The payloads that follow a payload when no process has exclusivity.
Succ(h) ==
  {Payload(m) : m \in Post([loc |-> h.loc, val |-> h.val, excl |-> None, last |-> First])}

\* Without atomic nodes, the states met when the search ends are closed under
\* the transitions of the program: no set of states is forgotten on the way, in
\* whatever order the successors were taken, and however their hashes met.
Closed == phase = "done" /\ Atomic = {} => \A h \in hm : Succ(h) \subseteq hm

Terminates == <>(phase # "running")
=============================================================================
