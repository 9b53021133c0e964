-------------------------- MODULE ProgramExecution --------------------------
(***************************************************************************)
(* launchExecution of algorithm/explore.cpp: a program is run by taking    *)
(* one of its executable transitions at random, B times at most.           *)
(***************************************************************************)
EXTENDS ProgramSemantics

CONSTANTS
  Starts,  \* the nodes at which the processes of each automaton start
  Initial, \* the initial value of the variable
  B        \* the bound of the code (5 there)

ASSUME ExecutionAssumption ==
  /\ Starts \subseteq [Proc -> Node \cup {End}]
  /\ Initial \in Value
  /\ B \in Nat \ {0}

VARIABLES machine, i, phase

vars == <<machine, i, phase>>

ExecutionInit ==
  /\ \E s \in Starts : machine = Boot(s, Initial)
  /\ i = 0
  /\ phase = "running"

\* An assertion fails: in executables(), or in the apply() of the transition
\* that was drawn.
ExecutionAbort ==
  /\ phase = "running"
  /\ \/ Fatal(machine)
     \/ \E t \in Executables(machine) : ~Applicable(machine, t)
  /\ phase' = "aborted"
  /\ UNCHANGED <<machine, i>>

\* (Mutant: the bound is forgotten.)
BoundedNot(n) == "running"

\* The loop leaves on i >= B.
Bounded(n) == IF n >= B THEN "cut" ELSE "running"

\* (Mutant: the steps are not counted.)
ExecutionStepUncounted ==
  /\ phase = "running"
  /\ ~Fatal(machine)
  /\ \E t \in Executables(machine) :
       /\ Applicable(machine, t)
       /\ machine' = Applied(machine, t)
  /\ i' = i
  /\ phase' = Bounded(i)

\* current->apply(sampleUniform(current->executables()))
ExecutionStep ==
  /\ phase = "running"
  /\ ~Fatal(machine)
  /\ \E t \in Executables(machine) :
       /\ Applicable(machine, t)
       /\ machine' = Applied(machine, t)
  /\ i' = i + 1
  /\ phase' = Bounded(i + 1)

\* sampleUniform of an empty list is null.
ExecutionEnd ==
  /\ phase = "running"
  /\ ~Fatal(machine)
  /\ Executables(machine) = {}
  /\ phase' = "ended"
  /\ UNCHANGED <<machine, i>>

Next == ExecutionAbort \/ ExecutionStep \/ ExecutionEnd

Spec == ExecutionInit /\ [][Next]_vars

\* The loop is sequential code that runs until it ends.
FairSpec == Spec /\ WF_vars(Next)
-----------------------------------------------------------------------------
(* Properties *)

\* State of the run; the loop is left as soon as B transitions are taken.
TypeOK ==
  /\ machine \in Machine
  /\ i \in 0 .. B
  /\ phase \in {"running", "cut", "ended", "aborted"}
  /\ phase = "running" => i < B

\* Exclusivity is not stale: it belongs to the process that took the last step,
\* while that process is in an atomic sequence, and to no other.  It is what
\* progState::apply asserts, and that nobody else keeps exclusivity.
ExclusiveIsLast ==
  \A p \in Proc :
    machine.excl = p <=> i > 0 /\ machine.last = p /\ InAtomic(machine, p)

Promela == INSTANCE PromelaInterleaving WITH
  loc <- machine.loc, val <- machine.val, status <- phase,
  last <- IF i = 0 THEN None ELSE machine.last

\* The run is one the interleaving semantics of Promela allows: executables()
\* finds the transitions by dropping exclusivity, then by setting timeout, and
\* process::executables by setting _else, yet atomic sequences are interrupted,
\* timeout passes and the run ends only when the language says so.
ImplementsPromela == Promela!Spec

\* The loop ends: B transitions are taken at most.
Terminates == <>(phase # "running")
=============================================================================
