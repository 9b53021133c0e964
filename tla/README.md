# Daedalux in TLA+

Daedalux executes and model-checks *product lines* of Promela programs: programs
whose transitions may carry a feature expression, with a feature model (TVL)
that says which selections of features are products. One search covers all
products at once: a state carries the set of the products that can reach it.

This directory holds TLA+ modules for its core, TLC configurations that check
them on small instances, and proofs checked by TLAPS. Paths below are relative
to `src/src/` of the repository.

## 1. The system

| component | state it keeps | operations |
|---|---|---|
| nested depth-first search, `algorithm/explore.cpp` `ltlModelChecker`, `algorithm/elementStack.cpp` | two stacks of elements (a state, the list of its successors, a depth), a set of the hashes on a stack, statistics | `startNestedDFS`, `outerDFS`, `innerDFS`, `printElementStack`; `push`, `pop`, `top`, `isIn` |
| reachability relation, `algorithm/reachabilityRelation.cpp` | per state hash, the products each search met it with, per featured component; which products already failed | `init`, `getStatus`, `update`, `setDFS`, `addTraceViolation`, `getFailedProducts` |
| state-space exploration, `algorithm/explore.cpp` | the same stack, a set of hashes (or a reachability relation), a counter | `createStateSpaceBFS`, `createStateSpaceDFS`, `createStateSpaceDFS_RR`, `launchExecution`, `findLasso` |
| trace generation, `algorithm/explore.cpp` | a state of the original and one of the mutant, the trace so far | `generateNegativeTraces`, `generateTraces` |
| Markov-chain execution, `algorithm/explore.cpp` | the current state, a scheduler file | `launchExecutionMarkovChain`, `fireNonActionTransition` |
| featured states, `feature/semantic/` | the products of a state and the feature diagram | `executables`, `apply`, `constraint`, `compare` |
| program state, `promela/semantic/variable/state/programState.cpp`, `process.cpp` | processes with a node and variables, the process that is in an atomic sequence, the handshake in progress, timeout | `executables`, `apply`, `addProcess`, exclusivity, handshake |
| never claim and composite states, `never.cpp`, `compositeState.cpp`, `thread.cpp` | the node of the claim, the sub-states | product of the executables, `apply`, acceptance |
| channels, `promela/semantic/variable/channel.cpp` | length and fields in the payload | `send`, `receive`, `reset`, `len` |
| variables and payload, `primitiveVariable.cpp`, `core/semantic/payload.cpp` | bytes | `getValue`, `setValue` with the width of the type, `hash` |
| control flow automata, `core/automata/` | nodes, edges, the end transitions in flight | `astToFsm`, `orderAcceptingTransitions`, `fsmToAst` |
| feature model, `feature/` | decision diagrams of the TVL clauses | `loadFeatureModel`, `expToADD` |
| syntax tree, symbol tables, parser | the program | grammar actions, mutation of nodes, `print` |
| command line, visualizer | options, files | dispatch, output |

**How they interact.** The parser builds a syntax tree and symbol tables;
`ASTtoFSM` turns every process into an automaton; `initState` builds the initial
state out of processes, program state, featured decorator, never claim and, when
several systems are composed, a composite state. A search calls `state::Post()`,
which asks every sub-state for its executable transitions and applies each to a
copy. The search talks to the reachability relation, which reads and *narrows*
the features of the states it is given, through visitors: this is the shared
state on which the soundness of the featured search rests.

**What runs at this commit.** The program built is `main_cli.cpp`, without
`NDEBUG`. `generateTraces` and `launchExecutionMarkovChain` are called;
`main.cpp` and `cli/modelchecking_subcommand.cpp` have the calls to
`startNestedDFS`, `createStateSpace*` and `launchExecution` commented out: these
are reached by restoring one line, and are what the documentation describes as
model-checking. Two more things stand between them and a run. `state::apply`
(`state.cpp:95`) asserts that the copy knows the transition it comes from, which
`compState::apply` never records, so every `Post()` of a composite state ends the
program when assertions are compiled in: the searches are modelled as they run
without that assertion. And `progState::executables` wraps its transitions, so
`featStateDecorator` does not find the feature expression on them and
`progState::apply` asserts when it meets one: `FeaturedGraph` models the
interface `featStateDecorator` implements, `ProgramSemantics` what the program
does with such an edge. For the same reason `launchExecutionMarkovChain` never
gets past its first draw (section 6), so it has no run to model.

**What is hard.** Nothing here runs in threads; the interleavings are those of
two searches that share one relation, of products that share one state, and of
the processes of the Promela program. The behaviours a test would hardly reach:

* a state is met again with other products, is narrowed to the new ones, pushed,
  and met again before its first exploration is over;
* the inner search walks on the record the outer search left, interleaved with
  it, and leaves a record that later inner searches skip;
* products that shared the stem of a trace part on the loop;
* several featured components are narrowed one by one although their products
  come in pairs;
* the visitor that builds automata keeps loose ends, breaks, flags and formulas in
  one set of variables that nested statements share, and deletes nodes other
  tables still point to;
* the variables of a state are laid out while they are being filled, each counted
  from its parent, and a state is copied part by part;
* atomic sequences, `else`, `timeout` and rendezvous change what a process may do
  depending on what all the others may do.

`PROJECT.json` lists these hazards at the lines where they bite, with the
properties that cover them.

## 2. The modules

| module | models |
|---|---|
| `FeaturedGraph` | the graph `state::Post()` unfolds: `featStateDecorator::executables` and `apply`, `ERR_DEADLOCK`; and, as a reference, what one product can do on its own |
| `ReachabilityRelation` | `reachabilityRelation.cpp` |
| `NestedDFS` | `startNestedDFS`, `outerDFS`, `innerDFS`, the element stack; its properties |
| `LTLVerdict` | the abstract specification: one answer, right for every product |
| `MCNestedDFS` | instances for TLC |
| `NestedDFS_proof` | types of the search, and the invariant of its stacks |
| `NestedDFSVerdict_proof` | its answers: traces, coverage, acceptance cycles |
| `ProgramSemantics` | `progState` and `process`: `executables` and `apply`, as operators on a machine; `ProgramExecution`, `StateSpace` and `TraceGeneration` extend it |
| `ProgramExecution` | `launchExecution` |
| `PromelaInterleaving` | the abstract specification of a run: the interleavings Promela allows, without exclusivity and without asking twice |
| `StateSpace` | `createStateSpaceBFS` and `createStateSpaceDFS` |
| `TraceGeneration` | `generateNegativeTraces` |
| `MCProgramExecution`, `MCStateSpace`, `MCTraceGeneration` | instances for TLC |
| `Recursion_proof` | induction on the natural numbers, and what a function defined by recursion on them is, for any step |
| `ProgramSemantics_proof` | lemmas on `executables` and `apply` that the next three share |
| `ProgramExecution_proof`, `StateSpace_proof`, `TraceGeneration_proof` | the theorems on runs of a program, on exploration and on traces |
| `ControlFlow` | `ASTtoFSM`, `expToADD`: a procedure to its automaton, and a walk of that automaton |
| `PromelaControl` | the abstract side: where control may go, read off the text |
| `RegularText` | the texts the translation is right for, a condition per line of code that makes it necessary |
| `MCControlFlow` | the texts TLC tries |
| `VariableTree` | `variable`, `primitiveVariable`, `payload`, and the calls of `initState` that build a state |
| `ValueStore` | the abstract side: a state is a function from variables to values |
| `MCVariableTree` | the types of leaves TLC tries |
| `VariableTree_proof` | the theorems on the layout of variables, the bytes of values, and the refinement |

`NestedDFS` is composed of `FeaturedGraph` and `ReachabilityRelation`; three loops
share `ProgramSemantics`; `ControlFlow` yields what `ProgramSemantics` takes as
data (nodes, edges, atomic nodes), `VariableTree` the payload whose hash all
searches rely on.

**Features are sets of products.** A CUDD diagram over the feature variables is
the set of the selections it maps to a non-zero value; `addOne()` is `Product`,
the feature diagram is `Valid`. A composite state has one set per featured
system (`Comp`); `Comp = {}` is a model without features. All of the code's
operations on diagrams become operations on sets.

**States are hashes.** `State` is the set of composite states as the relation
and the stack tell them apart, by hash; collisions are not modelled. A graph
gives the edges with their feature sets, the initial state, the accepting states,
the states in which the never claim is at its end, and those in which it has an
executable transition. The graph is an input of the search: a variable that
`NestedInit` draws from `Graphs` and no step changes.

**One action is one turn of a loop.** `OuterStep` takes any member of the list
`Post` (the code takes the first; the list's order is that of the automaton's
edges, which the graph does not fix), asks for its status, narrows and records it
as `update` does, and pushes it. `OuterSeed` starts the inner search, as
`outerDFS` does when all transitions of an accepting state were fired, and
`InnerReturn` is the rest of that turn. An assertion that fails, a deadlock and
"Bug!" end the process in a verdict of their own.

Left out: `lastFoundIn`, `_depth` and the statistics other than
`_nbStatesExplored`, which nothing reads back; the `ERR_ASSERT_FAIL` branch, which
no code of this commit can enable; what is printed.

**A machine is a program state.** `loc` gives the node of every process, `val` the
one variable that stands for all, `excl` and `last` are `exclusiveProc` and
`lastStepPid`. A transition carries one statement; those told apart are the ones
`process::eval` and `process::apply` treat differently. `Executables` is the whole
of `progState::executables`, the recursive calls included: without anything to
execute, first exclusivity is dropped, then `timeout` is set; in the same way
`Ready` is `process::executables` with and without `_else`. The handshake is not a
variable: it is empty whenever a call returns. `Payload` is what `hash()` and
`compare()` see: the nodes (pointers, so that automata loaded twice share none) and
the variable, not the process with exclusivity. A communication never completes
at this commit, and `Fatal` says when a send ends the program.

The order of the list of transitions is not fixed by the model: where the code
takes the first or draws one, the model takes any. `rand()` is a free choice.

**Two explorations in one module.** `mode` says whether `createStateSpaceBFS` or
`createStateSpaceDFS` runs. They share the stack, the set of hashes and what
follows a state; `Current` and `Visit` are the turns of the first, `Descend` and
`Backtrack` those of the second. An element holds the states that follow its own
from the push on, as the constructor of `elementStack::element` computes them.

**The pairs of `TraceGeneration`.** The command line loads the original and the
mutant from two files: their nodes differ and their states never compare equal.
Only a caller that gives the function one automaton twice reaches the branch that
compares; the instance has both kinds of pairs, so that the branch is checked too.
`Automata` has the set of nodes of each automaton in memory; a pair is two of them,
or one and the same with the same starting nodes.

The refinement `ProgramExecution => PromelaInterleaving` (property
`ImplementsPromela`) forgets `excl` and reads `last` as nobody before the first
step: what keeps atomic sequences whole must follow from who stepped last.

**An automaton and its text.** The visitor of `ControlFlow` is a record that each
visit turns into another, and the recursion over statements is that of the C++
visitors: what one visit saves in locals and restores, and what it leaves in the
shared record, is as in the code. `Init` builds the automaton of a text; then a
process walks it one edge at a time (`Fire`), and `PromelaControl` says at each
step what is left to do in the text. There is no node on that side, so the
properties compare what the automaton offers with what the language says, for
which products, and whether flags are set where the text says. Statements are
numbered places; what an assignment or a send does is no concern of control.

**A state and its memory.** A tree of variables is the sequence of its variables in
the order of their construction, which is also the order of the lists `varList`: a
node has its type, its raw bytes, the value declared, the number of its parent (0
for none) and its offset from that parent. What the code computes by descending
into `varList` (`getSizeOf`, `getVariables`) is said of the numbers of the
variables that lie `Within` another one; what it computes by ascending (`getOffset`)
is a function on those numbers. `open` is the stack of variables that are being
filled: `initState` fills a variable before it attaches it, and `AddVariable` gives
it the offset its parent has reached by then. `Load` ends building: memory is
`Cleared`, declarations are evaluated, threads put at their first node (`Declared`). A memory cell
is a digit of base `Radix`. `states` maps the handles that live, and no other, to a
tree and a payload. Calls on the state take a variable by its number, where the
program finds it by name. The refinement `VariableTree => ValueStore` (property
`ImplementsStore`) forgets the tree: what a variable holds is decoded from the
payload at the offset the tree gives. `call` records the last call so that the
abstract side knows what was asked, not what became of it: of `Load`, the values
declared, so that the refinement says that they are what memory holds at first.

The refinement `NestedDFS => LTLVerdict` (property `Decides`) reads the search
as one answer: searching, then satisfied, violated, or aborted.

## 3. The runs

`nested_dfs` (one system, three selections `p`, `q`, `z` of which the diagram
allows `p` and `q`; every connected automaton over three states with at most
three featured transitions, and every automaton with up to five in which a state
is met once per product) checks everything stated of the search. Three states are
enough for an accepting state, a state on its cycle that is met twice, and the end
of the claim; two valid products for one to be met after the other; one invalid
selection to tell `One` from `Valid`. About 167,000 states.

`satisfied_is_right` and `systems_coverage` run the search without features and
with two featured systems of two products each, on small graphs: every one with at
most four transitions on three states, and those in which one state is met twice
with any two pairs of selections and has a successor for any third. What holds
there is proved for every number of systems (section 4), so no passing run repeats
it: the theorems marked (1) hold for at most one system, which includes none.

`program_execution` runs two processes from every pair of nodes out of 40, which
offer any one or two of `test`, `assign`, `else`, `timeout`, or a send, a receive,
an `assert` or a featured `skip`, in an atomic sequence or not; from there they go
to one of five nodes chosen so that a process in an atomic sequence is blocked, or
falls to `else`, beside one that goes on or waits for `timeout`. `B = 4` is enough
to enter an atomic sequence, be blocked in it, and see another process step in
between (the code has 5).

`state_space` runs both explorations on programs of a process that ends and one
that loops, each with any two statements out of six or a send, and no atomic
sequence: 161,000 states. `AllPrinted` compares what was met with what eight
transitions can reach, which is all: the two processes make three moves, and the
loop, which assigns 0 or nothing, is worth a turn after each. With atomic sequences
`state_space_exhaustive` is violated. Two different states whose hashes are equal
are not modelled: the exploration would drop one.

`trace_generation` follows traces of four transitions (the code has 200) on pairs
of programs that are the same, copies, or copies with one statement replaced. Four
steps are enough for the programs to be told apart, and to be blocked afterwards.

`control_flow` translates 2,834 texts and walks each automaton: every pair of
fourteen options under an `if` or a `do`, with a third option, or with an inner
`if`, `do` or atomic sequence in one of them, inside an atomic sequence, under a
label, before and after other statements. The nesting is two deep because what
goes wrong in a visitor goes wrong between a statement and the one around it: each
visit saves, sets and restores once. Of the candidates only those of `RegularText`
are kept. A text outside it is translated into another program, and each condition
there names the line that makes it necessary. What the five properties of this run
show is therefore limited to regular texts; they say nothing of

* an option that starts with a loop, a jumped-to label or a goto (`astToFsm.cpp:195`,
  `284`, `359`),
* a break followed by a loop in the same option (`288`),
* a label or another atomic sequence inside an atomic sequence, and a label on a
  statement with several nodes to mark (`339`, `327`),
* a condition that names both features and variables (`expToADD.cpp:97`).

`statements_kept` shows the first of these go wrong; section 6 lists the rest, as
read in the code. 16,600 states.

`variable_tree` builds every tree of up to five variables, the root included, in
the order the program builds them, out of systems, claims, processes, structures,
channels with and without a buffer, and three types of leaf: `bool`, whose bounds
are narrower than its byte, `int`, the widest and signed, and `cmtype`, which has
no memory. Five variables allow a process after a global variable, two leaves in
one process, and a second system beside the first one; two calls on two states
allow a write before or after a copy, and writes to two variables. Memory has base
four and a pointer one cell, so that every value of a `bool` and the bounds of an
`int` (four cells) keep their place. 74,000 states. The theorems of section 4 drop all of
these bounds.

Each `violation` run checks one statement of the repository's documentation,
comments or assertions that the code does not keep; section 6 lists them.

**Fairness.** Where liveness is checked, `FairSpec` adds `WF_vars(Next)`: a search, a run, an exploration or a
trace is one sequential loop which the operating system runs until it ends. Nothing stronger is needed.
Deadlock checking is off where the system really stops: a search that has its
verdict, a run that ended, a state that was deleted. A walk of an automaton goes
on for ever (`Ended`), and deadlock is checked: wherever control is, text and
automaton must agree on a step.

**Bounds.** Nothing counts without bound: `nbExplored` and `nbErrors` are bounded
by the number of states and by one. The bounds are the sets `MCGraphs`,
`PlainGraphs` and `SystemGraphs` in `MCNestedDFS`.

## 4. The proofs

The theorems hold for every set of states, products, components and graphs, under
`ProductAssumption` (the diagram allows some product, and only selections) and
`GraphsAssumption` (the graphs are `WellFormed`: the never claim can move in the
initial state and where a transition leaves, and cannot at its end; the constraint
of each system leaves some selection, valid or not, and is no constraint when there
is at most one system). All of these the program asserts or has by construction.
Those marked (1) also assume `OneSystem`: there is at most one featured component;
`systems_coverage` shows they fail for two.

`TraceCorrect` and `ViolatedCorrect` hold for any number of systems, of the graphs in
which some valid product meets the constraints of all systems (`Runs(graph) # {}`,
stated in the theorems). With one system that is always so (`SomeRun`). With more,
the program does not check it: `createProgState` asserts only that a constraint
leaves something (`initState.cpp:222`). Without such a product both theorems would be
false: of two systems, let one be constrained to a selection that the diagram
excludes, the other to any; transitions without a feature expression are
executable for it all the same (`featuredStateDecorator.cpp:105`), and a cycle of
them through an accepting state is reported although no product has it.

* `Typing`: `TypeOK`.
* `StackShape`, from which `SetElemCorrect`, `OnStackCorrect` and
  `FeaturesShrinkCorrect` follow: the inductive invariant `StackInv` says that each
  element's pending successors are successors (`PostsOf`), that features shrink
  from element to element (`Shrinks`), that what is on the stack is on record
  (`OnRecord`) and that the inner stack starts at the top of the outer one
  (`Seeded`). `SetElemIsStack` alone is not inductive: a push keeps it only since a
  state on the stack is never fresh, which needs the features to shrink.
* `TraceCorrect`: `PathInv` follows the two stacks as a walk of the graph that one
  valid product can take as a whole: the products of the top of the stack. It starts
  from a product that meets the constraints of the systems, hence the hypothesis;
  `Next` does not change the graph, so the hypothesis stays true. From it
  `ViolatedCorrect`: the trace that is printed is a counterexample in the sense of
  `LTLVerdict`. `PathReach` turns the walk of the
  trace into reachability, by induction on its length.
* `CoverShape` (1), from which `CoverageCorrect`, `SafetyCorrect`, `InnerCorrect`
  and `ExploredOnceCorrect` follow: `CoverInv` says that a product on record for a
  state is on record for each of its successors, or waits in a list of successors
  of an element that still carries it; `InnerInv` that the inner record is within
  the outer one. When the stack is empty nothing waits, the record is closed under
  successors, and the end of the claim, where no element is ever pushed without
  the verdict changing, is not in it.
* `CycleShape` (1), for at least one system (`Comp # {}`), from which
  `SatisfiedCorrect` follows: the postorder argument of nested search, for each
  product `j` on its own. A product on record for the inner search at a state is on
  record at each of its successors, or waits there in a list of the inner stack
  (`MarksCovered`, `SeedCovered`); a state that carries `j` on the outer stack has
  no inner mark of `j` (`MarksOffStack`), since an inner search begins only when
  all that follows its seed was explored. So an inner search for a seed that
  returns without a verdict leaves marks that are closed under successors and do
  not hold the seed (`SeedNoCycle`): there is no cycle. `CyclesSought` records this
  of every accepting state whose element has left the outer stack. Without
  features (`Comp = {}`) every state is met with the same `TRUE`, the inner search
  starts on a record that is full, and the run `satisfied_is_right` shows the
  verdict wrong.
* `DecidesCorrect` (1), for at least one system: the search implements
  `LTLVerdict`. By `ViolatedCorrect` and `SatisfiedCorrect` a step that changes the
  verdict changes the answer to one that `LTLVerdict` allows; every other step is a
  stutter of it.

* `TypeCorrect`, `ExclusiveCorrect`, `Interleaving` (`ProgramExecution_proof`): for
  any number of processes, any automata and any bound, a run drawn from
  `executables()` implements the interleaving semantics. `ExclusiveIsLast`, with
  `TypeOK`, is inductive: every `apply` gives exclusivity to the process that
  stepped or to nobody. It is what the refinement needs: by it, the processes that
  exclusivity keeps from stepping are those that are not `Free`
  (`ExecutableIsStep`); that exclusivity is dropped only when its owner is blocked
  makes a step of another one legal. `NothingIsQuiet` says that an empty list means
  what `timeout` and the end of a program mean. Assumptions: `OutAssumption`,
  `NodeAssumption`, `ExecutionAssumption`, on the shape of the constants.

* `SpaceTypes`, `StackIsPathCorrect`, `ClosedCorrect`, `MetOnceCorrect`
  (`StateSpace_proof`): for every program and every order of successors, the stack
  of the depth-first exploration is a path of the program, none of the two
  explorations has a state on its stack twice, and without atomic nodes the states
  met at the end are closed under the transitions of the program. `Typed` adds to
  the types that in depth the length of the stack and `depth` go together
  (`Height`), without which an element could be pushed with a negative depth;
  `depth` itself is -1 once that stack is empty. `Closed` follows
  from `Agenda`: what follows a state on record is on record, or waits in `nexts`
  or in an element. It says nothing of states with exclusivity (`Free`): a payload
  determines what follows only where there is none. `MetOnce` follows from
  `Counted`: no two elements of the stack have the same payload, since one that is
  pushed is not on record and all those of the stack are.
* `DepthIsRealCorrect`, `PrintedCorrect`, `AllPrintedCorrect` (`StateSpace_proof`).
  `Depths` adds to `DepthIsReal` that the states in `nexts` can be reached within
  `depth`: `Visit` pushes them with it. `Sound` says that whatever is on the
  stack, in a list or on record can be reached, in any number of transitions
  (`Reachable`); with `Closed` and induction on that number, what is met in the end is
  exactly what can be reached, provided no node is atomic. That hypothesis is
  needed: `state_space_exhaustive` is the same property with atomic nodes.
* `TraceTypes`, `InStepCorrect`, `TraceIsRunCorrect` (`TraceGeneration_proof`). A
  program run beside itself stays in step with itself, exclusivity included, for
  every program and length: a transition found in both lists is applied to both.
  The trace is a run of the mutant although `generateNegativeTraces` applies to it
  transitions taken from the original's list. `Beside` says why: as long as nothing
  told the two apart, their states are equal, or they stand on nodes of two
  automata that share none (`Apart`). In the second case the states compare equal
  only once all processes have ended, and then the original has no transition to
  offer (`EndedExecutables`). `AutomataAssumption` is used here: each automaton in
  memory has its own nodes and its edges stay within it.

* `TypeCorrect`, `TiledCorrect`, `SliceTellsCorrect`, `TreeImplementsStore`
  (`VariableTree_proof`): for every even base, width of a pointer, number of
  variables and of states, and every choice of the types that are declared
  (`TreeAssumption`). The invariant `IInv` has two parts.
  `InConstruction`: the tree under construction is `Filling`. None of the properties
  is inductive while a tree is built, since what has no parent yet counts its offset
  from nothing. What holds is that the variables stand in the order of their bytes:
  the own bytes of variable `j` begin where those of the first `j - 1` end
  (`Until`), counted from whatever it is attached to (`Placed`); that a parent is
  always among those still being filled when a variable is made (`Preorder`), so
  what lies within a variable is an interval of numbers (`WithinInterval`); and that
  the stack `open` holds exactly the variables without a parent, each inside the
  reach of the one below it. `PushFilling` and `JoinFilling` show that constructing
  and attaching keep this; when only the root is left the tree is `Whole`, from which
  `WholeTiled` follows, and `WholeCopied`: a copy rebuilt part by part has the
  offsets of the original. `Occupied` says that an attached system has bytes of its
  own somewhere: without it `hash` of that part would see the whole state.
  `InUse`: every state that lives has the same whole tree, bytes that are digits,
  leaves within their bounds, and zeros where no value is (`Blank`, the length of a
  channel that buffers). `Blank` is what `SliceTells` needs beside the layout: the
  hash sees those bytes too, and no variable holds them.
  That a value written is the value read (`GetStored`), and that bytes that differ
  are values that differ (`RawTells`, `GetTells`), are proved of digits of any even
  base and any number of them, two's complement included. `PutHeld` puts the two
  halves together: what is written is held, and nothing else changes, because the
  spans of two variables share no byte. The steps of the refinement follow from it,
  that of `Load` too: cleared memory into which every declaration was written holds
  the values declared (`StartValues`).

**Induction.** `Reach`, `After`, `Power`, `Total`, `Above` and `Offset` are functions
defined by recursion on a number. `Recursion_proof` derives induction on the natural
numbers from the library's theorem that `<` is well-founded on them (`Least`,
`Induct`), and shows that a recursive definition whose step is its parameter `Step`,
and whose argument becomes the smaller `Back`, has the value it says at each number
(`IterateSteps`) and depends on nothing beyond (`IterateLocal`). A proof
instantiates it with the step of its own module: `Spread` adds what follows a set of
states, `Applied` takes a transition, `Plus` adds the bytes of one more variable,
`Join` and `Shift` go from a variable to its parent. The inductions on the length
of a path in `NestedDFSVerdict_proof` are on a least element of the same kind.

**Only model-checked**: liveness (`Terminates`, under fairness, in four runs), and
the properties of `ControlFlow` (`WellBuilt`, `StepsAgree`, `ProductsAgree`,
`AtomicWhereWritten`, `MarksOfLabels`). That module recurses over nested statements
with RECURSIVE operators, of which the prover can use no definition; the claims
themselves would need an induction over statements, which is out of its reach.

## 5. Not modelled, and the plan

* **Channels.** Memory, fields and `reset` are in `VariableTree`; `send` and
  `receive` are not modelled beyond ending the program (`Fatal`): at this commit no
  communication completes (section 6), so there is no queue a specification could
  be compared with.
* **Products of systems and claims.** `FeaturedGraph` takes the graph as data. The
  next step is to derive it from machines and a claim; `compState::executables` is
  a Cartesian product, empty as soon as one part has nothing to execute.
  A system that has ended therefore stops all others, and is reported as a deadlock
  when the claim could go on.
* **`createStateSpaceDFS_RR`** is the outer search of `NestedDFS` without a claim,
  and asserts at a state without successors. **`findLasso`** draws through the global
  `graphVis`, which it never makes, and has no caller. **`launchExecutionMarkovChain`**
  has no run (section 6).
* **Processes created by `run`**: setting the arguments of a process that has no
  payload fails an assertion (`process.cpp:387`).
* **Feature model.** Conditions become sets of products (`Formula`); reading a TVL
  file and its clauses is input, over an external library.
* **`d_step`** is translated as `atomic`; probabilities and line numbers are left out
  of automata.
* **`fsmToAst`**: every function body is commented out.
* **Proofs**: every safety invariant and refinement the runs check is proved, but
  those of `ControlFlow`; liveness and recursion over statements are out of reach
  (section 4).

Not planned: the parser (generated), the command line and the visualizer (input
and output), CUDD (external), printing, memory management.

## 6. Where code and documentation disagree

Each of these is a `violation` run; the lines are quoted under `findings` in
`PROJECT.json`.

| run | what the code does |
|---|---|
| `satisfied_is_right` | without features, the inner search skips what the outer search has met, and misses cycles |
| `systems_coverage` | narrowing two systems one by one loses pairs of products |
| `failing_products_fail` | a product that cannot close the cycle is charged with it |
| `deadlock_is_real` | a deadlock is reported for a set of products the diagram excludes |
| `state_space_exhaustive` | states that differ by exclusivity are taken for one |
| `statements_kept` | an option that starts with a loop loses the loop's statements |

Seen in the code while modelling it, and kept in the models' actions or in the
conditions on their inputs, but stated by no run:

*Searches*

* The search stops at the first violation (`explore.cpp:638`), so the products
  that are not charged, "others are ok" in the report, may fail as well.
* A violation that all products share fails the assertion of `addTraceViolation`
  (`reachabilityRelation.cpp:250`; verdict `unconstrained`).
* A system constrained to selections that the feature diagram excludes is searched
  like any other (`initState.cpp:222`, `featuredStateDecorator.cpp:152`; section 4).
* Three elements are popped at the end of the never claim (`explore.cpp:637`)
  where the stack may hold fewer.
* `createStateSpaceBFS` explores from a stack, in no breadth-first order. The
  depth-first exploration does not count the initial state: its "number of states"
  is one less.
* `ERR_DEADLOCK` is raised whenever nothing can be executed and the claim could go
  on (`state.cpp:67`), also when all processes have ended as they should.
* The test in `createStateSpaceDFS_RR` between a new and a known state is on two
  constants (`explore.cpp:483`), and is always true.
* `generateNegativeTraces` judges a transition new before it was compared with all
  of the original's (`explore.cpp:100`; `Different`), applies the null transition
  when a program can do nothing (`explore.cpp:126`; `TraceAbort`), and adds one
  state object again and again, each time in a shared pointer with a count of its
  own, so that all states of the trace are the last one and are deleted more than
  once (`explore.cpp:130`; the states of the trace are not modelled).
* States of two automata loaded from two files never compare equal, since their
  payloads hold pointers to nodes: the message that no such trace was found
  (`explore.cpp:136`) is printed for every trace, also of a mutant the original
  cannot follow.
* `generateMutantTraces` ignores the length and the number it is given.
* `fireNonActionTransition` fires until it draws a transition with an action, but
  `progState::executables` wraps every transition in one that has none
  (`programState.cpp:379`), with probability 1: it takes the first transition of the
  list until there is none, then reads through a null pointer.

*Automata* (conditions of `RegularText`)

* An option that starts with a loop or a label that is jumped to loses edges; one
  that starts with a goto has its node deleted twice (`astToFsm.cpp:195`, `281`, `359`).
* What follows a block `{ ... }` is not visited (`309`).
* A label inside an atomic sequence, and an atomic sequence inside another, clear
  the flag for the rest of the outer one (`339`, `389`).
* The marks of a label reach every node made below it, and any name that contains
  "end", "accept" or "progress" has them (`327`).
* A loop that follows a break takes it for its own (`288`).
* The else of an inner `if` at the start of an option becomes an else of the outer
  one (`195`); the else beside features ignores options without any (`223`).
* A condition over features outside an `if` narrows a formula that does not exist
  (`130`). `F && x`, with `x` not a feature, becomes `F`, and `F && !x` becomes
  never (`expToADD.cpp:97`, `130`); a product of two features is their sum (`94`).

*Programs*

* The `else` of a never claim can never be executed (`never.cpp:142`: `_else` is never set).
* A composite state is accepting when any of its parts is.
* `never::isAccepting` reads through the node of the claim, which is null at its end:
  an execution beside a claim that ends does not survive the next `isAccepting`.
* A remote reference to a label compares line numbers.
* `--` of an `int` at its lower bound overflows (`primitiveVariable.cpp:88`;
  `Decrement` allows both outcomes).
* A `send` on a buffered channel writes every slot from the arguments of one
  message (`channel.cpp:61`), `len` then asserts that the channel is not full, which
  one of capacity 1 is; `receive` stops advancing at the first `_`. A literal argument
  makes a constant whose constructor asserts false. Elements of an array of channels
  get their index twice in their name, and are not found.
* `active [2] proctype` asserts: the constructor of a thread expects index 0.
* A claim that reads a global variable of one of two systems with the same names
  fails an assertion (`variable.cpp:330`).
