-------------------------- MODULE TraceGeneration --------------------------
(***************************************************************************)
(* generateNegativeTraces of algorithm/explore.cpp: a run of a mutant is   *)
(* sought that the original program cannot make.  Both programs are run,   *)
(* side by side as long as nothing tells them apart.                       *)
(***************************************************************************)
EXTENDS ProgramSemantics

CONSTANTS
  Automata,    \* the nodes of every automaton in memory
  Pairs,       \* an original and a mutant: the nodes at which each one starts
  Initial,     \* the initial value of the variable
  TraceLength  \* trace_length (200 there)

\* Every automaton has nodes of its own, the edges stay within it, and it has
\* one initial state.
ASSUME AutomataAssumption ==
  /\ \A A \in Automata :
       A \subseteq Node /\ \A n \in A : \A e \in Out[n] : e.dst \in A \cup {End}
  /\ \A A, B \in Automata : A = B \/ A \cap B = {}
  /\ \A x \in Pairs : \E A, B \in Automata :
       /\ x.original \in [Proc -> A \cup {End}]
       /\ x.mutant \in [Proc -> B \cup {End}]
       /\ A = B => x.original = x.mutant

ASSUME TraceAssumption ==
  /\ Initial \in Value
  /\ TraceLength \in Nat

VARIABLES
  fsms,         \* the parameters: the two automata
  original,     \* current_state_original
  mutant,       \* current_state_mutant
  transitions,  \* those of current_trace
  same_prefix,
  phase

vars == <<fsms, original, mutant, transitions, same_prefix, phase>>

TraceInit ==
  /\ fsms \in Pairs
  /\ original = Boot(fsms.original, Initial)
  /\ mutant = Boot(fsms.mutant, Initial)
  /\ transitions = <<>>
  /\ same_prefix = TRUE
  /\ phase = "running"

\* compare() is true of states whose hashes are equal: those with the same
\* values whose processes are at the same nodes, of the same automaton.
Alike == same_prefix /\ Payload(original) = Payload(mutant)

\* transition::operator== compares the statements.
Same(t, o) == t.edge.stm = o.edge.stm

\* different_trans, when o comes first among the transitions of the original:
\* found is looked at as soon as one transition has been compared.
Different(o) == {t \in Executables(mutant) : ~Same(t, o)}

\* (Mutant: one transition more.)
RunningLonger == phase = "running" /\ Len(transitions) <= TraceLength

Running == phase = "running" /\ Len(transitions) < TraceLength

\* The transitions current_trans may be: one the original does not have if there
\* is one, the first one of the original otherwise, any one when they are not
\* compared.
Drawn ==
  IF Alike
  THEN UNION {IF Different(o) # {} THEN Different(o) ELSE {o} : o \in Executables(original)}
  ELSE Executables(mutant)

\* An assertion fails in executables() or apply(), or there is no transition:
\* front() of an empty list, or apply() of the null sampleUniform returns.
TraceAbort ==
  /\ Running
  /\ \/ Fatal(mutant) \/ (Alike /\ Fatal(original))
     \/ Drawn = {}
     \/ \E t \in Drawn : ~Applicable(mutant, t)
  /\ phase' = "aborted"
  /\ UNCHANGED <<fsms, original, mutant, transitions, same_prefix>>

\* (Mutant: the transition is not recorded.)
RecordNot(t) ==
  /\ Applicable(mutant, t)
  /\ mutant' = Applied(mutant, t)
  /\ UNCHANGED <<fsms, transitions, phase>>

\* What is added to the trace.
Record(t) ==
  /\ Applicable(mutant, t)
  /\ mutant' = Applied(mutant, t)
  /\ transitions' = Append(transitions, t)
  /\ UNCHANGED <<fsms, phase>>

\* (Mutant: the original stays behind.)
FollowNot(o) ==
  /\ Record(o)
  /\ UNCHANGED <<original, same_prefix>>

Follow(o) ==
  /\ Record(o)
  /\ original' = Applied(original, o)
  /\ UNCHANGED same_prefix

\* A transition the original does not have moves the mutant; the first one of
\* the original moves both.
Compare ==
  /\ Running
  /\ Alike
  /\ ~Fatal(original) /\ ~Fatal(mutant)
  /\ \E o \in Executables(original) :
       IF Different(o) # {}
       THEN /\ \E t \in Different(o) : Record(t)
            /\ same_prefix' = FALSE
            /\ UNCHANGED original
       ELSE Follow(o)

\* (Mutant: one of the original is drawn.)
SampleOriginal ==
  /\ Running
  /\ ~Alike
  /\ \E t \in Executables(original) : Record(t)
  /\ UNCHANGED <<original, same_prefix>>

\* Any transition of the mutant.
Sample ==
  /\ Running
  /\ ~Alike
  /\ ~Fatal(mutant)
  /\ \E t \in Executables(mutant) : Record(t)
  /\ UNCHANGED <<original, same_prefix>>

\* A message says that no trace was found if same_prefix still holds.
Return ==
  /\ phase = "running"
  /\ Len(transitions) >= TraceLength
  /\ phase' = "done"
  /\ UNCHANGED <<fsms, original, mutant, transitions, same_prefix>>

Next == TraceAbort \/ Compare \/ Sample \/ Return

Spec == TraceInit /\ [][Next]_vars

\* Sequential code that runs until it ends.
FairSpec == Spec /\ WF_vars(Next)
-----------------------------------------------------------------------------
(* Properties *)

TypeOK ==
  /\ fsms \in Pairs
  /\ original \in Machine /\ mutant \in Machine
  /\ transitions \in Seq(Move) /\ Len(transitions) <= TraceLength
  /\ same_prefix \in BOOLEAN
  /\ phase \in {"running", "done", "aborted"}

\* The transitions of the trace, replayed from the initial state of an
\* automaton: the state after k of them.
After(k) ==
  LET S[j \in Nat] ==
        IF j = 0 THEN Boot(fsms.mutant, Initial) ELSE Applied(S[j - 1], transitions[j])
  IN S[k]

\* The trace is a run of the mutant: each of its transitions could be executed
\* when it was taken, the ones found in the original's list included, and the
\* last one leads to the mutant's state.
TraceIsRun ==
  /\ \A k \in DOMAIN transitions : transitions[k] \in Executables(After(k - 1))
  /\ mutant = After(Len(transitions))

\* As long as a program runs side by side with itself, both are in the same
\* state: the hashes, which do not see the process with exclusivity, are enough
\* to tell that the transitions of the one can be applied to the other.
InStep ==
  same_prefix /\ fsms.original = fsms.mutant => original = mutant

Terminates == <>(phase # "running")
=============================================================================
