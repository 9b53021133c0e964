----------------------- MODULE TraceGeneration_proof -----------------------
(***************************************************************************)
(* Proofs about TraceGeneration, for any two programs and any length.      *)
(***************************************************************************)
EXTENDS TraceGeneration, ProgramSemantics_proof

LEMMA BootType ==
  ASSUME NEW x \in Pairs
  PROVE  Boot(x.original, Initial) \in Machine /\ Boot(x.mutant, Initial) \in Machine
<1>1. PICK A \in Automata, B \in Automata :
        x.original \in [Proc -> A \cup {End}] /\ x.mutant \in [Proc -> B \cup {End}]
  BY AutomataAssumption
<1>2. A \subseteq Node /\ B \subseteq Node
  BY AutomataAssumption
<1> QED BY <1>1, <1>2, TraceAssumption, NodeAssumption DEF Boot, Machine

\* A transition of either program is one of processes and edges in memory.
LEMMA RecordType ==
  ASSUME TypeOK, Running, NEW t \in Move, Record(t)
  PROVE  /\ mutant' \in Machine
         /\ transitions' \in Seq(Move) /\ Len(transitions') <= TraceLength
         /\ fsms' = fsms /\ phase' = phase
<1>1. mutant' = Applied(mutant, t) /\ transitions' = Append(transitions, t)
  BY DEF Record
<1>2. mutant' \in Machine
  BY <1>1, AppliedType DEF TypeOK
<1>3. transitions \in Seq(Move) /\ Len(transitions) < TraceLength
  BY DEF TypeOK, Running
<1>4. transitions' \in Seq(Move) /\ Len(transitions') <= TraceLength
  BY <1>1, <1>3, TraceAssumption
<1> QED BY <1>2, <1>4 DEF Record

\* Whatever the programs, a transition of the original is one that can be
\* applied to the mutant's state: it names a process both have.
THEOREM TraceTypes == Spec => []TypeOK
<1>1. TraceInit => TypeOK
  BY BootType, TraceAssumption DEF TraceInit, TypeOK
<1>2. ASSUME TypeOK, [Next]_vars
      PROVE  TypeOK'
  <2>1. CASE TraceAbort
    BY <1>2, <2>1 DEF TraceAbort, TypeOK
  <2>2. CASE Compare
    <3>1. PICK o \in Executables(original) :
            IF Different(o) # {}
            THEN /\ \E t \in Different(o) : Record(t)
                 /\ same_prefix' = FALSE
                 /\ UNCHANGED original
            ELSE Follow(o)
      BY <2>2 DEF Compare
    <3>2. o \in Move /\ Running
      BY <1>2, <2>2, ExecutablesType DEF TypeOK, Compare
    <3>3. CASE Different(o) # {}
      <4>1. PICK t \in Different(o) : Record(t)
        BY <3>1, <3>3
      <4>2. t \in Move
        BY <1>2, ExecutablesType DEF TypeOK, Different
      <4> QED BY <1>2, <3>1, <3>2, <3>3, <4>1, <4>2, RecordType DEF TypeOK
    <3>4. CASE Different(o) = {}
      <4>1. Record(o) /\ original' = Applied(original, o) /\ same_prefix' = same_prefix
        BY <3>1, <3>4 DEF Follow
      <4>2. original' \in Machine
        BY <1>2, <3>2, <4>1, AppliedType DEF TypeOK
      <4> QED BY <1>2, <3>2, <4>1, <4>2, RecordType DEF TypeOK
    <3> QED BY <3>3, <3>4
  <2>3. CASE Sample
    <3>1. PICK t \in Executables(mutant) : Record(t)
      BY <2>3 DEF Sample
    <3>2. t \in Move /\ Running /\ UNCHANGED <<original, same_prefix>>
      BY <1>2, <2>3, ExecutablesType DEF TypeOK, Sample
    <3> QED BY <1>2, <3>1, <3>2, RecordType DEF TypeOK
  <2>4. CASE Return
    BY <1>2, <2>4 DEF Return, TypeOK
  <2>5. CASE UNCHANGED vars
    BY <1>2, <2>5 DEF vars, TypeOK
  <2> QED BY <1>2, <2>1, <2>2, <2>3, <2>4, <2>5 DEF Next
<1> QED BY <1>1, <1>2, PTL DEF Spec

\* A program beside itself: while nothing has told them apart, both are in the
\* same state, so the states are compared at every turn.
THEOREM InStepCorrect == Spec => []InStep
<1>1. TraceInit => InStep
  BY DEF TraceInit, InStep
<1>2. ASSUME InStep, [Next]_vars
      PROVE  InStep'
  <2> SUFFICES ASSUME same_prefix', fsms'.original = fsms'.mutant
               PROVE  original' = mutant'
    BY DEF InStep
  <2>1. CASE Compare
    <3>1. PICK o \in Executables(original) :
            IF Different(o) # {}
            THEN /\ \E t \in Different(o) : Record(t)
                 /\ same_prefix' = FALSE
                 /\ UNCHANGED original
            ELSE Follow(o)
      BY <2>1 DEF Compare
    <3>2. Follow(o)
      BY <3>1
    <3>3. original = mutant
      BY <1>2, <3>2 DEF InStep, Follow, Record
    <3> QED BY <3>2, <3>3 DEF Follow, Record
  <2>2. CASE Sample
    <3>1. same_prefix /\ fsms' = fsms /\ ~Alike
      BY <2>2 DEF Sample, Record
    <3>2. original = mutant
      BY <1>2, <3>1 DEF InStep
    <3> QED BY <3>1, <3>2 DEF Alike
  <2>3. CASE TraceAbort \/ Return \/ UNCHANGED vars
    BY <1>2, <2>3 DEF TraceAbort, Return, vars, InStep
  <2> QED BY <1>2, <2>1, <2>2, <2>3 DEF Next
<1> QED BY <1>1, <1>2, PTL DEF Spec

-----------------------------------------------------------------------------
(***************************************************************************)
(* The trace is a run.  A transition of the original is appended only when *)
(* the states compare equal.  Two programs with nodes of their own do so   *)
(* when all their processes have ended, and then nothing is left to take:  *)
(* the original's first transition is therefore one of a program run       *)
(* beside itself.                                                          *)
(***************************************************************************)
Nth(x, j, T) == Applied(x, T[j])
Before(j, T) == j - 1

R == INSTANCE Recursion_proof WITH Step <- Nth, Back <- Before

\* The two machines are at nodes of two automata that share none.
Apart ==
  \E A, B \in Automata :
    /\ A \cap B = {}
    /\ original.loc \in [Proc -> A \cup {End}]
    /\ mutant.loc \in [Proc -> B \cup {End}]

Beside == same_prefix => original = mutant \/ Apart

LEMMA Nths ==
  ASSUME NEW A, NEW T
  PROVE  /\ R!Downward(Nat, T)
         /\ R!Iterate(Nat, A, T, 0) = A
         /\ \A k \in Nat : R!Iterate(Nat, A, T, k + 1) = Applied(R!Iterate(Nat, A, T, k), T[k + 1])
<1>1. \A j \in Nat \ {0} : Before(j, T) = j - 1
  BY DEF Before
<1>2. /\ R!Downward(Nat, T)
      /\ R!Iterate(Nat, A, T, 0) = A
      /\ \A k \in Nat : R!Iterate(Nat, A, T, k + 1) = Nth(R!Iterate(Nat, A, T, k), k + 1, T)
  BY <1>1, R!CountDown
<1> QED BY <1>2 DEF Nth

LEMMA AfterSteps ==
  /\ After(0) = Boot(fsms.mutant, Initial)
  /\ \A k \in Nat : After(k + 1) = Applied(After(k), transitions[k + 1])
<1>1. \A k : After(k) = R!Iterate(Nat, Boot(fsms.mutant, Initial), transitions, k)
  BY DEF After, R!Iterate, Nth, Before
<1> QED BY <1>1, Nths

\* What is appended to the trace changes nothing of what came before it.
LEMMA AfterPrefix ==
  ASSUME transitions \in Seq(Move), NEW t \in Move,
         transitions' = Append(transitions, t), fsms' = fsms
  PROVE  /\ \A k \in 0 .. Len(transitions) : After(k)' = After(k)
         /\ After(Len(transitions))' = Applied(After(Len(transitions)), t)
<1> DEFINE boot == Boot(fsms.mutant, Initial)
           It(T, k) == R!Iterate(Nat, boot, T, k)
<1>1. \A k : After(k) = It(transitions, k)
  BY DEF After, R!Iterate, Nth, Before
<1>2. \A k : After(k)' = It(transitions', k)
  BY DEF After, R!Iterate, Nth, Before
<1>3. ASSUME NEW k \in 0 .. Len(transitions)
      PROVE  After(k)' = After(k)
  <2>1. \A j \in 1 .. k : transitions[j] = transitions'[j]
    OBVIOUS
  <2>2. k \in Nat
    OBVIOUS
  <2>3. \A j \in Nat : j # 0 /\ j <= k =>
           /\ j \in Nat /\ Before(j, transitions) = Before(j, transitions')
           /\ \A x : Nth(x, j, transitions) = Nth(x, j, transitions')
    BY <2>1, <2>2 DEF Nth, Before
  <2>4. R!Downward(Nat, transitions) /\ R!Downward(Nat, transitions')
    BY Nths
  <2> HIDE DEF boot
  <2>5. It(transitions, k) = It(transitions', k)
    BY <2>2, <2>3, <2>4, R!IterateLocal
  <2> QED BY <1>1, <1>2, <2>5
<1>4. After(Len(transitions))' = Applied(After(Len(transitions)), t)
  <2>1. PICK n \in Nat : n = Len(transitions)
    OBVIOUS
  <2>2. /\ Len(transitions') = n + 1 /\ transitions'[n + 1] = t
        /\ n \in 0 .. Len(transitions)
    BY <2>1
  <2> HIDE DEF boot
  <2>3. It(transitions', n + 1) = Applied(It(transitions', n), transitions'[n + 1])
    <3>1. \A T : \A k \in Nat : It(T, k + 1) = Applied(It(T, k), T[k + 1])
      BY Nths
    <3> QED BY <2>1, <3>1
  <2>4. It(transitions', n) = After(n)
    BY <1>2, <1>3, <2>2
  <2>5. After(Len(transitions))' = It(transitions', n + 1)
    BY <1>2, <2>2
  <2> QED BY <2>1, <2>2, <2>3, <2>4, <2>5
<1> QED BY <1>3, <1>4

\* A machine whose processes have all ended has nothing to execute.
LEMMA EndedExecutables ==
  ASSUME NEW m \in Machine, \A p \in Proc : m.loc[p] = End
  PROVE  Executables(m) = {}
<1> SUFFICES ASSUME NEW t \in Executables(m) PROVE FALSE
  OBVIOUS
<1>1. t \in Move /\ t.edge \in Leaving(m, t.proc)
  BY ExecutablesType
<1> QED BY <1>1 DEF Leaving, Move

LEMMA BesideFollow ==
  ASSUME TypeOK, Beside, Alike, Executables(original) # {}
  PROVE  original = mutant
<1> SUFFICES ASSUME Apart PROVE FALSE
  BY DEF Beside, Alike
<1>1. PICK A \in Automata, B \in Automata :
        /\ A \cap B = {}
        /\ original.loc \in [Proc -> A \cup {End}]
        /\ mutant.loc \in [Proc -> B \cup {End}]
  BY DEF Apart
<1>2. original.loc = mutant.loc
  BY DEF Alike, Payload
<1>3. \A p \in Proc : original.loc[p] = End
  BY <1>1, <1>2
<1> QED BY <1>3, EndedExecutables DEF TypeOK

LEMMA BesideInit == TraceInit => Beside
<1> SUFFICES ASSUME TraceInit PROVE Beside
  OBVIOUS
<1>1. PICK A \in Automata, B \in Automata :
        /\ fsms.original \in [Proc -> A \cup {End}]
        /\ fsms.mutant \in [Proc -> B \cup {End}]
        /\ A = B => fsms.original = fsms.mutant
  BY AutomataAssumption DEF TraceInit
<1>2. original.loc = fsms.original /\ mutant.loc = fsms.mutant
  BY DEF TraceInit, Boot
<1>3. CASE A = B
  BY <1>1, <1>3 DEF TraceInit, Beside
<1>4. CASE A # B
  BY <1>1, <1>2, <1>4, AutomataAssumption DEF Apart, Beside
<1> QED BY <1>3, <1>4

\* A transition of the mutant leads to a node of its automaton.
LEMMA ApartSample ==
  ASSUME TypeOK, Apart, NEW t \in Executables(mutant),
         mutant' = Applied(mutant, t), original' = original
  PROVE  Apart'
<1>1. PICK A \in Automata, B \in Automata :
        /\ A \cap B = {}
        /\ original.loc \in [Proc -> A \cup {End}]
        /\ mutant.loc \in [Proc -> B \cup {End}]
  BY DEF Apart
<1>2. t \in Move /\ t.edge \in Leaving(mutant, t.proc) /\ mutant \in Machine
  BY ExecutablesType DEF TypeOK
<1>3. mutant'.loc = [mutant.loc EXCEPT ![t.proc] = t.edge.dst]
  BY <1>2, AppliedType
<1>4. t.proc \in Proc /\ mutant.loc[t.proc] # End /\ t.edge \in Out[mutant.loc[t.proc]]
  BY <1>2 DEF Move, Leaving
<1>5. mutant.loc[t.proc] \in B
  BY <1>1, <1>4
<1>6. t.edge.dst \in B \cup {End}
  BY <1>4, <1>5, AutomataAssumption
<1>7. mutant'.loc \in [Proc -> B \cup {End}]
  BY <1>1, <1>3, <1>6
<1> QED BY <1>1, <1>7 DEF Apart

Recorded == Beside /\ TraceIsRun

\* A transition of the mutant's own is recorded.
LEMMA RecordRun ==
  ASSUME TypeOK, TraceIsRun, Running, NEW t \in Executables(mutant), Record(t)
  PROVE  TraceIsRun'
<1>1. /\ mutant' = Applied(mutant, t) /\ transitions' = Append(transitions, t)
      /\ fsms' = fsms
  BY DEF Record
<1>2. transitions \in Seq(Move) /\ t \in Move
  BY ExecutablesType DEF TypeOK
<1>3. /\ \A k \in 0 .. Len(transitions) : After(k)' = After(k)
      /\ After(Len(transitions))' = Applied(After(Len(transitions)), t)
  BY <1>1, <1>2, AfterPrefix
<1>4. /\ Len(transitions') = Len(transitions) + 1 /\ Len(transitions) \in Nat
      /\ DOMAIN transitions' = 1 .. Len(transitions) + 1
      /\ transitions'[Len(transitions) + 1] = t
      /\ \A k \in 1 .. Len(transitions) : transitions'[k] = transitions[k]
      /\ DOMAIN transitions = 1 .. Len(transitions)
  BY <1>1, <1>2
<1>5. /\ mutant = After(Len(transitions))
      /\ \A k \in 1 .. Len(transitions) : transitions[k] \in Executables(After(k - 1))
  BY <1>4 DEF TraceIsRun
<1>6. mutant' = After(Len(transitions))'
  BY <1>1, <1>3, <1>5
<1>7. ASSUME NEW k \in DOMAIN transitions'
      PROVE  transitions'[k] \in Executables(After(k - 1)')
  <2>1. k \in Nat /\ k - 1 \in 0 .. Len(transitions)
    BY <1>4
  <2>2. After(k - 1)' = After(k - 1)
    BY <1>3, <2>1
  <2>3. CASE k = Len(transitions) + 1
    BY <1>4, <1>5, <2>2, <2>3
  <2>4. CASE k # Len(transitions) + 1
    <3>1. k \in 1 .. Len(transitions)
      BY <1>4, <2>4
    <3> QED BY <1>4, <1>5, <2>2, <3>1
  <2> QED BY <2>3, <2>4
<1> QED BY <1>6, <1>7 DEF TraceIsRun

LEMMA RecordedStep ==
  ASSUME TypeOK, Recorded, [Next]_vars
  PROVE  Recorded'
<1>1. CASE Compare
  <2>1. PICK o \in Executables(original) :
          IF Different(o) # {}
          THEN /\ \E t \in Different(o) : Record(t)
               /\ same_prefix' = FALSE
               /\ UNCHANGED original
          ELSE Follow(o)
    BY <1>1 DEF Compare
  <2>2. Alike /\ Running
    BY <1>1 DEF Compare
  <2>3. CASE Different(o) # {}
    <3>1. PICK t \in Different(o) : Record(t)
      BY <2>1, <2>3
    <3>2. TraceIsRun'
      BY <2>2, <3>1, RecordRun DEF Recorded, Different
    <3>3. ~ same_prefix'
      BY <2>1, <2>3
    <3> QED BY <3>2, <3>3 DEF Recorded, Beside
  <2>4. CASE Different(o) = {}
    <3>1. Record(o) /\ original' = Applied(original, o) /\ mutant' = Applied(mutant, o)
      BY <2>1, <2>4 DEF Follow, Record
    <3>2. original = mutant
      BY <2>2, BesideFollow DEF Recorded
    <3>3. TraceIsRun'
      BY <2>2, <3>1, <3>2, RecordRun DEF Recorded
    <3> QED BY <3>1, <3>2, <3>3 DEF Recorded, Beside
  <2> QED BY <2>3, <2>4
<1>2. CASE Sample
  <2>1. PICK t \in Executables(mutant) : Record(t)
    BY <1>2 DEF Sample
  <2>2. Running /\ ~Alike /\ UNCHANGED <<original, same_prefix>>
    BY <1>2 DEF Sample
  <2>3. TraceIsRun'
    BY <2>1, <2>2, RecordRun DEF Recorded
  <2>4. same_prefix => Apart
    BY <2>2 DEF Recorded, Beside, Alike
  <2>5. mutant' = Applied(mutant, t)
    BY <2>1 DEF Record
  <2>6. same_prefix => Apart'
    BY <2>2, <2>4, <2>5, ApartSample
  <2> QED BY <2>2, <2>3, <2>6 DEF Recorded, Beside
<1>3. CASE TraceAbort \/ Return \/ UNCHANGED vars
  <2>1. UNCHANGED <<fsms, original, mutant, transitions, same_prefix>>
    BY <1>3 DEF TraceAbort, Return, vars
  <2> QED BY <2>1 DEF Recorded, Beside, Apart, TraceIsRun, After
<1> QED BY <1>1, <1>2, <1>3 DEF Next

\* The trace generated for a mutant is one of its runs, step by step, whatever
\* the two programs and the length: the transitions taken from the original's
\* list were the mutant's own.
THEOREM TraceIsRunCorrect == Spec => []TraceIsRun
<1>1. TraceInit => Recorded
  <2> SUFFICES ASSUME TraceInit PROVE TraceIsRun
    BY BesideInit DEF Recorded
  <2>1. transitions = <<>> /\ mutant = Boot(fsms.mutant, Initial)
    BY DEF TraceInit
  <2>2. DOMAIN transitions = {} /\ Len(transitions) = 0
    BY <2>1
  <2>3. After(0) = Boot(fsms.mutant, Initial)
    BY AfterSteps
  <2> QED BY <2>1, <2>2, <2>3 DEF TraceIsRun
<1>2. TypeOK /\ Recorded /\ [Next]_vars => Recorded'
  BY RecordedStep
<1>3. Recorded => TraceIsRun
  BY DEF Recorded
<1> QED BY <1>1, <1>2, <1>3, TraceTypes, PTL DEF Spec
=============================================================================
