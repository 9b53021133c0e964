----------------------- MODULE ProgramExecution_proof -----------------------
(***************************************************************************)
(* Proofs about ProgramExecution: a run of any program, of any length, is  *)
(* one that the interleaving semantics of Promela allows.                  *)
(***************************************************************************)
EXTENDS ProgramExecution, ProgramSemantics_proof
-----------------------------------------------------------------------------
\* Whatever the program, its state stays a state of the program, and no more
\* than B transitions are taken.
THEOREM TypeCorrect == Spec => []TypeOK
<1>1. ExecutionInit => TypeOK
  BY ExecutionAssumption, NodeAssumption
     DEF ExecutionInit, TypeOK, Boot, Machine
<1>2. ASSUME TypeOK, [Next]_vars
      PROVE  TypeOK'
  <2>1. CASE ExecutionAbort
    BY <1>2, <2>1 DEF ExecutionAbort, TypeOK
  <2>2. CASE ExecutionStep
    <3>1. PICK t \in Executables(machine) : machine' = Applied(machine, t)
      BY <2>2 DEF ExecutionStep
    <3>2. machine' \in Machine
      BY <1>2, <3>1, ExecutablesType, AppliedType DEF TypeOK
    <3> QED BY <1>2, <2>2, <3>2, ExecutionAssumption
            DEF ExecutionStep, Bounded, TypeOK
  <2>3. CASE ExecutionEnd
    BY <1>2, <2>3 DEF ExecutionEnd, TypeOK
  <2>4. CASE UNCHANGED vars
    BY <1>2, <2>4 DEF vars, TypeOK
  <2> QED BY <1>2, <2>1, <2>2, <2>3, <2>4 DEF Next
<1> QED BY <1>1, <1>2, PTL DEF Spec
-----------------------------------------------------------------------------
\* Exclusivity belongs to the process of the last step while that process is
\* in an atomic sequence, and to no other: progState::apply never asserts.
THEOREM ExclusiveCorrect == Spec => []ExclusiveIsLast
<1>1. ExecutionInit => ExclusiveIsLast
  BY NodeAssumption DEF ExecutionInit, ExclusiveIsLast, Boot
<1>2. ASSUME TypeOK, ExclusiveIsLast, [Next]_vars
      PROVE  ExclusiveIsLast'
  <2>1. CASE ExecutionAbort
    BY <1>2, <2>1 DEF ExecutionAbort, ExclusiveIsLast, InAtomic
  <2>2. CASE ExecutionStep
    <3>1. PICK t \in Executables(machine) : machine' = Applied(machine, t)
      BY <2>2 DEF ExecutionStep
    <3>2. machine \in Machine /\ t \in Move
      BY <1>2, <3>1, ExecutablesType DEF TypeOK
    <3>3. t.proc \in Proc /\ i' > 0
      BY <1>2, <2>2, <3>2 DEF Move, ExecutionStep, TypeOK
    <3>4. /\ machine'.loc = [machine.loc EXCEPT ![t.proc] = t.edge.dst]
          /\ machine'.excl = IF t.edge.dst \in Atomic THEN t.proc ELSE None
          /\ machine'.last = t.proc
      BY <3>1, <3>2, AppliedType
    <3>5. machine'.loc[t.proc] = t.edge.dst
      BY <3>2, <3>3, <3>4 DEF Machine
    <3> QED BY <3>3, <3>4, <3>5, NodeAssumption DEF ExclusiveIsLast, InAtomic
  <2>3. CASE ExecutionEnd
    BY <1>2, <2>3 DEF ExecutionEnd, ExclusiveIsLast, InAtomic
  <2>4. CASE UNCHANGED vars
    BY <1>2, <2>4 DEF vars, ExclusiveIsLast, InAtomic
  <2> QED BY <1>2, <2>1, <2>2, <2>3, <2>4 DEF Next
<1> QED BY <1>1, <1>2, TypeCorrect, PTL DEF Spec
-----------------------------------------------------------------------------
(***************************************************************************)
(* What executables() finds, in the words of PromelaInterleaving.          *)
(***************************************************************************)
LEMMA SameLeaving ==
  ASSUME NEW p \in Proc
  PROVE  Promela!Leaving(p) = Leaving(machine, p)
BY DEF Promela!Leaving, Leaving

\* The transitions of a process with an edge of S.
Moves(p, S) == [proc : {p}, edge : S]

LEMMA SomeMove ==
  ASSUME NEW p, NEW S
  PROVE  Moves(p, S) # {} <=> S # {}
<1>1. ASSUME NEW e \in S PROVE [proc |-> p, edge |-> e] \in Moves(p, S)
  BY DEF Moves
<1>2. ASSUME NEW t \in Moves(p, S) PROVE t.edge \in S
  BY DEF Moves
<1> QED BY <1>1, <1>2

\* Without timeout, a process offers what the language lets it do alone.
LEMMA ReadyIsAble ==
  ASSUME NEW p \in Proc
  PROVE  Ready(machine, p, FALSE) = Moves(p, Promela!Able(p))
<1>1. Willing(machine, p, FALSE, FALSE) = Moves(p, Promela!Guarded(p))
  BY SameLeaving DEF Willing, Enabled, Moves, Promela!Guarded
<1>2. Promela!Guarded(p) = {} =>
        Willing(machine, p, TRUE, FALSE) =
          Moves(p, {e \in Promela!Leaving(p) : e.stm.op = "else"})
  BY SameLeaving DEF Willing, Enabled, Moves, Promela!Guarded
<1>3. Willing(machine, p, FALSE, FALSE) # {} <=> Promela!Guarded(p) # {}
  BY <1>1, SomeMove
<1> QED BY <1>1, <1>2, <1>3 DEF Ready, Promela!Able

\* When nobody can do anything else, it offers its timeouts.
LEMMA ReadyIsTimeout ==
  ASSUME NEW p \in Proc, Promela!Quiet
  PROVE  Ready(machine, p, TRUE) = Moves(p, Promela!Timeouts(p))
<1>1. Promela!Guarded(p) = {}
  BY DEF Promela!Quiet, Promela!Able
<1>2. {e \in Promela!Leaving(p) : e.stm.op = "else"} = {}
  BY <1>1 DEF Promela!Quiet, Promela!Able
<1>3. Willing(machine, p, FALSE, TRUE) = Moves(p, Promela!Timeouts(p))
  BY <1>1, SameLeaving
     DEF Willing, Enabled, Moves, Promela!Guarded, Promela!Timeouts
<1>4. Willing(machine, p, TRUE, TRUE) = Moves(p, Promela!Timeouts(p))
  BY <1>1, <1>2, SameLeaving
     DEF Willing, Enabled, Moves, Promela!Guarded, Promela!Timeouts
<1> QED BY <1>3, <1>4 DEF Ready

\* No process offers anything: the language finds them all blocked.
LEMMA NothingIsQuiet ==
  ASSUME Offered(machine, None, FALSE) = {}
  PROVE  Promela!Quiet
<1> SUFFICES ASSUME NEW p \in Proc
             PROVE  Promela!Able(p) = {}
  BY DEF Promela!Quiet
<1>1. Ready(machine, p, FALSE) = {}
  BY DEF Offered, Owners
<1>2. Moves(p, Promela!Able(p)) = {}
  BY <1>1, ReadyIsAble
<1> QED BY <1>2, SomeMove

\* A transition that can be executed is one the language allows.
LEMMA ExecutableIsStep ==
  ASSUME TypeOK, ExclusiveIsLast, NEW t \in Executables(machine)
  PROVE  /\ t.proc \in Proc
         /\ t.edge \in Promela!Able(t.proc) \cup Promela!Timeouts(t.proc)
         /\ Promela!Free(t.proc)
<1>1. machine \in Machine /\ t.proc \in Proc
  BY ExecutablesType DEF TypeOK, Move
<1>2. ASSUME NEW excl \in Proc \cup {None}, t \in Offered(machine, excl, FALSE)
      PROVE  /\ t.edge \in Promela!Able(t.proc)
             /\ excl \in Proc => t.proc = excl
  <2>1. PICK p \in Owners(excl) : t \in Ready(machine, p, FALSE)
    BY <1>2 DEF Offered
  <2>2. p \in Proc /\ (excl \in Proc => p = excl)
    BY <2>1, NodeAssumption DEF Owners
  <2>3. t \in Moves(p, Promela!Able(p))
    BY <2>1, <2>2, ReadyIsAble
  <2>4. t.proc = p /\ t.edge \in Promela!Able(p)
    BY <2>3 DEF Moves
  <2> QED BY <2>2, <2>4
\* The process that holds the others back is the one with exclusivity.
<1>3. ASSUME NEW q \in Proc, machine.excl # q
      PROVE  ~((IF i = 0 THEN None ELSE machine.last) = q /\ machine.loc[q] \in Atomic)
  BY <1>3, NodeAssumption DEF ExclusiveIsLast, InAtomic, TypeOK
<1>4. CASE t \in Offered(machine, machine.excl, FALSE)
  <2>1. /\ t.edge \in Promela!Able(t.proc)
        /\ machine.excl \in Proc => t.proc = machine.excl
    BY <1>1, <1>2, <1>4 DEF Machine
  <2>2. \A q \in Proc \ {t.proc} : machine.excl # q
    BY <2>1
  <2>3. Promela!Free(t.proc)
    BY <2>2, <1>3 DEF Promela!Free
  <2> QED BY <1>1, <2>1, <2>3
<1>5. CASE /\ Offered(machine, machine.excl, FALSE) = {}
           /\ t \in Offered(machine, None, FALSE)
  <2>1. t.edge \in Promela!Able(t.proc)
    BY <1>2, <1>5
  <2>2. ASSUME NEW q \in Proc, machine.excl = q
        PROVE  Promela!Able(q) = {}
    <3>1. Ready(machine, q, FALSE) = {}
      BY <1>5, <2>2, NodeAssumption DEF Offered, Owners
    <3>2. Moves(q, Promela!Able(q)) = {}
      BY <3>1, ReadyIsAble
    <3> QED BY <3>2, SomeMove
  <2>3. Promela!Free(t.proc)
    BY <2>2, <1>3 DEF Promela!Free
  <2> QED BY <1>1, <2>1, <2>3
<1>6. CASE /\ Offered(machine, None, FALSE) = {}
           /\ t \in Offered(machine, None, TRUE)
  <2>1. Promela!Quiet
    BY <1>6, NothingIsQuiet
  <2>2. PICK p \in Proc : t \in Ready(machine, p, TRUE)
    BY <1>6 DEF Offered, Owners
  <2>3. t \in Moves(p, Promela!Timeouts(p))
    BY <2>1, <2>2, ReadyIsTimeout
  <2>4. t.edge \in Promela!Timeouts(t.proc)
    BY <2>3 DEF Moves
  <2>5. Promela!Free(t.proc)
    BY <2>1 DEF Promela!Free, Promela!Quiet
  <2> QED BY <1>1, <2>4, <2>5
<1> QED BY <1>4, <1>5, <1>6 DEF Executables

\* Every run of the loop is a run the interleaving semantics of Promela allows.
THEOREM Interleaving == Spec => ImplementsPromela
<1>1. ExecutionInit => Promela!Init
  BY DEF ExecutionInit, Promela!Init, Boot
<1>2. ASSUME TypeOK, ExclusiveIsLast, [Next]_vars
      PROVE  [Promela!Next]_(Promela!vars)
  <2>1. CASE ExecutionAbort
    <3>1. ASSUME Fatal(machine)
          PROVE  \E p \in Proc : Promela!Failing(p) # {}
      <4>1. PICK p \in Proc : Offers(machine, p)
        BY <1>2, <3>1 DEF Fatal, Owners, TypeOK, Machine
      <4>2. PICK e \in Leaving(machine, p) : e.stm.op = "send"
        BY <4>1 DEF Offers
      <4>3. e \in Promela!Failing(p)
        BY <4>2, SameLeaving DEF Promela!Failing
      <4> QED BY <4>3
    <3>2. ASSUME NEW t \in Executables(machine), ~Applicable(machine, t)
          PROVE  \E p \in Proc : Promela!Failing(p) # {}
      <4>1. t.proc \in Proc /\ t.edge \in Promela!Leaving(t.proc)
        BY <1>2, <3>2, ExecutablesType, SameLeaving DEF TypeOK, Move
      <4>2. t.edge \in Promela!Failing(t.proc)
        BY <3>2, <4>1 DEF Applicable, Promela!Failing
      <4> QED BY <4>1, <4>2
    <3>3. Promela!Failed
      BY <2>1, <3>1, <3>2 DEF ExecutionAbort, Promela!Failed
    <3> QED BY <2>1, <3>3 DEF ExecutionAbort, Promela!Next
  <2>2. CASE ExecutionStep
    <3>1. PICK t \in Executables(machine) : machine' = Applied(machine, t)
      BY <2>2 DEF ExecutionStep
    <3>2. /\ t.proc \in Proc
          /\ t.edge \in Promela!Able(t.proc) \cup Promela!Timeouts(t.proc)
          /\ Promela!Free(t.proc)
      BY <1>2, <3>1, ExecutableIsStep
    <3>3. machine \in Machine /\ t \in Move
      BY <1>2, <3>1, ExecutablesType DEF TypeOK
    <3>4. /\ machine'.loc = [machine.loc EXCEPT ![t.proc] = t.edge.dst]
          /\ machine'.val = IF t.edge.stm.op = "assign" THEN t.edge.stm.arg ELSE machine.val
          /\ machine'.last = t.proc
      BY <3>1, <3>3, AppliedType
    <3>5. i' # 0 /\ phase' \in {"running", "cut"}
      BY <1>2, <2>2 DEF ExecutionStep, Bounded, TypeOK
    <3>6. Promela!Step(t.proc, t.edge)
      BY <3>4, <3>5 DEF Promela!Step
    <3> QED BY <2>2, <3>2, <3>6 DEF ExecutionStep, Promela!Next
  <2>3. CASE ExecutionEnd
    <3>1. /\ Offered(machine, None, FALSE) = {}
          /\ Offered(machine, None, TRUE) = {}
      BY <2>3 DEF ExecutionEnd, Executables
    <3>2. Promela!Quiet
      BY <3>1, NothingIsQuiet
    <3>3. ASSUME NEW p \in Proc
          PROVE  Promela!Timeouts(p) = {}
      <4>1. Ready(machine, p, TRUE) = {}
        BY <3>1 DEF Offered, Owners
      <4>2. Moves(p, Promela!Timeouts(p)) = {}
        BY <3>2, <4>1, ReadyIsTimeout
      <4> QED BY <4>2, SomeMove
    <3>4. Promela!Ended
      BY <2>3, <3>2, <3>3 DEF ExecutionEnd, Promela!Ended
    <3> QED BY <2>3, <3>4 DEF ExecutionEnd, Promela!Next
  <2>4. CASE UNCHANGED vars
    BY <2>4 DEF vars, Promela!vars
  <2> QED BY <1>2, <2>1, <2>2, <2>3, <2>4 DEF Next
<1> QED BY <1>1, <1>2, TypeCorrect, ExclusiveCorrect, PTL
        DEF Spec, ImplementsPromela, Promela!Spec
=============================================================================
