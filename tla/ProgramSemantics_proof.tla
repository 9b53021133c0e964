----------------------- MODULE ProgramSemantics_proof -----------------------
(***************************************************************************)
(* What executables() finds and what apply() leaves, for any program: the  *)
(* facts the proofs about the loops of explore.cpp rest on.                *)
(***************************************************************************)
EXTENDS ProgramSemantics, TLAPS

LEMMA LeavingType ==
  ASSUME NEW m \in Machine, NEW p \in Proc
  PROVE  /\ Leaving(m, p) \subseteq Edge
         /\ m.loc[p] \in Node \cup {End}
BY OutAssumption DEF Machine, Leaving

\* A transition that can be executed belongs to an edge of its process.
LEMMA OfferedType ==
  ASSUME NEW m \in Machine, NEW excl \in Proc \cup {None},
         NEW timeout \in BOOLEAN, NEW t \in Offered(m, excl, timeout)
  PROVE  /\ t \in Move
         /\ t.edge \in Leaving(m, t.proc)
<1>1. PICK p \in Owners(excl) : t \in Ready(m, p, timeout)
  BY DEF Offered
<1>2. p \in Proc
  BY <1>1 DEF Owners
<1>3. t \in [proc : {p}, edge : Leaving(m, p)]
  BY <1>1 DEF Ready, Willing
<1> QED BY <1>2, <1>3, LeavingType DEF Move

LEMMA ExecutablesType ==
  ASSUME NEW m \in Machine, NEW t \in Executables(m)
  PROVE  /\ t \in Move
         /\ t.edge \in Leaving(m, t.proc)
<1>1. m.excl \in Proc \cup {None}
  BY DEF Machine
<1>2. \E x \in {m.excl, None} : \E b \in BOOLEAN : t \in Offered(m, x, b)
  BY DEF Executables
<1> QED BY <1>1, <1>2, OfferedType

LEMMA AppliedType ==
  ASSUME NEW m \in Machine, NEW t \in Move
  PROVE  /\ Applied(m, t) \in Machine
         /\ Applied(m, t).loc = [m.loc EXCEPT ![t.proc] = t.edge.dst]
         /\ Applied(m, t).val =
              IF t.edge.stm.op = "assign" THEN t.edge.stm.arg ELSE m.val
         /\ Applied(m, t).excl = IF t.edge.dst \in Atomic THEN t.proc ELSE None
         /\ Applied(m, t).last = t.proc
<1>1. /\ t.proc \in Proc
      /\ t.edge.dst \in Node \cup {End}
      /\ t.edge.stm \in Statement
  BY DEF Move, Edge
<1>2. t.edge.stm.op = "assign" => t.edge.stm.arg \in Value
  BY <1>1 DEF Statement
<1> QED BY <1>1, <1>2 DEF Machine, Applied

\* The machine that has the payload of m and no process with exclusivity.
Plain(m) == [loc |-> m.loc, val |-> m.val, excl |-> None, last |-> First]

\* The payload decides what can be executed when nobody has exclusivity.
LEMMA PlainExecutables ==
  ASSUME NEW m \in Machine, m.excl = None
  PROVE  /\ Plain(m) \in Machine
         /\ Executables(Plain(m)) = Executables(m)
<1>1. Plain(m) \in Machine
  BY NodeAssumption DEF Plain, Machine
<1>2. /\ Plain(m).loc = m.loc /\ Plain(m).val = m.val
      /\ Plain(m).excl = m.excl
  BY DEF Plain
<1>3. \A p : Leaving(Plain(m), p) = Leaving(m, p)
  BY <1>2 DEF Leaving
<1>4. \A p, x, b : Willing(Plain(m), p, x, b) = Willing(m, p, x, b)
  BY <1>2, <1>3 DEF Willing, Enabled
<1>5. \A p, b : Ready(Plain(m), p, b) = Ready(m, p, b)
  BY <1>4 DEF Ready
<1>6. \A x, b : Offered(Plain(m), x, b) = Offered(m, x, b)
  BY <1>5 DEF Offered
<1> QED BY <1>1, <1>2, <1>6 DEF Executables
=============================================================================
