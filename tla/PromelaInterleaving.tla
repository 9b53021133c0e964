------------------------ MODULE PromelaInterleaving -------------------------
(***************************************************************************)
(* What the steps of a Promela program may be, said without exclusivity,   *)
(* and without asking twice: which process may step depends on where the   *)
(* processes are, on the variable and on who took the last step.           *)
(***************************************************************************)
CONSTANTS Proc, Node, Value, Out, Atomic, End, None, Starts, Initial

VARIABLES
  loc,   \* the node of every process
  val,   \* the value of the variable
  last,  \* the process that took the last step
  status

vars == <<loc, val, last, status>>

Leaving(p) == IF loc[p] = End THEN {} ELSE Out[loc[p]]

\* The statements of p that can be executed by themselves.
Guarded(p) ==
  {e \in Leaving(p) : \/ e.stm.op \in {"skip", "assign", "assert"}
                      \/ e.stm.op = "test" /\ e.stm.arg = val}

\* With else, which waits for the other statements of its own process.
Able(p) ==
  IF Guarded(p) # {} THEN Guarded(p)
  ELSE {e \in Leaving(p) : e.stm.op = "else"}

\* No process holds p back: one that stands in an atomic sequence it has just
\* stepped in does, unless it is blocked.
Free(p) == \A q \in Proc \ {p} : last = q /\ loc[q] \in Atomic => Able(q) = {}

Quiet == \A p \in Proc : Able(p) = {}

\* timeout waits for all statements of all processes.
Timeouts(p) == {e \in Leaving(p) : Quiet /\ e.stm.op = "timeout"}

Init ==
  /\ loc \in Starts
  /\ val = Initial
  /\ last = None
  /\ status = "running"

Step(p, e) ==
  /\ loc' = [loc EXCEPT ![p] = e.dst]
  /\ val' = IF e.stm.op = "assign" THEN e.stm.arg ELSE val
  /\ last' = p
  /\ status' \in {"running", "cut"}

Ended ==
  /\ Quiet
  /\ \A p \in Proc : Timeouts(p) = {}
  /\ status' = "ended"
  /\ UNCHANGED <<loc, val, last>>

\* A statement the program cannot execute, or an assertion of the model.
Failing(p) ==
  {e \in Leaving(p) : \/ e.stm.op = "send"
                      \/ e.featured
                      \/ e.stm.op = "assert" /\ e.stm.arg # val}

Failed ==
  /\ \E p \in Proc : Failing(p) # {}
  /\ status' = "aborted"
  /\ UNCHANGED <<loc, val, last>>

Next ==
  /\ status = "running"
  /\ \/ \E p \in Proc : Free(p) /\ \E e \in Able(p) \cup Timeouts(p) : Step(p, e)
     \/ Ended
     \/ Failed

Spec == Init /\ [][Next]_vars
=============================================================================
