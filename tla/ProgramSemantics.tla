-------------------------- MODULE ProgramSemantics --------------------------
(***************************************************************************)
(* progState and process: which transitions of a Promela program are       *)
(* executable, and what applying one does.  The operators are functions of *)
(* a machine, the state of one program:                                    *)
(*   loc   the node of every process, End once it has run to completion    *)
(*   val   the value of a shared variable                                  *)
(*   excl  the process in an atomic sequence, or None (exclusiveProc)      *)
(*   last  the process that took the last step (lastStepPid)               *)
(*                                                                         *)
(* Nodes are those of all automata in memory: two automata share none, and *)
(* a machine may hold nodes of any of them.                                *)
(*                                                                         *)
(* A transition carries one statement.  The statements that are told apart *)
(* are those executables() and apply() treat differently; every expression *)
(* over variables is a test of val.  No communication completes in this    *)
(* version of the code (see Fatal), so messages have no content.           *)
(***************************************************************************)
EXTENDS Naturals, FiniteSets, Sequences

CONSTANTS
  Proc,    \* the processes of a program, by pid
  Node,    \* the nodes of all automata
  Value,   \* the values of the shared variable
  Channel, \* the channels; those of Rendezvous have capacity 0
  Rendezvous,
  Out,     \* the edges that leave a node (fsmNode::getEdges)
  Atomic,  \* the nodes with the flag N_ATOMIC
  First,   \* the process with pid 0
  End, None

Statement ==
  [op : {"skip", "else", "timeout"}, arg : {None}]
  \cup [op : {"test", "assign", "assert"}, arg : Value]
  \cup [op : {"send", "receive"}, arg : Channel]

Edge == [dst : Node \cup {End}, stm : Statement, featured : BOOLEAN]

ASSUME OutAssumption == Out \in [Node -> SUBSET Edge]
ASSUME NodeAssumption ==
  /\ End \notin Node
  /\ None \notin Proc
  /\ First \in Proc
  /\ Atomic \subseteq Node
  /\ Rendezvous \subseteq Channel

Machine == [loc : [Proc -> Node \cup {End}], val : Value,
            excl : Proc \cup {None}, last : Proc]

\* A transition of a machine: a process and an edge.
Move == [proc : Proc, edge : Edge]

\* A process that has run to completion has no node.
Leaving(m, p) == IF m.loc[p] = End THEN {} ELSE Out[m.loc[p]]

\* The initial state of the automaton whose processes start at start.
Boot(start, v) == [loc |-> start, val |-> v, excl |-> None, last |-> First]

\* (Mutant: what is not in the payload is seen too.)
PayloadAll(m) == m

\* What the payload holds, and so what hash() and compare() see.
Payload(m) == [loc |-> m.loc, val |-> m.val]

-----------------------------------------------------------------------------
(* executables *)

\* process::eval outside a handshake, of the statements that may be executed:
\* a channel is never filled, so a receive is not.
Enabled(m, stm, els, timeout) ==
  \/ stm.op \in {"skip", "assign", "assert"}
  \/ stm.op = "test" /\ stm.arg = m.val
  \/ stm.op = "else" /\ els
  \/ stm.op = "timeout" /\ timeout

Willing(m, p, els, timeout) ==
  {t \in [proc : {p}, edge : Leaving(m, p)] : Enabled(m, t.edge.stm, els, timeout)}

\* process::executables: else is tried when nothing else can be executed.
Ready(m, p, timeout) ==
  IF Willing(m, p, FALSE, timeout) # {}
  THEN Willing(m, p, FALSE, timeout)
  ELSE Willing(m, p, TRUE, timeout)

Owners(excl) == IF excl = None THEN Proc ELSE {excl}

\* The transitions of the processes that a process with exclusivity leaves.
Offered(m, excl, timeout) == UNION {Ready(m, p, timeout) : p \in Owners(excl)}

\* (Mutant: exclusivity is not lifted.)
ExecutablesStuck(m) ==
  IF Offered(m, m.excl, FALSE) # {} THEN Offered(m, m.excl, FALSE)
  ELSE Offered(m, m.excl, TRUE)

\* progState::executables: exclusivity is lifted, then timeout set, when there
\* is nothing to execute; both are restored.
Executables(m) ==
  IF Offered(m, m.excl, FALSE) # {} THEN Offered(m, m.excl, FALSE)
  ELSE IF Offered(m, None, FALSE) # {} THEN Offered(m, None, FALSE)
  ELSE Offered(m, None, TRUE)

(***************************************************************************)
(* The send statements met on the way end the program.  On a buffered      *)
(* channel, process::executables sends for real and asks the program for   *)
(* its executables again, where the same send is met: len() asserts as     *)
(* soon as the channel is full.  On a rendezvous channel nothing happens   *)
(* unless some process can receive; then the rendezVousTransition          *)
(* dereferences the response, which is not a processTransition.            *)
(***************************************************************************)
Offers(m, p) ==
  \E e \in Leaving(m, p) :
    /\ e.stm.op = "send"
    /\ \/ e.stm.arg \notin Rendezvous
       \/ \E q \in Proc : \E f \in Leaving(m, q) :
            f.stm.op = "receive" /\ f.stm.arg = e.stm.arg

Fatal(m) ==
  \/ \E p \in Owners(m.excl) : Offers(m, p)
  \/ Offered(m, m.excl, FALSE) = {} /\ \E p \in Proc : Offers(m, p)

-----------------------------------------------------------------------------
(* apply *)

InAtomic(m, p) == m.loc[p] \in Atomic

\* A transition with a feature expression is not the processTransition that
\* progState::apply asserts; a statement assert may fail.
Applicable(m, t) ==
  /\ ~t.edge.featured
  /\ t.edge.stm.op = "assert" => t.edge.stm.arg = m.val

\* (Mutant: exclusivity is kept when the atomic sequence is left.)
AppliedKeep(m, t) ==
  [m EXCEPT !.loc[t.proc] = t.edge.dst,
            !.val = IF t.edge.stm.op = "assign" THEN t.edge.stm.arg ELSE @,
            !.excl = IF t.edge.dst \in Atomic THEN t.proc ELSE @,
            !.last = t.proc]

\* process::apply takes the process of the machine that has the pid of the
\* transition: the edge need not be one of its own automaton.
Applied(m, t) ==
  [m EXCEPT !.loc[t.proc] = t.edge.dst,
            !.val = IF t.edge.stm.op = "assign" THEN t.edge.stm.arg ELSE @,
            !.excl = IF t.edge.dst \in Atomic THEN t.proc ELSE None,
            !.last = t.proc]
=============================================================================
