------------------------- MODULE MCTraceGeneration -------------------------
(***************************************************************************)
(* Instances of TraceGeneration for TLC.  A program has two processes of   *)
(* two statements; its mutant is the program itself, or a program with one *)
(* statement replaced.  Nodes of the original have the index 0, those of   *)
(* the mutant, loaded from another file, the index 1.                      *)
(***************************************************************************)
EXTENDS TraceGeneration, TLC

CONSTANTS p1, p2, c

MCProc == {p1, p2}
MCValue == {0, 1}
MCChannel == {c}
NoRendezvous == {}

stm(o, x) == [op |-> o, arg |-> x]

Statements ==
  <<stm("test", 1), stm("assign", 1), stm("assign", 0), stm("skip", None),
    stm("else", None), stm("send", c)>>

\* The node <<file, a, b, x>> offers two statements and goes on to
\* <<file, x, x, 0>>, which loops; those with x = 2 are in an atomic sequence.
Later == {<<f, x, x, 0>> : f \in {0, 1}, x \in {2, 4}}
FirstNodes(f, S) == {<<f, a, b, x>> : a \in S, b \in S, x \in {2, 4}}
MCNode == Later \cup FirstNodes(0, 1 .. 6) \cup FirstNodes(1, 1 .. 6)
MCAutomata == {{n \in MCNode : n[1] = f} : f \in {0, 1}}
MCAtomic == {n \in MCNode : n[4] = 2}

Target(n) == IF n[4] = 0 THEN n ELSE <<n[1], n[4], n[4], 0>>

MCOut ==
  [n \in MCNode |->
    {[dst |-> Target(n), stm |-> Statements[a], featured |-> FALSE] : a \in {n[2], n[3]}}]

\* The first process has any two of the statements, in an atomic sequence or
\* not; the second one has the statements 2 and 5, 1 alone, or 1 and 6.
Firsts == {<<0, a, b, x>> : a \in 1 .. 4, b \in 1 .. 5, x \in {2, 4}}
Seconds == {<<0, 2, 5, 4>>, <<0, 1, 1, 2>>, <<0, 1, 6, 2>>}

Program(x, y) == (p1 :> x) @@ (p2 :> y)

\* The same node of the other file, with a as its first statement.
Copy(n, a) == <<1, a, n[3], n[4]>>

\* A program and itself, or a copy with one statement replaced or none.
MCPairs ==
  {[original |-> Program(x, y), mutant |-> Program(x, y)] : x \in Firsts, y \in Seconds}
  \cup {[original |-> Program(x, y), mutant |-> Program(Copy(x, a), Copy(y, y[2]))] :
          x \in {n \in Firsts : n[3] = 5}, a \in 1 .. 4, y \in Seconds}
=============================================================================
