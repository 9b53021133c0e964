---------------------------- MODULE MCStateSpace ----------------------------
(***************************************************************************)
(* Instances of StateSpace for TLC: two processes whose first nodes offer  *)
(* one or two statements, from where they go to one of two nodes.          *)
(***************************************************************************)
EXTENDS StateSpace

CONSTANTS p1, p2, c

MCProc == {p1, p2}
MCValue == {0, 1, 2}
MCChannel == {c}
NoRendezvous == {}

stm(o, x) == [op |-> o, arg |-> x]

Statements ==
  <<stm("test", 0), stm("test", 1), stm("assign", 1), stm("assign", 0),
    stm("else", None), stm("timeout", None), stm("send", c)>>

\* The node <<a, b, x>> offers two of the statements and leads to <<x>>; those
\* after it offer these and lead to the end, or to themselves.
FirstNodes == {<<a, b, x>> \in (1 .. 7) \X (1 .. 7) \X (1 .. 4) : a <= b /\ (b = 7 => a = 7)}
Later == {<<x>> : x \in 1 .. 4}

Menu(n) ==
  CASE n = <<1>> -> {stm("test", 1), stm("else", None)}
    [] n = <<2>> -> {stm("assign", 0), stm("test", 1)}
    [] n = <<3>> -> {stm("test", 1)}
    [] n = <<4>> -> {stm("assign", 2)}
    [] OTHER -> {Statements[n[1]], Statements[n[2]]}

Target(n) == IF Len(n) = 3 THEN <<n[3]>> ELSE IF n = <<2>> THEN n ELSE End

MCNode == FirstNodes \cup Later
MCAtomic == {<<1>>, <<3>>}
NoneAtomic == {}

MCOut ==
  [n \in MCNode |->
    {[dst |-> Target(n), stm |-> y, featured |-> FALSE] : y \in Menu(n)}]

\* A process that ends, beside one that loops; one that enters an atomic node
\* where it may be blocked, beside one that goes on.
PlainStarts == {f \in [Proc -> FirstNodes] : f[p1][3] = 1 /\ f[p2][3] = 2}
AtomicStarts == {f \in [Proc -> FirstNodes] : f[p1][3] = 3 /\ f[p2][3] = 4}

\* More transitions than the shortest path to any state has: from PlainStarts
\* the first process moves twice, the second one once, and its loop, which
\* assigns 0 or nothing, is worth a turn after each of these moves.
MCDiameter == 8
=============================================================================
