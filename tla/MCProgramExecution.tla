------------------------- MODULE MCProgramExecution -------------------------
(***************************************************************************)
(* An instance of ProgramExecution for TLC: every pair of processes whose  *)
(* first nodes offer one or two statements, atomic or not, and which go on *)
(* from there to one of a few nodes, or end.                               *)
(***************************************************************************)
EXTENDS ProgramExecution, FiniteSetsExt

CONSTANTS p1, p2, c, d

MCProc == {p1, p2}
MCValue == {0, 1}
MCChannel == {c, d}
MCRendezvous == {d}

stm(o, x) == [op |-> o, arg |-> x]

Plain == {stm("test", 0), stm("test", 1), stm("assign", 1), stm("else", None),
          stm("timeout", None)}
Channels == {stm("send", c), stm("send", d), stm("receive", d)}

Menus ==
  {{x, y} : x, y \in Plain} \cup {{x} : x \in Channels}
  \cup {{stm("skip", None)}, {stm("assert", 1), stm("assign", 0)}}

\* A node is numbered; it has a menu and may be atomic.
Body == FoldSet(LAMBDA x, s : Append(s, x), <<>>, Menus \X BOOLEAN)
MCNode == 1 .. Len(Body)
MCAtomic == {n \in MCNode : Body[n][2]}

\* The nodes to which the first statement of a process leads.
Later ==
  {n \in MCNode :
     Body[n] \in {<<{stm("test", 1), stm("else", None)}, TRUE>>,
                  <<{stm("test", 1)}, TRUE>>,
                  <<{stm("assign", 1), stm("timeout", None)}, FALSE>>,
                  <<{stm("assign", 1), stm("timeout", None)}, TRUE>>,
                  <<{stm("assert", 1), stm("assign", 0)}, FALSE>>}}

\* A skip may carry a feature expression.
MCOut ==
  [n \in MCNode |->
    {[dst |-> x, stm |-> y, featured |-> f] :
       x \in Later \cup {End}, y \in Body[n][1],
       f \in IF stm("skip", None) \in Body[n][1] THEN BOOLEAN ELSE {FALSE}}]

MCStarts == [Proc -> MCNode]
=============================================================================
