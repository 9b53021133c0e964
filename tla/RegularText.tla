---------------------------- MODULE RegularText -----------------------------
(***************************************************************************)
(* The procedures the translation of ControlFlow.tla is right for.  Each   *)
(* condition excludes a form of statement that Promela allows and that     *)
(* astToFsm.cpp translates into another program; the line says where.      *)
(***************************************************************************)
EXTENDS PromelaControl

Statements(list) == {p.stm : p \in Places(list, <<>>)}

IsLoop(s)     == Body(s)[1] = "do"
IsChoice(s)   == Body(s)[1] \in {"if", "do"}
IsAtomic(s)   == Body(s)[1] = "atomic"
IsLabel(s)    == s[1] = "label"
Within(s)     == UNION {Statements(part) : part \in Parts(s)}
Selections(list) == {s \in Statements(list) : IsChoice(s)}
Options(list) == UNION {Parts(s) : s \in Selections(list)}
Lists(list)   == {list} \cup UNION {Parts(s) : s \in Statements(list)}

RECURSIVE First(_), OwnBreak(_)

\* The first statement of a list, inside atomic sequences and blocks.
First(list) ==
  IF list = <<>> THEN <<"nothing">>
  ELSE IF Head(list)[1] \in {"atomic", "block"} THEN First(Head(list)[2])
  ELSE Head(list)

\* A break in the list leaves a loop around it.
OwnBreak(list) ==
  \E i \in DOMAIN list :
    \/ Body(list[i])[1] = "break"
    \/ ~IsLoop(list[i]) /\ \E part \in Parts(list[i]) : OwnBreak(part)

Guarded(opt) == opt # <<>> /\ IsGuard(Head(opt))
Else(opt)    == opt # <<>> /\ Head(opt)[1] = "else"

\* The node of an option's first statement is deleted (195-198, 281-284): with
\* it go the edges back to a loop and the node of a label, and the edge of a
\* goto is moved to the start of the options, which is then deleted (359).
OptionsStartPlain(list) ==
  \A opt \in Options(list) : First(opt)[1] \in {"step", "expr", "else", "break", "if"}

\* visit(stmntSeq) does not visit what follows the block (309).
BlocksLast(list) ==
  \A l \in Lists(list) : \A i \in 1 .. Len(l) - 1 : l[i][1] # "block"

\* The node of a goto takes no label (316), a label inside an atomic sequence
\* clears its flag (339), and so does the end of an atomic sequence inside
\* another (389).
LabelsPlain(list) ==
  /\ \A s \in Statements(list) : IsLabel(s) => Body(s)[1] \notin {"goto", "block", "label"}
  /\ \A s \in Statements(list) : IsAtomic(s) =>
       \A t \in Within(s) : ~IsLabel(t) /\ ~IsAtomic(t)
  /\ \A s, t \in Statements(list) : IsLabel(s) /\ IsLabel(t) /\ s[2] = t[2] => s = t

\* Every node made under a label gets the marks of its name (327-336).
MarksOnOneNode(list) ==
  \A s \in Statements(list) : Marks(s) # {} =>
    /\ ~IsAtomic(s)
    /\ \A opt \in Parts(s) :
         /\ Head(opt)[1] \in {"step", "expr", "break", "else"}
         /\ Len(opt) <= 2
         /\ Len(opt) = 2 => opt[2][1] = (IF Guarded(opt) THEN "step" ELSE "goto")

\* A loop takes the breaks that wait for the loop around it (288).
NoBreakBeforeLoop(list) ==
  /\ ~OwnBreak(list)
  /\ \A s \in Statements(list) : IsLoop(s) =>
       \A opt \in Parts(s) : \A i \in DOMAIN opt :
         \/ ~IsLoop(opt[i]) /\ \A t \in Within(opt[i]) : ~IsLoop(t)
         \/ ~OwnBreak(SubSeq(opt, 1, i))

\* An else is an alternative to all edges of its node, those of an inner if
\* that were moved there included (195-198).
ElseAlone(list) ==
  /\ \A l \in Lists(list) : \A i \in DOMAIN l :
       Body(l[i])[1] = "else" => i = 1 /\ l \in Options(list)
  /\ \A s \in Selections(list) :
       LET opts == Body(s)[2]
           elses == {i \in DOMAIN opts : Else(opts[i])}
       IN  /\ Cardinality(elses) <= 1
           /\ \A opt \in Parts(s) : First(opt)[1] = "if" =>
                LET inner == First(opt)[2]
                IN  /\ elses = {}
                    /\ Featured(opts) \/ Featured(inner) => Guarded(opt)
                    /\ \A j \in DOMAIN inner : Else(inner[j]) => Featured(inner)

\* Features: a condition over features may only start an option of an if (130:
\* outside, there is no formula to narrow; 278: a loop asserts that it is not
\* left over), names nothing else (expToADD.cpp:23-46), is not followed by
\* another (128) nor by a loop or a label, and an else beside it is beside
\* nothing else (223-229).
GuardsPlain(list) ==
  /\ \A l \in Lists(list) : \A i \in DOMAIN l :
       IsGuard(Body(l[i])) =>
         /\ i = 1
         /\ l[i] = Body(l[i])
         /\ \E s \in Selections(list) : ~IsLoop(s) /\ l \in Parts(s)
         /\ ~Names("var", l[i][3]) /\ ~Names("value", l[i][3])
         /\ Selects(l[i][3]) # Product
         /\ LET second == First(Tail(l))
            IN  ~IsGuard(second) /\ second[1] \notin {"do", "label", "else"}
  /\ \A s \in Selections(list) :
       LET opts == Body(s)[2]
       IN  Featured(opts) /\ (\E i \in DOMAIN opts : Else(opts[i])) =>
             /\ \A i \in DOMAIN opts : Else(opts[i]) \/ Guarded(opts[i])
             /\ \E i \in DOMAIN opts : Guarded(opts[i]) /\ Selects(opts[i][1][3]) # {}

\* A procedure does not start with a goto, whose node is deleted (349, 359);
\* its labels are its own; and a jump that needs no step leads to one.
JumpsPlain(list) ==
  /\ list # <<>>
  /\ First(list)[1] # "goto"
  /\ \A l \in Lists(list) : \A i \in DOMAIN l :
       Body(l[i])[1] = "goto" =>
         \E s \in Statements(list) :
           /\ IsLabel(s) /\ s[2] = Body(l[i])[2]
           /\ i = 2 /\ (Guarded(l) \/ Else(l)) => Body(s)[1] = "step"

Regular(list) ==
  /\ OptionsStartPlain(list)
  /\ BlocksLast(list)
  /\ LabelsPlain(list)
  /\ MarksOnOneNode(list)
  /\ NoBreakBeforeLoop(list)
  /\ ElseAlone(list)
  /\ GuardsPlain(list)
  /\ JumpsPlain(list)
=============================================================================
