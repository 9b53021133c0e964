--------------------------- MODULE PromelaControl ---------------------------
(***************************************************************************)
(* Where control may go in a Promela procedure, read off its text: what is *)
(* left to do is a sequence of statements, and a step takes a statement    *)
(* from its head.  No node, no edge: this is what the automata built by    *)
(* ASTtoFSM are compared with.                                             *)
(*                                                                         *)
(* A statement is a tuple that starts with its kind:                       *)
(*   <<"step", i>>           an assignment, a print, a send ...            *)
(*   <<"expr", i, e>>        a condition; e is an expression               *)
(*   <<"else", i>>           an else                                       *)
(*   <<"if", opts>>, <<"do", opts>>   options: sequences of statements     *)
(*   <<"break", i>>, <<"goto", l>>                                         *)
(*   <<"label", l, marks, s>>   s labelled l, a name with these marks      *)
(*   <<"atomic", list>>, <<"block", list>>                                 *)
(* where i tells apart the places of the text.  While a procedure runs,    *)
(* <<"again", s>> stands for the return to the loop s and <<"leave">> for  *)
(* the end of an atomic sequence.                                          *)
(***************************************************************************)
EXTENDS Naturals, Sequences, FiniteSets

CONSTANT Feature   \* the features the conditions may name

Product == SUBSET Feature

\* An expression: <<"feature", f>>, <<"var", x>> for a comparison or a variable
\* declared without a value, <<"value", b>> for a constant or a variable declared
\* with one (b: it is not 0), <<"not", a>>, <<"and", a, b>> or <<"or", a, b>>.
RECURSIVE Names(_, _), Selects(_)

\* Whether an expression has a leaf of this kind.
Names(kind, e) ==
  CASE e[1] \in {"and", "or"} -> Names(kind, e[2]) \/ Names(kind, e[3])
    [] e[1] = "not"          -> Names(kind, e[2])
    [] OTHER                 -> e[1] = kind

\* The products an expression over features alone holds of.
Selects(e) ==
  CASE e[1] = "feature" -> {p \in Product : e[2] \in p}
    [] e[1] = "not"     -> Product \ Selects(e[2])
    [] e[1] = "and"     -> Selects(e[2]) \cap Selects(e[3])
    [] e[1] = "or"      -> Selects(e[2]) \cup Selects(e[3])

IsGuard(s) == s[1] = "expr" /\ Names("feature", s[3])

\* The statement under a label, and the marks the label's name carries.
Body(s)  == IF s[1] = "label" THEN s[4] ELSE s
Marks(s) == IF s[1] = "label" THEN s[3] ELSE {}

\* The lists of statements a statement is made of.
Parts(s) ==
  LET b == Body(s)
  IN  CASE b[1] \in {"if", "do"}        -> {b[2][i] : i \in DOMAIN b[2]}
        [] b[1] \in {"atomic", "block"} -> {b[2]}
        [] OTHER                        -> {}

RECURSIVE Places(_, _)
\* Every statement of a list, with what is left to do from there when k is
\* left to do after the list.
Places(list, k) ==
  UNION {LET s     == list[i]
             after == SubSeq(list, i + 1, Len(list)) \o k
             then  == CASE Body(s)[1] = "do"     -> <<<<"again", s>>>> \o after
                        [] Body(s)[1] = "atomic" -> <<<<"leave">>>> \o after
                        [] OTHER                 -> after
         IN  {[stm |-> s, rest |-> <<s>> \o after]}
               \cup UNION {Places(part, then) : part \in Parts(s)}
         : i \in DOMAIN list}

\* What is left to do from label l on.
FromLabel(text, l) ==
  (CHOOSE p \in Places(text, <<>>) : p.stm[1] = "label" /\ p.stm[2] = l).rest

RECURSIVE Settled(_, _)
\* What is left to do, once atomic sequences are left and jumps are made.
Settled(text, k) ==
  IF k = <<>> THEN k
  ELSE LET s == Head(k)
       IN  CASE s[1] = "leave" -> Settled(text, Tail(k))
             [] s[1] = "goto"  -> Settled(text, FromLabel(text, s[2]))
             [] s[1] = "block" -> Settled(text, s[2] \o Tail(k))
             [] OTHER          -> k

\* What is left after a break: control leaves the innermost loop.
AfterBreak(k) ==
  LET loop == CHOOSE i \in DOMAIN k : /\ k[i][1] = "again"
                                      /\ \A j \in 1 .. i - 1 : k[j][1] # "again"
  IN  SubSeq(k, loop + 1, Len(k))

Exit == <<"exit">>   \* the end of the procedure

Featured(opts) == \E i \in DOMAIN opts : opts[i] # <<>> /\ IsGuard(opts[i][1])

RECURSIVE Steps(_, _, _)
\* The steps control can take when k is left to do, for the products F: what is
\* done, for which products, what is left, and for an else the statements it
\* is the alternative of.
Steps(text, k, F) ==
  IF F = {} THEN {}
  ELSE IF k = <<>> THEN {[does |-> Exit, feat |-> F, unless |-> {}, rest |-> <<>>]}
  ELSE
    LET s     == Head(k)
        b     == Body(s)
        after == Tail(k)
        Taken(r) == {[does |-> b, feat |-> F, unless |-> {}, rest |-> r]}
        then  == IF b[1] = "do" THEN <<<<"again", s>>>> \o after ELSE after
        Else  == {i \in DOMAIN b[2] : b[2][i] # <<>> /\ b[2][i][1][1] = "else"}
        Other == DOMAIN b[2] \ Else
        Of(i) == Steps(text, b[2][i] \o then, F)
        \* An else beside options for some products only is for the others.
        Unclaimed == F \ UNION {Selects(b[2][i][1][3]) : i \in Other}
        Last(i) ==
          IF Featured(b[2])
          THEN Steps(text, Tail(b[2][i]) \o then, Unclaimed)
          ELSE {[does |-> b[2][i][1], feat |-> F,
                 unless |-> UNION {{t.does : t \in Of(j)} : j \in Other},
                 rest |-> Tail(b[2][i]) \o then]}
    IN  CASE b[1] = "break" -> Taken(AfterBreak(after))
          [] b[1] = "step"  -> Taken(after)
          [] b[1] = "expr"  -> IF IsGuard(b) THEN Steps(text, after, F \cap Selects(b[3]))
                               ELSE Taken(after)
          [] b[1] \in {"if", "do"} ->
               UNION ({Of(i) : i \in Other} \cup {Last(i) : i \in Else})
          [] b[1] = "atomic" -> Steps(text, b[2] \o <<<<"leave">>>> \o after, F)
          [] b[1] = "again"  -> Steps(text, <<b[2]>> \o after, F)
          [] OTHER           -> Steps(text, Settled(text, k), F)

\* Control is inside an atomic sequence it has entered and not left.
Inside(k) == \E i \in DOMAIN k : k[i][1] = "leave"

\* The marks of the place where control is.
MarksAt(k) ==
  IF k = <<>> THEN {}
  ELSE IF Head(k)[1] = "again" THEN Marks(Head(k)[2]) ELSE Marks(Head(k))

\* Control is at the start of an atomic sequence.
AtAtomic(k) == k # <<>> /\ Body(Head(k))[1] = "atomic"
=============================================================================
