---------------------------- MODULE ControlFlow -----------------------------
(***************************************************************************)
(* ASTtoFSM: the visitor that turns the statements of a procedure into an  *)
(* automaton (astToFsm.cpp), with the visitor that turns a condition over  *)
(* features into a formula (expToADD.cpp).                                 *)
(*                                                                         *)
(* The visitor is a record v that each visit turns into another: the nodes *)
(* and edges made so far, the flags new nodes get, and the edges that have *)
(* no target yet.  v.ok tells that no assertion failed and nothing that is *)
(* gone was used.  Lines, probabilities and the order of edges are left    *)
(* out.                                                                    *)
(*                                                                         *)
(* The specification then walks the automaton of a procedure, with what    *)
(* PromelaControl says is left to do beside it.                            *)
(***************************************************************************)
EXTENDS PromelaControl, Naturals, TLC, FiniteSetsExt, SequencesExt

CONSTANT Texts     \* the procedures: lists of statements

VARIABLES
  text,       \* the procedure
  automaton,  \* its automaton, as the visitor leaves it
  at,         \* the node the walk is at
  rest        \* what is left to do there

vars == <<text, automaton, at, rest>>

Nil  == 0                \* no node
Null == {}               \* a formula that was never built: ADD()
Skip == <<"skip">>       \* stmntExpr(exprSkip)
One  == {Product}        \* a formula is the set that holds its products

(***************************************************************************)
(* Conditions over features.                                               *)
(***************************************************************************)

RECURSIVE Formula(_, _)
\* What expToADD leaves in current, found there as cur: a variable stands for the
\* value it is declared with; without one it leaves current as it is, and so
\* does a comparison.
Formula(e, cur) ==
  LET left  == Formula(e[2], cur)
      right == Formula(e[3], left)
      Both(f) == IF left # Null /\ right # Null THEN {f} ELSE right
      Val(c) == CHOOSE f \in c : TRUE
  IN  CASE e[1] = "feature" -> {{p \in Product : e[2] \in p}}
        [] e[1] = "value" -> {IF e[2] THEN Product ELSE {}}
        [] e[1] = "not" -> IF left = Null THEN Null ELSE {Product \ Val(left)}
        [] e[1] = "and" -> Both(Val(left) \cap Val(right))
        [] e[1] = "or"  -> Both(Val(left) \cup Val(right))
        [] OTHER        -> cur

\* expToADD met a feature.
FeatureRef(e) == Names("feature", e)

(***************************************************************************)
(* Nodes and edges.                                                        *)
(***************************************************************************)

Ok(v, b) == [v EXCEPT !.ok = @ /\ b]

\* fsm::createFsmNode, and the first node of the procedure.
CreateNode(v) ==
  [v EXCEPT !.node = @ @@ (v.next :> v.flags), !.next = @ + 1,
            !.current = v.next, !.init = IF @ = Nil THEN v.next ELSE @]

\* fsmNode::createfsmEdge; the edge is v.next.
CreateEdge(v, src, s, feat) ==
  [v EXCEPT !.edge = @ @@ (v.next :> [src |-> src, dst |-> Nil, stm |-> s, feat |-> feat]),
            !.next = @ + 1]

\* fsmEdge::setTargetNode on the edges es; setFeatures on the edges es.
SetTarget(v, es, n) ==
  [Ok(v, n \in DOMAIN v.node) EXCEPT
     !.edge = [e \in DOMAIN @ |-> IF e \in es THEN [@[e] EXCEPT !.dst = n] ELSE @[e]]]

SetFeatures(v, e, f) == [Ok(v, f \notin {Null, One}) EXCEPT !.edge[e].feat = f]

Outgoing(v, n) == {e \in DOMAIN v.edge : v.edge[e].src = n}
Incoming(v, n) == {e \in DOMAIN v.edge : v.edge[e].dst = n}

\* fsm::deleteNode, with the edges that leave it or lead to it.
DeleteNode(v, n) ==
  [Ok(v, n \in DOMAIN v.node) EXCEPT
     !.node = Restrict(@, DOMAIN @ \ {n}),
     !.edge = Restrict(@, DOMAIN @ \ (Outgoing(v, n) \cup Incoming(v, n)))]

(***************************************************************************)
(* The parts of the visits.                                                *)
(***************************************************************************)

\* _connect
Connect(v, n) ==
  [SetTarget(Ok(v, \A e \in v.ends : v.edge[e].dst = Nil), v.ends, n) EXCEPT !.ends = {}]

\* _label
Label(v) ==
  [v EXCEPT !.labelled = [l \in v.labels |-> v.current] @@ @, !.labels = {}]

\* _looseEnd: the edge takes the features that wait for one.
LooseEnd(v, s) ==
  [CreateEdge(Ok(v, v.loose # One), v.current, s, v.loose) EXCEPT
     !.loose = Null, !.ends = @ \cup {v.next}]

\* _looseBreak
LooseBreak(v, s) ==
  [CreateEdge(v, v.current, s, Null) EXCEPT !.breaks = @ \cup {v.next}]

\* _toFsmNode, with label and connect.
ToNode(v, label) ==
  LET made == CreateNode(v)
  IN  Connect(IF label THEN Label(made) ELSE made, made.current)

\* The edges of the node that e leads to are given the source start, and the
\* node is deleted.
Contract(v, start, e) ==
  LET n     == v.edge[e].dst
      moved == [v EXCEPT !.edge = [d \in DOMAIN @ |->
                  IF @[d].src = n THEN [@[d] EXCEPT !.src = start] ELSE @[d]]]
  IN  IF n = Nil THEN Ok(v, FALSE) ELSE DeleteNode(moved, n)

\* The edge of an option, without a target yet.
OptionEdge(v, start) ==
  [CreateEdge(v, start, Skip, Null) EXCEPT !.ends = @ \cup {v.next}]

(***************************************************************************)
(* The visits.                                                             *)
(***************************************************************************)

RECURSIVE Visit(_, _)

\* Mutant: the other products are those the last condition leaves.
GuardLast(v, e) ==
  LET f == Formula(e, Null)
  IN  [Ok(v, f # One /\ v.elses # Null) EXCEPT
         !.loose = f, !.hasElse = TRUE, !.elses = {Product \ UNION f}]

\* visit(stmntExpr) for a condition over features.
Guard(v, e) ==
  LET f == Formula(e, Null)
  IN  [Ok(v, f # One /\ v.elses # Null) EXCEPT
         !.loose = f, !.hasElse = TRUE,
         !.elses = {g \ UNION f : g \in @}]

\* One option of an if.  acc.ends gathers the loose ends of the options.
IfOption(acc, start, opt) ==
  LET trans   == acc.v.next
      visited == Visit(OptionEdge(acc.v, start), opt)
      guarded == IF visited.loose = Null THEN visited
                 ELSE [SetFeatures(visited, trans, visited.loose) EXCEPT !.loose = Null]
      done    == IF guarded.edge[trans].feat = Null
                 THEN Contract(guarded, start, trans) ELSE guarded
  IN  [v |-> [done EXCEPT !.ends = {}], ends |-> acc.ends \cup done.ends]

\* The else edges of an if over features are skips for the other products.
ElseFeatures(v, start) ==
  LET elses == {e \in Outgoing(v, start) : v.edge[e].stm[1] = "else"}
  IN  IF ~v.hasElse \/ elses = {} THEN v
      ELSE [Ok(v, v.elses \notin {Null, One}) EXCEPT
              !.edge = [e \in DOMAIN @ |->
                 IF e \in elses THEN [@[e] EXCEPT !.stm = Skip, !.feat = v.elses] ELSE @[e]]]

\* visit(stmntIf); what was saved is restored once the next statements are done.
If(v, opts, next) ==
  LET made  == ToNode(v, TRUE)
      start == made.current
      begun == [Ok(made, v.loose # One) EXCEPT
                  !.loose = Null, !.elses = One, !.hasElse = FALSE]
      all   == FoldLeft(LAMBDA acc, opt : IfOption(acc, start, opt),
                        [v |-> begun, ends |-> {}], opts)
      after == Visit([ElseFeatures(all.v, start) EXCEPT !.ends = @ \cup all.ends], next)
  IN  [after EXCEPT !.loose = v.loose, !.elses = v.elses, !.hasElse = v.hasElse]

\* Mutant: the loose ends of the options before are forgotten.
DoOptionAlone(acc, start, opt) ==
  LET trans   == acc.v.next
      visited == Visit(OptionEdge(acc.v, start), opt)
      done    == Contract(Ok(visited, visited.loose = Null), start, trans)
  IN  [v |-> [done EXCEPT !.ends = {}, !.breaks = {}],
       ends |-> done.ends, breaks |-> acc.breaks \cup done.breaks]

\* One option of a do.
DoOption(acc, start, opt) ==
  LET trans   == acc.v.next
      visited == Visit(OptionEdge(acc.v, start), opt)
      done    == Contract(Ok(visited, visited.loose = Null), start, trans)
  IN  [v |-> [done EXCEPT !.ends = {}, !.breaks = {}],
       ends |-> acc.ends \cup done.ends, breaks |-> acc.breaks \cup done.breaks]

\* visit(stmntDo): loose ends go back to the start, breaks to what follows.
Do(v, opts, next) ==
  LET made  == ToNode(v, TRUE)
      start == made.current
      all   == FoldLeft(LAMBDA acc, opt : DoOption(acc, start, opt),
                        [v |-> made, ends |-> {}, breaks |-> {}], opts)
      loop  == Connect([all.v EXCEPT !.ends = all.ends], start)
  IN  Visit([loop EXCEPT !.ends = @ \cup all.breaks], next)

\* visit(stmntGoto): the edge waits for the end of the procedure.
Goto(v, s) ==
  LET made == ToNode(v, FALSE)
  IN  [CreateEdge(made, made.current, s, Null) EXCEPT
         !.gotos = @ \cup {[edge |-> made.next, label |-> s[2]]}]

\* Mutant: the marks of a label stay for what follows.
LabelledOn(v, s) ==
  Visit([v EXCEPT !.flags = @ \cup s[3], !.labels = @ \cup {s[2]}], <<s[4]>>)

\* visit(stmntLabel)
Labelled(v, s) ==
  LET named == [v EXCEPT !.flags = @ \cup s[3], !.labels = @ \cup {s[2]}]
  IN  [Visit(named, <<s[4]>>) EXCEPT !.flags = {}]

\* Mutant: the flag is not cleared at the end of the sequence.
AtomicOn(v, list) == Visit([v EXCEPT !.flags = @ \cup {"atomic"}], list)

\* visit(stmntAtomic)
Atomic(v, list) ==
  [Visit([v EXCEPT !.flags = @ \cup {"atomic"}], list) EXCEPT !.flags = @ \ {"atomic"}]

\* A statement, then (_visitNext) the next ones; a block has no next.
Visit(v, list) ==
  IF list = <<>> THEN v
  ELSE LET s    == Head(list)
           next == Tail(list)
       IN  CASE s[1] = "expr" /\ FeatureRef(s[3]) -> Visit(Guard(v, s[3]), next)
             [] s[1] = "if"     -> If(v, s[2], next)
             [] s[1] = "do"     -> Do(v, s[2], next)
             [] s[1] = "break"  -> Visit(LooseBreak(ToNode(v, TRUE), s), next)
             [] s[1] = "goto"   -> Visit(Goto(v, s), next)
             [] s[1] = "label"  -> Visit(Labelled(v, s), next)
             [] s[1] = "atomic" -> Visit(Atomic(v, s[2]), next)
             [] s[1] = "block"  -> Visit(v, s[2])
             [] OTHER           -> Visit(LooseEnd(ToNode(v, TRUE), s), next)

\* Mutant: the node of the goto is left in the automaton.
JumpBeside(v, g) ==
  SetTarget(v, Incoming(v, v.edge[g.edge].src), v.labelled[g.label])

\* A goto at the end: what leads to its node leads to the label, and the node
\* is deleted with the edge.
Jump(v, g) ==
  IF g.label \notin DOMAIN v.labelled \/ g.edge \notin DOMAIN v.edge THEN Ok(v, FALSE)
  ELSE LET n == v.edge[g.edge].src
       IN  DeleteNode(SetTarget(v, Incoming(v, n), v.labelled[g.label]), n)

Fresh ==
  [node |-> <<>>, edge |-> <<>>, next |-> 1, flags |-> {}, current |-> Nil, init |-> Nil,
   labels |-> {}, labelled |-> <<>>, ends |-> {}, breaks |-> {}, gotos |-> {},
   loose |-> Null, elses |-> Null, hasElse |-> FALSE, ok |-> TRUE]

\* visit(stmntFct)
Procedure(list) ==
  LET visited == Visit(Fresh, list)
      jumped  == FoldSet(LAMBDA g, v : Jump(v, g), visited, visited.gotos)
      done    == Ok(jumped, jumped.breaks = {} /\ jumped.init \in DOMAIN jumped.node)
  IN  [node |-> done.node, edge |-> done.edge, init |-> done.init, ok |-> done.ok]

(***************************************************************************)
(* The walk.                                                               *)
(***************************************************************************)

RECURSIVE Moves(_, _, _)
\* What a process at node n may do, for the products F.  A skip that a feature
\* expression guards has no effect of its own: the walk goes through it.
Moves(a, n, F) ==
  IF F = {} THEN {}
  ELSE IF n = Nil THEN {[does |-> Exit, feat |-> F, unless |-> {}, to |-> Nil]}
  ELSE
    LET out    == {a.edge[e] : e \in Outgoing(a, n)}
        For(d) == IF d.feat = Null THEN F ELSE F \cap UNION d.feat
    IN  UNION {IF d.stm = Skip THEN Moves(a, d.dst, For(d))
               ELSE {[does |-> d.stm, feat |-> For(d), to |-> d.dst,
                      unless |-> IF d.stm[1] = "else"
                                 THEN {o.stm : o \in out \ {d}} ELSE {}]}
               : d \in out}

Init ==
  /\ text \in Texts
  /\ automaton = Procedure(text)
  /\ at = automaton.init
  /\ rest = Settled(text, text)

\* The process fires an edge of the automaton, which is a step of the text.
Fire ==
  /\ at # Nil
  /\ \E m \in Moves(automaton, at, Product), s \in Steps(text, rest, Product) :
        /\ m.does = s.does
        /\ at' = m.to
        /\ rest' = Settled(text, s.rest)
  /\ UNCHANGED <<text, automaton>>

Ended == at = Nil /\ UNCHANGED vars

Next == Fire \/ Ended

Spec == Init /\ [][Next]_vars

(***************************************************************************)
(* Properties.                                                             *)
(***************************************************************************)

\* The visit fails no assertion and follows no pointer to what it deleted; an
\* edge leaves a node of the automaton and leads to one or to the end; no node
\* of a goto is left where the process can be.
WellBuilt ==
  /\ automaton.ok
  /\ \A e \in DOMAIN automaton.edge :
        /\ automaton.edge[e].src \in DOMAIN automaton.node
        /\ automaton.edge[e].dst \in DOMAIN automaton.node \cup {Nil}
        /\ automaton.edge[e].stm[1] # "goto"
  /\ at \in DOMAIN automaton.node \cup {Nil}

\* The process may do at its node what the text says it may do there, no more
\* and no less: contracting nodes, moving edges, joining loose ends, loops,
\* breaks and gotos lose no statement and add none.
StepsAgree ==
  {[does |-> m.does, unless |-> m.unless] : m \in Moves(automaton, at, Product)}
    = {[does |-> s.does, unless |-> s.unless] : s \in Steps(text, rest, Product)}

\* And it may do it for the same products: conditions over features reach the
\* edges they guard, an else gets the products that are left, and formulas
\* saved while an inner if is visited come back.
ProductsAgree ==
  \A m \in Moves(automaton, at, Product) :
    UNION {n.feat : n \in {o \in Moves(automaton, at, Product) : o.does = m.does}}
      = UNION {s.feat : s \in {t \in Steps(text, rest, Product) : t.does = m.does}}

\* A node keeps the process exclusive where the text is inside an atomic
\* sequence or at the start of one, and nowhere else.
AtomicWhereWritten ==
  at # Nil => ("atomic" \in automaton.node[at] <=> Inside(rest) \/ AtAtomic(rest))

\* The node at a label has the marks of its name, and no other node has any.
MarksOfLabels ==
  at # Nil => automaton.node[at] \ {"atomic"} = MarksAt(rest)

\* "Transform a statement into a node of the FSM (and its children)"
\* (astToFsm.cpp:106): every statement of the text is on an edge.
StatementsKept ==
  \A p \in Places(text, <<>>) :
    p.stm[1] = "step" => \E e \in DOMAIN automaton.edge : automaton.edge[e].stm = p.stm
=============================================================================
