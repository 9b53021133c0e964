----------------------------- MODULE LTLVerdict -----------------------------
(***************************************************************************)
(* What a nested search promises: one answer about the automaton it was    *)
(* given.  "satisfied" covers every valid product, "violated" is owed to   *)
(* at least one; a search may also abort without an answer.                *)
(***************************************************************************)
EXTENDS FeaturedGraph

VARIABLES graph, answer

Init == graph \in Graph /\ answer = "searching"

Satisfied ==
  /\ \A j \in Runs(graph) : ~Counterexample(graph, j)
  /\ answer' = "satisfied"

Violated ==
  /\ \E j \in Runs(graph) : Counterexample(graph, j)
  /\ answer' = "violated"

Aborted == answer' = "aborted"

Decide ==
  /\ answer = "searching"
  /\ Satisfied \/ Violated \/ Aborted
  /\ UNCHANGED graph

Spec == Init /\ [][Decide]_<<graph, answer>>
=============================================================================
