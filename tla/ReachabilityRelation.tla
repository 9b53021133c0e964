------------------------ MODULE ReachabilityRelation ------------------------
(***************************************************************************)
(* algorithm/reachabilityRelation.cpp: the hash table of the states the    *)
(* nested search has met, with the products each was met with, and the     *)
(* account of the products found to violate the property.                  *)
(*                                                                         *)
(* The operations of the class are operators and actions over its fields.  *)
(* lastFoundIn only selects which statistic an inner step counts and is    *)
(* left out; so are the debugging fields `secret' and `R' of a state.      *)
(***************************************************************************)
EXTENDS FeaturedGraph

VARIABLES
  visited,         \* the keys of `map'
  outerFeatures,   \* per state: products the outer search met it with
  innerFeatures,   \* per state: products the inner search met it with
  dfsIn,           \* the search in progress
  productToVisit,  \* per component: valid products without a violation
  productFail,     \* per component: products a violation was reported for
  allProductsFail, \* per component: no valid product is left
  nbErrors

relVars == <<visited, outerFeatures, innerFeatures, dfsIn,
             productToVisit, productFail, allProductsFail, nbErrors>>

failVars == <<productToVisit, productFail, allProductsFail, nbErrors>>

\* (Mutant: one record for both searches.)
KnownOuter(s) == outerFeatures[s]

\* The products of s that the current search has on record.
Known(s) == IF dfsIn = "outer" THEN outerFeatures[s] ELSE innerFeatures[s]

\* (Mutant: the products are not compared.)
StatusByHash(s, f) == IF s \notin visited THEN "never" ELSE "visited"

\* getStatus: a known state is fresh if one of its components is.
Status(s, f) ==
  IF s \notin visited THEN "never"
  ELSE IF Within(f, Known(s)) THEN "visited" ELSE "fresh"

\* (Mutants: the state keeps what was explored before; it is narrowed by the
\* record that already holds its own products.)
NarrowedNot(s, f)  == f
NarrowedLate(s, f) == IF s \in visited THEN Zero ELSE f

(***************************************************************************)
(* update also narrows the state it is given: a component that brings new  *)
(* products keeps only those, a component that brings none is left alone.  *)
(***************************************************************************)
Narrowed(s, f) ==
  IF s \notin visited THEN f
  ELSE [c \in Comp |-> IF f[c] \subseteq Known(s)[c]
                       THEN f[c] ELSE f[c] \ Known(s)[c]]

\* update; an unknown state may only be entered by the outer search
\* (stateToRState asserts false otherwise).
Update(s, f) ==
  /\ s \in visited \/ dfsIn = "outer"
  /\ visited' = visited \cup {s}
  /\ IF s \notin visited
     THEN /\ outerFeatures' = [outerFeatures EXCEPT ![s] = f]
          /\ UNCHANGED innerFeatures
     ELSE IF dfsIn = "outer"
     THEN /\ outerFeatures' = [outerFeatures EXCEPT ![s] = Or(@, f)]
          /\ UNCHANGED innerFeatures
     ELSE /\ innerFeatures' = [innerFeatures EXCEPT ![s] = Or(@, f)]
          /\ UNCHANGED outerFeatures
  /\ UNCHANGED <<dfsIn, failVars>>

SetDFS(d) == dfsIn' = d

(***************************************************************************)
(* addTraceViolation, called with the features of a state.  It asserts     *)
(* that no open component is unconstrained; Chargeable is that assertion.  *)
(***************************************************************************)
Chargeable(f) == \A c \in Comp : ~allProductsFail[c] => f[c] # Product

AddTraceViolation(f) ==
  LET open == {c \in Comp : ~allProductsFail[c]} IN
  /\ Chargeable(f)
  /\ productToVisit' =
       [c \in Comp |-> IF c \in open THEN productToVisit[c] \ f[c]
                                     ELSE productToVisit[c]]
  /\ productFail' =
       [c \in Comp |-> IF c \in open THEN productFail[c] \cup f[c]
                                     ELSE productFail[c]]
  /\ allProductsFail' = [c \in Comp |-> productToVisit'[c] = {}]
  /\ nbErrors' = nbErrors + 1

\* init(s, f) on an empty relation: one entry and one account per component.
RelInit(s, f) ==
  /\ visited = {s}
  /\ outerFeatures = [[t \in State |-> Zero] EXCEPT ![s] = f]
  /\ innerFeatures = [t \in State |-> Zero]
  /\ dfsIn = "outer"
  /\ productToVisit = [c \in Comp |-> Valid]
  /\ productFail = Zero
  /\ allProductsFail = [c \in Comp |-> FALSE]
  /\ nbErrors = 0

RelTypeOK ==
  /\ visited \subseteq State
  /\ outerFeatures \in [State -> Feat]
  /\ innerFeatures \in [State -> Feat]
  /\ dfsIn \in {"outer", "inner"}
  /\ productToVisit \in Feat
  /\ productFail \in Feat
  /\ allProductsFail \in [Comp -> BOOLEAN]
  /\ nbErrors \in Nat
=============================================================================
