----------------------------- MODULE ValueStore -----------------------------
(***************************************************************************)
(* What the variables of a program promise to those who read and write     *)
(* them: a state is a function from variables to values, an assignment     *)
(* changes one variable of one state, a copy is a state of its own.  How   *)
(* the values are laid out in memory is the business of VariableTree,      *)
(* which implements this specification.                                    *)
(***************************************************************************)
EXTENDS Integers

CONSTANT
    Handles       \* the states that may be alive

VARIABLES
    store,        \* for each state alive, what each of its variables holds
    call          \* the last call and its arguments

vars == <<store, call>>

Idle == [op |-> "none"]

Init == store = [h \in {} |-> {}] /\ call = Idle

(* The first state of the program: the values its declarations give, which *)
(* are arguments of the call.                                              *)
Load(h) ==
    /\ DOMAIN store = {}
    /\ call'.op = "load" /\ call'.on = h
    /\ store' = [k \in {h} |-> call'.values]

Write(h) ==
    /\ h \in DOMAIN store
    /\ call'.op = "write" /\ call'.on = h /\ call'.what \in DOMAIN store[h]
    /\ store' = [store EXCEPT ![h] = [@ EXCEPT ![call'.what] = call'.value]]

(* A message is taken from a channel: its fields are zero again. *)
Clear(h) ==
    /\ h \in DOMAIN store
    /\ call'.op = "clear" /\ call'.on = h /\ call'.what \subseteq DOMAIN store[h]
    /\ store' = [store EXCEPT ![h] =
                    [x \in DOMAIN @ |-> IF x \in call'.what THEN 0 ELSE @[x]]]

Copy(h, k) ==
    /\ h \in DOMAIN store /\ k \notin DOMAIN store
    /\ call' = [op |-> "copy", on |-> h, to |-> k]
    /\ store' = [x \in DOMAIN store \cup {k} |-> IF x = k THEN store[h] ELSE store[x]]

Delete(h) ==
    /\ h \in DOMAIN store
    /\ call' = [op |-> "delete", on |-> h]
    /\ store' = [x \in DOMAIN store \ {h} |-> store[x]]

Next == \E h \in Handles : Load(h) \/ Write(h) \/ Clear(h) \/ Delete(h) \/ \E k \in Handles : Copy(h, k)

Spec == Init /\ [][Next]_vars
=============================================================================
