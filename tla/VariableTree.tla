---------------------------- MODULE VariableTree ----------------------------
(***************************************************************************)
(* The variables of a state (variable.cpp, primitiveVariable.cpp), how     *)
(* initState.cpp builds them, and the block of memory that holds their     *)
(* values (payload.cpp).  A variable is a node of a tree: the composite    *)
(* state holds the systems and the claim, a system its global variables    *)
(* and its processes, a process its local variables.  Each node knows its  *)
(* parent and its offset from it; the root alone owns the payload.         *)
(*                                                                         *)
(* A tree is the sequence of its variables in the order of their           *)
(* construction, which is also that of the lists of parts: a parent is the *)
(* number of a variable, 0 when there is none.  A variable is filled before*)
(* it is attached to its parent, so there is a stack of variables that are *)
(* being filled.  A memory cell holds a digit of base Radix, 256 in the    *)
(* program.                                                                *)
(***************************************************************************)
EXTENDS Integers, SequencesExt

CONSTANTS
    Radix,        \* values of a byte
    Pointer,      \* bytes of a pointer to a node of an automaton
    Types,        \* the types of the leaves that are declared
    Handles,      \* the states that may be alive
    MaxVariables, \* bound: variables of the tree, the root included
    MaxCalls      \* bound: calls made on the states once they are built

LeafTypes == {"cmtype", "bit", "bool", "byte", "mtype", "short", "int"}
Compounds == {"comp", "prog", "utype", "chan", "proc", "never"}
Threads == {"proc", "never"}
States == {"comp", "prog", "proc", "never"}

ASSUME TreeAssumption ==
    /\ Radix \in Nat /\ Radix > 1 /\ Radix % 2 = 0 /\ Pointer \in Nat \ {0}
    /\ Types \subseteq LeafTypes /\ MaxVariables \in Nat /\ MaxCalls \in Nat

VARIABLES
    tree,         \* the variables under construction
    open,         \* those being filled, the innermost last
    states,       \* the states alive: tree of variables and payload
    call,         \* the last call and its arguments
    calls,        \* how many there were
    aborted       \* an assertion failed

vars == <<tree, open, states, call, calls, aborted>>

Power(k) == LET p[i \in Nat] == IF i = 0 THEN 1 ELSE Radix * p[i - 1] IN p[k]

\* The sum of w[1], ..., w[k].
Total(w, k) == LET t[i \in Nat] == IF i = 0 THEN 0 ELSE t[i - 1] + w[i] IN t[k]

-----------------------------------------------------------------------------
(* The types of leaves. *)

Width(t) ==
    CASE t = "cmtype" -> 0
      [] t \in {"bit", "bool", "byte", "mtype"} -> 1
      [] t = "short" -> 2
      [] t = "int" -> 4

Signed == {"short", "int"}
Half(t) == Power(Width(t)) \div 2
LowerBound(t) == IF t \in Signed THEN -Half(t) ELSE 0
UpperBound(t) == IF t \in Signed THEN Half(t) - 1 ELSE IF t \in {"bit", "bool"} THEN 1 ELSE Radix - 1
InBounds(t, n) == n \in LowerBound(t) .. UpperBound(t)

(* Types whose ++ and -- do nothing but fail an assertion. *)
NoSteps == {"bool", "mtype"}

-----------------------------------------------------------------------------
(* The tree. *)

(* The raw bytes a constructor reserves: the node of a thread, the length  *)
(* of a channel that buffers.                                              *)
RawBytes(t) == CASE t \in Threads -> {Pointer} [] t = "chan" -> {0, 1} [] OTHER -> {0}

Variable(t, raw, n) == [type |-> t, raw |-> raw, init |-> n, parent |-> 0, offset |-> 0]
IsLeaf(x) == x.type \in LeafTypes

(* The bytes of a variable that are not those of its parts. *)
Own(x) == IF IsLeaf(x) THEN Width(x.type) ELSE x.raw

(* A variable and those that contain it; a variable and all it contains.   *)
Above(v, j) == LET up[k \in 0 .. Len(v)] == IF k = 0 THEN {} ELSE {k} \cup up[v[k].parent] IN up[j]
Within(v, i) == {j \in DOMAIN v : i \in Above(v, j)}

Offset(v, j) == LET up[k \in 0 .. Len(v)] == IF k = 0 THEN 0 ELSE v[k].offset + up[v[k].parent] IN up[j]

(* The own bytes of the variables of S. *)
Bytes(v, S) == Total([j \in DOMAIN v |-> IF j \in S THEN Own(v[j]) ELSE 0], Len(v))
SizeOf(v, i) == Bytes(v, Within(v, i))

EndOffset(v, i) == v[i].offset + SizeOf(v, i)

(* Mutant: the raw bytes of the parent are not counted. *)
AddVariableOverRaw(v, i, j) ==
    [v EXCEPT ![j] = [@ EXCEPT !.parent = i, !.offset = EndOffset(v, i) - v[i].raw]]

(* j becomes a part of i, behind the parts i has. *)
AddVariable(v, i, j) == [v EXCEPT ![j] = [@ EXCEPT !.parent = i, !.offset = EndOffset(v, i)]]

(* The copy constructor attaches copies of the parts, in their order: each *)
(* comes behind its parent's own bytes and the parts before it.            *)
Copied(v) ==
    [j \in DOMAIN v |-> [v[j] EXCEPT !.offset =
        IF v[j].parent = 0 THEN 0 ELSE Bytes(v, {k \in Within(v, v[j].parent) : k < j})]]

-----------------------------------------------------------------------------
(* The payload. *)

Span(v, j) == (Offset(v, j) + 1) .. (Offset(v, j) + Own(v[j]))

Digit(n, i) == (n \div Power(i - 1)) % Radix

Raw(bytes, offset, width) == Total([i \in 1 .. width |-> bytes[offset + i] * Power(i - 1)], width)

GetValue(bytes, offset, t) ==
    LET n == Raw(bytes, offset, Width(t))
    IN  IF t \in Signed /\ n >= Half(t) THEN n - 2 * Half(t) ELSE n

(* Mutant: the second argument of payload::hash is taken for what its name *)
(* says, the end, while its callers give a size.                           *)
SliceToEnd(s, i) ==
    [b \in 1 .. SizeOf(s.tree, i) - Offset(s.tree, i) |-> s.bytes[Offset(s.tree, i) + b]]

(* What the hash of a part of the state sees; of a part that has no size,  *)
(* it sees everything.                                                     *)
Slice(s, i) ==
    IF SizeOf(s.tree, i) = 0 THEN s.bytes
    ELSE [b \in 1 .. SizeOf(s.tree, i) |-> s.bytes[Offset(s.tree, i) + b]]

(* What a variable holds: the value of a leaf, the node of a thread.  A    *)
(* constant of an mtype has no memory; its value is in its symbol.         *)
Holders(v) == {j \in DOMAIN v : IsLeaf(v[j]) \/ v[j].type \in Threads}
Leaves(v) == {j \in DOMAIN v : IsLeaf(v[j]) /\ v[j].type # "cmtype"}

Held(s, j) ==
    LET x == s.tree[j]
    IN  IF x.type \in Threads THEN Raw(s.bytes, Offset(s.tree, j), Pointer)
        ELSE IF x.type = "cmtype" THEN x.init
        ELSE GetValue(s.bytes, Offset(s.tree, j), x.type)

Values(s) == [j \in Holders(s.tree) |-> Held(s, j)]

(* The variables of DOMAIN values are written, one after the other: a byte *)
(* keeps what was written to it last.                                      *)
Put(s, values) ==
    [tree |-> s.tree,
     bytes |-> [b \in DOMAIN s.bytes |->
        LET writers == {j \in DOMAIN values : b \in Span(s.tree, j)}
        IN  IF writers = {} THEN s.bytes[b]
            ELSE Digit(values[Max(writers)], b - Offset(s.tree, Max(writers)))]]

-----------------------------------------------------------------------------
(* Building: initState.cpp. *)

Top == Last(open)

(* What may come next inside a variable: systems then the claim; global    *)
(* variables then processes.                                               *)
LastPart(v, i) ==
    LET parts == {j \in DOMAIN v : v[j].parent = i}
    IN  IF parts = {} THEN "none" ELSE v[Max(parts)].type

Fits(v, i, t) ==
    LET last == LastPart(v, i)
    IN  CASE t = "cmtype" -> v[i].type = "prog" /\ last # "proc"
          [] v[i].type = "comp" -> t \in {"prog", "never"} /\ last # "never" /\ (t = "never" => last # "none")
          [] v[i].type = "prog" -> t = "proc" \/ (t \notin States /\ last # "proc")
          [] v[i].type \in {"proc", "utype"} -> t \notin States
          [] v[i].type = "chan" -> t \in Types \ {"cmtype"}
          [] OTHER -> FALSE

Building == open # <<>> /\ ~aborted /\ UNCHANGED <<states, call, calls, aborted>>
Room == Len(tree) < MaxVariables

Construct(t) ==
    /\ Building /\ Room /\ Fits(tree, Top, t)
    /\ \E raw \in RawBytes(t) : tree' = Append(tree, Variable(t, raw, 0))
    /\ open' = Append(open, Len(tree) + 1)

(* A declaration with a value: 0 when it has none; the constant of an mtype *)
(* has one, and the pid of a process is given to it like a value declared.  *)
Inits(t) == IF t = "cmtype" THEN {1} ELSE {0, UpperBound(t), UpperBound(t) + 1}

Declare(t) ==
    /\ Building /\ Room /\ Fits(tree, Top, t)
    /\ \E n \in Inits(t) : tree' = AddVariable(Append(tree, Variable(t, 0, n)), Top, Len(tree) + 1)
    /\ UNCHANGED open

Attach ==
    /\ Building /\ Len(open) > 1
    /\ SizeOf(tree, Top) > 0  \* no program is without its predefined variables
    /\ tree' = AddVariable(tree, open[Len(open) - 1], Top)
    /\ open' = Front(open)

-----------------------------------------------------------------------------
(* Running. *)

None == [op |-> "none"]
Live(h) == h \in DOMAIN states
Calling == open = <<>> /\ ~aborted /\ calls < MaxCalls /\ calls' = calls + 1 /\ UNCHANGED <<tree, open>>
Abort == aborted' = TRUE /\ UNCHANGED <<states, call>>

(* init: memory is cleared, every declaration is given its value and every *)
(* thread its first node.                                                  *)
StartNode == 1
Declared(v) == [j \in Holders(v) |-> IF v[j].type \in Threads THEN StartNode ELSE v[j].init]
Cleared(v) == [tree |-> v, bytes |-> [b \in 1 .. SizeOf(v, 1) |-> 0]]
Start(v) == Put(Cleared(v), Declared(v))

Load(h) ==
    /\ Len(open) = 1 /\ ~aborted /\ LastPart(tree, Top) # "none"
    /\ open' = <<>> /\ tree' = <<>> /\ UNCHANGED calls
    /\ IF \E j \in Leaves(tree) : ~InBounds(tree[j].type, tree[j].init)
       THEN Abort
       ELSE /\ states' = [k \in {h} |-> Start(tree)]
            /\ call' = [op |-> "load", on |-> h, values |-> Declared(tree)]
            /\ UNCHANGED aborted

Write(h, j, n) ==
    /\ states' = [states EXCEPT ![h] = Put(@, [k \in {j} |-> n])]
    /\ call' = [op |-> "write", on |-> h, what |-> j, value |-> n]
    /\ UNCHANGED aborted

(* Mutant: without assertions the value is stored as it is. *)
SetValueUnchecked(h, j, n) == Write(h, j, n)

(* setValue: a value outside the bounds of the type fails an assertion. *)
SetValue(h, j, n) == IF InBounds(states[h].tree[j].type, n) THEN Write(h, j, n) ELSE Abort

(* The values tried: those at the bounds and beside them that are integers. *)
Probes(t) == {n \in {LowerBound(t) - 1, LowerBound(t), 1, UpperBound(t), UpperBound(t) + 1} : InBounds("int", n)}

Assign(h) ==
    /\ Live(h) /\ Calling
    /\ \E j \in Leaves(states[h].tree) : \E n \in Probes(states[h].tree[j].type) : SetValue(h, j, n)

Same == UNCHANGED <<states, call, aborted>>

(* ++ stops at the upper bound. *)
Increment(h) ==
    /\ Live(h) /\ Calling
    /\ \E j \in Leaves(states[h].tree) :
          LET t == states[h].tree[j].type
              n == Held(states[h], j)
          IN  IF t \in NoSteps THEN Abort
              ELSE IF n < UpperBound(t) THEN SetValue(h, j, n + 1)
              ELSE Same

(* -- stops at the lower bound, but that of an int: there its test         *)
(* overflows, and the build decides between staying and wrapping around.   *)
Decrement(h) ==
    /\ Live(h) /\ Calling
    /\ \E j \in Leaves(states[h].tree) :
          LET t == states[h].tree[j].type
              n == Held(states[h], j)
          IN  IF t \in NoSteps THEN Abort
              ELSE IF n - 1 >= LowerBound(t) THEN SetValue(h, j, n - 1)
              ELSE Same \/ (t = "int" /\ SetValue(h, j, UpperBound(t)))

(* A thread goes to another node, or to none: the null pointer. *)
SetFsmNodePointer(h) ==
    /\ Live(h) /\ Calling
    /\ \E j \in Holders(states[h].tree) :
          /\ states[h].tree[j].type \in Threads
          /\ \E n \in {0, Power(Pointer) - 1} : Write(h, j, n)

IsRendezvous(v, c) == v[c].type = "chan" /\ v[c].raw = 0
Fields(v, c) == Leaves(v) \cap Within(v, c)

Clear(h, c, s) ==
    /\ states' = [states EXCEPT ![h] = s]
    /\ call' = [op |-> "clear", on |-> h, what |-> Fields(s.tree, c)]
    /\ UNCHANGED aborted

(* Mutant: payload::reset with its default size clears all that follows. *)
ResetFollowing(h) ==
    /\ Live(h) /\ Calling
    /\ LET s == states[h]
       IN  \E c \in DOMAIN s.tree :
              /\ IsRendezvous(s.tree, c)
              /\ Clear(h, c, [s EXCEPT !.bytes = [b \in DOMAIN @ |-> IF b > Offset(s.tree, c) THEN 0 ELSE @[b]]])

(* The fields of a rendezvous channel are set to 0 once they are received. *)
Reset(h) ==
    /\ Live(h) /\ Calling
    /\ LET s == states[h]
       IN  \E c \in DOMAIN s.tree :
              /\ IsRendezvous(s.tree, c)
              /\ Clear(h, c, Put(s, [j \in Fields(s.tree, c) |-> 0]))

DeepCopy(h, k) ==
    /\ Live(h) /\ ~Live(k) /\ Calling
    /\ states' = [x \in DOMAIN states \cup {k} |->
                    IF x = k THEN [tree |-> Copied(states[h].tree), bytes |-> states[h].bytes] ELSE states[x]]
    /\ call' = [op |-> "copy", on |-> h, to |-> k]
    /\ UNCHANGED aborted

Delete(h) ==
    /\ Live(h) /\ Calling
    /\ states' = Restrict(states, DOMAIN states \ {h})
    /\ call' = [op |-> "delete", on |-> h]
    /\ UNCHANGED aborted

-----------------------------------------------------------------------------
Init ==
    /\ tree = <<Variable("comp", 0, 0)>> /\ open = <<1>>
    /\ states = [h \in {} |-> {}]
    /\ call = None /\ calls = 0 /\ aborted = FALSE

Build == (\E t \in Compounds : Construct(t)) \/ (\E t \in Types : Declare(t)) \/ Attach

Use(h) ==
    \/ Assign(h) \/ Increment(h) \/ Decrement(h) \/ SetFsmNodePointer(h) \/ Reset(h)
    \/ Delete(h) \/ \E k \in Handles : DeepCopy(h, k)

Next == Build \/ \E h \in Handles : Load(h) \/ Use(h)

Spec == Init /\ [][Next]_vars

-----------------------------------------------------------------------------
(* Type invariant: what is held is within the bounds of its type.          *)
Nodes == [type : LeafTypes \cup Compounds, raw : Nat, init : Int, parent : Nat, offset : Nat]
TypeOK ==
    /\ tree \in Seq(Nodes) /\ open \in Seq(DOMAIN tree)
    /\ aborted \in BOOLEAN /\ calls \in 0 .. MaxCalls
    /\ DOMAIN states \subseteq Handles
    /\ \A h \in DOMAIN states :
          /\ states[h].tree \in Seq(Nodes)
          /\ states[h].bytes \in [1 .. SizeOf(states[h].tree, 1) -> 0 .. Radix - 1]
          /\ \A j \in Leaves(states[h].tree) : InBounds(states[h].tree[j].type, Held(states[h], j))

(* Every byte of the payload belongs to exactly one variable, or to the    *)
(* raw bytes of one: offsets that are counted from the parent, while a     *)
(* variable is filled before it has one, neither overlap nor leave a hole  *)
(* (setParent, getOffset, getEndOffset; variable.cpp).                     *)
Tiled ==
    \A h \in DOMAIN states :
        LET v == states[h].tree
        IN  /\ UNION {Span(v, j) : j \in DOMAIN v} = DOMAIN states[h].bytes
            /\ \A i, j \in DOMAIN v : i # j => Span(v, i) \cap Span(v, j) = {}

(* The part of the payload a hash is taken of tells two states apart       *)
(* exactly when a variable of that part differs: the searches take states  *)
(* for known by the hash of a program or of the claim alone (payload::hash).*)
SliceTells ==
    \A h, k \in DOMAIN states :
        \A i \in DOMAIN states[h].tree :
            states[h].tree[i].type \in States =>
                ( Slice(states[h], i) = Slice(states[k], i)
                  <=> \A j \in Holders(states[h].tree) \cap Within(states[h].tree, i) :
                         Held(states[h], j) = Held(states[k], j) )

(* The tree and its payload implement a store of values: a variable starts *)
(* with the value declared and holds what was last written to it, a write  *)
(* or a reset touches nothing else, a copy shares nothing with its original*)
Store == INSTANCE ValueStore WITH store <- [h \in DOMAIN states |-> Values(states[h])]
ImplementsStore == Store!Spec
=============================================================================
