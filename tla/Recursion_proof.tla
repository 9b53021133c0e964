--------------------------- MODULE Recursion_proof ---------------------------
(***************************************************************************)
(* Induction over the natural numbers, and what a function defined by      *)
(* recursion on them is, for any step.  The step and the number it comes   *)
(* from are parameters of the module: a proof instantiates them with what  *)
(* its module recurses with.                                               *)
(***************************************************************************)
EXTENDS Naturals, WellFoundedInduction, TLAPS

CONSTANTS
    Step(_, _, _),  \* the value at j, from that at Back(j, T), j and T
    Back(_, _)

\* A set of natural numbers that is not empty has a least element.
LEMMA Least ==
  ASSUME NEW T \in SUBSET Nat, T # {}
  PROVE  \E x \in T : \A y \in T : x <= y
<1> DEFINE Less == {p \in Nat \X Nat : p[1] < p[2]}
<1>1. IsWellFoundedOn(Less, Nat)
  BY NatLessThanWellFounded DEF OpToRel
<1> HIDE DEF Less
<1>2. PICK x \in T : \A y \in T : <<y, x>> \notin Less
  BY <1>1, WFMin
<1>3. ASSUME NEW y \in T PROVE x <= y
  <2>1. x \in Nat /\ y \in Nat
    OBVIOUS
  <2>2. y < x => <<y, x>> \in Less
    BY <2>1 DEF Less
  <2> QED BY <1>2, <2>1, <2>2
<1> QED BY <1>2, <1>3

\* Induction: the least number outside of S would follow one inside.
LEMMA Induct ==
  ASSUME NEW S, 0 \in S, \A n \in Nat : n \in S => n + 1 \in S
  PROVE  Nat \subseteq S
<1> SUFFICES ASSUME Nat \ S # {} PROVE FALSE
  OBVIOUS
<1>1. PICK x \in Nat \ S : \A y \in Nat \ S : x <= y
  BY Least
<1>2. x # 0
  BY <1>1
<1>3. x - 1 \in Nat /\ x - 1 < x /\ (x - 1) + 1 = x
  BY <1>1, <1>2
<1>4. x - 1 \in S
  BY <1>1, <1>3
<1> QED BY <1>1, <1>3, <1>4

-----------------------------------------------------------------------------
\* The value at k of the function on D that is A at 0 and goes by steps.
Iterate(D, A, T, k) ==
  LET S[j \in D] == IF j = 0 THEN A ELSE Step(S[Back(j, T)], j, T)
  IN S[k]

\* The recursion stays within D and goes down.
Downward(D, T) ==
  /\ D \subseteq Nat /\ 0 \in D
  /\ \A j \in D : j # 0 => Back(j, T) \in D /\ Back(j, T) < j

UpTo(D, n) == {j \in D : j <= n}

\* g is that function, up to n.
Prefix(D, A, T, n, g) ==
  g = [j \in UpTo(D, n) |-> IF j = 0 THEN A ELSE Step(g[Back(j, T)], j, T)]

LEMMA PrefixSteps ==
  ASSUME NEW D, NEW A, NEW T, NEW n, NEW g, Prefix(D, A, T, n, g), NEW j \in UpTo(D, n)
  PROVE  g[j] = IF j = 0 THEN A ELSE Step(g[Back(j, T)], j, T)
<1>1. \A i \in UpTo(D, n) : g[i] = IF i = 0 THEN A ELSE Step(g[Back(i, T)], i, T)
  BY Zenon DEF Prefix
<1> QED BY <1>1

\* Two of them are the same as far as both go ...
LEMMA PrefixAgree ==
  ASSUME NEW D, NEW A, NEW T, NEW n \in Nat, NEW m \in Nat, NEW g, NEW h, Downward(D, T),
         Prefix(D, A, T, n, g), Prefix(D, A, T, m, h), NEW k \in D, k <= n, k <= m
  PROVE  g[k] = h[k]
<1> DEFINE S == {j \in Nat : \A i \in D : i <= j /\ i <= n /\ i <= m => g[i] = h[i]}
<1>1. ASSUME NEW i \in D, i <= n, i <= m
      PROVE  /\ g[i] = IF i = 0 THEN A ELSE Step(g[Back(i, T)], i, T)
             /\ h[i] = IF i = 0 THEN A ELSE Step(h[Back(i, T)], i, T)
  <2>1. i \in UpTo(D, n) /\ i \in UpTo(D, m)
    BY <1>1 DEF UpTo
  <2> QED BY <2>1, PrefixSteps
<1>2. 0 \in S
  <2>1. ASSUME NEW i \in D, i <= 0
        PROVE  i = 0
    BY <2>1 DEF Downward
  <2> QED BY <1>1, <2>1
<1>3. ASSUME NEW j \in Nat, j \in S
      PROVE  j + 1 \in S
  <2> SUFFICES ASSUME NEW i \in D, i <= j + 1, i <= n, i <= m
               PROVE  g[i] = h[i]
    OBVIOUS
  <2>1. i = 0 => g[i] = h[i]
    BY <1>1
  <2>2. ASSUME i # 0
        PROVE  g[i] = h[i]
    <3>1. Back(i, T) \in D /\ Back(i, T) < i /\ i \in Nat /\ Back(i, T) \in Nat
      BY <2>2 DEF Downward
    <3>2. Back(i, T) <= j /\ Back(i, T) <= n /\ Back(i, T) <= m
      BY <3>1
    <3>3. g[Back(i, T)] = h[Back(i, T)]
      BY <1>3, <3>1, <3>2
    <3> QED BY <1>1, <2>2, <3>3
  <2> QED BY <2>1, <2>2
<1> HIDE DEF S
<1>4. k \in S
  <2>1. k \in Nat
    BY DEF Downward
  <2> QED BY <1>2, <1>3, <2>1, Induct
<1> QED BY <1>4 DEF S

\* ... and there is one up to any n.
LEMMA PrefixExists ==
  ASSUME NEW D, NEW A, NEW T, NEW n \in Nat, Downward(D, T)
  PROVE  \E g : Prefix(D, A, T, n, g)
<1> DEFINE S == {k \in Nat : \E g : Prefix(D, A, T, k, g)}
<1>1. 0 \in S
  <2> DEFINE g == [j \in UpTo(D, 0) |-> A]
  <2>1. \A j \in UpTo(D, 0) : j = 0
    BY DEF UpTo, Downward
  <2>2. g = [j \in UpTo(D, 0) |-> IF j = 0 THEN A ELSE Step(g[Back(j, T)], j, T)]
    BY <2>1
  <2>3. Prefix(D, A, T, 0, g)
    BY <2>2 DEF Prefix
  <2> QED BY <2>3
<1>2. ASSUME NEW k \in Nat, k \in S
      PROVE  k + 1 \in S
  <2>1. PICK g : Prefix(D, A, T, k, g)
    BY <1>2
  <2> DEFINE B == Back(k + 1, T)
             h == [j \in UpTo(D, k + 1) |-> IF j = k + 1 THEN Step(g[B], j, T) ELSE g[j]]
  <2>2. ASSUME NEW j \in UpTo(D, k + 1)
        PROVE  h[j] = IF j = 0 THEN A ELSE Step(h[Back(j, T)], j, T)
    <3>1. j \in D /\ j \in Nat /\ j <= k + 1
      BY DEF UpTo, Downward
    <3>2. j # 0 => Back(j, T) \in D /\ Back(j, T) \in Nat /\ Back(j, T) < j
      BY <3>1 DEF Downward
    <3>3. j # 0 => Back(j, T) \in UpTo(D, k + 1) /\ Back(j, T) # k + 1
      BY <3>1, <3>2 DEF UpTo
    <3>4. j # 0 => h[Back(j, T)] = g[Back(j, T)]
      BY <3>3
    <3>5. CASE j = k + 1
      <4>1. j # 0
        BY <3>1, <3>5
      <4>2. h[j] = Step(g[B], j, T)
        BY <3>5
      <4>3. h[j] = Step(g[Back(j, T)], j, T)
        BY <3>5, <4>2
      <4> QED BY <3>4, <4>1, <4>3
    <3>6. CASE j # k + 1
      <4>1. j \in UpTo(D, k)
        BY <3>1, <3>6 DEF UpTo
      <4>2. h[j] = g[j]
        BY <3>6
      <4>3. g[j] = IF j = 0 THEN A ELSE Step(g[Back(j, T)], j, T)
        BY <2>1, <4>1, PrefixSteps
      <4> QED BY <3>4, <4>2, <4>3
    <3> QED BY <3>5, <3>6
  <2>3. h = [j \in UpTo(D, k + 1) |-> h[j]]
    OBVIOUS
  <2> HIDE DEF h
  <2>4. Prefix(D, A, T, k + 1, h)
    BY <2>2, <2>3, Zenon DEF Prefix
  <2> QED BY <2>4
<1> HIDE DEF S
<1>3. n \in S
  BY <1>1, <1>2, Induct
<1> QED BY <1>3 DEF S

\* So the recursive definition defines what it says.
LEMMA IterateSteps ==
  ASSUME NEW D, NEW A, NEW T, Downward(D, T)
  PROVE  \A k \in D : Iterate(D, A, T, k)
                        = IF k = 0 THEN A ELSE Step(Iterate(D, A, T, Back(k, T)), k, T)
<1> DEFINE Is(f) == f = [j \in D |-> IF j = 0 THEN A ELSE Step(f[Back(j, T)], j, T)]
           P(n) == CHOOSE g : Prefix(D, A, T, n, g)
           f0 == [n \in D |-> P(n)[n]]
<1>1. \A n \in D : Prefix(D, A, T, n, P(n))
  <2>1. \A n \in D : n \in Nat
    BY DEF Downward
  <2>2. \A n \in D : \E g : Prefix(D, A, T, n, g)
    BY <2>1, PrefixExists
  <2> QED BY <2>2, Zenon
<1>2. ASSUME NEW n \in D
      PROVE  f0[n] = IF n = 0 THEN A ELSE Step(f0[Back(n, T)], n, T)
  <2> HIDE DEF P
  <2>1. Prefix(D, A, T, n, P(n)) /\ n \in Nat
    BY <1>1 DEF Downward
  <2>2. P(n)[n] = IF n = 0 THEN A ELSE Step(P(n)[Back(n, T)], n, T)
    <3>1. n \in UpTo(D, n)
      BY <2>1 DEF UpTo
    <3> QED BY <2>1, <3>1, PrefixSteps
  <2>3. CASE n = 0
    BY <2>2, <2>3
  <2>4. CASE n # 0
    <3>1. Back(n, T) \in D /\ Back(n, T) \in Nat /\ Back(n, T) < n
      BY <2>4 DEF Downward
    <3>2. Prefix(D, A, T, Back(n, T), P(Back(n, T)))
      BY <1>1, <3>1
    <3>3. P(n)[Back(n, T)] = P(Back(n, T))[Back(n, T)]
      BY <2>1, <3>1, <3>2, PrefixAgree
    <3> QED BY <2>2, <2>4, <3>1, <3>3
  <2> QED BY <2>3, <2>4
<1>3. Is(f0)
  <2>1. f0 = [n \in D |-> f0[n]]
    OBVIOUS
  <2> HIDE DEF f0
  <2> QED BY <1>2, <2>1, Zenon
<1> DEFINE R == CHOOSE f : Is(f)
<1>4. Is(R)
  <2> HIDE DEF Is
  <2> QED BY <1>3, Zenon
<1>5. \A n \in D : R[n] = IF n = 0 THEN A ELSE Step(R[Back(n, T)], n, T)
  <2> HIDE DEF R
  <2> QED BY <1>4, Zenon
<1>6. \A k : Iterate(D, A, T, k) = R[k]
  BY Zenon DEF Iterate
<1> HIDE DEF R
<1> QED BY <1>5, <1>6

\* The value at k depends on the steps up to k alone.
LEMMA IterateLocal ==
  ASSUME NEW A, NEW D, NEW E, NEW T, NEW U, Downward(D, T), Downward(E, U), NEW k \in D, k \in E,
         \A j \in D : j # 0 /\ j <= k =>
            j \in E /\ Back(j, T) = Back(j, U) /\ \A x : Step(x, j, T) = Step(x, j, U)
  PROVE  Iterate(D, A, T, k) = Iterate(E, A, U, k)
<1> DEFINE S == {j \in Nat : \A i \in D : i <= j /\ i <= k => Iterate(D, A, T, i) = Iterate(E, A, U, i)}
<1>0. \A i \in D : i \in Nat
  BY DEF Downward
<1>z. Iterate(D, A, T, 0) = A /\ Iterate(E, A, U, 0) = A
  <2>1. 0 \in D /\ 0 \in E
    BY DEF Downward
  <2>2. /\ \A j \in D : Iterate(D, A, T, j)
                          = IF j = 0 THEN A ELSE Step(Iterate(D, A, T, Back(j, T)), j, T)
        /\ \A j \in E : Iterate(E, A, U, j)
                          = IF j = 0 THEN A ELSE Step(Iterate(E, A, U, Back(j, U)), j, U)
    BY IterateSteps
  <2> QED BY <2>1, <2>2
<1>1. 0 \in S
  <2>1. \A i \in D : i <= 0 => i = 0
    BY <1>0
  <2> QED BY <1>z, <2>1
<1>2. ASSUME NEW j \in Nat, j \in S
      PROVE  j + 1 \in S
  <2> SUFFICES ASSUME NEW i \in D, i <= j + 1, i <= k
               PROVE  Iterate(D, A, T, i) = Iterate(E, A, U, i)
    OBVIOUS
  <2>1. CASE i = 0
    BY <1>z, <2>1
  <2>2. CASE i # 0
    <3>1. i \in E /\ Back(i, T) = Back(i, U) /\ \A x : Step(x, i, T) = Step(x, i, U)
      BY <2>2
    <3>2. Back(i, T) \in D /\ Back(i, T) \in Nat /\ i \in Nat /\ Back(i, T) < i
      BY <1>0, <2>2 DEF Downward
    <3>3. k \in Nat
      BY <1>0
    <3>4. Back(i, T) <= j /\ Back(i, T) <= k
      BY <3>2, <3>3
    <3>5. Iterate(D, A, T, Back(i, T)) = Iterate(E, A, U, Back(i, T))
      BY <1>2, <3>2, <3>4
    <3>6. Iterate(D, A, T, i) = Step(Iterate(D, A, T, Back(i, T)), i, T)
      BY <2>2, IterateSteps
    <3>7. Iterate(E, A, U, i) = Step(Iterate(E, A, U, Back(i, U)), i, U)
      BY <2>2, <3>1, IterateSteps
    <3> QED BY <3>1, <3>5, <3>6, <3>7, Zenon
  <2> QED BY <2>1, <2>2
<1> HIDE DEF S
<1>3. k \in S
  BY <1>0, <1>1, <1>2, Induct
<1>4. k \in Nat /\ k <= k
  BY <1>0
<1> QED BY <1>3, <1>4 DEF S

-----------------------------------------------------------------------------
\* A recursion over all natural numbers that goes back by one.
LEMMA CountDown ==
  ASSUME NEW A, NEW T, \A j \in Nat \ {0} : Back(j, T) = j - 1
  PROVE  /\ Downward(Nat, T)
         /\ Iterate(Nat, A, T, 0) = A
         /\ \A k \in Nat : Iterate(Nat, A, T, k + 1) = Step(Iterate(Nat, A, T, k), k + 1, T)
<1>1. Downward(Nat, T)
  BY DEF Downward
<1>2. Iterate(Nat, A, T, 0) = A
  BY <1>1, IterateSteps
<1>3. ASSUME NEW k \in Nat
      PROVE  Iterate(Nat, A, T, k + 1) = Step(Iterate(Nat, A, T, k), k + 1, T)
  <2>1. k + 1 \in Nat \ {0} /\ Back(k + 1, T) = k
    OBVIOUS
  <2>2. Iterate(Nat, A, T, k + 1) = Step(Iterate(Nat, A, T, Back(k + 1, T)), k + 1, T)
    BY <1>1, <2>1, IterateSteps
  <2> QED BY <2>1, <2>2
<1> QED BY <1>1, <1>2, <1>3
=============================================================================
