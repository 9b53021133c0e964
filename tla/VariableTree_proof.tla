-------------------------- MODULE VariableTree_proof --------------------------
(***************************************************************************)
(* For every tree that can be built and whatever is done to its states:    *)
(* every byte of a payload belongs to one variable, what is held is within *)
(* the bounds of its type, the hash of a part of the state sees exactly    *)
(* what the variables of that part hold, and the tree with its payload     *)
(* implements a store of values.                                           *)
(***************************************************************************)
EXTENDS VariableTree, TLAPS

-----------------------------------------------------------------------------
(***************************************************************************)
(* The recursive functions of the model do what their definitions say.     *)
(***************************************************************************)
JustBefore(j, T) == j - 1
Parent(j, v) == v[j].parent

Times(x, j, T) == Radix * x
Plus(x, j, w) == x + w[j]
Join(X, j, v) == {j} \cup X
Shift(x, j, v) == v[j].offset + x

RPower == INSTANCE Recursion_proof WITH Step <- Times, Back <- JustBefore
RTotal == INSTANCE Recursion_proof WITH Step <- Plus, Back <- JustBefore
RAbove == INSTANCE Recursion_proof WITH Step <- Join, Back <- Parent
ROffset == INSTANCE Recursion_proof WITH Step <- Shift, Back <- Parent

\* The powers of the base, one after the other.
LEMMA PowerSteps ==
  /\ Power(0) = 1
  /\ \A k \in Nat : Power(k + 1) = Radix * Power(k)
<1>1. \A k : Power(k) = RPower!Iterate(Nat, 1, <<>>, k)
  BY DEF Power, RPower!Iterate, Times, JustBefore
<1>2. \A j \in Nat \ {0} : JustBefore(j, <<>>) = j - 1
  BY DEF JustBefore
<1>3. /\ RPower!Iterate(Nat, 1, <<>>, 0) = 1
      /\ \A k \in Nat : RPower!Iterate(Nat, 1, <<>>, k + 1)
                           = Times(RPower!Iterate(Nat, 1, <<>>, k), k + 1, <<>>)
  BY <1>2, RPower!CountDown
<1> QED BY <1>1, <1>3 DEF Times

\* A sum grows by one term at a time.
LEMMA TotalSteps ==
  ASSUME NEW w
  PROVE  /\ Total(w, 0) = 0
         /\ \A k \in Nat : Total(w, k + 1) = Total(w, k) + w[k + 1]
<1>1. \A k : Total(w, k) = RTotal!Iterate(Nat, 0, w, k)
  BY DEF Total, RTotal!Iterate, Plus, JustBefore
<1>2. \A j \in Nat \ {0} : JustBefore(j, w) = j - 1
  BY DEF JustBefore
<1>3. /\ RTotal!Iterate(Nat, 0, w, 0) = 0
      /\ \A k \in Nat : RTotal!Iterate(Nat, 0, w, k + 1)
                           = Plus(RTotal!Iterate(Nat, 0, w, k), k + 1, w)
  BY <1>2, RTotal!CountDown
<1> QED BY <1>1, <1>3 DEF Plus

\* Parents come before their parts.
Ordered(v) == Len(v) \in Nat /\ \A j \in 1 .. Len(v) : v[j].parent \in 0 .. j - 1

\* What is above a variable, and its offset, follow from those of its parent.
LEMMA AboveSteps ==
  ASSUME NEW v, Ordered(v)
  PROVE  /\ Above(v, 0) = {} /\ Offset(v, 0) = 0
         /\ \A j \in 1 .. Len(v) :
              /\ Above(v, j) = {j} \cup Above(v, v[j].parent)
              /\ Offset(v, j) = v[j].offset + Offset(v, v[j].parent)
<1> DEFINE D == 0 .. Len(v)
<1>1. RAbove!Downward(D, v) /\ ROffset!Downward(D, v)
  BY DEF Ordered, RAbove!Downward, ROffset!Downward, Parent
<1>2. \A j : Above(v, j) = RAbove!Iterate(D, {}, v, j)
  BY DEF Above, RAbove!Iterate, Join, Parent
<1>3. \A j : Offset(v, j) = ROffset!Iterate(D, 0, v, j)
  BY DEF Offset, ROffset!Iterate, Shift, Parent
<1> HIDE DEF D
<1>4. \A j \in D : RAbove!Iterate(D, {}, v, j)
                     = IF j = 0 THEN {} ELSE Join(RAbove!Iterate(D, {}, v, Parent(j, v)), j, v)
  BY <1>1, RAbove!IterateSteps
<1>5. \A j \in D : ROffset!Iterate(D, 0, v, j)
                     = IF j = 0 THEN 0 ELSE Shift(ROffset!Iterate(D, 0, v, Parent(j, v)), j, v)
  BY <1>1, ROffset!IterateSteps
<1>6. 0 \in D /\ \A j \in 1 .. Len(v) : j \in D /\ j # 0
  BY DEF D, Ordered
<1> QED BY <1>2, <1>3, <1>4, <1>5, <1>6 DEF Join, Shift, Parent

-----------------------------------------------------------------------------
(***************************************************************************)
(* Sums.                                                                   *)
(***************************************************************************)
LEMMA Upwards ==
  ASSUME NEW n \in Nat, NEW S, 0 \in S, \A k \in 0 .. n - 1 : k \in S => k + 1 \in S
  PROVE  0 .. n \subseteq S
<1> DEFINE U == {k \in Nat : k <= n => k \in S}
<1>1. 0 \in U /\ \A k \in Nat : k \in U => k + 1 \in U
  OBVIOUS
<1>2. Nat \subseteq U
  <2> HIDE DEF U
  <2> QED BY <1>1, RTotal!Induct
<1> QED BY <1>2

Naturals(w, n) == \A k \in 1 .. n : w[k] \in Nat

\* The sums of natural numbers are natural numbers.
LEMMA TotalNat ==
  ASSUME NEW n \in Nat, NEW w, Naturals(w, n)
  PROVE  /\ \A k \in 0 .. n : Total(w, k) \in Nat
         /\ \A k \in 1 .. n : Total(w, k) = Total(w, k - 1) + w[k]
<1> DEFINE S == {k \in 0 .. n : Total(w, k) \in Nat}
<1>1. 0 \in S
  BY TotalSteps
<1>2. ASSUME NEW k \in 0 .. n - 1, k \in S
      PROVE  k + 1 \in S
  <2>1. Total(w, k + 1) = Total(w, k) + w[k + 1]
    BY TotalSteps
  <2>2. k + 1 \in 1 .. n /\ w[k + 1] \in Nat
    BY DEF Naturals
  <2> QED BY <1>2, <2>1, <2>2
<1>3. 0 .. n \subseteq S
  <2> HIDE DEF S
  <2> QED BY <1>1, <1>2, Upwards
<1>4. ASSUME NEW k \in 1 .. n
      PROVE  Total(w, k) = Total(w, k - 1) + w[k]
  <2>1. k - 1 \in Nat /\ (k - 1) + 1 = k
    OBVIOUS
  <2>2. Total(w, (k - 1) + 1) = Total(w, k - 1) + w[(k - 1) + 1]
    BY <2>1, TotalSteps
  <2> QED BY <2>1, <2>2
<1> QED BY <1>3, <1>4

\* They grow.
LEMMA TotalGrows ==
  ASSUME NEW n \in Nat, NEW w, Naturals(w, n), NEW i \in 0 .. n, NEW k \in i .. n
  PROVE  Total(w, i) <= Total(w, k)
<1> DEFINE S == {m \in 0 .. n : i <= m => Total(w, i) <= Total(w, m)}
<1>1. \A m \in 0 .. n : Total(w, m) \in Nat
  BY TotalNat
<1>2. 0 \in S
  BY <1>1
<1>3. ASSUME NEW m \in 0 .. n - 1, m \in S
      PROVE  m + 1 \in S
  <2>1. Total(w, m + 1) = Total(w, (m + 1) - 1) + w[m + 1] /\ w[m + 1] \in Nat
    <3>1. m + 1 \in 1 .. n
      OBVIOUS
    <3> QED BY <3>1, TotalNat DEF Naturals
  <2>2. Total(w, m + 1) >= Total(w, m)
    BY <1>1, <2>1
  <2>3. CASE i <= m
    BY <1>1, <1>3, <2>2, <2>3
  <2>4. CASE i = m + 1
    BY <1>1, <2>4
  <2>5. CASE i > m + 1
    BY <2>5
  <2> QED BY <2>3, <2>4, <2>5
<1>4. 0 .. n \subseteq S
  <2> HIDE DEF S
  <2> QED BY <1>2, <1>3, Upwards
<1> QED BY <1>4

\* What is summed matters only up to where the sum goes.
LEMMA TotalSame ==
  ASSUME NEW n \in Nat, NEW w, NEW u, \A k \in 1 .. n : w[k] = u[k]
  PROVE  Total(w, n) = Total(u, n)
<1> DEFINE S == {k \in 0 .. n : Total(w, k) = Total(u, k)}
<1>1. 0 \in S
  BY TotalSteps
<1>2. ASSUME NEW k \in 0 .. n - 1, k \in S
      PROVE  k + 1 \in S
  <2>1. Total(w, k + 1) = Total(w, k) + w[k + 1] /\ Total(u, k + 1) = Total(u, k) + u[k + 1]
    BY TotalSteps
  <2>2. w[k + 1] = u[k + 1]
    OBVIOUS
  <2> QED BY <1>2, <2>1, <2>2
<1>3. 0 .. n \subseteq S
  <2> HIDE DEF S
  <2> QED BY <1>1, <1>2, Upwards
<1> QED BY <1>3

\* The sum over an interval is a difference of sums from the beginning.
LEMMA TotalInterval ==
  ASSUME NEW n \in Nat, NEW w, Naturals(w, n), NEW f, NEW a \in 1 .. n + 1, NEW b \in (a - 1) .. n,
         \A k \in 1 .. n : f[k] = IF k \in a .. b THEN w[k] ELSE 0
  PROVE  Total(f, n) = Total(w, b) - Total(w, a - 1)
<1> DEFINE V(k) == IF k < a THEN 0 ELSE IF k <= b THEN Total(w, k) - Total(w, a - 1)
                   ELSE Total(w, b) - Total(w, a - 1)
           S == {k \in 0 .. n : Total(f, k) = V(k)}
<1>1. \A k \in 0 .. n : Total(w, k) \in Nat
  BY TotalNat
<1>2. 0 \in S
  BY TotalSteps
<1>3. ASSUME NEW k \in 0 .. n - 1, k \in S
      PROVE  k + 1 \in S
  <2>1. Total(f, k + 1) = Total(f, k) + f[k + 1]
    BY TotalSteps
  <2>2. Total(w, k + 1) = Total(w, k) + w[k + 1]
    BY TotalSteps
  <2>3. k + 1 \in 1 .. n /\ a - 1 \in 0 .. n /\ b \in 0 .. n /\ k \in 0 .. n
    OBVIOUS
  <2>4. w[k + 1] \in Nat
    BY <2>3 DEF Naturals
  <2>5. CASE k + 1 < a
    BY <1>3, <2>1, <2>3, <2>5
  <2>6. CASE k + 1 = a /\ k + 1 <= b
    <3>1. Total(f, k) = 0 /\ f[k + 1] = w[k + 1] /\ k = a - 1
      BY <1>3, <2>3, <2>6
    <3> QED BY <1>1, <2>1, <2>2, <2>3, <2>4, <2>6, <3>1
  <2>7. CASE k + 1 = a /\ ~(k + 1 <= b)
    <3>1. Total(f, k) = 0 /\ f[k + 1] = 0 /\ b = a - 1
      BY <1>3, <2>3, <2>7
    <3> QED BY <1>1, <2>1, <2>3, <2>7, <3>1
  <2>8. CASE k + 1 > a /\ k + 1 <= b
    <3>1. Total(f, k) = Total(w, k) - Total(w, a - 1) /\ f[k + 1] = w[k + 1]
      BY <1>3, <2>3, <2>8
    <3> QED BY <1>1, <2>1, <2>2, <2>3, <2>4, <2>8, <3>1
  <2>9. CASE k + 1 > a /\ ~(k + 1 <= b)
    <3>1. f[k + 1] = 0
      BY <2>3, <2>9
    <3>2. Total(f, k) = Total(w, b) - Total(w, a - 1)
      BY <1>3, <2>3, <2>9
    <3> QED BY <1>1, <2>1, <2>3, <2>9, <3>1, <3>2
  <2> QED BY <2>5, <2>6, <2>7, <2>8, <2>9
<1>4. 0 .. n \subseteq S
  <2> HIDE DEF S
  <2> QED BY <1>2, <1>3, Upwards
<1>5. n \in S
  BY <1>4
<1>6. a - 1 \in 0 .. n /\ b \in 0 .. n
  OBVIOUS
<1> QED BY <1>1, <1>5, <1>6

\* A sum that is positive has a part that is.
LEMMA TotalPositive ==
  ASSUME NEW n \in Nat, NEW w, Naturals(w, n), Total(w, n) > 0
  PROVE  \E k \in 1 .. n : w[k] > 0
<1> SUFFICES ASSUME \A k \in 1 .. n : w[k] = 0 PROVE FALSE
  BY DEF Naturals
<1>1. \A k \in 1 .. n : w[k] = IF k \in 1 .. 0 THEN w[k] ELSE 0
  OBVIOUS
<1>2. 1 \in 1 .. n + 1 /\ 0 \in (1 - 1) .. n
  OBVIOUS
<1>3. Total(w, n) = Total(w, 0) - Total(w, 1 - 1)
  BY <1>1, <1>2, TotalInterval
<1>4. Total(w, 0) = 0
  BY TotalSteps
<1> QED BY <1>3, <1>4

-----------------------------------------------------------------------------
(***************************************************************************)
(* Trees.  The variables that contain j are its ancestors; in the order of *)
(* construction those within i are an interval that starts at i.           *)
(***************************************************************************)
LEMMA FromBelow ==
  ASSUME NEW n \in Nat, NEW S, \A k \in 1 .. n : (\A i \in 1 .. k - 1 : i \in S) => k \in S
  PROVE  1 .. n \subseteq S
<1> DEFINE U == {k \in 0 .. n : \A i \in 1 .. k : i \in S}
<1>1. 0 \in U
  OBVIOUS
<1>2. ASSUME NEW k \in 0 .. n - 1, k \in U
      PROVE  k + 1 \in U
  <2>1. k + 1 \in 1 .. n /\ \A i \in 1 .. (k + 1) - 1 : i \in S
    BY <1>2
  <2>2. k + 1 \in S
    BY <2>1
  <2> QED BY <1>2, <2>1, <2>2
<1>3. 0 .. n \subseteq U
  <2> HIDE DEF U
  <2> QED BY <1>1, <1>2, Upwards
<1>4. n \in U
  BY <1>3
<1> QED BY <1>4

\* What is above a variable was constructed before it; above is transitive.
LEMMA AboveFacts ==
  ASSUME NEW v, Ordered(v)
  PROVE  /\ \A j \in 0 .. Len(v) : Above(v, j) \subseteq 1 .. j
         /\ \A j \in 1 .. Len(v) : j \in Above(v, j)
         /\ \A j \in 1 .. Len(v) : \A h \in Above(v, j) : Above(v, h) \subseteq Above(v, j)
<1> DEFINE n == Len(v)
           S == {j \in 1 .. n : Above(v, j) \subseteq 1 .. j}
           U == {j \in 1 .. n : \A h \in Above(v, j) : Above(v, h) \subseteq Above(v, j)}
<1>0. n \in Nat /\ \A j \in 1 .. n : v[j].parent \in 0 .. j - 1
  BY DEF Ordered
<1>1. ASSUME NEW j \in 1 .. n, \A i \in 1 .. j - 1 : i \in S
      PROVE  j \in S
  <2>1. Above(v, j) = {j} \cup Above(v, v[j].parent) /\ Above(v, 0) = {}
    BY AboveSteps
  <2>2. CASE v[j].parent = 0
    BY <2>1, <2>2
  <2>3. CASE v[j].parent # 0
    <3>1. v[j].parent \in 1 .. j - 1
      BY <1>0, <2>3
    <3>2. Above(v, v[j].parent) \subseteq 1 .. v[j].parent
      BY <1>1, <3>1
    <3> QED BY <2>1, <3>1, <3>2
  <2> QED BY <2>2, <2>3
<1>2. ASSUME NEW j \in 1 .. n, \A i \in 1 .. j - 1 : i \in U
      PROVE  j \in U
  <2>1. Above(v, j) = {j} \cup Above(v, v[j].parent) /\ Above(v, 0) = {}
    BY AboveSteps
  <2>2. CASE v[j].parent = 0
    BY <2>1, <2>2
  <2>3. CASE v[j].parent # 0
    <3>1. v[j].parent \in 1 .. j - 1
      BY <1>0, <2>3
    <3>2. \A h \in Above(v, v[j].parent) : Above(v, h) \subseteq Above(v, v[j].parent)
      BY <1>2, <3>1
    <3> QED BY <2>1, <3>2
  <2> QED BY <2>2, <2>3
<1>3. 1 .. n \subseteq S
  <2> HIDE DEF S
  <2> QED BY <1>0, <1>1, FromBelow
<1>4. 1 .. n \subseteq U
  <2> HIDE DEF U
  <2> QED BY <1>0, <1>2, FromBelow
<1>5. \A j \in 1 .. n : j \in Above(v, j)
  BY AboveSteps
<1>6. Above(v, 0) = {}
  BY AboveSteps
<1>7. \A j \in 0 .. n : j = 0 \/ j \in 1 .. n
  BY <1>0
<1> QED BY <1>3, <1>4, <1>5, <1>6, <1>7

\* A variable is constructed while its parent, and all above it, are filled.
Preorder(v) ==
  /\ Ordered(v)
  /\ \A j \in 1 .. Len(v) : v[j].parent # 0 => v[j].parent \in Above(v, j - 1)

\* What is above a variable is above all those constructed between the two.
LEMMA AboveBetween ==
  ASSUME NEW v, Preorder(v), NEW j \in 1 .. Len(v), NEW i \in Above(v, j), NEW k \in i .. j
  PROVE  i \in Above(v, k)
<1> DEFINE n == Len(v)
           S == {m \in 1 .. n : \A h \in Above(v, m) : \A l \in h .. m : h \in Above(v, l)}
<1>0. n \in Nat /\ Ordered(v) /\ \A m \in 1 .. n : v[m].parent \in 0 .. m - 1
  BY DEF Ordered, Preorder
<1>1. ASSUME NEW m \in 1 .. n, \A l \in 1 .. m - 1 : l \in S
      PROVE  m \in S
  <2> SUFFICES ASSUME NEW h \in Above(v, m), NEW l \in h .. m PROVE h \in Above(v, l)
    OBVIOUS
  <2>1. h \in 1 .. m
    BY <1>0, AboveFacts
  <2>2. CASE l = m
    BY <2>2
  <2>3. CASE l # m
    <3>1. h \in Above(v, v[m].parent) /\ v[m].parent # 0
      BY <1>0, <2>1, <2>3, AboveSteps
    <3>2. v[m].parent \in Above(v, m - 1) /\ m - 1 \in 1 .. n
      <4>1. v[m].parent \in 1 .. m - 1
        BY <1>0, <3>1
      <4> QED BY <1>0, <3>1, <4>1 DEF Preorder
    <3>3. h \in Above(v, m - 1)
      BY <1>0, <3>1, <3>2, AboveFacts
    <3>4. m - 1 \in S
      <4>1. m - 1 \in 1 .. m - 1
        BY <3>2
      <4> QED BY <1>1, <4>1
    <3>5. l \in h .. m - 1
      BY <2>1, <2>3
    <3> QED BY <3>3, <3>4, <3>5
  <2> QED BY <2>2, <2>3
<1>2. 1 .. n \subseteq S
  <2> HIDE DEF S
  <2> QED BY <1>0, <1>1, FromBelow
<1> QED BY <1>2

\* A variable is in one tree.
LEMMA OneRoot ==
  ASSUME NEW v, Ordered(v), NEW j \in 1 .. Len(v)
  PROVE  /\ \E r \in Above(v, j) : v[r].parent = 0
         /\ \A r, s \in Above(v, j) : v[r].parent = 0 /\ v[s].parent = 0 => r = s
<1> DEFINE n == Len(v)
           Has1(m) == \E r \in Above(v, m) : v[r].parent = 0
           Has2(m) == \A r, s \in Above(v, m) : v[r].parent = 0 /\ v[s].parent = 0 => r = s
           S == {m \in 1 .. n : Has1(m) /\ Has2(m)}
<1>0. n \in Nat /\ \A m \in 1 .. n : v[m].parent \in 0 .. m - 1
  BY DEF Ordered
<1>1. ASSUME NEW m \in 1 .. n, \A l \in 1 .. m - 1 : l \in S
      PROVE  m \in S
  <2>1. Above(v, m) = {m} \cup Above(v, v[m].parent) /\ Above(v, 0) = {}
    BY AboveSteps
  <2>2. CASE v[m].parent = 0
    BY <2>1, <2>2
  <2>3. CASE v[m].parent # 0
    <3>1. v[m].parent \in 1 .. m - 1
      BY <1>0, <2>3
    <3>2. Has1(v[m].parent) /\ Has2(v[m].parent)
      BY <1>1, <3>1
    <3> QED BY <2>1, <2>3, <3>2
  <2> QED BY <2>2, <2>3
<1>2. 1 .. n \subseteq S
  <2> HIDE DEF S
  <2> QED BY <1>0, <1>1, FromBelow
<1> QED BY <1>2

\* What is below a variable ends somewhere.
LEMMA WithinInterval ==
  ASSUME NEW v, Preorder(v), NEW i \in 1 .. Len(v)
  PROVE  \E e \in i .. Len(v) : \A k \in 1 .. Len(v) : i \in Above(v, k) <=> k \in i .. e
<1> DEFINE n == Len(v)
           Out == {k \in i .. n : i \notin Above(v, k)}
<1>0. n \in Nat /\ Ordered(v)
  BY DEF Ordered, Preorder
<1>1. \A k \in 1 .. n : i \in Above(v, k) => k \in i .. n
  <2>1. \A k \in 1 .. n : Above(v, k) \subseteq 1 .. k
    BY <1>0, AboveFacts
  <2> QED BY <1>0, <2>1
<1>2. i \in Above(v, i)
  BY <1>0, AboveFacts
<1>3. CASE Out = {}
  <2>1. n \in i .. n /\ \A k \in 1 .. n : i \in Above(v, k) <=> k \in i .. n
    BY <1>0, <1>1, <1>3
  <2> QED BY <2>1
<1>4. CASE Out # {}
  <2>1. PICK o \in Out : \A y \in Out : o <= y
    <3>1. Out \in SUBSET Nat
      BY <1>0
    <3> HIDE DEF Out
    <3> QED BY <1>4, <3>1, RTotal!Least
  <2>2. o \in i .. n /\ o # i /\ i \notin Above(v, o)
    BY <1>2, <2>1
  <2>3. o - 1 \in i .. n
    BY <1>0, <2>2
  <2>4. ASSUME NEW k \in 1 .. n
        PROVE  i \in Above(v, k) <=> k \in i .. o - 1
    <3>1. ASSUME k \in i .. o - 1
          PROVE  i \in Above(v, k)
      <4>1. k \notin Out
        BY <1>0, <2>1, <2>2, <3>1
      <4>2. k \in i .. n
        BY <1>0, <2>2, <3>1
      <4> QED BY <4>1, <4>2
    <3>2. ASSUME i \in Above(v, k)
          PROVE  k \in i .. o - 1
      <4>1. k \in i .. n
        BY <1>1, <3>2
      <4>2. ASSUME o <= k PROVE FALSE
        <5>1. o \in i .. k
          BY <1>0, <2>2, <4>1, <4>2
        <5>2. i \in Above(v, o)
          BY <3>2, <5>1, AboveBetween
        <5> QED BY <2>2, <5>2
      <4> QED BY <1>0, <2>2, <4>1, <4>2
    <3> QED BY <3>1, <3>2
  <2> QED BY <2>3, <2>4
<1> QED BY <1>3, <1>4

-----------------------------------------------------------------------------
(***************************************************************************)
(* The layout: a variable comes behind the own bytes of all variables      *)
(* constructed before it.                                                  *)
(***************************************************************************)
OwnBytes(v) == [j \in DOMAIN v |-> Own(v[j])]
Until(v, j) == Total(OwnBytes(v), j)

\* Every variable reserves what a constructor of its type does.
Kinds(v) ==
  /\ v \in Seq(Nodes)
  /\ \A j \in 1 .. Len(v) : v[j].raw \in IF IsLeaf(v[j]) THEN {0} ELSE RawBytes(v[j].type)

\* An offset counts from the parent the bytes of all that is between the two.
Placed(v) ==
  \A j \in 1 .. Len(v) :
    v[j].offset = IF v[j].parent = 0 THEN 0 ELSE Until(v, j - 1) - Until(v, v[j].parent - 1)

\* No program is without memory.
Occupied(v) ==
  \A j \in 1 .. Len(v) : v[j].type = "prog" /\ v[j].parent # 0 =>
    \E k \in 1 .. Len(v) : j \in Above(v, k) /\ Own(v[k]) > 0

Shaped(v) == Kinds(v) /\ Preorder(v) /\ Placed(v) /\ Occupied(v)

\* A tree of which every variable but the root has a parent.
Whole(v) == Shaped(v) /\ Len(v) >= 1 /\ \A j \in 1 .. Len(v) : v[j].parent = 0 <=> j = 1

\* A leaf has a number of bytes, none for the constant of an mtype.
LEMMA WidthNat == \A t \in LeafTypes : Width(t) \in Nat
  BY DEF LeafTypes, Width

\* The own bytes of the first variables, as a sum.
LEMMA UntilFacts ==
  ASSUME NEW v \in Seq(Nodes)
  PROVE  /\ DOMAIN v = 1 .. Len(v) /\ Len(v) \in Nat
         /\ Naturals(OwnBytes(v), Len(v))
         /\ \A j \in 1 .. Len(v) : Own(v[j]) \in Nat
         /\ Until(v, 0) = 0
         /\ \A k \in 0 .. Len(v) : Until(v, k) \in Nat
         /\ \A k \in 1 .. Len(v) : Until(v, k) = Until(v, k - 1) + Own(v[k])
         /\ \A i, k \in 0 .. Len(v) : i <= k => Until(v, i) <= Until(v, k)
<1>1. DOMAIN v = 1 .. Len(v) /\ Len(v) \in Nat
  OBVIOUS
<1>2. \A j \in 1 .. Len(v) : Own(v[j]) \in Nat
  <2> SUFFICES ASSUME NEW j \in 1 .. Len(v) PROVE Own(v[j]) \in Nat
    OBVIOUS
  <2>1. v[j] \in Nodes
    OBVIOUS
  <2>2. v[j].raw \in Nat
    BY <2>1 DEF Nodes
  <2> QED BY <2>2, WidthNat DEF Own, IsLeaf
<1>3. \A j \in 1 .. Len(v) : OwnBytes(v)[j] = Own(v[j])
  BY <1>1 DEF OwnBytes
<1>4. Naturals(OwnBytes(v), Len(v))
  BY <1>2, <1>3 DEF Naturals
<1>5. Until(v, 0) = 0
  BY TotalSteps DEF Until
<1>6. /\ \A k \in 0 .. Len(v) : Until(v, k) \in Nat
      /\ \A k \in 1 .. Len(v) : Until(v, k) = Until(v, k - 1) + Own(v[k])
  BY <1>1, <1>3, <1>4, TotalNat DEF Until
<1>7. ASSUME NEW i \in 0 .. Len(v), NEW k \in 0 .. Len(v), i <= k
      PROVE  Until(v, i) <= Until(v, k)
  <2>1. k \in i .. Len(v)
    BY <1>1, <1>7
  <2> QED BY <1>1, <1>4, <2>1, TotalGrows DEF Until
<1> QED BY <1>1, <1>2, <1>4, <1>5, <1>6, <1>7

\* The bytes of an interval of variables.
LEMMA BytesBetween ==
  ASSUME NEW v \in Seq(Nodes), NEW S, NEW a \in 1 .. Len(v) + 1, NEW b \in (a - 1) .. Len(v),
         \A k \in 1 .. Len(v) : k \in S <=> k \in a .. b
  PROVE  Bytes(v, S) = Until(v, b) - Until(v, a - 1)
<1> DEFINE f == [j \in DOMAIN v |-> IF j \in S THEN Own(v[j]) ELSE 0]
<1>1. DOMAIN v = 1 .. Len(v) /\ Len(v) \in Nat /\ Naturals(OwnBytes(v), Len(v))
  BY UntilFacts
<1>2. \A k \in 1 .. Len(v) : f[k] = IF k \in a .. b THEN OwnBytes(v)[k] ELSE 0
  BY <1>1 DEF OwnBytes
<1>3. Total(f, Len(v)) = Total(OwnBytes(v), b) - Total(OwnBytes(v), a - 1)
  <2> HIDE DEF f
  <2> QED BY <1>1, <1>2, TotalInterval
<1> QED BY <1>3 DEF Bytes, Until

\* The end of what is within i, and its size.
LEMMA SizeBetween ==
  ASSUME NEW v, Kinds(v), Preorder(v), NEW i \in 1 .. Len(v)
  PROVE  \E e \in i .. Len(v) :
           /\ \A k \in 1 .. Len(v) : i \in Above(v, k) <=> k \in i .. e
           /\ Within(v, i) = i .. e
           /\ SizeOf(v, i) = Until(v, e) - Until(v, i - 1)
<1>1. v \in Seq(Nodes) /\ DOMAIN v = 1 .. Len(v) /\ Len(v) \in Nat
  BY UntilFacts DEF Kinds
<1>2. PICK e \in i .. Len(v) : \A k \in 1 .. Len(v) : i \in Above(v, k) <=> k \in i .. e
  BY WithinInterval
<1>3. Within(v, i) = i .. e
  <2>1. \A k \in i .. e : k \in 1 .. Len(v)
    BY <1>1, <1>2
  <2> QED BY <1>1, <1>2, <2>1 DEF Within
<1>4. SizeOf(v, i) = Until(v, e) - Until(v, i - 1)
  <2>1. i \in 1 .. Len(v) + 1 /\ e \in (i - 1) .. Len(v)
    BY <1>1, <1>2
  <2> QED BY <1>1, <1>3, <2>1, BytesBetween DEF SizeOf
<1> QED BY <1>2, <1>3, <1>4

\* getOffset: a variable begins where those before it end.
LEMMA WholeOffsets ==
  ASSUME NEW v, Whole(v)
  PROVE  \A j \in 1 .. Len(v) : Offset(v, j) = Until(v, j - 1)
<1> DEFINE n == Len(v)
           S == {j \in 1 .. n : Offset(v, j) = Until(v, j - 1)}
<1>1. /\ v \in Seq(Nodes) /\ n \in Nat /\ Ordered(v)
      /\ \A j \in 1 .. n : v[j].parent \in 0 .. j - 1
      /\ \A j \in 1 .. n : v[j].parent = 0 <=> j = 1
      /\ \A j \in 1 .. n :
           v[j].offset = IF v[j].parent = 0 THEN 0 ELSE Until(v, j - 1) - Until(v, v[j].parent - 1)
  BY DEF Whole, Shaped, Kinds, Preorder, Ordered, Placed
<1>2. ASSUME NEW j \in 1 .. n, \A i \in 1 .. j - 1 : i \in S
      PROVE  j \in S
  <2>1. Offset(v, j) = v[j].offset + Offset(v, v[j].parent) /\ Offset(v, 0) = 0
    BY <1>1, AboveSteps
  <2>2. CASE j = 1
    <3>1. v[j].parent = 0 /\ v[j].offset = 0 /\ Until(v, j - 1) = 0
      BY <1>1, <2>2, UntilFacts
    <3> QED BY <2>1, <3>1
  <2>3. CASE j # 1
    <3>1. v[j].parent \in 1 .. j - 1
      BY <1>1, <2>3
    <3>2. Offset(v, v[j].parent) = Until(v, v[j].parent - 1)
      BY <1>2, <3>1
    <3>3. Until(v, v[j].parent - 1) \in Nat /\ Until(v, j - 1) \in Nat
      <4>1. v[j].parent - 1 \in 0 .. n /\ j - 1 \in 0 .. n
        BY <1>1, <3>1
      <4> QED BY <1>1, <4>1, UntilFacts
    <3> QED BY <1>1, <2>1, <3>1, <3>2, <3>3
  <2> QED BY <2>2, <2>3
<1>3. 1 .. n \subseteq S
  <2> HIDE DEF S
  <2> QED BY <1>1, <1>2, FromBelow
<1> QED BY <1>3

\* A variable has its own bytes between those of its neighbours.
LEMMA WholeLayout ==
  ASSUME NEW v, Whole(v)
  PROVE  /\ DOMAIN v = 1 .. Len(v)
         /\ SizeOf(v, 1) = Until(v, Len(v))
         /\ \A j \in 1 .. Len(v) : Span(v, j) = (Until(v, j - 1) + 1) .. Until(v, j)
<1>1. v \in Seq(Nodes) /\ Ordered(v) /\ Preorder(v) /\ Kinds(v)
  BY DEF Whole, Shaped, Kinds, Preorder
<1>2. DOMAIN v = 1 .. Len(v) /\ Len(v) \in Nat
  BY <1>1, UntilFacts
<1>3. SizeOf(v, 1) = Until(v, Len(v))
  <2>1. 1 \in 1 .. Len(v) /\ Len(v) \in 1 .. Len(v)
    BY <1>2 DEF Whole
  <2>2. PICK e \in 1 .. Len(v) :
           /\ \A k \in 1 .. Len(v) : 1 \in Above(v, k) <=> k \in 1 .. e
           /\ SizeOf(v, 1) = Until(v, e) - Until(v, 1 - 1)
    BY <1>1, <2>1, SizeBetween
  <2>3. 1 \in Above(v, Len(v))
    <3>1. PICK r \in Above(v, Len(v)) : v[r].parent = 0
      BY <1>1, <2>1, OneRoot
    <3>2. r \in 1 .. Len(v)
      BY <1>1, <1>2, <2>1, AboveFacts
    <3> QED BY <3>1, <3>2 DEF Whole
  <2>4. e = Len(v)
    <3>1. Len(v) \in 1 .. e
      BY <2>1, <2>2, <2>3
    <3>2. Len(v) \in Nat /\ e \in Nat /\ e <= Len(v)
      BY <1>2
    <3> QED BY <3>1, <3>2
  <2>5. Until(v, 0) = 0 /\ Until(v, Len(v)) \in Nat
    BY <1>1, <1>2, UntilFacts
  <2>6. SizeOf(v, 1) = Until(v, Len(v)) - Until(v, 0)
    BY <2>2, <2>4
  <2> QED BY <2>5, <2>6
<1>4. ASSUME NEW j \in 1 .. Len(v)
      PROVE  Span(v, j) = (Until(v, j - 1) + 1) .. Until(v, j)
  <2>1. Offset(v, j) = Until(v, j - 1)
    BY WholeOffsets
  <2>2. Until(v, j) = Until(v, j - 1) + Own(v[j])
    BY <1>1, UntilFacts
  <2> QED BY <2>1, <2>2 DEF Span
<1> QED BY <1>2, <1>3, <1>4

\* Every byte is in one span.
LEMMA WholeTiled ==
  ASSUME NEW v, Whole(v)
  PROVE  /\ UNION {Span(v, j) : j \in DOMAIN v} = 1 .. SizeOf(v, 1)
         /\ \A i, j \in DOMAIN v : i # j => Span(v, i) \cap Span(v, j) = {}
<1> DEFINE n == Len(v)
<1>1. v \in Seq(Nodes) /\ n \in Nat
  BY DEF Whole, Shaped, Kinds
<1>2. /\ DOMAIN v = 1 .. n /\ SizeOf(v, 1) = Until(v, n) /\ Until(v, 0) = 0
      /\ \A j \in 1 .. n : Span(v, j) = (Until(v, j - 1) + 1) .. Until(v, j)
      /\ \A k \in 0 .. n : Until(v, k) \in Nat
      /\ \A i, k \in 0 .. n : i <= k => Until(v, i) <= Until(v, k)
  BY <1>1, WholeLayout, UntilFacts
<1>3. ASSUME NEW i \in 1 .. n, NEW j \in 1 .. n, i < j
      PROVE  Span(v, i) \cap Span(v, j) = {}
  <2>1. i \in 0 .. n /\ j \in 0 .. n /\ i - 1 \in 0 .. n /\ j - 1 \in 0 .. n /\ i <= j - 1
    BY <1>1, <1>3
  <2>2. Until(v, i) <= Until(v, j - 1)
    BY <1>2, <2>1
  <2>3. Until(v, i) \in Nat /\ Until(v, j - 1) \in Nat /\ Until(v, j) \in Nat /\ Until(v, i - 1) \in Nat
    BY <1>2, <2>1
  <2>4. /\ Span(v, i) = (Until(v, i - 1) + 1) .. Until(v, i)
        /\ Span(v, j) = (Until(v, j - 1) + 1) .. Until(v, j)
    BY <1>2
  <2> QED BY <2>2, <2>3, <2>4
<1>4. \A i, j \in DOMAIN v : i # j => Span(v, i) \cap Span(v, j) = {}
  <2>1. ASSUME NEW i \in 1 .. n, NEW j \in 1 .. n, i # j
        PROVE  Span(v, i) \cap Span(v, j) = {}
    <3>1. i < j \/ j < i
      BY <2>1
    <3> QED BY <1>3, <3>1
  <2> QED BY <1>2, <2>1
<1>5. ASSUME NEW b \in 1 .. Until(v, n)
      PROVE  \E j \in 1 .. n : b \in Span(v, j)
  <2> DEFINE S == {k \in 0 .. n : b <= Until(v, k) => \E j \in 1 .. n : b \in Span(v, j)}
  <2>1. b \in Nat /\ b > 0
    OBVIOUS
  <2>2. 0 \in S
    BY <1>1, <1>2, <2>1
  <2>3. ASSUME NEW k \in 0 .. n - 1, k \in S
        PROVE  k + 1 \in S
    <3>1. k + 1 \in 1 .. n /\ (k + 1) - 1 = k /\ k \in 0 .. n /\ k + 1 \in 0 .. n
      BY <1>1
    <3>2. Span(v, k + 1) = (Until(v, k) + 1) .. Until(v, k + 1)
      BY <1>2, <3>1
    <3>3. Until(v, k) \in Nat /\ Until(v, k + 1) \in Nat
      BY <1>2, <3>1
    <3>4. CASE b <= Until(v, k)
      BY <2>3, <3>1, <3>4
    <3>5. CASE b > Until(v, k)
      <4>1. b <= Until(v, k + 1) => b \in Span(v, k + 1)
        BY <2>1, <3>2, <3>3, <3>5
      <4> QED BY <3>1, <4>1
    <3> QED BY <2>1, <3>3, <3>4, <3>5
  <2>4. n \in S
    <3> HIDE DEF S
    <3>1. 0 .. n \subseteq S
      BY <1>1, <2>2, <2>3, Upwards
    <3> QED BY <1>1, <3>1
  <2> QED BY <1>1, <2>4
<1>6. ASSUME NEW j \in 1 .. n
      PROVE  Span(v, j) \subseteq 1 .. Until(v, n)
  <2>1. j \in 0 .. n /\ n \in 0 .. n /\ j - 1 \in 0 .. n
    BY <1>1
  <2>2. Until(v, j) <= Until(v, n) /\ Until(v, j) \in Nat /\ Until(v, n) \in Nat /\ Until(v, j - 1) \in Nat
    BY <1>2, <2>1
  <2>3. Span(v, j) = (Until(v, j - 1) + 1) .. Until(v, j)
    BY <1>2
  <2> QED BY <2>2, <2>3
<1>7. UNION {Span(v, j) : j \in DOMAIN v} = 1 .. SizeOf(v, 1)
  <2> HIDE DEF n
  <2> QED BY <1>2, <1>5, <1>6
<1> QED BY <1>4, <1>7

\* A copy is laid out like its original.
LEMMA WholeCopied ==
  ASSUME NEW v, Whole(v)
  PROVE  Copied(v) = v
<1> DEFINE n == Len(v)
           off(j) == IF v[j].parent = 0 THEN 0 ELSE Bytes(v, {k \in Within(v, v[j].parent) : k < j})
<1>1. /\ v \in Seq(Nodes) /\ n \in Nat /\ Ordered(v) /\ Preorder(v) /\ Kinds(v) /\ DOMAIN v = 1 .. n
      /\ \A j \in 1 .. n : v[j].parent \in 0 .. j - 1
      /\ \A j \in 1 .. n : v[j].parent # 0 => v[j].parent \in Above(v, j - 1)
      /\ \A j \in 1 .. n :
           v[j].offset = IF v[j].parent = 0 THEN 0 ELSE Until(v, j - 1) - Until(v, v[j].parent - 1)
  BY DEF Whole, Shaped, Kinds, Preorder, Ordered, Placed
<1>2. ASSUME NEW j \in 1 .. n
      PROVE  off(j) = v[j].offset
  <2>1. CASE v[j].parent = 0
    BY <1>1, <2>1
  <2>2. CASE v[j].parent # 0
    <3> DEFINE p == v[j].parent
               S == {k \in Within(v, p) : k < j}
    <3>1. p \in 1 .. j - 1 /\ p \in Above(v, j - 1) /\ p \in 1 .. n
      BY <1>1, <2>2
    <3>2. PICK e \in p .. n :
             /\ \A k \in 1 .. n : p \in Above(v, k) <=> k \in p .. e
             /\ Within(v, p) = p .. e
      <4> HIDE DEF p
      <4> QED BY <1>1, <3>1, SizeBetween
    <3>3. j - 1 \in p .. e
      <4>1. j - 1 \in 1 .. n
        BY <1>1, <3>1
      <4> QED BY <3>1, <3>2, <4>1
    <3>4. \A k \in 1 .. n : k \in S <=> k \in p .. j - 1
      <4> HIDE DEF p
      <4> QED BY <1>1, <3>1, <3>2, <3>3
    <3>5. p \in 1 .. n + 1 /\ j - 1 \in (p - 1) .. n
      BY <1>1, <3>1
    <3>6. Bytes(v, S) = Until(v, j - 1) - Until(v, p - 1)
      <4> HIDE DEF p, S
      <4> QED BY <1>1, <3>4, <3>5, BytesBetween
    <3> QED BY <1>1, <2>2, <3>6
  <2> QED BY <2>1, <2>2
<1>3. ASSUME NEW j \in 1 .. n
      PROVE  [v[j] EXCEPT !.offset = off(j)] = v[j]
  <2>1. v[j] \in Nodes
    BY <1>1
  <2>2. [v[j] EXCEPT !.offset = v[j].offset] = v[j]
    BY <2>1 DEF Nodes
  <2> QED BY <1>2, <2>2
<1>4. Copied(v) = [j \in DOMAIN v |-> [v[j] EXCEPT !.offset = off(j)]]
  BY DEF Copied
<1> HIDE DEF off
<1>5. [j \in DOMAIN v |-> [v[j] EXCEPT !.offset = off(j)]] = [j \in 1 .. n |-> v[j]]
  BY <1>1, <1>3
<1>6. v = [j \in 1 .. n |-> v[j]]
  BY <1>1
<1> QED BY <1>4, <1>5, <1>6

-----------------------------------------------------------------------------
(***************************************************************************)
(* Building.  The variables being filled are those without a parent; each  *)
(* was constructed at the end of what the one around it held.              *)
(***************************************************************************)
Filling(v, o) ==
  /\ Shaped(v)
  /\ o \in Seq(1 .. Len(v)) /\ Len(o) >= 1 /\ o[1] = 1
  /\ \A i, j \in 1 .. Len(o) : i < j => o[i] < o[j]
  /\ \A k \in 1 .. Len(v) : v[k].parent = 0 <=> \E i \in 1 .. Len(o) : o[i] = k
  /\ \A i \in 2 .. Len(o) : o[i - 1] \in Above(v, o[i] - 1)
  /\ o[Len(o)] \in Above(v, Len(v))

\* What is above a variable depends on the variables before it alone.
LEMMA AboveSame ==
  ASSUME NEW v, NEW u, Ordered(v), Ordered(u), NEW n \in Nat, n <= Len(v), n <= Len(u),
         \A j \in 1 .. n : v[j].parent = u[j].parent
  PROVE  \A j \in 0 .. n : Above(v, j) = Above(u, j)
<1> DEFINE S == {j \in 1 .. n : Above(v, j) = Above(u, j)}
<1>1. Above(v, 0) = {} /\ Above(u, 0) = {}
  BY AboveSteps
<1>2. ASSUME NEW j \in 1 .. n, \A i \in 1 .. j - 1 : i \in S
      PROVE  j \in S
  <2>1. j \in 1 .. Len(v) /\ j \in 1 .. Len(u)
    BY DEF Ordered
  <2>2. /\ Above(v, j) = {j} \cup Above(v, v[j].parent)
        /\ Above(u, j) = {j} \cup Above(u, u[j].parent)
    BY <2>1, AboveSteps
  <2>3. v[j].parent = u[j].parent /\ v[j].parent \in 0 .. j - 1
    BY <2>1 DEF Ordered
  <2>4. v[j].parent = 0 \/ v[j].parent \in S
    BY <1>2, <2>3
  <2> QED BY <1>1, <2>2, <2>3, <2>4
<1>3. 1 .. n \subseteq S
  <2> HIDE DEF S
  <2> QED BY <1>2, FromBelow
<1>4. \A j \in 0 .. n : j = 0 \/ j \in 1 .. n
  OBVIOUS
<1> QED BY <1>1, <1>3, <1>4

\* The sums of own bytes depend on types and raw bytes alone.
LEMMA UntilSame ==
  ASSUME NEW v \in Seq(Nodes), NEW u \in Seq(Nodes), NEW n \in Nat, n <= Len(v), n <= Len(u),
         \A j \in 1 .. n : v[j].type = u[j].type /\ v[j].raw = u[j].raw
  PROVE  /\ \A j \in 1 .. n : Own(v[j]) = Own(u[j])
         /\ \A j \in 0 .. n : Until(v, j) = Until(u, j)
<1>1. \A j \in 1 .. n : Own(v[j]) = Own(u[j])
  BY DEF Own, IsLeaf
<1>2. ASSUME NEW j \in 0 .. n
      PROVE  Until(v, j) = Until(u, j)
  <2>1. \A k \in 1 .. j : OwnBytes(v)[k] = OwnBytes(u)[k]
    BY <1>1 DEF OwnBytes
  <2>2. j \in Nat
    OBVIOUS
  <2>3. Total(OwnBytes(v), j) = Total(OwnBytes(u), j)
    BY <2>1, <2>2, TotalSame
  <2> QED BY <2>3 DEF Until
<1> QED BY <1>1, <1>2

\* A variable just constructed: it has no parent.
Fresh(x) ==
  /\ x \in Nodes /\ x.parent = 0 /\ x.offset = 0
  /\ x.raw \in IF IsLeaf(x) THEN {0} ELSE RawBytes(x.type)

\* A variable that is constructed comes last.
LEMMA PushShaped ==
  ASSUME NEW v, Shaped(v), NEW x, Fresh(x)
  PROVE  /\ Shaped(Append(v, x))
         /\ \A j \in 0 .. Len(v) : Above(Append(v, x), j) = Above(v, j)
<1> DEFINE u == Append(v, x)
           n == Len(v)
<1>1. v \in Seq(Nodes) /\ x \in Nodes /\ n \in Nat /\ Ordered(v)
  BY DEF Shaped, Kinds, Fresh, Preorder
<1>2. /\ u \in Seq(Nodes) /\ Len(u) = n + 1 /\ u[n + 1] = x
      /\ \A j \in 1 .. n : u[j] = v[j]
  BY <1>1
<1>3. \A j \in 1 .. n + 1 : j \in 1 .. n \/ j = n + 1
  BY <1>1
<1> HIDE DEF u, n
<1>4. Ordered(u)
  BY <1>1, <1>2, <1>3 DEF Ordered, Fresh, n
<1>5. \A j \in 0 .. n : Above(u, j) = Above(v, j)
  <2>1. n <= Len(v) /\ n <= Len(u) /\ \A j \in 1 .. n : v[j].parent = u[j].parent
    BY <1>1, <1>2 DEF n
  <2> QED BY <1>1, <1>4, <2>1, AboveSame
<1>6. /\ \A j \in 1 .. n : Own(v[j]) = Own(u[j])
      /\ \A j \in 0 .. n : Until(v, j) = Until(u, j)
  <2>1. n <= Len(v) /\ n <= Len(u) /\ \A j \in 1 .. n : v[j].type = u[j].type /\ v[j].raw = u[j].raw
    BY <1>1, <1>2 DEF n
  <2> QED BY <1>1, <1>2, <2>1, UntilSame
<1>7. Kinds(u)
  BY <1>1, <1>2, <1>3 DEF Kinds, Shaped, Fresh, n
<1>8. Preorder(u)
  <2> SUFFICES ASSUME NEW j \in 1 .. n + 1, u[j].parent # 0
               PROVE  u[j].parent \in Above(u, j - 1)
    BY <1>2, <1>4 DEF Preorder
  <2>1. j \in 1 .. n /\ u[j] = v[j] /\ j - 1 \in 0 .. n
    BY <1>1, <1>2, <1>3 DEF Fresh
  <2>2. v[j].parent \in Above(v, j - 1)
    BY <2>1 DEF Shaped, Preorder, n
  <2> QED BY <1>5, <2>1, <2>2
<1>9. Placed(u)
  <2> SUFFICES ASSUME NEW j \in 1 .. n + 1
               PROVE  u[j].offset = IF u[j].parent = 0 THEN 0
                                    ELSE Until(u, j - 1) - Until(u, u[j].parent - 1)
    BY <1>2 DEF Placed
  <2>1. CASE j = n + 1
    BY <1>2, <2>1 DEF Fresh
  <2>2. CASE j \in 1 .. n
    <3>1. v[j].offset = IF v[j].parent = 0 THEN 0 ELSE Until(v, j - 1) - Until(v, v[j].parent - 1)
      BY <2>2 DEF Shaped, Placed, n
    <3>2. v[j].parent # 0 => v[j].parent - 1 \in 0 .. n
      BY <1>1, <2>2 DEF Ordered, n
    <3>3. j - 1 \in 0 .. n
      BY <1>1, <2>2
    <3> QED BY <1>2, <1>6, <2>2, <3>1, <3>2, <3>3
  <2> QED BY <1>3, <2>1, <2>2
<1>10. Occupied(u)
  <2> SUFFICES ASSUME NEW j \in 1 .. n + 1, u[j].type = "prog", u[j].parent # 0
               PROVE  \E k \in 1 .. n + 1 : j \in Above(u, k) /\ Own(u[k]) > 0
    BY <1>2 DEF Occupied
  <2>1. j \in 1 .. n /\ u[j] = v[j]
    BY <1>2, <1>3 DEF Fresh
  <2>2. PICK k \in 1 .. n : j \in Above(v, k) /\ Own(v[k]) > 0
    BY <2>1 DEF Shaped, Occupied, n
  <2>3. k \in 0 .. n /\ k \in 1 .. n + 1
    BY <1>1
  <2>4. j \in Above(u, k) /\ Own(u[k]) > 0
    BY <1>5, <1>6, <2>2, <2>3
  <2> QED BY <2>3, <2>4
<1> QED BY <1>5, <1>7, <1>8, <1>9, <1>10 DEF Shaped, u, n

\* Constructing a variable keeps the shape of a tree that is being filled.
LEMMA PushFilling ==
  ASSUME NEW v, NEW o, Filling(v, o), NEW x, Fresh(x)
  PROVE  Filling(Append(v, x), Append(o, Len(v) + 1))
<1> DEFINE u == Append(v, x)
           q == Append(o, Len(v) + 1)
           n == Len(v)
           m == Len(o)
<1>1. /\ v \in Seq(Nodes) /\ x \in Nodes /\ n \in Nat /\ Shaped(v)
      /\ o \in Seq(1 .. n) /\ m \in Nat /\ m >= 1
  BY DEF Filling, Shaped, Kinds, Fresh
<1>2. /\ Len(u) = n + 1 /\ u[n + 1] = x /\ \A j \in 1 .. n : u[j] = v[j]
      /\ q \in Seq(1 .. n + 1) /\ Len(q) = m + 1 /\ q[m + 1] = n + 1
      /\ \A i \in 1 .. m : q[i] = o[i] /\ o[i] \in 1 .. n
  <2>1. o \in Seq(1 .. n + 1)
    BY <1>1
  <2> QED BY <1>1, <2>1
<1>3. Shaped(u) /\ \A j \in 0 .. n : Above(u, j) = Above(v, j)
  BY <1>1, PushShaped
<1>4. \A i \in 1 .. m + 1 : i \in 1 .. m \/ i = m + 1
  BY <1>1
<1>5. /\ o[1] = 1
      /\ \A i, j \in 1 .. m : i < j => o[i] < o[j]
      /\ \A k \in 1 .. n : v[k].parent = 0 <=> \E i \in 1 .. m : o[i] = k
      /\ \A i \in 2 .. m : o[i - 1] \in Above(v, o[i] - 1)
      /\ o[m] \in Above(v, n)
  BY DEF Filling
<1> HIDE DEF u, q, n, m
<1>6. q[1] = 1
  BY <1>1, <1>2, <1>5
<1>7. ASSUME NEW i \in 1 .. m + 1, NEW j \in 1 .. m + 1, i < j
      PROVE  q[i] < q[j]
  <2>1. i \in 1 .. m /\ q[i] = o[i] /\ o[i] \in 1 .. n
    BY <1>1, <1>2, <1>7
  <2>2. CASE j = m + 1
    BY <1>1, <1>2, <2>1, <2>2
  <2>3. CASE j \in 1 .. m
    BY <1>2, <1>5, <1>7, <2>1, <2>3
  <2> QED BY <1>4, <2>2, <2>3
<1>8. ASSUME NEW k \in 1 .. n + 1
      PROVE  u[k].parent = 0 <=> \E i \in 1 .. m + 1 : q[i] = k
  <2>1. CASE k = n + 1
    <3>1. m + 1 \in 1 .. m + 1
      BY <1>1
    <3> QED BY <1>2, <2>1, <3>1 DEF Fresh
  <2>2. CASE k \in 1 .. n
    <3>1. u[k] = v[k] /\ k # n + 1
      BY <1>1, <1>2, <2>2
    <3>2. \A i \in 1 .. m : i \in 1 .. m + 1
      BY <1>1
    <3> QED BY <1>2, <1>4, <1>5, <2>2, <3>1, <3>2
  <2> QED BY SMTT(20), <1>1, <2>1, <2>2
<1>9. ASSUME NEW i \in 2 .. m + 1
      PROVE  q[i - 1] \in Above(u, q[i] - 1)
  <2>1. CASE i = m + 1
    <3>1. i - 1 = m /\ m \in 1 .. m /\ (n + 1) - 1 = n /\ n \in 0 .. n
      BY <1>1, <2>1
    <3>2. q[i - 1] = o[m] /\ q[i] - 1 = n
      BY <1>2, <2>1, <3>1
    <3> QED BY <1>3, <1>5, <3>1, <3>2
  <2>2. CASE i # m + 1
    <3>1. i \in 2 .. m /\ i \in 1 .. m /\ i - 1 \in 1 .. m
      BY <1>1, <2>2
    <3>2. q[i - 1] = o[i - 1] /\ q[i] = o[i] /\ o[i] \in 1 .. n
      BY <1>2, <3>1
    <3>3. o[i] - 1 \in 0 .. n
      BY <1>1, <3>2
    <3> QED BY <1>3, <1>5, <3>1, <3>2, <3>3
  <2> QED BY <2>1, <2>2
<1>10. q[m + 1] \in Above(u, n + 1)
  <2>1. Ordered(u) /\ n + 1 \in 1 .. Len(u)
    BY <1>1, <1>2, <1>3 DEF Shaped, Preorder
  <2> QED BY <1>2, <2>1, AboveFacts
<1>11. Filling(u, q)
  BY <1>1, <1>2, <1>3, <1>6, <1>7, <1>8, <1>9, <1>10 DEF Filling
<1> QED BY <1>11 DEF u, q, n

\* The innermost variable t that is filled becomes a part of the one around it.
LEMMA JoinFacts ==
  ASSUME NEW v, NEW o, Filling(v, o), Len(o) > 1, NEW s, NEW t,
         s = o[Len(o) - 1], t = o[Len(o)]
  PROVE  /\ s \in 1 .. Len(v) /\ t \in 1 .. Len(v) /\ s < t
         /\ v[s].parent = 0 /\ v[t].parent = 0
         /\ s \in Above(v, t - 1) /\ t \in Above(v, Len(v))
         /\ \A k \in 1 .. Len(v) : k \in Within(v, s) <=> k \in s .. t - 1
         /\ EndOffset(v, s) = Until(v, t - 1) - Until(v, s - 1)
<1> DEFINE n == Len(v)
           m == Len(o)
<1>1. /\ v \in Seq(Nodes) /\ n \in Nat /\ Kinds(v) /\ Preorder(v) /\ Ordered(v) /\ Placed(v)
      /\ o \in Seq(1 .. n) /\ m \in Nat
  BY DEF Filling, Shaped, Kinds, Preorder
<1>2. m - 1 \in 1 .. m /\ m \in 1 .. m /\ m - 1 < m /\ m \in 2 .. m
  BY <1>1
<1>3. s \in 1 .. n /\ t \in 1 .. n /\ s < t
  BY <1>1, <1>2 DEF Filling
<1>4. v[s].parent = 0 /\ v[t].parent = 0
  BY <1>2, <1>3 DEF Filling
<1>5. s \in Above(v, t - 1) /\ t \in Above(v, n)
  BY <1>2 DEF Filling
<1>6. PICK e \in s .. n :
        /\ \A k \in 1 .. n : s \in Above(v, k) <=> k \in s .. e
        /\ Within(v, s) = s .. e
        /\ SizeOf(v, s) = Until(v, e) - Until(v, s - 1)
  BY <1>1, <1>3, SizeBetween
<1>7. e = t - 1
  <2>1. t - 1 \in 1 .. n
    BY <1>1, <1>3
  <2>2. t - 1 \in s .. e
    BY <1>5, <1>6, <2>1
  <2>3. s \notin Above(v, t)
    BY SMTT(20), <1>1, <1>3, <1>4, AboveFacts, OneRoot
  <2>4. t \notin s .. e
    BY <1>3, <1>6, <2>3
  <2> QED BY <1>1, <1>3, <2>2, <2>4
<1>8. v[s].offset = 0
  BY <1>1, <1>3, <1>4 DEF Placed
<1>9. EndOffset(v, s) = Until(v, t - 1) - Until(v, s - 1)
  <2>1. Until(v, t - 1) \in Nat /\ Until(v, s - 1) \in Nat
    <3>1. t - 1 \in 0 .. n /\ s - 1 \in 0 .. n
      BY SMTT(20), <1>1, <1>3
    <3> QED BY <1>1, <3>1, UntilFacts
  <2> QED BY <1>6, <1>7, <1>8, <2>1 DEF EndOffset
<1> QED BY <1>3, <1>4, <1>5, <1>6, <1>7, <1>9

\* Attaching t to s puts what is above s above all that is within t.
LEMMA JoinAbove ==
  ASSUME NEW v, NEW u, Ordered(v), Ordered(u), Len(u) = Len(v),
         NEW s \in 1 .. Len(v), NEW t \in 1 .. Len(v), s < t, v[t].parent = 0, u[t].parent = s,
         \A j \in 1 .. Len(v) : j # t => u[j].parent = v[j].parent
  PROVE  \A j \in 0 .. Len(v) :
           Above(u, j) = IF t \in Above(v, j) THEN Above(v, j) \cup Above(v, s) ELSE Above(v, j)
<1> DEFINE n == Len(v)
           Joined(j) == Above(u, j) = IF t \in Above(v, j) THEN Above(v, j) \cup Above(v, s) ELSE Above(v, j)
           S == {j \in 1 .. n : Joined(j)}
<1>0. n \in Nat /\ \A j \in 1 .. n : v[j].parent \in 0 .. j - 1
  BY DEF Ordered
<1>1. Above(v, 0) = {} /\ Above(u, 0) = {}
  BY AboveSteps
<1>2. ASSUME NEW j \in 1 .. n, \A i \in 1 .. j - 1 : i \in S
      PROVE  j \in S
  <2>1. /\ Above(v, j) = {j} \cup Above(v, v[j].parent)
        /\ Above(u, j) = {j} \cup Above(u, u[j].parent)
    BY AboveSteps
  <2>2. CASE j = t
    <3>1. s \in 1 .. j - 1
      BY <1>0, <2>2
    <3>2. Joined(s)
      BY <1>2, <3>1
    <3>3. t \notin Above(v, s)
      BY <1>0, AboveFacts
    <3>4. Above(u, s) = Above(v, s)
      BY <3>2, <3>3
    <3> QED BY <1>1, <2>1, <2>2, <3>4
  <2>3. CASE j # t /\ v[j].parent = 0
    BY <1>1, <2>1, <2>3
  <2>4. CASE j # t /\ v[j].parent # 0
    <3>1. v[j].parent \in 1 .. j - 1 /\ u[j].parent = v[j].parent
      BY <1>0, <2>4
    <3>2. Joined(v[j].parent)
      BY <1>2, <3>1
    <3> QED BY <2>1, <2>4, <3>1, <3>2
  <2> QED BY <2>2, <2>3, <2>4
<1>3. 1 .. n \subseteq S
  <2>1. n \in Nat
    BY <1>0
  <2> HIDE DEF S, n, Joined
  <2>2. \A k \in 1 .. n : (\A i \in 1 .. k - 1 : i \in S) => k \in S
    BY <1>2
  <2> QED BY ONLY <2>1, <2>2, FromBelow
<1>4. Joined(0)
  BY <1>1
<1>5. \A j \in 0 .. n : j = 0 \/ j \in S
  BY SMTT(20), <1>0, <1>3
<1>6. \A j \in 0 .. n : Joined(j)
  <2> HIDE DEF Joined
  <2> QED BY <1>4, <1>5
<1> QED BY <1>6

\* The part that is attached stands where its offset says.
LEMMA JoinShaped ==
  ASSUME NEW v, NEW o, Filling(v, o), Len(o) > 1, NEW s, NEW t,
         s = o[Len(o) - 1], t = o[Len(o)],
         v[t].type = "prog" => \E k \in 1 .. Len(v) : t \in Above(v, k) /\ Own(v[k]) > 0
  PROVE  /\ Shaped(AddVariable(v, s, t))
         /\ Len(AddVariable(v, s, t)) = Len(v)
         /\ \A j \in 0 .. Len(v) : Above(v, j) \subseteq Above(AddVariable(v, s, t), j)
         /\ s \in Above(AddVariable(v, s, t), Len(v))
         /\ \A j \in 1 .. Len(v) :
              AddVariable(v, s, t)[j].parent = IF j = t THEN s ELSE v[j].parent
<1> DEFINE u == AddVariable(v, s, t)
           n == Len(v)
<1>1. /\ v \in Seq(Nodes) /\ n \in Nat /\ Kinds(v) /\ Preorder(v) /\ Ordered(v) /\ Placed(v) /\ Occupied(v)
      /\ DOMAIN v = 1 .. n
  BY DEF Filling, Shaped, Kinds, Preorder
<1>2. /\ s \in 1 .. n /\ t \in 1 .. n /\ s < t
      /\ v[s].parent = 0 /\ v[t].parent = 0
      /\ s \in Above(v, t - 1) /\ t \in Above(v, n)
      /\ EndOffset(v, s) = Until(v, t - 1) - Until(v, s - 1)
  BY JoinFacts
<1>3. EndOffset(v, s) \in Nat
  <2>1. t - 1 \in 0 .. n /\ s - 1 \in 0 .. n /\ s - 1 <= t - 1
    BY <1>1, <1>2
  <2>2. /\ Until(v, t - 1) \in Nat /\ Until(v, s - 1) \in Nat
        /\ Until(v, s - 1) <= Until(v, t - 1)
    BY <1>1, <2>1, UntilFacts
  <2> QED BY <1>2, <2>2
<1>4. /\ \A j \in 1 .. n : j # t => u[j] = v[j]
      /\ u[t] = [v[t] EXCEPT !.parent = s, !.offset = EndOffset(v, s)]
  BY <1>1, <1>2 DEF AddVariable
<1>5. u[t] \in Nodes /\ u[t].parent = s /\ u[t].offset = EndOffset(v, s) /\ u[t].type = v[t].type /\ u[t].raw = v[t].raw
  <2>1. v[t] \in Nodes /\ s \in Nat
    BY <1>1, <1>2
  <2> QED BY <1>3, <1>4, <2>1 DEF Nodes
<1>6. u \in Seq(Nodes) /\ Len(u) = n /\ DOMAIN u = 1 .. n
  <2>1. u = [v EXCEPT ![t] = u[t]]
    BY <1>1, <1>2, <1>4 DEF AddVariable
  <2> HIDE DEF u
  <2> QED BY <1>1, <1>2, <1>5, <2>1
<1> HIDE DEF u, n
<1>7. \A j \in 1 .. n : /\ u[j].parent = IF j = t THEN s ELSE v[j].parent
                        /\ u[j].type = v[j].type /\ u[j].raw = v[j].raw
  BY <1>4, <1>5
<1>8. Ordered(u)
  <2> SUFFICES ASSUME NEW j \in 1 .. n PROVE u[j].parent \in 0 .. j - 1
    BY <1>1, <1>6 DEF Ordered
  <2> QED BY SMTT(20), <1>1, <1>2, <1>7 DEF Ordered, n
<1>9. \A j \in 0 .. n : Above(u, j) = IF t \in Above(v, j) THEN Above(v, j) \cup Above(v, s) ELSE Above(v, j)
  <2>1. /\ Ordered(v) /\ Ordered(u) /\ Len(u) = Len(v) /\ s \in 1 .. Len(v) /\ t \in 1 .. Len(v)
        /\ s < t /\ v[t].parent = 0
        /\ u[t].parent = s /\ \A j \in 1 .. Len(v) : j # t => u[j].parent = v[j].parent
    BY <1>1, <1>2, <1>5, <1>6, <1>7, <1>8 DEF n
  <2>2. \A j \in 0 .. Len(v) : Above(u, j) = IF t \in Above(v, j) THEN Above(v, j) \cup Above(v, s) ELSE Above(v, j)
    BY SMTT(20), <2>1, JoinAbove
  <2> QED BY <2>2 DEF n
<1>10. \A j \in 0 .. n : Above(v, j) \subseteq Above(u, j)
  BY <1>9
<1>11. s \in Above(u, n)
  <2>1. s \in Above(v, s)
    BY <1>1, <1>2, AboveFacts DEF n
  <2>2. n \in 0 .. n
    BY <1>1
  <2> QED BY <1>2, <1>9, <2>1, <2>2
<1>12. /\ \A j \in 1 .. n : Own(v[j]) = Own(u[j])
       /\ \A j \in 0 .. n : Until(v, j) = Until(u, j)
  <2>1. n <= Len(v) /\ n <= Len(u)
    BY <1>1, <1>6 DEF n
  <2>2. \A j \in 1 .. n : v[j].type = u[j].type /\ v[j].raw = u[j].raw
    BY <1>7
  <2> QED BY <1>1, <1>6, <2>1, <2>2, UntilSame
<1>13. Kinds(u)
  <2>1. \A j \in 1 .. n : v[j].raw \in IF IsLeaf(v[j]) THEN {0} ELSE RawBytes(v[j].type)
    BY <1>1 DEF Kinds, n
  <2> QED BY <1>6, <1>7, <2>1 DEF Kinds, IsLeaf
<1>14. Preorder(u)
  <2> SUFFICES ASSUME NEW j \in 1 .. n, u[j].parent # 0
               PROVE  u[j].parent \in Above(u, j - 1)
    BY <1>6, <1>8 DEF Preorder
  <2>1. j - 1 \in 0 .. n
    BY <1>1
  <2>2. CASE j = t
    BY <1>2, <1>7, <1>10, <2>1, <2>2
  <2>3. CASE j # t
    <3>1. u[j].parent \in Above(v, j - 1)
      BY <1>1, <1>7, <2>3 DEF Preorder, n
    <3> QED BY <1>10, <2>1, <3>1
  <2> QED BY <2>2, <2>3
<1>15. Placed(u)
  <2> SUFFICES ASSUME NEW j \in 1 .. n
               PROVE  u[j].offset = IF u[j].parent = 0 THEN 0
                                    ELSE Until(u, j - 1) - Until(u, u[j].parent - 1)
    BY <1>6 DEF Placed
  <2>1. j - 1 \in 0 .. n
    BY <1>1
  <2>2. CASE j = t
    <3>1. s - 1 \in 0 .. n /\ s # 0
      BY <1>1, <1>2
    <3> QED BY <1>2, <1>5, <1>12, <2>1, <2>2, <3>1
  <2>3. CASE j # t
    <3>1. u[j] = v[j]
      BY <1>4, <2>3
    <3>2. v[j].offset = IF v[j].parent = 0 THEN 0 ELSE Until(v, j - 1) - Until(v, v[j].parent - 1)
      BY <1>1 DEF Placed, n
    <3>3. v[j].parent # 0 => v[j].parent - 1 \in 0 .. n
      <4>1. v[j].parent \in 0 .. j - 1
        BY <1>1 DEF Ordered, n
      <4> QED BY <1>1, <4>1
    <3> QED BY <1>12, <2>1, <3>1, <3>2, <3>3
  <2> QED BY <2>2, <2>3
<1>16. Occupied(u)
  <2> SUFFICES ASSUME NEW j \in 1 .. n, u[j].type = "prog", u[j].parent # 0
               PROVE  \E k \in 1 .. n : j \in Above(u, k) /\ Own(u[k]) > 0
    BY <1>6 DEF Occupied
  <2>1. \E k \in 1 .. n : j \in Above(v, k) /\ Own(v[k]) > 0
    <3>1. CASE j = t
      BY <1>7, <3>1 DEF n
    <3>2. CASE j # t
      BY <1>1, <1>7, <3>2 DEF Occupied, n
    <3> QED BY <3>1, <3>2
  <2>2. PICK k \in 1 .. n : j \in Above(v, k) /\ Own(v[k]) > 0
    BY <2>1
  <2>3. k \in 0 .. n
    BY <1>1
  <2>4. j \in Above(u, k) /\ Own(u[k]) > 0
    BY <1>10, <1>12, <2>2, <2>3
  <2> QED BY <2>4
<1>17. Shaped(u)
  BY <1>13, <1>14, <1>15, <1>16 DEF Shaped
<1> QED BY <1>6, <1>7, <1>10, <1>11, <1>17 DEF u, n

\* Attaching a part keeps the shape of a tree that is being filled.
LEMMA JoinFilling ==
  ASSUME NEW v, NEW o, Filling(v, o), Len(o) > 1, NEW s, NEW t,
         s = o[Len(o) - 1], t = o[Len(o)],
         v[t].type = "prog" => \E k \in 1 .. Len(v) : t \in Above(v, k) /\ Own(v[k]) > 0
  PROVE  Filling(AddVariable(v, s, t), Front(o))
<1> DEFINE u == AddVariable(v, s, t)
           q == Front(o)
           n == Len(v)
           m == Len(o)
<1>1. /\ n \in Nat /\ o \in Seq(1 .. n) /\ m \in Nat /\ m > 1
      /\ o[1] = 1
      /\ \A i, j \in 1 .. m : i < j => o[i] < o[j]
      /\ \A k \in 1 .. n : v[k].parent = 0 <=> \E i \in 1 .. m : o[i] = k
      /\ \A i \in 2 .. m : o[i - 1] \in Above(v, o[i] - 1)
      /\ s = o[m - 1] /\ t = o[m]
  BY DEF Filling, Shaped, Kinds
<1>2. /\ Shaped(u) /\ Len(u) = n
      /\ \A j \in 0 .. n : Above(v, j) \subseteq Above(u, j)
      /\ s \in Above(u, n)
      /\ \A j \in 1 .. n : u[j].parent = IF j = t THEN s ELSE v[j].parent
  BY JoinShaped
<1>3. q \in Seq(1 .. n) /\ Len(q) = m - 1 /\ \A i \in 1 .. m - 1 : q[i] = o[i]
  BY <1>1 DEF Front
<1>4. s # 0 /\ t \in 1 .. n
  BY JoinFacts
<1>5. \A i \in 1 .. m - 1 : i \in 1 .. m /\ o[i] \in 1 .. n
  <2>1. m \in Nat /\ o \in Seq(1 .. n)
    BY <1>1
  <2>2. \A i \in 1 .. m : o[i] \in 1 .. n
    BY <2>1
  <2> QED BY <2>1, <2>2
<1> HIDE DEF u, q, n, m
<1>6. q[1] = 1
  BY <1>1, <1>3
<1>7. \A i, j \in 1 .. m - 1 : i < j => q[i] < q[j]
  BY <1>1, <1>3, <1>5
<1>8. ASSUME NEW k \in 1 .. n
      PROVE  u[k].parent = 0 <=> \E i \in 1 .. m - 1 : q[i] = k
  <2>1. CASE k = t
    <3>1. ASSUME NEW i \in 1 .. m - 1, q[i] = k PROVE FALSE
      <4>1. i \in 1 .. m /\ m \in 1 .. m /\ i < m
        BY <1>1
      <4>2. o[i] < o[m] /\ o[i] = o[m]
        BY <1>1, <1>3, <2>1, <3>1, <4>1
      <4>3. o[i] \in 1 .. n
        BY <1>5
      <4> QED BY <4>2, <4>3
    <3> QED BY <1>2, <1>4, <2>1, <3>1
  <2>2. CASE k # t
    <3>1. u[k].parent = v[k].parent
      BY <1>2, <2>2
    <3>2. ASSUME NEW i \in 1 .. m, o[i] = k
          PROVE  i \in 1 .. m - 1 /\ q[i] = k
      BY SMTT(20), <1>1, <1>3, <2>2, <3>2
    <3>3. ASSUME NEW i \in 1 .. m - 1, q[i] = k
          PROVE  i \in 1 .. m /\ o[i] = k
      BY <1>3, <1>5, <3>3
    <3> QED BY <1>1, <3>1, <3>2, <3>3
  <2> QED BY <2>1, <2>2
<1>9. ASSUME NEW i \in 2 .. m - 1
      PROVE  q[i - 1] \in Above(u, q[i] - 1)
  <2>0. m \in Nat /\ m > 1 /\ n \in Nat
    BY <1>1
  <2>1. i \in 2 .. m /\ i - 1 \in 1 .. m - 1 /\ i \in 1 .. m - 1
    BY <2>0
  <2>2. q[i - 1] = o[i - 1] /\ q[i] = o[i] /\ o[i] \in 1 .. n
    BY <1>3, <1>5, <2>1
  <2>3. o[i] - 1 \in 0 .. n
    BY <2>0, <2>2
  <2> QED BY <1>1, <1>2, <2>1, <2>2, <2>3
<1>10. q[Len(q)] \in Above(u, n)
  <2>1. m - 1 \in 1 .. m - 1
    BY <1>1
  <2> QED BY <1>1, <1>2, <1>3, <2>1
<1>11. Filling(u, q)
  <2>1. Len(q) >= 1
    BY <1>1, <1>3
  <2> QED BY <1>2, <1>3, <1>6, <1>7, <1>8, <1>9, <1>10, <2>1 DEF Filling
<1> QED BY <1>11 DEF u, q

\* Building starts with a root that is being filled.
LEMMA FirstFilling ==
  ASSUME NEW x, Fresh(x)
  PROVE  Filling(<<x>>, <<1>>)
<1> DEFINE v == <<x>>
<1>1. /\ v \in Seq(Nodes) /\ Len(v) = 1 /\ v[1] = x /\ v[1].parent = 0 /\ v[1].offset = 0
      /\ v[1].raw \in IF IsLeaf(v[1]) THEN {0} ELSE RawBytes(v[1].type)
  BY DEF Fresh
<1>2. \A j \in 1 .. 1 : j = 1
  OBVIOUS
<1> HIDE DEF v
<1>3. Ordered(v)
  BY <1>1, <1>2 DEF Ordered
<1>4. Shaped(v)
  BY <1>1, <1>2, <1>3 DEF Shaped, Kinds, Preorder, Placed, Occupied
<1>5. 1 \in Above(v, 1)
  BY <1>1, <1>3, AboveFacts
<1> DEFINE o == <<1>>
<1>6. o \in Seq(1 .. 1) /\ Len(o) = 1 /\ o[1] = 1
  OBVIOUS
<1> HIDE DEF o
<1>7. Filling(v, o)
  BY <1>1, <1>2, <1>4, <1>5, <1>6 DEF Filling
<1> QED BY <1>7 DEF v, o

\* Once only the root is being filled, the tree is whole.
LEMMA FilledIsWhole ==
  ASSUME NEW v, NEW o, Filling(v, o), Len(o) = 1
  PROVE  Whole(v)
<1>1. /\ Shaped(v) /\ o \in Seq(1 .. Len(v)) /\ o[1] = 1 /\ v \in Seq(Nodes)
      /\ \A k \in 1 .. Len(v) : v[k].parent = 0 <=> \E i \in 1 .. 1 : o[i] = k
  BY DEF Filling, Shaped, Kinds
<1>2. 1 \in 1 .. Len(v)
  BY SMTT(20), <1>1
<1>3. \A k \in 1 .. Len(v) : v[k].parent = 0 <=> k = 1
  BY <1>1
<1> QED BY <1>1, <1>2, <1>3 DEF Whole

-----------------------------------------------------------------------------
(***************************************************************************)
(* Numbers and their digits.                                               *)
(***************************************************************************)
LEMMA SmallMultiple ==
  ASSUME NEW m \in Nat \ {0}, NEW d \in Int, NEW r \in Int, r < m, -m < r, m * d = r
  PROVE  d = 0 /\ r = 0
<1>1. d >= 1 => m * d >= m
  OBVIOUS
<1>2. d <= -1 => m * d <= -m
  OBVIOUS
<1> QED BY <1>1, <1>2

\* Quotient and remainder are the only ones.
LEMMA DivisionUnique ==
  ASSUME NEW m \in Nat \ {0}, NEW a \in Int, NEW b \in Int,
         NEW r \in 0 .. m - 1, NEW s \in 0 .. m - 1, m * a + r = m * b + s
  PROVE  a = b /\ r = s
<1>1. m * (a - b) = s - r
  OBVIOUS
<1> QED BY <1>1, SmallMultiple

\* A number is its quotient and its remainder.
LEMMA Division ==
  ASSUME NEW m \in Nat \ {0}, NEW n \in Int
  PROVE  n \div m \in Int /\ n % m \in 0 .. m - 1 /\ n = m * (n \div m) + (n % m)
<1>1. n \div m \in Int /\ n % m \in 0 .. m - 1
  OBVIOUS
<1>2. n = m * (n \div m) + (n % m)
  OBVIOUS
<1> QED BY <1>1, <1>2

\* How a quotient and a remainder are recognised.
LEMMA DivisionIs ==
  ASSUME NEW m \in Nat \ {0}, NEW a \in Int, NEW r \in 0 .. m - 1
  PROVE  (m * a + r) % m = r /\ (m * a + r) \div m = a
<1> DEFINE n == m * a + r
<1>1. n \in Int
  OBVIOUS
<1> HIDE DEF n
<1>2. n \in Int /\ n \div m \in Int /\ n % m \in 0 .. m - 1 /\ n = m * (n \div m) + (n % m)
  BY <1>1, Division
<1>3. m * (n \div m) + (n % m) = m * a + r
  BY <1>2 DEF n
<1>4. n \div m = a /\ n % m = r
  BY <1>2, <1>3, DivisionUnique
<1> QED BY <1>4 DEF n

\* The powers of the base are positive.
LEMMA PowerFacts ==
  /\ Power(0) = 1
  /\ \A k \in Nat : Power(k) \in Nat \ {0} /\ Power(k + 1) = Radix * Power(k)
<1> DEFINE S == {k \in Nat : Power(k) \in Nat \ {0}}
<1>1. Radix \in Nat \ {0}
  BY TreeAssumption
<1>2. 0 \in S
  BY PowerSteps
<1>3. ASSUME NEW k \in Nat, k \in S
      PROVE  k + 1 \in S
  <2>1. Power(k + 1) = Radix * Power(k)
    BY PowerSteps
  <2>2. Radix * Power(k) \in Nat \ {0}
    BY <1>1, <1>3
  <2> QED BY <2>1, <2>2
<1>4. Nat \subseteq S
  <2> HIDE DEF S
  <2> QED BY <1>2, <1>3, RTotal!Induct
<1> QED BY <1>4, PowerSteps

\* The width of a type that is signed is even, and two halves make it.
LEMMA HalfFacts ==
  ASSUME NEW t \in LeafTypes \ {"cmtype"}
  PROVE  /\ Half(t) \in Nat \ {0} /\ 2 * Half(t) = Power(Width(t))
         /\ Width(t) \in Nat \ {0}
<1>1. Width(t) \in Nat \ {0}
  BY DEF LeafTypes, Width
<1>2. PICK w \in Nat : Width(t) = w + 1
  <2>1. Width(t) - 1 \in Nat /\ Width(t) = (Width(t) - 1) + 1
    BY <1>1
  <2> QED BY <2>1
<1>3. Power(w) \in Nat \ {0} /\ Power(w + 1) = Radix * Power(w)
  BY PowerFacts
<1>4. PICK r \in Nat \ {0} : Radix = 2 * r
  <2>1. Radix = 2 * (Radix \div 2) + (Radix % 2) /\ Radix \div 2 \in Int
    BY TreeAssumption, Division
  <2>2. Radix \div 2 \in Nat \ {0}
    BY <2>1, TreeAssumption
  <2> QED BY <2>1, <2>2, TreeAssumption
<1> DEFINE p == r * Power(w)
<1>5. p \in Nat \ {0}
  BY <1>3, <1>4
<1>6. Power(w + 1) = 2 * p
  BY <1>3, <1>4
<1> HIDE DEF p
<1>7. (2 * p + 0) \div 2 = p
  BY <1>5, DivisionIs
<1>8. Half(t) = p
  BY <1>2, <1>5, <1>6, <1>7 DEF Half
<1> QED BY <1>1, <1>2, <1>5, <1>6, <1>8

-----------------------------------------------------------------------------
(***************************************************************************)
(* A number is written in a row of bytes and read back.                    *)
(***************************************************************************)
IsDigits(bytes, offset, width) == \A i \in 1 .. width : bytes[offset + i] \in 0 .. Radix - 1
Holds(bytes, offset, width, n) == \A i \in 1 .. width : bytes[offset + i] = Digit(n, i)
Terms(bytes, offset, width) == [i \in 1 .. width |-> bytes[offset + i] * Power(i - 1)]

\* A digit is one, also of a negative number.
LEMMA DigitRange ==
  ASSUME NEW n \in Int, NEW i \in Nat \ {0}
  PROVE  Digit(n, i) \in 0 .. Radix - 1
<1>1. i - 1 \in Nat
  OBVIOUS
<1>2. Power(i - 1) \in Nat \ {0}
  BY <1>1, PowerFacts
<1>3. n \div Power(i - 1) \in Int
  BY <1>2, Division
<1>4. Radix \in Nat \ {0}
  BY TreeAssumption
<1> QED BY <1>3, <1>4, Division DEF Digit

\* The number that some bytes stand for, one more byte at a time.
LEMMA RawSteps ==
  ASSUME NEW width \in Nat, NEW bytes, NEW offset
  PROVE  /\ Raw(bytes, offset, width) = Total(Terms(bytes, offset, width), width)
         /\ Total(Terms(bytes, offset, width), 0) = 0
         /\ \A k \in 0 .. width - 1 :
              Total(Terms(bytes, offset, width), k + 1)
                = Total(Terms(bytes, offset, width), k) + bytes[offset + (k + 1)] * Power(k)
<1>1. Total(Terms(bytes, offset, width), 0) = 0
  BY TotalSteps
<1>2. ASSUME NEW k \in 0 .. width - 1
      PROVE  Total(Terms(bytes, offset, width), k + 1)
               = Total(Terms(bytes, offset, width), k) + bytes[offset + (k + 1)] * Power(k)
  <2>1. Total(Terms(bytes, offset, width), k + 1)
          = Total(Terms(bytes, offset, width), k) + Terms(bytes, offset, width)[k + 1]
    BY TotalSteps
  <2>2. k + 1 \in 1 .. width /\ (k + 1) - 1 = k
    OBVIOUS
  <2>3. Terms(bytes, offset, width)[k + 1] = bytes[offset + (k + 1)] * Power(k)
    BY <2>2 DEF Terms
  <2> QED BY <2>1, <2>3
<1>3. Raw(bytes, offset, width) = Total(Terms(bytes, offset, width), width)
  BY DEF Raw, Terms
<1> QED BY <1>1, <1>2, <1>3

\* Bytes stand for a number below the power of their count.
LEMMA RawRange ==
  ASSUME NEW width \in Nat, NEW bytes, NEW offset, IsDigits(bytes, offset, width)
  PROVE  \A k \in 0 .. width : Total(Terms(bytes, offset, width), k) \in 0 .. Power(k) - 1
<1> DEFINE T(k) == Total(Terms(bytes, offset, width), k)
           S == {k \in 0 .. width : T(k) \in 0 .. Power(k) - 1}
<1>1. T(0) = 0 /\ \A k \in 0 .. width - 1 : T(k + 1) = T(k) + bytes[offset + (k + 1)] * Power(k)
  BY RawSteps
<1> HIDE DEF T
<1>2. 0 \in S
  BY <1>1, PowerFacts
<1>3. ASSUME NEW k \in 0 .. width - 1, k \in S
      PROVE  k + 1 \in S
  <2>1. PICK d : d = bytes[offset + (k + 1)]
    OBVIOUS
  <2>2. d \in 0 .. Radix - 1
    <3>1. k + 1 \in 1 .. width
      OBVIOUS
    <3> QED BY <2>1, <3>1 DEF IsDigits
  <2>3. PICK p \in Nat \ {0} : p = Power(k)
    BY PowerFacts
  <2>4. Power(k + 1) = Radix * p /\ T(k + 1) = T(k) + d * p /\ T(k) \in 0 .. p - 1
    BY <1>1, <1>3, <2>1, <2>3, PowerFacts
  <2>5. Radix \in Nat /\ d \in Nat /\ d + 1 <= Radix
    BY <2>2, TreeAssumption
  <2>6. (d + 1) * p <= Radix * p
    BY <2>3, <2>5
  <2>7. (d + 1) * p = d * p + p /\ d * p \in Nat /\ Radix * p \in Nat
    BY <2>3, <2>5
  <2>8. T(k) + d * p \in 0 .. Radix * p - 1
    BY <2>4, <2>6, <2>7
  <2> QED BY <2>4, <2>8
<1>4. 0 .. width \subseteq S
  <2> HIDE DEF S
  <2> QED BY <1>2, <1>3, Upwards
<1> QED BY <1>4 DEF T

\* Bytes that differ stand for numbers that differ.
LEMMA RawTells ==
  ASSUME NEW width \in Nat, NEW b, NEW o, NEW c, NEW q, IsDigits(b, o, width), IsDigits(c, q, width)
  PROVE  Raw(b, o, width) = Raw(c, q, width) <=> \A i \in 1 .. width : b[o + i] = c[q + i]
<1> DEFINE T(k) == Total(Terms(b, o, width), k)
           U(k) == Total(Terms(c, q, width), k)
           S == {k \in 0 .. width : T(k) = U(k) <=> \A i \in 1 .. k : b[o + i] = c[q + i]}
<1>1. /\ T(0) = 0 /\ \A k \in 0 .. width - 1 : T(k + 1) = T(k) + b[o + (k + 1)] * Power(k)
      /\ U(0) = 0 /\ \A k \in 0 .. width - 1 : U(k + 1) = U(k) + c[q + (k + 1)] * Power(k)
      /\ Raw(b, o, width) = T(width) /\ Raw(c, q, width) = U(width)
  BY RawSteps
<1>2. \A k \in 0 .. width : T(k) \in 0 .. Power(k) - 1 /\ U(k) \in 0 .. Power(k) - 1
  BY RawRange
<1> HIDE DEF T, U
<1>3. 0 \in S
  BY <1>1
<1>4. ASSUME NEW k \in 0 .. width - 1, k \in S
      PROVE  k + 1 \in S
  <2>1. PICK d : d = b[o + (k + 1)]
    OBVIOUS
  <2>2. PICK e : e = c[q + (k + 1)]
    OBVIOUS
  <2>3. d \in Int /\ e \in Int /\ k + 1 \in 1 .. width
    <3>1. k + 1 \in 1 .. width
      OBVIOUS
    <3> QED BY <2>1, <2>2, <3>1, TreeAssumption DEF IsDigits
  <2>4. PICK p \in Nat \ {0} : p = Power(k)
    BY PowerFacts
  <2>5. T(k) \in 0 .. p - 1 /\ U(k) \in 0 .. p - 1
    BY <1>2, <2>4
  <2>6. T(k + 1) = p * d + T(k) /\ U(k + 1) = p * e + U(k)
    BY <1>1, <2>1, <2>2, <2>3, <2>4, <2>5
  <2>7. T(k + 1) = U(k + 1) <=> d = e /\ T(k) = U(k)
    BY <2>3, <2>5, <2>6, DivisionUnique
  <2>8. T(k) = U(k) <=> \A i \in 1 .. k : b[o + i] = c[q + i]
    BY <1>4
  <2>9. \A i \in 1 .. k + 1 : i \in 1 .. k \/ i = k + 1
    OBVIOUS
  <2>10. \A i \in 1 .. k : i \in 1 .. k + 1
    OBVIOUS
  <2>11. k + 1 \in 1 .. k + 1 /\ k + 1 \in 0 .. width
    OBVIOUS
  <2> QED BY <2>1, <2>2, <2>7, <2>8, <2>9, <2>10, <2>11
<1>5. 0 .. width \subseteq S
  <2> HIDE DEF S
  <2> QED BY <1>3, <1>4, Upwards
<1>6. width \in S
  BY <1>5
<1> QED BY <1>1, <1>6

\* What is read is what was written, cut to the width.
LEMMA RawStored ==
  ASSUME NEW width \in Nat, NEW bytes, NEW offset, NEW n \in Int, Holds(bytes, offset, width, n)
  PROVE  Raw(bytes, offset, width) = n % Power(width)
<1> DEFINE T(k) == Total(Terms(bytes, offset, width), k)
           S == {k \in 0 .. width : T(k) = n % Power(k)}
<1>1. /\ T(0) = 0 /\ \A k \in 0 .. width - 1 : T(k + 1) = T(k) + bytes[offset + (k + 1)] * Power(k)
      /\ Raw(bytes, offset, width) = T(width)
  BY RawSteps
<1> HIDE DEF T
<1>2. 0 \in S
  <2>1. n % 1 = 0
    OBVIOUS
  <2> QED BY <1>1, <2>1, PowerFacts
<1>3. ASSUME NEW k \in 0 .. width - 1, k \in S
      PROVE  k + 1 \in S
  <2>1. PICK p \in Nat \ {0} : p = Power(k)
    BY PowerFacts
  <2>2. Power(k + 1) = Radix * p /\ Radix \in Nat \ {0}
    BY <2>1, PowerFacts, TreeAssumption
  <2>3. PICK a \in Int, r \in 0 .. p - 1 : n = p * a + r /\ n \div p = a /\ n % p = r
    BY <2>1, Division
  <2>4. PICK x \in Int, d \in 0 .. Radix - 1 : a = Radix * x + d /\ a % Radix = d
    BY <2>2, <2>3, Division
  <2>5. bytes[offset + (k + 1)] = d
    <3>1. k + 1 \in 1 .. width /\ (k + 1) - 1 = k
      OBVIOUS
    <3>2. Digit(n, k + 1) = (n \div Power(k)) % Radix
      BY <3>1 DEF Digit
    <3> QED BY <2>1, <2>3, <2>4, <3>1, <3>2 DEF Holds
  <2>6. T(k + 1) = r + d * p
    BY <1>1, <1>3, <2>1, <2>3, <2>5
  <2>7. PICK M \in Nat \ {0} : M = Radix * p
    BY <2>1, <2>2
  <2>8. r + d * p \in 0 .. M - 1
    <3>1. d \in Nat /\ d + 1 <= Radix /\ p \in Nat
      BY <2>1, <2>2, <2>4
    <3>2. (d + 1) * p <= Radix * p /\ (d + 1) * p = d * p + p /\ d * p \in Nat
      BY <2>2, <3>1
    <3> QED BY <2>3, <2>7, <3>1, <3>2
  <2>9. n = M * x + (r + d * p)
    <3>1. n = p * (Radix * x + d) + r
      BY <2>3, <2>4
    <3>2. p * (Radix * x + d) = (Radix * p) * x + d * p
      BY <2>1, <2>2, <2>4
    <3>3. PICK y \in Int : y = M * x /\ y = (Radix * p) * x
      BY <2>4, <2>7
    <3>4. PICK z \in Int : z = d * p
      BY <2>1, <2>4
    <3>5. n = (y + z) + r /\ r \in Int
      BY <2>3, <3>1, <3>2, <3>3, <3>4
    <3> QED BY <3>3, <3>4, <3>5
  <2>10. n % M = r + d * p
    BY <2>7, <2>8, <2>9, <2>4, DivisionIs
  <2>11. k + 1 \in 0 .. width
    OBVIOUS
  <2> QED BY <2>2, <2>6, <2>7, <2>10, <2>11
<1>4. 0 .. width \subseteq S
  <2> HIDE DEF S
  <2> QED BY <1>2, <1>3, Upwards
<1>5. width \in S
  BY <1>4
<1> QED BY <1>1, <1>5

-----------------------------------------------------------------------------
(***************************************************************************)
(* The values of leaves.                                                   *)
(***************************************************************************)
LEMMA BoundsFacts ==
  ASSUME NEW t \in LeafTypes
  PROVE  /\ LowerBound(t) \in Int /\ UpperBound(t) \in Int
         /\ t # "cmtype" => InBounds(t, 0)
<1>1. t \in Signed => t # "cmtype"
  BY DEF Signed
<1>2. t # "cmtype" => Half(t) \in Nat \ {0}
  BY HalfFacts
<1> QED BY <1>1, <1>2, TreeAssumption DEF LowerBound, UpperBound, InBounds

\* The number that all bytes of a value stand for is below the power of their count.
LEMMA RawIsBelow ==
  ASSUME NEW width \in Nat, NEW bytes, NEW offset, IsDigits(bytes, offset, width)
  PROVE  Raw(bytes, offset, width) \in 0 .. Power(width) - 1
<1>1. width \in 0 .. width
  OBVIOUS
<1> QED BY <1>1, RawRange, RawSteps

\* A value within the bounds of its type is read as it was written.
LEMMA GetStored ==
  ASSUME NEW t \in LeafTypes \ {"cmtype"}, NEW bytes, NEW offset, NEW n, InBounds(t, n),
         Holds(bytes, offset, Width(t), n)
  PROVE  GetValue(bytes, offset, t) = n
<1>1. /\ Width(t) \in Nat /\ Half(t) \in Nat \ {0} /\ 2 * Half(t) = Power(Width(t))
      /\ Power(Width(t)) \in Nat \ {0} /\ n \in Int
  BY HalfFacts, PowerFacts, BoundsFacts DEF InBounds
<1>2. PICK M \in Nat \ {0} : M = Power(Width(t))
  BY <1>1
<1>3. PICK h \in Nat \ {0} : h = Half(t) /\ M = 2 * h
  BY <1>1, <1>2
<1>4. Raw(bytes, offset, Width(t)) = n % M
  BY <1>1, <1>2, RawStored
<1>5. n \in 0 .. M - 1 => n % M = n
  <2> HAVE n \in 0 .. M - 1
  <2>1. (M * 0 + n) % M = n
    BY DivisionIs
  <2> QED BY <2>1
<1>6. CASE t \in Signed
  <2>1. n \in -h .. h - 1
    BY <1>3, <1>6 DEF InBounds, LowerBound, UpperBound
  <2>2. CASE n >= 0
    <3>1. n % M = n /\ n < h
      BY <1>3, <1>5, <2>1, <2>2
    <3> QED BY <1>3, <1>4, <2>1, <3>1 DEF GetValue
  <2>3. CASE n < 0
    <3>1. n + M \in 0 .. M - 1 /\ n = M * (-1) + (n + M) /\ n + M >= h
      BY <1>3, <2>1, <2>3
    <3>2. n % M = n + M
      <4>1. PICK r \in 0 .. M - 1 : r = n + M
        BY <3>1
      <4>2. PICK a \in Int : a = -1
        OBVIOUS
      <4>3. (M * a + r) % M = r
        BY DivisionIs
      <4> QED BY <3>1, <4>1, <4>2, <4>3
    <3>3. (n + M) - 2 * h = n
      BY <1>3, <2>1
    <3> QED BY <1>3, <1>4, <1>6, <3>1, <3>2, <3>3 DEF GetValue
  <2> QED BY <2>1, <2>2, <2>3
<1>7. CASE t \notin Signed
  <2>1. Width(t) = 1
    BY <1>7 DEF LeafTypes, Signed, Width
  <2>2. M = Radix
    <3>1. Power(0 + 1) = Radix * Power(0) /\ Power(0) = 1
      BY PowerFacts
    <3> QED BY <1>2, <2>1, <3>1, TreeAssumption
  <2>3. n \in 0 .. M - 1
    BY <1>7, <2>2, TreeAssumption DEF InBounds, LowerBound, UpperBound
  <2> QED BY <1>4, <1>5, <1>7, <2>3 DEF GetValue
<1> QED BY <1>6, <1>7

\* Two leaves of a type hold the same value when their bytes are the same.
LEMMA GetTells ==
  ASSUME NEW t \in LeafTypes \ {"cmtype"}, NEW b, NEW o, NEW c, NEW q,
         IsDigits(b, o, Width(t)), IsDigits(c, q, Width(t))
  PROVE  GetValue(b, o, t) = GetValue(c, q, t) <=> \A i \in 1 .. Width(t) : b[o + i] = c[q + i]
<1>1. Width(t) \in Nat /\ Half(t) \in Nat \ {0} /\ 2 * Half(t) = Power(Width(t))
  BY HalfFacts
<1>2. /\ Raw(b, o, Width(t)) \in 0 .. 2 * Half(t) - 1
      /\ Raw(c, q, Width(t)) \in 0 .. 2 * Half(t) - 1
  BY <1>1, RawIsBelow
<1>3. GetValue(b, o, t) = GetValue(c, q, t) <=> Raw(b, o, Width(t)) = Raw(c, q, Width(t))
  BY <1>1, <1>2 DEF GetValue
<1>4. Raw(b, o, Width(t)) = Raw(c, q, Width(t)) <=> \A i \in 1 .. Width(t) : b[o + i] = c[q + i]
  BY <1>1, RawTells
<1> QED BY <1>3, <1>4

-----------------------------------------------------------------------------
(***************************************************************************)
(* The payload of a state.  Its bytes are digits; a leaf holds a value of  *)
(* its type; what is no variable's value is never written.                 *)
(***************************************************************************)
Payload(s) == Whole(s.tree) /\ s.bytes \in [1 .. SizeOf(s.tree, 1) -> 0 .. Radix - 1]
Bounded(s) == \A j \in Leaves(s.tree) : InBounds(s.tree[j].type, Held(s, j))
Blank(s) == \A j \in DOMAIN s.tree \ Holders(s.tree) : \A b \in Span(s.tree, j) : s.bytes[b] = 0
LiveState(s) == Payload(s) /\ Bounded(s) /\ Blank(s)

\* The bytes of a thread are those of a pointer, those of a leaf the width of its type.
LEMMA HolderFacts ==
  ASSUME NEW v, Whole(v), NEW j \in Holders(v)
  PROVE  /\ j \in DOMAIN v /\ j \in 1 .. Len(v)
         /\ v[j].type \in Threads => v[j].type \notin LeafTypes /\ Own(v[j]) = Pointer
         /\ v[j].type \notin Threads => v[j].type \in LeafTypes /\ Own(v[j]) = Width(v[j].type)
         /\ Own(v[j]) \in Nat
<1>1. /\ j \in DOMAIN v /\ DOMAIN v = 1 .. Len(v) /\ Kinds(v) /\ v \in Seq(Nodes)
      /\ v[j].type \in LeafTypes \/ v[j].type \in Threads
  BY UntilFacts DEF Holders, Whole, Shaped, Kinds, IsLeaf
<1>2. v[j].type \in Threads => v[j].type \notin LeafTypes
  BY DEF Threads, LeafTypes
<1>3. v[j].type \in Threads => v[j].raw = Pointer
  <2> HAVE v[j].type \in Threads
  <2>1. v[j].raw \in RawBytes(v[j].type)
    BY <1>1, <1>2 DEF Kinds, IsLeaf
  <2>2. \A t \in Threads : RawBytes(t) = {Pointer}
    BY DEF RawBytes, Threads
  <2> QED BY <2>1, <2>2
<1>4. Own(v[j]) \in Nat
  BY <1>1, UntilFacts
<1> QED BY <1>1, <1>2, <1>3, <1>4 DEF Own, IsLeaf

\* The bytes of a variable are bytes of the payload.
LEMMA SpanFacts ==
  ASSUME NEW s, Payload(s), NEW j \in 1 .. Len(s.tree)
  PROVE  /\ Offset(s.tree, j) \in Nat /\ Own(s.tree[j]) \in Nat
         /\ Span(s.tree, j) = (Offset(s.tree, j) + 1) .. (Offset(s.tree, j) + Own(s.tree[j]))
         /\ Span(s.tree, j) \subseteq DOMAIN s.bytes
         /\ \A b \in Span(s.tree, j) : s.bytes[b] \in 0 .. Radix - 1
         /\ IsDigits(s.bytes, Offset(s.tree, j), Own(s.tree[j]))
         /\ \A i \in 1 .. Own(s.tree[j]) : Offset(s.tree, j) + i \in Span(s.tree, j)
<1> DEFINE v == s.tree
<1>1. Whole(v) /\ v \in Seq(Nodes) /\ j \in DOMAIN v /\ DOMAIN s.bytes = 1 .. SizeOf(v, 1)
  <2>1. Whole(v) /\ v \in Seq(Nodes) /\ DOMAIN s.bytes = 1 .. SizeOf(v, 1)
    BY DEF Payload, Whole, Shaped, Kinds
  <2> QED BY <2>1, UntilFacts
<1>2. Span(v, j) \subseteq 1 .. SizeOf(v, 1)
  BY <1>1, WholeTiled
<1>3. Offset(v, j) \in Nat /\ Own(v[j]) \in Nat
  <2>1. Offset(v, j) = Until(v, j - 1)
    BY <1>1, WholeOffsets
  <2>2. j - 1 \in 0 .. Len(v)
    BY <1>1
  <2> QED BY <1>1, <2>1, <2>2, UntilFacts
<1>4. \A b \in 1 .. SizeOf(v, 1) : s.bytes[b] \in 0 .. Radix - 1
  BY DEF Payload
<1>5. \A i \in 1 .. Own(v[j]) : Offset(v, j) + i \in Span(v, j)
  BY <1>3 DEF Span
<1> QED BY <1>1, <1>2, <1>3, <1>4, <1>5 DEF Span, IsDigits

\* Two states with the same variables hold the same in one exactly when its
\* bytes are the same.
LEMMA HeldTells ==
  ASSUME NEW s, NEW r, Payload(s), Payload(r), s.tree = r.tree, NEW j \in Holders(s.tree)
  PROVE  Held(s, j) = Held(r, j) <=> \A b \in Span(s.tree, j) : s.bytes[b] = r.bytes[b]
<1> DEFINE v == s.tree
           o == Offset(v, j)
           w == Own(v[j])
<1>1. Whole(v)
  BY DEF Payload
<1>2. /\ j \in 1 .. Len(v)
      /\ v[j].type \in Threads => w = Pointer
      /\ v[j].type \notin Threads => v[j].type \in LeafTypes /\ w = Width(v[j].type)
  BY <1>1, HolderFacts
<1>3. /\ o \in Nat /\ w \in Nat /\ Span(v, j) = (o + 1) .. (o + w)
      /\ IsDigits(s.bytes, o, w)
  BY <1>2, SpanFacts
<1>4. IsDigits(r.bytes, o, w)
  BY <1>2, SpanFacts
<1> HIDE DEF o, w
<1>5. (\A b \in Span(v, j) : s.bytes[b] = r.bytes[b]) <=> \A i \in 1 .. w : s.bytes[o + i] = r.bytes[o + i]
  <2>1. \A i \in 1 .. w : o + i \in Span(v, j)
    BY <1>3
  <2>2. \A b \in Span(v, j) : b - o \in 1 .. w /\ o + (b - o) = b
    BY <1>3
  <2> QED BY <2>1, <2>2
<1>6. CASE v[j].type \in Threads
  <2>1. Held(s, j) = Raw(s.bytes, o, w) /\ Held(r, j) = Raw(r.bytes, o, w)
    BY <1>2, <1>6 DEF Held, o
  <2>2. w \in Nat /\ IsDigits(s.bytes, o, w) /\ IsDigits(r.bytes, o, w)
    BY <1>3, <1>4
  <2>3. Raw(s.bytes, o, w) = Raw(r.bytes, o, w) <=> \A i \in 1 .. w : s.bytes[o + i] = r.bytes[o + i]
    BY <2>2, RawTells
  <2> QED BY <1>5, <2>1, <2>3
<1>7. CASE v[j].type = "cmtype"
  <2>1. w = 0
    BY <1>2, <1>7 DEF Threads, Width
  <2>2. Held(s, j) = Held(r, j)
    BY <1>7 DEF Held, Threads
  <2> QED BY <1>5, <2>1, <2>2
<1>8. CASE v[j].type \notin Threads /\ v[j].type # "cmtype"
  <2>1. /\ Held(s, j) = GetValue(s.bytes, o, v[j].type)
        /\ Held(r, j) = GetValue(r.bytes, o, v[j].type)
    BY <1>8 DEF Held, o
  <2>2. v[j].type \in LeafTypes \ {"cmtype"} /\ w = Width(v[j].type)
    BY <1>2, <1>8
  <2> QED BY <1>3, <1>4, <1>5, <2>1, <2>2, GetTells
<1> QED BY <1>6, <1>7, <1>8

\* What may be written to a variable: a node, or a value of its type.
Suits(x, n) ==
  /\ n \in Int
  /\ x.type \in Threads => n \in 0 .. Power(Pointer) - 1
  /\ x.type \notin Threads /\ x.type # "cmtype" => InBounds(x.type, n)

\* A variable whose bytes are the digits of a value holds that value.
LEMMA HeldStored ==
  ASSUME NEW s, Payload(s), NEW j \in Holders(s.tree), s.tree[j].type # "cmtype",
         NEW n, Suits(s.tree[j], n),
         \A b \in Span(s.tree, j) : s.bytes[b] = Digit(n, b - Offset(s.tree, j))
  PROVE  Held(s, j) = n
<1> DEFINE v == s.tree
           o == Offset(v, j)
           w == Own(v[j])
<1>1. Whole(v)
  BY DEF Payload
<1>2. /\ j \in 1 .. Len(v)
      /\ v[j].type \in Threads => w = Pointer
      /\ v[j].type \notin Threads => v[j].type \in LeafTypes /\ w = Width(v[j].type)
  BY <1>1, HolderFacts
<1>3. o \in Nat /\ w \in Nat /\ \A i \in 1 .. w : o + i \in Span(v, j)
  BY <1>2, SpanFacts
<1> HIDE DEF o, w
<1>4. Holds(s.bytes, o, w, n)
  <2>1. \A i \in 1 .. w : (o + i) - o = i
    BY <1>3
  <2>2. \A b \in Span(v, j) : s.bytes[b] = Digit(n, b - o)
    BY DEF o
  <2> QED BY <1>3, <2>1, <2>2 DEF Holds
<1>5. CASE v[j].type \in Threads
  <2>1. Held(s, j) = Raw(s.bytes, o, w)
    BY <1>2, <1>5 DEF Held, o
  <2>2. PICK M \in Nat \ {0} : M = Power(w)
    BY <1>3, PowerFacts
  <2>3. n \in 0 .. M - 1
    BY <1>2, <1>5, <2>2 DEF Suits
  <2>4. (M * 0 + n) % M = n
    BY <2>3, DivisionIs
  <2>5. n % M = n
    BY <2>3, <2>4
  <2>6. Raw(s.bytes, o, w) = n % Power(w)
    BY <1>3, <1>4, RawStored DEF Suits
  <2> QED BY <2>1, <2>2, <2>5, <2>6
<1>6. CASE v[j].type \notin Threads
  <2>1. Held(s, j) = GetValue(s.bytes, o, v[j].type)
    BY <1>6 DEF Held, o
  <2>2. v[j].type \in LeafTypes \ {"cmtype"} /\ w = Width(v[j].type) /\ InBounds(v[j].type, n)
    BY <1>2, <1>6 DEF Suits
  <2>3. Holds(s.bytes, o, Width(v[j].type), n)
    BY <1>4, <2>2
  <2>4. GetValue(s.bytes, o, v[j].type) = n
    BY <2>2, <2>3, GetStored
  <2> QED BY <2>1, <2>4
<1> QED BY <1>5, <1>6

\* A byte is written to with the variable it belongs to.
LEMMA PutBytes ==
  ASSUME NEW s, Payload(s), NEW values, DOMAIN values \subseteq 1 .. Len(s.tree)
  PROVE  /\ Put(s, values).tree = s.tree
         /\ Put(s, values).bytes = [b \in DOMAIN s.bytes |-> Put(s, values).bytes[b]]
         /\ \A j \in 1 .. Len(s.tree) : \A b \in Span(s.tree, j) :
              Put(s, values).bytes[b] =
                IF j \in DOMAIN values THEN Digit(values[j], b - Offset(s.tree, j)) ELSE s.bytes[b]
<1> DEFINE v == s.tree
           W(b) == {k \in DOMAIN values : b \in Span(v, k)}
<1>1. /\ Put(s, values).tree = s.tree
      /\ Put(s, values).bytes = [b \in DOMAIN s.bytes |-> Put(s, values).bytes[b]]
  BY DEF Put
<1>2. \A b \in DOMAIN s.bytes :
        Put(s, values).bytes[b] = IF W(b) = {} THEN s.bytes[b]
                                  ELSE Digit(values[Max(W(b))], b - Offset(v, Max(W(b))))
  BY DEF Put
<1>3. DOMAIN v = 1 .. Len(v) /\ \A i, k \in DOMAIN v : i # k => Span(v, i) \cap Span(v, k) = {}
  <2>1. Whole(v)
    BY DEF Payload
  <2> QED BY <2>1, WholeTiled, WholeLayout
<1>4. ASSUME NEW j \in 1 .. Len(v), NEW b \in Span(v, j)
      PROVE  Put(s, values).bytes[b] =
               IF j \in DOMAIN values THEN Digit(values[j], b - Offset(v, j)) ELSE s.bytes[b]
  <2>1. b \in DOMAIN s.bytes
    BY SpanFacts
  <2>2. \A k \in DOMAIN values : b \in Span(v, k) <=> k = j
    BY <1>3, <1>4
  <2>3. CASE j \in DOMAIN values
    <3>1. W(b) = {j}
      BY <2>2, <2>3
    <3>2. Max({j}) = j
      BY <1>4 DEF Max
    <3> QED BY <1>2, <2>1, <2>3, <3>1, <3>2
  <2>4. CASE j \notin DOMAIN values
    <3>1. W(b) = {}
      BY <2>2, <2>4
    <3> QED BY <1>2, <2>1, <2>4, <3>1
  <2> QED BY <2>3, <2>4
<1> QED BY <1>1, <1>4

\* What is written is held, and nothing else changes.
LEMMA PutHeld ==
  ASSUME NEW s, Payload(s), NEW values, DOMAIN values \subseteq Holders(s.tree),
         \A j \in DOMAIN values : Suits(s.tree[j], values[j])
  PROVE  /\ Put(s, values).tree = s.tree
         /\ Payload(Put(s, values))
         /\ Blank(s) => Blank(Put(s, values))
         /\ \A j \in Holders(s.tree) :
              Held(Put(s, values), j) =
                IF j \in DOMAIN values /\ s.tree[j].type # "cmtype" THEN values[j] ELSE Held(s, j)
<1> DEFINE v == s.tree
           r == Put(s, values)
<1>1. Whole(v) /\ s.bytes \in [1 .. SizeOf(v, 1) -> 0 .. Radix - 1]
  BY DEF Payload
<1>2. DOMAIN v = 1 .. Len(v) /\ UNION {Span(v, j) : j \in DOMAIN v} = DOMAIN s.bytes
  BY <1>1, WholeTiled, WholeLayout
<1>3. \A j \in Holders(v) : j \in 1 .. Len(v)
  BY <1>1, HolderFacts
<1>4. /\ r.tree = v
      /\ r.bytes = [b \in DOMAIN s.bytes |-> r.bytes[b]]
      /\ \A j \in 1 .. Len(v) : \A b \in Span(v, j) :
           r.bytes[b] = IF j \in DOMAIN values THEN Digit(values[j], b - Offset(v, j)) ELSE s.bytes[b]
  BY <1>3, PutBytes
<1> HIDE DEF r
<1>5. Payload(r)
  <2>1. ASSUME NEW b \in DOMAIN s.bytes
        PROVE  r.bytes[b] \in 0 .. Radix - 1
    <3>1. PICK j \in 1 .. Len(v) : b \in Span(v, j)
      BY <1>2
    <3>2. CASE j \in DOMAIN values
      <4>1. Offset(v, j) \in Nat /\ b \in (Offset(v, j) + 1) .. (Offset(v, j) + Own(v[j])) /\ Own(v[j]) \in Nat
        BY <3>1, SpanFacts
      <4>2. b - Offset(v, j) \in Nat \ {0}
        BY <4>1
      <4>3. values[j] \in Int
        BY <3>2 DEF Suits
      <4> QED BY <1>4, <3>1, <3>2, <4>2, <4>3, DigitRange
    <3>3. CASE j \notin DOMAIN values
      <4>1. r.bytes[b] = s.bytes[b]
        BY <1>4, <3>1, <3>3
      <4> QED BY <1>1, <4>1
    <3> QED BY <3>2, <3>3
  <2> QED BY <1>1, <1>4, <2>1 DEF Payload
<1>6. Blank(s) => Blank(r)
  <2> SUFFICES ASSUME Blank(s), NEW j \in DOMAIN v \ Holders(v), NEW b \in Span(v, j)
               PROVE  r.bytes[b] = 0
    BY <1>4 DEF Blank
  <2>1. r.bytes[b] = s.bytes[b]
    BY <1>2, <1>4
  <2> QED BY <2>1 DEF Blank
<1>7. ASSUME NEW j \in Holders(v)
      PROVE  Held(r, j) = IF j \in DOMAIN values /\ v[j].type # "cmtype" THEN values[j] ELSE Held(s, j)
  <2>1. CASE j \in DOMAIN values /\ v[j].type # "cmtype"
    <3>1. \A b \in Span(r.tree, j) : r.bytes[b] = Digit(values[j], b - Offset(r.tree, j))
      BY <1>3, <1>4, <2>1
    <3>2. Suits(r.tree[j], values[j]) /\ j \in Holders(r.tree) /\ r.tree[j].type # "cmtype"
      BY <1>4, <2>1
    <3> QED BY <1>5, <2>1, <3>1, <3>2, HeldStored
  <2>2. CASE v[j].type = "cmtype"
    BY <1>4, <2>2 DEF Held, Threads
  <2>3. CASE j \notin DOMAIN values
    <3>1. \A b \in Span(v, j) : s.bytes[b] = r.bytes[b]
      BY <1>3, <1>4, <2>3
    <3>2. Held(s, j) = Held(r, j)
      BY <1>4, <1>5, <3>1, HeldTells
    <3> QED BY <2>3, <3>2
  <2> QED BY <2>1, <2>2, <2>3
<1> QED BY <1>4, <1>5, <1>6, <1>7 DEF r

\* Writing values that suit their variables leads from a live state to another.
LEMMA PutLive ==
  ASSUME NEW s, Payload(s), Blank(s), NEW values, DOMAIN values \subseteq Holders(s.tree),
         \A j \in DOMAIN values : Suits(s.tree[j], values[j]),
         \A j \in Leaves(s.tree) \ DOMAIN values : InBounds(s.tree[j].type, Held(s, j))
  PROVE  LiveState(Put(s, values)) /\ Put(s, values).tree = s.tree
<1> DEFINE r == Put(s, values)
<1>1. /\ r.tree = s.tree /\ Payload(r) /\ Blank(r)
      /\ \A j \in Holders(s.tree) :
           Held(r, j) = IF j \in DOMAIN values /\ s.tree[j].type # "cmtype" THEN values[j] ELSE Held(s, j)
  BY PutHeld
<1> HIDE DEF r
<1>2. ASSUME NEW j \in Leaves(s.tree)
      PROVE  InBounds(s.tree[j].type, Held(r, j))
  <2>1. /\ j \in Holders(s.tree) /\ s.tree[j].type # "cmtype" /\ s.tree[j].type \in LeafTypes
    BY DEF Leaves, Holders, IsLeaf
  <2>2. s.tree[j].type \notin Threads
    BY <2>1 DEF LeafTypes, Threads
  <2>3. CASE j \in DOMAIN values
    BY <1>1, <2>1, <2>2, <2>3 DEF Suits
  <2>4. CASE j \notin DOMAIN values
    BY <1>1, <2>1, <2>4
  <2> QED BY <2>3, <2>4
<1>3. Bounded(r)
  BY <1>1, <1>2 DEF Bounded
<1> QED BY <1>1, <1>3 DEF LiveState, r

\* A pointer has room for no node and for the first one.
LEMMA NodesHeld == 0 \in 0 .. Power(Pointer) - 1 /\ StartNode \in 0 .. Power(Pointer) - 1
<1>1. Pointer - 1 \in Nat
  BY TreeAssumption
<1>2. PICK p \in Nat \ {0} : p = Power(Pointer - 1)
  BY <1>1, PowerFacts
<1>3. Power(Pointer) = Radix * p
  <2>1. Power((Pointer - 1) + 1) = Radix * Power(Pointer - 1)
    BY <1>1, PowerFacts
  <2>2. (Pointer - 1) + 1 = Pointer
    BY TreeAssumption
  <2> QED BY <1>2, <2>1, <2>2
<1>4. Radix * p >= 2
  BY <1>2, TreeAssumption
<1>5. Power(Pointer) \in Nat
  BY PowerFacts, TreeAssumption
<1> QED BY <1>3, <1>4, <1>5 DEF StartNode

\* The values declared can be held, when they are within their bounds.
LEMMA DeclaredSuits ==
  ASSUME NEW v, Whole(v), \A j \in Leaves(v) : InBounds(v[j].type, v[j].init)
  PROVE  /\ Payload(Cleared(v)) /\ Blank(Cleared(v)) /\ Cleared(v).tree = v
         /\ DOMAIN Declared(v) = Holders(v)
         /\ \A j \in Holders(v) : Suits(v[j], Declared(v)[j])
<1> DEFINE s == Cleared(v)
           values == Declared(v)
<1>1. Payload(s)
  BY TreeAssumption DEF Payload, Cleared
<1>2. Blank(s)
  <2> SUFFICES ASSUME NEW j \in DOMAIN v, NEW b \in Span(v, j)
               PROVE  s.bytes[b] = 0
    BY DEF Blank, Cleared
  <2>1. Span(v, j) \subseteq 1 .. SizeOf(v, 1)
    BY WholeTiled
  <2> QED BY <2>1 DEF Cleared
<1>3. DOMAIN values = Holders(v) /\ s.tree = v
  BY DEF Declared, Cleared
<1>4. ASSUME NEW j \in Holders(v)
      PROVE  Suits(v[j], values[j])
  <2>1. /\ j \in DOMAIN v /\ v \in Seq(Nodes) /\ DOMAIN v = 1 .. Len(v)
        /\ v[j].type \in Threads \/ (v[j].type \in LeafTypes /\ IsLeaf(v[j]))
    <3>1. v \in Seq(Nodes)
      BY DEF Whole, Shaped, Kinds
    <3>2. j \in DOMAIN v /\ (v[j].type \in Threads \/ IsLeaf(v[j]))
      BY DEF Holders
    <3>3. DOMAIN v = 1 .. Len(v)
      BY <3>1, UntilFacts
    <3> QED BY <3>1, <3>2, <3>3 DEF IsLeaf
  <2>2. v[j].init \in Int
    <3>1. v[j] \in Nodes
      BY ONLY <2>1
    <3> QED BY ONLY <3>1 DEF Nodes
  <2>3. CASE v[j].type \in Threads
    <3>1. values[j] = StartNode
      BY <2>3 DEF Declared
    <3> QED BY <2>3, <3>1, NodesHeld DEF Suits, StartNode
  <2>4. CASE v[j].type \notin Threads
    <3>1. values[j] = v[j].init
      BY <2>4 DEF Declared
    <3>2. v[j].type # "cmtype" => j \in Leaves(v)
      BY <2>1, <2>4 DEF Leaves
    <3> QED BY <2>2, <2>4, <3>1, <3>2 DEF Suits
  <2> QED BY <2>3, <2>4
<1> QED BY <1>1, <1>2, <1>3, <1>4

\* The state a search starts from is a live one.
LEMMA StartLive ==
  ASSUME NEW v, Whole(v), \A j \in Leaves(v) : InBounds(v[j].type, v[j].init)
  PROVE  LiveState(Start(v)) /\ Start(v).tree = v
<1>1. Leaves(v) \subseteq Holders(v)
  BY DEF Leaves, Holders
<1> QED BY <1>1, DeclaredSuits, PutLive DEF Start

\* A state starts with the values declared.
LEMMA StartValues ==
  ASSUME NEW v, Whole(v), \A j \in Leaves(v) : InBounds(v[j].type, v[j].init)
  PROVE  Values(Start(v)) = Declared(v)
<1> DEFINE s == Cleared(v)
           values == Declared(v)
<1>1. /\ Payload(s) /\ s.tree = v /\ DOMAIN values = Holders(v)
      /\ \A j \in Holders(v) : Suits(v[j], values[j])
  BY DeclaredSuits
<1>2. Start(v) = Put(s, values)
  BY DEF Start
<1> HIDE DEF s, values
<1>3. /\ Start(v).tree = v
      /\ \A j \in Holders(v) :
           Held(Start(v), j) = IF v[j].type # "cmtype" THEN values[j] ELSE Held(s, j)
  BY <1>1, <1>2, PutHeld
<1>4. ASSUME NEW j \in Holders(v)
      PROVE  Held(Start(v), j) = Declared(v)[j]
  <2>1. CASE v[j].type # "cmtype"
    BY <1>3, <2>1 DEF values
  <2>2. CASE v[j].type = "cmtype"
    BY <1>3, <2>2 DEF Held, Declared, Threads
  <2> QED BY <2>1, <2>2
<1> QED BY <1>3, <1>4 DEF Values, Declared

-----------------------------------------------------------------------------
(***************************************************************************)
(* The invariant.  While a tree is built, its variables fill it from the   *)
(* left; the states that live have the same tree, which is whole.          *)
(***************************************************************************)
OneComposite(v) == \A j \in DOMAIN v : v[j].type = "comp" => j = 1
InConstruction == (tree = <<>> /\ open = <<>>) \/ (Filling(tree, open) /\ OneComposite(tree) /\ DOMAIN states = {})
InUse ==
  /\ DOMAIN states \subseteq Handles /\ states = [h \in DOMAIN states |-> states[h]]
  /\ \A h \in DOMAIN states : LiveState(states[h]) /\ OneComposite(states[h].tree)
  /\ \A h, k \in DOMAIN states : states[h].tree = states[k].tree

IInv == aborted \in BOOLEAN /\ calls \in 0 .. MaxCalls /\ InConstruction /\ InUse

\* The invariant implies that what is held is within the bounds of its type.
LEMMA IInvTypes == IInv => TypeOK
<1> SUFFICES ASSUME IInv PROVE TypeOK
  OBVIOUS
<1>1. tree \in Seq(Nodes) /\ open \in Seq(DOMAIN tree)
  <2>1. CASE tree = <<>> /\ open = <<>>
    BY <2>1
  <2>2. CASE Filling(tree, open)
    <3>1. tree \in Seq(Nodes) /\ open \in Seq(1 .. Len(tree))
      BY <2>2 DEF Filling, Shaped, Kinds
    <3> QED BY <3>1, UntilFacts
  <2> QED BY <2>1, <2>2 DEF IInv, InConstruction
<1>2. ASSUME NEW h \in DOMAIN states
      PROVE  /\ states[h].tree \in Seq(Nodes)
             /\ states[h].bytes \in [1 .. SizeOf(states[h].tree, 1) -> 0 .. Radix - 1]
             /\ \A j \in Leaves(states[h].tree) : InBounds(states[h].tree[j].type, Held(states[h], j))
  BY DEF IInv, InUse, LiveState, Payload, Bounded, Whole, Shaped, Kinds
<1> QED BY <1>1, <1>2 DEF IInv, InUse, TypeOK

\* The invariant implies that every byte belongs to one variable.
LEMMA IInvTiled == IInv => Tiled
<1> SUFFICES ASSUME IInv, NEW h \in DOMAIN states
             PROVE  /\ UNION {Span(states[h].tree, j) : j \in DOMAIN states[h].tree} = DOMAIN states[h].bytes
                    /\ \A i, j \in DOMAIN states[h].tree :
                         i # j => Span(states[h].tree, i) \cap Span(states[h].tree, j) = {}
  BY DEF Tiled
<1>1. Whole(states[h].tree) /\ DOMAIN states[h].bytes = 1 .. SizeOf(states[h].tree, 1)
  BY DEF IInv, InUse, LiveState, Payload
<1> QED BY <1>1, WholeTiled

-----------------------------------------------------------------------------
(***************************************************************************)
(* Building keeps the invariant.                                           *)
(***************************************************************************)
LEMMA Uncomposed == \A v, i : ~Fits(v, i, "comp")
<1>1. \A t \in Types : t # "comp"
  BY TreeAssumption DEF LeafTypes
<1> QED BY <1>1 DEF Fits, States

\* What a constructor makes is fresh.
LEMMA FreshVariable ==
  /\ Fresh(Variable("comp", 0, 0))
  /\ \A t \in Compounds : \A raw \in RawBytes(t) : Fresh(Variable(t, raw, 0))
  /\ \A t \in LeafTypes : \A n \in Int : Fresh(Variable(t, 0, n))
<1>1. \A t : \A raw \in RawBytes(t) : raw \in Nat
  BY TreeAssumption DEF RawBytes
<1>2. \A t \in Compounds : t \notin LeafTypes
  BY DEF Compounds, LeafTypes
<1>3. RawBytes("comp") = {0}
  BY DEF RawBytes, Threads
<1>4. "comp" \in Compounds
  BY DEF Compounds
<1>5. ASSUME NEW t \in Compounds, NEW raw \in RawBytes(t)
      PROVE  Fresh(Variable(t, raw, 0))
  BY <1>1, <1>2 DEF Fresh, Variable, Nodes, IsLeaf
<1>6. ASSUME NEW t \in LeafTypes, NEW n \in Int
      PROVE  Fresh(Variable(t, 0, n))
  BY DEF Fresh, Variable, Nodes, IsLeaf
<1> QED BY <1>3, <1>4, <1>5, <1>6

\* Building starts within the invariant.
LEMMA InitIInv == Init => IInv
<1> SUFFICES ASSUME Init PROVE IInv
  OBVIOUS
<1>1. Filling(tree, open)
  BY FirstFilling, FreshVariable DEF Init
<1>2. OneComposite(tree)
  <2>1. DOMAIN tree = {1}
    BY DEF Init
  <2> QED BY <2>1 DEF OneComposite
<1>3. DOMAIN states = {} /\ states = [h \in DOMAIN states |-> states[h]]
  BY DEF Init
<1>4. aborted \in BOOLEAN
  BY DEF Init
<1>5. calls \in 0 .. MaxCalls
  BY TreeAssumption DEF Init
<1> QED BY <1>1, <1>2, <1>3, <1>4, <1>5 DEF IInv, InConstruction, InUse

\* A filling tree has a variable that is being filled.
LEMMA BuildingFills ==
  ASSUME IInv, Building
  PROVE  /\ Filling(tree, open) /\ OneComposite(tree) /\ DOMAIN states = {}
         /\ tree \in Seq(Nodes) /\ Len(tree) \in Nat /\ DOMAIN tree = 1 .. Len(tree)
         /\ open \in Seq(1 .. Len(tree)) /\ Len(open) \in Nat \ {0}
         /\ Top = open[Len(open)] /\ Top \in 1 .. Len(tree)
<1>1. Filling(tree, open) /\ OneComposite(tree) /\ DOMAIN states = {}
  BY DEF IInv, InConstruction, Building
<1>2. tree \in Seq(Nodes) /\ open \in Seq(1 .. Len(tree)) /\ Len(open) >= 1
  BY <1>1 DEF Filling, Shaped, Kinds
<1>3. Len(open) \in Nat \ {0}
  BY <1>2
<1>4. Top = open[Len(open)] /\ Top \in 1 .. Len(tree)
  BY <1>2 DEF Top, Last
<1> QED BY <1>1, <1>2, <1>3, <1>4, UntilFacts

\* Construct: the new variable is filled next.
LEMMA ConstructKeeps ==
  ASSUME IInv, NEW t \in Compounds, Construct(t)
  PROVE  InConstruction'
<1>1. /\ Filling(tree, open) /\ OneComposite(tree) /\ DOMAIN states = {}
      /\ tree \in Seq(Nodes) /\ Len(tree) \in Nat /\ DOMAIN tree = 1 .. Len(tree)
  BY BuildingFills DEF Construct
<1>2. PICK raw \in RawBytes(t) : tree' = Append(tree, Variable(t, raw, 0))
  BY DEF Construct
<1>3. open' = Append(open, Len(tree) + 1) /\ states' = states /\ t # "comp"
  BY Uncomposed DEF Construct, Building
<1>4. Fresh(Variable(t, raw, 0))
  BY FreshVariable
<1>5. Filling(tree', open')
  BY <1>1, <1>2, <1>3, <1>4, PushFilling
<1>6. OneComposite(tree')
  <2>1. \A j \in DOMAIN tree' : (j \in DOMAIN tree /\ tree'[j] = tree[j]) \/ tree'[j] = Variable(t, raw, 0)
    BY <1>1, <1>2
  <2> QED BY <1>1, <1>3, <2>1 DEF OneComposite, Variable
<1> QED BY <1>1, <1>3, <1>5, <1>6 DEF InConstruction

\* Attaching a part changes no type.
LEMMA AddVariableSame ==
  ASSUME NEW v \in Seq(Nodes), NEW i, NEW j
  PROVE  /\ DOMAIN AddVariable(v, i, j) = DOMAIN v
         /\ OneComposite(v) => OneComposite(AddVariable(v, i, j))
<1>1. /\ DOMAIN AddVariable(v, i, j) = DOMAIN v
      /\ \A k \in DOMAIN v : k # j => AddVariable(v, i, j)[k] = v[k]
      /\ j \in DOMAIN v => AddVariable(v, i, j)[j] = [v[j] EXCEPT !.parent = i, !.offset = EndOffset(v, i)]
  BY DEF AddVariable
<1>2. ASSUME NEW k \in DOMAIN v, AddVariable(v, i, j)[k].type = "comp", OneComposite(v)
      PROVE  k = 1
  <2>1. CASE k # j
    BY <1>1, <1>2, <2>1 DEF OneComposite
  <2>2. CASE k = j
    <3>1. v[j] \in Nodes
      BY <2>2
    <3>2. AddVariable(v, i, j)[j].type = v[j].type
      BY <1>1, <2>2, <3>1 DEF Nodes
    <3> QED BY <1>2, <2>2, <3>2 DEF OneComposite
  <2> QED BY <2>1, <2>2
<1> QED BY <1>1, <1>2 DEF OneComposite

\* Removing what was appended.
LEMMA FrontAppend ==
  ASSUME NEW S, NEW o \in Seq(S), NEW x \in S
  PROVE  Front(Append(o, x)) = o
<1> DEFINE p == Append(o, x)
<1>1. p \in Seq(S) /\ Len(p) = Len(o) + 1 /\ Len(o) \in Nat
  OBVIOUS
<1>2. \A i \in 1 .. Len(o) : p[i] = o[i]
  OBVIOUS
<1>3. Front(p) = SubSeq(p, 1, Len(o))
  BY <1>1 DEF Front
<1>4. Len(SubSeq(p, 1, Len(o))) = Len(o) /\ SubSeq(p, 1, Len(o)) \in Seq(S)
  BY <1>1
<1>5. \A i \in 1 .. Len(o) : SubSeq(p, 1, Len(o))[i] = o[i]
  BY <1>1, <1>2
<1>6. SubSeq(p, 1, Len(o)) = o
  <2> HIDE DEF p
  <2> QED BY <1>4, <1>5
<1> QED BY <1>3, <1>6

\* Declare: a leaf is constructed and attached at once.
LEMMA DeclareKeeps ==
  ASSUME IInv, NEW t \in Types, Declare(t)
  PROVE  InConstruction'
<1>1. /\ Filling(tree, open) /\ OneComposite(tree) /\ DOMAIN states = {}
      /\ tree \in Seq(Nodes) /\ Len(tree) \in Nat /\ DOMAIN tree = 1 .. Len(tree)
      /\ open \in Seq(1 .. Len(tree)) /\ Len(open) \in Nat \ {0} /\ Top = open[Len(open)]
  BY BuildingFills DEF Declare
<1>2. PICK n \in Inits(t) : tree' = AddVariable(Append(tree, Variable(t, 0, n)), Top, Len(tree) + 1)
  BY DEF Declare
<1> DEFINE x == Variable(t, 0, n)
           v == Append(tree, x)
           o == Append(open, Len(tree) + 1)
<1>3. open' = open /\ states' = states
  BY DEF Declare, Building
<1>4. t \in LeafTypes /\ t # "comp" /\ t # "prog"
  BY TreeAssumption DEF LeafTypes
<1>5. n \in Int
  BY <1>4, BoundsFacts DEF Inits
<1>6. Fresh(x) /\ x \in Nodes /\ x.type = t
  BY <1>4, <1>5, FreshVariable DEF Fresh, Variable
<1> HIDE DEF x
<1>7. Filling(v, o)
  BY <1>1, <1>6, PushFilling
<1>8. v \in Seq(Nodes) /\ OneComposite(v) /\ v[Len(tree) + 1] = x
  <2>1. v \in Seq(Nodes) /\ DOMAIN v = 1 .. Len(tree) + 1 /\ v[Len(tree) + 1] = x
    BY <1>1, <1>6
  <2>2. \A j \in 1 .. Len(tree) : v[j] = tree[j]
    BY <1>1, <1>6
  <2>3. \A j \in DOMAIN v : j \in 1 .. Len(tree) \/ j = Len(tree) + 1
    BY <1>1, <2>1
  <2> HIDE DEF v
  <2> QED BY <1>1, <1>4, <1>6, <2>1, <2>2, <2>3 DEF OneComposite
<1>9. Len(o) > 1 /\ o[Len(o)] = Len(tree) + 1 /\ o[Len(o) - 1] = Top /\ Front(o) = open
  <2>1. open \in Seq(1 .. Len(tree) + 1) /\ Len(tree) + 1 \in 1 .. Len(tree) + 1
    BY <1>1
  <2>2. Front(o) = open
    BY <2>1, FrontAppend
  <2>3. Len(o) = Len(open) + 1 /\ o[Len(open) + 1] = Len(tree) + 1 /\ o[Len(open)] = open[Len(open)]
    BY <1>1
  <2> QED BY <1>1, <2>2, <2>3
<1> HIDE DEF v, o
<1>10. Filling(AddVariable(v, Top, Len(tree) + 1), open)
  <2>1. v[Len(tree) + 1].type # "prog"
    BY <1>4, <1>6, <1>8
  <2> QED BY <1>7, <1>9, <2>1, JoinFilling
<1>11. tree' = AddVariable(v, Top, Len(tree) + 1)
  BY <1>2 DEF v, x
<1>12. OneComposite(tree')
  BY <1>8, <1>11, AddVariableSame
<1> QED BY <1>1, <1>3, <1>10, <1>11, <1>12 DEF InConstruction

\* A variable that has a size contains one that has bytes of its own.
LEMMA SizeOccupied ==
  ASSUME NEW v \in Seq(Nodes), NEW i, SizeOf(v, i) > 0
  PROVE  \E k \in 1 .. Len(v) : i \in Above(v, k) /\ Own(v[k]) > 0
<1> DEFINE w == [j \in DOMAIN v |-> IF j \in Within(v, i) THEN Own(v[j]) ELSE 0]
<1>1. DOMAIN v = 1 .. Len(v) /\ Len(v) \in Nat /\ \A j \in 1 .. Len(v) : Own(v[j]) \in Nat
  BY UntilFacts
<1>2. Naturals(w, Len(v))
  BY <1>1 DEF Naturals
<1>3. Total(w, Len(v)) > 0
  BY DEF SizeOf, Bytes
<1>4. \A k \in 1 .. Len(v) : w[k] > 0 => k \in Within(v, i) /\ Own(v[k]) > 0
  BY <1>1
<1> HIDE DEF w
<1>5. PICK k \in 1 .. Len(v) : w[k] > 0
  BY <1>1, <1>2, <1>3, TotalPositive
<1> QED BY <1>4, <1>5 DEF Within

\* Attach: the innermost variable joins its parent, which was filled before it.
LEMMA AttachKeeps ==
  ASSUME IInv, Attach
  PROVE  InConstruction'
<1>1. /\ Filling(tree, open) /\ OneComposite(tree) /\ DOMAIN states = {}
      /\ tree \in Seq(Nodes) /\ Top = open[Len(open)]
  BY BuildingFills DEF Attach
<1>2. /\ Len(open) > 1 /\ SizeOf(tree, Top) > 0 /\ states' = states
      /\ tree' = AddVariable(tree, open[Len(open) - 1], Top) /\ open' = Front(open)
  BY DEF Attach, Building
<1>3. \E k \in 1 .. Len(tree) : Top \in Above(tree, k) /\ Own(tree[k]) > 0
  BY <1>1, <1>2, SizeOccupied
<1>4. Filling(tree', open')
  BY <1>1, <1>2, <1>3, JoinFilling
<1>5. OneComposite(tree')
  BY <1>1, <1>2, AddVariableSame
<1> QED BY <1>1, <1>2, <1>4, <1>5 DEF InConstruction

\* Load: the tree is whole, and the state made of it is a live one.
LEMMA LoadKeeps ==
  ASSUME IInv, NEW h \in Handles, Load(h)
  PROVE  InConstruction' /\ InUse'
<1>1. open # <<>> /\ Len(open) = 1
  BY DEF Load
<1>2. Filling(tree, open) /\ OneComposite(tree) /\ DOMAIN states = {}
  BY <1>1 DEF IInv, InConstruction
<1>3. InConstruction'
  BY DEF Load, InConstruction
<1>4. CASE \E j \in Leaves(tree) : ~InBounds(tree[j].type, tree[j].init)
  <2>1. states' = states
    BY <1>4 DEF Load, Abort
  <2> QED BY <1>3, <2>1 DEF IInv, InUse
<1>5. CASE ~ \E j \in Leaves(tree) : ~InBounds(tree[j].type, tree[j].init)
  <2>1. states' = [k \in {h} |-> Start(tree)]
    BY <1>5 DEF Load
  <2>2. LiveState(Start(tree)) /\ Start(tree).tree = tree
    BY <1>1, <1>2, <1>5, FilledIsWhole, StartLive
  <2> QED BY <1>2, <1>3, <2>1, <2>2 DEF InUse
<1> QED BY <1>4, <1>5

-----------------------------------------------------------------------------
(***************************************************************************)
(* Calls on the states keep the invariant.                                 *)
(***************************************************************************)
LEMMA CallingKeeps ==
  ASSUME IInv, Calling
  PROVE  InConstruction' /\ calls' \in 0 .. MaxCalls
<1>1. open = <<>> /\ tree' = tree /\ open' = open
  BY DEF Calling
<1>2. tree = <<>>
  <2> SUFFICES ASSUME Filling(tree, open) PROVE FALSE
    BY DEF IInv, InConstruction
  <2>1. Len(open) >= 1
    BY DEF Filling
  <2> QED BY <1>1, <2>1
<1>3. calls' \in 0 .. MaxCalls
  BY TreeAssumption DEF Calling, IInv
<1> QED BY <1>1, <1>2, <1>3 DEF InConstruction

\* One state becomes another with the same variables.
LEMMA ReplacedKeeps ==
  ASSUME InUse, NEW h \in DOMAIN states, NEW r, LiveState(r), r.tree = states[h].tree,
         states' = [states EXCEPT ![h] = r]
  PROVE  InUse'
<1>1. /\ DOMAIN states' = DOMAIN states
      /\ \A k \in DOMAIN states : states'[k] = IF k = h THEN r ELSE states[k]
      /\ states' = [k \in DOMAIN states' |-> states'[k]]
  OBVIOUS
<1>2. \A k \in DOMAIN states : states'[k].tree = states[k].tree /\ LiveState(states'[k])
  BY <1>1 DEF InUse
<1> QED BY <1>1, <1>2 DEF InUse

\* Writing values that suit their variables keeps what holds of the states in use.
LEMMA PutKeeps ==
  ASSUME InUse, NEW h \in DOMAIN states, NEW values, DOMAIN values \subseteq Holders(states[h].tree),
         \A j \in DOMAIN values : Suits(states[h].tree[j], values[j]),
         states' = [states EXCEPT ![h] = Put(states[h], values)]
  PROVE  InUse'
<1>1. Payload(states[h]) /\ Blank(states[h]) /\ Bounded(states[h])
  BY DEF InUse, LiveState
<1>2. LiveState(Put(states[h], values)) /\ Put(states[h], values).tree = states[h].tree
  BY <1>1, PutLive DEF Bounded
<1> QED BY <1>2, ReplacedKeeps

\* Write.
LEMMA WriteKeeps ==
  ASSUME InUse, NEW h \in DOMAIN states, NEW j \in Holders(states[h].tree), NEW n,
         Suits(states[h].tree[j], n), Write(h, j, n)
  PROVE  InUse' /\ aborted' = aborted
<1> DEFINE values == [k \in {j} |-> n]
<1>1. states' = [states EXCEPT ![h] = Put(states[h], values)] /\ aborted' = aborted
  BY DEF Write
<1>2. DOMAIN values = {j} /\ values[j] = n
  OBVIOUS
<1> HIDE DEF values
<1> QED BY <1>1, <1>2, PutKeeps

\* A failed assertion changes no state.
LEMMA AbortKeeps ==
  ASSUME InUse, Abort
  PROVE  InUse' /\ aborted' \in BOOLEAN
BY DEF Abort, InUse

\* A value within the bounds of its type suits a leaf.
LEMMA LeafSuits ==
  ASSUME NEW v, NEW j \in Leaves(v), NEW n, InBounds(v[j].type, n)
  PROVE  j \in Holders(v) /\ Suits(v[j], n)
<1>1. j \in Holders(v) /\ v[j].type \in LeafTypes
  BY DEF Leaves, Holders, IsLeaf
<1>2. v[j].type \notin Threads
  BY <1>1 DEF LeafTypes, Threads
<1>3. n \in Int
  BY <1>1, BoundsFacts DEF InBounds
<1> QED BY <1>1, <1>2, <1>3 DEF Suits

\* setValue: only a value within bounds is written.
LEMMA SetValueKeeps ==
  ASSUME IInv, NEW h \in DOMAIN states, NEW j \in Leaves(states[h].tree), NEW n, SetValue(h, j, n)
  PROVE  InUse' /\ aborted' \in BOOLEAN
<1>1. InUse /\ aborted \in BOOLEAN
  BY DEF IInv
<1>2. CASE InBounds(states[h].tree[j].type, n)
  <2>1. Write(h, j, n)
    BY <1>2 DEF SetValue
  <2> QED BY <1>1, <1>2, <2>1, LeafSuits, WriteKeeps
<1>3. CASE ~InBounds(states[h].tree[j].type, n)
  <2>1. Abort
    BY <1>3 DEF SetValue
  <2> QED BY <1>1, <2>1, AbortKeeps
<1> QED BY <1>2, <1>3

\* At a bound, ++ and -- change nothing.
LEMMA SameKeeps ==
  ASSUME IInv, Same
  PROVE  InUse' /\ aborted' \in BOOLEAN
BY DEF Same, IInv, InUse

\* Assign.
LEMMA AssignKeeps ==
  ASSUME IInv, NEW h \in Handles, Assign(h)
  PROVE  InUse' /\ aborted' \in BOOLEAN
<1>1. PICK j \in Leaves(states[h].tree) : \E n \in Probes(states[h].tree[j].type) : SetValue(h, j, n)
  BY DEF Assign
<1>2. h \in DOMAIN states
  BY DEF Assign, Live
<1> QED BY <1>1, <1>2, SetValueKeeps

\* operator++.
LEMMA IncrementKeeps ==
  ASSUME IInv, NEW h \in Handles, Increment(h)
  PROVE  InUse' /\ aborted' \in BOOLEAN
<1>1. h \in DOMAIN states
  BY DEF Increment, Live
<1>2. PICK j \in Leaves(states[h].tree) : (\E n : SetValue(h, j, n)) \/ Abort \/ Same
  BY DEF Increment
<1> QED BY <1>1, <1>2, SetValueKeeps, AbortKeeps, SameKeeps DEF IInv

\* operator--, whichever way the test of an int at its lower bound goes.
LEMMA DecrementKeeps ==
  ASSUME IInv, NEW h \in Handles, Decrement(h)
  PROVE  InUse' /\ aborted' \in BOOLEAN
<1>1. h \in DOMAIN states
  BY DEF Decrement, Live
<1>2. PICK j \in Leaves(states[h].tree) : (\E n : SetValue(h, j, n)) \/ Abort \/ Same
  BY DEF Decrement
<1> QED BY <1>1, <1>2, SetValueKeeps, AbortKeeps, SameKeeps DEF IInv

\* setFsmNodePointer: a pointer is not a leaf.
LEMMA SetFsmNodePointerKeeps ==
  ASSUME IInv, NEW h \in Handles, SetFsmNodePointer(h)
  PROVE  InUse' /\ aborted' \in BOOLEAN
<1>1. h \in DOMAIN states /\ InUse /\ aborted \in BOOLEAN
  BY DEF SetFsmNodePointer, Live, IInv
<1>2. PICK j \in Holders(states[h].tree) :
        /\ states[h].tree[j].type \in Threads
        /\ \E n \in {0, Power(Pointer) - 1} : Write(h, j, n)
  BY DEF SetFsmNodePointer
<1>3. PICK n \in {0, Power(Pointer) - 1} : Write(h, j, n)
  BY <1>2
<1>4. Power(Pointer) \in Nat \ {0} /\ "cmtype" \notin Threads
  BY PowerFacts, TreeAssumption DEF Threads
<1>5. Suits(states[h].tree[j], n)
  BY <1>2, <1>4, NodesHeld DEF Suits
<1> QED BY <1>1, <1>3, <1>5, WriteKeeps

\* The fields of a channel are leaves that may hold 0.
LEMMA FieldsFacts ==
  ASSUME NEW v, NEW c, NEW j \in Fields(v, c)
  PROVE  j \in Holders(v) /\ v[j].type # "cmtype" /\ v[j].type \in LeafTypes /\ Suits(v[j], 0)
<1>1. j \in Leaves(v) /\ v[j].type \in LeafTypes /\ v[j].type # "cmtype"
  BY DEF Fields, Leaves, IsLeaf
<1>2. InBounds(v[j].type, 0)
  BY <1>1, BoundsFacts
<1> QED BY <1>1, <1>2, LeafSuits

\* reset: the fields of the channel are 0, the rest is as it was.
LEMMA ResetKeeps ==
  ASSUME IInv, NEW h \in Handles, Reset(h)
  PROVE  InUse' /\ aborted' \in BOOLEAN
<1>1. h \in DOMAIN states /\ InUse /\ aborted \in BOOLEAN
  BY DEF Reset, Live, IInv
<1>2. PICK c \in DOMAIN states[h].tree :
        Clear(h, c, Put(states[h], [j \in Fields(states[h].tree, c) |-> 0]))
  BY DEF Reset
<1> DEFINE values == [j \in Fields(states[h].tree, c) |-> 0]
<1>3. states' = [states EXCEPT ![h] = Put(states[h], values)] /\ aborted' = aborted
  BY <1>2 DEF Clear
<1>4. /\ DOMAIN values \subseteq Holders(states[h].tree)
      /\ \A j \in DOMAIN values : Suits(states[h].tree[j], values[j])
  BY FieldsFacts
<1> HIDE DEF values
<1> QED BY <1>1, <1>3, <1>4, PutKeeps

\* deepCopy: the copy has the offsets of its original, and its bytes.
LEMMA DeepCopyKeeps ==
  ASSUME IInv, NEW h \in Handles, NEW k \in Handles, DeepCopy(h, k)
  PROVE  InUse' /\ aborted' \in BOOLEAN
<1>1. h \in DOMAIN states /\ k \notin DOMAIN states /\ InUse /\ aborted \in BOOLEAN
  BY DEF DeepCopy, Live, IInv
<1> DEFINE r == [tree |-> Copied(states[h].tree), bytes |-> states[h].bytes]
<1>2. states' = [x \in DOMAIN states \cup {k} |-> IF x = k THEN r ELSE states[x]] /\ aborted' = aborted
  BY DEF DeepCopy
<1>3. LiveState(states[h]) /\ Whole(states[h].tree)
  BY <1>1 DEF InUse, LiveState, Payload
<1>4. r.tree = states[h].tree /\ r.bytes = states[h].bytes
  BY <1>3, WholeCopied
<1> HIDE DEF r
<1>5. LiveState(r)
  <2>1. \A j : Held(r, j) = Held(states[h], j)
    BY <1>4 DEF Held
  <2> QED BY <1>3, <1>4, <2>1 DEF LiveState, Payload, Bounded, Blank
<1>6. /\ DOMAIN states' = DOMAIN states \cup {k}
      /\ \A x \in DOMAIN states' : states'[x] = IF x = k THEN r ELSE states[x]
      /\ states' = [x \in DOMAIN states' |-> states'[x]]
  BY <1>2
<1>7. ASSUME NEW x \in DOMAIN states'
      PROVE  /\ LiveState(states'[x]) /\ states'[x].tree = states[h].tree
             /\ OneComposite(states'[x].tree)
  BY <1>1, <1>4, <1>5, <1>6 DEF InUse
<1>8. DOMAIN states' \subseteq Handles
  BY <1>1, <1>6 DEF InUse
<1>9. \A x, y \in DOMAIN states' : states'[x].tree = states'[y].tree
  BY <1>7
<1>10. aborted' \in BOOLEAN
  BY <1>1, <1>2
<1>11. InUse'
  BY <1>6, <1>7, <1>8, <1>9 DEF InUse
<1> QED BY <1>10, <1>11

\* A state that is deleted takes nothing from the others.
LEMMA DeleteKeeps ==
  ASSUME IInv, NEW h \in Handles, Delete(h)
  PROVE  InUse' /\ aborted' \in BOOLEAN
<1>1. states' = [x \in DOMAIN states \ {h} |-> states[x]] /\ aborted' = aborted
  BY DEF Delete, Restrict
<1>2. DOMAIN states' = DOMAIN states \ {h} /\ \A x \in DOMAIN states' : states'[x] = states[x]
  BY <1>1
<1>3. states' = [x \in DOMAIN states' |-> states'[x]]
  BY <1>1
<1> QED BY <1>1, <1>2, <1>3 DEF IInv, InUse

\* Every call on a state keeps the invariant.
LEMMA UseKeeps ==
  ASSUME IInv, NEW h \in Handles, Use(h)
  PROVE  IInv'
<1>1. InUse' /\ aborted' \in BOOLEAN
  BY AssignKeeps, IncrementKeeps, DecrementKeeps, SetFsmNodePointerKeeps, ResetKeeps, DeleteKeeps,
     DeepCopyKeeps DEF Use
<1>2. Calling
  BY DEF Use, Assign, Increment, Decrement, SetFsmNodePointer, Reset, Delete, DeepCopy
<1> QED BY <1>1, <1>2, CallingKeeps DEF IInv

\* Every step of the construction keeps the invariant.
LEMMA BuildKeeps ==
  ASSUME IInv, Build
  PROVE  IInv'
<1>1. InConstruction'
  BY ConstructKeeps, DeclareKeeps, AttachKeeps DEF Build
<1>2. UNCHANGED <<states, calls, aborted>>
  BY DEF Build, Construct, Declare, Attach, Building
<1> QED BY <1>1, <1>2 DEF IInv, InUse

\* The invariant is inductive.
LEMMA NextIInv ==
  ASSUME IInv, [Next]_vars
  PROVE  IInv'
<1>1. CASE Build
  BY <1>1, BuildKeeps
<1>2. ASSUME NEW h \in Handles, Load(h)
      PROVE  IInv'
  <2>1. InConstruction' /\ InUse'
    BY <1>2, LoadKeeps
  <2>2. calls' = calls /\ aborted' \in BOOLEAN
    BY <1>2 DEF Load, Abort, IInv
  <2> QED BY <2>1, <2>2 DEF IInv
<1>3. ASSUME NEW h \in Handles, Use(h)
      PROVE  IInv'
  BY <1>3, UseKeeps
<1>4. CASE UNCHANGED vars
  BY <1>4 DEF vars, IInv, InConstruction, InUse
<1> QED BY <1>1, <1>2, <1>3, <1>4 DEF Next

\* initState builds whole trees, and the states in use are live: the invariant
\* of every run of VariableTree.
THEOREM Invariant == Spec => []IInv
<1>1. Init => IInv
  BY InitIInv
<1>2. IInv /\ [Next]_vars => IInv'
  BY NextIInv
<1> QED BY <1>1, <1>2, PTL DEF Spec

\* Every leaf of every live state holds a value within the bounds of its type,
\* whatever is assigned, counted, reset or copied (setValue, ++, --).
THEOREM TypeCorrect == Spec => []TypeOK
<1>1. IInv => TypeOK
  BY IInvTypes
<1> QED BY <1>1, Invariant, PTL

\* Every byte of a payload belongs to exactly one variable, however the tree
\* was built (setParent, getOffset, getEndOffset).
THEOREM TiledCorrect == Spec => []Tiled
<1>1. IInv => Tiled
  BY IInvTiled
<1> QED BY <1>1, Invariant, PTL

-----------------------------------------------------------------------------
(***************************************************************************)
(* The part of the payload a hash sees.                                    *)
(***************************************************************************)
LEMMA SliceSpans ==
  ASSUME NEW v, Whole(v), NEW i \in 1 .. Len(v)
  PROVE  /\ Offset(v, i) \in Nat /\ SizeOf(v, i) \in Nat
         /\ \A b \in 1 .. SizeOf(v, i) : \E j \in Within(v, i) : Offset(v, i) + b \in Span(v, j)
         /\ \A j \in Within(v, i) : j \in 1 .. Len(v)
         /\ \A j \in Within(v, i) : \A b \in Span(v, j) : b - Offset(v, i) \in 1 .. SizeOf(v, i) /\ b \in Nat
<1> DEFINE n == Len(v)
           U(k) == Until(v, k)
           o == Offset(v, i)
<1>1. v \in Seq(Nodes) /\ Kinds(v) /\ Preorder(v)
  BY DEF Whole, Shaped, Kinds
<1>2. PICK e \in i .. n : Within(v, i) = i .. e /\ SizeOf(v, i) = U(e) - U(i - 1)
  BY <1>1, SizeBetween
<1>3. n \in Nat /\ \A k \in 0 .. n : U(k) \in Nat
  BY <1>1, UntilFacts
<1>4. \A k, l \in 0 .. n : k <= l => U(k) <= U(l)
  BY <1>1, UntilFacts
<1>5. o = U(i - 1)
  BY WholeOffsets
<1>6. \A j \in 1 .. n : Span(v, j) = (U(j - 1) + 1) .. U(j)
  BY WholeLayout
<1> HIDE DEF o, U, n
<1>7. i \in 1 .. n /\ i - 1 \in 0 .. n /\ e \in 0 .. n /\ i - 1 <= e
  BY <1>2, <1>3 DEF n
<1>8. U(i - 1) \in Nat /\ U(e) \in Nat /\ U(i - 1) <= U(e)
  BY <1>3, <1>4, <1>7
<1>9. SizeOf(v, i) \in Nat /\ o \in Nat
  BY <1>2, <1>5, <1>8
<1>10. ASSUME NEW b \in 1 .. SizeOf(v, i)
       PROVE  \E j \in i .. e : o + b \in (U(j - 1) + 1) .. U(j)
  <2> DEFINE S == {k \in 0 .. e : k >= i => U(k) < o + b}
  <2>1. SUFFICES ASSUME \A j \in i .. e : o + b \notin (U(j - 1) + 1) .. U(j)
                 PROVE  FALSE
    OBVIOUS
  <2>2. 0 \in S
    BY <1>7
  <2>3. ASSUME NEW k \in 0 .. e - 1, k \in S
        PROVE  k + 1 \in S
    <3>1. k + 1 \in 0 .. e /\ k \in 0 .. n /\ k + 1 \in 0 .. n
      BY <1>7, <1>3
    <3>2. CASE k + 1 < i
      BY <3>1, <3>2
    <3>3. CASE k + 1 >= i
      <4>1. k + 1 \in i .. e /\ (k + 1) - 1 = k
        BY <3>1, <3>3, <1>7
      <4>2. o + b \notin (U(k) + 1) .. U(k + 1)
        BY <2>1, <4>1
      <4>3. U(k) < o + b
        <5>1. CASE k >= i
          BY <2>3, <5>1
        <5>2. CASE k < i
          <6>1. k = i - 1
            BY <1>7, <3>1, <3>3, <5>2
          <6> QED BY <1>5, <1>9, <6>1
        <5> QED BY <1>7, <3>1, <5>1, <5>2
      <4>4. U(k) \in Nat /\ U(k + 1) \in Nat /\ o + b \in Nat
        BY <1>3, <1>9, <3>1
      <4>5. U(k + 1) < o + b
        BY <4>2, <4>3, <4>4
      <4> QED BY <3>1, <4>5
    <3> QED BY <1>7, <3>1, <3>2, <3>3
  <2>4. 0 .. e \subseteq S
    <3> HIDE DEF S
    <3>1. e \in Nat
      BY <1>7
    <3> QED BY <2>2, <2>3, <3>1, Upwards
  <2>5. U(e) < o + b
    <3>1. e \in 0 .. e /\ e >= i
      BY <1>2, <1>7
    <3> QED BY <2>4, <3>1
  <2> QED BY <1>2, <1>5, <1>8, <1>9, <2>5
<1>11. ASSUME NEW j \in i .. e, NEW b \in (U(j - 1) + 1) .. U(j)
       PROVE  b - o \in 1 .. SizeOf(v, i) /\ b \in Nat
  <2>1. j - 1 \in 0 .. n /\ j \in 0 .. n /\ i - 1 <= j - 1 /\ j <= e
    BY <1>3, <1>7
  <2>2. U(j - 1) \in Nat /\ U(j) \in Nat /\ U(i - 1) <= U(j - 1) /\ U(j) <= U(e)
    BY <1>3, <1>4, <1>7, <2>1
  <2> QED BY <1>2, <1>5, <1>8, <2>2
<1>12. \A j \in i .. e : j \in 1 .. n
  BY <1>3, <1>7
<1>13. /\ \A b \in 1 .. SizeOf(v, i) : \E j \in Within(v, i) : o + b \in Span(v, j)
       /\ \A j \in Within(v, i) : j \in 1 .. n
       /\ \A j \in Within(v, i) : \A b \in Span(v, j) : b - o \in 1 .. SizeOf(v, i) /\ b \in Nat
  <2>1. Within(v, i) = i .. e
    BY <1>2
  <2> QED BY <1>6, <1>10, <1>11, <1>12, <2>1
<1> QED BY <1>9, <1>13 DEF o, n

\* Among the parts that are hashed alone, only the whole can be empty.
LEMMA PartsHaveSize ==
  ASSUME NEW s, Payload(s), OneComposite(s.tree), NEW i \in DOMAIN s.tree, s.tree[i].type \in States,
         SizeOf(s.tree, i) = 0
  PROVE  i = 1
<1> DEFINE v == s.tree
<1>1. Whole(v) /\ v \in Seq(Nodes) /\ Ordered(v) /\ Kinds(v)
  BY DEF Payload, Whole, Shaped, Kinds, Preorder
<1>2. DOMAIN v = 1 .. Len(v) /\ i \in 1 .. Len(v)
  BY <1>1, UntilFacts
<1>3. ASSUME NEW k \in 1 .. Len(v), i \in Above(v, k), Own(v[k]) > 0
      PROVE  FALSE
  <2>1. k \in Within(v, i)
    BY <1>2, <1>3 DEF Within
  <2>2. Offset(v, k) + 1 \in Span(v, k)
    <3>1. Offset(v, k) \in Nat /\ Own(v[k]) \in Nat
      BY SpanFacts
    <3> QED BY <1>3, <3>1 DEF Span
  <2>3. (Offset(v, k) + 1) - Offset(v, i) \in 1 .. SizeOf(v, i)
    BY <1>1, <1>2, <2>1, <2>2, SliceSpans
  <2> QED BY <2>3
<1>4. CASE v[i].type \in Threads
  <2>1. i \in Holders(v)
    BY <1>4 DEF Holders
  <2>2. Own(v[i]) > 0
    BY <1>1, <1>4, <2>1, HolderFacts, TreeAssumption
  <2>3. i \in Above(v, i)
    BY <1>1, <1>2, AboveFacts
  <2> QED BY <1>2, <1>3, <2>2, <2>3
<1>5. CASE v[i].type = "prog"
  <2> SUFFICES ASSUME i # 1 PROVE FALSE
    OBVIOUS
  <2>1. v[i].parent # 0
    BY <1>1, <1>2 DEF Whole
  <2>2. \E k \in 1 .. Len(v) : i \in Above(v, k) /\ Own(v[k]) > 0
    BY <1>1, <1>2, <1>5, <2>1 DEF Whole, Shaped, Occupied
  <2> QED BY <1>3, <2>2
<1>6. CASE v[i].type = "comp"
  BY <1>6 DEF OneComposite
<1> QED BY <1>4, <1>5, <1>6 DEF States, Threads

\* Two live states agree on the bytes of a part exactly when they agree on what
\* its variables hold: no other byte is ever written.
LEMMA SameBytes ==
  ASSUME NEW s, NEW r, LiveState(s), LiveState(r), s.tree = r.tree, NEW i \in DOMAIN s.tree
  PROVE  (\A j \in Within(s.tree, i) : \A b \in Span(s.tree, j) : s.bytes[b] = r.bytes[b])
         <=> \A j \in Holders(s.tree) \cap Within(s.tree, i) : Held(s, j) = Held(r, j)
<1> DEFINE v == s.tree
<1>1. Payload(s) /\ Payload(r) /\ Blank(s) /\ Blank(r)
  BY DEF LiveState
<1>2. \A j \in Holders(v) : Held(s, j) = Held(r, j) <=> \A b \in Span(v, j) : s.bytes[b] = r.bytes[b]
  BY <1>1, HeldTells
<1>3. \A j \in DOMAIN v \ Holders(v) : \A b \in Span(v, j) : s.bytes[b] = r.bytes[b]
  BY <1>1 DEF Blank
<1>4. Within(v, i) \subseteq DOMAIN v
  BY DEF Within
<1> QED BY <1>2, <1>3, <1>4

\* The bytes that a hash sees of a part tell what its variables hold.
LEMMA SliceTellsOf ==
  ASSUME NEW s, NEW r, LiveState(s), LiveState(r), s.tree = r.tree, OneComposite(s.tree),
         NEW i \in DOMAIN s.tree, s.tree[i].type \in States
  PROVE  Slice(s, i) = Slice(r, i)
         <=> \A j \in Holders(s.tree) \cap Within(s.tree, i) : Held(s, j) = Held(r, j)
<1> DEFINE v == s.tree
           n == SizeOf(v, i)
           o == Offset(v, i)
           E == \A j \in Within(v, i) : \A b \in Span(v, j) : s.bytes[b] = r.bytes[b]
<1>1. E <=> \A j \in Holders(v) \cap Within(v, i) : Held(s, j) = Held(r, j)
  BY SameBytes
<1>2. Payload(s) /\ Payload(r) /\ Whole(v)
  BY DEF LiveState, Payload
<1>3. i \in 1 .. Len(v)
  BY <1>2, WholeLayout
<1>4. /\ o \in Nat /\ n \in Nat
      /\ \A b \in 1 .. n : \E j \in Within(v, i) : o + b \in Span(v, j)
      /\ \A j \in Within(v, i) : \A b \in Span(v, j) : b - o \in 1 .. n /\ b \in Nat
  BY <1>2, <1>3, SliceSpans
<1>5. CASE n = 0
  <2>1. i = 1
    BY <1>2, <1>5, PartsHaveSize
  <2>2. s.bytes \in [1 .. n -> 0 .. Radix - 1] /\ r.bytes \in [1 .. n -> 0 .. Radix - 1]
    BY <1>2, <2>1 DEF Payload
  <2>3. s.bytes = r.bytes
    <3>1. \A f, g \in [1 .. 0 -> 0 .. Radix - 1] : f = g
      OBVIOUS
    <3>2. 1 .. n = 1 .. 0
      BY <1>5
    <3> QED BY <2>2, <3>1, <3>2
  <2>4. E
    BY <2>3
  <2>5. Slice(s, i) = Slice(r, i)
    BY <1>5, <2>3 DEF Slice
  <2> QED BY <1>1, <2>4, <2>5
<1>6. CASE n # 0
  <2>1. /\ Slice(s, i) = [b \in 1 .. n |-> s.bytes[o + b]]
        /\ Slice(r, i) = [b \in 1 .. n |-> r.bytes[o + b]]
    BY <1>6 DEF Slice
  <2> DEFINE F(t) == [b \in 1 .. n |-> t.bytes[o + b]]
  <2>2. F(s) = F(r) <=> \A b \in 1 .. n : s.bytes[o + b] = r.bytes[o + b]
    <3>1. \A b \in 1 .. n : F(s)[b] = s.bytes[o + b] /\ F(r)[b] = r.bytes[o + b]
      OBVIOUS
    <3>2. (\A b \in 1 .. n : s.bytes[o + b] = r.bytes[o + b]) => F(s) = F(r)
      OBVIOUS
    <3> HIDE DEF F
    <3> QED BY <3>1, <3>2
  <2>3. (\A b \in 1 .. n : s.bytes[o + b] = r.bytes[o + b]) => E
    <3> SUFFICES ASSUME \A b \in 1 .. n : s.bytes[o + b] = r.bytes[o + b],
                        NEW j \in Within(v, i), NEW b \in Span(v, j)
                 PROVE  s.bytes[b] = r.bytes[b]
      OBVIOUS
    <3>1. b - o \in 1 .. n /\ b \in Nat /\ o \in Nat
      BY <1>4
    <3>2. o + (b - o) = b
      BY <3>1
    <3> QED BY <3>1, <3>2
  <2>4. E => \A b \in 1 .. n : s.bytes[o + b] = r.bytes[o + b]
    BY <1>4
  <2> QED BY <1>1, <2>1, <2>2, <2>3, <2>4
<1> QED BY <1>5, <1>6

\* The part of the payload a hash is taken of tells two live states apart
\* exactly when a variable of that part differs (payload::hash).
THEOREM SliceTellsCorrect == Spec => []SliceTells
<1>1. IInv => SliceTells
  <2> SUFFICES ASSUME IInv, NEW h \in DOMAIN states, NEW k \in DOMAIN states,
                      NEW i \in DOMAIN states[h].tree, states[h].tree[i].type \in States
               PROVE  Slice(states[h], i) = Slice(states[k], i)
                      <=> \A j \in Holders(states[h].tree) \cap Within(states[h].tree, i) :
                             Held(states[h], j) = Held(states[k], j)
    BY DEF SliceTells
  <2>1. /\ LiveState(states[h]) /\ LiveState(states[k]) /\ OneComposite(states[h].tree)
        /\ states[h].tree = states[k].tree
    BY DEF IInv, InUse
  <2> QED BY <2>1, SliceTellsOf
<1> QED BY <1>1, Invariant, PTL

-----------------------------------------------------------------------------
(***************************************************************************)
(* The tree and its payload implement the store of values.                 *)
(***************************************************************************)
Shown == [h \in DOMAIN states |-> Values(states[h])]
Stutter == Shown' = Shown /\ call' = call

\* What a state shows after values were written to it.
LEMMA PutValues ==
  ASSUME NEW s, Payload(s), NEW values, DOMAIN values \subseteq Holders(s.tree),
         \A j \in DOMAIN values : Suits(s.tree[j], values[j]) /\ s.tree[j].type # "cmtype"
  PROVE  /\ DOMAIN Values(s) = Holders(s.tree)
         /\ Values(Put(s, values)) =
              [j \in DOMAIN Values(s) |-> IF j \in DOMAIN values THEN values[j] ELSE Values(s)[j]]
<1> DEFINE r == Put(s, values)
<1>1. /\ r.tree = s.tree
      /\ \A j \in Holders(s.tree) :
           Held(r, j) = IF j \in DOMAIN values /\ s.tree[j].type # "cmtype" THEN values[j] ELSE Held(s, j)
  BY PutHeld
<1> HIDE DEF r
<1>2. Values(r) = [j \in Holders(s.tree) |-> Held(r, j)] /\ Values(s) = [j \in Holders(s.tree) |-> Held(s, j)]
  BY <1>1 DEF Values
<1>3. \A j \in Holders(s.tree) : Held(r, j) = IF j \in DOMAIN values THEN values[j] ELSE Values(s)[j]
  BY <1>1, <1>2
<1>4. Values(r) = [j \in DOMAIN Values(s) |-> IF j \in DOMAIN values THEN values[j] ELSE Values(s)[j]]
  BY <1>2, <1>3
<1> QED BY <1>2, <1>4 DEF r

\* Write is a write of the store.
LEMMA WriteStores ==
  ASSUME InUse, NEW h \in DOMAIN states, NEW j \in Holders(states[h].tree), NEW n,
         Suits(states[h].tree[j], n), states[h].tree[j].type # "cmtype", Write(h, j, n)
  PROVE  Store!Write(h)
<1> DEFINE values == [k \in {j} |-> n]
           s == states[h]
<1>1. states' = [states EXCEPT ![h] = Put(s, values)] /\ call' = [op |-> "write", on |-> h, what |-> j, value |-> n]
  BY DEF Write
<1>2. DOMAIN values = {j} /\ values[j] = n
  OBVIOUS
<1>3. Payload(s)
  BY DEF InUse, LiveState
<1> HIDE DEF values
<1>4. /\ DOMAIN Values(s) = Holders(s.tree)
      /\ Values(Put(s, values)) =
           [k \in DOMAIN Values(s) |-> IF k \in DOMAIN values THEN values[k] ELSE Values(s)[k]]
  BY <1>2, <1>3, PutValues
<1>5. Values(Put(s, values)) = [Values(s) EXCEPT ![j] = n]
  <2>1. Values(s) = [k \in DOMAIN Values(s) |-> Values(s)[k]]
    BY DEF Values
  <2> QED BY <1>2, <1>4, <2>1
<1>6. Shown' = [Shown EXCEPT ![h] = [Shown[h] EXCEPT ![j] = n]]
  <2>1. Shown' = [k \in DOMAIN states |-> IF k = h THEN Values(Put(s, values)) ELSE Values(states[k])]
    BY <1>1 DEF Shown
  <2> QED BY <1>5, <2>1 DEF Shown
<1>7. DOMAIN Shown = DOMAIN states /\ DOMAIN Shown[h] = Holders(s.tree)
  BY <1>4 DEF Shown
<1>8. call'.op = "write" /\ call'.on = h /\ call'.what = j /\ call'.value = n
  BY <1>1
<1> QED BY <1>6, <1>7, <1>8 DEF Store!Write, Shown

\* What changes neither a state nor the last call is a stutter of the store.
LEMMA UnchangedStutters ==
  ASSUME UNCHANGED <<states, call>>
  PROVE  Stutter
BY DEF Stutter, Shown

\* setValue is a write of the store, or fails.
LEMMA SetValueStores ==
  ASSUME IInv, NEW h \in DOMAIN states, NEW j \in Leaves(states[h].tree), NEW n, SetValue(h, j, n)
  PROVE  Store!Write(h) \/ Stutter
<1>1. CASE InBounds(states[h].tree[j].type, n)
  <2>1. Write(h, j, n)
    BY <1>1 DEF SetValue
  <2>2. j \in Holders(states[h].tree) /\ Suits(states[h].tree[j], n) /\ states[h].tree[j].type # "cmtype"
    BY <1>1, LeafSuits DEF Leaves
  <2> QED BY <2>1, <2>2, WriteStores DEF IInv
<1>2. CASE ~InBounds(states[h].tree[j].type, n)
  BY <1>2, UnchangedStutters DEF SetValue, Abort
<1> QED BY <1>1, <1>2

\* So are assignments, ++ and --.
LEMMA ValueStores ==
  ASSUME IInv, NEW h \in Handles, Assign(h) \/ Increment(h) \/ Decrement(h)
  PROVE  Store!Write(h) \/ Stutter
<1>1. h \in DOMAIN states
  BY DEF Assign, Increment, Decrement, Live
<1>2. PICK j \in Leaves(states[h].tree) : (\E n : SetValue(h, j, n)) \/ Abort \/ Same
  BY DEF Assign, Increment, Decrement
<1> QED BY <1>1, <1>2, SetValueStores, UnchangedStutters DEF Abort, Same

\* setFsmNodePointer is a write of the store.
LEMMA SetFsmNodePointerStores ==
  ASSUME IInv, NEW h \in Handles, SetFsmNodePointer(h)
  PROVE  Store!Write(h)
<1>1. h \in DOMAIN states /\ InUse
  BY DEF SetFsmNodePointer, Live, IInv
<1>2. PICK j \in Holders(states[h].tree) :
        /\ states[h].tree[j].type \in Threads
        /\ \E n \in {0, Power(Pointer) - 1} : Write(h, j, n)
  BY DEF SetFsmNodePointer
<1>3. PICK n \in {0, Power(Pointer) - 1} : Write(h, j, n)
  BY <1>2
<1>4. Power(Pointer) \in Nat \ {0} /\ "cmtype" \notin Threads
  BY PowerFacts, TreeAssumption DEF Threads
<1>5. Suits(states[h].tree[j], n)
  BY <1>2, <1>4, NodesHeld DEF Suits
<1> QED BY <1>1, <1>2, <1>3, <1>4, <1>5, WriteStores

\* reset clears the fields of one channel.
LEMMA ResetStores ==
  ASSUME IInv, NEW h \in Handles, Reset(h)
  PROVE  Store!Clear(h)
<1>1. h \in DOMAIN states /\ InUse
  BY DEF Reset, Live, IInv
<1>2. PICK c \in DOMAIN states[h].tree :
        Clear(h, c, Put(states[h], [j \in Fields(states[h].tree, c) |-> 0]))
  BY DEF Reset
<1> DEFINE s == states[h]
           values == [j \in Fields(states[h].tree, c) |-> 0]
<1>3. /\ states' = [states EXCEPT ![h] = Put(s, values)]
      /\ call' = [op |-> "clear", on |-> h, what |-> Fields(s.tree, c)]
  <2>1. Put(s, values).tree = s.tree
    BY DEF Put
  <2> QED BY <1>2, <2>1 DEF Clear
<1>4. DOMAIN values = Fields(s.tree, c) /\ \A j \in DOMAIN values : values[j] = 0
  OBVIOUS
<1> HIDE DEF values
<1>5. /\ DOMAIN values \subseteq Holders(s.tree)
      /\ \A j \in DOMAIN values : Suits(s.tree[j], values[j]) /\ s.tree[j].type # "cmtype"
  BY <1>4, FieldsFacts
<1>6. Payload(s)
  BY <1>1 DEF InUse, LiveState
<1>7. /\ DOMAIN Values(s) = Holders(s.tree)
      /\ Values(Put(s, values)) =
           [k \in DOMAIN Values(s) |-> IF k \in DOMAIN values THEN values[k] ELSE Values(s)[k]]
  BY <1>5, <1>6, PutValues
<1>8. Values(Put(s, values)) = [k \in DOMAIN Values(s) |-> IF k \in Fields(s.tree, c) THEN 0 ELSE Values(s)[k]]
  BY <1>4, <1>7
<1>9. Shown' = [Shown EXCEPT ![h] = [k \in DOMAIN Shown[h] |-> IF k \in Fields(s.tree, c) THEN 0 ELSE Shown[h][k]]]
  <2>1. Shown' = [k \in DOMAIN states |-> IF k = h THEN Values(Put(s, values)) ELSE Values(states[k])]
    BY <1>1, <1>3 DEF Shown
  <2>2. Shown[h] = Values(s)
    BY <1>1 DEF Shown
  <2> QED BY <1>8, <2>1, <2>2 DEF Shown
<1>10. DOMAIN Shown = DOMAIN states /\ DOMAIN Shown[h] = Holders(s.tree)
  BY <1>1, <1>7 DEF Shown
<1>11. call'.op = "clear" /\ call'.on = h /\ call'.what = Fields(s.tree, c)
  BY <1>3
<1> QED BY <1>1, <1>4, <1>5, <1>9, <1>10, <1>11 DEF Store!Clear, Shown

\* deepCopy is a copy: the store cannot tell it from its original.
LEMMA DeepCopyStores ==
  ASSUME IInv, NEW h \in Handles, NEW k \in Handles, DeepCopy(h, k)
  PROVE  Store!Copy(h, k)
<1>1. h \in DOMAIN states /\ k \notin DOMAIN states /\ InUse
  BY DEF DeepCopy, Live, IInv
<1> DEFINE r == [tree |-> Copied(states[h].tree), bytes |-> states[h].bytes]
<1>2. /\ states' = [x \in DOMAIN states \cup {k} |-> IF x = k THEN r ELSE states[x]]
      /\ call' = [op |-> "copy", on |-> h, to |-> k]
  BY DEF DeepCopy
<1>3. Whole(states[h].tree)
  BY <1>1 DEF InUse, LiveState, Payload
<1>4. r.tree = states[h].tree /\ r.bytes = states[h].bytes
  BY <1>3, WholeCopied
<1> HIDE DEF r
<1>5. Values(r) = Values(states[h])
  BY <1>4 DEF Values, Held
<1>6. Shown' = [x \in DOMAIN Shown \cup {k} |-> IF x = k THEN Shown[h] ELSE Shown[x]]
  <2>1. Shown' = [x \in DOMAIN states \cup {k} |-> IF x = k THEN Values(r) ELSE Values(states[x])]
    BY <1>2 DEF Shown
  <2> QED BY <1>1, <1>5, <2>1 DEF Shown
<1> QED BY <1>1, <1>2, <1>6 DEF Store!Copy, Shown

\* A deletion removes one state of the store.
LEMMA DeleteStores ==
  ASSUME IInv, NEW h \in Handles, Delete(h)
  PROVE  Store!Delete(h)
<1>1. h \in DOMAIN states
  BY DEF Delete, Live
<1>2. states' = [x \in DOMAIN states \ {h} |-> states[x]] /\ call' = [op |-> "delete", on |-> h]
  BY DEF Delete, Restrict
<1>3. Shown' = [x \in DOMAIN Shown \ {h} |-> Shown[x]] /\ DOMAIN Shown = DOMAIN states
  BY <1>2 DEF Shown
<1> QED BY <1>1, <1>2, <1>3 DEF Store!Delete, Shown

\* init makes the first state of the store.
LEMMA LoadStores ==
  ASSUME IInv, NEW h \in Handles, Load(h)
  PROVE  Store!Load(h) \/ Stutter
<1>1. open # <<>> /\ Len(open) = 1
  BY DEF Load
<1>2. Filling(tree, open) /\ DOMAIN states = {}
  BY <1>1 DEF IInv, InConstruction
<1>3. CASE \E j \in Leaves(tree) : ~InBounds(tree[j].type, tree[j].init)
  BY <1>3, UnchangedStutters DEF Load, Abort
<1>4. CASE ~ \E j \in Leaves(tree) : ~InBounds(tree[j].type, tree[j].init)
  <2>1. /\ states' = [k \in {h} |-> Start(tree)]
        /\ call' = [op |-> "load", on |-> h, values |-> Declared(tree)]
    BY <1>4 DEF Load
  <2>2. Shown' = [k \in {h} |-> call'.values]
    <3>1. Values(Start(tree)) = Declared(tree)
      BY <1>1, <1>2, <1>4, FilledIsWhole, StartValues
    <3> QED BY <2>1, <3>1 DEF Shown
  <2>3. DOMAIN Shown = {} /\ call'.op = "load" /\ call'.on = h
    BY <1>2, <2>1 DEF Shown
  <2> QED BY <2>2, <2>3 DEF Store!Load, Shown
<1> QED BY <1>3, <1>4

\* The store of values is what the tree and the payload are for: a variable
\* holds what was written to it last, and nothing else changes.
THEOREM TreeImplementsStore == Spec => ImplementsStore
<1>1. Init => Store!Init
  BY DEF Init, Store!Init, Store!Idle, None
<1>2. ASSUME IInv, [Next]_vars
      PROVE  [Store!Next]_(Store!vars)
  <2>1. CASE Build
    <3>1. UNCHANGED <<states, call>>
      BY <2>1 DEF Build, Construct, Declare, Attach, Building
    <3> QED BY <3>1 DEF Store!vars
  <2>2. CASE UNCHANGED vars
    BY <2>2 DEF vars, Store!vars
  <2>3. CASE \E h \in Handles : Load(h) \/ Use(h)
    <3>1. PICK h \in Handles : Load(h) \/ Use(h)
      BY <2>3
    <3>2. \/ Store!Load(h) \/ Store!Write(h) \/ Store!Clear(h) \/ Store!Delete(h)
          \/ \E k \in Handles : Store!Copy(h, k)
          \/ Stutter
      BY <1>2, <3>1, LoadStores, ValueStores, SetFsmNodePointerStores, ResetStores, DeepCopyStores,
         DeleteStores DEF Use
    <3>3. CASE Stutter
      BY <3>3 DEF Stutter, Shown, Store!vars
    <3>4. CASE ~Stutter
      BY <3>2, <3>4 DEF Store!Next
    <3> QED BY <3>3, <3>4
  <2> QED BY <1>2, <2>1, <2>2, <2>3 DEF Next
<1> QED BY <1>1, <1>2, Invariant, PTL DEF Spec, ImplementsStore, Store!Spec
=============================================================================
