-------------------------------- MODULE Sums --------------------------------
(***************************************************************************)
(* Sums of amounts, for proofs about accounts.  That b and the first n     *)
(* amounts of a are together no more than w is said by the account f of a  *)
(* sum that grows by each amount: f[i] is at least the sum of b and the    *)
(* first i of them.  An account says this without recursion, and what is   *)
(* done to the amounts is done to the account.                             *)
(***************************************************************************)
EXTENDS Integers, TLAPS

AllNat(a, n) == \A j \in 1 .. n : a[j] \in Nat

Account(f, a, n, b, w) ==
  /\ \A i \in Nat : f[i] \in Nat
  /\ b <= f[0]
  /\ \A i \in Nat : i <= n => f[i] <= w
  /\ \A i, j \in Nat : i < j /\ j <= n => f[i] + a[j] <= f[j]

Adds(a, n, b, w) == \E f : Account(f, a, n, b, w)

\* The amounts are bounded together with what there was before.
LEMMA AddsBound ==
  ASSUME NEW a, NEW n \in Nat, NEW b \in Nat, NEW w \in Nat, Adds(a, n, b, w)
  PROVE  b <= w
<1>1. PICK f : Account(f, a, n, b, w)
  BY DEF Adds
<1>2. f[0] \in Nat /\ f[0] <= w /\ b <= f[0]
  BY <1>1 DEF Account
<1>q. QED BY <1>2

\* Without amounts.
LEMMA AddsNone ==
  ASSUME NEW a, NEW b \in Nat PROVE Adds(a, 0, b, b)
<1> DEFINE f == [i \in Nat |-> b]
<1>1. Account(f, a, 0, b, b)
  BY DEF Account
<1>q. QED BY <1>1 DEF Adds

\* Only the amounts matter, and less can be added before.
LEMMA AddsSame ==
  ASSUME NEW a, NEW c, NEW n \in Nat, NEW b \in Nat, NEW d \in Nat, NEW w \in Nat, NEW v \in Nat,
         \A j \in 1 .. n : c[j] = a[j], d <= b, w <= v, Adds(a, n, b, w)
  PROVE  Adds(c, n, d, v)
<1>1. PICK f : Account(f, a, n, b, w)
  BY DEF Adds
<1>2. Account(f, c, n, d, v)
  <2>1. \A i \in Nat : f[i] \in Nat
    BY <1>1 DEF Account
  <2>2. d <= f[0]
    BY <1>1, <2>1 DEF Account
  <2>3. \A i \in Nat : i <= n => f[i] <= v
    BY <1>1, <2>1 DEF Account
  <2>4. \A i, j \in Nat : i < j /\ j <= n => f[i] + c[j] <= f[j]
    BY <1>1 DEF Account
  <2>q. QED BY <2>1, <2>2, <2>3, <2>4 DEF Account
<1>q. QED BY <1>2 DEF Adds

\* One more amount.
LEMMA AddsMore ==
  ASSUME NEW n \in Nat, NEW a, NEW c, AllNat(c, n + 1), \A j \in 1 .. n : c[j] = a[j],
         NEW b \in Nat, NEW w \in Nat, NEW v \in Nat, w + c[n + 1] <= v, Adds(a, n, b, w)
  PROVE  Adds(c, n + 1, b, v)
<1>1. PICK f : Account(f, a, n, b, w)
  BY DEF Adds
<1> DEFINE g == [i \in Nat |-> IF i = n + 1 THEN v ELSE f[i]]
<1>2. /\ \A i \in Nat : f[i] \in Nat
      /\ b <= f[0]
      /\ \A i \in Nat : i <= n => f[i] <= w
      /\ \A i, j \in Nat : i < j /\ j <= n => f[i] + a[j] <= f[j]
  BY <1>1 DEF Account
<1>3. c[n + 1] \in Nat
  BY DEF AllNat
<1>4. g[n + 1] = v /\ \A i \in Nat : i # n + 1 => g[i] = f[i]
  OBVIOUS
<1> HIDE DEF g
<1>5. \A i \in Nat : g[i] \in Nat
  BY <1>2, <1>4
<1>6. b <= g[0]
  BY <1>2, <1>4
<1>7. \A i \in Nat : i <= n + 1 => g[i] <= v
  <2> SUFFICES ASSUME NEW i \in Nat, i <= n + 1 PROVE g[i] <= v
    OBVIOUS
  <2>1. CASE i = n + 1
    BY <1>4, <2>1
  <2>2. CASE i # n + 1
    <3>1. g[i] = f[i] /\ f[i] <= w /\ f[i] \in Nat
      BY <1>2, <1>4, <2>2
    <3>q. QED BY <1>3, <3>1
  <2>q. QED BY <2>1, <2>2
<1>8. \A i, j \in Nat : i < j /\ j <= n + 1 => g[i] + c[j] <= g[j]
  <2> SUFFICES ASSUME NEW i \in Nat, NEW j \in Nat, i < j, j <= n + 1 PROVE g[i] + c[j] <= g[j]
    OBVIOUS
  <2>1. g[i] = f[i] /\ f[i] <= w /\ f[i] \in Nat
    BY <1>2, <1>4
  <2>2. CASE j = n + 1
    BY <1>3, <1>4, <2>1, <2>2
  <2>3. CASE j # n + 1
    <3>1. g[j] = f[j] /\ c[j] = a[j] /\ f[i] + a[j] <= f[j]
      BY <1>2, <1>4, <2>3
    <3>q. QED BY <2>1, <3>1
  <2>q. QED BY <2>2, <2>3
<1>9. Account(g, c, n + 1, b, v)
  BY <1>5, <1>6, <1>7, <1>8 DEF Account
<1>q. QED BY <1>9 DEF Adds

\* The first amount becomes part of what there was before.
LEMMA AddsFirst ==
  ASSUME NEW n \in Nat, NEW a, NEW c, AllNat(a, n + 1), \A j \in 1 .. n : c[j] = a[j + 1],
         NEW b \in Nat, NEW d \in Nat, NEW w \in Nat, d <= b + a[1], Adds(a, n + 1, b, w)
  PROVE  Adds(c, n, d, w)
<1>1. PICK f : Account(f, a, n + 1, b, w)
  BY DEF Adds
<1> DEFINE g == [i \in Nat |-> f[i + 1]]
<1>2. /\ \A i \in Nat : f[i] \in Nat
      /\ b <= f[0]
      /\ \A i \in Nat : i <= n + 1 => f[i] <= w
      /\ \A i, j \in Nat : i < j /\ j <= n + 1 => f[i] + a[j] <= f[j]
  BY <1>1 DEF Account
<1>3. a[1] \in Nat
  BY DEF AllNat
<1>4. \A i \in Nat : g[i] = f[i + 1]
  OBVIOUS
<1> HIDE DEF g
<1>5. \A i \in Nat : g[i] \in Nat
  BY <1>2, <1>4
<1>6. d <= g[0]
  <2>1. f[0] + a[1] <= f[1] /\ f[0] \in Nat /\ f[1] \in Nat /\ g[0] = f[1]
    BY <1>2, <1>4
  <2>q. QED BY <1>2, <1>3, <2>1
<1>7. \A i \in Nat : i <= n => g[i] <= w
  BY <1>2, <1>4
<1>8. \A i, j \in Nat : i < j /\ j <= n => g[i] + c[j] <= g[j]
  <2> SUFFICES ASSUME NEW i \in Nat, NEW j \in Nat, i < j, j <= n PROVE g[i] + c[j] <= g[j]
    OBVIOUS
  <2>1. f[i + 1] + a[j + 1] <= f[j + 1]
    BY <1>2
  <2>2. c[j] = a[j + 1]
    OBVIOUS
  <2>q. QED BY <1>4, <2>1, <2>2
<1>9. Account(g, c, n, d, w)
  BY <1>5, <1>6, <1>7, <1>8 DEF Account
<1>q. QED BY <1>9 DEF Adds

\* One of the amounts becomes part of what there was before.
LEMMA AddsUsed ==
  ASSUME NEW n \in Nat, NEW a, NEW c, AllNat(a, n), NEW r \in 1 .. n,
         c[r] = 0, \A j \in 1 .. n : j # r => c[j] = a[j],
         NEW b \in Nat, NEW w \in Nat, Adds(a, n, b, w)
  PROVE  Adds(c, n, b + a[r], w)
<1>1. PICK f : Account(f, a, n, b, w)
  BY DEF Adds
<1>m. PICK m \in Nat : m = a[r]
  BY DEF AllNat
<1> DEFINE g == [i \in Nat |-> IF i < r THEN f[i] + m ELSE f[i]]
<1>2. /\ \A i \in Nat : f[i] \in Nat
      /\ b <= f[0]
      /\ \A i \in Nat : i <= n => f[i] <= w
      /\ \A i, j \in Nat : i < j /\ j <= n => f[i] + a[j] <= f[j]
  BY <1>1 DEF Account
<1>3. (\A i \in Nat : i < r => g[i] = f[i] + m) /\ (\A i \in Nat : ~(i < r) => g[i] = f[i])
  OBVIOUS
<1> HIDE DEF g
<1>4. \A i \in Nat : i < r => f[i] + m <= f[r]
  BY <1>2, <1>m
<1>5. \A i \in Nat : g[i] \in Nat
  BY <1>2, <1>3
<1>6. b + m <= g[0]
  BY <1>2, <1>3
<1>7. \A i \in Nat : i <= n => g[i] <= w
  <2> SUFFICES ASSUME NEW i \in Nat, i <= n PROVE g[i] <= w
    OBVIOUS
  <2>1. f[r] <= w /\ f[i] <= w /\ f[i] \in Nat /\ f[r] \in Nat
    BY <1>2
  <2>q. QED BY <1>3, <1>4, <2>1
<1>8. \A i, j \in Nat : i < j /\ j <= n => g[i] + c[j] <= g[j]
  <2> SUFFICES ASSUME NEW i \in Nat, NEW j \in Nat, i < j, j <= n PROVE g[i] + c[j] <= g[j]
    OBVIOUS
  <2>0. /\ f[i] \in Nat /\ f[j] \in Nat /\ f[r] \in Nat
        /\ a[j] \in Nat /\ f[i] + a[j] <= f[j]
    BY <1>2 DEF AllNat
  <2>1. CASE j < r
    <3>1. g[i] = f[i] + m /\ g[j] = f[j] + m /\ c[j] = a[j]
      BY <1>3, <2>1
    <3>q. QED BY <2>0, <3>1
  <2>2. CASE j = r
    <3>1. g[i] = f[i] + m /\ g[j] = f[j] /\ c[j] = 0 /\ f[i] + m <= f[j]
      BY <1>3, <1>4, <2>2
    <3>q. QED BY <2>0, <3>1
  <2>3. CASE r < j /\ i < r
    <3>1. f[r] + a[j] <= f[j] /\ f[i] + m <= f[r]
      BY <1>2, <1>4, <2>3
    <3>2. g[i] = f[i] + m /\ g[j] = f[j] /\ c[j] = a[j]
      BY <1>3, <2>3
    <3>q. QED BY <2>0, <3>1, <3>2
  <2>4. CASE r < j /\ ~(i < r)
    <3>1. g[i] = f[i] /\ g[j] = f[j] /\ c[j] = a[j]
      BY <1>3, <2>4
    <3>q. QED BY <2>0, <3>1
  <2>q. QED BY <2>1, <2>2, <2>3, <2>4
<1>9. Account(g, c, n, b + m, w)
  BY <1>5, <1>6, <1>7, <1>8 DEF Account
<1>10. Adds(c, n, b + m, w)
  BY <1>9 DEF Adds
<1>q. QED BY <1>m, <1>10
=============================================================================
