--------------------------- MODULE Wakeups_proofs ---------------------------
(***************************************************************************)
(* The decisions of a wake-up, for any actions, intervals and energy: the  *)
(* ranking has each type once and is as documented, what is chosen can be  *)
(* paid for and empties a full queue, and the back-off of position fixes   *)
(* is bounded and ends when the device moves.                              *)
(***************************************************************************)
EXTENDS Wakeups, FiniteSetTheorems, WellFoundedInduction, TLAPS

\* A set of numbers that is not empty has a least one.
LEMMA LeastNumber ==
    ASSUME NEW T \in SUBSET Nat, T # {}
    PROVE  \E x \in T : \A y \in T : x <= y
<1> DEFINE R == {ss \in Nat \X Nat : ss[1] < ss[2]}
<1>1. IsWellFoundedOn(R, Nat)
  BY NatLessThanWellFounded DEF OpToRel
<1>2. \A x, y \in Nat : <<y, x>> \in R <=> y < x
  OBVIOUS
<1> HIDE DEF R
<1>3. PICK x \in T : \A y \in T : ~ (<<y, x>> \in R)
  BY <1>1, WFMin
<1>4. ASSUME NEW y \in T PROVE x <= y
  <2>1. x \in Nat /\ y \in Nat /\ ~ (y < x)
    BY <1>2, <1>3
  <2> QED
    BY <2>1
<1> QED
  BY <1>4

\* What holds of 0 and of each number after one of which it holds.
LEMMA UpTo ==
    ASSUME NEW n \in Nat, NEW Good, 0 \in Good, \A i \in 1 .. n : i - 1 \in Good => i \in Good
    PROVE  \A i \in 0 .. n : i \in Good
<1> DEFINE Bad == {i \in 0 .. n : i \notin Good}
<1>1. SUFFICES ASSUME Bad # {} PROVE FALSE
  OBVIOUS
<1>2. Bad \in SUBSET Nat
  OBVIOUS
<1> HIDE DEF Bad
<1>3. PICK m \in Bad : \A k \in Bad : m <= k
  BY <1>1, <1>2, LeastNumber
<1> USE DEF Bad
<1>4. m \in 1 .. n /\ m - 1 \in 0 .. n /\ ~ (m <= m - 1)
  BY <1>3
<1> QED
  BY <1>3, <1>4

\* f begins with b and goes on by a step for each number up to n.
Recursion(f, n, T, b, step) ==
    f \in [0 .. n -> T] /\ f[0] = b /\ \A i \in 1 .. n : f[i] = step[i][f[i - 1]]

\* A recursive function on numbers exists ...
LEMMA RecursionExists ==
    ASSUME NEW n \in Nat, NEW T, NEW b \in T, NEW step \in [1 .. n -> [T -> T]]
    PROVE  \E f : Recursion(f, n, T, b, step)
<1> USE DEF Recursion
<1> DEFINE Upto(m) == \E f \in [0 .. m -> T] : f[0] = b /\ \A i \in 1 .. m : f[i] = step[i][f[i - 1]]
           Good == {m \in 0 .. n : Upto(m)}
<1>1. 0 \in Good
  <2> DEFINE g == [i \in 0 .. 0 |-> b]
  <2>1. g \in [0 .. 0 -> T] /\ g[0] = b /\ \A i \in 1 .. 0 : g[i] = step[i][g[i - 1]]
    OBVIOUS
  <2> HIDE DEF g
  <2>2. Upto(0)
    BY <2>1
  <2> QED
    BY <2>2
<1>2. ASSUME NEW m \in 1 .. n, m - 1 \in Good PROVE m \in Good
  <2>1. PICK f \in [0 .. m - 1 -> T] : f[0] = b /\ \A i \in 1 .. m - 1 : f[i] = step[i][f[i - 1]]
    BY <1>2
  <2>2. step[m] \in [T -> T] /\ f[m - 1] \in T
    BY <2>1
  <2> DEFINE g == [i \in 0 .. m |-> IF i = m THEN step[m][f[m - 1]] ELSE f[i]]
  <2>3. g \in [0 .. m -> T] /\ g[0] = b
    BY <2>1, <2>2
  <2>4. ASSUME NEW i \in 1 .. m PROVE g[i] = step[i][g[i - 1]]
    <3>1. CASE i = m
      BY <3>1
    <3>2. CASE i # m
      <4>1. i \in 1 .. m - 1 /\ i - 1 \in 0 .. m /\ i - 1 # m /\ i \in 0 .. m
        BY <3>2
      <4> QED
        BY <2>1, <3>2, <4>1
    <3> QED
      BY <3>1, <3>2
  <2> HIDE DEF g
  <2>5. Upto(m) /\ m \in 0 .. n
    BY <2>3, <2>4
  <2> QED
    BY <2>5
<1> HIDE DEF Good
<1>3. \A i \in 1 .. n : i - 1 \in Good => i \in Good
  BY <1>2
<1>4. \A i \in 0 .. n : i \in Good
  BY <1>1, <1>3, UpTo
<1> QED
  BY <1>4 DEF Good

\* ... and is what a definition by that recursion has chosen.
LEMMA RecursionUnique ==
    ASSUME NEW n \in Nat, NEW f, NEW g, f[0] = g[0],
           \A i \in 1 .. n : f[i - 1] = g[i - 1] => f[i] = g[i]
    PROVE  \A i \in 0 .. n : f[i] = g[i]
<1> DEFINE Good == {i \in 0 .. n : f[i] = g[i]}
<1>1. 0 \in Good
  OBVIOUS
<1>2. \A i \in 1 .. n : i - 1 \in Good => i \in Good
  OBVIOUS
<1> HIDE DEF Good
<1>3. \A i \in 0 .. n : i \in Good
  BY <1>1, <1>2, UpTo
<1> QED
  BY <1>3 DEF Good

-----------------------------------------------------------------------------
(* Parts of a sequence *)

\* The recursion of Only.
OnlySteps(f, X, s, S) ==
    /\ f \in [0 .. Len(s) -> Seq(X)] /\ f[0] = <<>>
    /\ \A i \in 1 .. Len(s) : f[i] = IF s[i] \in S THEN Append(f[i - 1], s[i]) ELSE f[i - 1]

\* What Only returns is the last step of that recursion.
LEMMA OnlyIsRecursive ==
    ASSUME NEW X, NEW s \in Seq(X), NEW S
    PROVE  \E f : OnlySteps(f, X, s, S) /\ Only(s, S) = f[Len(s)]
<1> DEFINE n == Len(s)
           step == [i \in 1 .. n |-> [o \in Seq(X) |-> IF s[i] \in S THEN Append(o, s[i]) ELSE o]]
           IsKept(f) == f = [i \in 0 .. Len(s) |->
                IF i = 0 THEN <<>> ELSE IF s[i] \in S THEN Append(f[i - 1], s[i]) ELSE f[i - 1]]
<1>0. n \in Nat /\ \A i \in 1 .. n : s[i] \in X
  OBVIOUS
<1>1. step \in [1 .. n -> [Seq(X) -> Seq(X)]] /\ <<>> \in Seq(X)
  BY <1>0
<1>2. \A i \in 1 .. n : \A o \in Seq(X) : step[i][o] = IF s[i] \in S THEN Append(o, s[i]) ELSE o
  OBVIOUS
<1> HIDE DEF step
<1>3. PICK f : Recursion(f, n, Seq(X), <<>>, step)
  <2> HIDE DEF n
  <2> QED
    BY <1>0, <1>1, RecursionExists
<1>4. OnlySteps(f, X, s, S)
  <2>1. ASSUME NEW i \in 1 .. n PROVE f[i] = IF s[i] \in S THEN Append(f[i - 1], s[i]) ELSE f[i - 1]
    <3>1. i - 1 \in 0 .. n
      BY <1>0
    <3>2. f[i - 1] \in Seq(X)
      BY <1>3, <3>1 DEF Recursion
    <3> QED
      BY <1>2, <1>3, <3>2 DEF Recursion
  <2> QED
    BY <1>3, <2>1 DEF OnlySteps, Recursion
<1>5. IsKept(f)
  <2>1. f = [i \in 0 .. n |-> f[i]]
    BY <1>3 DEF Recursion
  <2>2. \A i \in 0 .. n : f[i] =
          IF i = 0 THEN <<>> ELSE IF s[i] \in S THEN Append(f[i - 1], s[i]) ELSE f[i - 1]
    <3>1. ASSUME NEW i \in 0 .. n, i # 0 PROVE i \in 1 .. n
      BY <1>0, <3>1
    <3> QED
      BY <1>4, <3>1 DEF OnlySteps
  <2> QED
    BY <2>1, <2>2
<1>6. PICK g : IsKept(g) /\ Only(s, S) = g[Len(s)]
  BY <1>5 DEF Only
<1>7. g[0] = <<>>
  BY <1>0, <1>6
<1>8. ASSUME NEW i \in 1 .. n, f[i - 1] = g[i - 1] PROVE f[i] = g[i]
  <2>1. i \in 0 .. n /\ i # 0
    BY <1>0
  <2>2. g[i] = IF s[i] \in S THEN Append(g[i - 1], s[i]) ELSE g[i - 1]
    BY <1>6, <2>1
  <2> QED
    BY <1>4, <1>8, <2>2 DEF OnlySteps
<1>9. f[n] = g[n]
  <2>1. f[0] = g[0] /\ \A i \in 1 .. n : f[i - 1] = g[i - 1] => f[i] = g[i]
    BY <1>3, <1>7, <1>8 DEF Recursion
  <2> HIDE DEF n, IsKept
  <2>2. \A i \in 0 .. n : f[i] = g[i]
    BY <1>0, <2>1, RecursionUnique
  <2> QED
    BY <1>0, <2>2
<1> QED
  BY <1>4, <1>6, <1>9

\* The elements of o are those of the first n of s that are in S, in their
\* order: e says where they come from.
Picks(e, o, s, S, n) ==
    /\ e \in [1 .. Len(o) -> 1 .. n]
    /\ \A i, j \in 1 .. Len(o) : i < j => e[i] < e[j]
    /\ \A i \in 1 .. Len(o) : o[i] = s[e[i]] /\ o[i] \in S
    /\ \A j \in 1 .. n : s[j] \in S => \E i \in 1 .. Len(o) : e[i] = j

\* Only returns exactly the elements in S, in their order.
LEMMA OnlyPicks ==
    ASSUME NEW X, NEW s \in Seq(X), NEW S
    PROVE  Only(s, S) \in Seq(X) /\ \E e : Picks(e, Only(s, S), s, S, Len(s))
<1>0. Len(s) \in Nat
  OBVIOUS
<1>1. PICK f : OnlySteps(f, X, s, S) /\ Only(s, S) = f[Len(s)]
  BY OnlyIsRecursive
<1> DEFINE Good == {n \in 0 .. Len(s) : \E e : Picks(e, f[n], s, S, n)}
<1>2. 0 \in Good
  <2>1. f[0] = <<>>
    BY <1>1 DEF OnlySteps
  <2>2. Picks(<<>>, <<>>, s, S, 0)
    BY DEF Picks
  <2> QED
    BY <1>0, <2>1, <2>2
<1>3. ASSUME NEW n \in 1 .. Len(s), n - 1 \in Good PROVE n \in Good
  <2>0. n \in Nat /\ n - 1 \in 0 .. Len(s) /\ n \in 0 .. Len(s)
    BY <1>0
  <2>1. PICK e : Picks(e, f[n - 1], s, S, n - 1)
    BY <1>3
  <2> DEFINE old == f[n - 1]
  <2>2. old \in Seq(X) /\ Len(old) \in Nat /\ s[n] \in X
    BY <1>1, <2>0 DEF OnlySteps
  <2>3. Picks(e, old, s, S, n - 1)
    BY <2>1
  <2>4. CASE s[n] \in S
    <3>1. f[n] = Append(old, s[n])
      BY <1>1, <2>4 DEF OnlySteps
    <3> HIDE DEF old
    <3> DEFINE new == Append(old, s[n])
               d == [i \in 1 .. Len(old) + 1 |-> IF i = Len(old) + 1 THEN n ELSE e[i]]
    <3>2. /\ Len(new) = Len(old) + 1 /\ new[Len(old) + 1] = s[n]
          /\ \A i \in 1 .. Len(old) : new[i] = old[i]
      BY <2>2
    <3>3. /\ d[Len(old) + 1] = n
          /\ \A i \in 1 .. Len(old) : d[i] = e[i] /\ e[i] \in 1 .. n - 1
      BY <2>2, <2>3 DEF Picks
    <3>4. d \in [1 .. Len(new) -> 1 .. n]
      BY <2>0, <2>2, <2>3, <3>2 DEF Picks
    <3>5. \A i \in 1 .. Len(new) : i \in 1 .. Len(old) \/ i = Len(old) + 1
      BY <2>2, <3>2
    <3> HIDE DEF d, new
    <3>6. ASSUME NEW i \in 1 .. Len(new), NEW j \in 1 .. Len(new), i < j PROVE d[i] < d[j]
      <4>1. i \in 1 .. Len(old)
        BY <2>2, <3>5, <3>6
      <4>2. CASE j \in 1 .. Len(old)
        BY <2>3, <3>3, <3>6, <4>1, <4>2 DEF Picks
      <4>3. CASE j = Len(old) + 1
        BY <2>0, <3>3, <4>1, <4>3
      <4> QED
        BY <3>5, <4>2, <4>3
    <3>7. \A i \in 1 .. Len(new) : new[i] = s[d[i]] /\ new[i] \in S
      BY <2>3, <2>4, <3>2, <3>3, <3>5 DEF Picks
    <3>8. ASSUME NEW j \in 1 .. n, s[j] \in S PROVE \E i \in 1 .. Len(new) : d[i] = j
      <4>1. CASE j = n
        BY <2>2, <3>2, <3>3, <4>1
      <4>2. CASE j # n
        <5>1. j \in 1 .. n - 1
          BY <2>0, <4>2
        <5>2. PICK i \in 1 .. Len(old) : e[i] = j
          BY <2>3, <3>8, <5>1 DEF Picks
        <5> QED
          BY <2>2, <3>2, <3>3, <5>2
      <4> QED
        BY <4>1, <4>2
    <3>9. Picks(d, new, s, S, n)
      BY <3>4, <3>6, <3>7, <3>8 DEF Picks
    <3>10. f[n] = new
      BY <3>1 DEF new
    <3> QED
      BY <2>0, <3>9, <3>10
  <2>5. CASE s[n] \notin S
    <3>1. f[n] = old
      BY <1>1, <2>5 DEF OnlySteps
    <3> HIDE DEF old
    <3>2. \A j \in 1 .. n : s[j] \in S => j \in 1 .. n - 1
      BY <2>0, <2>5
    <3>3. e \in [1 .. Len(old) -> 1 .. n]
      BY <2>0, <2>3 DEF Picks
    <3>4. Picks(e, old, s, S, n)
      BY <2>3, <3>2, <3>3 DEF Picks
    <3> QED
      BY <2>0, <3>1, <3>4
  <2> QED
    BY <2>4, <2>5
<1> HIDE DEF Good
<1>4. Len(s) \in Good
  BY <1>0, <1>2, <1>3, UpTo
<1>5. \E e : Picks(e, Only(s, S), s, S, Len(s))
  BY <1>1, <1>4 DEF Good
<1>6. Only(s, S) \in Seq(X)
  BY <1>0, <1>1 DEF OnlySteps
<1> QED
  BY <1>5, <1>6

\* What is left of a sequence without repetition, and its set.
LEMMA OnlyFacts ==
    ASSUME NEW X, NEW s \in Seq(X), NEW S
    PROVE  /\ Only(s, S) \in Seq(X)
           /\ ToSet(Only(s, S)) = ToSet(s) \cap S
           /\ IsInjective(s) => IsInjective(Only(s, S))
<1> DEFINE o == Only(s, S)
<1>1. PICK e : Picks(e, o, s, S, Len(s))
  BY OnlyPicks
<1>2. o \in Seq(X) /\ Len(s) \in Nat /\ DOMAIN s = 1 .. Len(s)
  BY OnlyPicks
<1> HIDE DEF o
<1>3. DOMAIN o = 1 .. Len(o) /\ Len(o) \in Nat
  BY <1>2
<1>4. ToSet(o) = ToSet(s) \cap S
  BY <1>1, <1>2, <1>3 DEF Picks, ToSet
<1>5. ASSUME IsInjective(s) PROVE IsInjective(o)
  <2> SUFFICES ASSUME NEW i \in 1 .. Len(o), NEW j \in 1 .. Len(o), o[i] = o[j] PROVE i = j
    BY <1>3 DEF IsInjective
  <2>1. e[i] = e[j] /\ e[i] \in 1 .. Len(s)
    BY <1>1, <1>2, <1>5 DEF Picks, IsInjective
  <2>2. ~ (i < j) /\ ~ (j < i)
    <3>1. ~ (e[i] < e[j]) /\ ~ (e[j] < e[i])
      BY <2>1
    <3> QED
      BY <1>1, <3>1 DEF Picks
  <2> QED
    BY <2>2
<1> QED
  BY <1>2, <1>4, <1>5 DEF o

-----------------------------------------------------------------------------
(* Sums *)

\* The recursion of Total.
SumsUpTo(f, numbers) ==
    /\ f \in [0 .. Len(numbers) -> Nat] /\ f[0] = 0
    /\ \A i \in 1 .. Len(numbers) : f[i] = f[i - 1] + numbers[i]

\* What Total returns is the last step of that recursion.
LEMMA TotalIsRecursive ==
    ASSUME NEW numbers \in Seq(Nat)
    PROVE  \E f : SumsUpTo(f, numbers) /\ Total(numbers) = f[Len(numbers)]
<1> DEFINE n == Len(numbers)
           step == [i \in 1 .. n |-> [sum \in Nat |-> sum + numbers[i]]]
           IsSum(f) == f = [i \in 0 .. Len(numbers) |-> IF i = 0 THEN 0 ELSE f[i - 1] + numbers[i]]
<1>0. n \in Nat /\ \A i \in 1 .. n : numbers[i] \in Nat
  OBVIOUS
<1>1. step \in [1 .. n -> [Nat -> Nat]]
  BY <1>0
<1>2. \A i \in 1 .. n : \A sum \in Nat : step[i][sum] = sum + numbers[i]
  OBVIOUS
<1> HIDE DEF step
<1>3. PICK f : Recursion(f, n, Nat, 0, step)
  <2> HIDE DEF n
  <2> QED
    BY <1>0, <1>1, RecursionExists
<1>4. SumsUpTo(f, numbers)
  <2>1. ASSUME NEW i \in 1 .. n PROVE f[i] = f[i - 1] + numbers[i]
    <3>1. i - 1 \in 0 .. n
      BY <1>0
    <3>2. f[i - 1] \in Nat
      BY <1>3, <3>1 DEF Recursion
    <3> QED
      BY <1>2, <1>3, <3>2 DEF Recursion
  <2> QED
    BY <1>3, <2>1 DEF SumsUpTo, Recursion
<1>5. IsSum(f)
  <2>1. f = [i \in 0 .. n |-> f[i]]
    BY <1>3 DEF Recursion
  <2>2. \A i \in 0 .. n : f[i] = IF i = 0 THEN 0 ELSE f[i - 1] + numbers[i]
    <3>1. ASSUME NEW i \in 0 .. n, i # 0 PROVE i \in 1 .. n
      BY <1>0, <3>1
    <3> QED
      BY <1>4, <3>1 DEF SumsUpTo
  <2> QED
    BY <2>1, <2>2
<1>6. PICK g : IsSum(g) /\ Total(numbers) = g[Len(numbers)]
  BY <1>5 DEF Total
<1>7. g[0] = 0
  BY <1>0, <1>6
<1>8. ASSUME NEW i \in 1 .. n, f[i - 1] = g[i - 1] PROVE f[i] = g[i]
  <2>1. i \in 0 .. n /\ i # 0
    BY <1>0
  <2>2. g[i] = g[i - 1] + numbers[i]
    BY <1>6, <2>1
  <2> QED
    BY <1>4, <1>8, <2>2 DEF SumsUpTo
<1>9. f[n] = g[n]
  <2>1. f[0] = g[0] /\ \A i \in 1 .. n : f[i - 1] = g[i - 1] => f[i] = g[i]
    BY <1>3, <1>7, <1>8 DEF Recursion
  <2> HIDE DEF n, IsSum
  <2>2. \A i \in 0 .. n : f[i] = g[i]
    BY <1>0, <2>1, RecursionUnique
  <2> QED
    BY <1>0, <2>2
<1> QED
  BY <1>4, <1>6, <1>9

\* One number more.
LEMMA TotalAppend ==
    ASSUME NEW numbers \in Seq(Nat), NEW k \in Nat
    PROVE  /\ Total(numbers) \in Nat
           /\ Total(Append(numbers, k)) = Total(numbers) + k
           /\ Total(<<>>) = 0
<1> DEFINE more == Append(numbers, k)
<1>1. PICK f : SumsUpTo(f, numbers) /\ Total(numbers) = f[Len(numbers)]
  BY TotalIsRecursive
<1>2. /\ more \in Seq(Nat) /\ Len(more) = Len(numbers) + 1 /\ more[Len(numbers) + 1] = k
      /\ Len(numbers) \in Nat /\ \A i \in 1 .. Len(numbers) : more[i] = numbers[i]
  OBVIOUS
<1> HIDE DEF more
<1>3. PICK g : SumsUpTo(g, more) /\ Total(more) = g[Len(more)]
  BY <1>2, TotalIsRecursive
<1>4. \A i \in 0 .. Len(numbers) : f[i] = g[i]
  <2>1. f[0] = g[0]
    BY <1>1, <1>3 DEF SumsUpTo
  <2>2. ASSUME NEW i \in 1 .. Len(numbers), f[i - 1] = g[i - 1] PROVE f[i] = g[i]
    <3>1. i \in 1 .. Len(more) /\ more[i] = numbers[i]
      BY <1>2
    <3> QED
      BY <1>1, <1>3, <2>2, <3>1 DEF SumsUpTo
  <2>3. \A i \in 1 .. Len(numbers) : f[i - 1] = g[i - 1] => f[i] = g[i]
    BY <2>2
  <2> DEFINE n == Len(numbers)
  <2> HIDE DEF n
  <2>4. \A i \in 0 .. n : f[i] = g[i]
    <3>1. n \in Nat /\ \A i \in 1 .. n : f[i - 1] = g[i - 1] => f[i] = g[i]
      BY <1>2, <2>3 DEF n
    <3> QED
      BY <2>1, <3>1, RecursionUnique
  <2> QED
    BY <2>4 DEF n
<1>5. Total(more) = f[Len(numbers)] + k
  <2>1. Len(more) \in 1 .. Len(more) /\ Len(more) - 1 = Len(numbers) /\ Len(numbers) \in 0 .. Len(numbers)
    BY <1>2
  <2> QED
    BY <1>2, <1>3, <1>4, <2>1 DEF SumsUpTo
<1>6. Total(numbers) \in Nat
  BY <1>1, <1>2 DEF SumsUpTo
<1>7. Total(<<>>) = 0
  <2>1. PICK h : SumsUpTo(h, <<>>) /\ Total(<<>>) = h[Len(<<>>)]
    <3> DEFINE none == <<>>
    <3>1. none \in Seq(Nat)
      OBVIOUS
    <3> HIDE DEF none
    <3>2. \E h : SumsUpTo(h, none) /\ Total(none) = h[Len(none)]
      BY <3>1, TotalIsRecursive
    <3> QED
      BY <3>2 DEF none
  <2> QED
    BY <2>1 DEF SumsUpTo
<1> QED
  BY <1>1, <1>5, <1>6, <1>7 DEF more

\* What the actions of a sequence cost, by a cost of each.
Cost(E, types) == Total([i \in DOMAIN types |-> E[types[i]]])

\* Nothing costs nothing.
LEMMA NoCost == \A E : Cost(E, <<>>) = 0
<1> SUFFICES ASSUME NEW E PROVE Cost(E, <<>>) = 0
  OBVIOUS
<1> DEFINE none == [i \in DOMAIN <<>> |-> E[<<>>[i]]]
<1>1. none = <<>>
  OBVIOUS
<1>2. Cost(E, <<>>) = Total(none)
  BY DEF Cost
<1> HIDE DEF none
<1>3. \A numbers \in Seq(Nat) : \A k \in Nat : Total(<<>>) = 0
  BY TotalAppend
<1>4. \E numbers \in Seq(Nat) : TRUE
  <2>1. <<1>> \in Seq(Nat)
    OBVIOUS
  <2> QED
    BY <2>1
<1>5. Total(<<>>) = 0
  BY <1>3, <1>4
<1> QED
  BY <1>1, <1>2, <1>5

\* One action more costs its own cost more.
LEMMA CostAppend ==
    ASSUME NEW X, NEW E \in [X -> Nat], NEW s \in Seq(X), NEW t \in X
    PROVE  /\ Cost(E, s) \in Nat
           /\ Cost(E, Append(s, t)) = Cost(E, s) + E[t]
           /\ Cost(E, <<>>) = 0
<1> DEFINE costs == [i \in DOMAIN s |-> E[s[i]]]
           more == [i \in DOMAIN Append(s, t) |-> E[Append(s, t)[i]]]
<1>1. costs \in Seq(Nat) /\ Len(costs) = Len(s) /\ DOMAIN costs = 1 .. Len(s) /\ Len(s) \in Nat
  OBVIOUS
<1>2. more = Append(costs, E[t])
  <2>1. DOMAIN Append(s, t) = 1 .. Len(s) + 1 /\ Append(s, t)[Len(s) + 1] = t
        /\ \A i \in 1 .. Len(s) : Append(s, t)[i] = s[i]
    OBVIOUS
  <2>2. /\ DOMAIN Append(costs, E[t]) = 1 .. Len(s) + 1 /\ Append(costs, E[t])[Len(s) + 1] = E[t]
        /\ \A i \in 1 .. Len(s) : Append(costs, E[t])[i] = E[s[i]]
        /\ Append(costs, E[t]) = [i \in 1 .. Len(s) + 1 |-> Append(costs, E[t])[i]]
    <3>1. \A i \in 1 .. Len(s) : costs[i] = E[s[i]]
      OBVIOUS
    <3> HIDE DEF costs
    <3>2. Append(costs, E[t]) \in Seq(Nat)
      BY <1>1
    <3> QED
      BY <1>1, <3>1, <3>2
  <2>3. more = [i \in 1 .. Len(s) + 1 |-> E[Append(s, t)[i]]]
    BY <2>1
  <2>4. ASSUME NEW i \in 1 .. Len(s) + 1 PROVE E[Append(s, t)[i]] = Append(costs, E[t])[i]
    <3>1. i \in 1 .. Len(s) \/ i = Len(s) + 1
      BY <1>1
    <3> QED
      BY <2>1, <2>2, <3>1
  <2> HIDE DEF more, costs
  <2> QED
    BY <2>2, <2>3, <2>4
<1>3. [i \in DOMAIN <<>> |-> E[<<>>[i]]] = <<>>
  OBVIOUS
<1> HIDE DEF costs, more
<1>4. Total(more) = Total(costs) + E[t] /\ Total(costs) \in Nat /\ Total(<<>>) = 0
  BY <1>1, <1>2, TotalAppend
<1> QED
  BY <1>3, <1>4 DEF Cost, costs, more

\* The cost of the first types of a sequence.
CostsUpTo(c, E, s) ==
    /\ c \in [0 .. Len(s) -> Nat] /\ c[0] = 0
    /\ \A i \in 1 .. Len(s) : c[i] = c[i - 1] + E[s[i]]

\* The cost of all is the last of those.
LEMMA CostIsRecursive ==
    ASSUME NEW X, NEW E \in [X -> Nat], NEW s \in Seq(X)
    PROVE  \E c : CostsUpTo(c, E, s) /\ Cost(E, s) = c[Len(s)]
<1> DEFINE costs == [i \in DOMAIN s |-> E[s[i]]]
<1>1. /\ costs \in Seq(Nat) /\ Len(costs) = Len(s) /\ Len(s) \in Nat
      /\ \A i \in 1 .. Len(s) : costs[i] = E[s[i]]
  OBVIOUS
<1>2. Cost(E, s) = Total(costs)
  BY DEF Cost
<1> HIDE DEF costs
<1>3. PICK c : SumsUpTo(c, costs) /\ Total(costs) = c[Len(costs)]
  BY <1>1, TotalIsRecursive
<1>4. CostsUpTo(c, E, s)
  BY <1>1, <1>3 DEF SumsUpTo, CostsUpTo
<1> QED
  BY <1>1, <1>2, <1>3, <1>4

\* A part costs no more than the whole, and less by what it leaves out.
LEMMA CostOfPart ==
    ASSUME NEW X, NEW E \in [X -> Nat], NEW s \in Seq(X), NEW S
    PROVE  /\ Cost(E, Only(s, S)) <= Cost(E, s)
           /\ \A t \in ToSet(s) \ S : Cost(E, Only(s, S)) + E[t] <= Cost(E, s)
<1>0. Len(s) \in Nat /\ DOMAIN s = 1 .. Len(s) /\ \A i \in 1 .. Len(s) : s[i] \in X
  OBVIOUS
<1>1. PICK f : OnlySteps(f, X, s, S) /\ Only(s, S) = f[Len(s)]
  BY OnlyIsRecursive
<1>2. PICK c : CostsUpTo(c, E, s) /\ Cost(E, s) = c[Len(s)]
  BY CostIsRecursive
<1> DEFINE Left(n, t) == t \notin S /\ \E j \in 1 .. n : s[j] = t
           Saves(n) == /\ Cost(E, f[n]) <= c[n]
                       /\ \A t \in X : Left(n, t) => Cost(E, f[n]) + E[t] <= c[n]
           Good == {n \in 0 .. Len(s) : Saves(n)}
<1>3. 0 \in Good
  <2>1. f[0] = <<>> /\ c[0] = 0
    BY <1>1, <1>2 DEF OnlySteps, CostsUpTo
  <2>2. Cost(E, <<>>) = 0
    BY NoCost
  <2>3. Saves(0)
    BY <2>1, <2>2
  <2> HIDE DEF Saves
  <2> QED
    BY <1>0, <2>3
<1>4. ASSUME NEW n \in 1 .. Len(s), n - 1 \in Good PROVE n \in Good
  <2>0. n \in Nat /\ n - 1 \in 0 .. Len(s) /\ n \in 0 .. Len(s)
    BY <1>0
  <2> DEFINE old == f[n - 1]
             p == c[n - 1]
             q == Cost(E, old)
  <2>1. old \in Seq(X) /\ p \in Nat /\ c[n] = p + E[s[n]] /\ s[n] \in X /\ E[s[n]] \in Nat
    BY <1>0, <1>1, <1>2, <2>0 DEF OnlySteps, CostsUpTo
  <2>2. q <= p /\ \A t \in X : Left(n - 1, t) => q + E[t] <= p
    BY <1>4
  <2>3. f[n] = IF s[n] \in S THEN Append(old, s[n]) ELSE old
    BY <1>1 DEF OnlySteps
  <2>4. \A t \in X : Left(n, t) => Left(n - 1, t) \/ (t = s[n] /\ s[n] \notin S)
    BY <2>0
  <2>5. \A t \in X : E[t] \in Nat
    OBVIOUS
  <2> HIDE DEF old, Left, p
  <2>6. q \in Nat /\ Cost(E, Append(old, s[n])) = q + E[s[n]]
    BY <2>1, CostAppend
  <2> HIDE DEF q
  <2>7. CASE s[n] \in S
    <3>1. Cost(E, f[n]) = q + E[s[n]]
      BY <2>3, <2>6, <2>7
    <3>2. Saves(n)
      BY <2>1, <2>2, <2>4, <2>5, <2>6, <2>7, <3>1
    <3> HIDE DEF Saves
    <3> QED
      BY <2>0, <3>2
  <2>8. CASE s[n] \notin S
    <3>1. Cost(E, f[n]) = q
      BY <2>3, <2>8 DEF q
    <3>2. Saves(n)
      BY <2>1, <2>2, <2>4, <2>5, <2>6, <2>8, <3>1
    <3> HIDE DEF Saves
    <3> QED
      BY <2>0, <3>2
  <2> QED
    BY <2>7, <2>8
<1>5. \A i \in 1 .. Len(s) : i - 1 \in Good => i \in Good
  BY <1>4
<1> HIDE DEF Good
<1> DEFINE m == Len(s)
<1> HIDE DEF m
<1>6. \A i \in 0 .. m : i \in Good
  <2>1. m \in Nat /\ 0 \in Good /\ \A i \in 1 .. m : i - 1 \in Good => i \in Good
    BY <1>0, <1>3, <1>5 DEF m
  <2> QED
    BY <2>1, UpTo
<1>7. Saves(Len(s))
  BY <1>0, <1>6 DEF Good, m
<1>8. \A t \in ToSet(s) \ S : t \in X /\ Left(Len(s), t)
  BY <1>0 DEF ToSet
<1> HIDE DEF Left
<1> QED
  BY <1>1, <1>2, <1>7, <1>8

-----------------------------------------------------------------------------
(* ranker() *)

\* The length of what is ranked by.
Keys(w) == [1 .. w -> Int]

\* What is compared number by number is in an order.
LEMMA LessFacts ==
    ASSUME NEW w \in Nat, NEW a \in Keys(w), NEW b \in Keys(w)
    PROVE  /\ ~ Less(a, a)
           /\ Less(a, b) => ~ Less(b, a)
           /\ a = b \/ Less(a, b) \/ Less(b, a)
<1>0. /\ DOMAIN a = 1 .. w /\ DOMAIN b = 1 .. w
      /\ \A i \in 1 .. w : a[i] \in Int /\ b[i] \in Int
  BY DEF Keys
<1>1. ~ Less(a, a)
  BY <1>0 DEF Less
<1>2. ASSUME Less(a, b), Less(b, a) PROVE FALSE
  <2>1. PICK i \in 1 .. w : a[i] < b[i] /\ \A j \in 1 .. i - 1 : a[j] = b[j]
    BY <1>0, <1>2 DEF Less
  <2>2. PICK k \in 1 .. w : b[k] < a[k] /\ \A j \in 1 .. k - 1 : b[j] = a[j]
    BY <1>0, <1>2 DEF Less
  <2>3. ~ (i < k) /\ ~ (k < i)
    <3>1. i < k => i \in 1 .. k - 1
      OBVIOUS
    <3>2. k < i => k \in 1 .. i - 1
      OBVIOUS
    <3> QED
      BY <1>0, <2>1, <2>2, <3>1, <3>2
  <2>4. i = k
    BY <2>3
  <2> QED
    BY <1>0, <2>1, <2>2, <2>4
<1>3. ASSUME a # b PROVE Less(a, b) \/ Less(b, a)
  <2> DEFINE D == {i \in 1 .. w : a[i] # b[i]}
  <2>1. D # {} /\ D \in SUBSET Nat
    BY <1>0, <1>3 DEF Keys
  <2>2. PICK i \in D : \A j \in D : i <= j
    BY <2>1, LeastNumber
  <2>3. i \in 1 .. w /\ a[i] # b[i] /\ \A j \in 1 .. i - 1 : a[j] = b[j]
    <3>1. ASSUME NEW j \in 1 .. i - 1 PROVE a[j] = b[j]
      <4>1. j \in 1 .. w /\ ~ (i <= j)
        BY <2>2
      <4> QED
        BY <2>2, <4>1
    <3> QED
      BY <2>2, <3>1
  <2>4. a[i] < b[i] \/ b[i] < a[i]
    BY <1>0, <2>3
  <2> QED
    BY <1>0, <2>3, <2>4 DEF Less
<1> QED
  BY <1>1, <1>2, <1>3

\* The order by which ranker() exchanges neighbours is transitive.
LEMMA LessTransitive ==
    ASSUME NEW w \in Nat, NEW a \in Keys(w), NEW b \in Keys(w), NEW c \in Keys(w),
           Less(a, b), Less(b, c)
    PROVE  Less(a, c)
<1>0. /\ DOMAIN a = 1 .. w /\ DOMAIN b = 1 .. w
      /\ \A i \in 1 .. w : a[i] \in Int /\ b[i] \in Int /\ c[i] \in Int
  BY DEF Keys
<1>1. PICK i \in 1 .. w : a[i] < b[i] /\ \A j \in 1 .. i - 1 : a[j] = b[j]
  BY <1>0 DEF Less
<1>2. PICK k \in 1 .. w : b[k] < c[k] /\ \A j \in 1 .. k - 1 : b[j] = c[j]
  BY <1>0 DEF Less
<1>3. CASE i <= k
  <2>1. \A j \in 1 .. i - 1 : j \in 1 .. k - 1 /\ a[j] = c[j]
    BY <1>1, <1>2, <1>3
  <2>2. a[i] < c[i]
    <3>1. i = k \/ i \in 1 .. k - 1
      BY <1>3
    <3> QED
      BY <1>0, <1>1, <1>2, <3>1
  <2> QED
    BY <1>0, <2>1, <2>2 DEF Less
<1>4. CASE k < i
  <2>1. \A j \in 1 .. k - 1 : j \in 1 .. i - 1 /\ a[j] = c[j]
    BY <1>1, <1>2, <1>4
  <2>2. k \in 1 .. i - 1
    BY <1>4
  <2>3. a[k] < c[k]
    BY <1>0, <1>1, <1>2, <2>2
  <2> QED
    BY <1>0, <2>1, <2>3 DEF Less
<1> QED
  BY <1>3, <1>4

TotalOrder(R, n) ==
    /\ \A i, j \in 1 .. n : i # j => (<<i, j>> \in R \/ <<j, i>> \in R)
    /\ \A i, j \in 1 .. n : i # j => ~ (<<i, j>> \in R /\ <<j, i>> \in R)
    /\ \A i, j, k \in 1 .. n : <<i, j>> \in R /\ <<j, k>> \in R => <<i, k>> \in R

\* What comes before i.
Before(R, n, i) == {j \in 1 .. n : <<j, i>> \in R /\ j # i}

\* Of a total order of 1 .. n, how many come before each: every number less
\* than n once.
LEMMA PlacesInOrder ==
    ASSUME NEW n \in Nat, NEW R, TotalOrder(R, n)
    PROVE  /\ \A i \in 1 .. n : Cardinality(Before(R, n, i)) \in Nat
           /\ \A i, j \in 1 .. n : i # j /\ <<i, j>> \in R =>
                  Cardinality(Before(R, n, i)) < Cardinality(Before(R, n, j))
           /\ \A m \in 1 .. n : \E i \in 1 .. n : Cardinality(Before(R, n, i)) = m - 1
<1> DEFINE r == [i \in 1 .. n |-> Cardinality(Before(R, n, i))]
<1>1. IsFiniteSet(1 .. n) /\ Cardinality(1 .. n) = n
  BY FS_Interval
<1>2. ASSUME NEW i \in 1 .. n
      PROVE  /\ IsFiniteSet(Before(R, n, i)) /\ Cardinality(Before(R, n, i)) \in Nat
             /\ Cardinality(Before(R, n, i)) < n
  <2>1. Before(R, n, i) \in SUBSET (1 .. n) /\ Before(R, n, i) # 1 .. n
    BY DEF Before
  <2>2. /\ IsFiniteSet(Before(R, n, i)) /\ Cardinality(Before(R, n, i)) <= n
        /\ n = Cardinality(Before(R, n, i)) => 1 .. n = Before(R, n, i)
    BY <1>1, <2>1, FS_Subset
  <2>3. Cardinality(Before(R, n, i)) \in Nat
    BY <2>2, FS_CardinalityType
  <2> QED
    BY <2>1, <2>2, <2>3
<1>3. ASSUME NEW i \in 1 .. n, NEW j \in 1 .. n, i # j, <<i, j>> \in R
      PROVE  Cardinality(Before(R, n, i)) < Cardinality(Before(R, n, j))
  <2>1. ASSUME NEW k \in Before(R, n, i) PROVE k \in Before(R, n, j)
    <3>1. k \in 1 .. n /\ <<k, i>> \in R /\ k # i
      BY DEF Before
    <3>2. <<k, j>> \in R
      BY <1>3, <3>1 DEF TotalOrder
    <3>3. k # j
      BY <1>3, <3>1 DEF TotalOrder
    <3> QED
      BY <3>1, <3>2, <3>3 DEF Before
  <2>2. i \in Before(R, n, j) /\ i \notin Before(R, n, i)
    BY <1>3 DEF Before
  <2>3. Before(R, n, i) \in SUBSET Before(R, n, j) /\ Before(R, n, i) # Before(R, n, j)
    BY <2>1, <2>2
  <2>4. /\ Cardinality(Before(R, n, i)) <= Cardinality(Before(R, n, j))
        /\ Cardinality(Before(R, n, j)) = Cardinality(Before(R, n, i))
             => Before(R, n, j) = Before(R, n, i)
    BY <1>2, <2>3, FS_Subset
  <2> QED
    BY <1>2, <2>3, <2>4
<1>4. r \in [1 .. n -> 0 .. n - 1] /\ \A i \in 1 .. n : r[i] = Cardinality(Before(R, n, i))
  BY <1>2
<1>5. r \in Injection(1 .. n, 0 .. n - 1)
  <2>1. ASSUME NEW i \in 1 .. n, NEW j \in 1 .. n, r[i] = r[j] PROVE i = j
    <3>1. CASE <<i, j>> \in R
      BY <1>2, <1>3, <1>4, <2>1, <3>1
    <3>2. CASE <<j, i>> \in R
      BY <1>2, <1>3, <1>4, <2>1, <3>2
    <3> QED
      BY <3>1, <3>2 DEF TotalOrder
  <2> HIDE DEF r
  <2>2. DOMAIN r = 1 .. n
    BY <1>4
  <2> QED
    BY <1>4, <2>1, <2>2 DEF Injection, IsInjective
<1>6. IsFiniteSet(0 .. n - 1) /\ Cardinality(0 .. n - 1) = n
  BY FS_Interval
<1>7. r \in Surjection(1 .. n, 0 .. n - 1)
  <2> HIDE DEF r
  <2> QED
    BY <1>1, <1>5, <1>6, FS_Injection
<1>8. ASSUME NEW m \in 1 .. n PROVE \E i \in 1 .. n : Cardinality(Before(R, n, i)) = m - 1
  <2>1. m - 1 \in 0 .. n - 1
    OBVIOUS
  <2>2. PICK i \in 1 .. n : r[i] = m - 1
    BY <1>7, <2>1 DEF Surjection
  <2> QED
    BY <1>4, <2>2
<1> QED
  BY <1>2, <1>3, <1>8

\* ranker() leaves what is ranked by in its order, each place once.
LEMMA SortedFacts ==
    ASSUME NEW n \in Nat, NEW w \in Nat, NEW keys \in [1 .. n -> Keys(w)]
    PROVE  /\ Sorted(keys) \in [1 .. n -> 1 .. n]
           /\ IsInjective(Sorted(keys))
           /\ \A i \in 1 .. n : \E m \in 1 .. n : Sorted(keys)[m] = i
           /\ \A l, m \in 1 .. n : l < m => ~ Less(keys[Sorted(keys)[m]], keys[Sorted(keys)[l]])
<1> DEFINE before(i, j) == Less(keys[i], keys[j]) \/ (i < j /\ ~ Less(keys[j], keys[i]))
           R == {p \in (1 .. n) \X (1 .. n) : before(p[1], p[2])}
           Place(i) == Cardinality(Before(R, n, i))
           order == [m \in 1 .. n |-> CHOOSE i \in 1 .. n : Place(i) = m - 1]
<1>1. \A i, j \in 1 .. n : <<i, j>> \in R <=> before(i, j)
  OBVIOUS
<1>2. \A i, j \in 1 .. n :
        before(i, j) <=> Less(keys[i], keys[j]) \/ (i < j /\ keys[i] = keys[j])
  <2> SUFFICES ASSUME NEW i \in 1 .. n, NEW j \in 1 .. n
      PROVE  before(i, j) <=> Less(keys[i], keys[j]) \/ (i < j /\ keys[i] = keys[j])
    OBVIOUS
  <2>1. keys[i] \in Keys(w) /\ keys[j] \in Keys(w)
    OBVIOUS
  <2> QED
    BY <2>1, LessFacts
<1>3. ASSUME NEW i \in 1 .. n, NEW j \in 1 .. n, i # j PROVE <<i, j>> \in R \/ <<j, i>> \in R
  <2>1. keys[i] \in Keys(w) /\ keys[j] \in Keys(w) /\ (i < j \/ j < i)
    BY <1>3
  <2>2. keys[i] = keys[j] \/ Less(keys[i], keys[j]) \/ Less(keys[j], keys[i])
    BY <2>1, LessFacts
  <2> HIDE DEF R, before
  <2> QED
    BY <1>1, <1>2, <2>1, <2>2
<1>4. ASSUME NEW i \in 1 .. n, NEW j \in 1 .. n, i # j, <<i, j>> \in R, <<j, i>> \in R PROVE FALSE
  <2>1. keys[i] \in Keys(w) /\ keys[j] \in Keys(w) /\ ~ (i < j /\ j < i)
    BY <1>4
  <2>2. /\ ~ Less(keys[i], keys[i]) /\ ~ Less(keys[j], keys[j])
        /\ Less(keys[i], keys[j]) => ~ Less(keys[j], keys[i])
    BY <2>1, LessFacts
  <2>3. before(i, j) /\ before(j, i)
    BY <1>1, <1>4
  <2> HIDE DEF R, before
  <2> QED
    BY <1>2, <2>1, <2>2, <2>3
<1>5. ASSUME NEW i \in 1 .. n, NEW j \in 1 .. n, NEW k \in 1 .. n, <<i, j>> \in R, <<j, k>> \in R
      PROVE  <<i, k>> \in R
  <2>1. /\ keys[i] \in Keys(w) /\ keys[j] \in Keys(w) /\ keys[k] \in Keys(w)
        /\ i < j /\ j < k => i < k
    OBVIOUS
  <2>2. Less(keys[i], keys[j]) /\ Less(keys[j], keys[k]) => Less(keys[i], keys[k])
    BY <2>1, LessTransitive
  <2>3. before(i, j) /\ before(j, k)
    BY <1>1, <1>5
  <2> HIDE DEF R, before
  <2>4. before(i, k)
    BY <1>2, <2>1, <2>2, <2>3
  <2> QED
    BY <1>1, <2>4
<1>6. Sorted(keys) = order
  <2>1. DOMAIN keys = 1 .. n
    OBVIOUS
  <2>2. \A i \in 1 .. n : {j \in 1 .. n : before(j, i) /\ j # i} = Before(R, n, i)
    BY DEF Before
  <2> HIDE DEF R
  <2>3. Sorted(keys) = [m \in 1 .. n |->
            CHOOSE i \in 1 .. n : Cardinality({j \in 1 .. n : before(j, i) /\ j # i}) = m - 1]
    BY <2>1 DEF Sorted
  <2> HIDE DEF before
  <2>4. \A m \in 1 .. n : (CHOOSE i \in 1 .. n : Cardinality({j \in 1 .. n : before(j, i) /\ j # i}) = m - 1)
                          = CHOOSE i \in 1 .. n : Place(i) = m - 1
    BY <2>2
  <2> QED
    BY <2>3, <2>4
<1> HIDE DEF R, before
<1>7. /\ \A i \in 1 .. n : Place(i) \in Nat
      /\ \A i, j \in 1 .. n : i # j /\ <<i, j>> \in R => Place(i) < Place(j)
      /\ \A m \in 1 .. n : \E i \in 1 .. n : Place(i) = m - 1
  <2>1. TotalOrder(R, n)
    BY <1>3, <1>4, <1>5 DEF TotalOrder
  <2>2. /\ \A i \in 1 .. n : Cardinality(Before(R, n, i)) \in Nat
        /\ \A i, j \in 1 .. n : i # j /\ <<i, j>> \in R =>
               Cardinality(Before(R, n, i)) < Cardinality(Before(R, n, j))
        /\ \A m \in 1 .. n : \E i \in 1 .. n : Cardinality(Before(R, n, i)) = m - 1
    BY <2>1, PlacesInOrder
  <2> QED
    BY <2>2
<1> HIDE DEF Place
<1>8. \A m \in 1 .. n : order[m] \in 1 .. n /\ Place(order[m]) = m - 1
  BY <1>7
<1>9. order \in [1 .. n -> 1 .. n]
  BY <1>8
<1> HIDE DEF order
<1>10. IsInjective(order)
  <2>1. ASSUME NEW l \in 1 .. n, NEW m \in 1 .. n, order[l] = order[m] PROVE l = m
    <3>1. l - 1 = m - 1
      BY <1>8, <2>1
    <3> QED
      BY <3>1
  <2> QED
    BY <1>9, <2>1 DEF IsInjective
<1>11. ASSUME NEW i \in 1 .. n PROVE \E m \in 1 .. n : order[m] = i
  <2>1. order \in Injection(1 .. n, 1 .. n)
    BY <1>9, <1>10 DEF Injection
  <2>2. IsFiniteSet(1 .. n)
    BY FS_Interval
  <2>3. order \in Surjection(1 .. n, 1 .. n)
    BY <2>1, <2>2, FS_Injection
  <2> QED
    BY <2>3 DEF Surjection
<1>12. ASSUME NEW l \in 1 .. n, NEW m \in 1 .. n, l < m
       PROVE  ~ Less(keys[order[m]], keys[order[l]])
  <2>1. SUFFICES ASSUME Less(keys[order[m]], keys[order[l]]) PROVE FALSE
    OBVIOUS
  <2>2. order[l] \in 1 .. n /\ order[m] \in 1 .. n /\ order[l] # order[m]
    BY <1>8, <1>9, <1>10, <1>12 DEF IsInjective
  <2>3. <<order[m], order[l]>> \in R
    BY <1>1, <1>2, <2>1, <2>2
  <2>4. Place(order[m]) < Place(order[l])
    BY <1>7, <2>2, <2>3
  <2> QED
    BY <1>8, <1>12, <2>4
<1> QED
  BY <1>6, <1>9, <1>10, <1>11, <1>12

\* A part is no longer than what it is a part of.
LEMMA PicksLength ==
    ASSUME NEW X, NEW s \in Seq(X), NEW o \in Seq(X), NEW S, NEW e, Picks(e, o, s, S, Len(s))
    PROVE  Len(o) <= Len(s)
<1> DEFINE n == Len(o)
           Good == {i \in 0 .. n : i = 0 \/ i <= e[i]}
<1>0. n \in Nat /\ Len(s) \in Nat
  OBVIOUS
<1>1. /\ \A i \in 1 .. n : e[i] \in 1 .. Len(s)
      /\ \A i, j \in 1 .. n : i < j => e[i] < e[j]
  BY DEF Picks
<1> HIDE DEF n
<1>2. 0 \in Good
  BY <1>0
<1>3. ASSUME NEW i \in 1 .. n, i - 1 \in Good PROVE i \in Good
  <2>1. CASE i = 1
    BY <1>0, <1>1, <2>1
  <2>2. CASE i # 1
    <3>1. i - 1 \in 1 .. n /\ i - 1 < i
      BY <1>0, <2>2
    <3>2. e[i - 1] < e[i] /\ i - 1 <= e[i - 1]
      BY <1>1, <1>3, <3>1
    <3>3. e[i] \in Nat /\ e[i - 1] \in Nat /\ i \in 0 .. n
      BY <1>0, <1>1, <3>1
    <3> QED
      BY <3>2, <3>3
  <2> QED
    BY <2>1, <2>2
<1> HIDE DEF Good
<1>4. \A i \in 0 .. n : i \in Good
  <2>1. \A i \in 1 .. n : i - 1 \in Good => i \in Good
    BY <1>3
  <2> QED
    BY <1>0, <1>2, <2>1, UpTo
<1>5. CASE n = 0
  BY <1>0, <1>5 DEF n
<1>6. CASE n # 0
  <2>1. n \in 1 .. n /\ n <= e[n]
    BY <1>0, <1>4, <1>6 DEF Good
  <2> QED
    BY <1>0, <1>1, <2>1 DEF n
<1> QED
  BY <1>5, <1>6

-----------------------------------------------------------------------------
(* What the actions are ranked by *)

\* A list of actions, in which what is in use has a type.
History(l) ==
    l \in Seq(Entry) /\ \A i \in 1 .. Len(l) : l[i].state # "NULL" => l[i].type # NULL

\* What is in use fits the list and has types (actionRankTypes()).
LEMMA UsedFacts ==
    ASSUME NEW l, History(l)
    PROVE  /\ Used(l) \in Seq(Entry) /\ Len(Used(l)) <= Len(l)
           /\ \A i \in 1 .. Len(Used(l)) : Used(l)[i].type \in ActionType
<1> DEFINE S == {e \in ToSet(l) : e.state \in {"REQUESTED", "COMPLETED"}}
           o == Only(l, S)
<1>1. l \in Seq(Entry) /\ \A i \in 1 .. Len(l) : l[i].state # "NULL" => l[i].type # NULL
  BY DEF History
<1>2. o = Used(l)
  BY DEF Used
<1>3. \A e \in S : e \in ToSet(l) /\ e.state # "NULL"
  OBVIOUS
<1>4. \A e \in S : e \in Entry /\ e.type # NULL
  BY <1>1, <1>3 DEF ToSet
<1> HIDE DEF S
<1>5. o \in Seq(Entry) /\ \E e : Picks(e, o, l, S, Len(l))
  BY <1>1, OnlyPicks
<1> HIDE DEF o
<1>6. Len(o) <= Len(l)
  BY <1>1, <1>5, PicksLength
<1>7. \A i \in 1 .. Len(o) : o[i] \in S
  BY <1>5 DEF Picks
<1>8. \A e \in S : e.type \in ActionType
  BY <1>4 DEF Entry
<1> QED
  BY <1>2, <1>5, <1>6, <1>7, <1>8

\* A maximum of numbers, and 0.
LEMMA GreatestNumber ==
    ASSUME NEW n \in Nat, NEW f \in [1 .. n -> Nat]
    PROVE  Max({0} \cup {f[i] : i \in 1 .. n}) \in Nat
<1> DEFINE Upper(m, x) == x \in {0} \cup {f[i] : i \in 1 .. n} /\ \A i \in 1 .. m : f[i] <= x
           Good == {m \in 0 .. n : \E x : Upper(m, x)}
<1>1. 0 \in Good
  <2>1. Upper(0, 0)
    OBVIOUS
  <2> HIDE DEF Upper
  <2> QED
    BY <2>1
<1>2. ASSUME NEW m \in 1 .. n, m - 1 \in Good PROVE m \in Good
  <2>1. PICK x : Upper(m - 1, x)
    BY <1>2
  <2>2. x \in Nat /\ f[m] \in Nat /\ \A i \in 1 .. m : i = m \/ i \in 1 .. m - 1
    BY <2>1
  <2>3. CASE f[m] <= x
    <3>1. Upper(m, x)
      BY <2>1, <2>2, <2>3
    <3> HIDE DEF Upper
    <3> QED
      BY <3>1
  <2>4. CASE x < f[m]
    <3>1. \A i \in 1 .. m : f[i] <= f[m]
      BY <2>1, <2>2, <2>4
    <3>2. Upper(m, f[m])
      BY <3>1
    <3> HIDE DEF Upper
    <3> QED
      BY <3>2
  <2> QED
    BY <2>2, <2>3, <2>4
<1> HIDE DEF Good
<1>3. \A m \in 0 .. n : m \in Good
  <2>1. \A m \in 1 .. n : m - 1 \in Good => m \in Good
    BY <1>2
  <2> QED
    BY <1>1, <2>1, UpTo
<1>4. PICK x : Upper(n, x)
  <2>1. n \in 0 .. n
    OBVIOUS
  <2>2. n \in {m \in 0 .. n : \E x : Upper(m, x)}
    BY <1>3, <2>1 DEF Good
  <2> HIDE DEF Upper
  <2> QED
    BY <2>2
<1>5. \E y \in {0} \cup {f[i] : i \in 1 .. n} : \A z \in {0} \cup {f[i] : i \in 1 .. n} : y >= z
  BY <1>4
<1>6. Max({0} \cup {f[i] : i \in 1 .. n}) \in {0} \cup {f[i] : i \in 1 .. n}
  BY <1>5 DEF Max
<1> QED
  BY <1>6

\* The peak variability is a number, whatever has been measured.
LEMMA PeakNat == ASSUME NEW l, History(l), NEW t \in ActionType PROVE Peak(l, t) \in Nat
<1> DEFINE S == {e \in ToSet(l) : e.type = t /\ e.value # NULL}
           with == Only(Used(l), S)
           v == Values(l, t)
<1>1. v = [i \in DOMAIN with |-> with[i].value]
  BY DEF Values
<1>2. \A e \in S : e.value # NULL
  OBVIOUS
<1> HIDE DEF S
<1>3. with \in Seq(Entry) /\ \E e : Picks(e, with, Used(l), S, Len(Used(l)))
  BY UsedFacts, OnlyPicks
<1> HIDE DEF with
<1>4. \A i \in 1 .. Len(with) : with[i] \in Entry /\ with[i] \in S
  BY <1>3 DEF Picks
<1>5. \A i \in 1 .. Len(with) : with[i].value \in Int
  BY <1>2, <1>4 DEF Entry
<1>6. v \in Seq(Int)
  <2>1. DOMAIN with = 1 .. Len(with) /\ Len(with) \in Nat
    BY <1>3
  <2> HIDE DEF v
  <2> QED
    BY <1>1, <1>5, <2>1
<1> HIDE DEF v
<1>7. ASSUME NEW i \in 1 .. Len(v) - 1 PROVE Difference(v[i], v[i + 1]) \div Damper[t] \in Nat
  <2>1. v[i] \in Int /\ v[i + 1] \in Int
    BY <1>6
  <2>2. Difference(v[i], v[i + 1]) \in Nat
    BY <2>1 DEF Difference
  <2>3. Damper[t] \in Nat \ {0}
    BY DesirabilityAssumption
  <2> QED
    BY <2>2, <2>3
<1>8. PICK n \in Nat : 1 .. Len(v) - 1 = 1 .. n
  <2>1. Len(v) \in Nat
    BY <1>6
  <2>2. CASE Len(v) = 0
    <3>1. 1 .. Len(v) - 1 = 1 .. 0
      BY <2>2
    <3> QED
      BY <3>1
  <2>3. CASE Len(v) # 0
    BY <2>1, <2>3
  <2> QED
    BY <2>2, <2>3
<1> DEFINE f == [i \in 1 .. n |-> Difference(v[i], v[i + 1]) \div Damper[t]]
<1>9. f \in [1 .. n -> Nat]
  BY <1>7, <1>8
<1>10. Max({0} \cup {f[i] : i \in 1 .. n}) \in Nat
  <2> HIDE DEF f
  <2> QED
    BY <1>9, GreatestNumber
<1>11. {f[i] : i \in 1 .. n} = {Difference(v[i], v[i + 1]) \div Damper[t] : i \in 1 .. Len(v) - 1}
  BY <1>8
<1> HIDE DEF f
<1>12. Peak(l, t) = Max({0} \cup {f[i] : i \in 1 .. n})
  BY <1>11 DEF Peak, v
<1> QED
  BY <1>10, <1>12

\* An action is ranked by five numbers (condition()).
LEMMA KeyIsNumbers ==
    ASSUME NEW l, History(l), NEW e \in Entry, e.type \in ActionType
    PROVE  Key(l, e) \in Keys(5)
<1>1. Occurrence(l, e.type) \in Nat
  <2> DEFINE u == Used(l)
             T == {i \in DOMAIN u : u[i].type = e.type}
  <2>1. u \in Seq(Entry)
    BY UsedFacts
  <2>2. Occurrence(l, e.type) = Cardinality(T)
    BY DEF Occurrence
  <2> HIDE DEF u
  <2>3. T \in SUBSET (1 .. Len(u)) /\ IsFiniteSet(1 .. Len(u))
    BY <2>1, FS_Interval
  <2> HIDE DEF T
  <2>4. IsFiniteSet(T)
    BY <2>3, FS_Subset
  <2> QED
    BY <2>2, <2>4, FS_CardinalityType
<1>2. Peak(l, e.type) \in Nat
  BY PeakNat
<1>3. Desirability[e.type] \in Nat /\ e.cost \in Nat /\ e.time \in Nat
  BY DesirabilityAssumption DEF Entry
<1>4. -Desirability[e.type] \in Int /\ -Peak(l, e.type) \in Int
  BY <1>2, <1>3
<1>5. \A a, b, c, d, f \in Int : <<a, b, c, d, f>> \in [1 .. 5 -> Int]
  OBVIOUS
<1> QED
  BY <1>1, <1>3, <1>4, <1>5 DEF Key, Keys

\* gpRankedList holds types or NULL.  Without unused entries it is every
\* action once, in the order of what they are ranked by.
LEMMA RankedListFacts ==
    ASSUME NEW l, History(l), NEW k \in Keys(5)
    PROVE  /\ RankedList(l, k) \in Seq(ActionType \cup {NULL})
           /\ Len(RankedList(l, k)) = Len(l)
<1> DEFINE u == Used(l)
           keys == [i \in DOMAIN l |-> IF i <= Len(u) THEN Key(l, u[i]) ELSE k]
           order == Sorted(keys)
           n == Len(l)
           r == RankedList(l, k)
<1>1. r = [m \in DOMAIN l |-> IF order[m] <= Len(u) THEN u[order[m]].type ELSE NULL]
  BY DEF RankedList
<1>2. /\ n \in Nat /\ DOMAIN l = 1 .. n
      /\ u \in Seq(Entry) /\ Len(u) <= n /\ \A i \in 1 .. Len(u) : u[i].type \in ActionType
  BY UsedFacts DEF History
<1>3. keys \in [1 .. n -> Keys(5)]
  <2>1. ASSUME NEW i \in 1 .. Len(u) PROVE Key(l, u[i]) \in Keys(5)
    <3>1. u[i] \in Entry /\ u[i].type \in ActionType
      BY <1>2
    <3> HIDE DEF u
    <3> QED
      BY <3>1, KeyIsNumbers
  <2>2. \A i \in 1 .. n : i <= Len(u) => i \in 1 .. Len(u)
    OBVIOUS
  <2> HIDE DEF u, n
  <2> QED
    BY <1>2, <2>1, <2>2
<1> HIDE DEF keys, n
<1>4. order \in [1 .. n -> 1 .. n]
  BY <1>2, <1>3, SortedFacts
<1> HIDE DEF order, u
<1>5. ASSUME NEW m \in 1 .. n
      PROVE  (IF order[m] <= Len(u) THEN u[order[m]].type ELSE NULL) \in ActionType \cup {NULL}
  <2>1. order[m] \in 1 .. n
    BY <1>4
  <2>2. order[m] <= Len(u) => order[m] \in 1 .. Len(u)
    BY <1>2, <2>1
  <2> QED
    BY <1>2, <2>2
<1> HIDE DEF r
<1>6. r \in [1 .. n -> ActionType \cup {NULL}]
  BY <1>1, <1>2, <1>5
<1> QED
  BY <1>2, <1>6 DEF r, n

-----------------------------------------------------------------------------
(* actionRankTypes() *)

\* The recursion of FromActions.
FirstSteps(f, r) ==
    /\ f \in [0 .. Len(r) -> Seq(ActionType)] /\ f[0] = <<>>
    /\ \A n \in 1 .. Len(r) :
           f[n] = IF (\E m \in 1 .. n : r[m] = NULL) \/ r[n] \in ToSet(f[n - 1]) \/ Desirability[r[n]] = 0
                  THEN f[n - 1] ELSE Append(f[n - 1], r[n])

\* What FromActions returns is the last step of that recursion.
LEMMA FromActionsIsRecursive ==
    ASSUME NEW r \in Seq(ActionType \cup {NULL})
    PROVE  \E f : FirstSteps(f, r) /\ FromActions(r) = f[Len(r)]
<1> DEFINE n == Len(r)
           Out(i, o) == (\E m \in 1 .. i : r[m] = NULL) \/ r[i] \in ToSet(o) \/ Desirability[r[i]] = 0
           step == [i \in 1 .. n |-> [o \in Seq(ActionType) |->
                        IF Out(i, o) THEN o ELSE Append(o, r[i])]]
           IsFirst(f) == f = [i \in 0 .. Len(r) |->
                IF i = 0 THEN <<>> ELSE IF Out(i, f[i - 1]) THEN f[i - 1] ELSE Append(f[i - 1], r[i])]
<1>0. n \in Nat /\ \A i \in 1 .. n : r[i] \in ActionType \cup {NULL}
  OBVIOUS
<1>1. step \in [1 .. n -> [Seq(ActionType) -> Seq(ActionType)]] /\ <<>> \in Seq(ActionType)
  <2>1. ASSUME NEW i \in 1 .. n, NEW o \in Seq(ActionType), ~ Out(i, o)
        PROVE  Append(o, r[i]) \in Seq(ActionType)
    <3>1. r[i] # NULL
      BY <2>1
    <3>2. r[i] \in ActionType
      BY <1>0, <3>1
    <3> QED
      BY <3>2
  <2> HIDE DEF Out, n
  <2> QED
    BY <2>1
<1>2. \A i \in 1 .. n : \A o \in Seq(ActionType) :
        step[i][o] = IF Out(i, o) THEN o ELSE Append(o, r[i])
  <2> HIDE DEF Out
  <2> QED
    OBVIOUS
<1> HIDE DEF step
<1>3. PICK f : Recursion(f, n, Seq(ActionType), <<>>, step)
  <2> HIDE DEF n
  <2> QED
    BY <1>0, <1>1, RecursionExists
<1>4. FirstSteps(f, r)
  <2>1. ASSUME NEW i \in 1 .. n PROVE f[i] = IF Out(i, f[i - 1]) THEN f[i - 1] ELSE Append(f[i - 1], r[i])
    <3>1. i - 1 \in 0 .. n
      BY <1>0
    <3>2. f[i - 1] \in Seq(ActionType)
      BY <1>3, <3>1 DEF Recursion
    <3> HIDE DEF Out
    <3> QED
      BY <1>2, <1>3, <3>2 DEF Recursion
  <2> QED
    BY <1>3, <2>1 DEF FirstSteps, Recursion
<1>5. IsFirst(f)
  <2>1. f = [i \in 0 .. n |-> f[i]]
    BY <1>3 DEF Recursion
  <2>2. \A i \in 0 .. n : f[i] =
          IF i = 0 THEN <<>> ELSE IF Out(i, f[i - 1]) THEN f[i - 1] ELSE Append(f[i - 1], r[i])
    <3>1. ASSUME NEW i \in 0 .. n, i # 0 PROVE i \in 1 .. n
      BY <1>0, <3>1
    <3> QED
      BY <1>4, <3>1 DEF FirstSteps
  <2> HIDE DEF Out
  <2> QED
    BY <2>1, <2>2
<1>6. PICK g : IsFirst(g) /\ FromActions(r) = g[Len(r)]
  <2> DEFINE types == CHOOSE g : IsFirst(g)
  <2>1. FromActions(r) = types[Len(r)]
    BY DEF FromActions
  <2> HIDE DEF IsFirst
  <2>2. IsFirst(types)
    BY <1>5
  <2> QED
    BY <2>1, <2>2
<1>7. g[0] = <<>>
  BY <1>0, <1>6
<1>8. ASSUME NEW i \in 1 .. n, f[i - 1] = g[i - 1] PROVE f[i] = g[i]
  <2>1. i \in 0 .. n /\ i # 0
    BY <1>0
  <2>2. g[i] = IF Out(i, g[i - 1]) THEN g[i - 1] ELSE Append(g[i - 1], r[i])
    <3> HIDE DEF Out
    <3> QED
      BY <1>6, <2>1
  <2> QED
    BY <1>4, <1>8, <2>2 DEF FirstSteps
<1>9. f[n] = g[n]
  <2>1. f[0] = g[0] /\ \A i \in 1 .. n : f[i - 1] = g[i - 1] => f[i] = g[i]
    BY <1>3, <1>7, <1>8 DEF Recursion
  <2> HIDE DEF n, IsFirst
  <2>2. \A i \in 0 .. n : f[i] = g[i]
    BY <1>0, <2>1, RecursionUnique
  <2> QED
    BY <1>0, <2>2
<1> QED
  BY <1>4, <1>6, <1>9

\* The types of o are where they first are in the first n of r, and each
\* type in them that comes before any NULL is among the types.
FirstPlaces(e, o, r, n) ==
    /\ e \in [1 .. Len(o) -> 1 .. n]
    /\ \A i, j \in 1 .. Len(o) : i < j => e[i] < e[j]
    /\ \A i \in 1 .. Len(o) : o[i] = r[e[i]] /\ Desirability[o[i]] # 0
    /\ \A i \in 1 .. Len(o) : \A m \in 1 .. e[i] - 1 : r[m] # o[i]
    /\ \A m \in 1 .. n : (\A k \in 1 .. m : r[k] # NULL) /\ Desirability[r[m]] # 0 => r[m] \in ToSet(o)

\* FromActions returns the types at their first places, before any NULL.
LEMMA FromActionsFacts ==
    ASSUME NEW r \in Seq(ActionType \cup {NULL})
    PROVE  /\ FromActions(r) \in Seq(ActionType)
           /\ \E e : FirstPlaces(e, FromActions(r), r, Len(r))
<1>0. Len(r) \in Nat
  OBVIOUS
<1>1. PICK f : FirstSteps(f, r) /\ FromActions(r) = f[Len(r)]
  BY FromActionsIsRecursive
<1> DEFINE Good == {n \in 0 .. Len(r) : \E e : FirstPlaces(e, f[n], r, n)}
<1>2. 0 \in Good
  <2>1. f[0] = <<>>
    BY <1>1 DEF FirstSteps
  <2>2. FirstPlaces(<<>>, <<>>, r, 0)
    BY DEF FirstPlaces
  <2> QED
    BY <1>0, <2>1, <2>2
<1>3. ASSUME NEW n \in 1 .. Len(r), n - 1 \in Good PROVE n \in Good
  <2>0. n \in Nat /\ n - 1 \in 0 .. Len(r) /\ n \in 0 .. Len(r)
    BY <1>0
  <2>1. PICK e : FirstPlaces(e, f[n - 1], r, n - 1)
    BY <1>3
  <2> DEFINE old == f[n - 1]
             Out == (\E m \in 1 .. n : r[m] = NULL) \/ r[n] \in ToSet(old) \/ Desirability[r[n]] = 0
  <2>2. old \in Seq(ActionType) /\ Len(old) \in Nat /\ DOMAIN old = 1 .. Len(old)
    BY <1>1, <2>0 DEF FirstSteps
  <2>3. FirstPlaces(e, old, r, n - 1)
    BY <2>1
  <2>4. f[n] = IF Out THEN old ELSE Append(old, r[n])
    BY <1>1 DEF FirstSteps
  <2>5. CASE ~ Out
    <3>1. f[n] = Append(old, r[n])
      BY <2>4, <2>5
    <3>a. (\A m \in 1 .. n : r[m] # NULL) /\ r[n] \notin ToSet(old) /\ Desirability[r[n]] # 0
      BY <2>5
    <3> HIDE DEF old, Out
    <3> DEFINE new == Append(old, r[n])
               d == [i \in 1 .. Len(old) + 1 |-> IF i = Len(old) + 1 THEN n ELSE e[i]]
    <3>2. /\ Len(new) = Len(old) + 1 /\ new[Len(old) + 1] = r[n]
          /\ \A i \in 1 .. Len(old) : new[i] = old[i]
          /\ DOMAIN new = 1 .. Len(old) + 1
      BY <2>2
    <3>3. /\ d[Len(old) + 1] = n
          /\ \A i \in 1 .. Len(old) : d[i] = e[i] /\ e[i] \in 1 .. n - 1
      BY <2>2, <2>3 DEF FirstPlaces
    <3>4. d \in [1 .. Len(new) -> 1 .. n]
      BY <2>0, <2>2, <2>3, <3>2 DEF FirstPlaces
    <3>5. \A i \in 1 .. Len(new) : i \in 1 .. Len(old) \/ i = Len(old) + 1
      BY <2>2, <3>2
    <3> HIDE DEF d, new
    <3>6. ASSUME NEW i \in 1 .. Len(new), NEW j \in 1 .. Len(new), i < j PROVE d[i] < d[j]
      <4>1. i \in 1 .. Len(old)
        BY <2>2, <3>5, <3>6
      <4>2. CASE j \in 1 .. Len(old)
        BY <2>3, <3>3, <3>6, <4>1, <4>2 DEF FirstPlaces
      <4>3. CASE j = Len(old) + 1
        BY <2>0, <3>3, <4>1, <4>3
      <4> QED
        BY <3>5, <4>2, <4>3
    <3>7. \A i \in 1 .. Len(new) : new[i] = r[d[i]] /\ Desirability[new[i]] # 0
      BY <2>3, <3>a, <3>2, <3>3, <3>5 DEF FirstPlaces
    <3>8. ASSUME NEW i \in 1 .. Len(new), NEW m \in 1 .. d[i] - 1 PROVE r[m] # new[i]
      <4>1. CASE i \in 1 .. Len(old)
        BY <2>3, <3>2, <3>3, <4>1 DEF FirstPlaces
      <4>2. CASE i = Len(old) + 1
        <5>1. m \in 1 .. n - 1 /\ new[i] = r[n] /\ \A k \in 1 .. m : k \in 1 .. n
          BY <2>0, <3>2, <3>3, <4>2
        <5>2. r[m] = r[n] => r[m] \in ToSet(old)
          BY <2>3, <3>a, <5>1 DEF FirstPlaces
        <5> QED
          BY <3>a, <5>1, <5>2
      <4> QED
        BY <3>5, <4>1, <4>2
    <3>9. ASSUME NEW m \in 1 .. n, \A k \in 1 .. m : r[k] # NULL, Desirability[r[m]] # 0
          PROVE  r[m] \in ToSet(new)
      <4>1. CASE m = n
        BY <2>2, <3>2, <4>1 DEF ToSet
      <4>2. CASE m # n
        <5>1. m \in 1 .. n - 1
          BY <2>0, <4>2
        <5>2. r[m] \in ToSet(old)
          BY <2>3, <3>9, <5>1 DEF FirstPlaces
        <5> QED
          BY <2>2, <3>2, <5>2 DEF ToSet
      <4> QED
        BY <4>1, <4>2
    <3>10. FirstPlaces(d, new, r, n)
      BY <3>4, <3>6, <3>7, <3>8, <3>9 DEF FirstPlaces
    <3>11. f[n] = new
      BY <3>1 DEF new
    <3> QED
      BY <2>0, <3>10, <3>11
  <2>6. CASE Out
    <3>1. f[n] = old
      BY <2>4, <2>6
    <3>2. n \in 1 .. n /\ \A m \in 1 .. n : m = n \/ m \in 1 .. n - 1
      BY <2>0
    <3>3. ASSUME NEW m \in 1 .. n, \A k \in 1 .. m : r[k] # NULL, Desirability[r[m]] # 0
          PROVE  r[m] \in ToSet(old)
      <4>1. CASE m = n
        BY <2>6, <3>3, <4>1
      <4>2. CASE m \in 1 .. n - 1
        <5> HIDE DEF old
        <5> QED
          BY <2>3, <3>3, <4>2 DEF FirstPlaces
      <4> QED
        BY <3>2, <4>1, <4>2
    <3> HIDE DEF old, Out
    <3>4. e \in [1 .. Len(old) -> 1 .. n]
      BY <2>0, <2>3 DEF FirstPlaces
    <3>5. FirstPlaces(e, old, r, n)
      BY <2>3, <3>3, <3>4 DEF FirstPlaces
    <3> QED
      BY <2>0, <3>1, <3>5
  <2> QED
    BY <2>5, <2>6
<1> HIDE DEF Good
<1>4. Len(r) \in Good
  BY <1>0, <1>2, <1>3, UpTo
<1>5. \E e : FirstPlaces(e, FromActions(r), r, Len(r))
  BY <1>1, <1>4 DEF Good
<1>6. FromActions(r) \in Seq(ActionType)
  BY <1>0, <1>1 DEF FirstSteps
<1> QED
  BY <1>5, <1>6

\* Two sequences without repetition, and nothing in both.
LEMMA ConcatFacts ==
    ASSUME NEW X, NEW s \in Seq(X), NEW t \in Seq(X),
           IsInjective(s), IsInjective(t), ToSet(s) \cap ToSet(t) = {}
    PROVE  s \o t \in Seq(X) /\ IsInjective(s \o t) /\ ToSet(s \o t) = ToSet(s) \cup ToSet(t)
<1> DEFINE c == s \o t
           n == Len(s)
           p == Len(t)
<1>1. /\ c \in Seq(X) /\ Len(c) = n + p /\ n \in Nat /\ p \in Nat
      /\ \A i \in 1 .. n + p : c[i] = IF i <= n THEN s[i] ELSE t[i - n]
  OBVIOUS
<1>2. DOMAIN c = 1 .. n + p /\ DOMAIN s = 1 .. n /\ DOMAIN t = 1 .. p
  OBVIOUS
<1> HIDE DEF c, n, p
<1>3. \A i \in 1 .. n : i \in 1 .. n + p /\ c[i] = s[i] /\ s[i] \in ToSet(s)
  <2>1. \A i \in 1 .. n : i \in 1 .. n + p /\ i <= n
    BY <1>1
  <2>2. \A i \in 1 .. n : s[i] \in ToSet(s)
    BY <1>2 DEF ToSet
  <2> QED
    BY <1>1, <2>1, <2>2
<1>4. \A i \in 1 .. p : n + i \in 1 .. n + p /\ c[n + i] = t[i] /\ t[i] \in ToSet(t)
  <2>1. ASSUME NEW i \in 1 .. p PROVE n + i \in 1 .. n + p /\ ~ (n + i <= n) /\ (n + i) - n = i
    BY <1>1
  <2> QED
    BY <1>1, <1>2, <2>1 DEF ToSet
<1>5. \A i \in 1 .. n + p : i \in 1 .. n \/ (i - n \in 1 .. p /\ i = n + (i - n))
  BY <1>1
<1>6. ToSet(c) = ToSet(s) \cup ToSet(t)
  <2>1. ASSUME NEW x \in ToSet(c) PROVE x \in ToSet(s) \cup ToSet(t)
    <3>1. PICK i \in 1 .. n + p : c[i] = x
      BY <1>2 DEF ToSet
    <3> QED
      BY <1>3, <1>4, <1>5, <3>1
  <2>2. ASSUME NEW x \in ToSet(s) PROVE x \in ToSet(c)
    BY <1>2, <1>3 DEF ToSet
  <2>3. ASSUME NEW x \in ToSet(t) PROVE x \in ToSet(c)
    <3>1. PICK i \in 1 .. p : t[i] = x
      BY <1>2 DEF ToSet
    <3>2. n + i \in 1 .. n + p /\ c[n + i] = x
      BY <1>4, <3>1
    <3> QED
      BY <1>2, <3>2 DEF ToSet
  <2> QED
    BY <2>1, <2>2, <2>3
<1>7. ASSUME NEW i \in 1 .. n + p, NEW j \in 1 .. n + p, c[i] = c[j] PROVE i = j
  <2>1. CASE i \in 1 .. n /\ j \in 1 .. n
    BY <1>2, <1>3, <1>7, <2>1 DEF IsInjective
  <2>2. CASE i - n \in 1 .. p /\ i = n + (i - n) /\ j - n \in 1 .. p /\ j = n + (j - n)
    <3>1. t[i - n] = t[j - n]
      BY <1>4, <1>7, <2>2
    <3>2. i - n = j - n
      BY <1>2, <2>2, <3>1 DEF IsInjective
    <3> QED
      BY <2>2, <3>2
  <2>3. CASE i \in 1 .. n /\ j - n \in 1 .. p /\ j = n + (j - n)
    BY <1>3, <1>4, <1>7, <2>3
  <2>4. CASE j \in 1 .. n /\ i - n \in 1 .. p /\ i = n + (i - n)
    BY <1>3, <1>4, <1>7, <2>4
  <2> QED
    BY <1>5, <2>1, <2>2, <2>3, <2>4
<1>8. IsInjective(c)
  BY <1>2, <1>7 DEF IsInjective
<1> QED
  BY <1>1, <1>6, <1>8 DEF c

\* The types that no action has ranked, each once.
LEMMA MissingFacts ==
    ASSUME NEW types \in Seq(ActionType)
    PROVE  /\ Missing(types) \in Seq(ActionType)
           /\ IsInjective(Missing(types))
           /\ ToSet(Missing(types)) = Wanted \ ToSet(types)
<1> DEFINE S == {t \in ActionType : Desirability[t] > 0} \ ToSet(types)
           rest == Only(TypeOrder, S)
           keys == [i \in DOMAIN rest |-> <<-Desirability[rest[i]]>>]
           order == Sorted(keys)
           n == Len(rest)
           missing == [m \in 1 .. n |-> rest[order[m]]]
<1>1. S = Wanted \ ToSet(types)
  BY DEF Wanted
<1>2. Missing(types) = [m \in DOMAIN rest |-> rest[order[m]]]
  BY DEF Missing
<1>3. S \subseteq ActionType
  OBVIOUS
<1> HIDE DEF S
<1>4. rest \in Seq(ActionType) /\ ToSet(rest) = S /\ IsInjective(rest)
  <2>1. /\ rest \in Seq(ActionType) /\ ToSet(rest) = ToSet(TypeOrder) \cap S
        /\ IsInjective(TypeOrder) => IsInjective(rest)
    BY OrderAssumption, OnlyFacts
  <2>2. ToSet(TypeOrder) = ActionType
    BY DEF ActionType
  <2> HIDE DEF rest
  <2> QED
    BY <1>3, <2>1, <2>2, OrderAssumption
<1> HIDE DEF rest
<1>5. n \in Nat /\ DOMAIN rest = 1 .. n /\ \A i \in 1 .. n : rest[i] \in ActionType
  BY <1>4
<1> HIDE DEF n
<1>6. keys \in [1 .. n -> Keys(1)]
  <2>1. ASSUME NEW i \in 1 .. n PROVE <<-Desirability[rest[i]]>> \in Keys(1)
    <3>1. Desirability[rest[i]] \in Nat
      BY <1>5, DesirabilityAssumption
    <3>2. -Desirability[rest[i]] \in Int
      BY <3>1
    <3>3. \A a \in Int : <<a>> \in [1 .. 1 -> Int]
      OBVIOUS
    <3> QED
      BY <3>2, <3>3 DEF Keys
  <2> QED
    BY <1>5, <2>1
<1> HIDE DEF keys
<1>7. /\ order \in [1 .. n -> 1 .. n] /\ IsInjective(order)
      /\ \A i \in 1 .. n : \E m \in 1 .. n : order[m] = i
  BY <1>5, <1>6, SortedFacts
<1> HIDE DEF order
<1>8. /\ missing \in [1 .. n -> ActionType] /\ missing = Missing(types)
      /\ \A m \in 1 .. n : missing[m] = rest[order[m]] /\ order[m] \in 1 .. n
  BY <1>2, <1>5, <1>7
<1> HIDE DEF missing
<1>9. missing \in Seq(ActionType) /\ DOMAIN missing = 1 .. n
  BY <1>5, <1>8
<1>10. IsInjective(missing)
  <2>1. ASSUME NEW i \in 1 .. n, NEW j \in 1 .. n, missing[i] = missing[j] PROVE i = j
    <3>1. order[i] = order[j]
      BY <1>4, <1>5, <1>8, <2>1 DEF IsInjective
    <3> QED
      BY <1>7, <3>1 DEF IsInjective
  <2> QED
    BY <1>9, <2>1 DEF IsInjective
<1>11. ToSet(missing) = S
  <2>1. ASSUME NEW x \in ToSet(missing) PROVE x \in S
    BY <1>4, <1>5, <1>8, <1>9 DEF ToSet
  <2>2. ASSUME NEW x \in S PROVE x \in ToSet(missing)
    <3>1. PICK i \in 1 .. n : rest[i] = x
      BY <1>4, <1>5 DEF ToSet
    <3>2. PICK m \in 1 .. n : order[m] = i
      BY <1>7
    <3>3. missing[m] = x
      BY <1>8, <3>1, <3>2
    <3> QED
      BY <1>9, <3>3 DEF ToSet
  <2> QED
    BY <2>1, <2>2
<1> QED
  BY <1>1, <1>8, <1>9, <1>10, <1>11

\* Types at increasing first places are there once, and are not off.
LEMMA FirstOnce ==
    ASSUME NEW o \in Seq(ActionType), NEW e, NEW r, NEW n \in Nat, FirstPlaces(e, o, r, n)
    PROVE  IsInjective(o) /\ ToSet(o) \subseteq Wanted
<1>1. DOMAIN o = 1 .. Len(o) /\ Len(o) \in Nat /\ \A i \in 1 .. Len(o) : o[i] \in ActionType
  OBVIOUS
<1>2. ASSUME NEW i \in 1 .. Len(o), NEW j \in 1 .. Len(o), i < j PROVE o[i] # o[j]
  <2>1. e[i] \in 1 .. n /\ e[j] \in 1 .. n /\ e[i] < e[j] /\ r[e[i]] = o[i]
    BY <1>2 DEF FirstPlaces
  <2>2. e[i] \in 1 .. e[j] - 1
    BY <2>1
  <2> QED
    BY <2>1, <2>2 DEF FirstPlaces
<1>3. IsInjective(o)
  <2>1. \A i, j \in 1 .. Len(o) : i < j \/ j < i \/ i = j
    BY <1>1
  <2> QED
    BY <1>1, <1>2, <2>1 DEF IsInjective
<1>4. \A i \in 1 .. Len(o) : Desirability[o[i]] > 0
  <2>1. \A t \in ActionType : Desirability[t] \in Nat
    BY DesirabilityAssumption
  <2>2. \A i \in 1 .. Len(o) : Desirability[o[i]] # 0
    BY DEF FirstPlaces
  <2> QED
    BY <1>1, <2>1, <2>2
<1> QED
  BY <1>1, <1>3, <1>4 DEF ToSet, Wanted

\* actionRankTypes() has each type that is not off once.
LEMMA RankTypesFacts ==
    ASSUME NEW l, History(l), NEW k \in Keys(5)
    PROVE  /\ RankTypes(l, k) \in Seq(ActionType)
           /\ IsInjective(RankTypes(l, k))
           /\ ToSet(RankTypes(l, k)) = Wanted
<1> DEFINE r == RankedList(l, k)
           types == FromActions(r)
<1>1. r \in Seq(ActionType \cup {NULL})
  BY RankedListFacts
<1>2. RankTypes(l, k) = types \o Missing(types)
  BY DEF RankTypes
<1> HIDE DEF r
<1>3. types \in Seq(ActionType) /\ \E e : FirstPlaces(e, types, r, Len(r))
  BY <1>1, FromActionsFacts
<1> HIDE DEF types
<1>4. IsInjective(types) /\ ToSet(types) \subseteq Wanted
  <2>1. Len(r) \in Nat
    BY <1>1
  <2> QED
    BY <1>3, <2>1, FirstOnce
<1> DEFINE missing == Missing(types)
<1>5. missing \in Seq(ActionType) /\ IsInjective(missing) /\ ToSet(missing) = Wanted \ ToSet(types)
  BY <1>3, MissingFacts
<1> HIDE DEF missing
<1>6. ToSet(types) \cap ToSet(missing) = {}
  BY <1>5
<1>7. /\ types \o missing \in Seq(ActionType) /\ IsInjective(types \o missing)
      /\ ToSet(types \o missing) = ToSet(types) \cup ToSet(missing)
  BY <1>3, <1>4, <1>5, <1>6, ConcatFacts
<1> QED
  BY <1>2, <1>4, <1>5, <1>7 DEF missing

-----------------------------------------------------------------------------
(* processorActionList() *)

\* o is what e takes out of s, in its order.
Embeds(e, o, s) ==
    /\ e \in [1 .. Len(o) -> 1 .. Len(s)]
    /\ \A i, j \in 1 .. Len(o) : i < j => e[i] < e[j]
    /\ \A i \in 1 .. Len(o) : o[i] = s[e[i]]

\* What is in T is the last, if it is there.
LastOf(T, types) == \A i \in 1 .. Len(types) : types[i] \in T => i = Len(types)

\* Nothing is doubled, and the last stays the last, when some are left out.
LEMMA EmbedKeeps ==
    ASSUME NEW X, NEW s \in Seq(X), NEW o \in Seq(X), NEW e, Embeds(e, o, s)
    PROVE  /\ IsInjective(s) => IsInjective(o)
           /\ ToSet(o) \subseteq ToSet(s)
           /\ \A T : LastOf(T, s) => LastOf(T, o)
<1>1. /\ DOMAIN o = 1 .. Len(o) /\ DOMAIN s = 1 .. Len(s) /\ Len(o) \in Nat /\ Len(s) \in Nat
      /\ \A i \in 1 .. Len(o) : e[i] \in 1 .. Len(s) /\ o[i] = s[e[i]]
      /\ \A i, j \in 1 .. Len(o) : i < j => e[i] < e[j]
  BY DEF Embeds
<1>2. ASSUME IsInjective(s) PROVE IsInjective(o)
  <2> SUFFICES ASSUME NEW i \in 1 .. Len(o), NEW j \in 1 .. Len(o), o[i] = o[j] PROVE i = j
    BY <1>1 DEF IsInjective
  <2>1. e[i] = e[j] /\ e[i] \in Int
    BY <1>1, <1>2 DEF IsInjective
  <2>2. ~ (i < j) /\ ~ (j < i)
    BY <1>1, <2>1
  <2> QED
    BY <2>2
<1>3. ToSet(o) \subseteq ToSet(s)
  BY <1>1 DEF ToSet
<1>4. ASSUME NEW T, LastOf(T, s), NEW i \in 1 .. Len(o), o[i] \in T PROVE i = Len(o)
  <2>1. e[i] = Len(s)
    BY <1>1, <1>4 DEF LastOf
  <2>2. Len(o) \in 1 .. Len(o) /\ Len(o) \in Nat /\ i \in Nat /\ i <= Len(o)
    BY <1>1
  <2>3. e[Len(o)] \in Nat /\ e[Len(o)] <= Len(s) /\ (i < Len(o) => e[i] < e[Len(o)])
    BY <1>1, <2>2
  <2>4. ~ (i < Len(o))
    BY <1>1, <2>1, <2>3
  <2> QED
    BY <2>2, <2>4
<1> QED
  BY <1>2, <1>3, <1>4 DEF LastOf

\* Types, each at most once, that are not in one place or another left out.
Types(types) == types \in Seq(ActionType) /\ IsInjective(types)

\* Leaving types out.
LEMMA OnlyTypes ==
    ASSUME NEW types, Types(types), NEW S
    PROVE  /\ Types(Only(types, S)) /\ ToSet(Only(types, S)) = ToSet(types) \cap S
           /\ \A T : LastOf(T, types) => LastOf(T, Only(types, S))
<1> DEFINE o == Only(types, S)
<1>1. types \in Seq(ActionType) /\ IsInjective(types)
  BY DEF Types
<1>2. /\ o \in Seq(ActionType) /\ ToSet(o) = ToSet(types) \cap S
      /\ IsInjective(types) => IsInjective(o)
  BY <1>1, OnlyFacts
<1>3. PICK e : Picks(e, o, types, S, Len(types))
  BY <1>1, OnlyPicks
<1> HIDE DEF o
<1>4. Embeds(e, o, types)
  BY <1>3 DEF Picks, Embeds
<1>5. \A T : LastOf(T, types) => LastOf(T, o)
  BY <1>1, <1>2, <1>4, EmbedKeeps
<1> QED
  BY <1>1, <1>2, <1>5 DEF Types, o

\* actionRankMoveType() loses no type and makes one the last.
LEMMA MoveToEndTypes ==
    ASSUME NEW types, Types(types), NEW t \in ActionType
    PROVE  /\ Types(MoveToEnd(types, t)) /\ ToSet(MoveToEnd(types, t)) = ToSet(types)
           /\ LastOf({t}, MoveToEnd(types, t))
<1>1. types \in Seq(ActionType) /\ DOMAIN types = 1 .. Len(types)
  BY DEF Types
<1>2. CASE t \notin ToSet(types)
  <2>1. MoveToEnd(types, t) = types
    BY <1>2 DEF MoveToEnd
  <2>2. LastOf({t}, types)
    BY <1>1, <1>2 DEF LastOf, ToSet
  <2> QED
    BY <2>1, <2>2
<1>3. CASE t \in ToSet(types)
  <2> DEFINE o == DelType(types, t)
             one == <<t>>
  <2>1. Types(o) /\ ToSet(o) = ToSet(types) \cap (ActionType \ {t})
    BY OnlyTypes DEF DelType
  <2> HIDE DEF o
  <2>2. /\ o \in Seq(ActionType) /\ IsInjective(o) /\ Len(o) \in Nat /\ DOMAIN o = 1 .. Len(o)
        /\ ToSet(o) = ToSet(types) \ {t}
    <3>1. ToSet(types) \subseteq ActionType
      BY <1>1 DEF ToSet
    <3> QED
      BY <2>1, <3>1 DEF Types
  <2>3. one \in Seq(ActionType) /\ ToSet(one) = {t} /\ IsInjective(one)
    BY DEF ToSet, IsInjective
  <2>4. Append(o, t) = o \o one
    BY <2>2
  <2> HIDE DEF one
  <2>5. ToSet(o) \cap ToSet(one) = {}
    BY <2>2, <2>3
  <2>6. /\ o \o one \in Seq(ActionType) /\ IsInjective(o \o one)
        /\ ToSet(o \o one) = ToSet(o) \cup ToSet(one)
    BY <2>2, <2>3, <2>5, ConcatFacts
  <2>7. LastOf({t}, Append(o, t))
    <3>1. /\ Len(Append(o, t)) = Len(o) + 1
          /\ \A i \in 1 .. Len(o) : Append(o, t)[i] = o[i] /\ o[i] \in ToSet(o)
      BY <2>2 DEF ToSet
    <3>2. \A i \in 1 .. Len(o) : Append(o, t)[i] # t
      BY <2>2, <3>1
    <3> QED
      BY <2>2, <3>1, <3>2 DEF LastOf
  <2>8. MoveToEnd(types, t) = Append(o, t)
    BY <1>3 DEF MoveToEnd, o
  <2> QED
    BY <1>3, <2>2, <2>3, <2>4, <2>6, <2>7, <2>8 DEF Types
<1> QED
  BY <1>2, <1>3

\* One of the two kinds of report is dropped, the other made the last.
LEMMA OneReportTypes ==
    ASSUME NEW types, Types(types)
    PROVE  /\ Types(OneReport(types)) /\ LastOf(Reports, OneReport(types))
           /\ \E t \in Reports : ToSet(OneReport(types)) = ToSet(types) \ {t}
<1>0. Report \in ActionType /\ GetTimeAndReport \in ActionType /\ ToSet(types) \subseteq ActionType
  <2>1. types \in Seq(ActionType)
    BY DEF Types
  <2>2. ToSet(types) \subseteq ActionType
    BY <2>1 DEF ToSet
  <2> QED
    BY <2>2, WakeupAssumption
<1>1. CASE timeAge # NULL /\ timeAge * Interval < TimeInterval
  <2> DEFINE o == DelType(types, GetTimeAndReport)
             p == MoveToEnd(o, Report)
  <2>1. Types(o) /\ ToSet(o) = ToSet(types) \ {GetTimeAndReport}
    <3>1. Types(o) /\ ToSet(o) = ToSet(types) \cap (ActionType \ {GetTimeAndReport})
      BY OnlyTypes DEF DelType
    <3> QED
      BY <1>0, <3>1
  <2> HIDE DEF o
  <2>2. Types(p) /\ ToSet(p) = ToSet(o) /\ LastOf({Report}, p)
    BY <1>0, <2>1, MoveToEndTypes
  <2>3. p = OneReport(types)
    BY <1>1 DEF OneReport, o
  <2> HIDE DEF p
  <2>4. \A i \in 1 .. Len(p) : p[i] \in Reports => p[i] = Report
    <3>1. \A i \in 1 .. Len(p) : p[i] \in ToSet(p)
      BY <2>2 DEF Types, ToSet
    <3> QED
      BY <2>1, <2>2, <3>1 DEF Reports
  <2>5. LastOf(Reports, p)
    BY <2>2, <2>4 DEF LastOf
  <2> QED
    BY <2>1, <2>2, <2>3, <2>5 DEF Reports
<1>2. CASE ~ (timeAge # NULL /\ timeAge * Interval < TimeInterval)
  <2> DEFINE o == MoveToEnd(types, GetTimeAndReport)
             p == DelType(o, Report)
  <2>1. Types(o) /\ ToSet(o) = ToSet(types) /\ LastOf({GetTimeAndReport}, o)
    BY <1>0, MoveToEndTypes
  <2>2. p = OneReport(types)
    BY <1>2 DEF OneReport
  <2> HIDE DEF o
  <2>3. /\ Types(p) /\ ToSet(p) = ToSet(types) \ {Report}
        /\ LastOf({GetTimeAndReport}, p)
    <3>1. /\ Types(p) /\ ToSet(p) = ToSet(o) \cap (ActionType \ {Report})
          /\ \A T : LastOf(T, o) => LastOf(T, p)
      BY <2>1, OnlyTypes DEF DelType
    <3> QED
      BY <1>0, <2>1, <3>1
  <2> HIDE DEF p
  <2>4. \A i \in 1 .. Len(p) : p[i] \in Reports => p[i] = GetTimeAndReport
    <3>1. \A i \in 1 .. Len(p) : p[i] \in ToSet(p)
      BY <2>3 DEF Types, ToSet
    <3> QED
      BY <2>3, <3>1 DEF Reports
  <2>5. LastOf(Reports, p)
    BY <2>3, <2>4 DEF LastOf
  <2> QED
    BY <2>2, <2>3, <2>5 DEF Reports
<1> QED
  BY <1>1, <1>2

\* What processorActionList() has left before it looks at the energy.
LEMMA ChoosableTypes ==
    ASSUME NEW types, Types(types), NEW in
    PROVE  LET o == WithRoom(PositionDue(WorthReporting(OneReport(types), in)), in)
           IN  /\ Types(o) /\ LastOf(Reports, o)
               /\ ToSet(o) \subseteq ToSet(types)
               /\ in.full /\ in.room = {} => \E t \in Reports : ToSet(o) = (ToSet(types) \ {t}) \cap Reports
<1> DEFINE a == OneReport(types)
           b == WorthReporting(a, in)
           c == PositionDue(b)
           d == WithRoom(c, in)
<1>1. Types(a) /\ LastOf(Reports, a) /\ \E t \in Reports : ToSet(a) = ToSet(types) \ {t}
  BY OneReportTypes
<1> HIDE DEF a
<1>2. /\ Types(b) /\ LastOf(Reports, b) /\ ToSet(b) \subseteq ToSet(a)
      /\ in.full => b = a
  <2>1. CASE b = a
    BY <1>1, <2>1
  <2>2. CASE b = DelType(a, Report) /\ ~ in.full
    <3> HIDE DEF b
    <3>1. /\ Types(Only(a, ActionType \ {Report}))
          /\ ToSet(Only(a, ActionType \ {Report})) = ToSet(a) \cap (ActionType \ {Report})
          /\ LastOf(Reports, Only(a, ActionType \ {Report}))
      BY <1>1, OnlyTypes
    <3> QED
      BY <2>2, <3>1 DEF DelType
  <2> QED
    BY <2>1, <2>2 DEF WorthReporting
<1> HIDE DEF b
<1>3. Types(c) /\ LastOf(Reports, c) /\ ToSet(c) \subseteq ToSet(b) /\ ToSet(b) \cap Reports \subseteq ToSet(c)
  <2>1. CASE c = b
    BY <1>2, <2>1
  <2>2. CASE c = DelType(b, Position)
    <3> HIDE DEF c
    <3>1. /\ Types(Only(b, ActionType \ {Position}))
          /\ ToSet(Only(b, ActionType \ {Position})) = ToSet(b) \cap (ActionType \ {Position})
          /\ LastOf(Reports, Only(b, ActionType \ {Position}))
      BY <1>2, OnlyTypes
    <3>2. Reports \subseteq ActionType \ {Position}
      BY WakeupAssumption DEF Reports
    <3>3. c = Only(b, ActionType \ {Position})
      BY <2>2 DEF DelType
    <3> QED
      BY <3>1, <3>2, <3>3
  <2> QED
    BY <2>1, <2>2 DEF PositionDue
<1> HIDE DEF c
<1>4. Types(d) /\ LastOf(Reports, d) /\ ToSet(d) = ToSet(c) \cap (Reports \cup in.room)
  BY <1>3, OnlyTypes DEF WithRoom
<1>5. ASSUME in.full, in.room = {}
      PROVE  \E t \in Reports : ToSet(d) = (ToSet(types) \ {t}) \cap Reports
  <2>1. ToSet(d) = ToSet(a) \cap Reports
    BY <1>2, <1>3, <1>4, <1>5
  <2> HIDE DEF d
  <2> QED
    BY <1>1, <2>1
<1>6. ToSet(d) \subseteq ToSet(types)
  BY <1>1, <1>2, <1>3, <1>4
<1> QED
  BY <1>4, <1>5, <1>6 DEF a, b, c

\* What each action needs, by the list.
LEMMA EnergyNat ==
    ASSUME NEW l \in Seq(Entry), NEW t PROVE EnergyNWH(l, t) \in Nat
<1> DEFINE S == {e \in ToSet(l) : e.type = t /\ e.state \in {"COMPLETED", "TRIED_AND_FAILED"}}
           run == Only(l, S)
           costs == [i \in DOMAIN run |-> run[i].cost]
<1>1. EnergyNWH(l, t) = IF run = <<>> THEN 0 ELSE Total(costs) \div Len(run)
  BY DEF EnergyNWH
<1> HIDE DEF S
<1>2. run \in Seq(Entry)
  BY OnlyPicks
<1> HIDE DEF run
<1>3. /\ Len(run) \in Nat /\ DOMAIN run = 1 .. Len(run)
      /\ \A i \in 1 .. Len(run) : run[i] \in Entry
  BY <1>2
<1>4. \A i \in 1 .. Len(run) : run[i].cost \in Nat
  BY <1>3 DEF Entry
<1>5. costs \in Seq(Nat)
  BY <1>3, <1>4
<1> HIDE DEF costs
<1>6. Total(costs) \in Nat
  BY <1>5, TotalAppend
<1>7. run # <<>> => Len(run) \in Nat \ {0}
  BY <1>2
<1>8. \A a \in Nat : \A b \in Nat \ {0} : a \div b \in Nat
  OBVIOUS
<1> QED
  BY <1>1, <1>6, <1>7, <1>8

\* What the energy is needed for at a wake-up.
Needs == [t \in ActionType |-> EnergyNWH(list, t)]

\* The energy that processorActionList() adds up is a cost by Needs.
LEMMA NeededIsCost ==
    ASSUME NEW types \in Seq(ActionType) PROVE Needed(types) = Cost(Needs, types)
<1>1. \A i \in DOMAIN types : EnergyNWH(list, types[i]) = Needs[types[i]]
  <2>1. \A i \in DOMAIN types : types[i] \in ActionType
    OBVIOUS
  <2> QED
    BY <2>1 DEF Needs
<1> DEFINE a == [i \in DOMAIN types |-> EnergyNWH(list, types[i])]
           b == [i \in DOMAIN types |-> Needs[types[i]]]
<1>2. a = b
  BY <1>1
<1>3. Needed(types) = Total(a) /\ Cost(Needs, types) = Total(b)
  BY DEF Needed, Cost
<1> HIDE DEF a, b
<1> QED
  BY <1>2, <1>3

\* The recursion of Affordable.
AffordSteps(f, types) ==
    /\ f \in [0 .. Len(types) -> Seq(ActionType)] /\ f[0] = <<>>
    /\ \A i \in 1 .. Len(types) :
           f[i] = IF Needed(f[i - 1]) + EnergyNWH(list, types[i]) > available
                  THEN f[i - 1] ELSE Append(f[i - 1], types[i])

\* What Affordable returns is the last step of that recursion.
LEMMA AffordableIsRecursive ==
    ASSUME NEW types \in Seq(ActionType)
    PROVE  \E f : AffordSteps(f, types) /\ Affordable(types) = f[Len(types)]
<1> DEFINE n == Len(types)
           Over(i, o) == Needed(o) + EnergyNWH(list, types[i]) > available
           step == [i \in 1 .. n |-> [o \in Seq(ActionType) |->
                        IF Over(i, o) THEN o ELSE Append(o, types[i])]]
           IsKept(f) == f = [i \in 0 .. Len(types) |->
                IF i = 0 THEN <<>> ELSE IF Over(i, f[i - 1]) THEN f[i - 1] ELSE Append(f[i - 1], types[i])]
<1>0. n \in Nat /\ \A i \in 1 .. n : types[i] \in ActionType
  OBVIOUS
<1>1. step \in [1 .. n -> [Seq(ActionType) -> Seq(ActionType)]] /\ <<>> \in Seq(ActionType)
  <2>1. ASSUME NEW i \in 1 .. n, NEW o \in Seq(ActionType) PROVE Append(o, types[i]) \in Seq(ActionType)
    BY <1>0
  <2> HIDE DEF Over, n
  <2> QED
    BY <2>1
<1>2. \A i \in 1 .. n : \A o \in Seq(ActionType) :
        step[i][o] = IF Over(i, o) THEN o ELSE Append(o, types[i])
  <2> HIDE DEF Over
  <2> QED
    OBVIOUS
<1> HIDE DEF step
<1>3. PICK f : Recursion(f, n, Seq(ActionType), <<>>, step)
  <2> HIDE DEF n
  <2> QED
    BY <1>0, <1>1, RecursionExists
<1>4. AffordSteps(f, types)
  <2>1. ASSUME NEW i \in 1 .. n PROVE f[i] = IF Over(i, f[i - 1]) THEN f[i - 1] ELSE Append(f[i - 1], types[i])
    <3>1. i - 1 \in 0 .. n
      BY <1>0
    <3>2. f[i - 1] \in Seq(ActionType)
      BY <1>3, <3>1 DEF Recursion
    <3> HIDE DEF Over
    <3> QED
      BY <1>2, <1>3, <3>2 DEF Recursion
  <2> QED
    BY <1>3, <2>1 DEF AffordSteps, Recursion
<1>5. IsKept(f)
  <2>1. f = [i \in 0 .. n |-> f[i]]
    BY <1>3 DEF Recursion
  <2>2. \A i \in 0 .. n : f[i] =
          IF i = 0 THEN <<>> ELSE IF Over(i, f[i - 1]) THEN f[i - 1] ELSE Append(f[i - 1], types[i])
    <3>1. ASSUME NEW i \in 0 .. n, i # 0 PROVE i \in 1 .. n
      BY <1>0, <3>1
    <3> QED
      BY <1>4, <3>1 DEF AffordSteps
  <2> HIDE DEF Over
  <2> QED
    BY <2>1, <2>2
<1>6. PICK g : IsKept(g) /\ Affordable(types) = g[Len(types)]
  <2> DEFINE kept == CHOOSE g : IsKept(g)
  <2>1. Affordable(types) = kept[Len(types)]
    BY DEF Affordable
  <2> HIDE DEF IsKept
  <2>2. IsKept(kept)
    BY <1>5
  <2> QED
    BY <2>1, <2>2
<1>7. g[0] = <<>>
  BY <1>0, <1>6
<1>8. ASSUME NEW i \in 1 .. n, f[i - 1] = g[i - 1] PROVE f[i] = g[i]
  <2>1. i \in 0 .. n /\ i # 0
    BY <1>0
  <2>2. g[i] = IF Over(i, g[i - 1]) THEN g[i - 1] ELSE Append(g[i - 1], types[i])
    <3> HIDE DEF Over
    <3> QED
      BY <1>6, <2>1
  <2> QED
    BY <1>4, <1>8, <2>2 DEF AffordSteps
<1>9. f[n] = g[n]
  <2>1. f[0] = g[0] /\ \A i \in 1 .. n : f[i - 1] = g[i - 1] => f[i] = g[i]
    BY <1>3, <1>7, <1>8 DEF Recursion
  <2> HIDE DEF n, IsKept
  <2>2. \A i \in 0 .. n : f[i] = g[i]
    BY <1>0, <2>1, RecursionUnique
  <2> QED
    BY <1>0, <2>2
<1> QED
  BY <1>4, <1>6, <1>9

\* Costs only grow.
LEMMA CostsGrow ==
    ASSUME NEW X, NEW E \in [X -> Nat], NEW s \in Seq(X), NEW c, CostsUpTo(c, E, s)
    PROVE  \A i \in 0 .. Len(s) : c[i] <= c[Len(s)]
<1> DEFINE n == Len(s)
           Good == {j \in 0 .. n : \A i \in 0 .. j : c[i] <= c[j]}
<1>1. /\ n \in Nat /\ \A i \in 0 .. n : c[i] \in Nat
      /\ \A i \in 1 .. n : c[i] = c[i - 1] + E[s[i]] /\ E[s[i]] \in Nat
  <2>1. n \in Nat /\ \A i \in 1 .. n : E[s[i]] \in Nat
    OBVIOUS
  <2>2. c \in [0 .. n -> Nat] /\ \A i \in 1 .. n : c[i] = c[i - 1] + E[s[i]]
    BY DEF CostsUpTo
  <2> HIDE DEF n
  <2> QED
    BY <2>1, <2>2
<1> HIDE DEF n
<1>2. 0 \in Good
  BY <1>1
<1>3. ASSUME NEW j \in 1 .. n, j - 1 \in Good PROVE j \in Good
  <2>1. j - 1 \in 0 .. n /\ j \in 0 .. n /\ \A i \in 0 .. j : i = j \/ i \in 0 .. j - 1
    BY <1>1
  <2>2. c[j - 1] <= c[j]
    BY <1>1, <2>1
  <2>3. ASSUME NEW i \in 0 .. j - 1 PROVE c[i] <= c[j]
    <3>1. c[i] <= c[j - 1] /\ i \in 0 .. n
      BY <1>1, <1>3
    <3> QED
      BY <1>1, <2>1, <2>2, <3>1
  <2>4. c[j] <= c[j]
    BY <1>1, <2>1
  <2> QED
    BY <2>1, <2>3, <2>4
<1>4. \A i \in 1 .. n : i - 1 \in Good => i \in Good
  BY <1>3
<1> HIDE DEF Good
<1>5. \A j \in 0 .. n : j \in Good
  BY <1>1, <1>2, <1>4, UpTo
<1>6. n \in Good
  BY <1>1, <1>5
<1> QED
  BY <1>6 DEF Good, n

\* What is kept is some of the types, in their order, that can be paid for;
\* and all of them if all can be paid for.
LEMMA AffordableFacts ==
    ASSUME NEW types \in Seq(ActionType), list \in Seq(Entry), available \in Nat
    PROVE  /\ Affordable(types) \in Seq(ActionType)
           /\ Needed(Affordable(types)) <= available
           /\ \E e : Embeds(e, Affordable(types), types)
           /\ Needed(types) <= available => Affordable(types) = types
<1> DEFINE n == Len(types)
           E == Needs
<1>0. n \in Nat /\ \A i \in 1 .. n : types[i] \in ActionType
  OBVIOUS
<1>1. E \in [ActionType -> Nat] /\ \A i \in 1 .. n : EnergyNWH(list, types[i]) = E[types[i]]
  <2>1. \A t \in ActionType : EnergyNWH(list, t) \in Nat
    BY EnergyNat
  <2> QED
    BY <1>0, <2>1 DEF Needs
<1>2. PICK f : AffordSteps(f, types) /\ Affordable(types) = f[n]
  BY AffordableIsRecursive
<1>3. /\ \A i \in 0 .. n : f[i] \in Seq(ActionType)
      /\ f[0] = <<>>
      /\ \A i \in 1 .. n :
           f[i] = IF Needed(f[i - 1]) + E[types[i]] > available
                  THEN f[i - 1] ELSE Append(f[i - 1], types[i])
  BY <1>1, <1>2 DEF AffordSteps
<1> HIDE DEF n, E
<1>4. /\ \A s \in Seq(ActionType) : Needed(s) \in Nat
      /\ \A s \in Seq(ActionType) : \A t \in ActionType : Needed(Append(s, t)) = Needed(s) + E[t]
      /\ Needed(<<>>) = 0
  <2>1. ASSUME NEW s \in Seq(ActionType), NEW t \in ActionType
        PROVE  Needed(s) \in Nat /\ Needed(Append(s, t)) = Needed(s) + E[t]
    <3>1. Append(s, t) \in Seq(ActionType)
      OBVIOUS
    <3>2. Needed(s) = Cost(E, s) /\ Needed(Append(s, t)) = Cost(E, Append(s, t))
      BY <3>1, NeededIsCost DEF E
    <3>3. Cost(E, s) \in Nat /\ Cost(E, Append(s, t)) = Cost(E, s) + E[t]
      BY <1>1, CostAppend
    <3> QED
      BY <3>2, <3>3
  <2>2. ASSUME NEW s \in Seq(ActionType) PROVE Needed(s) \in Nat
    BY <2>1, WakeupAssumption
  <2>3. Needed(<<>>) = 0
    <3>1. <<>> \in Seq(ActionType)
      OBVIOUS
    <3> DEFINE none == <<>>
    <3> HIDE DEF none
    <3>2. none \in Seq(ActionType) => Needed(none) = Cost(E, none)
      BY NeededIsCost DEF E
    <3> QED
      BY <3>1, <3>2, NoCost DEF none
  <2> QED
    BY <2>1, <2>2, <2>3
<1> DEFINE Sound(i) == /\ Needed(f[i]) <= available
                       /\ \E e : /\ e \in [1 .. Len(f[i]) -> 1 .. i]
                                 /\ \A j, k \in 1 .. Len(f[i]) : j < k => e[j] < e[k]
                                 /\ \A j \in 1 .. Len(f[i]) : f[i][j] = types[e[j]]
           Good == {i \in 0 .. n : Sound(i)}
<1>5. 0 \in Good
  <2>1. Needed(f[0]) <= available
    BY <1>3, <1>4
  <2>2. 1 .. Len(f[0]) = {}
    BY <1>3
  <2>3. PICK e : e \in [1 .. Len(f[0]) -> 1 .. 0]
    <3>1. \E e : e \in [{} -> 1 .. 0]
      <4>1. [i \in {} |-> i] \in [{} -> 1 .. 0]
        OBVIOUS
      <4> QED
        BY <4>1
    <3> QED
      BY <2>2, <3>1
  <2>4. Sound(0)
    <3>1. \A j \in 1 .. Len(f[0]) : FALSE
      BY <2>2
    <3> QED
      BY <2>1, <2>3, <3>1
  <2> HIDE DEF Sound
  <2> QED
    BY <1>0, <2>4
<1>6. ASSUME NEW i \in 1 .. n, i - 1 \in Good PROVE i \in Good
  <2>0. i \in Nat /\ i - 1 \in 0 .. n /\ i \in 0 .. n
    BY <1>0
  <2> DEFINE old == f[i - 1]
  <2>1. Needed(old) <= available
    BY <1>6
  <2>2. PICK e : /\ e \in [1 .. Len(old) -> 1 .. i - 1]
                 /\ \A j, k \in 1 .. Len(old) : j < k => e[j] < e[k]
                 /\ \A j \in 1 .. Len(old) : old[j] = types[e[j]]
    BY <1>6
  <2>3. old \in Seq(ActionType) /\ Len(old) \in Nat /\ types[i] \in ActionType
    BY <1>0, <1>3, <2>0
  <2>4. f[i] = IF Needed(old) + E[types[i]] > available THEN old ELSE Append(old, types[i])
    BY <1>3
  <2> HIDE DEF old
  <2>5. Needed(old) \in Nat /\ E[types[i]] \in Nat /\ Needed(Append(old, types[i])) = Needed(old) + E[types[i]]
    BY <1>1, <1>4, <2>3
  <2>6. CASE Needed(old) + E[types[i]] > available
    <3>1. f[i] = old
      BY <2>4, <2>6
    <3>2. e \in [1 .. Len(old) -> 1 .. i]
      BY <2>0, <2>2
    <3>3. Sound(i)
      BY <2>1, <2>2, <3>1, <3>2
    <3> HIDE DEF Sound
    <3> QED
      BY <2>0, <3>3
  <2>7. CASE ~ (Needed(old) + E[types[i]] > available)
    <3> DEFINE new == Append(old, types[i])
               d == [j \in 1 .. Len(old) + 1 |-> IF j = Len(old) + 1 THEN i ELSE e[j]]
    <3>1. f[i] = new
      BY <2>4, <2>7
    <3>2. /\ Len(new) = Len(old) + 1 /\ new[Len(old) + 1] = types[i]
          /\ \A j \in 1 .. Len(old) : new[j] = old[j]
      BY <2>3
    <3>3. /\ d[Len(old) + 1] = i
          /\ \A j \in 1 .. Len(old) : d[j] = e[j] /\ e[j] \in 1 .. i - 1
      BY <2>2, <2>3
    <3>4. d \in [1 .. Len(new) -> 1 .. i]
      BY <2>0, <2>2, <2>3, <3>2
    <3>5. \A j \in 1 .. Len(new) : j \in 1 .. Len(old) \/ j = Len(old) + 1
      BY <2>3, <3>2
    <3>6. Needed(new) <= available
      BY <2>5, <2>7, available \in Nat
    <3> HIDE DEF d, new
    <3>7. ASSUME NEW j \in 1 .. Len(new), NEW k \in 1 .. Len(new), j < k PROVE d[j] < d[k]
      <4>1. j \in 1 .. Len(old)
        BY <2>3, <3>5, <3>7
      <4>2. CASE k \in 1 .. Len(old)
        BY <2>2, <3>3, <3>7, <4>1, <4>2
      <4>3. CASE k = Len(old) + 1
        BY <2>0, <3>3, <4>1, <4>3
      <4> QED
        BY <3>5, <4>2, <4>3
    <3>8. \A j \in 1 .. Len(new) : new[j] = types[d[j]]
      BY <2>2, <3>2, <3>3, <3>5
    <3>9. Sound(i)
      BY <3>1, <3>4, <3>6, <3>7, <3>8
    <3> HIDE DEF Sound
    <3> QED
      BY <2>0, <3>9
  <2> QED
    BY <2>6, <2>7
<1> HIDE DEF Good
<1>7. n \in Good
  <2>1. \A i \in 1 .. n : i - 1 \in Good => i \in Good
    BY <1>6
  <2>2. \A i \in 0 .. n : i \in Good
    BY <1>0, <1>5, <2>1, UpTo
  <2> QED
    BY <1>0, <2>2
<1>8. Sound(n)
  BY <1>7 DEF Good
<1>9. ASSUME Needed(types) <= available PROVE f[n] = types
  <2>1. PICK c : CostsUpTo(c, E, types) /\ Cost(E, types) = c[Len(types)]
    BY <1>1, CostIsRecursive
  <2>2. c[n] <= available /\ \A i \in 0 .. n : c[i] <= c[n] /\ c[i] \in Nat
    <3>1. Needed(types) = c[n]
      BY <2>1, NeededIsCost DEF E, n
    <3>2. \A i \in 0 .. n : c[i] <= c[n]
      BY <1>1, <2>1, CostsGrow DEF n
    <3> QED
      BY <1>9, <2>1, <3>1, <3>2 DEF CostsUpTo, n
  <2>3. c[0] = 0 /\ \A i \in 1 .. n : c[i] = c[i - 1] + E[types[i]]
    BY <2>1 DEF CostsUpTo, n
  <2> DEFINE Whole(i) == /\ Needed(f[i]) = c[i] /\ Len(f[i]) = i
                         /\ \A j \in 1 .. i : f[i][j] = types[j]
             Fine == {i \in 0 .. n : Whole(i)}
  <2>4. 0 \in Fine
    <3>1. Whole(0)
      BY <1>3, <1>4, <2>3
    <3> HIDE DEF Whole
    <3> QED
      BY <1>0, <3>1
  <2>5. ASSUME NEW i \in 1 .. n, i - 1 \in Fine PROVE i \in Fine
    <3>0. i \in Nat /\ i - 1 \in 0 .. n /\ i \in 0 .. n
      BY <1>0
    <3> DEFINE old == f[i - 1]
    <3>1. Needed(old) = c[i - 1] /\ Len(old) = i - 1 /\ \A j \in 1 .. i - 1 : old[j] = types[j]
      BY <2>5
    <3>2. old \in Seq(ActionType) /\ types[i] \in ActionType
      BY <1>0, <1>3, <3>0
    <3>3. f[i] = IF Needed(old) + E[types[i]] > available THEN old ELSE Append(old, types[i])
      BY <1>3
    <3> HIDE DEF old
    <3>4. Needed(old) + E[types[i]] = c[i] /\ c[i] <= available
      <4>1. c[i] <= c[n] /\ c[n] <= available /\ c[i] \in Nat /\ c[n] \in Nat
        BY <1>0, <2>2, <3>0
      <4>2. c[i] = c[i - 1] + E[types[i]]
        BY <2>3
      <4> QED
        BY <3>1, <4>1, <4>2, available \in Nat
    <3>5. f[i] = Append(old, types[i])
      <4>1. ~ (c[i] > available)
        BY <2>2, <3>0, <3>4, available \in Nat
      <4> QED
        BY <3>3, <3>4, <4>1
    <3>6. Needed(f[i]) = c[i]
      BY <1>4, <3>2, <3>4, <3>5
    <3>7. Len(f[i]) = i /\ \A j \in 1 .. i : f[i][j] = types[j]
      <4>1. /\ Len(Append(old, types[i])) = i /\ Append(old, types[i])[i] = types[i]
            /\ \A j \in 1 .. i - 1 : Append(old, types[i])[j] = old[j]
        BY <3>0, <3>1, <3>2
      <4>2. \A j \in 1 .. i : j = i \/ j \in 1 .. i - 1
        BY <3>0
      <4> QED
        BY <3>1, <3>5, <4>1, <4>2
    <3>8. Whole(i)
      BY <3>6, <3>7
    <3> HIDE DEF Whole
    <3> QED
      BY <3>0, <3>8
  <2> HIDE DEF Fine
  <2>6. n \in Fine
    <3>1. \A i \in 1 .. n : i - 1 \in Fine => i \in Fine
      BY <2>5
    <3>2. \A i \in 0 .. n : i \in Fine
      BY <1>0, <2>4, <3>1, UpTo
    <3> QED
      BY <1>0, <3>2
  <2>7. Whole(n)
    BY <2>6 DEF Fine
  <2>8. f[n] \in Seq(ActionType) /\ Len(f[n]) = Len(types) /\ \A j \in 1 .. Len(types) : f[n][j] = types[j]
    BY <1>0, <1>3, <2>7 DEF n
  <2> QED
    BY <2>8
<1>10. f[n] \in Seq(ActionType)
  BY <1>0, <1>3
<1>11. \E e : Embeds(e, f[n], types)
  BY <1>8 DEF Embeds, n
<1> QED
  BY <1>2, <1>8, <1>9, <1>10, <1>11 DEF n

-----------------------------------------------------------------------------
(* As eh_action.h documents the ranking *)

\* Min is the least of some numbers.
LEMMA MinNat ==
    ASSUME NEW T \in SUBSET Nat, T # {}
    PROVE  Min(T) \in T /\ \A y \in T : Min(T) <= y
<1>1. \E x \in T : \A y \in T : x <= y
  BY LeastNumber
<1> QED
  BY <1>1 DEF Min

\* What ranker() compares first.
LEMMA KeyOrder ==
    ASSUME NEW l, History(l), NEW a \in Entry, NEW b \in Entry,
           a.type \in ActionType, b.type \in ActionType, ~ Less(Key(l, b), Key(l, a))
    PROVE  \/ Occurrence(l, a.type) < Occurrence(l, b.type)
           \/ Occurrence(l, a.type) = Occurrence(l, b.type) /\ a.cost <= b.cost
<1> DEFINE p == Key(l, a)
           q == Key(l, b)
<1>1. p \in Keys(5) /\ q \in Keys(5)
  BY KeyIsNumbers
<1>2. /\ p[1] = Occurrence(l, a.type) /\ q[1] = Occurrence(l, b.type)
      /\ p[2] = a.cost /\ q[2] = b.cost
  BY DEF Key
<1>3. ~ Less(q, p)
  OBVIOUS
<1> HIDE DEF p, q
<1>4. /\ DOMAIN q = 1 .. 5 /\ 1 \in 1 .. 5 /\ 2 \in 1 .. 5
      /\ p[1] \in Int /\ q[1] \in Int /\ p[2] \in Int /\ q[2] \in Int
  BY <1>1 DEF Keys
<1>5. ~ (q[1] < p[1])
  BY <1>3, <1>4 DEF Less
<1>6. ~ (q[1] = p[1] /\ q[2] < p[2])
  <2>1. \A j \in 1 .. 2 - 1 : j = 1
    OBVIOUS
  <2> QED
    BY <1>3, <1>4, <2>1 DEF Less
<1>7. p[1] < q[1] \/ (p[1] = q[1] /\ p[2] <= q[2])
  BY <1>4, <1>5, <1>6
<1> QED
  BY <1>2, <1>7

\* How gpRankedList is made of a list without unused entries.
InOrder(order, l, r) ==
    /\ order \in [1 .. Len(l) -> 1 .. Len(l)]
    /\ \A i \in 1 .. Len(l) : \E m \in 1 .. Len(l) : order[m] = i
    /\ \A m \in 1 .. Len(l) : r[m] = l[order[m]].type
    /\ \A m, p \in 1 .. Len(l) : m < p => ~ Less(Key(l, l[order[p]]), Key(l, l[order[m]]))

\* ranker() makes it so.
LEMMA RankedInOrder ==
    ASSUME NEW l, History(l), NEW k \in Keys(5), Used(l) = l
    PROVE  \E order : InOrder(order, l, RankedList(l, k))
<1> DEFINE keys == [i \in DOMAIN l |-> IF i <= Len(l) THEN Key(l, l[i]) ELSE k]
           order == Sorted(keys)
           n == Len(l)
           r == RankedList(l, k)
<1>1. r = [m \in DOMAIN l |-> IF order[m] <= Len(l) THEN l[order[m]].type ELSE NULL]
  BY DEF RankedList
<1>2. /\ n \in Nat /\ DOMAIN l = 1 .. n
      /\ \A i \in 1 .. n : l[i] \in Entry /\ l[i].type \in ActionType
  BY UsedFacts DEF History
<1>3. keys \in [1 .. n -> Keys(5)] /\ \A i \in 1 .. n : keys[i] = Key(l, l[i])
  <2>1. \A i \in 1 .. n : Key(l, l[i]) \in Keys(5)
    BY <1>2, KeyIsNumbers
  <2> HIDE DEF n
  <2> QED
    BY <1>2, <2>1 DEF n
<1> HIDE DEF keys, n
<1>4. /\ order \in [1 .. n -> 1 .. n]
      /\ \A i \in 1 .. n : \E m \in 1 .. n : order[m] = i
      /\ \A a, m \in 1 .. n : a < m => ~ Less(keys[order[m]], keys[order[a]])
  BY <1>2, <1>3, SortedFacts
<1> HIDE DEF order
<1>5. \A m \in 1 .. n : r[m] = l[order[m]].type
  <2>1. \A m \in 1 .. n : order[m] <= Len(l)
    BY <1>2, <1>4 DEF n
  <2> HIDE DEF r
  <2> QED
    BY <1>1, <1>2, <2>1
<1>6. \A a, m \in 1 .. n : a < m => ~ Less(Key(l, l[order[m]]), Key(l, l[order[a]]))
  <2>1. \A m \in 1 .. n : order[m] \in 1 .. n
    BY <1>4
  <2> QED
    BY <1>3, <1>4, <2>1
<1>7. InOrder(order, l, r)
  <2> HIDE DEF r
  <2> QED
    BY <1>4, <1>5, <1>6 DEF InOrder, n
<1> QED
  BY <1>7

\* A type with an action in the list has an entry there.
LEMMA OccurrenceEntry ==
    ASSUME NEW l, History(l), Used(l) = l, NEW t, Occurrence(l, t) > 0
    PROVE  \E i \in 1 .. Len(l) : l[i].type = t
<1>1. SUFFICES ASSUME \A i \in 1 .. Len(l) : l[i].type # t PROVE FALSE
  OBVIOUS
<1>2. DOMAIN l = 1 .. Len(l)
  BY DEF History
<1>3. {i \in DOMAIN l : l[i].type = t} = {}
  BY <1>1, <1>2
<1>4. Occurrence(l, t) = Cardinality({i \in DOMAIN l : l[i].type = t})
  BY DEF Occurrence
<1>5. Occurrence(l, t) = 0
  BY <1>3, <1>4, FS_EmptySet
<1> QED
  BY <1>5

\* The least cost of the actions of a type.
LeastCost(l, t) == Min({e.cost : e \in {f \in ToSet(l) : f.type = t}})

\* It is the cost of one of them, and no more than that of any.
LEMMA LeastCostFacts ==
    ASSUME NEW l, History(l), NEW t, NEW x \in 1 .. Len(l), l[x].type = t
    PROVE  /\ LeastCost(l, t) \in Nat /\ LeastCost(l, t) <= l[x].cost
           /\ \E y \in 1 .. Len(l) : l[y].type = t /\ LeastCost(l, t) = l[y].cost
<1> DEFINE F == {f \in ToSet(l) : f.type = t}
           T == {e.cost : e \in F}
<1>1. l \in Seq(Entry) /\ DOMAIN l = 1 .. Len(l) /\ \A i \in 1 .. Len(l) : l[i] \in Entry
  BY DEF History
<1>2. l[x] \in F
  BY <1>1 DEF ToSet
<1>3. \A f \in F : \E y \in 1 .. Len(l) : f = l[y] /\ l[y].type = t
  BY <1>1 DEF ToSet
<1>4. \A f \in F : f.cost \in Nat
  BY <1>1, <1>3 DEF Entry
<1> HIDE DEF F
<1>5. T \in SUBSET Nat /\ l[x].cost \in T /\ T # {}
  BY <1>2, <1>4
<1>6. LeastCost(l, t) = Min(T)
  BY DEF LeastCost, F
<1>7. \A c \in T : \E f \in F : c = f.cost
  OBVIOUS
<1> HIDE DEF T
<1>8. Min(T) \in T /\ \A c \in T : Min(T) <= c
  BY <1>5, MinNat
<1>9. PICK f \in F : Min(T) = f.cost
  BY <1>7, <1>8
<1>10. PICK y \in 1 .. Len(l) : f = l[y] /\ l[y].type = t
  BY <1>3
<1> QED
  BY <1>5, <1>6, <1>8, <1>9, <1>10

\* Among types with actions, in a list without unused entries: the types
\* with the fewest of them first, then by the least cost.
LEMMA RanksByOccurrenceAndCost ==
    ASSUME NEW l, History(l), NEW k \in Keys(5), Used(l) = l,
           NEW i \in DOMAIN RankTypes(l, k), NEW j \in DOMAIN RankTypes(l, k), i < j,
           NEW t, t = RankTypes(l, k)[i], NEW u, u = RankTypes(l, k)[j],
           Occurrence(l, t) > 0, Occurrence(l, u) > 0
    PROVE  \/ Occurrence(l, t) < Occurrence(l, u)
           \/ Occurrence(l, t) = Occurrence(l, u) /\ LeastCost(l, t) <= LeastCost(l, u)
<1> DEFINE r == RankedList(l, k)
           types == FromActions(r)
           ranked_ == RankTypes(l, k)
           n == Len(l)
<1>1. r \in Seq(ActionType \cup {NULL}) /\ Len(r) = n
  BY RankedListFacts
<1>2. PICK order : InOrder(order, l, r)
  BY RankedInOrder
<1>3. ranked_ = types \o Missing(types)
  BY DEF RankTypes
<1>4. ranked_ \in Seq(ActionType) /\ IsInjective(ranked_) /\ ToSet(ranked_) = Wanted
  BY RankTypesFacts
<1>5. i \in DOMAIN ranked_ /\ j \in DOMAIN ranked_ /\ t = ranked_[i] /\ u = ranked_[j]
  OBVIOUS
<1>6. /\ n \in Nat /\ \A x \in 1 .. n : l[x] \in Entry /\ l[x].type \in ActionType
  BY UsedFacts DEF History
<1> HIDE DEF r, ranked_, n
<1>7. types \in Seq(ActionType) /\ \E e : FirstPlaces(e, types, r, Len(r))
  BY <1>1, FromActionsFacts
<1> HIDE DEF types
<1>8. PICK e : FirstPlaces(e, types, r, n)
  BY <1>1, <1>7
<1>9. Missing(types) \in Seq(ActionType)
  BY <1>7, MissingFacts
<1>10. /\ order \in [1 .. n -> 1 .. n]
       /\ \A x \in 1 .. n : \E m \in 1 .. n : order[m] = x
       /\ \A m \in 1 .. n : r[m] = l[order[m]].type /\ order[m] \in 1 .. n
       /\ \A m, p \in 1 .. n : m < p => ~ Less(Key(l, l[order[p]]), Key(l, l[order[m]]))
  BY <1>2 DEF InOrder, n
<1>11. \A m \in 1 .. n : r[m] # NULL
  BY <1>6, <1>10, OrderAssumption
<1>12. ASSUME NEW a \in DOMAIN ranked_, NEW v, v = ranked_[a], Occurrence(l, v) > 0
       PROVE  a \in 1 .. Len(types) /\ types[a] = v
  <2>1. PICK x \in 1 .. n : l[x].type = v
    BY <1>12, OccurrenceEntry DEF n
  <2>2. PICK m \in 1 .. n : order[m] = x
    BY <1>10
  <2>3. r[m] = v
    BY <1>10, <2>1, <2>2
  <2>4. Desirability[v] # 0
    <3>1. v \in Wanted
      BY <1>4, <1>12 DEF ToSet
    <3>2. Desirability[v] > 0 /\ Desirability[v] \in Nat
      BY <3>1, DesirabilityAssumption DEF Wanted
    <3> QED
      BY <3>2
  <2>5. \A p \in 1 .. m : p \in 1 .. n
    BY <1>6
  <2>6. v \in ToSet(types)
    BY <1>8, <1>11, <2>3, <2>4, <2>5 DEF FirstPlaces
  <2>7. PICK b \in 1 .. Len(types) : types[b] = v
    BY <1>7, <2>6 DEF ToSet
  <2>8. b \in DOMAIN ranked_ /\ ranked_[b] = v
    <3>1. /\ Len(types \o Missing(types)) = Len(types) + Len(Missing(types))
          /\ (types \o Missing(types))[b] = types[b]
          /\ Len(types) \in Nat /\ Len(Missing(types)) \in Nat
      BY <1>7, <1>9
    <3>2. DOMAIN ranked_ = 1 .. Len(types) + Len(Missing(types))
      BY <1>3, <1>4, <3>1
    <3> QED
      BY <1>3, <2>7, <3>1, <3>2
  <2>9. a = b
    BY <1>4, <1>12, <2>8 DEF IsInjective
  <2> QED
    BY <2>7, <2>9
<1>13. i \in 1 .. Len(types) /\ types[i] = t /\ j \in 1 .. Len(types) /\ types[j] = u
  BY <1>5, <1>12
<1>14. /\ e[i] \in 1 .. n /\ e[j] \in 1 .. n /\ e[i] < e[j] /\ r[e[i]] = t /\ r[e[j]] = u
       /\ \A m \in 1 .. e[j] - 1 : r[m] # u
  BY <1>8, <1>13 DEF FirstPlaces
<1> DEFINE x == order[e[i]]
           y == order[e[j]]
<1>15. /\ x \in 1 .. n /\ l[x] \in Entry /\ l[x].type = t /\ t \in ActionType
       /\ y \in 1 .. n /\ l[y] \in Entry /\ l[y].type = u /\ u \in ActionType
       /\ ~ Less(Key(l, l[y]), Key(l, l[x]))
  <2>1. x \in 1 .. n /\ l[x].type = t
    BY <1>10, <1>14
  <2>2. y \in 1 .. n /\ l[y].type = u
    BY <1>10, <1>14
  <2>3. ~ Less(Key(l, l[y]), Key(l, l[x]))
    BY <1>10, <1>14
  <2> HIDE DEF x, y
  <2> QED
    BY <1>6, <2>1, <2>2, <2>3
<1>16. \/ Occurrence(l, t) < Occurrence(l, u)
       \/ Occurrence(l, t) = Occurrence(l, u) /\ l[x].cost <= l[y].cost
  <2> HIDE DEF x, y
  <2> QED
    BY <1>15, KeyOrder
<1>17. ASSUME NEW z \in 1 .. n, l[z].type = u PROVE l[y].cost <= l[z].cost
  <2>1. PICK m \in 1 .. n : order[m] = z
    BY <1>10
  <2>2. r[m] = u
    BY <1>10, <1>17, <2>1
  <2>3. ~ (m < e[j])
    <3>1. m < e[j] => m \in 1 .. e[j] - 1
      BY <1>14
    <3> QED
      BY <1>14, <2>2, <3>1
  <2>4. l[z] \in Entry /\ l[y] \in Entry /\ l[y].cost \in Nat
    BY <1>6, <1>15 DEF Entry
  <2>5. CASE m = e[j]
    <3>1. z = y
      BY <2>1, <2>5
    <3> QED
      BY <2>4, <3>1
  <2>6. CASE e[j] < m
    <3>1. ~ Less(Key(l, l[z]), Key(l, l[y]))
      BY <1>10, <1>14, <2>1, <2>6
    <3> HIDE DEF y
    <3>2. \/ Occurrence(l, u) < Occurrence(l, u)
          \/ Occurrence(l, u) = Occurrence(l, u) /\ l[y].cost <= l[z].cost
      BY <1>15, <1>17, <2>4, <3>1, KeyOrder
    <3>3. Occurrence(l, u) > 0 => ~ (Occurrence(l, u) < Occurrence(l, u))
      <4>1. Key(l, l[y]) \in Keys(5) /\ Key(l, l[y])[1] = Occurrence(l, u)
        BY <1>15, KeyIsNumbers DEF Key
      <4>2. Occurrence(l, u) \in Int
        BY <4>1 DEF Keys
      <4> QED
        BY <4>2
    <3> QED
      BY <3>2, <3>3
  <2> QED
    BY <1>14, <2>3, <2>5, <2>6
<1> HIDE DEF x, y
<1>18. LeastCost(l, t) \in Nat /\ LeastCost(l, t) <= l[x].cost
  BY <1>15, LeastCostFacts DEF n
<1>19. PICK z \in 1 .. n : l[z].type = u /\ LeastCost(l, u) = l[z].cost
  BY <1>15, LeastCostFacts DEF n
<1>20. l[x].cost \in Nat /\ l[y].cost \in Nat /\ l[z].cost \in Nat /\ l[y].cost <= l[z].cost
  BY <1>6, <1>15, <1>17, <1>19 DEF Entry
<1> QED
  BY <1>16, <1>18, <1>19, <1>20

-----------------------------------------------------------------------------
(* What processorActionList() leaves out does not add to what is needed *)

\* A cost is a number.
LEMMA CostNat ==
    ASSUME NEW E \in [ActionType -> Nat], NEW s \in Seq(ActionType) PROVE Cost(E, s) \in Nat
<1>1. Report \in ActionType
  BY WakeupAssumption
<1> QED
  BY <1>1, CostAppend

\* Moving a type costs nothing.
LEMMA MoveToEndCost ==
    ASSUME NEW E \in [ActionType -> Nat], NEW s \in Seq(ActionType), NEW t \in ActionType
    PROVE  MoveToEnd(s, t) \in Seq(ActionType) /\ Cost(E, MoveToEnd(s, t)) <= Cost(E, s)
<1>1. CASE t \notin ToSet(s)
  <2>1. MoveToEnd(s, t) = s
    BY <1>1 DEF MoveToEnd
  <2>2. Cost(E, s) \in Nat
    BY CostNat
  <2> QED
    BY <2>1, <2>2
<1>2. CASE t \in ToSet(s)
  <2> DEFINE o == Only(s, ActionType \ {t})
  <2>1. o \in Seq(ActionType)
    BY OnlyPicks
  <2>2. t \in ToSet(s) \ (ActionType \ {t})
    BY <1>2
  <2>3. Cost(E, o) + E[t] <= Cost(E, s)
    BY <2>2, CostOfPart
  <2>4. MoveToEnd(s, t) = Append(o, t)
    BY <1>2 DEF MoveToEnd, DelType
  <2> HIDE DEF o
  <2>5. Cost(E, Append(o, t)) = Cost(E, o) + E[t]
    BY <2>1, CostAppend
  <2>6. Append(o, t) \in Seq(ActionType)
    BY <2>1
  <2> QED
    BY <2>3, <2>4, <2>5, <2>6
<1> QED
  BY <1>1, <1>2

\* Dropping a type costs nothing.
LEMMA DelTypeCost ==
    ASSUME NEW E \in [ActionType -> Nat], NEW s \in Seq(ActionType), NEW t
    PROVE  DelType(s, t) \in Seq(ActionType) /\ Cost(E, DelType(s, t)) <= Cost(E, s)
<1>1. Only(s, ActionType \ {t}) \in Seq(ActionType)
  BY OnlyPicks
<1>2. Cost(E, Only(s, ActionType \ {t})) <= Cost(E, s)
  BY CostOfPart
<1> QED
  BY <1>1, <1>2 DEF DelType

\* Nothing that comes before the look at the energy adds to what is needed.
LEMMA ChoosableCost ==
    ASSUME NEW E \in [ActionType -> Nat], NEW types \in Seq(ActionType), NEW in
    PROVE  Cost(E, WithRoom(PositionDue(WorthReporting(OneReport(types), in)), in)) <= Cost(E, types)
<1> DEFINE a == OneReport(types)
           b == WorthReporting(a, in)
           c == PositionDue(b)
           d == WithRoom(c, in)
<1>0. Report \in ActionType /\ GetTimeAndReport \in ActionType
  BY WakeupAssumption
<1>1. a \in Seq(ActionType) /\ Cost(E, a) <= Cost(E, types)
  <2>1. CASE timeAge # NULL /\ timeAge * Interval < TimeInterval
    <3> DEFINE o == DelType(types, GetTimeAndReport)
    <3>1. o \in Seq(ActionType) /\ Cost(E, o) <= Cost(E, types)
      BY DelTypeCost
    <3>2. a = MoveToEnd(o, Report)
      BY <2>1 DEF OneReport
    <3> HIDE DEF o, a
    <3>3. a \in Seq(ActionType) /\ Cost(E, a) <= Cost(E, o)
      BY <1>0, <3>1, <3>2, MoveToEndCost
    <3>4. Cost(E, a) \in Nat /\ Cost(E, o) \in Nat /\ Cost(E, types) \in Nat
      BY <3>1, <3>3, CostNat
    <3> QED
      BY <3>1, <3>3, <3>4
  <2>2. CASE ~ (timeAge # NULL /\ timeAge * Interval < TimeInterval)
    <3> DEFINE o == MoveToEnd(types, GetTimeAndReport)
    <3>1. o \in Seq(ActionType) /\ Cost(E, o) <= Cost(E, types)
      BY <1>0, MoveToEndCost
    <3>2. a = DelType(o, Report)
      BY <2>2 DEF OneReport
    <3> HIDE DEF o, a
    <3>3. a \in Seq(ActionType) /\ Cost(E, a) <= Cost(E, o)
      BY <3>1, <3>2, DelTypeCost
    <3>4. Cost(E, a) \in Nat /\ Cost(E, o) \in Nat /\ Cost(E, types) \in Nat
      BY <3>1, <3>3, CostNat
    <3> QED
      BY <3>1, <3>3, <3>4
  <2> QED
    BY <2>1, <2>2
<1> HIDE DEF a
<1>2. Cost(E, a) \in Nat /\ Cost(E, types) \in Nat
  BY <1>1, CostNat
<1>3. b \in Seq(ActionType) /\ Cost(E, b) <= Cost(E, a)
  <2>1. CASE b = a
    BY <1>1, <1>2, <2>1
  <2>2. CASE b = DelType(a, Report)
    <3> HIDE DEF b
    <3> QED
      BY <1>1, <2>2, DelTypeCost
  <2> QED
    BY <2>1, <2>2 DEF WorthReporting
<1> HIDE DEF b
<1>4. Cost(E, b) \in Nat
  BY <1>3, CostNat
<1>5. c \in Seq(ActionType) /\ Cost(E, c) <= Cost(E, b)
  <2>1. CASE c = b
    BY <1>3, <1>4, <2>1
  <2>2. CASE c = DelType(b, Position)
    <3> HIDE DEF c
    <3> QED
      BY <1>3, <2>2, DelTypeCost
  <2> QED
    BY <2>1, <2>2 DEF PositionDue
<1> HIDE DEF c
<1>6. d \in Seq(ActionType) /\ Cost(E, d) <= Cost(E, c)
  <2>1. Only(c, Reports \cup in.room) \in Seq(ActionType)
    BY <1>5, OnlyPicks
  <2>2. Cost(E, Only(c, Reports \cup in.room)) <= Cost(E, c)
    BY <1>5, CostOfPart
  <2> QED
    BY <2>1, <2>2 DEF WithRoom
<1> HIDE DEF d
<1>7. Cost(E, c) \in Nat /\ Cost(E, d) \in Nat
  BY <1>5, <1>6, CostNat
<1>8. Cost(E, d) <= Cost(E, types)
  BY <1>1, <1>2, <1>3, <1>4, <1>5, <1>6, <1>7
<1> QED
  BY <1>8 DEF a, b, c, d

-----------------------------------------------------------------------------
(* The back-off *)

\* Doubling below the limit in seconds stays below the limit in skips.
LEMMA Doubling ==
    ASSUME NEW r \in Nat, NEW i \in Nat \ {0}, NEW m \in Nat, r * i * 2 < m
    PROVE  r * 2 <= m \div i
<1> DEFINE q == m \div i
<1>1. q \in Nat /\ m < i * (q + 1)
  BY SMT
<1>2. SUFFICES ASSUME q + 1 <= r * 2 PROVE FALSE
  BY <1>1
<1>3. i * (q + 1) <= i * (r * 2)
  <2> HIDE DEF q
  <2>1. PICK d \in Nat : r * 2 = q + 1 + d
    BY <1>1, <1>2
  <2>2. i * (r * 2) = i * (q + 1) + i * d /\ i * d \in Nat
    BY <1>1, <2>1
  <2> QED
    BY <1>1, <2>2
<1>4. i * (r * 2) = r * i * 2
  OBVIOUS
<1> QED
  BY <1>1, <1>3, <1>4

\* The limit in skips is a positive number: LOCATION_FIX_MAX_PERIOD_SECONDS is
\* at least WAKEUP_INTERVAL_SECONDS.
LEMMA MaxSkipsNat == MaxSkips \in Nat /\ 1 <= MaxSkips
BY WakeupAssumption DEF MaxSkips

\* While there is something to skip, what has gone by is counted in skipped;
\* and there is nothing to skip from when the device moves until it tries.
BackOffInv ==
    /\ required \in 0 .. MaxSkips
    /\ skipped \in Nat
    /\ sinceTry \in 0 .. MaxSkips
    /\ required > 0 => sinceTry <= skipped
    /\ ~triedSince => required = 0

\* The minimum of two numbers, as Skip takes it.
LEMMA MinOfTwo ==
    ASSUME NEW a \in Nat, NEW b \in Nat
    PROVE  /\ Min({a, b}) \in Nat
           /\ Min({a, b}) <= a /\ Min({a, b}) <= b
           /\ a <= b => Min({a, b}) = a
           /\ b <= a => Min({a, b}) = b
<1>1. \E x \in {a, b} : \A y \in {a, b} : x <= y
  OBVIOUS
<1>2. Min({a, b}) \in {a, b} /\ \A y \in {a, b} : Min({a, b}) <= y
  BY <1>1 DEF Min
<1> QED
  BY <1>2

\* Skipping adds one, as long as that can still be told from the limit.
LEMMA SkipCounts ==
    ASSUME BackOffInv, Skip
    PROVE  /\ skipped' \in Nat
           /\ skipped < MaxSkips => skipped' = skipped + 1
           /\ sinceTry <= MaxSkips /\ sinceTry <= skipped => sinceTry <= skipped'
<1>1. skipped \in Nat /\ MaxSkips \in Nat /\ skipped + 1 \in Nat /\ sinceTry \in Nat
  BY MaxSkipsNat DEF BackOffInv
<1>2. /\ skipped' \in Nat
      /\ skipped + 1 <= MaxSkips => skipped' = skipped + 1
      /\ MaxSkips <= skipped + 1 => skipped' = MaxSkips
  BY <1>1, MinOfTwo DEF Skip
<1> QED
  BY <1>1, <1>2

\* Every step keeps the invariant: each action of the processor in turn.
THEOREM BackOffStep == BackOffInv /\ [Next]_vars => BackOffInv'
<1> SUFFICES ASSUME BackOffInv, [Next]_vars PROVE BackOffInv'
  OBVIOUS
<1>0. MaxSkips \in Nat /\ 1 <= MaxSkips
  BY MaxSkipsNat
<1>1. CASE UNCHANGED vars
  BY <1>1 DEF BackOffInv, vars, backOff
<1>2. CASE Rank
  BY <1>2 DEF BackOffInv, Rank, backOff
<1>3. CASE Moved
  BY <1>3, <1>0 DEF BackOffInv, Moved, Reset
<1>4. CASE Choose
  <2>1. UNCHANGED <<required, sinceTry, triedSince>> /\ (Skip \/ UNCHANGED skipped)
    BY <1>4 DEF Choose
  <2> QED
    BY <2>1, SkipCounts DEF BackOffInv
<1>5. CASE NotTried
  BY <1>5 DEF BackOffInv, NotTried, backOff
<1>6. CASE SkipTurn
  <2>1. /\ skipped < required /\ Skip /\ sinceTry' = sinceTry + 1
        /\ UNCHANGED <<required, triedSince>>
    BY <1>6 DEF SkipTurn
  <2> QED
    BY <2>1, <1>0, SkipCounts DEF BackOffInv
<1>7. CASE NoDriver
  <2>1. Skip /\ UNCHANGED <<required, sinceTry, triedSince>>
    BY <1>7 DEF NoDriver
  <2> QED
    BY <2>1, SkipCounts DEF BackOffInv
<1>8. CASE GotFix
  BY <1>8, <1>0 DEF BackOffInv, GotFix, Reset
<1>9. CASE NoFix
  <2>1. sinceTry' = 0 /\ triedSince' = TRUE
    BY <1>9 DEF NoFix
  <2>2. CASE BackOffFirst
    BY <2>1, <2>2, <1>0 DEF BackOffInv, BackOffFirst
  <2>3. CASE BackOffMore
    <3>1. required' <= MaxSkips /\ required' \in Nat
      BY <2>3, <1>0, Doubling, WakeupAssumption DEF BackOffInv, BackOffMore, MaxSkips
    <3> QED
      BY <2>1, <2>3, <3>1, <1>0 DEF BackOffInv, BackOffMore
  <2> QED
    BY <1>9, <2>2, <2>3 DEF NoFix
<1> QED
  BY <1>1, <1>2, <1>3, <1>4, <1>5, <1>6, <1>7, <1>8, <1>9 DEF Next

\* However long a position cannot be had, and whatever else makes attempts
\* to be skipped, no more than the longest period goes by without a try
\* (doMeasurePosition()).
THEOREM BackOffIsBounded == Spec => []BackOffBounded
<1>1. Init => BackOffInv
  BY MaxSkipsNat DEF Init, BackOffInv
<1>2. BackOffInv => BackOffBounded
  BY MaxSkipsNat DEF BackOffInv, BackOffBounded
<1> QED
  BY <1>1, <1>2, BackOffStep, PTL DEF Spec

\* Once the device has moved the next position action tries at once
\* (processorActionList(), woken by acceleration).
THEOREM MovedTriesAtOnce == Spec => []MovedTries
<1>1. Init => BackOffInv
  BY MaxSkipsNat DEF Init, BackOffInv
<1>2. BackOffInv => MovedTries
  BY DEF BackOffInv, MovedTries
<1> QED
  BY <1>1, <1>2, BackOffStep, PTL DEF Spec

\* Both at once: the back-off of the position is neither too long nor
\* outlives a movement.
THEOREM BackOffIsSound == Spec => []BackOffSound
<1>1. BackOffBounded /\ MovedTries => BackOffSound
  BY DEF BackOffSound
<1> QED
  BY <1>1, BackOffIsBounded, MovedTriesAtOnce, PTL
-----------------------------------------------------------------------------
(* The choice *)

\* The list that is ranked is one of those a wake-up may begin with, and
\* what is chosen from it holds no type twice, a report last.
ChoiceInv ==
    /\ phase \in {"asleep", "ranked", "chosen"}
    /\ list \in Histories \cup {<<>>} /\ available \in Nat
    /\ ranked \in Seq(ActionType)
    /\ phase = "ranked" => list \in Histories /\ \E k \in NullKeys : ranked = RankTypes(list, k)
    /\ phase = "chosen" => Types(ranked) /\ LastOf(Reports, ranked)

\* The lists a wake-up may begin with.
LEMMA HistoriesAreHistory ==
    ASSUME NEW l \in Histories PROVE l \in Seq(Entry) /\ History(l)
<1>1. l \in Seq(Entry) /\ \A i \in DOMAIN l : l[i].state # "NULL" => l[i].type # NULL
  BY HistoryAssumption
<1> QED
  BY <1>1 DEF History

\* The ranked types, when they are.
LEMMA RankedTypes ==
    ASSUME ChoiceInv, phase = "ranked"
    PROVE  /\ list \in Seq(Entry) /\ History(list) /\ available \in Nat
           /\ ranked \in Seq(ActionType) /\ Types(ranked) /\ ToSet(ranked) = Wanted
<1>1. list \in Histories /\ available \in Nat
  BY DEF ChoiceInv
<1>2. PICK k \in NullKeys : ranked = RankTypes(list, k)
  BY DEF ChoiceInv
<1>3. k \in Keys(5)
  BY HistoryAssumption DEF Keys
<1>4. list \in Seq(Entry) /\ History(list)
  BY <1>1, HistoriesAreHistory
<1>5. ranked \in Seq(ActionType) /\ IsInjective(ranked) /\ ToSet(ranked) = Wanted
  BY <1>2, <1>3, <1>4, RankTypesFacts
<1> QED
  BY <1>1, <1>4, <1>5 DEF Types

\* What is chosen, from the types left before the energy is looked at.
LEMMA ChosenTypes ==
    ASSUME ChoiceInv, phase = "ranked", NEW in,
           NEW types, types = WithRoom(PositionDue(WorthReporting(OneReport(ranked), in)), in)
    PROVE  /\ Types(types) /\ LastOf(Reports, types)
           /\ Types(Affordable(types)) /\ LastOf(Reports, Affordable(types))
           /\ Needed(Affordable(types)) <= available
           /\ Needed(types) <= available => Affordable(types) = types
           /\ Needed(types) <= Needed(ranked)
           /\ Needed(types) \in Nat /\ Needed(ranked) \in Nat
           /\ in.full /\ in.room = {} => \E t \in Reports : ToSet(types) = (Wanted \ {t}) \cap Reports
<1>1. /\ list \in Seq(Entry) /\ available \in Nat
      /\ ranked \in Seq(ActionType) /\ Types(ranked) /\ ToSet(ranked) = Wanted
  BY RankedTypes
<1>2. /\ Types(types) /\ LastOf(Reports, types)
      /\ in.full /\ in.room = {} => \E t \in Reports : ToSet(types) = (Wanted \ {t}) \cap Reports
  <2>1. Types(ranked) => LET o == WithRoom(PositionDue(WorthReporting(OneReport(ranked), in)), in)
           IN  /\ Types(o) /\ LastOf(Reports, o)
               /\ ToSet(o) \subseteq ToSet(ranked)
               /\ in.full /\ in.room = {} => \E t \in Reports : ToSet(o) = (ToSet(ranked) \ {t}) \cap Reports
    BY ChoosableTypes
  <2> QED
    BY <1>1, <2>1
<1>3. types \in Seq(ActionType) /\ IsInjective(types)
  BY <1>2 DEF Types
<1> DEFINE kept == Affordable(types)
<1>4. /\ kept \in Seq(ActionType) /\ Needed(kept) <= available
      /\ \E e : Embeds(e, kept, types)
      /\ Needed(types) <= available => kept = types
  BY <1>1, <1>3, AffordableFacts
<1> HIDE DEF kept
<1>5. IsInjective(kept) /\ LastOf(Reports, kept)
  BY <1>2, <1>3, <1>4, EmbedKeeps
<1>6. Needs \in [ActionType -> Nat]
  BY <1>1, EnergyNat DEF Needs
<1>7. Cost(Needs, types) <= Cost(Needs, ranked)
  BY <1>1, <1>6, ChoosableCost
<1>8. /\ Needed(types) = Cost(Needs, types) /\ Needed(ranked) = Cost(Needs, ranked)
      /\ Cost(Needs, types) \in Nat /\ Cost(Needs, ranked) \in Nat
  BY <1>1, <1>3, <1>6, NeededIsCost, CostNat
<1> QED
  BY <1>2, <1>4, <1>5, <1>7, <1>8 DEF Types, kept

\* Every step keeps it: ranking establishes the first half, choosing the second.
LEMMA ChoiceStep == ChoiceInv /\ [Next]_vars => ChoiceInv'
<1> SUFFICES ASSUME ChoiceInv, [Next]_vars PROVE ChoiceInv'
  OBVIOUS
<1>0. <<>> \in Seq(ActionType) /\ <<>> \in Histories \cup {<<>>}
  OBVIOUS
<1>1. CASE UNCHANGED vars
  BY <1>1 DEF ChoiceInv, vars, choice, Types, LastOf, RankTypes
<1>2. CASE Rank
  <2>1. PICK k \in NullKeys : ranked' = RankTypes(list', k)
    BY <1>2 DEF Rank
  <2>2. list' \in Histories /\ available' \in Nat /\ phase' = "ranked"
    BY <1>2, HistoryAssumption DEF Rank
  <2>3. PICK l : l = list'
    OBVIOUS
  <2>4. RankTypes(l, k) \in Seq(ActionType)
    BY <2>2, <2>3, HistoriesAreHistory, HistoryAssumption, RankTypesFacts DEF Keys
  <2> QED
    BY <2>1, <2>2, <2>3, <2>4 DEF ChoiceInv
<1>3. CASE Moved
  BY <1>0, <1>3 DEF ChoiceInv, Moved
<1>4. CASE Choose
  <2>1. PICK in : in = input'
    OBVIOUS
  <2>2. PICK types : types = WithRoom(PositionDue(WorthReporting(OneReport(ranked), in)), in)
    OBVIOUS
  <2>3. phase = "ranked" /\ phase' = "chosen" /\ list' = <<>> /\ available' = 0
    BY <1>4 DEF Choose
  <2>4. ranked' = Affordable(types)
    BY <1>4, <2>1, <2>2 DEF Choose
  <2>5. Types(Affordable(types)) /\ LastOf(Reports, Affordable(types))
    BY <2>2, <2>3, ChosenTypes
  <2>6. PICK kept : kept = Affordable(types)
    OBVIOUS
  <2>7. ranked' = kept /\ Types(kept) /\ LastOf(Reports, kept)
    BY <2>4, <2>5, <2>6
  <2> QED
    BY <2>3, <2>7 DEF ChoiceInv, Types, LastOf, Reports
<1>5. ASSUME Done PROVE ChoiceInv'
  BY <1>0, <1>5 DEF ChoiceInv, Done
<1> QED
  BY <1>1, <1>2, <1>3, <1>4, <1>5
     DEF Next, NotTried, SkipTurn, NoDriver, GotFix, NoFix, Try

\* It holds in every state.
LEMMA ChoiceInvariant == Spec => []ChoiceInv
<1>1. Init => ChoiceInv
  BY DEF Init, ChoiceInv
<1> QED
  BY <1>1, ChoiceStep, PTL DEF Spec

\* Each type that is not off is ranked once, in the documented order where
\* the list is full, and a report is only ever chosen as the last
\* (actionRankTypes(), processorActionList()).
THEOREM RankingIsSound == Spec => []RankingSound
<1>1. ASSUME ChoiceInv PROVE RankingSound
  <2>1. RankedOnce
    BY <1>1, RankedTypes DEF RankedOnce, Types
  <2>2. ReportLast
    <3> SUFFICES ASSUME phase = "chosen"
                 PROVE  IsInjective(ranked) /\ \A i \in DOMAIN ranked : ranked[i] \in Reports => i = Len(ranked)
      BY DEF ReportLast
    <3>1. ranked \in Seq(ActionType) /\ IsInjective(ranked) /\ LastOf(Reports, ranked)
      BY <1>1 DEF ChoiceInv, Types
    <3>2. DOMAIN ranked = 1 .. Len(ranked)
      BY <3>1
    <3> QED
      BY <3>1, <3>2 DEF LastOf
  <2>3. RanksAsDocumented
    <3> SUFFICES ASSUME phase = "ranked", Used(list) = list,
                        NEW i \in DOMAIN ranked, NEW j \in DOMAIN ranked,
                        NEW t, t = ranked[i], NEW u, u = ranked[j],
                        Occurrence(list, t) > 0, Occurrence(list, u) > 0, i < j
                 PROVE  \/ Occurrence(list, t) < Occurrence(list, u)
                        \/ /\ Occurrence(list, t) = Occurrence(list, u)
                           /\ LeastCost(list, t) <= LeastCost(list, u)
      BY DEF RanksAsDocumented, LeastCost
    <3>1. PICK k \in NullKeys : ranked = RankTypes(list, k)
      BY <1>1 DEF ChoiceInv
    <3>2. k \in Keys(5) /\ History(list)
      BY <1>1, RankedTypes, HistoryAssumption DEF Keys
    <3> QED
      BY <3>1, <3>2, RanksByOccurrenceAndCost
  <2> QED
    BY <2>1, <2>2, <2>3 DEF RankingSound
<1> QED
  BY <1>1, ChoiceInvariant, PTL

\* What is chosen needs no more than the energy there is, and no position is
\* counted as skipped when all could be paid for (processorActionList()).
THEOREM ChoiceWithinEnergy == Spec => WithinEnergy
<1>1. ASSUME ChoiceInv, Next, Choosing
      PROVE  Needed(ranked') <= available /\ (Needed(ranked) <= available => skipped' = skipped)
  <2>1. Choose
    BY <1>1 DEF Choosing, Next, Rank, Moved, NotTried, SkipTurn, NoDriver, GotFix, NoFix, Try, Done
  <2>2. PICK in : in = input'
    OBVIOUS
  <2>3. PICK types : types = WithRoom(PositionDue(WorthReporting(OneReport(ranked), in)), in)
    OBVIOUS
  <2>4. /\ ranked' = Affordable(types)
        /\ IF Position \in ToSet(types) \ ToSet(ranked') THEN Skip ELSE UNCHANGED skipped
    BY <2>1, <2>2, <2>3 DEF Choose
  <2>5. PICK kept : kept = ranked'
    OBVIOUS
  <2>6. /\ Needed(kept) <= available
        /\ Needed(types) <= available => kept = types
        /\ Needed(types) <= Needed(ranked)
        /\ Needed(types) \in Nat /\ Needed(ranked) \in Nat /\ available \in Nat
    BY <1>1, <2>3, <2>4, <2>5, ChosenTypes DEF Choosing, ChoiceInv
  <2>7. Needed(ranked) <= available => kept = types
    BY <2>6
  <2>8. kept = types => skipped' = skipped
    BY <2>4, <2>5
  <2>9. Needed(ranked') = Needed(kept)
    BY <2>5
  <2> QED
    BY <2>6, <2>7, <2>8, <2>9
<1>2. ChoiceInv /\ [Next]_vars =>
        [Choosing => /\ Needed(ranked') <= available
                     /\ Needed(ranked) <= available => skipped' = skipped]_vars
  BY <1>1
<1> QED
  BY <1>2, ChoiceInvariant, PTL DEF Spec, WithinEnergy

\* A queue with no room for anything is emptied by a report, and nothing
\* else is done, when the energy suffices (processorActionList()).
THEOREM FullQueueDrains == Spec => QueueDrains
<1>1. ASSUME ChoiceInv, Next, Choosing, input'.full, input'.room = {}, Reports \subseteq Wanted,
             \A t \in Reports : EnergyNWH(list, t) <= available
      PROVE  \E t \in Reports : ranked' = <<t>>
  <2>1. Choose
    BY <1>1 DEF Choosing, Next, Rank, Moved, NotTried, SkipTurn, NoDriver, GotFix, NoFix, Try, Done
  <2>2. PICK in : in = input'
    OBVIOUS
  <2>3. PICK types : types = WithRoom(PositionDue(WorthReporting(OneReport(ranked), in)), in)
    OBVIOUS
  <2>4. ranked' = Affordable(types) /\ phase = "ranked"
    BY <2>1, <2>2, <2>3 DEF Choose
  <2>5. /\ Types(types) /\ LastOf(Reports, types)
        /\ Needed(types) <= available => Affordable(types) = types
        /\ \E t \in Reports : ToSet(types) = (Wanted \ {t}) \cap Reports
    BY <1>1, <2>2, <2>3, <2>4, ChosenTypes
  <2>6. PICK r \in Reports : ToSet(types) = {r}
    BY <1>1, <2>5, WakeupAssumption DEF Reports
  <2>7. types = <<r>>
    <3>1. types \in Seq(ActionType) /\ DOMAIN types = 1 .. Len(types) /\ Len(types) \in Nat
      BY <2>5 DEF Types
    <3>2. \A i \in 1 .. Len(types) : types[i] = r /\ i = Len(types)
      BY <2>5, <2>6, <3>1 DEF ToSet, LastOf
    <3>3. Len(types) # 0
      BY <2>6, <3>1 DEF ToSet
    <3>4. Len(types) = 1
      <4>1. 1 \in 1 .. Len(types)
        BY <3>1, <3>3
      <4> QED
        BY <3>2, <4>1
    <3> QED
      BY <3>1, <3>2, <3>4
  <2>8. Needed(<<r>>) <= available
    <3>1. list \in Seq(Entry) /\ r \in ActionType /\ EnergyNWH(list, r) <= available
      BY <1>1, <2>4, RankedTypes, WakeupAssumption DEF Reports
    <3>2. Needs \in [ActionType -> Nat] /\ Needs[r] = EnergyNWH(list, r) /\ Needs[r] \in Nat
      BY <3>1, EnergyNat DEF Needs
    <3> DEFINE none == <<>>
    <3>3. none \in Seq(ActionType) /\ <<r>> = Append(none, r) /\ <<r>> \in Seq(ActionType)
      BY <3>1
    <3>4. Cost(Needs, none) = 0
      BY NoCost
    <3> HIDE DEF none
    <3>5. Cost(Needs, Append(none, r)) = Cost(Needs, none) + Needs[r]
      BY <3>1, <3>2, <3>3, CostAppend
    <3>6. Needed(<<r>>) = Cost(Needs, <<r>>)
      BY <3>3, NeededIsCost
    <3>7. Cost(Needs, <<r>>) = 0 + Needs[r]
      BY <3>3, <3>4, <3>5
    <3>8. Needed(<<r>>) = EnergyNWH(list, r)
      BY <3>2, <3>6, <3>7
    <3> QED
      BY <3>1, <3>8
  <2> QED
    BY <2>4, <2>5, <2>6, <2>7, <2>8
<1>2. ChoiceInv /\ [Next]_vars =>
        [(Choosing /\ input'.full /\ input'.room = {} /\ Reports \subseteq Wanted
          /\ \A t \in Reports : EnergyNWH(list, t) <= available)
         => \E t \in Reports : ranked' = <<t>>]_vars
  BY <1>1
<1> QED
  BY <1>2, ChoiceInvariant, PTL DEF Spec, QueueDrains

\* What is chosen of the ranked actions is worth the energy there is, and a
\* full queue is emptied.
THEOREM ChoiceIsSound == Spec => ChoiceSound
BY ChoiceWithinEnergy, FullQueueDrains DEF ChoiceSound

-----------------------------------------------------------------------------
(* Types *)

\* The ages and counters; the number of failures is only counted on while
\* there is no back-off, and no longer than that is to be.
ClockInv ==
    /\ input \in [reason : {"RTC", "MAGNETIC"}, full : BOOLEAN, room : Rooms] \cup {NULL}
    /\ fixAge \in Age(MaxAge) \cup {NULL} /\ timeAge \in Age(TimeInterval) \cup {NULL}
    /\ weveMoved \in BOOLEAN /\ triedSince \in BOOLEAN
    /\ skipped \in 0 .. MaxSkips
    /\ failed \in 0 .. (NoBackOff \div Interval) + 1
    /\ required = 0 => failed <= NoBackOff \div Interval

\* Counting intervals in whole numbers.
LEMMA Division ==
    ASSUME NEW k \in Nat, NEW i \in Nat \ {0}, NEW m \in Nat, k * i <= m
    PROVE  k <= m \div i
<1> DEFINE q == m \div i
<1>1. q \in Nat /\ m < i * (q + 1)
  BY SMT
<1> HIDE DEF q
<1>2. SUFFICES ASSUME q + 1 <= k PROVE FALSE
  BY <1>1 DEF q
<1>3. PICK d \in Nat : k = q + 1 + d
  BY <1>1, <1>2
<1>4. k * i = i * (q + 1) + d * i /\ d * i \in Nat /\ i * (q + 1) \in Nat
  BY <1>1, <1>3
<1> QED
  BY <1>1, <1>4

\* The limits in intervals.
LEMMA LimitsNat ==
    /\ NoBackOff \div Interval \in Nat /\ MaxAge \div Interval \in Nat
    /\ TimeInterval \div Interval \in Nat
<1>1. \A a \in Nat : \A b \in Nat \ {0} : a \div b \in Nat
  OBVIOUS
<1> QED
  BY <1>1, WakeupAssumption

\* Ages are counted no further than they matter.
LEMMA OlderInAge ==
    ASSUME NEW limit \in {MaxAge, TimeInterval}, NEW age \in Age(limit)
    PROVE  Older(age, limit) \in Age(limit)
<1> DEFINE m == (limit \div Interval) + 1
<1>1. m \in Nat
  BY LimitsNat
<1> HIDE DEF m
<1>2. age \in Nat
  BY DEF Age
<1>3. Min({age + 1, m}) \in Nat /\ Min({age + 1, m}) <= m
  BY <1>1, <1>2, MinOfTwo
<1>4. Older(age, limit) = Min({age + 1, m}) /\ Age(limit) = 0 .. m
  BY DEF Older, Age, m
<1> QED
  BY <1>1, <1>3, <1>4

\* A count may start again.
LEMMA NoneInLimits ==
    /\ 0 \in Age(MaxAge) /\ 0 \in Age(TimeInterval)
    /\ 0 \in 0 .. MaxSkips /\ 0 \in 0 .. (NoBackOff \div Interval) + 1
    /\ 0 <= NoBackOff \div Interval
<1>1. \A a \in Nat : 0 \in 0 .. a + 1 /\ 0 \in 0 .. a /\ 0 <= a
  OBVIOUS
<1> QED
  BY <1>1, MaxSkipsNat, LimitsNat DEF Age

\* Every step keeps the ages and counters in their limits.
LEMMA ClockStep == BackOffInv /\ ClockInv /\ [Next]_vars => ClockInv'
<1> SUFFICES ASSUME BackOffInv, ClockInv, [Next]_vars PROVE ClockInv'
  OBVIOUS
<1>0. /\ MaxSkips \in Nat /\ 1 <= MaxSkips /\ NoBackOff \div Interval \in Nat
      /\ 0 \in Age(MaxAge) /\ 0 \in Age(TimeInterval)
      /\ 0 \in 0 .. MaxSkips /\ 0 \in 0 .. (NoBackOff \div Interval) + 1
      /\ 0 <= NoBackOff \div Interval
  BY NoneInLimits, MaxSkipsNat, LimitsNat
<1>1. ASSUME Skip PROVE skipped' \in 0 .. MaxSkips
  <2>1. skipped + 1 \in Nat
    BY <1>0 DEF ClockInv
  <2>2. Min({skipped + 1, MaxSkips}) \in Nat /\ Min({skipped + 1, MaxSkips}) <= MaxSkips
    BY <1>0, <2>1, MinOfTwo
  <2> QED
    BY <1>0, <1>1, <2>2 DEF Skip
<1>2. ASSUME ReportTime PROVE timeAge' \in Age(TimeInterval) \cup {NULL}
  BY <1>0, <1>2 DEF ReportTime, ClockInv
<1>3. CASE UNCHANGED vars
  BY <1>3 DEF ClockInv, vars, choice, backOff
<1>4. CASE Rank
  <2>1. /\ UNCHANGED <<input, weveMoved, triedSince, skipped, failed, required>>
        /\ Sleep
    BY <1>4 DEF Rank, backOff
  <2>2. fixAge' \in Age(MaxAge) \cup {NULL} /\ timeAge' \in Age(TimeInterval) \cup {NULL}
    <3>1. CASE UNCHANGED <<fixAge, timeAge>>
      BY <3>1 DEF ClockInv
    <3>2. CASE /\ fixAge' = IF fixAge = NULL THEN NULL ELSE Older(fixAge, MaxAge)
               /\ timeAge' = IF timeAge = NULL THEN NULL ELSE Older(timeAge, TimeInterval)
      <4>1. fixAge # NULL => Older(fixAge, MaxAge) \in Age(MaxAge)
        BY OlderInAge DEF ClockInv
      <4>2. timeAge # NULL => Older(timeAge, TimeInterval) \in Age(TimeInterval)
        BY OlderInAge DEF ClockInv
      <4> QED
        BY <3>2, <4>1, <4>2
    <3> QED
      BY <2>1, <3>1, <3>2 DEF Sleep
  <2> QED
    BY <2>1, <2>2 DEF ClockInv
<1>5. CASE Moved
  BY <1>0, <1>5 DEF ClockInv, Moved, Reset
<1>6. CASE Choose
  <2>1. /\ input' \in [reason : {"RTC", "MAGNETIC"}, full : BOOLEAN, room : Rooms]
        /\ Skip \/ UNCHANGED skipped
        /\ UNCHANGED <<fixAge, timeAge, weveMoved, required, failed, triedSince>>
    BY <1>6 DEF Choose
  <2>2. skipped' \in 0 .. MaxSkips
    BY <1>1, <2>1 DEF ClockInv
  <2> QED
    BY <2>1, <2>2 DEF ClockInv
<1>7. CASE NotTried
  <2>1. ReportTime /\ input' = NULL /\ UNCHANGED <<fixAge, weveMoved, triedSince, skipped, failed, required>>
    BY <1>7 DEF NotTried, Done, backOff
  <2> QED
    BY <1>2, <2>1 DEF ClockInv
<1>8. CASE SkipTurn
  <2>1. /\ ReportTime /\ Skip /\ input' = NULL
        /\ UNCHANGED <<fixAge, weveMoved, triedSince, failed, required>>
    BY <1>8 DEF SkipTurn, Done
  <2> QED
    BY <1>1, <1>2, <2>1 DEF ClockInv
<1>9. CASE NoDriver
  <2>1. /\ ReportTime /\ Skip /\ input' = NULL
        /\ UNCHANGED <<fixAge, weveMoved, triedSince, failed, required>>
    BY <1>9 DEF NoDriver, Try, Done
  <2> QED
    BY <1>1, <1>2, <2>1 DEF ClockInv
<1>10. CASE GotFix
  <2>1. /\ fixAge' = 0 /\ timeAge' \in {timeAge, 0} /\ weveMoved' = FALSE /\ triedSince' = TRUE
        /\ input' = NULL /\ skipped' = 0 /\ failed' = 0
    BY <1>10 DEF GotFix, Try, Done, Reset
  <2> QED
    BY <1>0, <2>1 DEF ClockInv
<1>11. CASE NoFix
  <2>1. /\ ReportTime /\ input' = NULL /\ triedSince' = TRUE
        /\ UNCHANGED <<fixAge, weveMoved>>
    BY <1>11 DEF NoFix, Try, Done
  <2>2. /\ skipped' \in 0 .. MaxSkips
        /\ failed' \in 0 .. (NoBackOff \div Interval) + 1
        /\ required' = 0 => failed' <= NoBackOff \div Interval
    <3>1. CASE BackOffFirst
      <4>1. required = 0 /\ failed \in Nat /\ failed <= NoBackOff \div Interval /\ failed' = failed + 1
        BY <3>1 DEF BackOffFirst, ClockInv
      <4>2. failed' \in Nat /\ failed' \in 0 .. (NoBackOff \div Interval) + 1
        BY <1>0, <4>1
      <4>3. CASE failed' * Interval > NoBackOff
        BY <1>0, <3>1, <4>2, <4>3 DEF BackOffFirst
      <4>4. CASE ~ (failed' * Interval > NoBackOff)
        <5>1. failed' * Interval <= NoBackOff
          <6>1. \A a, b \in Nat : a * b \in Nat
            OBVIOUS
          <6>2. failed' * Interval \in Nat /\ NoBackOff \in Nat
            BY <4>2, <6>1, WakeupAssumption
          <6> QED
            BY <4>4, <6>2
        <5>2. failed' <= NoBackOff \div Interval
          BY <4>2, <5>1, Division, WakeupAssumption
        <5>3. UNCHANGED skipped
          BY <3>1, <4>4 DEF BackOffFirst
        <5> QED
          BY <4>2, <5>2, <5>3 DEF ClockInv
      <4> QED
        BY <4>3, <4>4
    <3>2. CASE BackOffMore
      <4>1. required \in Nat /\ required > 0 /\ skipped' = 0 /\ failed' = failed
        BY <3>2 DEF BackOffMore, BackOffInv
      <4>2. required' # 0
        BY <1>0, <3>2, <4>1 DEF BackOffMore
      <4> QED
        BY <1>0, <4>1, <4>2 DEF ClockInv
    <3> QED
      BY <1>11, <3>1, <3>2 DEF NoFix
  <2> QED
    BY <1>2, <2>1, <2>2 DEF ClockInv
<1> QED
  BY <1>3, <1>4, <1>5, <1>6, <1>7, <1>8, <1>9, <1>10, <1>11 DEF Next

\* Every variable keeps its type; in particular the counters of the back-off
\* stay within their limits (doMeasurePosition()).
THEOREM TypesCorrect == Spec => []TypeOK
<1>1. Init => BackOffInv /\ ClockInv
  <2>1. Init => BackOffInv
    BY NoneInLimits DEF Init, BackOffInv
  <2>2. Init => ClockInv
    BY NoneInLimits DEF Init, ClockInv
  <2> QED
    BY <2>1, <2>2
<1>2. ChoiceInv /\ BackOffInv /\ ClockInv => TypeOK
  BY MaxSkipsNat DEF ChoiceInv, BackOffInv, ClockInv, TypeOK
<1> QED
  BY <1>1, <1>2, ChoiceInvariant, BackOffStep, ClockStep, PTL DEF Spec

=============================================================================
