-------------------------- MODULE AtSockets_proofs --------------------------
(***************************************************************************)
(* Two threads read one serial line: the AT lock and the AT timeout are    *)
(* left as they were found, a handle of the module belongs to one slot of  *)
(* the driver, and of a socket that holds data the driver has some pending *)
(* or on the line, for any number of sockets, any lengths of datagrams and *)
(* any number of messages on the line.                                     *)
(***************************************************************************)
EXTENDS AtSockets, FiniteSetTheorems, SequenceTheorems, WellFoundedInduction, TLAPS

\* A set of numbers that is not empty has a least one.
LEMMA LeastNumber ==
    ASSUME NEW T \in SUBSET Nat, T # {}
    PROVE  \E x \in T : \A y \in T : x <= y
<1> DEFINE R == {ss \in Nat \X Nat : ss[1] < ss[2]}
<1>1. IsWellFoundedOn(R, Nat)
  BY NatLessThanWellFounded DEF OpToRel
<1>2. \A x, y \in Nat : <<y, x>> \in R <=> y < x
  OBVIOUS
<1> HIDE DEF R
<1>3. PICK x \in T : \A y \in T : ~ (<<y, x>> \in R)
  BY <1>1, WFMin
<1>4. ASSUME NEW y \in T PROVE x <= y
  <2>1. x \in Nat /\ y \in Nat /\ ~ (y < x)
    BY <1>2, <1>3
  <2> QED
    BY <2>1
<1> QED
  BY <1>4

\* Min of such a set is that number.
LEMMA MinFacts ==
    ASSUME NEW T \in SUBSET Nat, T # {}
    PROVE  Min(T) \in T /\ \A y \in T : Min(T) <= y
<1>1. \E x \in T : \A y \in T : x <= y
  BY LeastNumber
<1> QED
  BY <1>1 DEF Min

\* find_socket() returns a slot that has the handle.
LEMMA FindSocketFinds ==
    ASSUME NEW h, Found(h) # {}
    PROVE  /\ FindSocket(h) \in Slot
           /\ slots[FindSocket(h)].handle = h
<1>1. Found(h) \in SUBSET Nat
  BY SocketAssumption DEF Found, Slot
<1> QED
  BY <1>1, MinFacts DEF FindSocket, Found

-----------------------------------------------------------------------------
(* The bytes of a queue *)

\* f sums up the first lengths of the queue.
SumsUpTo(f, queue, n) ==
    /\ f \in [0 .. n -> Nat] /\ f[0] = 0
    /\ \A i \in 1 .. n : f[i] = f[i - 1] + queue[i]

\* There is such an f for every queue.
LEMMA SumsExist ==
    ASSUME NEW queue \in Seq(Nat), NEW n \in 0 .. Len(queue)
    PROVE  \E f : SumsUpTo(f, queue, n)
<1> DEFINE Missing == {m \in 0 .. Len(queue) : ~ \E f : SumsUpTo(f, queue, m)}
<1>1. SUFFICES ASSUME Missing # {} PROVE FALSE
  OBVIOUS
<1>2. PICK m \in Missing : \A k \in Missing : m <= k
  <2>1. Missing \in SUBSET Nat
    OBVIOUS
  <2> HIDE DEF Missing
  <2> QED
    BY <1>1, <2>1, LeastNumber
<1>3. m # 0
  <2>1. SumsUpTo([i \in 0 .. 0 |-> 0], queue, 0)
    BY DEF SumsUpTo
  <2> QED
    BY <2>1
<1>4. m - 1 \in 0 .. Len(queue) /\ m - 1 \notin Missing /\ m \in 1 .. Len(queue) /\ Len(queue) \in Nat
  BY <1>2, <1>3
<1>5. PICK f : SumsUpTo(f, queue, m - 1)
  BY <1>4
<1> DEFINE g == [i \in 0 .. m |-> IF i = m THEN f[m - 1] + queue[m] ELSE f[i]]
<1>6. queue[m] \in Nat /\ f[m - 1] \in Nat
  BY <1>4, <1>5 DEF SumsUpTo
<1>7. g \in [0 .. m -> Nat] /\ g[0] = 0
  BY <1>4, <1>5, <1>6 DEF SumsUpTo
<1>8. ASSUME NEW i \in 1 .. m PROVE g[i] = g[i - 1] + queue[i]
  <2>1. CASE i = m
    BY <2>1, <1>4
  <2>2. CASE i # m
    <3>1. i \in 1 .. m - 1 /\ i - 1 \in 0 .. m /\ i - 1 # m /\ i \in 0 .. m
      BY <2>2, <1>4
    <3> QED
      BY <3>1, <2>2, <1>5 DEF SumsUpTo
  <2> QED
    BY <2>1, <2>2
<1>9. SumsUpTo(g, queue, m)
  BY <1>7, <1>8 DEF SumsUpTo
<1> QED
  BY <1>2, <1>9

\* The recursive definition defines something: sums of the first lengths.
LEMMA TotalFacts ==
    ASSUME NEW queue \in Seq(Nat)
    PROVE  \E f : SumsUpTo(f, queue, Len(queue)) /\ Total(queue) = f[Len(queue)]
<1> DEFINE IsSum(f) ==
      f = [i \in 0 .. Len(queue) |-> IF i = 0 THEN 0 ELSE f[i - 1] + queue[i]]
<1>0. Len(queue) \in Nat
  OBVIOUS
<1>1. PICK f : SumsUpTo(f, queue, Len(queue))
  BY <1>0, SumsExist
<1>2. IsSum(f)
  <2>1. f \in [0 .. Len(queue) -> Nat]
    BY <1>1 DEF SumsUpTo
  <2>2. \A i \in 0 .. Len(queue) : f[i] = IF i = 0 THEN 0 ELSE f[i - 1] + queue[i]
    BY <1>0, <1>1 DEF SumsUpTo
  <2> QED
    BY <2>1, <2>2
<1>3. PICK sum : IsSum(sum) /\ Total(queue) = sum[Len(queue)]
  BY <1>2 DEF Total
<1>4. ASSUME NEW i \in 0 .. Len(queue) PROVE sum[i] = f[i]
  <2> DEFINE Differ == {j \in 0 .. Len(queue) : sum[j] # f[j]}
  <2>1. SUFFICES ASSUME Differ # {} PROVE FALSE
    OBVIOUS
  <2>2. Differ \in SUBSET Nat
    OBVIOUS
  <2> HIDE DEF Differ
  <2>3. PICK j \in Differ : \A k \in Differ : j <= k
    BY <2>1, <2>2, LeastNumber
  <2> USE DEF Differ
  <2>4. j # 0
    BY <1>0, <1>1, <1>3, <2>3 DEF SumsUpTo
  <2>5. j \in 1 .. Len(queue) /\ j - 1 \in 0 .. Len(queue) /\ ~ (j <= j - 1)
    BY <2>3, <2>4
  <2>6. sum[j - 1] = f[j - 1]
    BY <2>3, <2>5
  <2>7. sum[j] = sum[j - 1] + queue[j]
    <3>1. sum[j] = IF j = 0 THEN 0 ELSE sum[j - 1] + queue[j]
      BY <1>3, <2>3
    <3> QED
      BY <2>4, <3>1
  <2> QED
    BY <1>1, <2>3, <2>5, <2>6, <2>7 DEF SumsUpTo
<1> QED
  BY <1>0, <1>1, <1>3, <1>4

\* The bytes of a queue can be counted.
LEMMA TotalIsNumber ==
    ASSUME NEW queue \in Seq(Nat \ {0})
    PROVE  Total(queue) \in Nat
<1>1. queue \in Seq(Nat) /\ Len(queue) \in Nat
  OBVIOUS
<1> QED
  BY <1>1, TotalFacts DEF SumsUpTo

\* Whatever adds up the lengths of a queue ends with their total.
LEMMA TotalIsSum ==
    ASSUME NEW queue \in Seq(Nat), NEW f, SumsUpTo(f, queue, Len(queue))
    PROVE  Total(queue) = f[Len(queue)]
<1>0. Len(queue) \in Nat
  OBVIOUS
<1>1. PICK g : SumsUpTo(g, queue, Len(queue)) /\ Total(queue) = g[Len(queue)]
  BY TotalFacts
<1> DEFINE Differ == {j \in 0 .. Len(queue) : g[j] # f[j]}
<1>2. SUFFICES ASSUME Differ # {} PROVE FALSE
  BY <1>0, <1>1
<1>3. Differ \in SUBSET Nat
  OBVIOUS
<1> HIDE DEF Differ
<1>4. PICK j \in Differ : \A k \in Differ : j <= k
  BY <1>2, <1>3, LeastNumber
<1> USE DEF Differ
<1>5. j # 0
  BY <1>0, <1>1, <1>4 DEF SumsUpTo
<1>6. j \in 1 .. Len(queue) /\ j - 1 \in 0 .. Len(queue) /\ ~ (j <= j - 1)
  BY <1>0, <1>4, <1>5
<1>7. g[j - 1] = f[j - 1]
  BY <1>4, <1>6
<1> QED
  BY <1>1, <1>4, <1>6, <1>7 DEF SumsUpTo

\* An empty queue has none.
LEMMA TotalEmpty == Total(<<>>) = 0
<1>1. SumsUpTo([i \in 0 .. 0 |-> 0], <<>>, 0) /\ <<>> \in Seq(Nat) /\ Len(<<>>) = 0
  BY DEF SumsUpTo
<1> QED
  BY <1>1, TotalIsSum

\* One more datagram.
LEMMA TotalAppend ==
    ASSUME NEW queue \in Seq(Nat), NEW n \in Nat
    PROVE  Total(Append(queue, n)) = Total(queue) + n
<1> DEFINE l == Len(queue)
<1>0. l \in Nat
  OBVIOUS
<1>1. PICK f : SumsUpTo(f, queue, l) /\ Total(queue) = f[l]
  BY TotalFacts
<1> DEFINE g == [i \in 0 .. l + 1 |-> IF i = l + 1 THEN f[l] + n ELSE f[i]]
           more == Append(queue, n)
<1>2. more \in Seq(Nat) /\ Len(more) = l + 1 /\ more[l + 1] = n /\ \A i \in 1 .. l : more[i] = queue[i]
  OBVIOUS
<1> HIDE DEF more, l
<1>3. f \in [0 .. l -> Nat] /\ f[0] = 0 /\ \A i \in 1 .. l : f[i] = f[i - 1] + queue[i]
  BY <1>1 DEF SumsUpTo
<1>4. g \in [0 .. l + 1 -> Nat] /\ g[0] = 0 /\ g[l + 1] = f[l] + n
  BY <1>0, <1>3
<1>5. ASSUME NEW i \in 1 .. l + 1 PROVE g[i] = g[i - 1] + more[i]
  <2>1. i - 1 \in 0 .. l /\ i - 1 # l + 1 /\ i \in 0 .. l + 1 /\ i - 1 \in 0 .. l + 1
    BY <1>0
  <2>2. g[i - 1] = f[i - 1]
    BY <2>1
  <2>3. CASE i = l + 1
    BY <1>0, <1>2, <1>4, <2>2, <2>3
  <2>4. CASE i # l + 1
    <3>1. i \in 1 .. l
      BY <1>0, <2>4
    <3> QED
      BY <1>2, <1>3, <2>1, <2>2, <2>4, <3>1
  <2> QED
    BY <2>3, <2>4
<1>6. SumsUpTo(g, more, Len(more))
  BY <1>2, <1>4, <1>5 DEF SumsUpTo
<1>7. Total(more) = g[l + 1]
  BY <1>2, <1>6, TotalIsSum
<1> QED
  BY <1>1, <1>4, <1>7 DEF more

\* What has been given of the first datagram is gone from the total.
LEMMA TotalGiven ==
    ASSUME NEW queue \in Seq(Nat \ {0}), queue # <<>>, NEW given \in 1 .. Head(queue),
           NEW rest,
           rest = IF given = Head(queue) THEN Tail(queue) ELSE <<Head(queue) - given>> \o Tail(queue)
    PROVE  /\ rest \in Seq(Nat \ {0}) /\ Len(rest) <= Len(queue) /\ Total(queue) = Total(rest) + given
           /\ \A i \in 1 .. Len(rest) : \E j \in 1 .. Len(queue) : rest[i] <= queue[j]
<1>a. PICK l : l = Len(queue)
  OBVIOUS
<1>0. /\ l = Len(queue) /\ l \in Nat \ {0} /\ given \in Nat /\ Head(queue) = queue[1] /\ Head(queue) \in Nat \ {0} /\ queue \in Seq(Nat)
      /\ Tail(queue) \in Seq(Nat \ {0}) /\ Len(Tail(queue)) = l - 1
      /\ \A i \in 1 .. l - 1 : Tail(queue)[i] = queue[i + 1]
      /\ \A i \in 1 .. l : queue[i] \in Nat
  BY <1>a
<1>1. CASE given = Head(queue)
  <2>1. rest \in Seq(Nat \ {0}) /\ rest \in Seq(Nat) /\ Len(rest) = l - 1 /\ \A i \in 1 .. l - 1 : rest[i] = queue[i + 1]
    BY <1>0, <1>1
  <2>2. PICK r : SumsUpTo(r, rest, l - 1) /\ Total(rest) = r[l - 1]
    BY <2>1, TotalFacts
  <2> DEFINE g == [i \in 0 .. l |-> IF i = 0 THEN 0 ELSE r[i - 1] + given]
  <2>3. r \in [0 .. l - 1 -> Nat] /\ r[0] = 0 /\ \A i \in 1 .. l - 1 : r[i] = r[i - 1] + rest[i]
    BY <2>2 DEF SumsUpTo
  <2>4. g \in [0 .. l -> Nat] /\ g[0] = 0 /\ g[l] = r[l - 1] + given
    BY <1>0, <2>3
  <2>5. ASSUME NEW i \in 1 .. l PROVE g[i] = g[i - 1] + queue[i]
    <3>1. i \in 0 .. l /\ i - 1 \in 0 .. l /\ i # 0
      BY <1>0
    <3>2. CASE i = 1
      BY <1>0, <1>1, <2>3, <3>1, <3>2
    <3>3. CASE i # 1
      <4>1. i - 1 \in 1 .. l - 1 /\ i - 1 # 0 /\ i - 1 - 1 \in 0 .. l - 1 /\ (i - 1) + 1 = i
        BY <1>0, <3>3
      <4>2. r[i - 1] = r[i - 1 - 1] + queue[i]
        BY <2>1, <2>3, <4>1
      <4>3. g[i] = r[i - 1] + given /\ g[i - 1] = r[i - 1 - 1] + given
        BY <3>1, <4>1
      <4>4. r[i - 1 - 1] \in Nat /\ queue[i] \in Nat
        BY <1>0, <2>3, <4>1
      <4> QED
        BY <4>2, <4>3, <4>4
    <3> QED
      BY <3>2, <3>3
  <2>6. SumsUpTo(g, queue, Len(queue))
    BY <1>0, <2>4, <2>5 DEF SumsUpTo
  <2>7. Total(queue) = g[l]
    BY <1>0, <2>6, TotalIsSum
  <2>8. Total(queue) = Total(rest) + given
    BY <2>2, <2>4, <2>7
  <2>9. Len(rest) <= Len(queue)
    BY <1>0, <2>1
  <2>10. \A i \in 1 .. Len(rest) : \E j \in 1 .. l : rest[i] <= queue[j]
    <3> SUFFICES ASSUME NEW i \in 1 .. l - 1 PROVE \E j \in 1 .. l : rest[i] <= queue[j]
      BY <2>1
    <3>1. PICK j \in 1 .. l : j = i + 1
      BY <1>0
    <3>2. rest[i] = queue[j]
      BY <2>1, <3>1
    <3>3. queue[j] \in Nat
      BY <1>0
    <3>4. \A x, y : x = y /\ y \in Nat => x <= y
      OBVIOUS
    <3> QED
      BY <3>2, <3>3, <3>4, Zenon
  <2> QED
    BY <1>0, <2>1, <2>8, <2>9, <2>10
<1>2. CASE given # Head(queue)
  <2> DEFINE x == Head(queue) - given
  <2>0. x \in Nat \ {0} /\ x + given = queue[1] /\ rest = <<x>> \o Tail(queue)
    BY <1>0, <1>2
  <2> HIDE DEF x
  <2>1. /\ rest \in Seq(Nat \ {0}) /\ rest \in Seq(Nat) /\ Len(rest) = l /\ rest[1] = x
        /\ \A i \in 2 .. l : rest[i] = queue[i]
    <3> DEFINE first == <<x>>
    <3>1. first \in Seq(Nat \ {0}) /\ first \in Seq(Nat) /\ Len(first) = 1 /\ first[1] = x /\ rest = first \o Tail(queue)
      BY <2>0
    <3> HIDE DEF first
    <3>a. PICK left : left = Tail(queue)
      OBVIOUS
    <3>b. /\ left \in Seq(Nat \ {0}) /\ Len(left) = l - 1 /\ rest = first \o left
          /\ \A i \in 1 .. l - 1 : left[i] = queue[i + 1]
      BY <1>0, <3>1, <3>a
    <3>c. /\ first \o left \in Seq(Nat \ {0}) /\ Len(first \o left) = Len(first) + Len(left)
          /\ \A i \in 1 .. Len(first) + Len(left) :
               (first \o left)[i] = IF i <= Len(first) THEN first[i] ELSE left[i - Len(first)]
      BY <3>1, <3>b, ConcatProperties
    <3>2. rest \in Seq(Nat \ {0}) /\ Len(rest) = 1 + (l - 1)
      BY <3>1, <3>b, <3>c
    <3>3. \A i \in 1 .. 1 + (l - 1) : rest[i] = IF i <= 1 THEN first[i] ELSE left[i - 1]
      BY <3>1, <3>b, <3>c
    <3>6. rest \in Seq(Nat)
      <4>1. first \in Seq(Nat) /\ left \in Seq(Nat)
        BY <1>0, <3>1, <3>a
      <4> QED
        BY <3>b, <4>1, ConcatProperties
    <3>4. Len(rest) = l /\ rest[1] = x
      BY <1>0, <3>1, <3>2, <3>3
    <3>5. ASSUME NEW i \in 2 .. l PROVE rest[i] = queue[i]
      <4>1. i \in 1 .. 1 + (l - 1) /\ ~(i <= 1) /\ i - 1 \in 1 .. l - 1 /\ (i - 1) + 1 = i
        BY <1>0
      <4> QED
        BY <3>3, <3>b, <4>1
    <3> QED
      BY <3>2, <3>4, <3>5, <3>6
  <2>2. PICK r : SumsUpTo(r, rest, l) /\ Total(rest) = r[l]
    BY <2>1, TotalFacts
  <2> DEFINE g == [i \in 0 .. l |-> IF i = 0 THEN 0 ELSE r[i] + given]
  <2>3. r \in [0 .. l -> Nat] /\ r[0] = 0 /\ \A i \in 1 .. l : r[i] = r[i - 1] + rest[i]
    BY <2>2 DEF SumsUpTo
  <2>4. g \in [0 .. l -> Nat] /\ g[0] = 0 /\ g[l] = r[l] + given
    BY <1>0, <2>3
  <2>5. ASSUME NEW i \in 1 .. l PROVE g[i] = g[i - 1] + queue[i]
    <3>1. i \in 0 .. l /\ i - 1 \in 0 .. l /\ i # 0
      BY <1>0
    <3>2. CASE i = 1
      <4>1. r[1] = x
        BY <2>0, <2>1, <2>3, <3>2
      <4> QED
        BY <2>0, <3>1, <3>2, <4>1
    <3>3. CASE i # 1
      <4>1. i \in 2 .. l /\ i - 1 # 0
        BY <1>0, <3>3
      <4>2. r[i] = r[i - 1] + queue[i] /\ r[i - 1] \in Nat /\ queue[i] \in Nat
        BY <1>0, <2>1, <2>3, <3>1, <4>1
      <4>3. g[i] = r[i] + given /\ g[i - 1] = r[i - 1] + given
        BY <3>1, <4>1
      <4> QED
        BY <4>2, <4>3
    <3> QED
      BY <3>2, <3>3
  <2>6. SumsUpTo(g, queue, Len(queue))
    BY <1>0, <2>4, <2>5 DEF SumsUpTo
  <2>7. Total(queue) = g[l]
    BY <1>0, <2>6, TotalIsSum
  <2>8. Total(queue) = Total(rest) + given
    BY <2>2, <2>4, <2>7
  <2>9. Len(rest) <= Len(queue)
    BY <1>0, <2>1
  <2>10. \A i \in 1 .. Len(rest) : i \in 1 .. l /\ rest[i] <= queue[i]
    <3> SUFFICES ASSUME NEW i \in 1 .. l PROVE rest[i] <= queue[i]
      BY <2>1
    <3>1. queue[i] \in Nat /\ (i = 1 \/ i \in 2 .. l)
      BY <1>0
    <3> QED
      BY <1>0, <2>0, <2>1, <3>1
  <2> QED
    BY <1>0, <2>1, <2>8, <2>9, <2>10
<1> QED
  BY <1>1, <1>2

\* A queue that holds something holds some bytes.
LEMMA TotalPositive ==
    ASSUME NEW queue \in Seq(Nat \ {0}), queue # <<>>
    PROVE  Total(queue) > 0
<1>1. Head(queue) \in Nat \ {0} /\ Head(queue) \in 1 .. Head(queue)
  OBVIOUS
<1>2. Tail(queue) \in Seq(Nat \ {0}) /\ Total(queue) = Total(Tail(queue)) + Head(queue)
  BY <1>1, TotalGiven
<1>3. Total(Tail(queue)) \in Nat
  BY <1>2, TotalIsNumber
<1> QED
  BY <1>1, <1>2, <1>3

\* A queue holds no more than as many of the longest datagrams do.
LEMMA TotalBound ==
    ASSUME NEW queue \in Seq(Nat), NEW most \in Nat, \A i \in 1 .. Len(queue) : queue[i] <= most
    PROVE  Total(queue) <= most * Len(queue)
<1>0. Len(queue) \in Nat
  OBVIOUS
<1>1. PICK f : SumsUpTo(f, queue, Len(queue)) /\ Total(queue) = f[Len(queue)]
  BY TotalFacts
<1> DEFINE Over == {j \in 0 .. Len(queue) : ~(f[j] <= most * j)}
<1>2. SUFFICES ASSUME Over # {} PROVE FALSE
  BY <1>0, <1>1
<1>3. Over \in SUBSET Nat
  OBVIOUS
<1> HIDE DEF Over
<1>4. PICK j \in Over : \A k \in Over : j <= k
  BY <1>2, <1>3, LeastNumber
<1> USE DEF Over
<1>5. j # 0
  BY <1>0, <1>1, <1>4 DEF SumsUpTo
<1>6. j \in 1 .. Len(queue) /\ j - 1 \in 0 .. Len(queue) /\ ~ (j <= j - 1)
  BY <1>0, <1>4, <1>5
<1>7. f[j - 1] <= most * (j - 1) /\ f[j - 1] \in Nat
  BY <1>1, <1>4, <1>6 DEF SumsUpTo
<1>8. f[j] = f[j - 1] + queue[j] /\ queue[j] \in Nat /\ queue[j] <= most
  BY <1>1, <1>6 DEF SumsUpTo
<1>9. most * j = most * (j - 1) + most
  BY <1>6
<1>10. most * (j - 1) \in Nat
  BY <1>6
<1> QED
  BY <1>4, <1>7, <1>8, <1>9, <1>10

-----------------------------------------------------------------------------
(* Types *)

\* The application's calls, from taking the AT lock to releasing it.
InCall == app.at \in {"opening", "sending", "reading", "listening", "returning", "closing"}

\* The application knows its slot while it has a socket, and a slot has been
\* left free for the one it is opening.
AppFits ==
    /\ app.at \notin {"idle", "opening", "joining"} => app.slot \in Slot
    /\ app.at = "opening" => Found(UNUSED) # {}

SocketSlot == [handle : Handle \cup {UNUSED}, pending : 0 .. Modulus - 1]
Socket == [open : BOOLEAN, queue : Seq(Nat \ {0})]
Timeout == {"default", "short", "poll"}
Place == {"idle", "opening", "open", "sending", "turn", "reading", "listening",
          "returning", "closing", "joining"}
App == [at : Place, slot : Slot \cup {NULL}, expired : BOOLEAN, kept : Timeout]
Event == [at : {"polling", "locking", "reading", "ended"}, kept : Timeout]

\* The sockets' part of the types, and the threads' part.
SocketTypes ==
    /\ slots \in [Slot -> SocketSlot]
    /\ module \in [Handle -> Socket]
    /\ line \in Seq(Message)
ThreadTypes ==
    /\ owner \in {"app", "event", NULL} /\ timeout \in Timeout
    /\ app \in App /\ event \in Event
    /\ running \in BOOLEAN /\ wrong \subseteq {"close", "size", "lock"}

\* TypeOK in its parts ...
LEMMA TypeParts == TypeOK <=> kind \in Kinds /\ SocketTypes /\ ThreadTypes
BY DEF TypeOK, SocketTypes, ThreadTypes, SocketSlot, Socket, Timeout, Place, App, Event

\* ... and in the next state.
LEMMA TypePartsNext == TypeOK' <=> kind' \in Kinds /\ SocketTypes' /\ ThreadTypes'
BY DEF TypeOK, SocketTypes, ThreadTypes, SocketSlot, Socket, Timeout, Place, App, Event

\* What remains of the line when its first message has been read.
LEMMA TailIsLine ==
    ASSUME line \in Seq(Message), line # <<>>
    PROVE  /\ Head(line) \in Message /\ Tail(line) \in Seq(Message)
           /\ Len(line) \in Nat \ {0} /\ Head(line) = line[1] /\ Len(Tail(line)) = Len(line) - 1
           /\ \A i \in 1 .. Len(Tail(line)) : Tail(line)[i] = line[i + 1]
OBVIOUS

\* What is taken modulo the width fits it.
LEMMA InWidth ==
    ASSUME NEW n \in Int
    PROVE  n % Modulus \in 0 .. Modulus - 1
BY SizeAssumption

\* A handle is none of -1.
LEMMA HandleIsUsed == \A h \in Handle : h # UNUSED
BY SocketAssumption DEF Handle, UNUSED

\* A result code leaves the handles alone or frees the slot that it finds.
LEMMA SlotsAfterFacts ==
    ASSUME SocketTypes, NEW urc \in Message
    PROVE  /\ SlotsAfter(urc) \in [Slot -> SocketSlot]
           /\ \A s \in Slot :
                \/ SlotsAfter(urc)[s].handle = slots[s].handle
                \/ /\ SlotsAfter(urc)[s].handle = UNUSED
                   /\ urc.is # "data" /\ slots[s].handle = urc.handle
           /\ urc.is # "data" /\ Found(urc.handle) # {}
                => SlotsAfter(urc)[FindSocket(urc.handle)].handle = UNUSED
<1> DEFINE s == FindSocket(urc.handle)
           announced == [slots[s] EXCEPT !.pending = Announced(slots[s].pending, urc.n)]
<1>1. CASE Found(urc.handle) = {}
  BY <1>1 DEF SlotsAfter, SocketTypes
<1>2. CASE Found(urc.handle) # {}
  <2>1. s \in Slot /\ slots[s].handle = urc.handle
    BY <1>2, FindSocketFinds
  <2>2. slots[s] \in SocketSlot /\ slots[s].pending \in Nat /\ urc.n \in Nat
    BY <2>1, SizeAssumption DEF SocketTypes, SocketSlot, Message
  <2>3. Announced(slots[s].pending, urc.n) \in 0 .. Modulus - 1
    BY <2>2, InWidth DEF Announced
  <2>4. announced \in SocketSlot /\ announced.handle = slots[s].handle
    BY <2>2, <2>3 DEF SocketSlot
  <2>5. Free \in SocketSlot /\ Free.handle = UNUSED
    BY SizeAssumption DEF Free, SocketSlot
  <2>6. CASE urc.is = "data"
    <3>1. SlotsAfter(urc) = [slots EXCEPT ![s] = announced]
      BY <1>2, <2>6 DEF SlotsAfter
    <3> HIDE DEF s, announced
    <3> QED
      BY <2>1, <2>4, <2>6, <3>1 DEF SocketTypes
  <2>7. CASE urc.is # "data"
    <3>1. SlotsAfter(urc) = [slots EXCEPT ![s] = Free]
      BY <1>2, <2>7 DEF SlotsAfter
    <3>2. s = FindSocket(urc.handle)
      OBVIOUS
    <3> HIDE DEF s, announced
    <3> QED
      BY <2>1, <2>5, <2>7, <3>1, <3>2 DEF SocketTypes
  <2> QED
    BY <2>6, <2>7
<1> QED
  BY <1>1, <1>2

\* Reading what comes first on the line keeps the sockets' types; a free
\* slot stays free.
LEMMA HandleUrcTypes ==
    ASSUME SocketTypes, HandleUrc \/ \E wanted : Discard(wanted), UNCHANGED module
    PROVE  /\ SocketTypes'
           /\ \A s \in Slot : slots[s].handle = UNUSED => slots'[s].handle = UNUSED
<1>1. CASE HandleUrc
  <2>1. Head(line) \in Message /\ Tail(line) \in Seq(Message)
    BY <1>1, TailIsLine DEF HandleUrc, Waiting, SocketTypes
  <2> QED
    BY <1>1, <2>1, SlotsAfterFacts DEF HandleUrc, SocketTypes
<1>2. CASE \E wanted : Discard(wanted)
  BY <1>2, TailIsLine DEF Discard, Waiting, SocketTypes
<1> QED
  BY <1>1, <1>2

\* A command keeps the sockets' types if what it does and its answer fit.
LEMMA CommandTypes ==
    ASSUME SocketTypes, NEW done \in [Handle -> Socket], NEW answer \in Message,
           Command(done, answer), UNCHANGED slots
    PROVE  SocketTypes'
BY DEF Command, SocketTypes

\* With one slot changed to one that fits, the slots fit.
LEMMA SlotTypes ==
    ASSUME SocketTypes, NEW s \in Slot, NEW new \in SocketSlot,
           slots' = [slots EXCEPT ![s] = new], line' \in {line, Tail(line)}, line # <<>>,
           UNCHANGED module
    PROVE  SocketTypes'
BY TailIsLine DEF SocketTypes

\* With what remains pending, the application's slot fits.
LEMMA PendingTypes ==
    ASSUME SocketTypes, app.slot \in Slot, NEW n \in Nat
    PROVE  /\ [slots[app.slot] EXCEPT !.pending = PendingLeft(n)] \in SocketSlot
           /\ [slots[app.slot] EXCEPT !.pending = PendingLeft(n)].handle = slots[app.slot].handle
<1>1. slots[app.slot] \in SocketSlot /\ Pending \in 0 .. Modulus - 1
  BY DEF SocketTypes, SocketSlot, Pending
<1>2. PendingLeftR4(n) \in 0 .. Modulus - 1
  BY <1>1, SizeAssumption DEF PendingLeftR4
<1>3. PendingLeftN2(n) \in 0 .. Modulus - 1
  <2>1. Pending - n \in Int
    BY <1>1, SizeAssumption
  <2> QED
    BY <2>1, InWidth DEF PendingLeftN2
<1>4. PendingLeft(n) \in 0 .. Modulus - 1
  BY <1>2, <1>3 DEF PendingLeft
<1> QED
  BY <1>1, <1>4 DEF SocketSlot

\* What the network and the event thread do to the types.
LEMMA LineTypes ==
    ASSUME TypeOK, AppFits,
           (\E h \in Handle : Deactivate(h) \/ \E n \in Size : Arrive(h, n))
           \/ EventLock \/ EventStep
    PROVE  TypeOK' /\ AppFits'
<1>0. kind \in Kinds /\ SocketTypes /\ ThreadTypes
  BY TypeParts
<1>a. ASSUME UNCHANGED app,
             \A s \in Slot : slots[s].handle = UNUSED => slots'[s].handle = UNUSED
      PROVE  AppFits'
  BY <1>a DEF AppFits, Found
<1>1. ASSUME NEW h \in Handle, Deactivate(h) PROVE TypeOK' /\ AppFits'
  <2>1. Closed \in Socket
    BY DEF Closed, Socket
  <2>2. [is |-> "gone", handle |-> h, n |-> 0] \in Message
    BY DEF Message
  <2>3. SocketTypes'
    BY <1>0, <1>1, <2>1, <2>2 DEF Deactivate, SocketTypes
  <2>4. kind' \in Kinds /\ ThreadTypes'
    BY <1>0, <1>1 DEF Deactivate, ThreadTypes
  <2> QED
    BY <1>1, <1>a, <2>3, <2>4, TypePartsNext DEF Deactivate
<1>2. ASSUME NEW h \in Handle, NEW n \in Size, Arrive(h, n) PROVE TypeOK' /\ AppFits'
  <2> DEFINE new == [module[h] EXCEPT !.queue = Append(module[h].queue, n)]
  <2>1. module[h] \in Socket /\ n \in Nat \ {0}
    BY <1>0, SizeAssumption DEF SocketTypes
  <2>2. new \in Socket
    <3>1. Append(module[h].queue, n) \in Seq(Nat \ {0})
      BY <2>1 DEF Socket
    <3> QED
      BY <2>1, <3>1 DEF Socket
  <2>3. module' = [module EXCEPT ![h] = new]
    BY <1>2 DEF Arrive
  <2> HIDE DEF new
  <2>4. module' \in [Handle -> Socket] /\ module'[h].queue \in Seq(Nat \ {0})
    BY <1>0, <2>2, <2>3 DEF SocketTypes, Socket
  <2>5. Total(module'[h].queue) \in Nat
    BY <2>4, TotalIsNumber
  <2>6. line' \in Seq(Message)
    <3>1. PICK m \in Nat : line' = Append(line, [is |-> "data", handle |-> h, n |-> m])
      BY <1>2, <2>1, <2>5 DEF Arrive
    <3>2. [is |-> "data", handle |-> h, n |-> m] \in Message
      BY DEF Message
    <3> QED
      BY <1>0, <3>1, <3>2 DEF SocketTypes
  <2>7. UNCHANGED <<kind, slots, owner, timeout, app, event, running, wrong>>
    BY <1>2 DEF Arrive
  <2>8. SocketTypes' /\ ThreadTypes'
    BY <1>0, <2>4, <2>6, <2>7 DEF SocketTypes, ThreadTypes
  <2> QED
    BY <1>0, <1>a, <2>7, <2>8, TypePartsNext
<1>3. CASE EventRead
  <2>1. /\ HandleUrc \/ \E wanted : Discard(wanted)
        /\ UNCHANGED <<owner, timeout, event, kind, module, app, running, wrong>>
    BY <1>3 DEF EventRead, OnlyEvent
  <2>2. SocketTypes' /\ AppFits'
    BY <1>0, <1>a, <2>1, HandleUrcTypes
  <2>3. ThreadTypes' /\ kind' \in Kinds
    BY <1>0, <2>1 DEF ThreadTypes
  <2> QED
    BY <2>2, <2>3, TypePartsNext
<1>4. CASE Poll \/ EventEnd \/ EventLock \/ EventUnlock
  <2>1. UNCHANGED <<slots, line, kind, module, app, running, wrong>>
    BY <1>4 DEF Poll, EventEnd, EventLock, EventUnlock, OnlyEvent
  <2>2. owner' \in {"app", "event", NULL} /\ timeout' \in Timeout /\ event' \in Event
    BY <1>0, <1>4 DEF Poll, EventEnd, EventLock, EventUnlock, ThreadTypes, Event, Timeout
  <2>3. SocketTypes' /\ ThreadTypes' /\ kind' \in Kinds
    BY <1>0, <2>1, <2>2 DEF SocketTypes, ThreadTypes
  <2> QED
    BY <1>a, <2>1, <2>3, TypePartsNext
<1> QED
  BY <1>1, <1>2, <1>3, <1>4 DEF EventStep

\* A step of the application keeps the threads' types.
LEMMA AppThreads ==
    ASSUME TypeOK, AppFits,
           Open \/ Send \/ Receive \/ Close \/ Delete \/ Turn \/ OutOfMemory \/ Heed
           \/ Listened \/ AppStep
    PROVE  ThreadTypes' /\ kind' \in Kinds
<1>0. kind \in Kinds /\ SocketTypes /\ ThreadTypes
  BY TypeParts
<1>1. app \in App /\ app.kept \in Timeout /\ app.slot \in Slot \cup {NULL} /\ app.expired \in BOOLEAN
      /\ app.at \in Place
  BY <1>0 DEF ThreadTypes, App
<1>2. ASSUME NEW place \in Place PROVE [app EXCEPT !.at = place] \in App
  BY <1>1 DEF App
<1>3. Idle \in App /\ \A s \in Slot : [Idle EXCEPT !.at = "open", !.slot = s] \in App
  BY DEF Idle, App, Place, Timeout
<1>4. AppUnlock => owner' \in {"app", "event", NULL}
  BY <1>0 DEF AppUnlock, ThreadTypes
<1>5. ASSUME NEW place \in {"open", "turn"}, EndTurn(place), app.slot \in Slot,
             wrong' \subseteq wrong \cup {"size"}, OnlyApp
      PROVE  ThreadTypes' /\ kind' \in Kinds
  BY <1>0, <1>1, <1>2, <1>3, <1>4, <1>5 DEF EndTurn, ThreadTypes, OnlyApp, Place
<1>6. CASE Open \/ Send \/ Close
  BY <1>0, <1>2, <1>6 DEF Open, Send, Close, Goto, Lock, OnlyApp, ThreadTypes, Place
<1>7. CASE Receive \/ Delete \/ Heed
  BY <1>0, <1>2, <1>7 DEF Receive, Delete, Heed, Goto, OnlyApp, ThreadTypes, Place
<1>8. CASE Turn
  <2>1. [app EXCEPT !.at = "reading", !.kept = timeout] \in App
    BY <1>0, <1>1 DEF ThreadTypes, App, Place
  <2>2. [app EXCEPT !.at = IF app.expired THEN "returning" ELSE "listening", !.kept = timeout] \in App
    BY <1>0, <1>1 DEF ThreadTypes, App, Place
  <2> QED
    BY <1>0, <1>8, <2>1, <2>2 DEF Turn, Lock, OnlyApp, ThreadTypes, Timeout
<1>9. CASE OutOfMemory
  <2>1. [app EXCEPT !.at = "open", !.kept = timeout] \in App
    BY <1>0, <1>1 DEF ThreadTypes, App, Place
  <2> QED
    BY <1>0, <1>9, <2>1 DEF OutOfMemory, Lock, OnlyApp, ThreadTypes, Timeout
<1>10. CASE Listened \/ ReadR4 \/ ReadN2 \/ NotRead \/ Return
  BY <1>5, <1>10 DEF AppFits, Listened, ReadR4, ReadN2, NotRead, Return
<1>11. CASE Opened
  <2>1. FindSocket(UNUSED) \in Slot
    BY <1>11, FindSocketFinds DEF AppFits, Opened
  <2>2. [app EXCEPT !.at = "open", !.slot = FindSocket(UNUSED)] \in App
    BY <1>1, <2>1 DEF App, Place
  <2> QED
    BY <1>0, <1>4, <1>11, <2>2 DEF Opened, OnlyApp, ThreadTypes
<1>12. CASE NotOpened \/ Sent
  BY <1>0, <1>2, <1>4, <1>12 DEF NotOpened, Sent, Goto, OnlyApp, ThreadTypes, Place
<1>13. CASE Expire
  BY <1>0, <1>1, <1>13 DEF Expire, OnlyApp, ThreadTypes, App
<1>14. CASE CloseDone \/ NotClosed
  BY <1>0, <1>3, <1>4, <1>14 DEF CloseDone, NotClosed, OnlyApp, ThreadTypes
<1>15. CASE Joined
  BY <1>0, <1>3, <1>15 DEF Joined, ThreadTypes, Timeout, Event
<1> QED
  BY <1>6, <1>7, <1>8, <1>9, <1>10, <1>11, <1>12, <1>13, <1>14, <1>15 DEF AppStep

\* The application asks for data: what the module gives of its first
\* datagram, and what that leaves in its queue.
LEMMA TurnTypes ==
    ASSUME SocketTypes, app.slot \in Slot, Turn
    PROVE  SocketTypes'
<1> DEFINE h == slots[app.slot].handle
           queue == IF h = UNUSED THEN <<>> ELSE module[h].queue
           given == IF queue = <<>> THEN 0 ELSE Min({Asked, Head(queue)})
           rest == IF queue = <<>> THEN <<>>
                   ELSE IF given = Head(queue) THEN Tail(queue)
                   ELSE <<Head(queue) - given>> \o Tail(queue)
           done == [module EXCEPT ![h].queue = rest]
           answer == [is |-> "read", handle |-> 0, n |-> given]
<1>1. slots[app.slot] \in SocketSlot /\ h \in Handle \cup {UNUSED}
  BY DEF SocketTypes, SocketSlot
<1>2. queue \in Seq(Nat \ {0})
  BY <1>1 DEF SocketTypes, Socket
<1>3. UNCHANGED slots /\ (Command(done, answer) \/ UNCHANGED <<module, line>>)
  BY DEF Turn
<1>4. ASSUME queue # <<>>
      PROVE  /\ Head(queue) \in Nat \ {0} /\ Tail(queue) \in Seq(Nat \ {0})
             /\ Min({Asked, Head(queue)}) \in Nat \ {0}
             /\ Min({Asked, Head(queue)}) <= Head(queue)
  <2>1. Head(queue) \in Nat \ {0} /\ Tail(queue) \in Seq(Nat \ {0})
    <3> HIDE DEF queue
    <3> QED
      BY <1>2, <1>4
  <2> HIDE DEF queue
  <2>2. {Asked, Head(queue)} \in SUBSET Nat
    BY <2>1, SizeAssumption
  <2> QED
    BY <2>1, <2>2, MinFacts, SizeAssumption
<1> HIDE DEF h, queue
<1>5. given \in Nat /\ rest \in Seq(Nat \ {0})
  <2>1. CASE queue = <<>>
    BY <2>1
  <2>2. CASE queue # <<>>
    <3>1. given = Min({Asked, Head(queue)}) /\ given \in Nat /\ Head(queue) \in Nat
          /\ given <= Head(queue)
      BY <1>4, <2>2
    <3> HIDE DEF given
    <3>2. CASE given = Head(queue)
      BY <1>4, <2>2, <3>1, <3>2
    <3>3. CASE given # Head(queue)
      <4>1. Head(queue) - given \in Nat \ {0}
        BY <3>1, <3>3
      <4>2. <<Head(queue) - given>> \o Tail(queue) \in Seq(Nat \ {0})
        BY <1>4, <2>2, <4>1
      <4> QED
        BY <2>2, <3>1, <3>3, <4>2
    <3> QED
      BY <3>2, <3>3
  <2> QED
    BY <2>1, <2>2
<1> HIDE DEF given, rest
<1>6. [module EXCEPT ![h].queue = rest] \in [Handle -> Socket]
  BY <1>5 DEF SocketTypes, Socket
<1>7. [is |-> "read", handle |-> 0, n |-> given] \in Message
  BY <1>5, SocketAssumption DEF Message, Handle
<1> QED
  BY <1>3, <1>6, <1>7, CommandTypes DEF SocketTypes

\* What the application's steps do to the sockets' types.
LEMMA AppSockets ==
    ASSUME TypeOK, AppFits,
           Open \/ Send \/ Receive \/ Close \/ Delete \/ Turn \/ OutOfMemory \/ Heed
           \/ Listened \/ AppStep
    PROVE  SocketTypes'
<1>0. SocketTypes
  BY TypeParts
<1>a. 0 \in Handle /\ \A h \in Handle : h \in Nat
  BY SocketAssumption DEF Handle
<1>b. ASSUME UNCHANGED <<slots, module>>, line' = line \/ (line # <<>> /\ line' = Tail(line))
      PROVE  SocketTypes'
  BY <1>0, <1>b, TailIsLine DEF SocketTypes
<1>1. CASE Open
  <2> DEFINE unused == {h \in Handle : ~module[h].open}
             done == [module EXCEPT ![Min(unused)].open = TRUE]
             answer == [is |-> "opened", handle |-> Min(unused), n |-> 0]
  <2>1. CASE unused = {}
    BY <1>1, <1>b, <2>1 DEF Open
  <2>2. CASE unused # {}
    <3>1. unused \in SUBSET Nat
      BY <1>a
    <3>2. Command(done, answer) /\ UNCHANGED slots
      BY <1>1, <2>2 DEF Open
    <3>3. Min(unused) \in Handle
      <4>1. unused \subseteq Handle
        OBVIOUS
      <4> HIDE DEF unused
      <4> QED
        BY <2>2, <3>1, <4>1, MinFacts
    <3> HIDE DEF unused
    <3>4. done \in [Handle -> Socket]
      BY <1>0, <3>3 DEF SocketTypes, Socket
    <3>5. answer \in Message
      BY <3>3 DEF Message
    <3> HIDE DEF done, answer
    <3> QED
      BY <1>0, <3>2, <3>4, <3>5, CommandTypes
  <2> QED
    BY <2>1, <2>2
<1>2. CASE Send
  <2>1. [is |-> "sent", handle |-> 0, n |-> 0] \in Message /\ module \in [Handle -> Socket]
    BY <1>0, <1>a DEF Message, SocketTypes
  <2> QED
    BY <1>0, <1>2, <1>b, <2>1, CommandTypes DEF Send
<1>3. CASE Close
  <2>1. [is |-> "closed", handle |-> 0, n |-> 0] \in Message
    BY <1>a DEF Message
  <2>2. \A h : [module EXCEPT ![h] = Closed] \in [Handle -> Socket]
    <3>1. Closed \in Socket
      BY DEF Closed, Socket
    <3> QED
      BY <1>0, <3>1 DEF SocketTypes
  <2> QED
    BY <1>0, <1>3, <1>b, <2>1, <2>2, CommandTypes DEF Close
<1>4. CASE Receive \/ Delete \/ OutOfMemory \/ Listened \/ NotOpened \/ Sent \/ Expire \/ Return
           \/ NotClosed
  BY <1>4, <1>b DEF Receive, Delete, OutOfMemory, Listened, NotOpened, Sent, Expire, Return,
     NotClosed, Waiting
<1>5. CASE Heed
  BY <1>0, <1>5, HandleUrcTypes DEF Heed
<1>6. CASE Turn
  BY <1>0, <1>6, TurnTypes DEF AppFits, Turn
<1>7. CASE Opened
  <2> DEFINE new == [Free EXCEPT !.handle = Head(line).handle]
  <2>1. FindSocket(UNUSED) \in Slot
    BY <1>7, FindSocketFinds DEF AppFits, Opened
  <2>2. line # <<>> /\ Head(line) \in Message
    BY <1>0, <1>7, TailIsLine DEF Opened, Waiting, SocketTypes
  <2>3. new \in SocketSlot
    BY <2>2, SizeAssumption DEF Free, SocketSlot, Message
  <2>4. slots' = [slots EXCEPT ![FindSocket(UNUSED)] = new] /\ line' = Tail(line) /\ UNCHANGED module
    BY <1>7 DEF Opened
  <2> HIDE DEF new
  <2> QED
    BY <1>0, <2>1, <2>2, <2>3, <2>4, SlotTypes
<1>8. ASSUME NEW n \in Nat, app.slot \in Slot, Waiting, line' = Tail(line), UNCHANGED module,
             slots' = [slots EXCEPT ![app.slot].pending = PendingLeft(n)]
      PROVE  SocketTypes'
  <2> DEFINE new == [slots[app.slot] EXCEPT !.pending = PendingLeft(n)]
  <2>1. new \in SocketSlot
    BY <1>0, <1>8, PendingTypes
  <2>2. slots' = [slots EXCEPT ![app.slot] = new]
    BY <1>8
  <2> HIDE DEF new
  <2> QED
    BY <1>0, <1>8, <2>1, <2>2, SlotTypes DEF Waiting
<1>9. CASE ReadR4 \/ ReadN2 \/ NotRead
  <2>1. app.slot \in Slot
    BY <1>9 DEF AppFits, ReadR4, ReadN2, NotRead
  <2>2. Waiting => Head(line).n \in Nat
    BY <1>0, TailIsLine DEF Waiting, SocketTypes, Message
  <2>3. CASE ReadR4
    BY <1>8, <2>1, <2>2, <2>3 DEF ReadR4
  <2>4. CASE ReadN2
    <3>1. PICK size \in Int :
            /\ size < 0 \/ size \in Nat
            /\ slots' = IF size < 0 THEN slots
                        ELSE [slots EXCEPT ![app.slot].pending = PendingLeft(size)]
      BY <2>2, <2>4, SizeAssumption DEF ReadN2
    <3> QED
      BY <1>8, <1>b, <2>1, <2>4, <3>1 DEF ReadN2, Waiting
  <2>5. CASE NotRead
    BY <1>8, <1>b, <2>1, <2>2, <2>5 DEF NotRead
  <2> QED
    BY <1>9, <2>3, <2>4, <2>5
<1>10. CASE CloseDone
  <2>1. Free \in SocketSlot
    BY SizeAssumption DEF Free, SocketSlot
  <2> QED
    BY <1>0, <1>10, <2>1, SlotTypes DEF CloseDone, AppFits, Waiting
<1>11. CASE Joined
  BY <1>11, SizeAssumption DEF Joined, SocketTypes, Free, Closed, SocketSlot, Socket
<1> QED
  BY <1>1, <1>2, <1>3, <1>4, <1>5, <1>6, <1>7, <1>9, <1>10, <1>11 DEF AppStep

\* The application's steps keep its knowledge of its slot.
LEMMA AppFitsKept ==
    ASSUME TypeOK, AppFits,
           Open \/ Send \/ Receive \/ Close \/ Delete \/ Turn \/ OutOfMemory \/ Heed
           \/ Listened \/ AppStep
    PROVE  AppFits'
<1>0. SocketTypes /\ ThreadTypes /\ app \in App
  BY TypeParts DEF ThreadTypes
<1>1. ASSUME NEW place \in {"open", "turn"}, EndTurn(place), app.slot \in Slot PROVE AppFits'
  BY <1>0, <1>1 DEF EndTurn, AppFits, App, Idle
<1>2. CASE Open
  BY <1>0, <1>2 DEF Open, Goto, AppFits, App, Found
<1>3. CASE Send \/ Receive \/ Close \/ Delete \/ Turn \/ OutOfMemory
  BY <1>0, <1>3 DEF Send, Receive, Close, Delete, Turn, OutOfMemory, Goto, AppFits, App
<1>4. CASE Heed
  <2>1. UNCHANGED app /\ \A s \in Slot : slots[s].handle = UNUSED => slots'[s].handle = UNUSED
    BY <1>0, <1>4, HandleUrcTypes DEF Heed
  <2> QED
    BY <2>1 DEF AppFits, Found
<1>5. CASE Listened \/ ReadR4 \/ ReadN2 \/ NotRead \/ Return
  BY <1>1, <1>5 DEF AppFits, Listened, ReadR4, ReadN2, NotRead, Return
<1>6. CASE Opened
  <2>1. FindSocket(UNUSED) \in Slot
    BY <1>6, FindSocketFinds DEF AppFits, Opened
  <2> QED
    BY <1>0, <1>6, <2>1 DEF Opened, AppFits, App
<1>7. CASE NotOpened \/ Sent \/ Expire
  BY <1>0, <1>7 DEF NotOpened, Sent, Expire, Goto, AppFits, App
<1>8. CASE CloseDone \/ NotClosed \/ Joined
  BY <1>8 DEF CloseDone, NotClosed, Joined, AppFits, Idle
<1> QED
  BY <1>2, <1>3, <1>4, <1>5, <1>6, <1>7, <1>8 DEF AppStep

\* Every step keeps the types ...
LEMMA TypeStep == TypeOK /\ AppFits /\ [Next]_vars => (TypeOK /\ AppFits)'
<1> SUFFICES ASSUME TypeOK, AppFits, [Next]_vars PROVE TypeOK' /\ AppFits'
  OBVIOUS
<1>1. CASE UNCHANGED vars
  BY <1>1 DEF vars, TypeOK, AppFits, Found
<1> QED
  BY <1>1, LineTypes, AppThreads, AppSockets, AppFitsKept, TypePartsNext DEF Next

\* ... so that they always hold.
LEMMA TypeInvariant == Spec => [](TypeOK /\ AppFits)
<1>1. Init => TypeOK /\ AppFits
  <2> SUFFICES ASSUME Init PROVE TypeOK /\ AppFits
    OBVIOUS
  <2>1. SocketTypes
    BY SizeAssumption DEF Init, SocketTypes, Free, Closed, SocketSlot, Socket
  <2>2. ThreadTypes
    BY DEF Init, ThreadTypes, Idle, App, Place, Timeout, Event
  <2> QED
    BY <2>1, <2>2, TypeParts DEF Init, AppFits, Idle
<1> QED
  BY <1>1, TypeStep, PTL DEF Spec

\* The drivers' variables keep their types, whatever comes on the line.
THEOREM TypeCorrect == Spec => []TypeOK
<1>1. TypeOK /\ AppFits => TypeOK
  OBVIOUS
<1> QED
  BY <1>1, TypeInvariant, PTL

-----------------------------------------------------------------------------
(* The lock and the timeout *)

\* Whoever holds the AT lock is inside a call, and has kept the driver's own
\* timeout if it has changed it; a read that has left the lock held leaves it
\* so until the driver is deleted.
Locked ==
    /\ event.at = "reading" => owner = "event"
    /\ owner = "event" => event.at = "reading" /\ event.kept = "default"
    /\ InCall => owner = "app"
    /\ "lock" \in wrong => owner = "app"
    /\ owner = "app" /\ "lock" \notin wrong =>
          /\ InCall
          /\ app.at \in {"reading", "listening", "returning"} => app.kept = "default"
          /\ app.at \notin {"reading", "listening", "returning"} => timeout = "default"
    /\ owner = NULL => timeout = "default"

\* Every step keeps the lock with its holder.
LEMMA LockedKept ==
    ASSUME TypeOK, AppFits, Locked, [Next]_vars
    PROVE  Locked'
<1> USE NullAssumption DEF Locked, InCall
<1>0. /\ app \in App /\ event \in Event /\ owner \in {"app", "event", NULL}
      /\ app.at \in Place
  BY TypeParts DEF ThreadTypes, App
<1>1. ASSUME NEW place \in {"open", "turn"}, EndTurn(place), owner = "app",
             app.at \in {"reading", "listening", "returning"},
             "lock" \in wrong <=> "lock" \in wrong', UNCHANGED event
      PROVE  Locked'
  BY <1>0, <1>1 DEF EndTurn, AppUnlock, App, Idle
<1>2. CASE Open \/ Send \/ Close
  BY <1>0, <1>2 DEF Open, Send, Close, Goto, Lock, CanLock, OnlyApp, App
<1>3. CASE Receive \/ Delete \/ Heed \/ Expire
  BY <1>0, <1>3 DEF Receive, Delete, Heed, Expire, Goto, OnlyApp, App
<1>4. CASE Turn \/ OutOfMemory
  BY <1>0, <1>4 DEF Turn, OutOfMemory, Lock, CanLock, OnlyApp, App
<1>5. CASE Listened \/ ReadR4 \/ ReadN2 \/ NotRead \/ Return
  <2>1. /\ EndTurn("turn") \/ EndTurn("open")
        /\ app.at \in {"reading", "listening", "returning"} /\ UNCHANGED event
    BY <1>5 DEF Listened, ReadR4, ReadN2, NotRead, Return, OnlyApp
  <2>2. "lock" \in wrong <=> "lock" \in wrong'
    <3>1. ReadN2 => wrong' = wrong \/ wrong' = wrong \cup {"size"}
      BY DEF ReadN2
    <3> QED
      BY <1>5, <3>1 DEF Listened, ReadR4, NotRead, Return
  <2> QED
    BY <1>1, <2>1, <2>2
<1>6. CASE Opened \/ NotOpened \/ Sent
  BY <1>0, <1>6 DEF Opened, NotOpened, Sent, Goto, AppUnlock, OnlyApp, App
<1>7. CASE CloseDone \/ NotClosed
  BY <1>0, <1>7 DEF CloseDone, NotClosed, AppUnlock, OnlyApp, Idle
<1>8. CASE Joined
  BY <1>8 DEF Joined, Idle
<1>9. CASE (\E h \in Handle : Deactivate(h) \/ \E n \in Size : Arrive(h, n)) \/ UNCHANGED vars
  BY <1>9 DEF Deactivate, Arrive, vars
<1>10. CASE EventLock \/ EventStep
  BY <1>0, <1>10 DEF EventLock, EventStep, Poll, EventEnd, EventRead, EventUnlock, OnlyEvent, Event
<1> QED
  BY <1>2, <1>3, <1>4, <1>5, <1>6, <1>7, <1>8, <1>9, <1>10 DEF Next, AppStep

\* The application holds the lock only inside a call, and a free lock means
\* the driver's own timeout, unless memory has run out.
THEOREM LeavesAsFound == Spec => []LeftAsFound
<1>1. TypeOK /\ AppFits /\ Locked => LeftAsFound
  BY DEF Locked, LeftAsFound, InCall
<1>2. Init => Locked
  BY NullAssumption DEF Init, Locked, InCall, Idle
<1>3. (TypeOK /\ AppFits) /\ Locked /\ [Next]_vars => Locked'
  BY LockedKept
<1> QED
  BY <1>1, <1>2, <1>3, TypeInvariant, PTL DEF Spec

-----------------------------------------------------------------------------
(* Slots and handles *)

Says(i, what, h) == line[i].is = what /\ line[i].handle = h

\* Of each handle of the module, the slots that have it and the answers on
\* the line that will give it to a slot follow each other with a result code
\* in between that takes it away; and a socket that the module has closed is
\* still to be taken away, or is being closed, so that the module may give
\* its handle again.
OneSlot == \A s, t \in Slot :
    slots[s].handle # UNUSED /\ slots[s].handle = slots[t].handle => s = t
GoneBeforeOpened == \A s \in Slot : \A i \in 1 .. Len(line) :
    Says(i, "opened", slots[s].handle) => \E k \in 1 .. i - 1 : Says(k, "gone", slots[s].handle)
GoneBetween == \A h \in Handle : \A i, j \in 1 .. Len(line) :
    i < j /\ Says(i, "opened", h) /\ Says(j, "opened", h)
    => \E k \in i + 1 .. j - 1 : Says(k, "gone", h)
SlotOfClosed == \A s \in Slot :
    slots[s].handle # UNUSED /\ ~module[slots[s].handle].open
    => \/ \E k \in 1 .. Len(line) : Says(k, "gone", slots[s].handle)
       \/ app.at = "closing" /\ app.slot = s
OpenedOfClosed == \A i \in 1 .. Len(line) :
    line[i].is = "opened" /\ ~module[line[i].handle].open
    => \/ \E k \in i + 1 .. Len(line) : Says(k, "gone", line[i].handle)
       \/ app.at = "closing"
ClosedIsLast == \A i \in 1 .. Len(line) : line[i].is = "closed" =>
    app.at = "closing" /\ \A j \in i + 1 .. Len(line) : IsUrc(line[j])

Alternates ==
    "close" \notin wrong => /\ OneSlot /\ GoneBeforeOpened /\ GoneBetween
                            /\ SlotOfClosed /\ OpenedOfClosed /\ ClosedIsLast

\* No slot gets a handle, and no socket is opened or closed.
Steady ==
    /\ \A s \in Slot : slots'[s].handle \in {slots[s].handle, UNUSED}
    /\ \A h \in Handle : module'[h].open = module[h].open
    /\ app.at = "closing" <=> app'.at = "closing"
    /\ app.at = "closing" => UNCHANGED app

\* The line is as it was, or one message longer.
LEMMA GrownAlternates ==
    ASSUME SocketTypes, OneSlot, GoneBeforeOpened, GoneBetween, SlotOfClosed, OpenedOfClosed,
           ClosedIsLast, Steady,
           \/ UNCHANGED line
           \/ \E m \in Message : /\ line' = Append(line, m) /\ m.is \in {"data", "sent", "read"}
                                 /\ app.at = "closing" => IsUrc(m)
    PROVE  (OneSlot /\ GoneBeforeOpened /\ GoneBetween /\ SlotOfClosed /\ OpenedOfClosed
            /\ ClosedIsLast)'
<1> USE DEF Says
<1>0. /\ line \in Seq(Message) /\ Len(line) \in Nat
      /\ \A i \in 1 .. Len(line) : line[i] \in Message /\ line[i].handle \in Handle
  <2>1. line \in Seq(Message) /\ \A m \in Message : m.handle \in Handle
    BY DEF SocketTypes, Message
  <2> QED
    BY <2>1
<1>1. /\ Len(line') \in {Len(line), Len(line) + 1}
      /\ \A i \in 1 .. Len(line) : line'[i] = line[i]
      /\ \A i \in 1 .. Len(line') : line'[i].is \in {"opened", "gone", "closed"} => i \in 1 .. Len(line)
      /\ app.at = "closing" => \A i \in 1 .. Len(line') : i > Len(line) => IsUrc(line'[i])
  BY <1>0
<1>2. \A s \in Slot : slots[s].handle # UNUSED => slots[s].handle \in Handle
  BY DEF SocketTypes, SocketSlot
<1>3. \A i \in 1 .. Len(line) : i \in 1 .. Len(line') /\ i \in Nat
  BY <1>0, <1>1
<1>4. OneSlot'
  BY DEF OneSlot, Steady
<1>5. GoneBeforeOpened'
  <2> SUFFICES ASSUME NEW s \in Slot, NEW i \in 1 .. Len(line'), Says(i, "opened", slots[s].handle)'
      PROVE  \E k \in 1 .. i - 1 : Says(k, "gone", slots[s].handle)'
    BY DEF GoneBeforeOpened
  <2>1. i \in 1 .. Len(line) /\ line'[i] = line[i] /\ slots'[s].handle \in Handle
    BY <1>0, <1>1
  <2>2. slots'[s].handle = slots[s].handle
    BY <2>1, HandleIsUsed DEF Steady
  <2>3. PICK k \in 1 .. i - 1 : Says(k, "gone", slots[s].handle)
    BY <2>1, <2>2 DEF GoneBeforeOpened
  <2>4. k \in 1 .. Len(line)
    BY <1>0, <2>1
  <2> QED
    BY <1>1, <2>2, <2>3, <2>4
<1>6. GoneBetween'
  <2> SUFFICES ASSUME NEW h \in Handle, NEW i \in 1 .. Len(line'), NEW j \in 1 .. Len(line'), i < j,
                      Says(i, "opened", h)', Says(j, "opened", h)'
      PROVE  \E k \in i + 1 .. j - 1 : Says(k, "gone", h)'
    BY DEF GoneBetween
  <2>1. i \in 1 .. Len(line) /\ line'[i] = line[i] /\ j \in 1 .. Len(line) /\ line'[j] = line[j]
    BY <1>1
  <2>2. PICK k \in i + 1 .. j - 1 : Says(k, "gone", h)
    BY <2>1 DEF GoneBetween
  <2>3. k \in 1 .. Len(line)
    BY <1>0, <2>1
  <2> QED
    BY <1>1, <2>2, <2>3
<1>7. SlotOfClosed'
  <2> SUFFICES ASSUME NEW s \in Slot, slots'[s].handle # UNUSED, ~module'[slots'[s].handle].open
      PROVE  \/ \E k \in 1 .. Len(line') : Says(k, "gone", slots[s].handle)'
             \/ app'.at = "closing" /\ app'.slot = s
    BY DEF SlotOfClosed
  <2>1. slots'[s].handle = slots[s].handle /\ ~module[slots[s].handle].open
    BY <1>2 DEF Steady
  <2>2. \/ \E k \in 1 .. Len(line) : Says(k, "gone", slots[s].handle)
        \/ app.at = "closing" /\ app.slot = s
    BY <2>1 DEF SlotOfClosed
  <2> QED
    BY <1>1, <1>3, <2>1, <2>2 DEF Steady
<1>8. OpenedOfClosed'
  <2> SUFFICES ASSUME NEW i \in 1 .. Len(line'), line'[i].is = "opened", ~module'[line'[i].handle].open
      PROVE  \/ \E k \in i + 1 .. Len(line') : Says(k, "gone", line[i].handle)'
             \/ app'.at = "closing"
    BY DEF OpenedOfClosed
  <2>1. i \in 1 .. Len(line) /\ line'[i] = line[i] /\ ~module[line[i].handle].open
    BY <1>0, <1>1 DEF Steady
  <2>2. CASE app.at = "closing"
    BY <2>2 DEF Steady
  <2>3. CASE app.at # "closing"
    <3>1. PICK k \in i + 1 .. Len(line) : Says(k, "gone", line[i].handle)
      BY <2>1, <2>3 DEF OpenedOfClosed
    <3>2. k \in 1 .. Len(line) /\ k \in i + 1 .. Len(line')
      BY <1>0, <1>1, <2>1
    <3> QED
      BY <1>1, <2>1, <3>1, <3>2
  <2> QED
    BY <2>2, <2>3
<1>9. ClosedIsLast'
  <2> SUFFICES ASSUME NEW i \in 1 .. Len(line'), line'[i].is = "closed"
      PROVE  app'.at = "closing" /\ \A j \in i + 1 .. Len(line') : IsUrc(line'[j])
    BY DEF ClosedIsLast, IsUrc
  <2>1. i \in 1 .. Len(line) /\ line'[i] = line[i]
    BY <1>1
  <2>2. app.at = "closing" /\ \A j \in i + 1 .. Len(line) : IsUrc(line[j])
    BY <2>1 DEF ClosedIsLast
  <2>3. ASSUME NEW j \in i + 1 .. Len(line') PROVE IsUrc(line'[j])
    <3>1. j \in 1 .. Len(line')
      BY <1>0, <1>1, <2>1
    <3>2. CASE j \in 1 .. Len(line)
      <4>1. j \in i + 1 .. Len(line) /\ line'[j] = line[j]
        BY <1>0, <1>1, <2>1, <3>2
      <4> QED
        BY <2>2, <4>1
    <3>3. CASE j > Len(line)
      BY <1>1, <2>2, <3>1, <3>3
    <3> QED
      BY <1>0, <3>1, <3>2, <3>3
  <2> QED
    BY <2>2, <2>3 DEF Steady
<1> QED
  BY <1>4, <1>5, <1>6, <1>7, <1>8, <1>9

\* The first message of the line is read: a result code, by which a slot may
\* have been cleared, or an answer.
LEMMA ShrunkAlternates ==
    ASSUME SocketTypes, OneSlot, GoneBeforeOpened, GoneBetween, SlotOfClosed, OpenedOfClosed,
           ClosedIsLast, Steady, line # <<>>, line' = Tail(line),
           Head(line).is = "gone" => \A s \in Slot : slots'[s].handle # Head(line).handle
    PROVE  (OneSlot /\ GoneBeforeOpened /\ GoneBetween /\ SlotOfClosed /\ OpenedOfClosed
            /\ ClosedIsLast)'
<1>0. /\ line \in Seq(Message) /\ Len(line) \in Nat \ {0} /\ Head(line) = line[1]
      /\ \A i \in 1 .. Len(line) : line[i] \in Message /\ line[i].handle \in Handle
  <2>1. line \in Seq(Message) /\ \A m \in Message : m.handle \in Handle
    BY DEF SocketTypes, Message
  <2> QED
    BY <2>1 DEF Says
<1>1. /\ Len(line') = Len(line) - 1
      /\ \A i \in 1 .. Len(line') : i + 1 \in 1 .. Len(line) /\ line'[i] = line[i + 1]
  BY <1>0
<1>2. /\ \A s \in Slot : slots[s].handle # UNUSED => slots[s].handle \in Handle
      /\ 1 \in 1 .. Len(line)
  BY <1>0 DEF SocketTypes, SocketSlot
<1>4. OneSlot'
  BY DEF OneSlot, Steady
<1>5. GoneBeforeOpened'
  <2> SUFFICES ASSUME NEW s \in Slot, NEW i \in 1 .. Len(line'), Says(i, "opened", slots[s].handle)'
      PROVE  \E k \in 1 .. i - 1 : Says(k, "gone", slots[s].handle)'
    BY DEF GoneBeforeOpened
  <2>1. i + 1 \in 1 .. Len(line) /\ line'[i] = line[i + 1] /\ slots'[s].handle \in Handle
    BY <1>0, <1>1 DEF Says
  <2>2. slots'[s].handle = slots[s].handle
    BY <2>1, HandleIsUsed DEF Steady, Says
  <2>3. PICK k \in 1 .. i + 1 - 1 : Says(k, "gone", slots[s].handle)
    BY <2>1, <2>2 DEF GoneBeforeOpened, Says
  <2>4. k # 1
    BY <1>0, <2>2, <2>3 DEF Says
  <2>5. k - 1 \in 1 .. i - 1 /\ k - 1 \in 1 .. Len(line') /\ (k - 1) + 1 = k
    BY <1>0, <1>1, <2>1, <2>4
  <2>6. line'[k - 1] = line[k]
    BY <1>1, <2>5
  <2> QED
    BY <2>2, <2>3, <2>5, <2>6 DEF Says
<1>6. GoneBetween'
  <2> SUFFICES ASSUME NEW h \in Handle, NEW i \in 1 .. Len(line'), NEW j \in 1 .. Len(line'), i < j,
                      Says(i, "opened", h)', Says(j, "opened", h)'
      PROVE  \E k \in i + 1 .. j - 1 : Says(k, "gone", h)'
    BY Zenon DEF GoneBetween
  <2>1. /\ i + 1 \in 1 .. Len(line) /\ line'[i] = line[i + 1]
        /\ j + 1 \in 1 .. Len(line) /\ line'[j] = line[j + 1] /\ i + 1 < j + 1
    BY <1>0, <1>1
  <2>2. PICK k \in i + 1 + 1 .. j + 1 - 1 : Says(k, "gone", h)
    BY <2>1 DEF GoneBetween, Says
  <2>5. k - 1 \in i + 1 .. j - 1 /\ k - 1 \in 1 .. Len(line') /\ (k - 1) + 1 = k
    BY <1>0, <1>1, <2>1
  <2>6. line'[k - 1] = line[k]
    BY <1>1, <2>5
  <2> QED
    BY <2>2, <2>5, <2>6 DEF Says
<1>7. SlotOfClosed'
  <2> SUFFICES ASSUME NEW s \in Slot, slots'[s].handle # UNUSED, ~module'[slots'[s].handle].open
      PROVE  \/ \E k \in 1 .. Len(line') : Says(k, "gone", slots[s].handle)'
             \/ app'.at = "closing" /\ app'.slot = s
    BY DEF SlotOfClosed
  <2>1. slots'[s].handle = slots[s].handle /\ ~module[slots[s].handle].open
    BY <1>2 DEF Steady
  <2>2. CASE app.at = "closing" /\ app.slot = s
    BY <2>2 DEF Steady, Says
  <2>3. CASE ~ (app.at = "closing" /\ app.slot = s)
    <3>1. PICK k \in 1 .. Len(line) : Says(k, "gone", slots[s].handle)
      BY <2>1, <2>3 DEF SlotOfClosed, Says
    <3>2. k # 1
      BY <1>0, <2>1, <3>1 DEF Says
    <3>3. k - 1 \in 1 .. Len(line') /\ (k - 1) + 1 = k
      BY <1>0, <1>1, <3>2
    <3>4. line'[k - 1] = line[k]
      BY <1>1, <3>3
    <3> QED
      BY <2>1, <3>1, <3>3, <3>4 DEF Says
  <2> QED
    BY <2>2, <2>3 DEF Says
<1>8. OpenedOfClosed'
  <2> SUFFICES ASSUME NEW i \in 1 .. Len(line'), line'[i].is = "opened", ~module'[line'[i].handle].open
      PROVE  \/ \E k \in i + 1 .. Len(line') : Says(k, "gone", line[i].handle)'
             \/ app'.at = "closing"
    BY DEF OpenedOfClosed
  <2>1. /\ i + 1 \in 1 .. Len(line) /\ line'[i] = line[i + 1] /\ line[i + 1].is = "opened"
        /\ ~module[line[i + 1].handle].open
    BY <1>0, <1>1 DEF Steady
  <2>2. CASE app.at = "closing"
    BY <2>2 DEF Steady, Says
  <2>3. CASE app.at # "closing"
    <3>1. PICK k \in i + 1 + 1 .. Len(line) : Says(k, "gone", line[i + 1].handle)
      BY <2>1, <2>3 DEF OpenedOfClosed, Says
    <3>3. k - 1 \in i + 1 .. Len(line') /\ k - 1 \in 1 .. Len(line') /\ (k - 1) + 1 = k
      BY <1>0, <1>1, <2>1
    <3>4. line'[k - 1] = line[k]
      BY <1>1, <3>3
    <3> QED
      BY <2>1, <3>1, <3>3, <3>4 DEF Says
  <2> QED
    BY <2>2, <2>3 DEF Says
<1>9. ClosedIsLast'
  <2> SUFFICES ASSUME NEW i \in 1 .. Len(line'), line'[i].is = "closed"
      PROVE  app'.at = "closing" /\ \A j \in i + 1 .. Len(line') : IsUrc(line'[j])
    BY DEF ClosedIsLast, IsUrc
  <2>1. i + 1 \in 1 .. Len(line) /\ line'[i] = line[i + 1]
    BY <1>1
  <2>2. app.at = "closing" /\ \A j \in i + 1 + 1 .. Len(line) : IsUrc(line[j])
    BY <2>1 DEF ClosedIsLast, Says
  <2>3. ASSUME NEW j \in i + 1 .. Len(line') PROVE IsUrc(line'[j])
    <3>1. j \in 1 .. Len(line') /\ j + 1 \in i + 1 + 1 .. Len(line)
      BY <1>0, <1>1, <2>1
    <3> QED
      BY <1>1, <2>2, <3>1 DEF Says
  <2> QED
    BY <2>2, <2>3 DEF Steady, Says
<1> QED
  BY <1>4, <1>5, <1>6, <1>7, <1>8, <1>9

\* The module closes a socket by itself, and says so.
LEMMA DeactivateAlternates ==
    ASSUME SocketTypes, OneSlot, GoneBeforeOpened, GoneBetween, SlotOfClosed, OpenedOfClosed,
           ClosedIsLast, NEW h \in Handle, Deactivate(h)
    PROVE  (OneSlot /\ GoneBeforeOpened /\ GoneBetween /\ SlotOfClosed /\ OpenedOfClosed
            /\ ClosedIsLast)'
<1> DEFINE m == [is |-> "gone", handle |-> h, n |-> 0]
<1>0. /\ line \in Seq(Message) /\ Len(line) \in Nat
      /\ \A i \in 1 .. Len(line) : line[i] \in Message /\ line[i].handle \in Handle
  <2>1. line \in Seq(Message) /\ \A r \in Message : r.handle \in Handle
    BY DEF SocketTypes, Message
  <2> QED
    BY <2>1
<1>1. /\ line' = Append(line, m) /\ module' = [module EXCEPT ![h] = Closed]
      /\ UNCHANGED <<slots, app>>
  BY DEF Deactivate
<1>2. m.is = "gone" /\ m.handle = h /\ m \in Message
  BY DEF Message
<1> HIDE DEF m
<1>3. /\ Len(line') = Len(line) + 1 /\ line'[Len(line) + 1] = m
      /\ \A i \in 1 .. Len(line) : line'[i] = line[i]
      /\ \A i \in 1 .. Len(line') : i \in 1 .. Len(line) \/ i = Len(line) + 1
  BY <1>0, <1>1, <1>2
<1>4. \A g \in Handle : g # h => module'[g] = module[g]
  BY <1>1 DEF SocketTypes
<1>5. \A i \in 1 .. Len(line') : line'[i].is # "gone" => i \in 1 .. Len(line)
  BY <1>2, <1>3
<1>6. \A s \in Slot : slots[s].handle # UNUSED => slots[s].handle \in Handle
  BY DEF SocketTypes, SocketSlot
<1>7. OneSlot'
  BY <1>1 DEF OneSlot
<1>8. GoneBeforeOpened'
  <2> SUFFICES ASSUME NEW s \in Slot, NEW i \in 1 .. Len(line'), Says(i, "opened", slots[s].handle)'
      PROVE  \E k \in 1 .. i - 1 : Says(k, "gone", slots[s].handle)'
    BY DEF GoneBeforeOpened
  <2>1. i \in 1 .. Len(line) /\ line'[i] = line[i]
    BY <1>3, <1>5 DEF Says
  <2>2. PICK k \in 1 .. i - 1 : Says(k, "gone", slots[s].handle)
    BY <1>1, <2>1 DEF GoneBeforeOpened, Says
  <2>3. k \in 1 .. Len(line)
    BY <1>0, <2>1
  <2> QED
    BY <1>1, <1>3, <2>2, <2>3 DEF Says
<1>9. GoneBetween'
  <2> SUFFICES ASSUME NEW g \in Handle, NEW i \in 1 .. Len(line'), NEW j \in 1 .. Len(line'), i < j,
                      Says(i, "opened", g)', Says(j, "opened", g)'
      PROVE  \E k \in i + 1 .. j - 1 : Says(k, "gone", g)'
    BY DEF GoneBetween
  <2>1. i \in 1 .. Len(line) /\ line'[i] = line[i] /\ j \in 1 .. Len(line) /\ line'[j] = line[j]
    BY <1>3, <1>5 DEF Says
  <2>2. PICK k \in i + 1 .. j - 1 : Says(k, "gone", g)
    BY <2>1 DEF GoneBetween, Says
  <2>3. k \in 1 .. Len(line)
    BY <1>0, <2>1
  <2> QED
    BY <1>3, <2>2, <2>3 DEF Says
<1>10. SlotOfClosed'
  <2> SUFFICES ASSUME NEW s \in Slot, slots[s].handle # UNUSED, ~module'[slots[s].handle].open
      PROVE  \/ \E k \in 1 .. Len(line') : Says(k, "gone", slots[s].handle)'
             \/ app.at = "closing" /\ app.slot = s
    BY <1>1 DEF SlotOfClosed
  <2>1. CASE slots[s].handle = h
    BY <1>0, <1>1, <1>2, <1>3, <2>1 DEF Says
  <2>2. CASE slots[s].handle # h
    <3>1. ~module[slots[s].handle].open
      BY <1>4, <1>6, <2>2
    <3>2. CASE app.at = "closing" /\ app.slot = s
      BY <3>2
    <3>3. CASE ~ (app.at = "closing" /\ app.slot = s)
      <4>1. PICK k \in 1 .. Len(line) : Says(k, "gone", slots[s].handle)
        BY <3>1, <3>3 DEF SlotOfClosed
      <4>2. k \in 1 .. Len(line')
        BY <1>0, <1>3
      <4> QED
        BY <1>1, <1>3, <4>1, <4>2 DEF Says
    <3> QED
      BY <3>2, <3>3
  <2> QED
    BY <2>1, <2>2
<1>11. OpenedOfClosed'
  <2> SUFFICES ASSUME NEW i \in 1 .. Len(line'), line'[i].is = "opened", ~module'[line'[i].handle].open,
                      app.at # "closing"
      PROVE  \E k \in i + 1 .. Len(line') : Says(k, "gone", line[i].handle)'
    BY <1>1 DEF OpenedOfClosed
  <2>1. i \in 1 .. Len(line) /\ line'[i] = line[i] /\ line[i].handle \in Handle
    BY <1>0, <1>3, <1>5
  <2>2. CASE line[i].handle = h
    <3>1. Len(line) + 1 \in i + 1 .. Len(line')
      BY <1>0, <1>3, <2>1
    <3> QED
      BY <1>2, <1>3, <2>1, <2>2, <3>1 DEF Says
  <2>3. CASE line[i].handle # h
    <3>1. ~module[line[i].handle].open
      BY <1>4, <2>1, <2>3
    <3>2. PICK k \in i + 1 .. Len(line) : Says(k, "gone", line[i].handle)
      BY <2>1, <3>1 DEF OpenedOfClosed
    <3>3. k \in 1 .. Len(line) /\ k \in i + 1 .. Len(line')
      BY <1>0, <1>3, <2>1
    <3> QED
      BY <1>3, <2>1, <3>2, <3>3 DEF Says
  <2> QED
    BY <2>2, <2>3
<1>12. ClosedIsLast'
  <2> SUFFICES ASSUME NEW i \in 1 .. Len(line'), line'[i].is = "closed"
      PROVE  app.at = "closing" /\ \A j \in i + 1 .. Len(line') : IsUrc(line'[j])
    BY <1>1 DEF ClosedIsLast, IsUrc
  <2>1. i \in 1 .. Len(line) /\ line'[i] = line[i]
    BY <1>3, <1>5
  <2>2. app.at = "closing" /\ \A j \in i + 1 .. Len(line) : IsUrc(line[j])
    BY <2>1 DEF ClosedIsLast
  <2>3. ASSUME NEW j \in i + 1 .. Len(line') PROVE IsUrc(line'[j])
    <3>1. j \in 1 .. Len(line') /\ (j \in 1 .. Len(line) => j \in i + 1 .. Len(line))
      BY <1>0, <1>3, <2>1
    <3> QED
      BY <1>2, <1>3, <2>2, <3>1 DEF IsUrc
  <2> QED
    BY <2>2, <2>3
<1> QED
  BY <1>7, <1>8, <1>9, <1>10, <1>11, <1>12

\* The module opens the lowest handle that is closed, and says so; its
\* answer may be lost.
LEMMA OpenAlternates ==
    ASSUME SocketTypes, OneSlot, GoneBeforeOpened, GoneBetween, SlotOfClosed, OpenedOfClosed,
           ClosedIsLast, app.at # "closing", app'.at # "closing", UNCHANGED slots,
           NEW h \in Handle, ~module[h].open, module' = [module EXCEPT ![h].open = TRUE],
           line' \in {line, Append(line, [is |-> "opened", handle |-> h, n |-> 0])}
    PROVE  (OneSlot /\ GoneBeforeOpened /\ GoneBetween /\ SlotOfClosed /\ OpenedOfClosed
            /\ ClosedIsLast)'
<1> DEFINE m == [is |-> "opened", handle |-> h, n |-> 0]
<1>0. /\ line \in Seq(Message) /\ Len(line) \in Nat
      /\ \A i \in 1 .. Len(line) : line[i] \in Message /\ line[i].handle \in Handle
  <2>1. line \in Seq(Message) /\ \A r \in Message : r.handle \in Handle
    BY DEF SocketTypes, Message
  <2> QED
    BY <2>1
<1>1. line' = line \/ line' = Append(line, m)
  OBVIOUS
<1>2. m.is = "opened" /\ m.handle = h /\ m \in Message
  BY DEF Message
<1> HIDE DEF m
<1>3. /\ Len(line') \in {Len(line), Len(line) + 1}
      /\ \A i \in 1 .. Len(line) : line'[i] = line[i]
      /\ \A i \in 1 .. Len(line') : i \in 1 .. Len(line) \/ (i = Len(line) + 1 /\ line'[i] = m)
  BY <1>0, <1>1, <1>2
<1>4. module'[h].open /\ \A g \in Handle : g # h => module'[g] = module[g]
  BY DEF SocketTypes, Socket
<1>5. \A s \in Slot : slots[s].handle # UNUSED => slots[s].handle \in Handle
  BY DEF SocketTypes, SocketSlot
<1>6. OneSlot'
  BY DEF OneSlot
<1>7. GoneBeforeOpened'
  <2> SUFFICES ASSUME NEW s \in Slot, NEW i \in 1 .. Len(line'), Says(i, "opened", slots[s].handle)'
      PROVE  \E k \in 1 .. i - 1 : Says(k, "gone", slots[s].handle)'
    BY DEF GoneBeforeOpened
  <2>1. CASE i \in 1 .. Len(line)
    <3>1. PICK k \in 1 .. i - 1 : Says(k, "gone", slots[s].handle)
      BY <1>3, <2>1 DEF GoneBeforeOpened, Says
    <3>2. k \in 1 .. Len(line)
      BY <1>0, <2>1
    <3> QED
      BY <1>3, <3>1, <3>2 DEF Says
  <2>2. CASE i = Len(line) + 1 /\ line'[i] = m
    <3>1. slots[s].handle = h
      BY <1>2, <2>2 DEF Says
    <3>2. slots[s].handle # UNUSED /\ ~module[slots[s].handle].open
      BY <3>1, HandleIsUsed
    <3>3. PICK k \in 1 .. Len(line) : Says(k, "gone", slots[s].handle)
      BY <3>2 DEF SlotOfClosed
    <3>4. k \in 1 .. i - 1
      BY <1>0, <2>2
    <3> QED
      BY <1>3, <3>3, <3>4 DEF Says
  <2> QED
    BY <1>3, <2>1, <2>2
<1>8. GoneBetween'
  <2> SUFFICES ASSUME NEW g \in Handle, NEW i \in 1 .. Len(line'), NEW j \in 1 .. Len(line'), i < j,
                      Says(i, "opened", g)', Says(j, "opened", g)'
      PROVE  \E k \in i + 1 .. j - 1 : Says(k, "gone", g)'
    BY Zenon DEF GoneBetween
  <2>1. i \in 1 .. Len(line) /\ line'[i] = line[i]
    BY <1>0, <1>3
  <2>2. CASE j \in 1 .. Len(line)
    <3>1. PICK k \in i + 1 .. j - 1 : Says(k, "gone", g)
      BY <1>3, <2>1, <2>2 DEF GoneBetween, Says
    <3>2. k \in 1 .. Len(line)
      BY <1>0, <2>1, <2>2
    <3> QED
      BY <1>3, <3>1, <3>2 DEF Says
  <2>3. CASE j = Len(line) + 1 /\ line'[j] = m
    <3>1. g = h /\ line[i].is = "opened" /\ line[i].handle = h
      BY <1>2, <2>1, <2>3 DEF Says
    <3>2. PICK k \in i + 1 .. Len(line) : Says(k, "gone", h)
      BY <2>1, <3>1 DEF OpenedOfClosed
    <3>3. k \in 1 .. Len(line) /\ k \in i + 1 .. j - 1
      BY <1>0, <2>1, <2>3
    <3> QED
      BY <1>3, <3>1, <3>2, <3>3 DEF Says
  <2> QED
    BY <1>3, <2>2, <2>3
<1>9. SlotOfClosed'
  <2> SUFFICES ASSUME NEW s \in Slot, slots[s].handle # UNUSED, ~module'[slots[s].handle].open
      PROVE  \E k \in 1 .. Len(line') : Says(k, "gone", slots[s].handle)'
    BY DEF SlotOfClosed
  <2>1. ~module[slots[s].handle].open
    BY <1>4, <1>5
  <2>2. PICK k \in 1 .. Len(line) : Says(k, "gone", slots[s].handle)
    BY <2>1 DEF SlotOfClosed
  <2>3. k \in 1 .. Len(line')
    BY <1>0, <1>3
  <2> QED
    BY <1>3, <2>2, <2>3 DEF Says
<1>10. OpenedOfClosed'
  <2> SUFFICES ASSUME NEW i \in 1 .. Len(line'), line'[i].is = "opened", ~module'[line'[i].handle].open
      PROVE  \E k \in i + 1 .. Len(line') : Says(k, "gone", line[i].handle)'
    BY DEF OpenedOfClosed
  <2>1. i \in 1 .. Len(line) /\ line'[i] = line[i] /\ line[i].handle \in Handle
    BY <1>0, <1>2, <1>3, <1>4
  <2>2. ~module[line[i].handle].open
    BY <1>4, <2>1
  <2>3. PICK k \in i + 1 .. Len(line) : Says(k, "gone", line[i].handle)
    BY <2>1, <2>2 DEF OpenedOfClosed
  <2>4. k \in 1 .. Len(line) /\ k \in i + 1 .. Len(line')
    BY <1>0, <1>3, <2>1
  <2> QED
    BY <1>3, <2>1, <2>3, <2>4 DEF Says
<1>11. ClosedIsLast'
  <2>1. \A i \in 1 .. Len(line') : line'[i].is # "closed"
    BY <1>2, <1>3 DEF ClosedIsLast
  <2> QED
    BY <2>1 DEF ClosedIsLast
<1> QED
  BY <1>6, <1>7, <1>8, <1>9, <1>10, <1>11

\* The answer comes to the application, whose slot gets the handle.
LEMMA OpenedAlternates ==
    ASSUME SocketTypes, AppFits, OneSlot, GoneBeforeOpened, GoneBetween, SlotOfClosed,
           OpenedOfClosed, ClosedIsLast, app \in App, Opened
    PROVE  (OneSlot /\ GoneBeforeOpened /\ GoneBetween /\ SlotOfClosed /\ OpenedOfClosed
            /\ ClosedIsLast)'
<1> DEFINE h == Head(line).handle
           t == FindSocket(UNUSED)
           new == [Free EXCEPT !.handle = Head(line).handle]
<1>0. /\ line \in Seq(Message) /\ Len(line) \in Nat \ {0} /\ Head(line) = line[1]
      /\ \A i \in 1 .. Len(line) : line[i] \in Message /\ line[i].handle \in Handle
      /\ 1 \in 1 .. Len(line) /\ line[1].is = "opened" /\ line[1].handle = h
  <2>1. line \in Seq(Message) /\ \A m \in Message : m.handle \in Handle
    BY DEF SocketTypes, Message
  <2> QED
    BY <2>1 DEF Opened, Waiting
<1>1. /\ line' = Tail(line) /\ slots' = [slots EXCEPT ![t] = new] /\ UNCHANGED module
      /\ app.at = "opening" /\ app'.at = "open"
  BY DEF Opened, App
<1>2. /\ Len(line') = Len(line) - 1
      /\ \A i \in 1 .. Len(line') : i + 1 \in 1 .. Len(line) /\ line'[i] = line[i + 1]
  BY <1>0, <1>1
<1>3. t \in Slot /\ h \in Handle /\ h # UNUSED
  BY <1>0, <1>1, FindSocketFinds, HandleIsUsed DEF AppFits
<1>4. new.handle = h
  BY DEF Free
<1> HIDE DEF h, t, new
<1>5. /\ slots'[t].handle = h
      /\ \A s \in Slot : s # t => slots'[s].handle = slots[s].handle /\ slots'[s].handle # h
  <2>1. ASSUME NEW s \in Slot, slots[s].handle = h PROVE FALSE
    <3>1. \E k \in 1 .. 1 - 1 : Says(k, "gone", slots[s].handle)
      BY <1>0, <2>1 DEF GoneBeforeOpened, Says
    <3> QED
      BY <3>1
  <2> QED
    BY <1>1, <1>3, <1>4, <2>1 DEF SocketTypes
<1>6. \A s \in Slot : slots[s].handle # UNUSED => slots[s].handle \in Handle
  BY DEF SocketTypes, SocketSlot
<1>7. OneSlot'
  BY <1>3, <1>5 DEF OneSlot
<1>8. GoneBeforeOpened'
  <2> SUFFICES ASSUME NEW s \in Slot, NEW i \in 1 .. Len(line'), Says(i, "opened", slots[s].handle)'
      PROVE  \E k \in 1 .. i - 1 : Says(k, "gone", slots[s].handle)'
    BY DEF GoneBeforeOpened
  <2>1. i + 1 \in 1 .. Len(line) /\ line'[i] = line[i + 1]
    BY <1>2
  <2>2. PICK k \in 2 .. i : Says(k, "gone", slots'[s].handle)
    <3>1. CASE s = t
      <4>1. Says(1, "opened", h) /\ Says(i + 1, "opened", h) /\ 1 < i + 1
        BY <1>0, <1>2, <1>5, <2>1, <3>1 DEF Says
      <4>2. PICK k \in 1 + 1 .. i + 1 - 1 : Says(k, "gone", h)
        BY <1>0, <1>3, <2>1, <4>1 DEF GoneBetween
      <4> QED
        BY <1>5, <3>1, <4>2
    <3>2. CASE s # t
      <4>1. Says(i + 1, "opened", slots[s].handle) /\ slots'[s].handle = slots[s].handle
        BY <1>5, <2>1, <3>2 DEF Says
      <4>2. PICK k \in 1 .. i + 1 - 1 : Says(k, "gone", slots[s].handle)
        BY <2>1, <4>1 DEF GoneBeforeOpened
      <4>3. k # 1
        BY <1>0, <4>2 DEF Says
      <4> QED
        BY <4>1, <4>2, <4>3
    <3> QED
      BY <3>1, <3>2
  <2>3. k - 1 \in 1 .. i - 1 /\ k - 1 \in 1 .. Len(line') /\ (k - 1) + 1 = k
    BY <1>0, <1>2, <2>1
  <2>4. line'[k - 1] = line[k]
    BY <1>2, <2>3
  <2> QED
    BY <2>2, <2>3, <2>4 DEF Says
<1>9. GoneBetween'
  <2> SUFFICES ASSUME NEW g \in Handle, NEW i \in 1 .. Len(line'), NEW j \in 1 .. Len(line'), i < j,
                      Says(i, "opened", g)', Says(j, "opened", g)'
      PROVE  \E k \in i + 1 .. j - 1 : Says(k, "gone", g)'
    BY Zenon DEF GoneBetween
  <2>1. /\ i + 1 \in 1 .. Len(line) /\ line'[i] = line[i + 1]
        /\ j + 1 \in 1 .. Len(line) /\ line'[j] = line[j + 1] /\ i + 1 < j + 1
    BY <1>0, <1>2
  <2>2. PICK k \in i + 1 + 1 .. j + 1 - 1 : Says(k, "gone", g)
    BY <2>1 DEF GoneBetween, Says
  <2>3. k - 1 \in i + 1 .. j - 1 /\ k - 1 \in 1 .. Len(line') /\ (k - 1) + 1 = k
    BY <1>0, <1>2, <2>1
  <2>4. line'[k - 1] = line[k]
    BY <1>2, <2>3
  <2> QED
    BY <2>2, <2>3, <2>4 DEF Says
<1>10. SlotOfClosed'
  <2> SUFFICES ASSUME NEW s \in Slot, slots'[s].handle # UNUSED, ~module'[slots'[s].handle].open
      PROVE  \E k \in 1 .. Len(line') : Says(k, "gone", slots[s].handle)'
    BY DEF SlotOfClosed
  <2>1. PICK k \in 1 .. Len(line) : k # 1 /\ Says(k, "gone", slots'[s].handle)
    <3>1. CASE s = t
      <4>1. ~module[line[1].handle].open
        BY <1>0, <1>1, <1>5, <3>1
      <4>2. PICK k \in 1 + 1 .. Len(line) : Says(k, "gone", h)
        BY <1>0, <1>1, <4>1 DEF OpenedOfClosed
      <4> QED
        BY <1>0, <1>5, <3>1, <4>2
    <3>2. CASE s # t
      <4>1. slots'[s].handle = slots[s].handle
        BY <1>5, <3>2
      <4>2. PICK k \in 1 .. Len(line) : Says(k, "gone", slots[s].handle)
        BY <1>1, <4>1 DEF SlotOfClosed
      <4> QED
        BY <1>0, <4>1, <4>2 DEF Says
    <3> QED
      BY <3>1, <3>2
  <2>2. k - 1 \in 1 .. Len(line') /\ (k - 1) + 1 = k
    BY <1>0, <1>2, <2>1
  <2>3. line'[k - 1] = line[k]
    BY <1>2, <2>2
  <2> QED
    BY <2>1, <2>2, <2>3 DEF Says
<1>11. OpenedOfClosed'
  <2> SUFFICES ASSUME NEW i \in 1 .. Len(line'), line'[i].is = "opened", ~module'[line'[i].handle].open
      PROVE  \E k \in i + 1 .. Len(line') : Says(k, "gone", line[i].handle)'
    BY DEF OpenedOfClosed
  <2>1. /\ i + 1 \in 1 .. Len(line) /\ line'[i] = line[i + 1] /\ line[i + 1].is = "opened"
        /\ ~module[line[i + 1].handle].open
    BY <1>1, <1>2
  <2>2. PICK k \in i + 1 + 1 .. Len(line) : Says(k, "gone", line[i + 1].handle)
    BY <1>1, <2>1 DEF OpenedOfClosed
  <2>3. k - 1 \in i + 1 .. Len(line') /\ k - 1 \in 1 .. Len(line') /\ (k - 1) + 1 = k
    BY <1>0, <1>2, <2>1
  <2>4. line'[k - 1] = line[k]
    BY <1>2, <2>3
  <2> QED
    BY <2>1, <2>2, <2>3, <2>4 DEF Says
<1>12. ClosedIsLast'
  <2>1. \A i \in 1 .. Len(line') : line'[i].is # "closed"
    BY <1>1, <1>2 DEF ClosedIsLast
  <2> QED
    BY <2>1 DEF ClosedIsLast
<1> QED
  BY <1>7, <1>8, <1>9, <1>10, <1>11, <1>12

\* The application closes its slot's socket.
LEMMA CloseAlternates ==
    ASSUME SocketTypes, AppFits, OneSlot, GoneBeforeOpened, GoneBetween, SlotOfClosed,
           OpenedOfClosed, ClosedIsLast, app \in App, Close
    PROVE  (OneSlot /\ GoneBeforeOpened /\ GoneBetween /\ SlotOfClosed /\ OpenedOfClosed
            /\ ClosedIsLast)'
<1> DEFINE m == [is |-> "closed", handle |-> 0, n |-> 0]
<1>0. /\ line \in Seq(Message) /\ Len(line) \in Nat
      /\ \A i \in 1 .. Len(line) : line[i] \in Message /\ line[i].handle \in Handle
  <2>1. line \in Seq(Message) /\ \A r \in Message : r.handle \in Handle
    BY DEF SocketTypes, Message
  <2> QED
    BY <2>1
<1>1. /\ line' = line \/ line' = Append(line, m)
      /\ \A g \in Handle : g # slots[app.slot].handle => module'[g] = module[g]
      /\ app.at = "open" /\ app'.at = "closing" /\ app'.slot = app.slot /\ UNCHANGED slots
      /\ app.slot \in Slot
  BY DEF Close, Command, Goto, App, AppFits, SocketTypes
<1>2. m.is = "closed" /\ m \in Message
  BY SocketAssumption DEF Message, Handle
<1> HIDE DEF m
<1>3. /\ Len(line') \in {Len(line), Len(line) + 1}
      /\ \A i \in 1 .. Len(line) : line'[i] = line[i]
      /\ \A i \in 1 .. Len(line') : i \in 1 .. Len(line) \/ (i = Len(line) + 1 /\ line'[i] = m)
  BY <1>0, <1>1, <1>2
<1>4. \A i \in 1 .. Len(line') : line'[i].is # "closed" => i \in 1 .. Len(line)
  BY <1>2, <1>3
<1>5. \A i \in 1 .. Len(line) : line[i].is # "closed"
  BY <1>1 DEF ClosedIsLast
<1>6. \A s \in Slot : slots[s].handle # UNUSED => slots[s].handle \in Handle
  BY DEF SocketTypes, SocketSlot
<1>7. OneSlot'
  BY <1>1 DEF OneSlot
<1>8. GoneBeforeOpened'
  <2> SUFFICES ASSUME NEW s \in Slot, NEW i \in 1 .. Len(line'), Says(i, "opened", slots[s].handle)'
      PROVE  \E k \in 1 .. i - 1 : Says(k, "gone", slots[s].handle)'
    BY DEF GoneBeforeOpened
  <2>1. i \in 1 .. Len(line)
    BY <1>4 DEF Says
  <2>2. PICK k \in 1 .. i - 1 : Says(k, "gone", slots[s].handle)
    BY <1>1, <1>3, <2>1 DEF GoneBeforeOpened, Says
  <2>3. k \in 1 .. Len(line)
    BY <1>0, <2>1
  <2> QED
    BY <1>1, <1>3, <2>2, <2>3 DEF Says
<1>9. GoneBetween'
  <2> SUFFICES ASSUME NEW g \in Handle, NEW i \in 1 .. Len(line'), NEW j \in 1 .. Len(line'), i < j,
                      Says(i, "opened", g)', Says(j, "opened", g)'
      PROVE  \E k \in i + 1 .. j - 1 : Says(k, "gone", g)'
    BY Zenon DEF GoneBetween
  <2>1. i \in 1 .. Len(line) /\ line'[i] = line[i] /\ j \in 1 .. Len(line) /\ line'[j] = line[j]
    BY <1>3, <1>4 DEF Says
  <2>2. PICK k \in i + 1 .. j - 1 : Says(k, "gone", g)
    BY <2>1 DEF GoneBetween, Says
  <2>3. k \in 1 .. Len(line)
    BY <1>0, <2>1
  <2> QED
    BY <1>3, <2>2, <2>3 DEF Says
<1>10. SlotOfClosed'
  <2> SUFFICES ASSUME NEW s \in Slot, slots[s].handle # UNUSED, ~module'[slots[s].handle].open,
                      s # app.slot
      PROVE  \E k \in 1 .. Len(line') : Says(k, "gone", slots[s].handle)'
    BY <1>1 DEF SlotOfClosed
  <2>1. slots[s].handle # slots[app.slot].handle
    BY <1>1 DEF OneSlot
  <2>2. PICK k \in 1 .. Len(line) : Says(k, "gone", slots[s].handle)
    BY <1>1, <1>6, <2>1 DEF SlotOfClosed
  <2>3. k \in 1 .. Len(line')
    BY <1>0, <1>3
  <2> QED
    BY <1>1, <1>3, <2>2, <2>3 DEF Says
<1>11. OpenedOfClosed'
  BY <1>1 DEF OpenedOfClosed
<1>12. ClosedIsLast'
  <2> SUFFICES ASSUME NEW i \in 1 .. Len(line'), line'[i].is = "closed",
                      NEW j \in i + 1 .. Len(line')
      PROVE  IsUrc(line'[j])
    BY <1>1 DEF ClosedIsLast, IsUrc
  <2>1. i = Len(line) + 1
    BY <1>3, <1>5
  <2> QED
    BY <1>0, <1>3, <2>1
<1> QED
  BY <1>7, <1>8, <1>9, <1>10, <1>11, <1>12

\* The close is answered, and by its own answer: only result codes remain.
LEMMA CloseDoneAlternates ==
    ASSUME SocketTypes, AppFits, OneSlot, GoneBeforeOpened, GoneBetween, SlotOfClosed,
           OpenedOfClosed, ClosedIsLast, CloseDone, "close" \notin wrong'
    PROVE  (OneSlot /\ GoneBeforeOpened /\ GoneBetween /\ SlotOfClosed /\ OpenedOfClosed
            /\ ClosedIsLast)'
<1>0. /\ line \in Seq(Message) /\ Len(line) \in Nat \ {0} /\ Head(line) = line[1]
      /\ 1 \in 1 .. Len(line) /\ line[1].is = "closed"
  BY DEF SocketTypes, CloseDone, Waiting
<1>1. /\ line' = Tail(line) /\ UNCHANGED module /\ app.at = "closing" /\ app.slot \in Slot
      /\ slots' = [slots EXCEPT ![app.slot] = Free]
  BY DEF CloseDone, AppFits
<1>2. /\ Len(line') = Len(line) - 1
      /\ \A i \in 1 .. Len(line') : i + 1 \in 1 .. Len(line) /\ i + 1 \in 1 + 1 .. Len(line)
                                    /\ line'[i] = line[i + 1]
  BY <1>0, <1>1
<1>3. \A i \in 1 .. Len(line') : IsUrc(line'[i])
  BY <1>0, <1>2 DEF ClosedIsLast
<1>4. /\ slots'[app.slot].handle = UNUSED
      /\ \A s \in Slot : s # app.slot => slots'[s] = slots[s]
  BY <1>1 DEF SocketTypes, Free
<1>5. OneSlot'
  BY <1>1, <1>4 DEF OneSlot
<1>6. GoneBeforeOpened' /\ GoneBetween' /\ OpenedOfClosed' /\ ClosedIsLast'
  BY <1>3 DEF GoneBeforeOpened, GoneBetween, OpenedOfClosed, ClosedIsLast, Says, IsUrc
<1>7. SlotOfClosed'
  <2> SUFFICES ASSUME NEW s \in Slot, slots'[s].handle # UNUSED, ~module'[slots'[s].handle].open
      PROVE  \E k \in 1 .. Len(line') : Says(k, "gone", slots[s].handle)'
    BY DEF SlotOfClosed
  <2>1. s # app.slot /\ slots'[s] = slots[s]
    BY <1>4
  <2>2. PICK k \in 1 .. Len(line) : Says(k, "gone", slots[s].handle)
    BY <1>1, <2>1 DEF SlotOfClosed
  <2>3. k # 1
    BY <1>0, <2>2 DEF Says
  <2>4. k - 1 \in 1 .. Len(line') /\ (k - 1) + 1 = k
    BY <1>0, <1>2, <2>3
  <2>5. line'[k - 1] = line[k]
    BY <1>2, <2>4
  <2> QED
    BY <2>1, <2>2, <2>4, <2>5 DEF Says
<1> QED
  BY <1>5, <1>6, <1>7

\* Every step keeps slots and answers alternating ...
LEMMA AlternatesKept ==
    ASSUME TypeOK, AppFits, Alternates, [Next]_vars
    PROVE  Alternates'
<1> DEFINE Inv == /\ OneSlot /\ GoneBeforeOpened /\ GoneBetween
                  /\ SlotOfClosed /\ OpenedOfClosed /\ ClosedIsLast
<1>0. SocketTypes /\ app \in App /\ line \in Seq(Message)
  BY TypeParts DEF ThreadTypes, SocketTypes
<1>1. CASE Joined
  BY <1>1 DEF Joined, Alternates, OneSlot, GoneBeforeOpened, GoneBetween, SlotOfClosed,
     OpenedOfClosed, ClosedIsLast, Free
<1>2. SUFFICES ASSUME "close" \notin wrong', ~ Joined PROVE Inv'
  BY <1>1 DEF Alternates
<1>3. "close" \notin wrong
  BY <1>2 DEF Next, AppStep, EventStep, vars, Deactivate, Arrive, Open, Send, Receive, Close, Delete,
     Turn, OutOfMemory, Heed, Listened, Opened, NotOpened, Sent, Expire, ReadR4, ReadN2, NotRead, Return,
     CloseDone, NotClosed, EventLock, Poll, EventEnd, EventRead, EventUnlock, OnlyEvent
<1>4. Inv
  BY <1>3 DEF Alternates
<1>5. line # <<>> => Head(line) \in Message /\ Head(line).n \in Nat
  <2>1. line # <<>> => Head(line) \in Message
    BY <1>0
  <2> QED
    BY <2>1 DEF Message
<1>6. ASSUME NEW n \in Nat, app.slot \in Slot,
             slots' = [slots EXCEPT ![app.slot].pending = PendingLeft(n)]
      PROVE  \A s \in Slot : slots'[s].handle = slots[s].handle
  <2> DEFINE new == [slots[app.slot] EXCEPT !.pending = PendingLeft(n)]
  <2>1. new.handle = slots[app.slot].handle
    BY <1>0, <1>6, PendingTypes
  <2>2. slots' = [slots EXCEPT ![app.slot] = new]
    BY <1>6
  <2> HIDE DEF new
  <2> QED
    BY <1>0, <2>1, <2>2 DEF SocketTypes
<1>7. CASE UNCHANGED vars \/ Poll \/ EventEnd \/ EventLock \/ EventUnlock
  <2>1. UNCHANGED <<slots, module, line, app>>
    BY <1>7 DEF vars, Poll, EventEnd, EventLock, EventUnlock, OnlyEvent
  <2> QED
    BY <1>0, <1>4, <2>1, GrownAlternates DEF Steady
<1>8. CASE Receive \/ Delete \/ OutOfMemory \/ Listened \/ NotOpened \/ Expire \/ Return
           \/ (Sent /\ UNCHANGED line)
  <2>1. UNCHANGED <<slots, module, line>> /\ app.at # "closing" /\ app'.at # "closing"
    BY <1>0, <1>8 DEF Receive, Delete, OutOfMemory, Listened, NotOpened, Expire, Return, Sent,
       EndTurn, Goto, App, Idle
  <2> QED
    BY <1>0, <1>4, <2>1, GrownAlternates DEF Steady
<1>9. CASE Sent /\ ~ UNCHANGED line
  <2>1. /\ UNCHANGED <<slots, module>> /\ app.at # "closing" /\ app'.at # "closing"
        /\ line # <<>> /\ line' = Tail(line) /\ Head(line).is # "gone"
    BY <1>0, <1>9 DEF Sent, Goto, App, Waiting
  <2> QED
    BY <1>0, <1>4, <2>1, ShrunkAlternates DEF Steady
<1>10. CASE ReadR4 \/ ReadN2 \/ NotRead
  <2>1. app.at = "reading" /\ app.slot \in Slot /\ app'.at = "open" /\ UNCHANGED module
    BY <1>0, <1>10 DEF ReadR4, ReadN2, NotRead, EndTurn, AppFits, App, Idle
  <2>2. \/ UNCHANGED <<slots, line>>
        \/ /\ line # <<>> /\ line' = Tail(line) /\ Head(line).is = "read"
           /\ UNCHANGED slots \/ \E n \in Nat :
                slots' = [slots EXCEPT ![app.slot].pending = PendingLeft(n)]
    <3>1. CASE ReadR4 \/ NotRead
      BY <1>5, <3>1 DEF ReadR4, NotRead, Waiting
    <3>2. CASE ReadN2
      <4>1. PICK size \in Int :
              /\ size < 0 \/ size \in Nat
              /\ slots' = IF size < 0 THEN slots
                          ELSE [slots EXCEPT ![app.slot].pending = PendingLeft(size)]
        <5>1. PICK size \in IF Head(line).n = 0 THEN {-1} \cup 0 .. Modulus - 1 ELSE {Head(line).n} :
                slots' = IF size < 0 THEN slots
                         ELSE [slots EXCEPT ![app.slot].pending = PendingLeft(size)]
          BY <3>2 DEF ReadN2
        <5>2. Head(line).n \in Nat /\ Modulus \in Nat
          BY <1>5, <3>2, SizeAssumption DEF ReadN2, Waiting
        <5>3. size \in Int /\ (size < 0 \/ size \in Nat)
          BY <5>1, <5>2
        <5> QED
          BY <5>1, <5>3
      <4> QED
        BY <3>2, <4>1 DEF ReadN2, Waiting
    <3> QED
      BY <1>10, <3>1, <3>2
  <2>3. Steady
    BY <1>6, <2>1, <2>2 DEF Steady
  <2> QED
    BY <1>0, <1>4, <2>2, <2>3, GrownAlternates, ShrunkAlternates
<1>11. CASE EventRead \/ Heed
  <2>1. UNCHANGED <<module, app>> /\ (HandleUrc \/ \E wanted : Discard(wanted))
    BY <1>11 DEF EventRead, Heed, OnlyEvent
  <2>2. CASE HandleUrc
    <3>1. slots' = SlotsAfter(Head(line)) /\ line # <<>> /\ line' = Tail(line)
      BY <2>2 DEF HandleUrc, Waiting
    <3>2. Steady
      BY <1>0, <1>5, <2>1, <3>1, SlotsAfterFacts DEF Steady
    <3>3. ASSUME Head(line).is = "gone", NEW s \in Slot, slots'[s].handle = Head(line).handle
          PROVE  FALSE
      <4> DEFINE h == Head(line).handle
      <4>1. h \in Handle /\ h # UNUSED
        BY <1>5, <3>1, HandleIsUsed DEF Message
      <4>2. slots[s].handle = h /\ Found(h) # {}
        BY <3>2, <3>3, <4>1 DEF Steady, Found
      <4>3. FindSocket(h) = s
        BY <1>4, <4>1, <4>2, FindSocketFinds DEF OneSlot
      <4> QED
        BY <1>0, <1>5, <3>1, <3>3, <4>1, <4>2, <4>3, SlotsAfterFacts
    <3> QED
      BY <1>0, <1>4, <3>1, <3>2, <3>3, ShrunkAlternates
  <2>3. CASE \E wanted : Discard(wanted)
    <3>1. UNCHANGED slots /\ line # <<>> /\ line' = Tail(line) /\ Head(line).is # "gone"
      BY <2>3 DEF Discard, Waiting, IsUrc
    <3> QED
      BY <1>0, <1>4, <2>1, <3>1, ShrunkAlternates DEF Steady
  <2> QED
    BY <2>1, <2>2, <2>3
<1>12. CASE Send \/ Turn
  <2>1. UNCHANGED slots /\ app.at # "closing" /\ app'.at # "closing" /\ SocketTypes'
    BY <1>0, <1>12, AppSockets DEF Send, Turn, Goto, App
  <2>2. \/ UNCHANGED line
        \/ \E m : m.is \in {"sent", "read"} /\ line' = Append(line, m)
    <3>1. ASSUME NEW n, line' = Append(line, [is |-> "read", handle |-> 0, n |-> n])
          PROVE  \E m : m.is \in {"sent", "read"} /\ line' = Append(line, m)
      BY <3>1
    <3>2. CASE Turn
      <4> DEFINE h == slots[app.slot].handle
                 queue == IF h = UNUSED THEN <<>> ELSE module[h].queue
                 given == IF queue = <<>> THEN 0 ELSE Min({Asked, Head(queue)})
                 answer == [is |-> "read", handle |-> 0, n |-> given]
      <4>1. UNCHANGED line \/ line' = Append(line, answer)
        BY <3>2 DEF Turn, Command
      <4> HIDE DEF given
      <4> QED
        BY <3>1, <4>1
    <3>3. CASE Send
      BY <3>3 DEF Send, Command
    <3> QED
      BY <1>12, <3>2, <3>3
  <2>3. \A h \in Handle : module'[h].open = module[h].open
    <3>1. ASSUME NEW g, NEW rest, module' = [module EXCEPT ![g].queue = rest],
                 NEW h \in Handle
          PROVE  module'[h].open = module[h].open
      BY <1>0, <3>1 DEF SocketTypes, Socket
    <3>2. UNCHANGED module \/ \E g, rest : module' = [module EXCEPT ![g].queue = rest]
      <4>1. CASE Turn
        <5> DEFINE h == slots[app.slot].handle
                   queue == IF h = UNUSED THEN <<>> ELSE module[h].queue
                   given == IF queue = <<>> THEN 0 ELSE Min({Asked, Head(queue)})
                   rest == IF queue = <<>> THEN <<>>
                           ELSE IF given = Head(queue) THEN Tail(queue)
                           ELSE <<Head(queue) - given>> \o Tail(queue)
        <5>1. UNCHANGED module \/ module' = [module EXCEPT ![h].queue = rest]
          BY <4>1 DEF Turn, Command
        <5> HIDE DEF h, rest
        <5> QED
          BY <5>1
      <4> QED
        BY <1>12, <4>1 DEF Send, Command
    <3> QED
      BY <3>1, <3>2
  <2>4. \A m : line' = Append(line, m) => m \in Message
    BY <1>0, <2>1 DEF SocketTypes
  <2> QED
    BY <1>0, <1>4, <2>1, <2>2, <2>3, <2>4, GrownAlternates DEF Steady
<1>13. ASSUME NEW h \in Handle, Deactivate(h) PROVE Inv'
  BY <1>0, <1>4, <1>13, DeactivateAlternates
<1>14. ASSUME NEW h \in Handle, NEW n \in Size, Arrive(h, n) PROVE Inv'
  <2>1. UNCHANGED <<slots, app>> /\ SocketTypes'
    BY <1>14, LineTypes, TypePartsNext DEF Arrive
  <2>2. PICK m : m.is = "data" /\ line' = Append(line, m)
    BY <1>14 DEF Arrive
  <2>3. m \in Message
    BY <1>0, <2>1, <2>2 DEF SocketTypes
  <2>4. \A g \in Handle : module'[g].open = module[g].open
    BY <1>0, <1>14 DEF Arrive, SocketTypes, Socket
  <2> QED
    BY <1>0, <1>4, <2>1, <2>2, <2>3, <2>4, GrownAlternates DEF Steady, IsUrc
<1>15. CASE Open
  <2>1. app.at # "closing" /\ app'.at # "closing" /\ UNCHANGED slots
    BY <1>0, <1>15 DEF Open, Goto, App
  <2> DEFINE unused == {h \in Handle : ~module[h].open}
  <2>2. CASE unused = {} \/ UNCHANGED <<module, line>>
    BY <1>0, <1>4, <1>15, <2>1, <2>2, GrownAlternates DEF Open, Steady
  <2>3. CASE unused # {} /\ ~ UNCHANGED <<module, line>>
    <3>1. /\ module' = [module EXCEPT ![Min(unused)].open = TRUE]
          /\ line' \in {line, Append(line, [is |-> "opened", handle |-> Min(unused), n |-> 0])}
      BY <1>15, <2>3 DEF Open, Command
    <3>2. unused \in SUBSET Nat
      BY SocketAssumption DEF Handle
    <3>3. Min(unused) \in unused
      BY <2>3, <3>2, MinFacts
    <3> QED
      BY <1>0, <1>4, <2>1, <3>1, <3>3, OpenAlternates
  <2> QED
    BY <2>2, <2>3
<1>16. CASE Opened
  BY <1>0, <1>4, <1>16, OpenedAlternates
<1>17. CASE Close
  BY <1>0, <1>4, <1>17, CloseAlternates
<1>18. CASE CloseDone
  BY <1>0, <1>2, <1>4, <1>18, CloseDoneAlternates
<1>19. ~ NotClosed
  BY <1>2 DEF NotClosed
<1> QED
  BY <1>2, <1>7, <1>8, <1>9, <1>10, <1>11, <1>12, <1>13, <1>14, <1>15, <1>16, <1>17, <1>18, <1>19
     DEF Next, AppStep, EventStep

\* ... so that they always do.
LEMMA AlternatesAlways == Spec => []Alternates
<1>1. Init => Alternates
  BY DEF Init, Alternates, OneSlot, GoneBeforeOpened, GoneBetween, SlotOfClosed,
     OpenedOfClosed, ClosedIsLast, Free
<1>2. (TypeOK /\ AppFits) /\ Alternates /\ [Next]_vars => Alternates'
  BY AlternatesKept
<1> QED
  BY <1>1, <1>2, TypeInvariant, PTL DEF Spec

\* So long as every close has been answered, a handle of the module belongs
\* to one slot at most.
THEOREM HandlesAreSound == Spec => []OneSlotPerHandle
<1>1. OneSlot => OneSlotPerHandle
  <2> SUFFICES ASSUME OneSlot, NEW h \in Handle PROVE Cardinality(Found(h)) <= 1
    BY DEF OneSlotPerHandle
  <2>1. CASE Found(h) = {}
    BY <2>1, FS_EmptySet
  <2>2. CASE Found(h) # {}
    <3>1. PICK s : Found(h) = {s}
      BY <2>2, HandleIsUsed DEF OneSlot, Found
    <3>2. Cardinality(Found(h)) = 1
      BY <3>1, FS_Singleton
    <3> QED
      BY <3>2
  <2> QED
    BY <2>1, <2>2
<1>2. Alternates => OneSlotPerHandle
  BY <1>1 DEF Alternates, OneSlotPerHandle
<1> QED
  BY <1>2, AlternatesAlways, PTL

-----------------------------------------------------------------------------
(* What is pending covers what there is *)

\* What reading a message leaves pending at least, of a socket with handle h
\* of which p bytes were.
After(m, h, p) ==
    IF m.is = "data" /\ m.handle = h THEN (IF kind = "R4" THEN m.n ELSE p + m.n)
    ELSE IF m.is = "read" THEN p - m.n ELSE p

\* f says what will be pending, once what the line holds after place k has
\* been read, at each place.
Chain(f, k, ln, h) ==
    /\ f \in [k .. Len(ln) -> Nat]
    /\ \A i \in k + 1 .. Len(ln) : f[i] <= After(ln[i], h, f[i - 1])

\* A message more on the line: what it leaves, or less, is the next value.
LEMMA ChainGrows ==
    ASSUME NEW ln \in Seq(Message), NEW m \in Message, NEW h, NEW k \in 0 .. Len(ln),
           NEW f, Chain(f, k, ln, h), NEW v \in Nat, v <= After(m, h, f[Len(ln)])
    PROVE  \E g : Chain(g, k, Append(ln, m), h) /\ g[k] = f[k] /\ g[Len(ln) + 1] = v
<1>a. PICK l : l = Len(ln)
  OBVIOUS
<1>b. PICK more : more = Append(ln, m)
  OBVIOUS
<1>0. /\ l \in Nat /\ k \in 0 .. l
      /\ Len(more) = l + 1 /\ more[l + 1] = m /\ \A i \in 1 .. l : more[i] = ln[i]
  BY <1>a, <1>b
<1>1. f \in [k .. l -> Nat] /\ \A i \in k + 1 .. l : f[i] <= After(ln[i], h, f[i - 1])
  BY <1>a DEF Chain
<1> DEFINE g == [i \in k .. l + 1 |-> IF i = l + 1 THEN v ELSE f[i]]
<1>2. g \in [k .. l + 1 -> Nat] /\ g[k] = f[k] /\ g[l + 1] = v
  BY <1>0, <1>1
<1>3. ASSUME NEW i \in k + 1 .. l + 1 PROVE g[i] <= After(more[i], h, g[i - 1])
  <2>1. i - 1 \in k .. l /\ i - 1 # l + 1 /\ i \in k .. l + 1 /\ i - 1 \in k .. l + 1
    BY <1>0
  <2>2. g[i - 1] = f[i - 1]
    BY <2>1
  <2>3. CASE i = l + 1
    <3>1. g[i] = v /\ more[i] = m /\ i - 1 = l
      BY <1>0, <1>2, <2>3
    <3> QED
      BY <1>a, <2>2, <3>1
  <2>4. CASE i # l + 1
    <3>1. i \in k + 1 .. l /\ i \in 1 .. l
      BY <1>0, <2>4
    <3>2. g[i] = f[i] /\ more[i] = ln[i]
      BY <1>0, <2>1, <2>4, <3>1
    <3> QED
      BY <1>1, <2>2, <3>1, <3>2
  <2> QED
    BY <2>3, <2>4
<1> HIDE DEF g
<1>4. Chain(g, k, more, h)
  BY <1>0, <1>2, <1>3 DEF Chain
<1> QED
  BY <1>a, <1>b, <1>2, <1>4

\* The first message is read: the places count from one less, and nothing is
\* before the first.
LEMMA ChainShrinks ==
    ASSUME NEW ln \in Seq(Message), ln # <<>>, NEW h, NEW k \in 0 .. Len(ln), NEW j \in 0 .. Len(ln) - 1,
           k <= j + 1, NEW f, Chain(f, k, ln, h)
    PROVE  \E g : Chain(g, j, Tail(ln), h) /\ g[j] = f[j + 1] /\ g[Len(ln) - 1] = f[Len(ln)]
<1>a. PICK l : l = Len(ln)
  OBVIOUS
<1>b. PICK less : less = Tail(ln)
  OBVIOUS
<1>0. /\ l \in Nat \ {0} /\ k \in 0 .. l /\ j \in 0 .. l - 1
      /\ Len(less) = l - 1 /\ \A i \in 1 .. l - 1 : less[i] = ln[i + 1]
  BY <1>a, <1>b
<1>1. f \in [k .. l -> Nat] /\ \A i \in k + 1 .. l : f[i] <= After(ln[i], h, f[i - 1])
  BY <1>a DEF Chain
<1> DEFINE g == [i \in j .. l - 1 |-> f[i + 1]]
<1>2. g \in [j .. l - 1 -> Nat] /\ g[j] = f[j + 1] /\ g[l - 1] = f[l]
  <2>1. \A i \in j .. l - 1 : i + 1 \in k .. l
    BY <1>0
  <2> QED
    BY <1>0, <1>1, <2>1
<1>3. ASSUME NEW i \in j + 1 .. l - 1 PROVE g[i] <= After(less[i], h, g[i - 1])
  <2>1. i + 1 \in k + 1 .. l /\ i \in 1 .. l - 1 /\ i \in j .. l - 1 /\ i - 1 \in j .. l - 1
        /\ (i + 1) - 1 = i /\ (i - 1) + 1 = i
    BY <1>0
  <2>2. g[i] = f[i + 1] /\ g[i - 1] = f[i] /\ less[i] = ln[i + 1]
    BY <1>0, <2>1
  <2>3. f[i + 1] <= After(ln[i + 1], h, f[(i + 1) - 1])
    BY <1>1, <2>1
  <2> QED
    BY <2>1, <2>2, <2>3
<1> HIDE DEF g
<1>4. Chain(g, j, less, h)
  BY <1>0, <1>2, <1>3 DEF Chain
<1> QED
  BY <1>a, <1>b, <1>2, <1>4

-----------------------------------------------------------------------------
Has(h) == app.slot \in Slot /\ slots[app.slot].handle = h
Gone(k, h) == \E i \in k + 1 .. Len(line) : Says(i, "gone", h)
ReadAfter(k) == \E i \in k + 1 .. Len(line) : line[i].is = "read"

\* A socket is to be counted from place k of the line: it has been opened
\* there, or it is the application's and k is 0; and no end of it follows.
From(k, h) ==
    /\ ~Gone(k, h)
    /\ k = 0 => Has(h)
    /\ k # 0 => Says(k, "opened", h) /\ ~ReadAfter(k)

Base(k) == IF k = 0 THEN slots[app.slot].pending ELSE 0

Covered ==
    \A h \in Handle : \A k \in 0 .. Len(line) : From(k, h) =>
        \E f : /\ Chain(f, k, line, h) /\ f[k] <= Base(k)
               /\ Total(module[h].queue) <= f[Len(line)]

\* The line is as it was, or one message longer.
LEMMA GrownCovered ==
    ASSUME SocketTypes, SocketTypes', Covered, UNCHANGED <<kind, slots>>, app'.slot = app.slot,
           NEW m \in Message, line' \in {line, Append(line, m)},
           \A h \in Handle : line' = line => Total(module'[h].queue) <= Total(module[h].queue),
           \A h \in Handle, p \in Nat :
               /\ line' = Append(line, m) /\ ~(m.is = "gone" /\ m.handle = h)
               /\ m.is = "read" => Has(h)
               /\ Total(module[h].queue) <= p
               => Total(module'[h].queue) <= After(m, h, p),
           line' = Append(line, m) /\ m.is = "opened" => Total(module'[m.handle].queue) = 0
    PROVE  Covered'
<1>0. line \in Seq(Message) /\ Len(line) \in Nat
  BY DEF SocketTypes
<1>1. ASSUME NEW h \in Handle PROVE Total(module[h].queue) \in Nat /\ Total(module'[h].queue) \in Nat
  <2>1. module[h].queue \in Seq(Nat \ {0}) /\ module'[h].queue \in Seq(Nat \ {0})
    BY DEF SocketTypes, Socket
  <2> QED
    BY <2>1, TotalIsNumber
<1>2. \A h, p : After(m, h, p)' = After(m, h, p)
  BY DEF After
<1>3. \A f, k, ln, h : Chain(f, k, ln, h)' <=> Chain(f, k, ln, h)
  BY DEF Chain, After
<1>4. SUFFICES ASSUME NEW h \in Handle, NEW k \in 0 .. Len(line'), From(k, h)'
               PROVE  \E f : /\ Chain(f, k, line', h) /\ f[k] <= Base(k)'
                             /\ Total(module'[h].queue) <= f[Len(line')]
  BY <1>3 DEF Covered
<1>5. Base(k)' = Base(k) /\ Base(k) \in Nat \cup {slots[app.slot].pending} /\ Has(h)' = Has(h)
  BY DEF Base, Has
<1>6. CASE line' = line
  <2>1. k \in 0 .. Len(line) /\ From(k, h)
    BY <1>4, <1>6 DEF From, Gone, ReadAfter, Says, Has
  <2>2. PICK f : /\ Chain(f, k, line, h) /\ f[k] <= Base(k)
                 /\ Total(module[h].queue) <= f[Len(line)]
    BY <2>1 DEF Covered
  <2>3. Total(module'[h].queue) <= Total(module[h].queue)
    BY <1>6
  <2>4. f[Len(line)] \in Nat
    BY <1>0, <2>1, <2>2 DEF Chain
  <2>5. Total(module'[h].queue) <= f[Len(line)]
    BY <1>1, <2>2, <2>3, <2>4
  <2> QED
    BY <1>5, <1>6, <2>2, <2>5
<1>7. CASE line' = Append(line, m)
  <2>1. /\ Len(line') = Len(line) + 1 /\ line'[Len(line) + 1] = m
        /\ \A i \in 1 .. Len(line) : line'[i] = line[i]
    BY <1>0, <1>7
  <2>2. CASE k = Len(line) + 1
    <3>1. m.is = "opened" /\ m.handle = h
      BY <1>0, <1>4, <2>1, <2>2 DEF From, Says
    <3>2. Total(module'[h].queue) = 0
      BY <1>7, <3>1
    <3> DEFINE f == [i \in k .. k |-> 0]
    <3>3. k \in Nat /\ k # 0 /\ Len(line') = k
      BY <1>0, <2>1, <2>2
    <3>4. f[k] = 0 /\ f \in [k .. k -> Nat] /\ k + 1 .. k = {}
      BY <3>3
    <3>5. Chain(f, k, line', h)
      BY <3>3, <3>4 DEF Chain
    <3> HIDE DEF f
    <3>6. Base(k)' = 0
      BY <3>3 DEF Base
    <3>7. f[k] <= Base(k)' /\ Total(module'[h].queue) <= f[Len(line')]
      BY <3>2, <3>3, <3>4, <3>6
    <3> QED
      BY <3>5, <3>7
  <2>3. CASE k # Len(line) + 1
    <3>1. k \in 0 .. Len(line)
      BY <1>0, <2>1, <2>3
    <3>2. ~Gone(k, h) /\ ~(m.is = "gone" /\ m.handle = h)
      <4>1. \A i \in k + 1 .. Len(line) : i \in k + 1 .. Len(line') /\ i \in 1 .. Len(line)
        BY <1>0, <2>1, <3>1
      <4>2. Len(line) + 1 \in k + 1 .. Len(line')
        BY <1>0, <2>1, <3>1
      <4> QED
        BY <1>4, <2>1, <4>1, <4>2 DEF From, Gone, Says
    <3>3. k # 0 => Says(k, "opened", h) /\ ~ReadAfter(k) /\ m.is # "read"
      <4>1. \A i \in k + 1 .. Len(line) : i \in k + 1 .. Len(line') /\ i \in 1 .. Len(line)
        BY <1>0, <2>1, <3>1
      <4>2. Len(line) + 1 \in k + 1 .. Len(line')
        BY <1>0, <2>1, <3>1
      <4>3. k # 0 => k \in 1 .. Len(line)
        BY <1>0, <3>1
      <4> QED
        BY <1>4, <2>1, <4>1, <4>2, <4>3 DEF From, ReadAfter, Says
    <3>4. k = 0 => Has(h)
      BY <1>4, <1>5 DEF From
    <3>5. PICK f : /\ Chain(f, k, line, h) /\ f[k] <= Base(k)
                   /\ Total(module[h].queue) <= f[Len(line)]
      BY <3>1, <3>2, <3>3, <3>4 DEF Covered, From
    <3>6. f[Len(line)] \in Nat
      BY <1>0, <3>1, <3>5 DEF Chain
    <3>7. Total(module'[h].queue) <= After(m, h, f[Len(line)])
      BY <1>7, <3>2, <3>3, <3>4, <3>5, <3>6
    <3>8. PICK v : v = Total(module'[h].queue)
      OBVIOUS
    <3>9. v \in Nat /\ v <= After(m, h, f[Len(line)])
      BY <1>1, <3>7, <3>8
    <3>10. PICK g : Chain(g, k, Append(line, m), h) /\ g[k] = f[k] /\ g[Len(line) + 1] = v
      BY <1>0, <3>1, <3>5, <3>9, ChainGrows
    <3>11. g[k] <= Base(k)'
      BY <1>5, <3>5, <3>10
    <3>12. Total(module'[h].queue) <= g[Len(line')]
      BY <1>1, <2>1, <3>8, <3>10
    <3> QED
      BY <1>7, <3>10, <3>11, <3>12
  <2> QED
    BY <2>2, <2>3
<1> QED
  BY <1>6, <1>7

\* The first message of the line is read.  What is pending then is no less
\* than the message leaves; or the application has just got its socket.
LEMMA ShrunkCovered ==
    ASSUME SocketTypes, Covered, line # <<>>, line' = Tail(line), UNCHANGED <<kind, module>>,
           \A h \in Handle :
               Has(h)' =>
                 \/ /\ Has(h) /\ ~Says(1, "gone", h)
                    /\ \A p, q \in Nat : p <= slots[app.slot].pending /\ q <= After(Head(line), h, p)
                                         => q <= slots'[app'.slot].pending
                 \/ Says(1, "opened", h) /\ ~ReadAfter(1) /\ slots'[app'.slot].pending \in Nat
    PROVE  Covered'
<1>0. /\ line \in Seq(Message) /\ Len(line) \in Nat \ {0} /\ Head(line) = line[1]
      /\ Len(line') = Len(line) - 1 /\ \A i \in 1 .. Len(line') : line'[i] = line[i + 1]
  BY TailIsLine DEF SocketTypes
<1>3. \A f, k, ln, h : Chain(f, k, ln, h)' <=> Chain(f, k, ln, h)
  BY DEF Chain, After
<1>4. SUFFICES ASSUME NEW h \in Handle, NEW j \in 0 .. Len(line'), From(j, h)'
               PROVE  \E f : /\ Chain(f, j, line', h) /\ f[j] <= Base(j)'
                             /\ Total(module'[h].queue) <= f[Len(line')]
  BY <1>3 DEF Covered
<1>5. ~Gone(j + 1, h) /\ (~ReadAfter(j)' => ~ReadAfter(j + 1))
  <2>1. \A i \in j + 1 + 1 .. Len(line) : i - 1 \in j + 1 .. Len(line') /\ i - 1 \in 1 .. Len(line')
                                          /\ (i - 1) + 1 = i
    BY <1>0
  <2>2. \A i \in j + 1 + 1 .. Len(line) : line'[i - 1] = line[i]
    BY <1>0, <2>1
  <2>3. ~ \E i \in j + 1 .. Len(line') : line'[i].is = "gone" /\ line'[i].handle = h
    BY <1>4 DEF From, Gone, Says
  <2> QED
    BY <2>1, <2>2, <2>3 DEF Gone, ReadAfter, Says
<1>6. j \in 0 .. Len(line) - 1 /\ j + 1 \in 0 .. Len(line) /\ j + 1 # 0
  BY <1>0
<1>7. CASE j # 0
  <2>1. From(j + 1, h)
    <3>1. line'[j] = line[j + 1]
      BY <1>0, <1>7
    <3> QED
      BY <1>4, <1>5, <1>6, <1>7, <3>1 DEF From, Says
  <2>2. PICK f : /\ Chain(f, j + 1, line, h) /\ f[j + 1] <= Base(j + 1)
                 /\ Total(module[h].queue) <= f[Len(line)]
    BY <1>6, <2>1 DEF Covered
  <2>3. PICK g : Chain(g, j, line', h) /\ g[j] = f[j + 1] /\ g[Len(line) - 1] = f[Len(line)]
    <3>1. j + 1 <= j + 1 /\ j \in 0 .. Len(line) - 1 /\ j + 1 \in 0 .. Len(line)
      BY <1>0, <1>6
    <3>2. \E g : Chain(g, j, Tail(line), h) /\ g[j] = f[j + 1] /\ g[Len(line) - 1] = f[Len(line)]
      BY <1>0, <2>2, <3>1, ChainShrinks
    <3> QED
      BY <3>2
  <2>4. Base(j)' = 0 /\ Base(j + 1) = 0
    BY <1>6, <1>7 DEF Base
  <2> QED
    BY <1>0, <2>2, <2>3, <2>4
<1>8. CASE j = 0 /\ Says(1, "opened", h) /\ ~ReadAfter(1) /\ slots'[app'.slot].pending \in Nat
  <2>1. From(j + 1, h)
    <3>1. j + 1 = 1
      BY <1>8
    <3> QED
      BY <1>5, <1>6, <1>8, <3>1 DEF From
  <2>2. PICK f : /\ Chain(f, j + 1, line, h) /\ f[j + 1] <= Base(j + 1)
                 /\ Total(module[h].queue) <= f[Len(line)]
    BY <1>6, <2>1 DEF Covered
  <2>3. PICK g : Chain(g, j, line', h) /\ g[j] = f[j + 1] /\ g[Len(line) - 1] = f[Len(line)]
    <3>1. j + 1 <= j + 1 /\ j \in 0 .. Len(line) - 1 /\ j + 1 \in 0 .. Len(line)
      BY <1>0, <1>6
    <3>2. \E g : Chain(g, j, Tail(line), h) /\ g[j] = f[j + 1] /\ g[Len(line) - 1] = f[Len(line)]
      BY <1>0, <2>2, <3>1, ChainShrinks
    <3> QED
      BY <3>2
  <2>4. f[j + 1] \in Nat /\ f[j + 1] <= 0
    BY <1>0, <1>6, <2>2 DEF Chain, Base
  <2>5. Base(j)' \in Nat
    BY <1>8 DEF Base
  <2>6. g[j] <= Base(j)'
    BY <2>3, <2>4, <2>5
  <2> QED
    BY <1>0, <2>2, <2>3, <2>6
<1>9. CASE j = 0 /\ ~(Says(1, "opened", h) /\ ~ReadAfter(1) /\ slots'[app'.slot].pending \in Nat)
  <2>1. /\ Has(h) /\ ~Says(1, "gone", h)
        /\ \A p, q \in Nat : p <= slots[app.slot].pending /\ q <= After(Head(line), h, p)
                                      => q <= slots'[app'.slot].pending
    BY <1>4, <1>9 DEF From
  <2>2. From(0, h)
    <3>1. ~Gone(0, h)
      <4>1. \A i \in 0 + 1 .. Len(line) : i = 1 \/ i \in 0 + 1 + 1 .. Len(line)
        BY <1>0
      <4> QED
        BY <1>5, <1>9, <2>1, <4>1 DEF Gone
    <3> QED
      BY <2>1, <3>1 DEF From
  <2>3. PICK f : /\ Chain(f, 0, line, h) /\ f[0] <= slots[app.slot].pending
                 /\ Total(module[h].queue) <= f[Len(line)]
    BY <1>0, <2>2 DEF Covered, Base
  <2>4. PICK g : Chain(g, 0, line', h) /\ g[0] = f[1] /\ g[Len(line) - 1] = f[Len(line)]
    <3>1. 0 \in 0 .. Len(line) /\ 0 \in 0 .. Len(line) - 1 /\ 0 <= 0 + 1 /\ 0 + 1 = 1
      BY <1>0
    <3> QED
      BY <1>0, <2>3, <3>1, ChainShrinks
  <2>5. f[0] \in Nat /\ f[1] \in Nat /\ f[1] <= After(Head(line), h, f[0])
    <3>1. 0 \in 0 .. Len(line) /\ 1 \in 0 .. Len(line) /\ 1 \in 0 + 1 .. Len(line) /\ 1 - 1 = 0
      BY <1>0
    <3> QED
      BY <1>0, <2>3, <3>1 DEF Chain
  <2>6. g[0] <= Base(0)'
    BY <2>1, <2>3, <2>4, <2>5 DEF Base
  <2> QED
    BY <1>0, <1>9, <2>3, <2>4, <2>6
<1> QED
  BY <1>7, <1>8, <1>9

-----------------------------------------------------------------------------
(* The strengthened invariant *)

\* A length that no datagram exceeds, and of which what can be announced fits.
Longest == CHOOSE longest \in 0 .. Modulus - 1 :
             /\ \A n \in Size : n <= longest
             /\ longest * MaxQueued < Modulus /\ MaxPending + longest * MaxLine < Modulus
Limit == MaxPending + Longest * MaxLine

\* That length is there, and everything counted with it is a number.
LEMMA LongestFacts ==
    /\ Longest \in Nat /\ \A n \in Size : n <= Longest
    /\ Longest * MaxQueued \in Nat /\ Longest * MaxQueued < Modulus
    /\ Limit \in Nat /\ Limit < Modulus /\ Modulus \in Nat /\ Longest < Modulus
<1>1. /\ Longest \in 0 .. Modulus - 1
      /\ \A n \in Size : n <= Longest
      /\ Longest * MaxQueued < Modulus /\ MaxPending + Longest * MaxLine < Modulus
  BY WidthAssumption DEF Longest
<1>2. Longest \in Nat /\ MaxQueued \in Nat /\ MaxPending \in Nat /\ MaxLine \in Nat /\ Modulus \in Nat
  BY <1>1, WidthAssumption, SizeAssumption
<1>3. Longest * MaxQueued \in Nat /\ Longest * MaxLine \in Nat
  BY <1>2
<1> QED
  BY <1>1, <1>2, <1>3 DEF Limit

\* While the application has no socket there is nothing of one.
Alone == \A s \in Slot : slots[s].handle # UNUSED => app.slot = s
NoReads == \A i \in 1 .. Len(line) : line[i].is # "read"
Without == app.at \in {"idle", "opening", "joining"}
Quiet == Without => app.slot = NULL /\ NoReads

\* Nobody tells an N2 that a socket is gone.
OnlyR4Gone ==
    kind # "R4" => /\ app.slot \in Slot => slots[app.slot].handle # UNUSED
                   /\ \A i \in 1 .. Len(line) : line[i].is # "gone"

QueuesFit ==
    \A h \in Handle : /\ ~module[h].open => module[h].queue = <<>>
                      /\ Len(module[h].queue) <= MaxQueued
                      /\ \A i \in 1 .. Len(module[h].queue) : module[h].queue[i] <= Longest

MostAnnounced == IF kind = "R4" THEN Longest * MaxQueued ELSE Longest
LineFits == \A i \in 1 .. Len(line) : line[i].is = "data" => line[i].n <= MostAnnounced

\* g says what an N2's driver has pending of a socket at most, once the line
\* up to each place has been read.
Grows(m) == IF m.is = "data" THEN Longest ELSE 0
Climbs(g, ln) ==
    /\ g \in [0 .. Len(ln) -> 0 .. Limit]
    /\ \A i \in 1 .. Len(ln) : g[i - 1] + Grows(ln[i]) <= g[i]
Room == kind # "R4" => \E g : Climbs(g, line) /\ \A s \in Slot : slots[s].pending <= g[0]

Counted == Alone /\ Quiet /\ OnlyR4Gone /\ QueuesFit /\ LineFits /\ Room /\ Covered

\* What an announcement makes pending does not wrap.
LEMMA AnnouncedFacts ==
    ASSUME SocketTypes, LineFits, Room, line # <<>>, Head(line).is = "data", NEW s \in Slot
    PROVE  Announced(slots[s].pending, Head(line).n)
             = IF kind = "R4" THEN Head(line).n ELSE slots[s].pending + Head(line).n
<1> DEFINE n == Head(line).n
           p == slots[s].pending
<1>1. /\ line \in Seq(Message) /\ Len(line) \in Nat \ {0} /\ Head(line) = line[1] /\ 1 \in 1 .. Len(line)
      /\ Head(line) \in Message
  BY TailIsLine DEF SocketTypes
<1>2. n \in Nat /\ n <= MostAnnounced
  BY <1>1 DEF Message, LineFits
<1>3. p \in Nat /\ p < Modulus
  BY SizeAssumption DEF SocketTypes, SocketSlot
<1> HIDE DEF n, p
<1>4. CASE kind = "R4"
  <2>1. n < Modulus
    BY <1>2, <1>4, LongestFacts DEF MostAnnounced
  <2>2. n % Modulus = n
    BY <1>2, <2>1, LongestFacts
  <2> QED
    BY <1>4, <2>2 DEF Announced, n
<1>5. CASE kind # "R4"
  <2>1. PICK g : Climbs(g, line) /\ \A t \in Slot : slots[t].pending <= g[0]
    BY <1>5 DEF Room
  <2>2. g[0] \in 0 .. Limit /\ g[1] \in 0 .. Limit /\ g[0] + Longest <= g[1] /\ p <= g[0]
    <3>1. 0 \in 0 .. Len(line) /\ 1 \in 0 .. Len(line) /\ 1 - 1 = 0
      BY <1>1
    <3>2. Grows(line[1]) = Longest
      BY <1>1 DEF Grows
    <3> QED
      BY <1>1, <2>1, <3>1, <3>2 DEF Climbs, p
  <2>3. n <= Longest
    BY <1>2, <1>5 DEF MostAnnounced
  <2>4. p + n \in Nat /\ p + n < Modulus
    BY <1>2, <1>3, <2>2, <2>3, LongestFacts
  <2>5. (p + n) % Modulus = p + n
    BY <2>4, LongestFacts
  <2> QED
    BY <1>5, <2>5 DEF Announced, n, p
<1> QED
  BY <1>4, <1>5

\* The line is as it was, or one message longer, and no slot has changed.
LEMMA GrownCounted ==
    ASSUME SocketTypes, Alone, Quiet, OnlyR4Gone, LineFits, Room,
           UNCHANGED <<kind, slots>>, app'.slot = app.slot, Without' => Without,
           NEW m \in Message, line' \in {line, Append(line, m)},
           m.is = "gone" => kind = "R4", m.is = "read" => ~Without',
           m.is = "data" => m.n <= MostAnnounced /\ Len(line) < MaxLine
                            /\ \A s \in Slot : slots[s].pending <= MaxPending
    PROVE  Alone' /\ Quiet' /\ OnlyR4Gone' /\ LineFits' /\ Room'
<1>0. line \in Seq(Message) /\ Len(line) \in Nat
  BY DEF SocketTypes
<1>1. /\ Len(line') \in Nat
      /\ \A i \in 1 .. Len(line) : line'[i] = line[i]
      /\ \A i \in 1 .. Len(line') : i \in 1 .. Len(line) \/ (i = Len(line) + 1 /\ line'[i] = m)
  <2>1. CASE line' = line
    BY <1>0, <2>1
  <2>2. CASE line' = Append(line, m)
    <3>1. Len(line') = Len(line) + 1 /\ line'[Len(line) + 1] = m /\ \A i \in 1 .. Len(line) : line'[i] = line[i]
      BY <1>0, <2>2
    <3> QED
      BY <1>0, <3>1
  <2> QED
    BY <2>1, <2>2
<1>2. Alone'
  BY DEF Alone
<1>3. Quiet'
  BY <1>1 DEF Quiet, NoReads
<1>4. OnlyR4Gone'
  BY <1>1 DEF OnlyR4Gone
<1>5. LineFits'
  BY <1>1 DEF LineFits, MostAnnounced
<1>6. Room'
  <2> SUFFICES ASSUME kind # "R4"
               PROVE  \E g : Climbs(g, line') /\ \A s \in Slot : slots[s].pending <= g[0]
    BY DEF Room, Climbs, Grows
  <2>1. PICK g : Climbs(g, line) /\ \A s \in Slot : slots[s].pending <= g[0]
    BY DEF Room
  <2>2. CASE line' = line
    BY <2>1, <2>2
  <2>3. CASE line' = Append(line, m) /\ m.is # "data"
    <3>1. PICK l : l = Len(line)
      OBVIOUS
    <3>2. l \in Nat /\ Len(line') = l + 1 /\ line'[l + 1] = m
          /\ \A i \in 1 .. l : line'[i] = line[i]
      BY <1>0, <2>3, <3>1
    <3> DEFINE more == [i \in 0 .. l + 1 |-> IF i = l + 1 THEN g[l] ELSE g[i]]
    <3>3. g \in [0 .. l -> 0 .. Limit] /\ \A i \in 1 .. l : g[i - 1] + Grows(line[i]) <= g[i]
      BY <2>1, <3>1 DEF Climbs
    <3>4. more \in [0 .. l + 1 -> 0 .. Limit] /\ more[0] = g[0] /\ more[l + 1] = g[l] /\ more[l] = g[l]
      BY <3>2, <3>3
    <3>5. ASSUME NEW i \in 1 .. l + 1 PROVE more[i - 1] + Grows(line'[i]) <= more[i]
      <4>1. CASE i = l + 1
        <5>1. i - 1 = l /\ Grows(line'[i]) = 0 /\ g[l] \in 0 .. Limit
          BY <2>3, <3>2, <3>3, <4>1 DEF Grows
        <5>2. g[l] \in Nat
          BY <5>1, LongestFacts
        <5> QED
          BY <3>4, <4>1, <5>1, <5>2
      <4>2. CASE i # l + 1
        <5>1. i \in 1 .. l /\ i - 1 \in 0 .. l + 1 /\ i - 1 # l + 1 /\ i \in 0 .. l + 1
          BY <3>2, <4>2
        <5>2. more[i] = g[i] /\ more[i - 1] = g[i - 1] /\ line'[i] = line[i]
          BY <3>2, <4>2, <5>1
        <5> QED
          BY <3>3, <5>1, <5>2
      <4> QED
        BY <4>1, <4>2
    <3> HIDE DEF more
    <3>6. Climbs(more, line')
      BY <3>2, <3>4, <3>5 DEF Climbs
    <3> QED
      BY <2>1, <3>4, <3>6
  <2>4. CASE line' = Append(line, m) /\ m.is = "data"
    <3>1. PICK l : l = Len(line)
      OBVIOUS
    <3>2. l \in Nat /\ Len(line') = l + 1 /\ l < MaxLine
      BY <1>0, <2>4, <3>1
    <3> DEFINE most == [i \in 0 .. l + 1 |-> MaxPending + Longest * i]
    <3>3. MaxPending \in Nat /\ MaxLine \in Nat /\ Longest \in Nat
      BY LongestFacts, WidthAssumption
    <3>4. ASSUME NEW i \in 0 .. l + 1 PROVE MaxPending + Longest * i \in 0 .. Limit
      <4>1. i \in Nat /\ i <= MaxLine /\ MaxLine - i \in Nat
        BY <3>2, <3>3
      <4>2. Longest * MaxLine = Longest * i + Longest * (MaxLine - i)
        BY <3>3, <4>1
      <4>3. Longest * i \in Nat /\ Longest * (MaxLine - i) \in Nat
        BY <3>3, <4>1
      <4> QED
        BY <3>3, <4>2, <4>3 DEF Limit
    <3>5. most \in [0 .. l + 1 -> 0 .. Limit] /\ most[0] = MaxPending
      <4>1. Longest * 0 = 0 /\ 0 \in 0 .. l + 1
        BY <3>2, <3>3
      <4> QED
        BY <3>3, <3>4, <4>1
    <3>6. ASSUME NEW i \in 1 .. l + 1 PROVE most[i - 1] + Grows(line'[i]) <= most[i]
      <4>1. i \in Nat /\ i - 1 \in Nat /\ i - 1 \in 0 .. l + 1 /\ i \in 0 .. l + 1
        BY <3>2
      <4>2. Longest * i = Longest * (i - 1) + Longest
        BY <3>3, <4>1
      <4>3. Longest * (i - 1) \in Nat
        BY <3>3, <4>1
      <4>4. most[i] = MaxPending + Longest * i /\ most[i - 1] = MaxPending + Longest * (i - 1)
        BY <4>1
      <4>5. Grows(line'[i]) \in {0, Longest}
        BY DEF Grows
      <4> HIDE DEF most
      <4> QED
        BY <3>3, <4>2, <4>3, <4>4, <4>5
    <3>7. \A s \in Slot : slots[s].pending <= most[0]
      BY <2>4, <3>5
    <3> HIDE DEF most
    <3>8. Climbs(most, line')
      BY <3>2, <3>5, <3>6 DEF Climbs
    <3> QED
      BY <3>7, <3>8
  <2> QED
    BY <2>2, <2>3, <2>4
<1> QED
  BY <1>2, <1>3, <1>4, <1>5, <1>6

\* The first message of the line is read.
LEMMA ShrunkCounted ==
    ASSUME SocketTypes, SocketTypes', OnlyR4Gone, QueuesFit, LineFits, Room, line # <<>>, line' = Tail(line),
           UNCHANGED <<kind, module>>,
           kind # "R4" /\ app'.slot \in Slot => slots'[app'.slot].handle # UNUSED,
           kind # "R4" => \A s \in Slot : slots'[s].pending <= slots[s].pending + Grows(Head(line))
    PROVE  OnlyR4Gone' /\ QueuesFit' /\ LineFits' /\ Room' /\ (NoReads => NoReads')
<1>0. /\ line \in Seq(Message) /\ Len(line) \in Nat \ {0} /\ Head(line) = line[1]
      /\ Len(line') = Len(line) - 1 /\ \A i \in 1 .. Len(line') : line'[i] = line[i + 1]
  BY TailIsLine DEF SocketTypes
<1>1. \A i \in 1 .. Len(line') : i + 1 \in 1 .. Len(line)
  BY <1>0
<1>2. OnlyR4Gone'
  BY <1>0, <1>1 DEF OnlyR4Gone
<1>3. QueuesFit'
  BY DEF QueuesFit
<1>4. LineFits'
  BY <1>0, <1>1 DEF LineFits, MostAnnounced
<1>5. Room'
  <2> SUFFICES ASSUME kind # "R4"
               PROVE  \E g : Climbs(g, line') /\ \A s \in Slot : slots'[s].pending <= g[0]
    BY DEF Room, Climbs, Grows
  <2>1. PICK g : Climbs(g, line) /\ \A s \in Slot : slots[s].pending <= g[0]
    BY DEF Room
  <2>2. PICK l : l = Len(line)
    OBVIOUS
  <2>3. l \in Nat \ {0} /\ Len(line') = l - 1
    BY <1>0, <2>2
  <2>4. g \in [0 .. l -> 0 .. Limit] /\ \A i \in 1 .. l : g[i - 1] + Grows(line[i]) <= g[i]
    BY <2>1, <2>2 DEF Climbs
  <2> DEFINE less == [i \in 0 .. l - 1 |-> g[i + 1]]
  <2>5. less \in [0 .. l - 1 -> 0 .. Limit] /\ less[0] = g[1]
    <3>1. \A i \in 0 .. l - 1 : i + 1 \in 0 .. l
      BY <2>3
    <3> QED
      BY <2>3, <2>4, <3>1
  <2>6. ASSUME NEW i \in 1 .. l - 1 PROVE less[i - 1] + Grows(line'[i]) <= less[i]
    <3>1. i - 1 \in 0 .. l - 1 /\ i \in 0 .. l - 1 /\ (i - 1) + 1 = i /\ i + 1 \in 1 .. l /\ (i + 1) - 1 = i
          /\ i \in 1 .. Len(line')
      BY <2>3
    <3>2. less[i - 1] = g[i] /\ less[i] = g[i + 1] /\ line'[i] = line[i + 1]
      BY <1>0, <3>1
    <3>3. g[(i + 1) - 1] + Grows(line[i + 1]) <= g[i + 1]
      BY <2>4, <3>1
    <3> QED
      BY <3>1, <3>2, <3>3
  <2> HIDE DEF less
  <2>7. Climbs(less, line')
    BY <2>3, <2>5, <2>6 DEF Climbs
  <2>8. ASSUME NEW s \in Slot PROVE slots'[s].pending <= less[0]
    <3>1. slots[s].pending \in Nat /\ slots'[s].pending \in Nat
      BY SizeAssumption DEF SocketTypes, SocketSlot
    <3>2. g[0] \in Nat /\ g[1] \in Nat /\ g[0] + Grows(line[1]) <= g[1]
      <4>1. 0 \in 0 .. l /\ 1 \in 0 .. l /\ 1 \in 1 .. l /\ 1 - 1 = 0
        BY <2>3
      <4>2. g[0] \in 0 .. Limit /\ g[1] \in 0 .. Limit
        BY <2>4, <4>1
      <4> QED
        BY <2>4, <4>1, <4>2, LongestFacts
    <3>3. Grows(line[1]) \in Nat
      BY LongestFacts DEF Grows
    <3>4. slots'[s].pending <= slots[s].pending + Grows(line[1]) /\ slots[s].pending <= g[0]
      BY <1>0, <2>1
    <3> QED
      BY <2>5, <3>1, <3>2, <3>3, <3>4
  <2> QED
    BY <2>7, <2>8
<1>6. NoReads => NoReads'
  BY <1>0, <1>1 DEF NoReads
<1> QED
  BY <1>2, <1>3, <1>4, <1>5, <1>6

\* NULL is no slot.
LEMMA NoSlot == NULL \notin Slot
BY NullAssumption

-----------------------------------------------------------------------------
(* Nothing is forgotten, action by action *)

\* Neither the sockets nor the line nor the application's slot has changed.
LEMMA StayCounted ==
    ASSUME SocketTypes, Counted, UNCHANGED <<kind, slots, module, line>>, app'.slot = app.slot,
           Without' => Without
    PROVE  Counted'
<1> DEFINE m == [is |-> "sent", handle |-> 0, n |-> 0]
<1>1. m \in Message /\ m.is = "sent"
  BY SocketAssumption DEF Message, Handle
<1> HIDE DEF m
<1>2. SocketTypes'
  BY DEF SocketTypes
<1>3. \A h \in Handle : Total(module'[h].queue) <= Total(module[h].queue)
  <2> SUFFICES ASSUME NEW h \in Handle PROVE Total(module[h].queue) <= Total(module[h].queue)
    OBVIOUS
  <2>1. module[h].queue \in Seq(Nat \ {0})
    BY DEF SocketTypes, Socket
  <2>2. Total(module[h].queue) \in Nat
    BY <2>1, TotalIsNumber
  <2> QED
    BY <2>2
<1>4. Alone' /\ Quiet' /\ OnlyR4Gone' /\ LineFits' /\ Room'
  BY <1>1, GrownCounted DEF Counted
<1>5. line' # Append(line, m)
  <2>1. line \in Seq(Message)
    BY DEF SocketTypes
  <2>2. Len(Append(line, m)) = Len(line) + 1 /\ Len(line) \in Nat
    BY <1>1, <2>1
  <2> QED
    BY <2>2
<1>6. Covered'
  BY <1>1, <1>2, <1>3, <1>5, GrownCovered DEF Counted
<1>7. QueuesFit'
  BY DEF Counted, QueuesFit
<1> QED
  BY <1>4, <1>6, <1>7 DEF Counted

\* The module closes a socket by itself, and says so.
LEMMA DeactivateCounted ==
    ASSUME SocketTypes, SocketTypes', Counted, NEW h \in Handle, Deactivate(h)
    PROVE  Counted'
<1> DEFINE m == [is |-> "gone", handle |-> h, n |-> 0]
<1>1. m \in Message /\ m.is = "gone" /\ m.handle = h
  BY DEF Message
<1>2. /\ line' = Append(line, m) /\ module' = [module EXCEPT ![h] = Closed] /\ kind = "R4"
      /\ UNCHANGED <<kind, slots, app>> /\ (Without' => Without)
  BY DEF Deactivate, Without
<1> HIDE DEF m
<1>3. module'[h].queue = <<>> /\ \A g \in Handle : g # h => module'[g] = module[g]
  BY <1>2 DEF SocketTypes, Closed
<1>4. Alone' /\ Quiet' /\ OnlyR4Gone' /\ LineFits' /\ Room'
  BY <1>1, <1>2, GrownCounted DEF Counted
<1>5. ASSUME NEW g \in Handle PROVE Total(module'[g].queue) \in Nat /\ Total(module'[g].queue) <= Total(module[g].queue)
  <2>1. module[g].queue \in Seq(Nat \ {0})
    BY DEF SocketTypes, Socket
  <2>2. Total(module[g].queue) \in Nat
    BY <2>1, TotalIsNumber
  <2> QED
    BY <1>3, <2>2, TotalEmpty
<1>6. \A g \in Handle, p \in Nat : g # h /\ Total(module[g].queue) <= p => Total(module'[g].queue) <= After(m, g, p)
  <2> SUFFICES ASSUME NEW g \in Handle, NEW p \in Nat, g # h, Total(module[g].queue) <= p
               PROVE  Total(module'[g].queue) <= After(m, g, p)
    OBVIOUS
  <2>1. After(m, g, p) = p
    BY <1>1 DEF After
  <2> QED
    BY <1>3, <2>1
<1>7. Covered'
  BY <1>1, <1>2, <1>5, <1>6, GrownCovered DEF Counted
<1>8. QueuesFit'
  <2> SUFFICES ASSUME NEW g \in Handle
               PROVE  /\ ~module'[g].open => module'[g].queue = <<>>
                      /\ Len(module'[g].queue) <= MaxQueued
                      /\ \A i \in 1 .. Len(module'[g].queue) : module'[g].queue[i] <= Longest
    BY DEF QueuesFit
  <2>1. CASE g = h
    BY <1>3, <2>1, WidthAssumption
  <2>2. CASE g # h
    BY <1>3, <2>2 DEF Counted, QueuesFit
  <2> QED
    BY <2>1, <2>2
<1> QED
  BY <1>4, <1>7, <1>8 DEF Counted

\* A datagram comes in, and is announced.
LEMMA ArriveCounted ==
    ASSUME SocketTypes, SocketTypes', Counted, NEW h \in Handle, NEW n \in Size, Arrive(h, n)
    PROVE  Counted'
<1> DEFINE m == [is |-> "data", handle |-> h, n |-> IF kind = "R4" THEN Total(module'[h].queue) ELSE n]
           old == module[h].queue
           new == Append(old, n)
<1>1. m.is = "data" /\ m.handle = h /\ m.n = IF kind = "R4" THEN Total(module'[h].queue) ELSE n
  OBVIOUS
<1>2. /\ line' = Append(line, m) /\ module' = [module EXCEPT ![h].queue = new]
      /\ UNCHANGED <<kind, slots, app>> /\ (Without' => Without)
      /\ module[h].open /\ Len(old) < MaxQueued /\ Len(line) < MaxLine
      /\ \A s \in Slot : slots[s].pending <= MaxPending
  BY DEF Arrive, Without
<1>3. n \in Nat \ {0} /\ n <= Longest /\ old \in Seq(Nat \ {0}) /\ old \in Seq(Nat)
  <2>1. old \in Seq(Nat \ {0})
    BY DEF SocketTypes, Socket
  <2> QED
    BY <2>1, SizeAssumption, LongestFacts
<1>4. /\ module'[h].queue = new /\ module'[h].open = module[h].open
      /\ \A g \in Handle : g # h => module'[g] = module[g]
  BY <1>2 DEF SocketTypes, Socket
<1>5. /\ Len(new) = Len(old) + 1 /\ new[Len(old) + 1] = n /\ \A i \in 1 .. Len(old) : new[i] = old[i]
      /\ new \in Seq(Nat) /\ Len(old) \in Nat
  BY <1>3
<1>6. Total(new) = Total(old) + n /\ Total(old) \in Nat
  BY <1>3, TotalAppend, TotalIsNumber
<1> HIDE DEF m, old, new
<1>7. Len(new) <= MaxQueued /\ \A i \in 1 .. Len(new) : new[i] <= Longest
  <2>1. Len(old) + 1 <= MaxQueued
    BY <1>2, <1>5, WidthAssumption
  <2>2. \A i \in 1 .. Len(old) : old[i] <= Longest
    BY DEF Counted, QueuesFit, old
  <2>3. \A i \in 1 .. Len(new) : i \in 1 .. Len(old) \/ i = Len(old) + 1
    BY <1>5
  <2> QED
    BY <1>3, <1>5, <2>1, <2>2, <2>3
<1>8. Total(new) <= Longest * MaxQueued
  <2>1. Total(new) <= Longest * Len(new)
    BY <1>5, <1>7, LongestFacts, TotalBound
  <2>2. MaxQueued - Len(new) \in Nat /\ Len(new) \in Nat /\ Longest \in Nat /\ MaxQueued \in Nat
    BY <1>5, <1>7, LongestFacts, WidthAssumption
  <2>3. Longest * MaxQueued = Longest * Len(new) + Longest * (MaxQueued - Len(new))
    BY <2>2
  <2>4. Longest * (MaxQueued - Len(new)) \in Nat /\ Longest * Len(new) \in Nat
    BY <2>2
  <2>5. Total(new) \in Nat
    BY <1>3, <1>6
  <2> QED
    BY <2>1, <2>3, <2>4, <2>5
<1>9. m \in Message /\ m.n <= MostAnnounced
  <2>1. m.n \in Nat /\ m.n <= MostAnnounced
    BY <1>1, <1>3, <1>4, <1>6, <1>8 DEF MostAnnounced
  <2> QED
    BY <1>1, <1>2, <2>1 DEF Message, SocketTypes, m
<1>10. Alone' /\ Quiet' /\ OnlyR4Gone' /\ LineFits' /\ Room'
  BY <1>1, <1>2, <1>9, GrownCounted DEF Counted
<1>11. \A g \in Handle, p \in Nat : Total(module[g].queue) <= p => Total(module'[g].queue) <= After(m, g, p)
  <2> SUFFICES ASSUME NEW g \in Handle, NEW p \in Nat, Total(module[g].queue) <= p
               PROVE  Total(module'[g].queue) <= After(m, g, p)
    OBVIOUS
  <2>1. CASE g = h
    <3>1. After(m, g, p) = IF kind = "R4" THEN Total(new) ELSE p + n
      BY <1>1, <1>4, <2>1 DEF After
    <3>2. Total(old) <= p
      BY <2>1 DEF old
    <3> QED
      BY <1>3, <1>4, <1>6, <2>1, <3>1, <3>2
  <2>2. CASE g # h
    BY <1>1, <1>4, <2>2 DEF After
  <2> QED
    BY <2>1, <2>2
<1>12. line' # line
  <2>1. line \in Seq(Message)
    BY DEF SocketTypes
  <2>2. Len(Append(line, m)) = Len(line) + 1 /\ Len(line) \in Nat
    BY <1>9, <2>1
  <2> QED
    BY <1>2, <2>2
<1>13. Covered'
  BY <1>1, <1>2, <1>9, <1>11, <1>12, GrownCovered DEF Counted
<1>14. QueuesFit'
  <2> SUFFICES ASSUME NEW g \in Handle
               PROVE  /\ ~module'[g].open => module'[g].queue = <<>>
                      /\ Len(module'[g].queue) <= MaxQueued
                      /\ \A i \in 1 .. Len(module'[g].queue) : module'[g].queue[i] <= Longest
    BY DEF QueuesFit
  <2>1. CASE g = h
    BY <1>2, <1>4, <1>7, <2>1
  <2>2. CASE g # h
    BY <1>4, <2>2 DEF Counted, QueuesFit
  <2> QED
    BY <2>1, <2>2
<1> QED
  BY <1>10, <1>13, <1>14 DEF Counted

\* A command is sent, and its answer may be on the line.
LEMMA CommandCounted ==
    ASSUME SocketTypes, SocketTypes', Counted, QueuesFit', UNCHANGED <<kind, slots>>, app'.slot = app.slot,
           Without' => Without,
           NEW m \in Message, m.is \in {"opened", "sent", "read", "closed"}, m.is = "read" => ~Without',
           line' \in {line, Append(line, m)},
           \A h \in Handle : Total(module'[h].queue) <= Total(module[h].queue),
           m.is = "read" => \A h \in Handle : Has(h) => Total(module'[h].queue) + m.n <= Total(module[h].queue),
           m.is = "opened" => Total(module'[m.handle].queue) = 0
    PROVE  Counted'
<1>1. Alone' /\ Quiet' /\ OnlyR4Gone' /\ LineFits' /\ Room'
  BY GrownCounted DEF Counted
<1>2. \A g \in Handle, p \in Nat : (m.is = "read" => Has(g)) /\ Total(module[g].queue) <= p
                                     => Total(module'[g].queue) <= After(m, g, p)
  <2> SUFFICES ASSUME NEW g \in Handle, NEW p \in Nat, m.is = "read" => Has(g), Total(module[g].queue) <= p
               PROVE  Total(module'[g].queue) <= After(m, g, p)
    OBVIOUS
  <2>1. Total(module'[g].queue) \in Nat /\ Total(module[g].queue) \in Nat /\ m.n \in Nat
    <3>1. module[g].queue \in Seq(Nat \ {0}) /\ module'[g].queue \in Seq(Nat \ {0})
      BY DEF SocketTypes, Socket
    <3> QED
      BY <3>1, TotalIsNumber DEF Message
  <2>2. CASE m.is = "read"
    <3>1. Total(module'[g].queue) + m.n <= Total(module[g].queue)
      BY <2>2
    <3>2. After(m, g, p) = p - m.n
      BY <2>2 DEF After
    <3> QED
      BY <2>1, <3>1, <3>2
  <2>3. CASE m.is # "read"
    <3>1. After(m, g, p) = p
      BY <2>3 DEF After
    <3>2. Total(module'[g].queue) <= Total(module[g].queue)
      OBVIOUS
    <3> QED
      BY <2>1, <3>1, <3>2
  <2> QED
    BY <2>2, <2>3
<1>3. Covered'
  BY <1>2, GrownCovered DEF Counted
<1> QED
  BY <1>1, <1>3 DEF Counted

\* The queues of the sockets have numbers for totals.
LEMMA TotalsAreNumbers ==
    ASSUME SocketTypes
    PROVE  \A h \in Handle : module[h].queue \in Seq(Nat \ {0}) /\ Total(module[h].queue) \in Nat
<1>1. \A h \in Handle : module[h].queue \in Seq(Nat \ {0})
  BY DEF SocketTypes, Socket
<1> QED
  BY <1>1, TotalIsNumber

\* Neither a datagram sent ...
LEMMA SendCounted ==
    ASSUME SocketTypes, SocketTypes', app \in App, Counted, Send
    PROVE  Counted'
<1> DEFINE m == [is |-> "sent", handle |-> 0, n |-> 0]
<1>1. m \in Message /\ m.is = "sent"
  BY SocketAssumption DEF Message, Handle
<1>2. line' \in {line, Append(line, m)} /\ UNCHANGED <<kind, slots, module>>
  BY DEF Send, Command, OnlyApp
<1> HIDE DEF m
<1>3. app'.slot = app.slot /\ (Without' => Without)
  BY DEF Send, Goto, App, Without
<1>4. QueuesFit'
  BY <1>2 DEF Counted, QueuesFit
<1>5. \A h \in Handle : Total(module'[h].queue) <= Total(module[h].queue)
  BY <1>2, TotalsAreNumbers
<1> QED
  BY <1>1, <1>2, <1>3, <1>4, <1>5, CommandCounted

\* ... nor a close, which empties the module's queue, makes more to be covered.
LEMMA CloseCounted ==
    ASSUME SocketTypes, SocketTypes', app \in App, Counted, Close
    PROVE  Counted'
<1> DEFINE m == [is |-> "closed", handle |-> 0, n |-> 0]
           h == slots[app.slot].handle
<1>1. m \in Message /\ m.is = "closed"
  BY SocketAssumption DEF Message, Handle
<1>2. /\ line' \in {line, Append(line, m)} /\ UNCHANGED <<kind, slots>>
      /\ UNCHANGED module \/ module' = [module EXCEPT ![h] = Closed]
  BY DEF Close, Command, OnlyApp
<1> HIDE DEF m, h
<1>3. app'.slot = app.slot /\ (Without' => Without)
  BY DEF Close, Goto, App, Without
<1>4. \A g \in Handle : module'[g] = module[g] \/ module'[g] = Closed
  BY <1>2 DEF SocketTypes
<1>5. QueuesFit'
  BY <1>4, WidthAssumption DEF Counted, QueuesFit, Closed
<1>6. \A g \in Handle : Total(module'[g].queue) <= Total(module[g].queue)
  BY <1>4, TotalsAreNumbers, TotalEmpty DEF Closed
<1> QED
  BY <1>1, <1>2, <1>3, <1>5, <1>6, CommandCounted

\* The module opens a socket that holds nothing.
LEMMA OpenCounted ==
    ASSUME SocketTypes, SocketTypes', app \in App, Counted, Open
    PROVE  Counted'
<1> DEFINE unused == {h \in Handle : ~module[h].open}
           m == [is |-> "opened", handle |-> Min(unused), n |-> 0]
<1>1. UNCHANGED <<kind, slots>> /\ app'.slot = app.slot /\ Without'  /\ Without
  BY DEF Open, OnlyApp, Goto, App, Without
<1>2. CASE UNCHANGED <<module, line>>
  BY <1>1, <1>2, StayCounted
<1>3. CASE ~UNCHANGED <<module, line>>
  <2>1. /\ unused # {} /\ line' \in {line, Append(line, m)}
        /\ module' = [module EXCEPT ![Min(unused)].open = TRUE]
    BY <1>3 DEF Open, Command
  <2>2. Min(unused) \in unused
    <3>1. unused \in SUBSET Nat
      BY SocketAssumption DEF Handle
    <3> QED
      BY <2>1, <3>1, MinFacts
  <2>3. PICK h \in Handle : ~module[h].open /\ h = Min(unused)
    BY <2>2
  <2>4. m \in Message /\ m.is = "opened" /\ m.handle = h
    BY <2>3 DEF Message
  <2>5. module' = [module EXCEPT ![h].open = TRUE]
    BY <2>1, <2>3
  <2> HIDE DEF m, unused
  <2>6. \A g \in Handle : module'[g].queue = module[g].queue /\ (module'[g].open = module[g].open \/ g = h)
    BY <2>5 DEF SocketTypes, Socket
  <2>7. module'[h].open /\ module[h].queue = <<>>
    BY <2>3, <2>5 DEF SocketTypes, Socket, Counted, QueuesFit
  <2>8. QueuesFit'
    BY <2>6, <2>7 DEF Counted, QueuesFit
  <2>9. Total(module'[m.handle].queue) = 0
    BY <2>4, <2>6, <2>7, TotalEmpty
  <2>10. \A g \in Handle : Total(module'[g].queue) <= Total(module[g].queue)
    BY <2>6, TotalsAreNumbers
  <2> QED
    BY <1>1, <2>1, <2>4, <2>8, <2>9, <2>10, CommandCounted
<1> QED
  BY <1>2, <1>3

\* What is given of the first datagram is what remains pending no longer.
LEMMA TurnCounted ==
    ASSUME SocketTypes, SocketTypes', app \in App, AppFits, Counted, Turn
    PROVE  Counted'
<1> DEFINE h == slots[app.slot].handle
           queue == IF h = UNUSED THEN <<>> ELSE module[h].queue
           given == IF queue = <<>> THEN 0 ELSE Min({Asked, Head(queue)})
           rest == IF queue = <<>> THEN <<>>
                   ELSE IF given = Head(queue) THEN Tail(queue)
                   ELSE <<Head(queue) - given>> \o Tail(queue)
           m == [is |-> "read", handle |-> 0, n |-> given]
<1>1. UNCHANGED <<kind, slots>> /\ app'.slot = app.slot /\ ~Without' /\ ~Without /\ app.slot \in Slot
  BY DEF Turn, OnlyApp, App, AppFits, Without
<1>2. CASE UNCHANGED <<module, line>>
  BY <1>1, <1>2, StayCounted
<1>3. CASE ~UNCHANGED <<module, line>>
  <2>1. /\ line' \in {line, Append(line, m)}
        /\ module' = [module EXCEPT ![h].queue = rest]
    BY <1>3 DEF Turn, Command
  <2>2. h \in Handle \cup {UNUSED}
    BY <1>1 DEF SocketTypes, SocketSlot
  <2>3. h = UNUSED => h \notin Handle
    BY HandleIsUsed
  <2>4. queue \in Seq(Nat \ {0}) /\ (h \in Handle => queue = module[h].queue)
    <3>1. CASE h \in Handle
      BY <2>3, <3>1, TotalsAreNumbers
    <3>2. CASE h \notin Handle
      BY <2>2, <3>2
    <3> QED
      BY <3>1, <3>2
  <2> HIDE DEF h, queue
  <2>5. /\ given \in Nat /\ rest \in Seq(Nat \ {0}) /\ Len(rest) <= Len(queue)
        /\ Total(queue) = Total(rest) + given
        /\ queue = <<>> => rest = <<>>
        /\ \A i \in 1 .. Len(rest) : \E j \in 1 .. Len(queue) : rest[i] <= queue[j]
    <3>1. CASE queue = <<>>
      BY <3>1, TotalEmpty
    <3>2. CASE queue # <<>>
      <4>1. Head(queue) \in Nat \ {0} /\ {Asked, Head(queue)} \in SUBSET Nat /\ Asked \in Nat \ {0}
        BY <2>4, <3>2, SizeAssumption
      <4>2. given \in {Asked, Head(queue)} /\ given <= Head(queue)
        BY <3>2, <4>1, MinFacts
      <4>3. given \in 1 .. Head(queue)
        BY <4>1, <4>2
      <4>4. rest = IF given = Head(queue) THEN Tail(queue) ELSE <<Head(queue) - given>> \o Tail(queue)
        BY <3>2
      <4> HIDE DEF given, rest
      <4>5. /\ rest \in Seq(Nat \ {0}) /\ Len(rest) <= Len(queue) /\ Total(queue) = Total(rest) + given
            /\ \A i \in 1 .. Len(rest) : \E j \in 1 .. Len(queue) : rest[i] <= queue[j]
        BY <2>4, <3>2, <4>3, <4>4, TotalGiven
      <4> QED
        BY <3>2, <4>1, <4>3, <4>5
    <3> QED
      BY <3>1, <3>2
  <2>6. m \in Message /\ m.is = "read" /\ m.n = given
    BY <2>5, SocketAssumption DEF Message, Handle
  <2>7. h \in Handle => \A i \in 1 .. Len(rest) : rest[i] <= Longest
    <3> SUFFICES ASSUME h \in Handle, NEW i \in 1 .. Len(rest) PROVE rest[i] <= Longest
      OBVIOUS
    <3>1. PICK j \in 1 .. Len(queue) : rest[i] <= queue[j]
      BY <2>5
    <3>2. queue[j] <= Longest
      BY <2>4, <3>1 DEF Counted, QueuesFit
    <3>3. queue[j] \in Nat /\ rest[i] \in Nat
      <4>1. \A list \in Seq(Nat \ {0}) : \A k \in 1 .. Len(list) : list[k] \in Nat
        OBVIOUS
      <4> QED
        BY <2>4, <2>5, <4>1
    <3> QED
      BY <3>1, <3>2, <3>3, LongestFacts
  <2> HIDE DEF m, given, rest
  <2>8. \A g \in Handle : /\ module'[g].open = module[g].open
                          /\ g # h => module'[g].queue = module[g].queue
                          /\ g = h => module'[g].queue = rest /\ module[g].queue = queue
    BY <2>1, <2>4 DEF SocketTypes, Socket
  <2>9. Total(rest) \in Nat
    BY <2>5, TotalIsNumber
  <2>10. \A g \in Handle : /\ Total(module'[g].queue) <= Total(module[g].queue)
                           /\ Has(g) => Total(module'[g].queue) + m.n <= Total(module[g].queue)
    <3> SUFFICES ASSUME NEW g \in Handle
                 PROVE  /\ Total(module'[g].queue) <= Total(module[g].queue)
                        /\ Has(g) => Total(module'[g].queue) + m.n <= Total(module[g].queue)
      OBVIOUS
    <3>1. CASE g = h
      BY <2>5, <2>6, <2>8, <2>9, <3>1
    <3>2. CASE g # h
      BY <2>8, <3>2, TotalsAreNumbers DEF Has, h
    <3> QED
      BY <3>1, <3>2
  <2>11. QueuesFit'
    <3> SUFFICES ASSUME NEW g \in Handle
                 PROVE  /\ ~module'[g].open => module'[g].queue = <<>>
                        /\ Len(module'[g].queue) <= MaxQueued
                        /\ \A i \in 1 .. Len(module'[g].queue) : module'[g].queue[i] <= Longest
      BY DEF QueuesFit
    <3>1. CASE g = h
      <4>1. Len(queue) <= MaxQueued /\ (~module[g].open => queue = <<>>)
        BY <2>8, <3>1 DEF Counted, QueuesFit
      <4>2. Len(rest) \in Nat /\ Len(queue) \in Nat
        BY <2>4, <2>5
      <4> QED
        BY <2>5, <2>7, <2>8, <3>1, <4>1, <4>2, WidthAssumption
    <3>2. CASE g # h
      BY <2>8, <3>2 DEF Counted, QueuesFit
    <3> QED
      BY <3>1, <3>2
  <2> QED
    BY <1>1, <2>1, <2>6, <2>10, <2>11, CommandCounted
<1> QED
  BY <1>2, <1>3

\* The first message of the line is read, which changes nothing but what is
\* pending of the application's socket, and that by no more than the message
\* says.
LEMMA ReadCounted ==
    ASSUME SocketTypes, SocketTypes', Counted, line # <<>>, line' = Tail(line), UNCHANGED <<kind, module>>,
           app'.slot = app.slot, Without' => Without,
           \A s \in Slot : slots'[s].handle = slots[s].handle,
           Head(line).is # "gone",
           \A s \in Slot : /\ kind # "R4" => slots'[s].pending <= slots[s].pending + Grows(Head(line))
                           /\ \A h \in Handle : app.slot = s /\ slots[s].handle = h =>
                                \A p, q \in Nat : p <= slots[s].pending /\ q <= After(Head(line), h, p)
                                                  => q <= slots'[s].pending
    PROVE  Counted'
<1>0. /\ line \in Seq(Message) /\ Len(line) \in Nat \ {0} /\ Head(line) = line[1] /\ 1 \in 1 .. Len(line)
  BY TailIsLine DEF SocketTypes
<1>1. OnlyR4Gone' /\ QueuesFit' /\ LineFits' /\ Room' /\ (NoReads => NoReads')
  BY ShrunkCounted DEF Counted, OnlyR4Gone
<1>2. Alone'
  BY DEF Counted, Alone
<1>3. Quiet'
  BY <1>1 DEF Counted, Quiet
<1>4. \A h \in Handle : Has(h)' =>
        /\ Has(h) /\ ~Says(1, "gone", h)
        /\ \A p, q \in Nat : p <= slots[app.slot].pending /\ q <= After(Head(line), h, p)
                             => q <= slots'[app'.slot].pending
  BY <1>0 DEF Has, Says
<1>5. Covered'
  BY <1>4, ShrunkCovered DEF Counted
<1> QED
  BY <1>1, <1>2, <1>3, <1>5 DEF Counted

\* An answer is read that says nothing of what is pending.
LEMMA AnswerCounted ==
    ASSUME SocketTypes, SocketTypes', Counted, UNCHANGED <<kind, module, slots>>,
           app'.slot = app.slot, Without' => Without,
           line # <<>>, ~IsUrc(Head(line)), line' = Tail(line)
    PROVE  Counted'
<1>1. Head(line).is \notin {"data", "gone"} /\ Head(line) \in Message /\ Head(line).n \in Nat
  <2>1. Head(line) \in Message
    BY TailIsLine DEF SocketTypes
  <2> QED
    BY <2>1 DEF IsUrc, Message
<1>2. ASSUME NEW s \in Slot PROVE slots[s].pending \in Nat
  BY SizeAssumption DEF SocketTypes, SocketSlot
<1>3. Grows(Head(line)) = 0
  BY <1>1 DEF Grows
<1>4. ASSUME NEW s \in Slot, NEW h \in Handle, NEW p \in Nat, NEW q \in Nat,
             p <= slots[s].pending, q <= After(Head(line), h, p)
      PROVE  q <= slots[s].pending
  <2>1. q <= p
    BY <1>1, <1>4 DEF After
  <2> QED
    BY <1>2, <1>4, <2>1
<1> QED
  BY <1>1, <1>2, <1>3, <1>4, ReadCounted

\* A result code is handled: data announced of the application's socket, or
\* its end.
LEMMA UrcCounted ==
    ASSUME SocketTypes, SocketTypes', Counted, HandleUrc, UNCHANGED <<kind, module, app>>
    PROVE  Counted'
<1> DEFINE m == Head(line)
           h == m.handle
           s == FindSocket(h)
<1>0. /\ line \in Seq(Message) /\ Len(line) \in Nat \ {0} /\ m = line[1] /\ 1 \in 1 .. Len(line)
      /\ m \in Message /\ line # <<>> /\ line' = Tail(line) /\ slots' = SlotsAfter(m)
  BY TailIsLine DEF SocketTypes, HandleUrc, Waiting
<1>1. m.is \in {"data", "gone"} /\ m.n \in Nat /\ h \in Handle /\ h # UNUSED
  BY <1>0, HandleIsUsed DEF HandleUrc, IsUrc, Message
<1>2. app'.slot = app.slot /\ (Without' => Without)
  BY DEF Without
<1>3. \A t \in Slot : slots[t].pending \in Nat /\ slots'[t].pending \in Nat
  BY SizeAssumption DEF SocketTypes, SocketSlot
<1>4. Grows(m) \in Nat /\ (m.is = "data" => Grows(m) = Longest)
  BY LongestFacts DEF Grows
<1>5. CASE Found(h) # {}
  <2>1. s \in Slot /\ slots[s].handle = h /\ app.slot = s
    BY <1>1, <1>5, FindSocketFinds DEF Counted, Alone
  <2>2. CASE m.is = "data"
    <3> DEFINE p == slots[s].pending
               left == IF kind = "R4" THEN m.n ELSE p + m.n
    <3>1. slots' = [slots EXCEPT ![s].pending = Announced(p, m.n)]
      BY <1>0, <1>5, <2>2 DEF SlotsAfter
    <3>2. Announced(p, m.n) = left
      BY <1>0, <2>1, <2>2, AnnouncedFacts DEF Counted
    <3>3. slots'[s].pending = left /\ slots'[s].handle = h /\ \A t \in Slot : t # s => slots'[t] = slots[t]
      BY <2>1, <3>1, <3>2 DEF SocketTypes, SocketSlot
    <3>4. kind # "R4" => m.n <= Longest
      BY <1>0, <2>2 DEF Counted, LineFits, MostAnnounced
    <3>5. p \in Nat
      BY <1>3, <2>1
    <3>6. kind # "R4" => left <= p + Grows(m)
      BY <1>1, <1>4, <2>2, <3>4, <3>5, LongestFacts
    <3>7. \A x, q \in Nat : x <= p /\ q <= After(m, h, x) => q <= left
      BY <1>1, <2>2, <3>5 DEF After
    <3> HIDE DEF m, h, s, p, left
    <3>8. \A t \in Slot : kind # "R4" => slots'[t].pending <= slots[t].pending + Grows(m)
      BY <1>3, <1>4, <3>3, <3>6 DEF p
    <3>9. \A t \in Slot : \A g \in Handle : app.slot = t /\ slots[t].handle = g =>
            \A x, q \in Nat : x <= slots[t].pending /\ q <= After(m, g, x) => q <= slots'[t].pending
      BY <2>1, <3>3, <3>7 DEF p
    <3>10. \A t \in Slot : slots'[t].handle = slots[t].handle
      BY <2>1, <3>3
    <3>11. m = Head(line)
      BY DEF m
    <3>12. m.is # "gone"
      BY <2>2
    <3> QED
      BY <1>0, <1>2, <3>8, <3>9, <3>10, <3>11, <3>12, ReadCounted
  <2>3. CASE m.is = "gone"
    <3>1. slots' = [slots EXCEPT ![s] = Free]
      BY <1>0, <1>5, <2>3 DEF SlotsAfter
    <3>2. slots'[s].handle = UNUSED /\ \A t \in Slot : t # s => slots'[t] = slots[t]
      BY <2>1, <3>1 DEF SocketTypes, Free
    <3>3. kind = "R4"
      BY <1>0, <2>3 DEF Counted, OnlyR4Gone
    <3> HIDE DEF m, h, s
    <3>4. Alone'
      BY <2>1, <3>2 DEF Counted, Alone
    <3>5. OnlyR4Gone' /\ QueuesFit' /\ LineFits' /\ Room' /\ (NoReads => NoReads')
      BY <1>0, <3>3, ShrunkCounted DEF Counted
    <3>6. Quiet'
      BY <3>5 DEF Counted, Quiet, Without
    <3>7. \A g \in Handle : ~ Has(g)'
      BY <2>1, <3>2, HandleIsUsed DEF Has
    <3>8. Covered'
      BY <1>0, <3>7, ShrunkCovered DEF Counted
    <3> QED
      BY <3>4, <3>5, <3>6, <3>8 DEF Counted
  <2> QED
    BY <1>1, <2>2, <2>3
<1>6. CASE Found(h) = {}
  <2>1. slots' = slots
    BY <1>0, <1>6 DEF SlotsAfter
  <2>2. \A t \in Slot : slots[t].handle # h
    BY <1>6 DEF Found
  <2>3. OnlyR4Gone' /\ QueuesFit' /\ LineFits' /\ Room' /\ (NoReads => NoReads')
    <3>1. \A t \in Slot : slots'[t].pending <= slots[t].pending + Grows(m)
      BY <1>3, <1>4, <2>1
    <3> QED
      BY <1>0, <2>1, <3>1, ShrunkCounted DEF Counted, OnlyR4Gone
  <2>4. Alone' /\ Quiet'
    BY <2>1, <2>3 DEF Counted, Alone, Quiet, Without
  <2>5. \A g \in Handle : Has(g)' =>
          /\ Has(g) /\ ~Says(1, "gone", g)
          /\ \A p, q \in Nat : p <= slots[app.slot].pending /\ q <= After(m, g, p)
                               => q <= slots'[app'.slot].pending
    <3> SUFFICES ASSUME NEW g \in Handle, Has(g)
                 PROVE  /\ ~Says(1, "gone", g)
                        /\ \A p, q \in Nat : p <= slots[app.slot].pending /\ q <= After(m, g, p)
                                             => q <= slots[app.slot].pending
      BY <2>1 DEF Has
    <3>1. g # h
      BY <2>2 DEF Has
    <3>2. \A p : After(m, g, p) = p
      BY <1>1, <3>1 DEF After
    <3>3. slots[app.slot].pending \in Nat
      BY <1>3 DEF Has
    <3>4. ~Says(1, "gone", g)
      BY <1>0, <3>1 DEF Says
    <3> QED
      BY <3>2, <3>3, <3>4
  <2> HIDE DEF m
  <2>6. m = Head(line)
    BY DEF m
  <2>7. Covered'
    BY <1>0, <2>5, <2>6, ShrunkCovered DEF Counted
  <2> QED
    BY <2>3, <2>4, <2>7 DEF Counted
<1> QED
  BY <1>5, <1>6

\* The application gets its socket, of which the driver knows nothing yet.
LEMMA OpenedCounted ==
    ASSUME SocketTypes, SocketTypes', app \in App, AppFits, Counted, Opened
    PROVE  Counted'
<1> DEFINE t == FindSocket(UNUSED)
           h == Head(line).handle
<1>0. /\ line \in Seq(Message) /\ Len(line) \in Nat \ {0} /\ Head(line) = line[1] /\ 1 \in 1 .. Len(line)
      /\ Head(line) \in Message /\ line # <<>> /\ line' = Tail(line)
  BY TailIsLine DEF SocketTypes, Opened, Waiting
<1>1. UNCHANGED <<kind, module>> /\ app'.slot = t /\ t \in Slot /\ ~Without' /\ Without
  BY FindSocketFinds DEF Opened, OnlyApp, App, AppFits, Without
<1>2. h \in Handle /\ h # UNUSED /\ Says(1, "opened", h)
  BY <1>0, HandleIsUsed DEF Message, Says, Opened
<1>3. PICK new : slots' = [slots EXCEPT ![t] = new] /\ new.handle = h /\ new.pending = 0
  <2> DEFINE new == [Free EXCEPT !.handle = h]
  <2>1. slots' = [slots EXCEPT ![t] = new]
    BY DEF Opened
  <2>2. new.handle = h /\ new.pending = 0
    BY DEF Free
  <2> HIDE DEF t, new
  <2> QED
    BY <2>1, <2>2
<1>4. /\ slots'[t].handle = h /\ slots'[t].pending = 0 /\ \A s \in Slot : s # t => slots'[s] = slots[s]
  BY <1>1, <1>3 DEF SocketTypes
<1> HIDE DEF t, h
<1>5. NoReads /\ \A s \in Slot : slots[s].handle = UNUSED
  BY <1>1, NoSlot DEF Counted, Quiet, Alone
<1>6. Alone'
  BY <1>1, <1>4, <1>5 DEF Alone
<1>7. Quiet'
  BY <1>1 DEF Quiet
<1>8. OnlyR4Gone' /\ QueuesFit' /\ LineFits' /\ Room'
  <2>1. \A s \in Slot : slots'[s].pending <= slots[s].pending + Grows(Head(line))
    <3>1. \A s \in Slot : slots[s].pending \in Nat
      BY SizeAssumption DEF SocketTypes, SocketSlot
    <3>2. Grows(Head(line)) \in Nat
      BY LongestFacts DEF Grows
    <3> QED
      BY <1>4, <3>1, <3>2
  <2>2. app'.slot \in Slot => slots'[app'.slot].handle # UNUSED
    BY <1>1, <1>2, <1>4
  <2> QED
    BY <1>0, <1>1, <2>1, <2>2, ShrunkCounted DEF Counted
<1>9. ~ReadAfter(1)
  BY <1>0, <1>5 DEF ReadAfter, NoReads
<1>10. \A g \in Handle : Has(g)' => Says(1, "opened", g) /\ ~ReadAfter(1) /\ slots'[app'.slot].pending \in Nat
  BY <1>1, <1>2, <1>4, <1>9 DEF Has
<1>11. Covered'
  BY <1>0, <1>1, <1>10, ShrunkCovered DEF Counted
<1> QED
  BY <1>6, <1>7, <1>8, <1>11 DEF Counted

\* The close is answered: the application has no socket, and no read is on
\* its way.
LEMMA CloseDoneCounted ==
    ASSUME SocketTypes, SocketTypes', AppFits, ClosedIsLast, Counted, CloseDone, "close" \notin wrong'
    PROVE  Counted'
<1>0. /\ line \in Seq(Message) /\ Len(line) \in Nat \ {0} /\ Head(line) = line[1] /\ 1 \in 1 .. Len(line)
      /\ line # <<>> /\ line' = Tail(line) /\ line[1].is = "closed"
      /\ Len(line') = Len(line) - 1 /\ \A i \in 1 .. Len(line') : line'[i] = line[i + 1]
  BY TailIsLine DEF SocketTypes, CloseDone, Waiting
<1>1. UNCHANGED <<kind, module>> /\ app'.slot = NULL /\ app.slot \in Slot
  BY DEF CloseDone, OnlyApp, AppFits, Idle
<1>2. slots' = [slots EXCEPT ![app.slot] = Free]
  BY DEF CloseDone
<1>3. /\ slots'[app.slot].handle = UNUSED /\ slots'[app.slot].pending = 0
      /\ \A s \in Slot : s # app.slot => slots'[s] = slots[s]
  BY <1>1, <1>2 DEF SocketTypes, Free
<1>4. Alone'
  BY <1>3 DEF Counted, Alone
<1>5. NoReads'
  <2> SUFFICES ASSUME NEW i \in 1 .. Len(line') PROVE line'[i].is # "read"
    BY DEF NoReads
  <2>1. i + 1 \in 1 + 1 .. Len(line) /\ line'[i] = line[i + 1]
    BY <1>0
  <2> QED
    BY <1>0, <2>1 DEF ClosedIsLast, IsUrc
<1>6. Quiet'
  BY <1>1, <1>5 DEF Quiet
<1>7. OnlyR4Gone' /\ QueuesFit' /\ LineFits' /\ Room'
  <2>1. \A s \in Slot : slots'[s].pending <= slots[s].pending + Grows(Head(line))
    <3>1. \A s \in Slot : slots[s].pending \in Nat
      BY SizeAssumption DEF SocketTypes, SocketSlot
    <3>2. Grows(Head(line)) \in Nat
      BY LongestFacts DEF Grows
    <3> QED
      BY <1>3, <3>1, <3>2
  <2> QED
    BY <1>0, <1>1, <2>1, NoSlot, ShrunkCounted DEF Counted
<1>8. \A h \in Handle : ~ Has(h)'
  BY <1>1, NoSlot DEF Has
<1>9. Covered'
  BY <1>0, <1>1, <1>8, ShrunkCovered DEF Counted
<1> QED
  BY <1>4, <1>6, <1>7, <1>9 DEF Counted

\* A lesser number taken from one that fits the width does not wrap.
LEMMA LessWithinWidth ==
    ASSUME NEW x \in Nat, NEW y \in Nat, x <= y, y < Modulus
    PROVE  (y - x) % Modulus = y - x /\ y - x \in Nat /\ y - x <= y
<1>1. Modulus \in Nat \ {0} /\ y - x \in Nat /\ y - x < Modulus /\ y - x <= y
  BY SizeAssumption
<1> QED
  BY <1>1

\* An answer to a read comes and what is pending is reduced by it: the
\* module gives no more than it has announced, so nothing wraps.
LEMMA ReducedCounted ==
    ASSUME SocketTypes, SocketTypes', app.slot \in Slot, Counted, line # <<>>, line' = Tail(line),
           UNCHANGED <<kind, module>>, app'.slot = app.slot, ~Without', Head(line).is = "read",
           slots' = [slots EXCEPT ![app.slot].pending = PendingLeft(Head(line).n)]
    PROVE  Counted'
<1> DEFINE s == app.slot
           m == Head(line)
           p == slots[s].pending
           left == PendingLeft(m.n)
<1>0. /\ line \in Seq(Message) /\ Len(line) \in Nat \ {0} /\ m = line[1] /\ 1 \in 1 .. Len(line)
      /\ m \in Message /\ m.n \in Nat /\ s \in Slot /\ p \in Nat /\ p < Modulus
  <2>1. \A t \in Slot : slots[t].pending \in Nat /\ slots[t].pending < Modulus
    BY SizeAssumption DEF SocketTypes, SocketSlot
  <2>2. Head(line) \in Message
    BY TailIsLine DEF SocketTypes
  <2> QED
    BY <2>1, <2>2, TailIsLine DEF SocketTypes, Message
<1>1. /\ slots'[s].pending = left /\ slots'[s].handle = slots[s].handle
      /\ \A t \in Slot : t # s => slots'[t] = slots[t]
  BY <1>0 DEF SocketTypes, SocketSlot
<1>2. ASSUME kind # "R4" PROVE m.n <= p
  <2>1. PICK h \in Handle : slots[s].handle = h
    BY <1>0, <1>2 DEF Counted, OnlyR4Gone, SocketTypes, SocketSlot
  <2>2. From(0, h)
    <3>1. \A i \in 0 + 1 .. Len(line) : i \in 1 .. Len(line)
      OBVIOUS
    <3>2. ~Gone(0, h)
      BY <1>2, <3>1 DEF Counted, OnlyR4Gone, Gone, Says
    <3> QED
      BY <1>0, <2>1, <3>2 DEF From, Has
  <2>3. 0 \in 0 .. Len(line) /\ 1 \in 0 .. Len(line) /\ 1 \in 0 + 1 .. Len(line) /\ 1 - 1 = 0
    BY <1>0
  <2>4. PICK f : Chain(f, 0, line, h) /\ f[0] <= p
    BY <2>2, <2>3 DEF Counted, Covered, Base
  <2>5. f[0] \in Nat /\ f[1] \in Nat /\ f[1] <= After(m, h, f[0])
    BY <1>0, <2>3, <2>4 DEF Chain
  <2>6. After(m, h, f[0]) = f[0] - m.n
    BY DEF After
  <2> QED
    BY <1>0, <2>4, <2>5, <2>6
<1>3. left <= p /\ left \in Nat /\ (m.n <= p => left = p - m.n)
  <2>1. CASE kind = "R4"
    BY <1>0, <2>1 DEF PendingLeft, PendingLeftR4, Pending
  <2>2. CASE kind # "R4"
    <3>1. left = (p - m.n) % Modulus
      BY <2>2 DEF PendingLeft, PendingLeftN2, Pending
    <3> QED
      BY <1>0, <1>2, <2>2, <3>1, LessWithinWidth
  <2> QED
    BY <2>1, <2>2
<1>4. \A h \in Handle, x, q \in Nat : x <= p /\ q <= After(m, h, x) => q <= left
  BY <1>0, <1>3 DEF After
<1>5. Grows(m) = 0
  BY DEF Grows
<1>6. \A t \in Slot : slots[t].pending \in Nat
  BY SizeAssumption DEF SocketTypes, SocketSlot
<1> HIDE DEF m, left
<1>7. \A t \in Slot : slots'[t].pending <= slots[t].pending + Grows(m)
  BY <1>1, <1>3, <1>5, <1>6
<1>8. \A t \in Slot : \A h \in Handle : app.slot = t /\ slots[t].handle = h =>
        \A x, q \in Nat : x <= slots[t].pending /\ q <= After(m, h, x) => q <= slots'[t].pending
  BY <1>1, <1>4
<1>9. m = Head(line) /\ m.is = "read"
  BY DEF m
<1>10. \A t \in Slot : slots'[t].handle = slots[t].handle
  BY <1>1
<1> QED
  BY <1>7, <1>8, <1>9, <1>10, ReadCounted

\* The reads' ends, so long as an N2's read returns no more than it was
\* given.
LEMMA ReadsCounted ==
    ASSUME SocketTypes, SocketTypes', app \in App, AppFits, Counted, wrong = {}, wrong' = {},
           ReadR4 \/ ReadN2 \/ NotRead
    PROVE  Counted'
<1>1. UNCHANGED <<kind, module>> /\ app'.slot = app.slot /\ app.slot \in Slot /\ ~Without' /\ ~Without
  BY DEF ReadR4, ReadN2, NotRead, OnlyApp, EndTurn, App, AppFits, Without, Idle
<1>2. CASE UNCHANGED <<slots, line>>
  BY <1>1, <1>2, StayCounted
<1>3. CASE /\ line # <<>> /\ line' = Tail(line) /\ Head(line).is = "read"
           /\ slots' = [slots EXCEPT ![app.slot].pending = PendingLeft(Head(line).n)]
  BY <1>1, <1>3, ReducedCounted
<1>4. CASE /\ line # <<>> /\ line' = Tail(line) /\ Head(line).is = "read" /\ UNCHANGED slots
  BY <1>1, <1>4, AnswerCounted DEF IsUrc
<1>5. ReadR4 \/ NotRead =>
        \/ UNCHANGED <<slots, line>>
        \/ /\ line # <<>> /\ line' = Tail(line) /\ Head(line).is = "read"
           /\ slots' = [slots EXCEPT ![app.slot].pending = PendingLeft(Head(line).n)]
  BY DEF ReadR4, NotRead, Waiting
<1>6. ReadN2 =>
        /\ line # <<>> /\ line' = Tail(line) /\ Head(line).is = "read"
        /\ \/ UNCHANGED slots
           \/ slots' = [slots EXCEPT ![app.slot].pending = PendingLeft(Head(line).n)]
  <2> SUFFICES ASSUME ReadN2
               PROVE  /\ line # <<>> /\ line' = Tail(line) /\ Head(line).is = "read"
                      /\ \/ UNCHANGED slots
                         \/ slots' = [slots EXCEPT ![app.slot].pending = PendingLeft(Head(line).n)]
    OBVIOUS
  <2>1. line # <<>> /\ line' = Tail(line) /\ Head(line).is = "read"
    BY DEF ReadN2, Waiting
  <2>2. PICK size \in IF Head(line).n = 0 THEN {-1} \cup 0 .. Modulus - 1 ELSE {Head(line).n} :
          /\ wrong' = wrong \cup IF size > Head(line).n THEN {"size"} ELSE {}
          /\ slots' = IF size < 0 THEN slots
                      ELSE [slots EXCEPT ![app.slot].pending = PendingLeft(size)]
    BY DEF ReadN2
  <2>3. ~(size > Head(line).n)
    BY <2>2
  <2>4. size < 0 \/ size = Head(line).n
    BY <2>2, <2>3, SizeAssumption
  <2> QED
    BY <2>1, <2>2, <2>4
<1> QED
  BY <1>2, <1>3, <1>4, <1>5, <1>6

\* So long as nothing has gone wrong, what is announced covers what there is.
Remembered == wrong = {} => Counted

\* Every step keeps what there is covered, so long as nothing goes wrong ...
LEMMA RememberedKept ==
    ASSUME TypeOK, TypeOK', AppFits, Alternates, Remembered, [Next]_vars
    PROVE  Remembered'
<1>0. SocketTypes /\ SocketTypes' /\ app \in App /\ line \in Seq(Message)
  BY TypeParts, TypePartsNext DEF ThreadTypes, SocketTypes
<1>1. CASE Joined
  <2>1. /\ \A s \in Slot : slots'[s] = Free
        /\ \A h \in Handle : module'[h] = Closed
        /\ line' = <<>> /\ app' = Idle
    BY <1>1 DEF Joined
  <2>2. (Alone /\ Quiet /\ OnlyR4Gone /\ QueuesFit /\ LineFits)'
    BY <2>1, NoSlot, WidthAssumption DEF Alone, Quiet, NoReads, OnlyR4Gone, QueuesFit, LineFits, Free, Closed, Idle
  <2>3. Room'
    <3> DEFINE g == [i \in 0 .. 0 |-> 0]
    <3>1. g[0] = 0 /\ g \in [0 .. 0 -> 0 .. Limit] /\ Len(line') = 0
      BY <2>1, LongestFacts
    <3>2. Climbs(g, line')
      BY <3>1 DEF Climbs
    <3>3. Climbs(g, line)' <=> Climbs(g, line')
      BY DEF Climbs, Grows
    <3>4. \A s \in Slot : slots'[s].pending <= g[0]
      BY <2>1, <3>1 DEF Free
    <3> HIDE DEF g
    <3> QED
      BY <3>2, <3>3, <3>4 DEF Room, Climbs, Grows
  <2>4. Covered'
    <3>1. \A h \in Handle : ~ Has(h)'
      BY <2>1, NoSlot DEF Has, Idle
    <3>2. Len(line') = 0
      BY <2>1
    <3> QED
      BY <3>1, <3>2 DEF Covered, From
  <2> QED
    BY <2>2, <2>3, <2>4 DEF Remembered, Counted
<1>2. SUFFICES ASSUME wrong' = {}, ~ Joined PROVE Counted'
  BY <1>1 DEF Remembered
<1>3. wrong = {}
  BY <1>2 DEF Next, AppStep, EventStep, vars, Deactivate, Arrive, Open, Send, Receive, Close, Delete,
     Turn, OutOfMemory, Heed, Listened, Opened, NotOpened, Sent, Expire, ReadR4, ReadN2, NotRead, Return,
     CloseDone, NotClosed, EventLock, Poll, EventEnd, EventRead, EventUnlock, OnlyEvent
<1>4. Counted
  BY <1>3 DEF Remembered
<1>5. CASE UNCHANGED vars \/ Poll \/ EventEnd \/ EventLock \/ EventUnlock
  <2>1. UNCHANGED <<kind, slots, module, line, app>>
    BY <1>5 DEF vars, Poll, EventEnd, EventLock, EventUnlock, OnlyEvent
  <2> QED
    BY <1>0, <1>4, <2>1, StayCounted DEF Without
<1>6. CASE Receive \/ Delete \/ Listened \/ NotOpened \/ Expire \/ Return \/ (Sent /\ UNCHANGED line)
  <2>1. UNCHANGED <<kind, slots, module, line>> /\ app'.slot = app.slot /\ (Without' => Without)
    BY <1>0, <1>6 DEF Receive, Delete, Listened, NotOpened, Expire, Return, Sent,
       EndTurn, Goto, App, Idle, OnlyApp, Without
  <2> QED
    BY <1>0, <1>4, <2>1, StayCounted
<1>7. CASE Sent /\ ~ UNCHANGED line
  <2>1. /\ UNCHANGED <<kind, slots, module>> /\ app'.slot = app.slot /\ (Without' => Without)
        /\ line # <<>> /\ line' = Tail(line) /\ ~IsUrc(Head(line))
    BY <1>0, <1>7 DEF Sent, Goto, App, Waiting, OnlyApp, Without, IsUrc
  <2> QED
    BY <1>0, <1>4, <2>1, AnswerCounted
<1>8. CASE EventRead \/ Heed
  <2>1. UNCHANGED <<kind, module, app>> /\ (HandleUrc \/ \E wanted : Discard(wanted))
    BY <1>8 DEF EventRead, Heed, OnlyEvent, OnlyApp
  <2>2. CASE HandleUrc
    BY <1>0, <1>4, <2>1, <2>2, UrcCounted
  <2>3. CASE \E wanted : Discard(wanted)
    BY <1>0, <1>4, <2>1, <2>3, AnswerCounted DEF Discard, Waiting, Without
  <2> QED
    BY <2>1, <2>2, <2>3
<1>9. CASE ReadR4 \/ ReadN2 \/ NotRead
  BY <1>0, <1>2, <1>3, <1>4, <1>9, ReadsCounted
<1>10. CASE Open \/ Send \/ Close \/ Turn
  BY <1>0, <1>4, <1>10, OpenCounted, SendCounted, CloseCounted, TurnCounted
<1>11. CASE Opened
  BY <1>0, <1>4, <1>11, OpenedCounted
<1>12. CASE CloseDone
  BY <1>0, <1>2, <1>3, <1>4, <1>12, CloseDoneCounted DEF Alternates
<1>13. ASSUME NEW h \in Handle, Deactivate(h) PROVE Counted'
  BY <1>0, <1>4, <1>13, DeactivateCounted
<1>14. ASSUME NEW h \in Handle, NEW n \in Size, Arrive(h, n) PROVE Counted'
  BY <1>0, <1>4, <1>14, ArriveCounted
<1>15. ~ NotClosed /\ ~ OutOfMemory
  BY <1>2 DEF NotClosed, OutOfMemory
<1> QED
  BY <1>2, <1>5, <1>6, <1>7, <1>8, <1>9, <1>10, <1>11, <1>12, <1>13, <1>14, <1>15
     DEF Next, AppStep, EventStep

\* ... and at the start there is nothing.
LEMMA InitRemembers == Init => Remembered
<1> SUFFICES ASSUME Init PROVE Counted
  BY DEF Remembered
<1>1. /\ \A s \in Slot : slots[s] = Free
      /\ \A h \in Handle : module[h] = Closed
      /\ line = <<>> /\ app = Idle
  BY DEF Init
<1>2. Alone /\ Quiet /\ OnlyR4Gone /\ QueuesFit /\ LineFits
  BY <1>1, NoSlot, WidthAssumption DEF Alone, Quiet, NoReads, OnlyR4Gone, QueuesFit, LineFits, Free, Closed, Idle
<1>3. Room
  <2> DEFINE g == [i \in 0 .. 0 |-> 0]
  <2>1. g[0] = 0 /\ g \in [0 .. 0 -> 0 .. Limit] /\ Len(line) = 0
    BY <1>1, LongestFacts
  <2>2. Climbs(g, line) /\ \A s \in Slot : slots[s].pending <= g[0]
    BY <1>1, <2>1 DEF Climbs, Free
  <2> HIDE DEF g
  <2> QED
    BY <2>2 DEF Room
<1>4. Covered
  <2>1. (\A h \in Handle : ~ Has(h)) /\ Len(line) = 0
    BY <1>1, NoSlot DEF Has, Idle
  <2> QED
    BY <2>1 DEF Covered, From
<1> QED
  BY <1>2, <1>3, <1>4 DEF Counted

\* What the application's socket holds in the module, with the line empty,
\* is pending.
LEMMA CountedForgetsNothing ==
    ASSUME SocketTypes, Remembered, app \in App
    PROVE  NothingForgotten
<1> SUFFICES ASSUME app.slot # NULL, wrong = {}, slots[app.slot].handle # UNUSED, line = <<>>,
                    module[slots[app.slot].handle].queue # <<>>
             PROVE  slots[app.slot].pending > 0
  BY DEF NothingForgotten
<1>1. Covered /\ app.slot \in Slot
  BY DEF Remembered, Counted, App
<1>2. PICK h \in Handle : slots[app.slot].handle = h
  BY <1>1 DEF SocketTypes, SocketSlot
<1>3. Len(line) = 0 /\ 0 \in 0 .. Len(line) /\ From(0, h)
  <2>1. Len(line) = 0 /\ 0 + 1 .. 0 = {}
    OBVIOUS
  <2> QED
    BY <1>1, <1>2, <2>1 DEF From, Gone, Has
<1>4. PICK f : /\ Chain(f, 0, line, h) /\ f[0] <= slots[app.slot].pending
               /\ Total(module[h].queue) <= f[0]
  BY <1>1, <1>3 DEF Covered, Base
<1>5. Total(module[h].queue) > 0 /\ Total(module[h].queue) \in Nat
  BY <1>2, TotalPositive, TotalsAreNumbers
<1>6. slots[app.slot].pending \in Nat /\ f[0] \in Nat
  BY <1>1, <1>3, <1>4, SizeAssumption DEF Chain, SocketTypes, SocketSlot
<1> QED
  BY <1>4, <1>5, <1>6

\* The slots stay true of the module's sockets: a handle belongs to one slot,
\* and no announcement is lost between the two readers.
THEOREM SlotsAreSound == Spec => []SlotsSound
<1>1. TypeOK /\ Remembered => NothingForgotten
  BY CountedForgetsNothing, TypeParts DEF ThreadTypes
<1>2. Init => Remembered
  BY InitRemembers
<1>3. (TypeOK /\ AppFits) /\ (TypeOK /\ AppFits)' /\ Alternates /\ Remembered /\ [Next]_vars => Remembered'
  BY RememberedKept
<1>4. Spec => []Alternates
  BY AlternatesAlways
<1>5. OneSlotPerHandle /\ NothingForgotten => SlotsSound
  BY DEF SlotsSound
<1> QED
  BY <1>1, <1>2, <1>3, <1>4, <1>5, HandlesAreSound, TypeInvariant, PTL DEF Spec
=============================================================================
