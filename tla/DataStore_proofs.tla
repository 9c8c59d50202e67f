-------------------------- MODULE DataStore_proofs --------------------------
(***************************************************************************)
(* The data queue uses the allocator as the allocator expects, so what is  *)
(* proved of the allocator holds of the queue; and the list, the pointers  *)
(* to and from actions and the count of words stay true of one another,    *)
(* and to its callers it is the bounded queue of DataQueue: for buffers,   *)
(* items and actions of any size and number.                               *)
(***************************************************************************)
EXTENDS DataHooks, FiniteSetTheorems, SequenceTheorems, WellFoundedInduction, TLAPS

RingProofs == INSTANCE DataRing_proofs

\* A set of numbers that is not empty has a least one.
LEMMA LeastNumber ==
    ASSUME NEW T \in SUBSET Nat, T # {}
    PROVE  \E x \in T : \A y \in T : x <= y
<1> DEFINE R == {ss \in Nat \X Nat : ss[1] < ss[2]}
<1>1. IsWellFoundedOn(R, Nat)
  BY NatLessThanWellFounded DEF OpToRel
<1>2. \A x, y \in Nat : <<y, x>> \in R <=> y < x
  OBVIOUS
<1> HIDE DEF R
<1>3. PICK x \in T : \A y \in T : ~ (<<y, x>> \in R)
  BY <1>1, WFMin
<1>4. ASSUME NEW y \in T PROVE x <= y
  <2>1. x \in Nat /\ y \in Nat /\ ~ (y < x)
    BY <1>2, <1>3
  <2> QED
    BY <2>1
<1> QED
  BY <1>4

\* Of some subsets of a finite set, one is the smallest.
LEMMA SmallestSet ==
    ASSUME NEW S, IsFiniteSet(S), NEW C \in SUBSET SUBSET S, C # {}
    PROVE  \E T \in C : \A U \in C : Cardinality(T) <= Cardinality(U)
<1> DEFINE sizes == {Cardinality(T) : T \in C}
<1>1. \A T \in C : Cardinality(T) \in Nat
  BY FS_Subset, FS_CardinalityType
<1>2. sizes \in SUBSET Nat /\ sizes # {}
  BY <1>1
<1> HIDE DEF sizes
<1>3. PICK n \in sizes : \A m \in sizes : n <= m
  BY <1>2, LeastNumber
<1> QED
  BY <1>3 DEF sizes

\* What is left of a subset without one of its elements is smaller.
LEMMA SmallerSet ==
    ASSUME NEW S, IsFiniteSet(S), NEW T \in SUBSET S, NEW x \in T
    PROVE  /\ T \ {x} \in SUBSET S /\ IsFiniteSet(T) /\ IsFiniteSet(T \ {x})
           /\ ~ (Cardinality(T) <= Cardinality(T \ {x}))
           /\ Cardinality(T) \in Nat /\ Cardinality(T \ {x}) \in Nat
           /\ Cardinality(T \ {x}) = Cardinality(T) - 1
<1>1. IsFiniteSet(T) /\ Cardinality(T) \in Nat
  BY FS_Subset, FS_CardinalityType
<1>2. IsFiniteSet(T \ {x}) /\ Cardinality(T \ {x}) = Cardinality(T) - 1
  BY <1>1, FS_RemoveElement
<1>3. Cardinality(T \ {x}) \in Nat
  BY <1>2, FS_CardinalityType
<1> QED
  BY <1>1, <1>2, <1>3

-----------------------------------------------------------------------------
(* The words of some blocks *)

WordsAt(h, b) == Ring!BlockWords(h[b].type)
One(T) == CHOOSE x \in T : TRUE

\* g sums up the words of the sets of at most n blocks of S.
SumsUpTo(g, h, S, n) ==
    \A T \in SUBSET S : Cardinality(T) <= n =>
        g[T] \in Nat /\ g[T] = IF T = {} THEN 0 ELSE WordsAt(h, One(T)) + g[T \ {One(T)}]

LEMMA WordsAtNat ==
    ASSUME NEW h, NEW b, h[b].type \in Type
    PROVE  WordsAt(h, b) \in Nat
BY BufferAssumption DEF WordsAt, Ring!BlockWords

LEMMA SumsExist ==
    ASSUME NEW h, NEW S, IsFiniteSet(S), \A b \in S : h[b].type \in Type, NEW n \in Nat
    PROVE  \E g : SumsUpTo(g, h, S, n)
<1> DEFINE Without == {m \in Nat : ~ \E g : SumsUpTo(g, h, S, m)}
<1>1. SUFFICES ASSUME Without # {} PROVE FALSE
  OBVIOUS
<1>2. Without \in SUBSET Nat
  OBVIOUS
<1> HIDE DEF Without
<1>3. PICK m \in Without : \A k \in Without : m <= k
  BY <1>1, <1>2, LeastNumber
<1> USE DEF Without
<1>4. \A T \in SUBSET S : IsFiniteSet(T) /\ Cardinality(T) \in Nat /\ (Cardinality(T) = 0 <=> T = {})
  BY FS_Subset, FS_CardinalityType, FS_EmptySet
<1>5. m # 0
  <2>1. SumsUpTo([T \in SUBSET S |-> 0], h, S, 0)
    BY <1>4 DEF SumsUpTo
  <2> QED
    BY <1>3, <2>1
<1>6. m - 1 \in Nat /\ m - 1 \notin Without /\ m \in Nat
  BY <1>3, <1>5
<1>7. PICK f : SumsUpTo(f, h, S, m - 1)
  BY <1>6
<1> DEFINE g == [T \in SUBSET S |-> IF Cardinality(T) <= m - 1 THEN f[T]
                                    ELSE WordsAt(h, One(T)) + f[T \ {One(T)}]]
<1>8. ASSUME NEW T \in SUBSET S, T # {}
      PROVE  /\ One(T) \in T /\ WordsAt(h, One(T)) \in Nat
             /\ T \ {One(T)} \in SUBSET S /\ Cardinality(T \ {One(T)}) = Cardinality(T) - 1
  <2>1. One(T) \in T
    BY <1>8 DEF One
  <2>2. WordsAt(h, One(T)) \in Nat
    BY <2>1, WordsAtNat
  <2> QED
    BY <2>1, <2>2, SmallerSet
<1>9. ASSUME NEW T \in SUBSET S, Cardinality(T) <= m
      PROVE  g[T] \in Nat /\ g[T] = IF T = {} THEN 0 ELSE WordsAt(h, One(T)) + g[T \ {One(T)}]
  <2>1. CASE Cardinality(T) <= m - 1
    <3>1. g[T] = f[T] /\ f[T] \in Nat
          /\ f[T] = IF T = {} THEN 0 ELSE WordsAt(h, One(T)) + f[T \ {One(T)}]
      BY <1>7, <2>1 DEF SumsUpTo
    <3>2. T # {} => g[T \ {One(T)}] = f[T \ {One(T)}]
      BY <1>4, <1>6, <1>8, <2>1
    <3> QED
      BY <3>1, <3>2
  <2>2. CASE ~ (Cardinality(T) <= m - 1)
    <3>1. T # {} /\ g[T] = WordsAt(h, One(T)) + f[T \ {One(T)}]
      BY <1>4, <1>6, <2>2
    <3>2. Cardinality(T \ {One(T)}) <= m - 1 /\ T \ {One(T)} \in SUBSET S
      BY <1>4, <1>6, <1>8, <1>9, <3>1
    <3>3. g[T \ {One(T)}] = f[T \ {One(T)}] /\ f[T \ {One(T)}] \in Nat
      BY <1>7, <3>2 DEF SumsUpTo
    <3> QED
      BY <1>8, <3>1, <3>3
  <2> QED
    BY <2>1, <2>2
<1>10. SumsUpTo(g, h, S, m)
  BY <1>9 DEF SumsUpTo
<1> QED
  BY <1>3, <1>10

\* The fold over a set of blocks adds up the words of one of them after the
\* other.
LEMMA WordsOfFacts ==
    ASSUME NEW h, NEW S, IsFiniteSet(S), \A b \in S : h[b].type \in Type
    PROVE  /\ WordsOf(h, S) \in Nat
           /\ WordsOf(h, S) = IF S = {} THEN 0
                              ELSE WordsAt(h, One(S)) + WordsOf(h, S \ {One(S)})
<1> DEFINE IsSum(g, U) ==
      g = [T \in SUBSET U |-> IF T = {} THEN 0 ELSE WordsAt(h, One(T)) + g[T \ {One(T)}]]
<1>1. PICK f : SumsUpTo(f, h, S, Cardinality(S))
  BY SumsExist, FS_CardinalityType
<1>2. ASSUME NEW U \in SUBSET S PROVE WordsOf(h, U) = f[U] /\ f[U] \in Nat
  <2> DEFINE fU == [T \in SUBSET U |-> f[T]]
  <2>1. \A T \in SUBSET U : T \in SUBSET S /\ Cardinality(T) <= Cardinality(S) /\ IsFiniteSet(T)
    BY FS_Subset
  <2>2. \A T \in SUBSET U : /\ f[T] \in Nat
                            /\ f[T] = IF T = {} THEN 0 ELSE WordsAt(h, One(T)) + f[T \ {One(T)}]
    BY <1>1, <2>1 DEF SumsUpTo
  <2>3. IsSum(fU, U)
    BY <2>2
  <2>4. PICK g : IsSum(g, U) /\ WordsOf(h, U) = g[U]
    <3>1. WordsOf(h, U) = (CHOOSE g : IsSum(g, U))[U]
      BY DEF WordsOf, WordsAt, One, MapThenSumSet, MapThenFoldSet
    <3> QED
      BY <2>3, <3>1
  <2> DEFINE Differ == {T \in SUBSET U : g[T] # f[T]}
  <2>5. CASE Differ = {}
    BY <2>2, <2>4, <2>5
  <2>6. CASE Differ # {}
    <3>1. IsFiniteSet(U) /\ Differ \in SUBSET SUBSET U
      BY <2>1
    <3> HIDE DEF Differ
    <3>2. PICK T \in Differ : \A V \in Differ : Cardinality(T) <= Cardinality(V)
      BY <2>6, <3>1, SmallestSet
    <3> USE DEF Differ
    <3>3. T \in SUBSET U /\ g[T] = IF T = {} THEN 0 ELSE WordsAt(h, One(T)) + g[T \ {One(T)}]
      BY <2>4
    <3>4. T # {} /\ One(T) \in T
      BY <2>2, <3>2, <3>3 DEF One
    <3>5. T \ {One(T)} \in SUBSET U /\ T \ {One(T)} \notin Differ
      BY <3>1, <3>2, <3>3, <3>4, SmallerSet
    <3> QED
      BY <2>2, <3>2, <3>3, <3>4, <3>5
  <2> QED
    BY <2>5, <2>6
<1>3. f[S] = IF S = {} THEN 0 ELSE WordsAt(h, One(S)) + f[S \ {One(S)}]
  BY <1>1, FS_CardinalityType DEF SumsUpTo
<1> QED
  BY <1>2, <1>3

\* It does not matter which block is counted first ...
LEMMA WordsOfRemoved ==
    ASSUME NEW h, NEW S, IsFiniteSet(S), \A b \in S : h[b].type \in Type, NEW x \in S
    PROVE  WordsOf(h, S) = WordsAt(h, x) + WordsOf(h, S \ {x})
<1> DEFINE Claim(T) == \A y \in T : WordsOf(h, T) = WordsAt(h, y) + WordsOf(h, T \ {y})
           Bad == {T \in SUBSET S : ~ Claim(T)}
<1>1. SUFFICES ASSUME Bad # {} PROVE FALSE
  BY DEF Bad
<1>2. Bad \in SUBSET SUBSET S
  OBVIOUS
<1> HIDE DEF Bad
<1>3. PICK T \in Bad : \A U \in Bad : Cardinality(T) <= Cardinality(U)
  BY <1>1, <1>2, SmallestSet
<1> USE DEF Bad
<1>4. PICK y \in T : WordsOf(h, T) # WordsAt(h, y) + WordsOf(h, T \ {y})
  BY <1>3
<1> DEFINE z == One(T)
<1>5. z \in T
  BY <1>4 DEF One
<1>6. ASSUME NEW U \in SUBSET S
      PROVE  IsFiniteSet(U) /\ (\A b \in U : h[b].type \in Type) /\ WordsOf(h, U) \in Nat
  BY FS_Subset, WordsOfFacts
<1>7. WordsOf(h, T) = WordsAt(h, z) + WordsOf(h, T \ {z})
  BY <1>4, <1>6, WordsOfFacts
<1> HIDE DEF z
<1>8. z # y
  BY <1>4, <1>7
<1>9. Claim(T \ {z}) /\ Claim(T \ {y})
  BY <1>3, <1>4, <1>5, SmallerSet
<1>10. /\ WordsOf(h, T \ {z}) = WordsAt(h, y) + WordsOf(h, (T \ {z}) \ {y})
       /\ WordsOf(h, T \ {y}) = WordsAt(h, z) + WordsOf(h, (T \ {y}) \ {z})
  BY <1>4, <1>5, <1>8, <1>9
<1>11. (T \ {z}) \ {y} = (T \ {y}) \ {z}
  OBVIOUS
<1>12. /\ WordsAt(h, y) \in Nat /\ WordsAt(h, z) \in Nat
       /\ WordsOf(h, (T \ {y}) \ {z}) \in Nat
  BY <1>4, <1>5, <1>6, WordsAtNat
<1>13. WordsOf(h, (T \ {z}) \ {y}) = WordsOf(h, (T \ {y}) \ {z})
  BY <1>11
<1> HIDE DEF Bad, Claim
<1>14. ASSUME NEW sT, NEW sy, NEW sz, NEW r \in Nat, NEW wy \in Nat, NEW wz \in Nat,
              sT = wz + sz, sz = wy + r, sy = wz + r
       PROVE  sT = wy + sy
  BY <1>14
<1> QED
  BY <1>4, <1>7, <1>10, <1>12, <1>13, <1>14

\* ... nor what else the headers say.
LEMMA WordsOfSame ==
    ASSUME NEW h, NEW k, NEW S, IsFiniteSet(S),
           \A b \in S : h[b].type \in Type /\ k[b].type = h[b].type
    PROVE  WordsOf(k, S) = WordsOf(h, S)
<1> DEFINE Bad == {T \in SUBSET S : WordsOf(k, T) # WordsOf(h, T)}
<1>1. SUFFICES ASSUME Bad # {} PROVE FALSE
  BY DEF Bad
<1>2. Bad \in SUBSET SUBSET S
  OBVIOUS
<1> HIDE DEF Bad
<1>3. PICK T \in Bad : \A U \in Bad : Cardinality(T) <= Cardinality(U)
  BY <1>1, <1>2, SmallestSet
<1> USE DEF Bad
<1>4. IsFiniteSet(T) /\ \A b \in T : h[b].type \in Type /\ k[b].type \in Type
  BY <1>3, FS_Subset
<1>5. /\ WordsOf(h, T) = IF T = {} THEN 0 ELSE WordsAt(h, One(T)) + WordsOf(h, T \ {One(T)})
      /\ WordsOf(k, T) = IF T = {} THEN 0 ELSE WordsAt(k, One(T)) + WordsOf(k, T \ {One(T)})
  BY <1>4, WordsOfFacts
<1>6. T # {} /\ One(T) \in T
  BY <1>3, <1>5 DEF One
<1>7. WordsOf(k, T \ {One(T)}) = WordsOf(h, T \ {One(T)})
  BY <1>3, <1>6, SmallerSet
<1>8. WordsAt(k, One(T)) = WordsAt(h, One(T))
  BY <1>3, <1>6 DEF WordsAt
<1> QED
  BY <1>3, <1>5, <1>6, <1>7, <1>8

\* The words of some of the blocks and of the others make up those of all.
LEMMA WordsOfSplit ==
    ASSUME NEW h, NEW S, IsFiniteSet(S), \A b \in S : h[b].type \in Type, NEW P \in SUBSET S
    PROVE  WordsOf(h, S) = WordsOf(h, P) + WordsOf(h, S \ P)
<1> DEFINE Bad == {T \in SUBSET S : WordsOf(h, S) # WordsOf(h, T) + WordsOf(h, S \ T)}
<1>1. SUFFICES ASSUME Bad # {} PROVE FALSE
  BY DEF Bad
<1>2. Bad \in SUBSET SUBSET S
  OBVIOUS
<1> HIDE DEF Bad
<1>3. PICK T \in Bad : \A U \in Bad : Cardinality(T) <= Cardinality(U)
  BY <1>1, <1>2, SmallestSet
<1> USE DEF Bad
<1>4. ASSUME NEW U \in SUBSET S
      PROVE  IsFiniteSet(U) /\ (\A b \in U : h[b].type \in Type) /\ WordsOf(h, U) \in Nat
  BY FS_Subset, WordsOfFacts
<1>5. T # {}
  <2>1. WordsOf(h, {}) = 0
    BY <1>4, WordsOfFacts
  <2>2. WordsOf(h, S) = WordsOf(h, {}) + WordsOf(h, S)
    BY <1>4, <2>1
  <2>3. S \ {} = S
    OBVIOUS
  <2>4. WordsOf(h, S) = WordsOf(h, {}) + WordsOf(h, S \ {})
    BY <2>2, <2>3
  <2> QED
    BY <1>3, <2>4
<1>6. PICK x : x \in T
  BY <1>5
<1>7. WordsOf(h, S) = WordsOf(h, T \ {x}) + WordsOf(h, S \ (T \ {x}))
  BY <1>3, <1>6, SmallerSet
<1>8. WordsOf(h, T) = WordsAt(h, x) + WordsOf(h, T \ {x})
  BY <1>3, <1>4, <1>6, WordsOfRemoved
<1>9. WordsOf(h, S \ (T \ {x})) = WordsAt(h, x) + WordsOf(h, S \ T)
  <2>1. S \ (T \ {x}) \in SUBSET S /\ x \in S \ (T \ {x}) /\ (S \ (T \ {x})) \ {x} = S \ T
    BY <1>3, <1>6
  <2> QED
    BY <1>4, <2>1, WordsOfRemoved
<1>10. /\ WordsOf(h, T \ {x}) \in Nat /\ WordsOf(h, S \ T) \in Nat /\ WordsAt(h, x) \in Nat
  BY <1>3, <1>4, <1>6, WordsAtNat
<1> QED
  BY <1>3, <1>7, <1>8, <1>9, <1>10

-----------------------------------------------------------------------------
(* What is proved of the allocator, for the queue's use of it *)

LEMMA RingAssumptions ==
    RingProofs!SizeAssumption /\ RingProofs!WordsAssumption /\ RingProofs!NullAssumption
BY BufferAssumption DEF RingProofs!SizeAssumption, RingProofs!WordsAssumption, RingProofs!NullAssumption

\* The allocator the queue uses is the one of those proofs.
LEMMA SameAllocator ==
    /\ Ring!Init <=> RingProofs!Init
    /\ \A t \in Type : Ring!Alloc(t) <=> RingProofs!Alloc(t)
    /\ \A t \in Type : Ring!Place(t) = RingProofs!Place(t)
    /\ \A t \in Type : Ring!BlockWords(t) = RingProofs!BlockWords(t)
    /\ \A a \in Int, t \in Type : Ring!Extent(a, t) = RingProofs!Extent(a, t)
    /\ \A b : Ring!Free(b) <=> RingProofs!Free(b)
    /\ \A b : Ring!Passed(b) = RingProofs!Passed(b)
    /\ Ring!TypeOK <=> RingProofs!TypeOK
    /\ Addr = RingProofs!Addr
    /\ ring = RingProofs!vars
<1> USE DEF Ring!BlockWords, RingProofs!BlockWords, Ring!Extent, RingProofs!Extent,
            Ring!Addr, RingProofs!Addr, Addr, ring, RingProofs!vars,
            Ring!NoHeader, RingProofs!NoHeader, Ring!Trailer, RingProofs!Trailer,
            Ring!After, RingProofs!After
<1>1. Ring!Init <=> RingProofs!Init
  BY DEF Ring!Init, RingProofs!Init
<1>2. ASSUME NEW t \in Type PROVE Ring!Place(t) = RingProofs!Place(t)
  BY DEF Ring!Place, RingProofs!Place,
         Ring!FitsBeforeEnd, RingProofs!FitsBeforeEnd,
         Ring!FitsInGap, RingProofs!FitsInGap,
         Ring!FitsAtStart, RingProofs!FitsAtStart,
         Ring!FreeSpaceAtEnd, RingProofs!FreeSpaceAtEnd
<1>3. ASSUME NEW t \in Type PROVE Ring!Alloc(t) <=> RingProofs!Alloc(t)
  BY <1>2 DEF Ring!Alloc, RingProofs!Alloc, Ring!Advance, RingProofs!Advance
<1>4. ASSUME NEW b PROVE Ring!Passed(b) = RingProofs!Passed(b)
  BY DEF Ring!Passed, RingProofs!Passed, Ring!Closed, RingProofs!Closed,
         Ring!Flagged, RingProofs!Flagged
<1>5. ASSUME NEW b PROVE Ring!Free(b) <=> RingProofs!Free(b)
  BY <1>4 DEF Ring!Free, RingProofs!Free
<1>6. Ring!TypeOK <=> RingProofs!TypeOK
  BY DEF Ring!TypeOK, RingProofs!TypeOK, Ring!Header, RingProofs!Header
<1> QED
  BY <1>1, <1>2, <1>3, <1>4, <1>5, <1>6

\* The blocks are items with the header and the words of their types.
BlocksTyped ==
    /\ Size \in Nat \ {0}
    /\ blocks \in SUBSET Addr
    /\ IsFiniteSet(blocks)
    /\ \A b \in blocks : header[b].type \in Type
    /\ NULL \notin Addr

LEMMA RingTypes ==
    ASSUME RingProofs!IInv
    PROVE  Ring!TypeOK /\ BlocksTyped
<1>1. RingProofs!TypeOK /\ RingProofs!BlocksIntact
  BY DEF RingProofs!IInv
<1>2. blocks \in SUBSET Addr /\ \A b \in blocks : header[b].type \in Type
  BY <1>1 DEF RingProofs!TypeOK, RingProofs!BlocksIntact, Addr, RingProofs!Addr
<1>3. IsFiniteSet(Addr)
  BY FS_Interval, BufferAssumption DEF Addr
<1>4. IsFiniteSet(blocks)
  BY <1>2, <1>3, FS_Subset
<1> QED
  BY <1>1, <1>2, <1>4, SameAllocator, BufferAssumption DEF BlocksTyped, Addr

\* A new block is clear of every other, and changes the header of none.
LEMMA AllocFacts ==
    ASSUME RingProofs!IInv, NEW t \in Type, Ring!Alloc(t), NEW a, a = Ring!Place(t)
    PROVE  /\ RingProofs!IInv'
           /\ a \in Addr /\ a \notin blocks
           /\ a \in Ring!Extent(a, t)
           /\ \A b \in blocks : b \notin Ring!Extent(a, t) /\ header'[b] = header[b]
           /\ header'[a] = [type |-> t, free |-> FALSE]
           /\ blocks' = blocks \cup {a}
           /\ Ring!BlockWords(t) \in Nat
<1>1. /\ RingProofs!Alloc(t) /\ a = RingProofs!Place(t)
      /\ Ring!BlockWords(t) = RingProofs!BlockWords(t)
  BY SameAllocator
<1>2. RingProofs!IInv'
  BY <1>1, RingAssumptions, RingProofs!AllocIInv
<1>3. a # NULL
  BY DEF Ring!Alloc
<1>4. /\ a \in Int /\ 0 <= a /\ a + RingProofs!BlockWords(t) <= Size
      /\ RingProofs!BlockWords(t) \in Nat /\ RingProofs!BlockWords(t) >= 2
      /\ \A b \in blocks : RingProofs!Trailer(b) < a \/ a + RingProofs!BlockWords(t) <= b
  BY <1>1, <1>3, RingAssumptions, RingProofs!PlaceFacts
<1>5. a \in Addr /\ a \in Ring!Extent(a, t)
  BY <1>1, <1>4, BufferAssumption DEF Addr, Ring!Extent
<1>6. ASSUME NEW b \in blocks PROVE b \notin Ring!Extent(a, t) /\ b \in Addr
  <2>1. RingProofs!TypeOK /\ RingProofs!BlocksIntact
    BY DEF RingProofs!IInv
  <2>2. b \in Int /\ b < RingProofs!Trailer(b) /\ RingProofs!Trailer(b) \in Int
    BY <2>1, RingAssumptions, RingProofs!BlockBounds
  <2>3. b \in Addr
    BY <2>1, SameAllocator DEF RingProofs!TypeOK
  <2> QED
    BY <1>1, <1>4, <2>2, <2>3 DEF Ring!Extent
<1>7. /\ header' = [x \in Addr |->
                     IF x = a THEN [type |-> t, free |-> FALSE]
                     ELSE IF x \in Ring!Extent(a, t) THEN Ring!NoHeader ELSE header[x]]
      /\ blocks' = blocks \cup {a}
  BY DEF Ring!Alloc, Ring!Addr, Addr
<1> QED
  BY <1>1, <1>2, <1>4, <1>5, <1>6, <1>7

\* Freeing an item flags it, and takes away only what is flagged.
LEMMA FreeFacts ==
    ASSUME RingProofs!IInv, NEW b, Ring!Free(b)
    PROVE  /\ RingProofs!IInv'
           /\ b \in InUse
           /\ Ring!Passed(b) \in SUBSET blocks
           /\ blocks' = blocks \ Ring!Passed(b)
           /\ \A c \in blocks : header'[c].type = header[c].type
           /\ InUse' = InUse \ {b}
<1>1. RingProofs!Free(b) /\ b \in blocks /\ b \in InUse
  BY SameAllocator DEF Ring!Free, InUse
<1>2. RingProofs!IInv'
  BY <1>1, RingAssumptions, RingProofs!FreeIInv
<1>3. \A c \in blocks : /\ header'[c].type = header[c].type
                        /\ header'[c].free = (c = b \/ header[c].free)
  BY <1>1, RingAssumptions, RingProofs!FreeKeeps
<1>4. Ring!Passed(b) \in SUBSET blocks /\ blocks' = blocks \ Ring!Passed(b)
  BY DEF Ring!Free, Ring!Passed
<1>5. \A c \in Ring!Passed(b) : c = b \/ header[c].free
  BY <1>1, SameAllocator, RingAssumptions, RingProofs!PassedFacts
<1>6. InUse' = InUse \ {b}
  <2>1. \A c \in blocks' : c \in blocks /\ (~ header'[c].free <=> c # b /\ ~ header[c].free)
    BY <1>3, <1>4
  <2>2. \A c \in InUse : c # b => c \in blocks'
    BY <1>4, <1>5 DEF InUse
  <2> QED
    BY <2>1, <2>2 DEF InUse
<1> QED
  BY <1>1, <1>2, <1>3, <1>4, <1>6

-----------------------------------------------------------------------------
(* The list of items *)

Elements(q) == {q[i] : i \in 1 .. Len(q)}

\* q is the chain from a root through a node memory, followed both ways.
IsList(q, root, n) ==
    /\ q \in Seq(Addr)
    /\ \A i, j \in 1 .. Len(q) : q[i] = q[j] => i = j
    /\ root = IF Len(q) = 0 THEN NULL ELSE q[1]
    /\ \A i \in 1 .. Len(q) :
         /\ n[q[i]].next = IF i = Len(q) THEN NULL ELSE q[i + 1]
         /\ n[q[i]].prev = IF i = 1 THEN NULL ELSE q[i - 1]

\* A list has no more items than the buffer has words.
LEMMA ListLength ==
    ASSUME NEW q \in Seq(Addr), \A i, j \in 1 .. Len(q) : q[i] = q[j] => i = j
    PROVE  /\ Len(q) \in Nat /\ Len(q) <= Size
           /\ IsFiniteSet(Elements(q)) /\ Cardinality(Elements(q)) = Len(q)
<1>1. Len(q) \in Nat /\ q \in [1 .. Len(q) -> Addr]
  OBVIOUS
<1>2. IsFiniteSet(Addr) /\ Cardinality(Addr) = Size
  BY FS_Interval, BufferAssumption DEF Addr
<1>3. IsFiniteSet(1 .. Len(q)) /\ Cardinality(1 .. Len(q)) = Len(q)
  BY <1>1, FS_Interval
<1>4. q \in Injection(1 .. Len(q), Addr)
  BY <1>1 DEF Injection, IsInjective
<1>5. Len(q) <= Size
  BY <1>2, <1>3, <1>4, FS_Injection
<1>6. q \in Injection(1 .. Len(q), Elements(q)) /\ q \in Surjection(1 .. Len(q), Elements(q))
  BY <1>1 DEF Injection, IsInjective, Surjection, Elements
<1>7. IsFiniteSet(Elements(q)) /\ Cardinality(Elements(q)) = Len(q)
  BY <1>3, <1>6, FS_Surjection
<1> QED
  BY <1>1, <1>5, <1>7

\* Following the list finds its items.
LEMMA WalkFindsList ==
    ASSUME NEW q, NEW root, NEW n, IsList(q, root, n)
    PROVE  Walk(root, n) = q
<1>1. q \in Seq(Addr) /\ Len(q) \in Nat /\ Len(q) <= Size /\ Size \in Nat
  BY ListLength, BufferAssumption DEF IsList
<1>2. NULL \notin Addr
  BY BufferAssumption DEF Addr
<1> DEFINE at(i) == IF i < Len(q) THEN q[i + 1] ELSE NULL
           IsHop(f) == f = [i \in 0 .. Size |->
                              IF i = 0 THEN root
                              ELSE LET p == f[i - 1] IN IF p \in Addr THEN n[p].next ELSE NULL]
           reached(f) == {i \in 0 .. Size : f[i] \in Addr}
<1>3. at(0) = root
  BY <1>1 DEF IsList
<1>4. ASSUME NEW i \in 1 .. Size
      PROVE  at(i) = IF at(i - 1) \in Addr THEN n[at(i - 1)].next ELSE NULL
  <2>1. CASE i - 1 < Len(q)
    <3>1. at(i - 1) = q[i] /\ i \in 1 .. Len(q)
      BY <1>1, <2>1
    <3>2. q[i] \in Addr /\ n[q[i]].next = IF i = Len(q) THEN NULL ELSE q[i + 1]
      BY <1>1, <3>1 DEF IsList
    <3> QED
      BY <1>1, <3>1, <3>2
  <2>2. CASE ~ (i - 1 < Len(q))
    BY <1>1, <1>2, <2>2
  <2> QED
    BY <2>1, <2>2
<1> DEFINE h == [i \in 0 .. Size |-> at(i)]
<1>5. IsHop(h)
  <2> HIDE DEF at
  <2> QED
    BY <1>1, <1>3, <1>4
<1>6. PICK f : IsHop(f) /\ Walk(root, n) = [i \in 1 .. Cardinality(reached(f)) |-> f[i - 1]]
  <2> HIDE DEF h, at
  <2>1. Walk(root, n) = LET f == CHOOSE f : IsHop(f)
                        IN  [i \in 1 .. Cardinality(reached(f)) |-> f[i - 1]]
    BY DEF Walk
  <2> HIDE DEF IsHop, reached
  <2> QED
    BY <1>5, <2>1
<1> HIDE DEF at, h
<1>7. \A i \in 0 .. Size : f[i] = IF i = 0 THEN root
                                  ELSE IF f[i - 1] \in Addr THEN n[f[i - 1]].next ELSE NULL
  BY <1>6
<1> HIDE DEF IsHop
<1> DEFINE Differ == {i \in 0 .. Size : f[i] # at(i)}
<1>8. Differ = {}
  <2>1. SUFFICES ASSUME Differ # {} PROVE FALSE
    OBVIOUS
  <2>2. Differ \in SUBSET Nat
    BY <1>1
  <2> HIDE DEF Differ
  <2>3. PICK i \in Differ : \A j \in Differ : i <= j
    BY <2>1, <2>2, LeastNumber
  <2> USE DEF Differ
  <2>4. i \in 0 .. Size /\ f[i] # at(i)
    BY <2>3
  <2>5. i # 0
    BY <1>1, <1>3, <1>7, <2>4
  <2>6. i - 1 \in 0 .. Size /\ i - 1 \notin Differ /\ i \in 1 .. Size
    BY <1>1, <2>3, <2>4, <2>5
  <2>7. f[i - 1] = at(i - 1)
    BY <2>6
  <2> QED
    BY <1>4, <1>7, <2>4, <2>5, <2>6, <2>7
<1>9. \A i \in 0 .. Size : f[i] = at(i)
  BY <1>8
<1>10. reached(f) = 0 .. Len(q) - 1
  <2>1. \A i \in 0 .. Size : at(i) \in Addr <=> i < Len(q)
    BY <1>1, <1>2 DEF at
  <2> QED
    BY <1>1, <1>9, <2>1
<1>11. Cardinality(reached(f)) = Len(q)
  <2>1. 0 \in Int /\ Len(q) - 1 \in Int
    BY <1>1
  <2>2. Cardinality(0 .. Len(q) - 1) = IF 0 > Len(q) - 1 THEN 0 ELSE (Len(q) - 1) - 0 + 1
    BY <2>1, FS_Interval
  <2>3. Cardinality(0 .. Len(q) - 1) = Len(q)
    BY <1>1, <2>2
  <2> HIDE DEF reached
  <2> QED
    BY <1>10, <2>3
<1>12. Walk(root, n) = [i \in 1 .. Len(q) |-> q[i]]
  <2>1. \A i \in 1 .. Len(q) : f[i - 1] = q[i]
    BY <1>1, <1>9 DEF at
  <2> QED
    BY <1>6, <1>11, <2>1
<1> QED
  BY <1>1, <1>12

\* The nodes as they are typed, whatever the list.
NodeType == [next : Pointer, prev : Pointer, action : Action \cup {NULL}, key : Key \cup {NULL}]

\* A list changed by pDataAlloc(): the item goes to the end.
LEMMA ListAppended ==
    ASSUME NEW q, NEW root, NEW n, IsList(q, root, n), NEW a \in Addr, a \notin Elements(q),
           NEW m, NEW root2,
           root2 = (IF root = NULL THEN a ELSE root),
           m[a].next = NULL,
           m[a].prev = (IF Len(q) = 0 THEN NULL ELSE q[Len(q)]),
           \A x \in Elements(q) : /\ m[x].prev = n[x].prev
                                  /\ m[x].next = IF x = q[Len(q)] THEN a ELSE n[x].next
    PROVE  /\ IsList(Append(q, a), root2, m)
           /\ Elements(Append(q, a)) = Elements(q) \cup {a}
<1>1. q \in Seq(Addr) /\ Len(q) \in Nat
  BY DEF IsList
<1> DEFINE r == Append(q, a)
<1>2. /\ r \in Seq(Addr) /\ Len(r) = Len(q) + 1
      /\ \A i \in 1 .. Len(q) : r[i] = q[i]
      /\ r[Len(q) + 1] = a
  BY <1>1
<1> HIDE DEF r
<1>3. \A i \in 1 .. Len(q) : q[i] \in Elements(q) /\ q[i] # a
  BY DEF Elements
<1>4. \A i, j \in 1 .. Len(r) : r[i] = r[j] => i = j
  BY <1>1, <1>2, <1>3 DEF IsList
<1>5. root2 = IF Len(r) = 0 THEN NULL ELSE r[1]
  <2>1. NULL \notin Addr
    BY BufferAssumption DEF Addr
  <2>2. Len(q) # 0 => q[1] \in Addr /\ r[1] = q[1]
    BY <1>1, <1>2
  <2> QED
    BY <1>1, <1>2, <2>1, <2>2 DEF IsList
<1>6. ASSUME NEW i \in 1 .. Len(r)
      PROVE  /\ m[r[i]].next = IF i = Len(r) THEN NULL ELSE r[i + 1]
             /\ m[r[i]].prev = IF i = 1 THEN NULL ELSE r[i - 1]
  <2>1. CASE i = Len(q) + 1
    BY <1>1, <1>2, <2>1
  <2>2. CASE i \in 1 .. Len(q)
    <3>1. /\ n[q[i]].next = IF i = Len(q) THEN NULL ELSE q[i + 1]
          /\ n[q[i]].prev = IF i = 1 THEN NULL ELSE q[i - 1]
      BY <2>2 DEF IsList
    <3>2. q[i] = q[Len(q)] <=> i = Len(q)
      BY <1>1, <2>2 DEF IsList
    <3>3. /\ m[q[i]].prev = n[q[i]].prev
          /\ m[q[i]].next = IF i = Len(q) THEN a ELSE n[q[i]].next
      BY <1>3, <2>2, <3>2
    <3>4. /\ r[i] = q[i]
          /\ i # Len(q) => r[i + 1] = q[i + 1]
          /\ i # 1 => r[i - 1] = q[i - 1]
          /\ i = Len(q) => r[i + 1] = a
          /\ i # Len(r)
      BY <1>1, <1>2, <2>2
    <3> QED
      BY <3>1, <3>3, <3>4
  <2> QED
    BY <1>1, <1>2, <2>1, <2>2
<1>7. Elements(r) = Elements(q) \cup {a}
  <2>1. \A i \in 1 .. Len(r) : r[i] \in Elements(q) \cup {a}
    BY <1>1, <1>2, <1>3
  <2>2. \A i \in 1 .. Len(q) : q[i] \in Elements(r)
    BY <1>1, <1>2 DEF Elements
  <2>3. a \in Elements(r)
    BY <1>1, <1>2 DEF Elements
  <2> QED
    BY <2>1, <2>2, <2>3 DEF Elements
<1> QED
  BY <1>2, <1>4, <1>5, <1>6, <1>7 DEF IsList, r

\* r is q without the item at place k.
WithoutPlace(r, q, k) ==
    /\ Len(r) = Len(q) - 1
    /\ \A i \in 1 .. Len(r) : r[i] = IF i < k THEN q[i] ELSE q[i + 1]

\* The nodes of dataFree() with an item taken out of the chain.
LEMMA ListUnlinked ==
    ASSUME NEW q, NEW root, NEW n, IsList(q, root, n), NEW k \in 1 .. Len(q),
           NEW m, NEW root2,
           root2 = (IF root = q[k] THEN n[q[k]].next ELSE root),
           \A x \in Elements(q) \ {q[k]} :
              /\ m[x].next = IF x = n[q[k]].prev THEN n[q[k]].next ELSE n[x].next
              /\ m[x].prev = IF x = n[q[k]].next THEN n[q[k]].prev ELSE n[x].prev
    PROVE  \E r : /\ IsList(r, root2, m) /\ Elements(r) = Elements(q) \ {q[k]}
                  /\ WithoutPlace(r, q, k)
<1>1. q \in Seq(Addr) /\ Len(q) \in Nat /\ k \in Nat
  BY DEF IsList
<1> DEFINE at(i) == IF i < k THEN i ELSE i + 1
           r == [i \in 1 .. Len(q) - 1 |-> q[at(i)]]
<1>2. /\ r \in Seq(Addr) /\ Len(r) = Len(q) - 1 /\ Len(r) \in Nat
      /\ \A i \in 1 .. Len(r) : r[i] = q[at(i)] /\ at(i) \in 1 .. Len(q) /\ at(i) # k
  BY <1>1
<1>3. \A i, j \in 1 .. Len(r) : at(i) = at(j) => i = j
  BY <1>1, <1>2
<1>4. \A i \in 1 .. Len(q) : i # k => \E j \in 1 .. Len(r) : at(j) = i
  <2>1. ASSUME NEW i \in 1 .. Len(q), i # k PROVE \E j \in 1 .. Len(r) : at(j) = i
    <3>1. CASE i < k
      <4>1. i \in 1 .. Len(r) /\ at(i) = i
        BY <1>1, <1>2, <3>1
      <4> QED
        BY <4>1
    <3>2. CASE ~ (i < k)
      <4>1. i - 1 \in 1 .. Len(r) /\ at(i - 1) = i
        BY <1>1, <1>2, <2>1, <3>2
      <4> QED
        BY <4>1
    <3> QED
      BY <3>1, <3>2
  <2> QED
    BY <2>1
<1>5. \A i, j \in 1 .. Len(q) : q[i] = q[j] => i = j
  BY DEF IsList
<1>6. \A i \in 1 .. Len(q) :
         /\ n[q[i]].next = IF i = Len(q) THEN NULL ELSE q[i + 1]
         /\ n[q[i]].prev = IF i = 1 THEN NULL ELSE q[i - 1]
  BY DEF IsList
<1>7. NULL \notin Addr /\ \A i \in 1 .. Len(q) : q[i] \in Addr
  BY <1>1, BufferAssumption DEF Addr
<1> HIDE DEF r
<1>8. \A i, j \in 1 .. Len(r) : r[i] = r[j] => i = j
  <2> HIDE DEF at
  <2> QED
    BY <1>2, <1>3, <1>5
<1>9. root2 = IF Len(r) = 0 THEN NULL ELSE r[1]
  <2>1. root = q[1] /\ 1 \in 1 .. Len(q)
    BY <1>1 DEF IsList
  <2>2. CASE k = 1
    <3>1. root2 = IF Len(q) = 1 THEN NULL ELSE q[2]
      <4>1. root2 = n[q[1]].next
        BY <2>1, <2>2
      <4>2. n[q[1]].next = IF 1 = Len(q) THEN NULL ELSE q[1 + 1]
        BY <1>6, <2>1
      <4> QED
        BY <4>1, <4>2
    <3>2. Len(r) # 0 => r[1] = q[2]
      BY <1>1, <1>2, <2>2
    <3> QED
      BY <1>1, <1>2, <3>1, <3>2
  <2>3. CASE k # 1
    <3>1. root2 = q[1]
      BY <1>5, <2>1, <2>3
    <3>2. Len(r) # 0 /\ r[1] = q[1]
      BY <1>1, <1>2, <2>3
    <3> QED
      BY <3>1, <3>2
  <2> QED
    BY <2>2, <2>3
<1>10. ASSUME NEW i \in 1 .. Len(q), i # k
       PROVE  /\ m[q[i]].next = IF i + 1 = k THEN n[q[k]].next ELSE n[q[i]].next
              /\ m[q[i]].prev = IF i = k + 1 THEN n[q[k]].prev ELSE n[q[i]].prev
  <2>1. q[i] \in Elements(q) \ {q[k]}
    BY <1>5, <1>10 DEF Elements
  <2>2. q[i] = n[q[k]].prev <=> i + 1 = k
    <3>1. k # 1 => (q[i] = q[k - 1] <=> i = k - 1)
      BY <1>1, <1>5
    <3> QED
      BY <1>1, <1>6, <1>7, <3>1
  <2>3. q[i] = n[q[k]].next <=> i = k + 1
    <3>1. k # Len(q) => (q[i] = q[k + 1] <=> i = k + 1)
      BY <1>1, <1>5
    <3> QED
      BY <1>1, <1>6, <1>7, <3>1
  <2> QED
    BY <2>1, <2>2, <2>3
<1>11. ASSUME NEW i \in 1 .. Len(r)
       PROVE  /\ m[r[i]].next = IF i = Len(r) THEN NULL ELSE r[i + 1]
              /\ m[r[i]].prev = IF i = 1 THEN NULL ELSE r[i - 1]
  <2>1. /\ r[i] = q[at(i)] /\ at(i) \in 1 .. Len(q) /\ at(i) # k
        /\ i # Len(r) => r[i + 1] = q[at(i + 1)] /\ at(i + 1) \in 1 .. Len(q)
        /\ i # 1 => r[i - 1] = q[at(i - 1)] /\ at(i - 1) \in 1 .. Len(q)
    BY <1>2
  <2>2. /\ m[r[i]].next = IF at(i) + 1 = k THEN n[q[k]].next ELSE n[q[at(i)]].next
        /\ m[r[i]].prev = IF at(i) = k + 1 THEN n[q[k]].prev ELSE n[q[at(i)]].prev
    BY <1>10, <2>1
  <2>3. m[r[i]].next = IF i = Len(r) THEN NULL ELSE r[i + 1]
    <3>1. CASE at(i) + 1 = k
      <4>1. n[q[k]].next = IF k = Len(q) THEN NULL ELSE q[k + 1]
        BY <1>6
      <4>2. (i = Len(r) <=> k = Len(q)) /\ (i # Len(r) => at(i + 1) = k + 1)
        BY <1>1, <1>2, <3>1
      <4> QED
        BY <2>1, <2>2, <3>1, <4>1, <4>2
    <3>2. CASE at(i) + 1 # k
      <4>1. n[q[at(i)]].next = IF at(i) = Len(q) THEN NULL ELSE q[at(i) + 1]
        BY <1>6, <2>1
      <4>2. (i = Len(r) <=> at(i) = Len(q)) /\ (i # Len(r) => at(i + 1) = at(i) + 1)
        BY <1>1, <1>2, <3>2, <2>1
      <4> QED
        BY <2>1, <2>2, <3>2, <4>1, <4>2
    <3> QED
      BY <3>1, <3>2
  <2>4. m[r[i]].prev = IF i = 1 THEN NULL ELSE r[i - 1]
    <3>1. CASE at(i) = k + 1
      <4>1. n[q[k]].prev = IF k = 1 THEN NULL ELSE q[k - 1]
        BY <1>6
      <4>2. (i = 1 <=> k = 1) /\ (i # 1 => at(i - 1) = k - 1)
        BY <1>1, <1>2, <3>1
      <4> QED
        BY <2>1, <2>2, <3>1, <4>1, <4>2
    <3>2. CASE at(i) # k + 1
      <4>1. n[q[at(i)]].prev = IF at(i) = 1 THEN NULL ELSE q[at(i) - 1]
        BY <1>6, <2>1
      <4>2. (i = 1 <=> at(i) = 1) /\ (i # 1 => at(i - 1) = at(i) - 1)
        BY <1>1, <1>2, <3>2, <2>1
      <4> QED
        BY <2>1, <2>2, <3>2, <4>1, <4>2
    <3> QED
      BY <3>1, <3>2
  <2> QED
    BY <2>3, <2>4
<1>12. Elements(r) = Elements(q) \ {q[k]}
  <2>1. ASSUME NEW x \in Elements(r) PROVE x \in Elements(q) \ {q[k]}
    <3>1. PICK i \in 1 .. Len(r) : x = r[i]
      BY DEF Elements
    <3>2. x = q[at(i)] /\ at(i) \in 1 .. Len(q) /\ at(i) # k
      BY <1>2, <3>1
    <3> HIDE DEF at
    <3> QED
      BY <1>5, <3>2 DEF Elements
  <2>2. ASSUME NEW x \in Elements(q) \ {q[k]} PROVE x \in Elements(r)
    <3>1. PICK i \in 1 .. Len(q) : x = q[i] /\ i # k
      BY DEF Elements
    <3>2. PICK j \in 1 .. Len(r) : at(j) = i
      BY <1>4, <3>1
    <3>3. x = r[j]
      BY <1>2, <3>1, <3>2
    <3> QED
      BY <3>3 DEF Elements
  <2> QED
    BY <2>1, <2>2
<1>13. WithoutPlace(r, q, k)
  BY <1>2 DEF WithoutPlace
<1> QED
  BY <1>2, <1>8, <1>9, <1>11, <1>12, <1>13 DEF IsList

\* The list q with the items at places k and k + 1 exchanged.
PlacesExchanged(r, q, k) ==
    /\ Len(r) = Len(q)
    /\ \A j \in 1 .. Len(q) : r[j] = q[IF j = k THEN k + 1 ELSE IF j = k + 1 THEN k ELSE j]

\* The nodes of sort() with neighbours exchanged.
LEMMA ListExchanged ==
    ASSUME NEW q, NEW root, NEW n \in [Addr -> NodeType], IsList(q, root, n),
           NEW k \in 1 .. Len(q), k # Len(q),
           NEW m, m = Exchanged(n, q[k]),
           NEW root2, root2 = (IF q[k] = root THEN n[q[k]].next ELSE root)
    PROVE  /\ \E r : /\ IsList(r, root2, m) /\ Elements(r) = Elements(q)
                     /\ PlacesExchanged(r, q, k)
           /\ m \in [Addr -> NodeType]
           /\ \A x \in Addr : m[x].action = n[x].action /\ m[x].key = n[x].key
<1>1. q \in Seq(Addr) /\ Len(q) \in Nat /\ k \in Nat /\ k + 1 \in 1 .. Len(q)
  BY DEF IsList
<1>2. \A i, j \in 1 .. Len(q) : q[i] = q[j] => i = j
  BY DEF IsList
<1>3. \A i \in 1 .. Len(q) :
         /\ n[q[i]].next = IF i = Len(q) THEN NULL ELSE q[i + 1]
         /\ n[q[i]].prev = IF i = 1 THEN NULL ELSE q[i - 1]
         /\ q[i] \in Addr
  BY <1>1 DEF IsList
<1>4. NULL \notin Addr
  BY BufferAssumption DEF Addr
<1> DEFINE a == q[k]
           b == q[k + 1]
           p == n[a].prev
           c == n[b].next
<1>5. /\ a \in Addr /\ b \in Addr /\ a # b /\ n[a].next = b
      /\ p = (IF k = 1 THEN NULL ELSE q[k - 1])
      /\ c = (IF k + 1 = Len(q) THEN NULL ELSE q[k + 2])
  <2>1. n[a].next = b
    BY <1>1, <1>3
  <2>2. c = IF k + 1 = Len(q) THEN NULL ELSE q[(k + 1) + 1]
    BY <1>1, <1>3
  <2> QED
    BY <1>1, <1>2, <1>3, <2>1, <2>2
<1>6. p # a /\ p # b /\ c # a /\ c # b /\ (p = c => p \notin Addr)
  <2>1. k # 1 => k - 1 \in 1 .. Len(q) /\ p = q[k - 1]
    BY <1>1, <1>5
  <2>2. k + 1 # Len(q) => k + 2 \in 1 .. Len(q) /\ c = q[k + 2]
    BY <1>1, <1>5
  <2> QED
    BY <1>1, <1>2, <1>4, <1>5, <2>1, <2>2
<1>7. p \in Pointer /\ c \in Pointer
  BY <1>5 DEF NodeType
<1> DEFINE exchanged(d) ==
      [x \in Addr |->
         CASE x = a -> [n[x] EXCEPT !.next = n[d].next, !.prev = d]
           [] x = d -> [n[x] EXCEPT !.next = a, !.prev = n[a].prev]
           [] x = n[a].prev -> [n[x] EXCEPT !.next = d]
           [] x = n[d].next -> [n[x] EXCEPT !.prev = a]
           [] OTHER -> n[x]]
<1>8. m = [x \in Addr |->
            CASE x = a -> [n[x] EXCEPT !.next = c, !.prev = b]
              [] x = b -> [n[x] EXCEPT !.next = a, !.prev = p]
              [] x = p -> [n[x] EXCEPT !.next = b]
              [] x = c -> [n[x] EXCEPT !.prev = a]
              [] OTHER -> n[x]]
  <2>1. m = exchanged(n[a].next)
    BY Zenon DEF Exchanged
  <2>2. exchanged(n[a].next) = exchanged(b)
    <3> HIDE DEF exchanged
    <3> QED
      BY <1>5
  <2> QED
    BY <2>1, <2>2
<1>r. root2 = IF a = root THEN b ELSE root
  BY <1>5
<1> HIDE DEF a, b, p, c
<1>9. ASSUME NEW x \in Addr
      PROVE  /\ m[x] \in NodeType /\ m[x].action = n[x].action /\ m[x].key = n[x].key
             /\ m[x].next = IF x = a THEN c ELSE IF x = b THEN a ELSE IF x = p THEN b ELSE n[x].next
             /\ m[x].prev = IF x = a THEN b ELSE IF x = b THEN p ELSE IF x = c THEN a ELSE n[x].prev
  <2>1. PICK o \in NodeType : o = n[x]
    OBVIOUS
  <2>2. a \in Pointer /\ b \in Pointer
    BY <1>5 DEF Pointer
  <2>3. CASE x = a
    <3>1. m[x] = [o EXCEPT !.next = c, !.prev = b]
      BY <1>5, <1>6, <1>8, <2>1, <2>3
    <3> QED
      BY <1>5, <1>7, <2>1, <2>2, <2>3, <3>1 DEF NodeType
  <2>4. CASE x = b
    <3>1. m[x] = [o EXCEPT !.next = a, !.prev = p]
      BY <1>5, <1>6, <1>8, <2>1, <2>4
    <3> QED
      BY <1>5, <1>7, <2>1, <2>2, <2>4, <3>1 DEF NodeType
  <2>5. CASE x = p
    <3>1. m[x] = [o EXCEPT !.next = b]
      BY <1>5, <1>6, <1>8, <2>1, <2>5
    <3> QED
      BY <1>5, <1>6, <2>1, <2>2, <2>5, <3>1 DEF NodeType
  <2>6. CASE x = c
    <3>1. m[x] = [o EXCEPT !.prev = a]
      BY <1>5, <1>6, <1>8, <2>1, <2>6
    <3> QED
      BY <1>5, <1>6, <2>1, <2>2, <2>6, <3>1 DEF NodeType
  <2>7. CASE x # a /\ x # b /\ x # p /\ x # c
    <3>1. m[x] = o
      BY <1>8, <2>1, <2>7
    <3> QED
      BY <2>1, <2>7, <3>1
  <2> QED
    BY <2>3, <2>4, <2>5, <2>6, <2>7
<1>10. m \in [Addr -> NodeType]
  <2>1. \A x \in Addr : m[x] \in NodeType
    BY <1>9
  <2> QED
    BY <1>8, <2>1
<1> DEFINE at(j) == IF j = k THEN k + 1 ELSE IF j = k + 1 THEN k ELSE j
           r == [j \in 1 .. Len(q) |-> q[at(j)]]
<1>11. /\ r \in Seq(Addr) /\ Len(r) = Len(q)
       /\ \A j \in 1 .. Len(r) : r[j] = q[at(j)] /\ at(j) \in 1 .. Len(q) /\ at(at(j)) = j
  BY <1>1, <1>3
<1>12. a = q[k] /\ b = q[k + 1]
  BY DEF a, b
<1> HIDE DEF r
<1>13. \A i, j \in 1 .. Len(r) : r[i] = r[j] => i = j
  <2>1. ASSUME NEW i \in 1 .. Len(r), NEW j \in 1 .. Len(r), r[i] = r[j] PROVE i = j
    <3>1. at(i) = at(j) /\ at(at(i)) = i /\ at(at(j)) = j
      BY <1>2, <1>11, <2>1
    <3> HIDE DEF at
    <3> QED
      BY <3>1
  <2> QED
    BY <2>1
<1>14. root2 = IF Len(r) = 0 THEN NULL ELSE r[1]
  <2>1. root = q[1] /\ 1 \in 1 .. Len(q) /\ Len(q) # 0
    BY <1>1 DEF IsList
  <2>2. a = root <=> k = 1
    BY <1>1, <1>2, <1>12, <2>1
  <2>3. r[1] = IF k = 1 THEN b ELSE q[1]
    <3>1. r[1] = q[at(1)] /\ at(1) = IF 1 = k THEN k + 1 ELSE 1
      BY <1>1, <1>11, <2>1
    <3> QED
      BY <1>12, <3>1
  <2> QED
    BY <1>r, <1>11, <2>1, <2>2, <2>3
<1>15. ASSUME NEW j \in 1 .. Len(r)
       PROVE  /\ m[r[j]].next = IF j = Len(r) THEN NULL ELSE r[j + 1]
              /\ m[r[j]].prev = IF j = 1 THEN NULL ELSE r[j - 1]
  <2>1. /\ r[j] = q[at(j)] /\ at(j) \in 1 .. Len(q) /\ q[at(j)] \in Addr
        /\ j # Len(r) => r[j + 1] = q[at(j + 1)] /\ j + 1 \in 1 .. Len(q)
        /\ j # 1 => r[j - 1] = q[at(j - 1)] /\ j - 1 \in 1 .. Len(q)
        /\ j \in 1 .. Len(q) /\ j \in Nat
    <3>1. j \in 1 .. Len(q) /\ j \in Nat
      BY <1>1, <1>11
    <3>2. /\ j # Len(r) => j + 1 \in 1 .. Len(r) /\ j + 1 \in 1 .. Len(q)
          /\ j # 1 => j - 1 \in 1 .. Len(r) /\ j - 1 \in 1 .. Len(q)
      BY <1>1, <1>11
    <3>3. r[j] = q[at(j)] /\ at(j) \in 1 .. Len(q)
      BY <1>11
    <3> HIDE DEF at
    <3> QED
      BY <1>3, <1>11, <3>1, <3>2, <3>3
  <2>2. CASE j = k
    <3>1. r[j] = b /\ r[j + 1] = a /\ (j # 1 => r[j - 1] = q[k - 1]) /\ j # Len(r)
      BY <1>1, <1>11, <1>12, <2>1, <2>2
    <3>2. m[b].next = a /\ m[b].prev = p
      BY <1>5, <1>9
    <3> QED
      BY <1>5, <2>2, <3>1, <3>2
  <2>3. CASE j = k + 1
    <3>1. /\ r[j] = a /\ r[j - 1] = b /\ j # 1
          /\ j # Len(r) => r[j + 1] = q[k + 2]
      BY <1>1, <1>11, <1>12, <2>1, <2>3
    <3>2. m[a].next = c /\ m[a].prev = b
      BY <1>5, <1>9
    <3> QED
      BY <1>5, <1>11, <2>3, <3>1, <3>2
  <2>4. CASE j # k /\ j # k + 1
    <3>1. r[j] = q[j] /\ q[j] \in Addr /\ q[j] # a /\ q[j] # b
      BY <1>1, <1>2, <1>12, <2>1, <2>4
    <3>2. (q[j] = p <=> j + 1 = k) /\ (q[j] = c <=> j = k + 2)
      <4>1. k # 1 => (q[j] = q[k - 1] <=> j = k - 1)
        BY <1>1, <1>2, <2>1
      <4>2. k + 1 # Len(q) => (q[j] = q[k + 2] <=> j = k + 2)
        BY <1>1, <1>2, <2>1
      <4> QED
        BY <1>1, <1>4, <1>5, <2>1, <3>1, <4>1, <4>2
    <3>3. /\ m[q[j]].next = IF j + 1 = k THEN b ELSE n[q[j]].next
          /\ m[q[j]].prev = IF j = k + 2 THEN a ELSE n[q[j]].prev
      BY <1>9, <3>1, <3>2
    <3>4. /\ n[q[j]].next = IF j = Len(q) THEN NULL ELSE q[j + 1]
          /\ n[q[j]].prev = IF j = 1 THEN NULL ELSE q[j - 1]
      BY <1>3, <2>1
    <3>5. m[r[j]].next = IF j = Len(r) THEN NULL ELSE r[j + 1]
      <4>1. CASE j + 1 = k
        <5>1. at(j + 1) = k + 1 /\ j # Len(r)
          BY <1>1, <1>11, <2>1, <2>4, <4>1
        <5> QED
          BY <1>12, <2>1, <3>1, <3>3, <4>1, <5>1
      <4>2. CASE j + 1 # k
        <5>1. at(j + 1) = j + 1
          BY <2>1, <2>4, <4>2
        <5> QED
          BY <1>11, <2>1, <3>1, <3>3, <3>4, <4>2, <5>1
      <4> QED
        BY <4>1, <4>2
    <3>6. m[r[j]].prev = IF j = 1 THEN NULL ELSE r[j - 1]
      <4>1. CASE j = k + 2
        <5>1. at(j - 1) = k /\ j # 1
          BY <1>1, <2>1, <4>1
        <5> QED
          BY <1>12, <2>1, <3>1, <3>3, <4>1, <5>1
      <4>2. CASE j # k + 2
        <5>1. at(j - 1) = j - 1
          BY <1>1, <2>1, <2>4, <4>2
        <5> QED
          BY <2>1, <3>1, <3>3, <3>4, <4>2, <5>1
      <4> QED
        BY <4>1, <4>2
    <3> QED
      BY <3>5, <3>6
  <2> QED
    BY <2>2, <2>3, <2>4
<1>16. Elements(r) = Elements(q)
  <2>1. ASSUME NEW x \in Elements(r) PROVE x \in Elements(q)
    <3>1. PICK i \in 1 .. Len(r) : x = r[i]
      BY DEF Elements
    <3> QED
      BY <1>11, <3>1 DEF Elements
  <2>2. ASSUME NEW x \in Elements(q) PROVE x \in Elements(r)
    <3>1. PICK i \in 1 .. Len(q) : x = q[i]
      BY DEF Elements
    <3>2. at(i) \in 1 .. Len(r) /\ at(at(i)) = i
      BY <1>11
    <3>3. r[at(i)] = q[at(at(i))]
      BY <1>11, <3>2
    <3> HIDE DEF at
    <3> QED
      BY <3>1, <3>2, <3>3 DEF Elements
  <2> QED
    BY <2>1, <2>2
<1>17. IsList(r, root2, m)
  BY <1>11, <1>13, <1>14, <1>15 DEF IsList
<1>18. PlacesExchanged(r, q, k)
  BY <1>11 DEF PlacesExchanged
<1> QED
  BY <1>9, <1>10, <1>16, <1>17, <1>18

\* The chain as sort() may leave it: the same items on it, and every node
\* with the action it had.
StillChained(E, n, s) ==
    /\ \E r : IsList(r, s.root, s.node) /\ Elements(r) = E
    /\ s.node \in [Addr -> NodeType]
    /\ \A x \in Addr : s.node[x].action = n[x].action

LEMMA SortStepFacts ==
    ASSUME NEW E, NEW n, NEW s, StillChained(E, n, s)
    PROVE  StillChained(E, n, SortStep(s))
<1>1. PICK q : IsList(q, s.root, s.node) /\ Elements(q) = E
  BY DEF StillChained
<1>2. Walk(s.root, s.node) = q /\ q \in Seq(Addr) /\ Len(q) \in Nat
  <2>1. Walk(s.root, s.node) = q
    BY <1>1, WalkFindsList
  <2>2. q \in Seq(Addr)
    BY <1>1 DEF IsList
  <2> QED
    BY <2>1, <2>2
<1> DEFINE late == {i \in 1 .. Len(q) : OutOfOrder(s.node, q[i])}
<1>3. CASE late = {}
  <2>1. SortStep(s) = s
    BY <1>2, <1>3 DEF SortStep
  <2> QED
    BY <2>1
<1>4. CASE late # {}
  <2>1. late \in SUBSET Nat
    BY <1>2
  <2>2. Min(late) \in late
    <3> HIDE DEF late
    <3> QED
      BY <1>4, <2>1, LeastNumber DEF Min
  <2>3. PICK k \in 1 .. Len(q) : k = Min(late) /\ OutOfOrder(s.node, q[k])
    BY <2>2
  <2> DEFINE t == SortStep(s)
  <2>4. /\ t.root = IF q[k] = s.root THEN s.node[q[k]].next ELSE s.root
        /\ t.node = Exchanged(s.node, q[k])
    BY <1>2, <1>4, <2>3 DEF SortStep
  <2>5. k # Len(q)
    BY <1>1, <2>3 DEF IsList, OutOfOrder
  <2>6. s.node \in [Addr -> NodeType] /\ \A x \in Addr : s.node[x].action = n[x].action
    BY DEF StillChained
  <2> HIDE DEF t
  <2>7. /\ \E r : IsList(r, t.root, t.node) /\ Elements(r) = Elements(q)
        /\ t.node \in [Addr -> NodeType]
        /\ \A x \in Addr : t.node[x].action = s.node[x].action
    BY <1>1, <2>4, <2>5, <2>6, ListExchanged
  <2>8. StillChained(E, n, t)
    BY <1>1, <2>6, <2>7 DEF StillChained
  <2> QED
    BY <2>8 DEF t
<1> QED
  BY <1>3, <1>4

\* pDataSort() makes one exchange after another until it is done or stopped.
AsFound == [root |-> dataList, node |-> node]

LEMMA SortedSteps ==
    ASSUME NEW k \in Nat
    PROVE  \E f : /\ Sorted(k) = f[k]
                 /\ \A i \in 0 .. k : f[i] = IF i = 0 THEN AsFound ELSE SortStep(f[i - 1])
<1> DEFINE s0 == AsFound
           IsAfter(f, m) == f = [i \in 0 .. m |-> IF i = 0 THEN s0 ELSE SortStep(f[i - 1])]
<1>1. ASSUME NEW m \in Nat PROVE \E f : IsAfter(f, m)
  <2> DEFINE Without == {j \in Nat : ~ \E f : IsAfter(f, j)}
  <2>1. SUFFICES ASSUME Without # {} PROVE FALSE
    BY DEF Without
  <2>2. Without \in SUBSET Nat
    OBVIOUS
  <2> HIDE DEF Without
  <2>3. PICK j \in Without : \A i \in Without : j <= i
    BY <2>1, <2>2, LeastNumber
  <2>4. j \in Nat
    BY <2>2
  <2>5. j # 0
    <3>1. IsAfter([i \in 0 .. 0 |-> s0], 0)
      <4> HIDE DEF s0
      <4> QED
        OBVIOUS
    <3> QED
      BY <2>3, <3>1 DEF Without
  <2>6. j - 1 \in Nat /\ j - 1 \notin Without
    BY <2>3, <2>4, <2>5
  <2>7. PICK g : IsAfter(g, j - 1)
    BY <2>6 DEF Without
  <2> HIDE DEF s0
  <2>8. \A i \in 0 .. j - 1 : g[i] = IF i = 0 THEN s0 ELSE SortStep(g[i - 1])
    BY <2>7
  <2> DEFINE f == [i \in 0 .. j |-> IF i = j THEN SortStep(g[j - 1]) ELSE g[i]]
  <2>9. ASSUME NEW i \in 0 .. j PROVE f[i] = IF i = 0 THEN s0 ELSE SortStep(f[i - 1])
    <3>1. CASE i = j
      BY <2>4, <2>5, <3>1
    <3>2. CASE i # j
      <4>1. i \in 0 .. j - 1 /\ f[i] = g[i]
        BY <2>4, <3>2
      <4>2. i # 0 => f[i - 1] = g[i - 1]
        BY <2>4, <3>2
      <4> QED
        BY <2>8, <4>1, <4>2
    <3> QED
      BY <3>1, <3>2
  <2>10. IsAfter(f, j)
    <3> DEFINE to == [i \in 0 .. j |-> IF i = 0 THEN s0 ELSE SortStep(f[i - 1])]
    <3>1. \A i \in 0 .. j : f[i] = to[i]
      <4> HIDE DEF f
      <4> QED
        BY <2>9
    <3>2. f = to
      <4> HIDE DEF to
      <4>1. to = [i \in 0 .. j |-> to[i]]
        BY DEF to
      <4> QED
        BY <3>1, <4>1
    <3> QED
      BY <3>2
  <2> HIDE DEF f, IsAfter
  <2> QED
    BY <2>3, <2>10 DEF Without
<1>2. PICK f : IsAfter(f, k) /\ Sorted(k) = f[k]
  <2>1. Sorted(k) = (CHOOSE f : IsAfter(f, k))[k]
    BY DEF Sorted, AsFound
  <2> HIDE DEF IsAfter
  <2> QED
    BY <1>1, <2>1
<1>3. \A i \in 0 .. k : f[i] = IF i = 0 THEN s0 ELSE SortStep(f[i - 1])
  <2> HIDE DEF s0
  <2> QED
    BY <1>2
<1> HIDE DEF IsAfter
<1> QED
  BY <1>2, <1>3

\* However many exchanges there are the chain is kept.
LEMMA SortedFacts ==
    ASSUME NEW E, StillChained(E, node, AsFound), NEW k \in Nat
    PROVE  StillChained(E, node, Sorted(k))
<1>1. PICK f : /\ Sorted(k) = f[k]
               /\ \A i \in 0 .. k : f[i] = IF i = 0 THEN AsFound ELSE SortStep(f[i - 1])
  BY SortedSteps
<1> DEFINE Lost == {i \in 0 .. k : ~ StillChained(E, node, f[i])}
<1>4. CASE Lost = {}
  BY <1>1, <1>4
<1>5. CASE Lost # {}
  <2>1. Lost \in SUBSET Nat
    OBVIOUS
  <2> HIDE DEF Lost
  <2>2. PICK i \in Lost : \A j \in Lost : i <= j
    BY <1>5, <2>1, LeastNumber
  <2>3. i \in 0 .. k /\ ~ StillChained(E, node, f[i])
    BY <2>2 DEF Lost
  <2>4. i # 0
    BY <1>1, <2>3
  <2>5. i - 1 \in 0 .. k /\ i - 1 \notin Lost
    BY <2>2, <2>3, <2>4
  <2>6. StillChained(E, node, f[i - 1])
    BY <2>5 DEF Lost
  <2> QED
    BY <1>1, <2>3, <2>4, <2>6, SortStepFacts
<1> QED
  BY <1>4, <1>5

\* Where only nodes off the list are changed, the list stays.
LEMMA ListKept ==
    ASSUME NEW q, NEW root, NEW n, IsList(q, root, n), NEW m,
           \A x \in Elements(q) : m[x].next = n[x].next /\ m[x].prev = n[x].prev
    PROVE  IsList(q, root, m)
<1>1. \A i \in 1 .. Len(q) : q[i] \in Elements(q)
  BY DEF Elements
<1> QED
  BY <1>1 DEF IsList

LEMMA ScrapTyped == Scrap \in NodeType
BY DEF Scrap, NodeType, Pointer

LEMMA ForgetFacts ==
    ASSUME NEW n \in [Addr -> NodeType], NEW z
    PROVE  /\ Forget(n, z) \in [Addr -> NodeType]
           /\ \A x \in Addr : x # z => Forget(n, z)[x] = n[x]
BY ScrapTyped DEF Forget

-----------------------------------------------------------------------------
(* The inductive invariant *)

Chained == \E q : IsList(q, dataList, node) /\ Elements(q) = InUse

StoreInv ==
    /\ RingProofs!IInv
    /\ TypeOK
    /\ Chained
    /\ HooksMutual
    /\ BytesAccounted

\* Following gpDataList finds the items in use.
LEMMA QueueFacts ==
    ASSUME Chained
    PROVE  IsList(Queue, dataList, node) /\ Elements(Queue) = InUse
BY WalkFindsList DEF Chained, Queue

LEMMA RingTypesNext == RingProofs!IInv' => Ring!TypeOK' /\ BlocksTyped'
<1>1. RingProofs!IInv => Ring!TypeOK /\ BlocksTyped
  BY RingTypes
<1> QED
  BY <1>1, PTL

\* The parts of the type invariant.
LEMMA StoreTypes ==
    ASSUME StoreInv
    PROVE  /\ node \in [Addr -> NodeType]
           /\ dataList \in Addr \cup {NULL}
           /\ nextData \in Pointer
           /\ sizeUsed \in Nat
           /\ hook \in [Action -> Addr \cup {NULL}]
           /\ Ring!TypeOK /\ BlocksTyped
           /\ InUse \in SUBSET Addr /\ InUse \in SUBSET blocks
BY RingTypes DEF StoreInv, TypeOK, NodeType, BlocksTyped, InUse

LEMMA InitStoreInv == Init => StoreInv
<1> SUFFICES ASSUME Init PROVE StoreInv
  OBVIOUS
<1>1. RingProofs!IInv
  BY SameAllocator, RingAssumptions, RingProofs!InitIInv DEF Init
<1>2. blocks = {} /\ InUse = {}
  BY DEF Init, Ring!Init, InUse
<1>3. TypeOK
  <2>1. node \in [Addr -> NodeType]
    BY ScrapTyped DEF Init
  <2> QED
    BY <1>1, <2>1, RingTypes DEF Init, TypeOK, NodeType, Pointer
<1>4. Chained
  <2>1. IsList(<<>>, dataList, node) /\ Elements(<<>>) = {}
    BY DEF IsList, Elements, Init
  <2> QED
    BY <1>2, <2>1 DEF Chained
<1>5. HooksMutual
  BY DEF HooksMutual, Init
<1>6. BytesAccounted
  <2>1. WordsOf(header, {}) = 0
    BY WordsOfFacts, FS_EmptySet
  <2> QED
    BY <1>2, <2>1 DEF BytesAccounted, Init
<1> QED
  BY <1>1, <1>3, <1>4, <1>5, <1>6 DEF StoreInv

\* The step makes an item of type t and key k for action c at a, and puts it
\* at the end of the list q.
AllocatedTo(q, a, c, t, k) ==
    /\ q = Queue /\ IsList(q, dataList, node) /\ Elements(q) = InUse
    /\ RingProofs!IInv'
    /\ a \in Addr /\ a \notin blocks
    /\ \A b \in blocks : header'[b] = header[b]
    /\ header'[a] = [type |-> t, free |-> FALSE]
    /\ blocks' = blocks \cup {a}
    /\ InUse' = InUse \cup {a}
    /\ Ring!BlockWords(t) \in Nat
    /\ dataList' = (IF dataList = NULL THEN a ELSE dataList)
    /\ sizeUsed' = sizeUsed + Ring!BlockWords(t)
    /\ hook' = (IF c = NULL THEN hook ELSE [hook EXCEPT ![c] = a])
    /\ nextData' = nextData
    /\ node' \in [Addr -> NodeType]
    /\ node'[a].action = c /\ node'[a].key = k
    /\ \A x \in blocks : node'[x].action = node[x].action /\ node'[x].key = node[x].key
    /\ IsList(Append(q, a), dataList', node')
    /\ Elements(Append(q, a)) = Elements(q) \cup {a}

LEMMA AllocatedNodes ==
    ASSUME StoreInv, NEW c \in Action \cup {NULL}, NEW t \in Type, NEW k \in Key, Alloc(c, t, k)
    PROVE  \E q, a : AllocatedTo(q, a, c, t, k)
<1>0. PICK a : a = Ring!Place(t)
  OBVIOUS
<1>1. /\ RingProofs!IInv'
      /\ a \in Addr /\ a \notin blocks
      /\ a \in Ring!Extent(a, t)
      /\ \A b \in blocks : b \notin Ring!Extent(a, t) /\ header'[b] = header[b]
      /\ header'[a] = [type |-> t, free |-> FALSE]
      /\ blocks' = blocks \cup {a}
      /\ Ring!BlockWords(t) \in Nat
  BY <1>0, AllocFacts DEF StoreInv, Alloc
<1>2. /\ node \in [Addr -> NodeType]
      /\ dataList \in Addr \cup {NULL}
      /\ nextData \in Pointer
      /\ sizeUsed \in Nat
      /\ hook \in [Action -> Addr \cup {NULL}]
      /\ BlocksTyped
      /\ InUse \in SUBSET Addr /\ InUse \in SUBSET blocks
  BY StoreTypes
<1>3. PICK q : q = Queue /\ IsList(q, dataList, node) /\ Elements(q) = InUse
  BY QueueFacts DEF StoreInv
<1>4. q \in Seq(Addr) /\ Len(q) \in Nat /\ Tail1 = IF Len(q) = 0 THEN NULL ELSE q[Len(q)]
  BY <1>3 DEF IsList, Tail1
<1>5. Tail1 \in Addr \cup {NULL}
  BY <1>4
<1> DEFINE new == [next |-> NULL, prev |-> Tail1, action |-> c, key |-> k]
<1>6. new \in NodeType
  BY <1>5 DEF NodeType, Pointer
<1>7. /\ node' = [x \in Addr |->
                    IF x = a THEN new
                    ELSE IF x \in Ring!Extent(a, t) THEN Scrap
                    ELSE IF x = Tail1 THEN [node[x] EXCEPT !.next = a]
                    ELSE node[x]]
      /\ dataList' = (IF dataList = NULL THEN a ELSE dataList)
      /\ sizeUsed' = sizeUsed + Ring!BlockWords(t)
      /\ hook' = (IF c = NULL THEN hook ELSE [hook EXCEPT ![c] = a])
      /\ nextData' = nextData
  BY <1>0 DEF Alloc
<1>8. new.next = NULL /\ new.prev = Tail1 /\ new.action = c /\ new.key = k
  OBVIOUS
<1> HIDE DEF new
<1>9. \A x \in Addr : LET o == [node[x] EXCEPT !.next = a]
                      IN  o \in NodeType /\ o.next = a /\ o.prev = node[x].prev /\ o.action = node[x].action /\ o.key = node[x].key
  <2>1. ASSUME NEW r \in NodeType
        PROVE  LET o == [r EXCEPT !.next = a]
               IN  o \in NodeType /\ o.next = a /\ o.prev = r.prev /\ o.action = r.action /\ o.key = r.key
    BY <1>1 DEF NodeType, Pointer
  <2> QED
    BY <1>2, <2>1
<1>10. node' \in [Addr -> NodeType]
  BY <1>2, <1>6, <1>7, <1>9, ScrapTyped
<1>11. /\ node'[a] = new
       /\ \A x \in blocks : /\ node'[x].prev = node[x].prev
                            /\ node'[x].next = IF x = Tail1 THEN a ELSE node[x].next
                            /\ node'[x].action = node[x].action /\ node'[x].key = node[x].key
  <2>1. \A x \in blocks : x \in Addr /\ x # a /\ x \notin Ring!Extent(a, t)
    BY <1>1, <1>2 DEF BlocksTyped
  <2>2. node'[a] = new
    BY <1>1, <1>7
  <2>3. \A x \in blocks : node'[x] = IF x = Tail1 THEN [node[x] EXCEPT !.next = a] ELSE node[x]
    BY <1>7, <2>1
  <2> QED
    BY <1>9, <2>1, <2>2, <2>3
<1>12. InUse' = InUse \cup {a}
  BY <1>1 DEF InUse
<1>13. IsList(Append(q, a), dataList', node') /\ Elements(Append(q, a)) = Elements(q) \cup {a}
  <2>1. a \notin Elements(q)
    BY <1>1, <1>2, <1>3
  <2>2. \A x \in Elements(q) : x \in blocks /\ (x = Tail1 <=> x = q[Len(q)])
    <3>1. \A x \in Elements(q) : Len(q) # 0
      BY <1>4 DEF Elements
    <3> QED
      BY <1>2, <1>3, <1>4, <3>1
  <2>3. /\ node'[a].next = NULL
        /\ node'[a].prev = (IF Len(q) = 0 THEN NULL ELSE q[Len(q)])
    BY <1>4, <1>8, <1>11
  <2>4. \A x \in Elements(q) : /\ node'[x].prev = node[x].prev
                               /\ node'[x].next = IF x = q[Len(q)] THEN a ELSE node[x].next
    BY <1>11, <2>2
  <2> QED
    <3>1. a \in Addr /\ IsList(q, dataList, node)
          /\ dataList' = (IF dataList = NULL THEN a ELSE dataList)
      BY <1>1, <1>3, <1>7
    <3> QED
      BY <2>1, <2>3, <2>4, <3>1, ListAppended
<1> QED
  BY <1>1, <1>3, <1>7, <1>8, <1>10, <1>11, <1>12, <1>13 DEF AllocatedTo

LEMMA AllocStoreInv ==
    ASSUME StoreInv, NEW c \in Action \cup {NULL}, NEW t \in Type, NEW k \in Key, Alloc(c, t, k)
    PROVE  StoreInv'
<1>0. PICK q, a : AllocatedTo(q, a, c, t, k)
  BY AllocatedNodes
<1>1. /\ RingProofs!IInv'
      /\ a \in Addr /\ a \notin blocks
      /\ \A b \in blocks : header'[b] = header[b]
      /\ header'[a] = [type |-> t, free |-> FALSE]
      /\ blocks' = blocks \cup {a}
      /\ InUse' = InUse \cup {a}
      /\ Ring!BlockWords(t) \in Nat
  BY <1>0 DEF AllocatedTo
<1>2. /\ nextData \in Pointer
      /\ sizeUsed \in Nat
      /\ dataList \in Addr \cup {NULL}
      /\ hook \in [Action -> Addr \cup {NULL}]
      /\ BlocksTyped
      /\ InUse \in SUBSET blocks
  BY StoreTypes
<1>3. /\ dataList' = (IF dataList = NULL THEN a ELSE dataList)
      /\ sizeUsed' = sizeUsed + Ring!BlockWords(t)
      /\ hook' = (IF c = NULL THEN hook ELSE [hook EXCEPT ![c] = a])
      /\ nextData' = nextData
  BY <1>0 DEF AllocatedTo
<1>4. /\ node' \in [Addr -> NodeType]
      /\ node'[a].action = c
      /\ \A x \in blocks : node'[x].action = node[x].action
  BY <1>0 DEF AllocatedTo
<1>5. Elements(q) = InUse
      /\ IsList(Append(q, a), dataList', node') /\ Elements(Append(q, a)) = Elements(q) \cup {a}
  BY <1>0 DEF AllocatedTo
<1>6. TypeOK'
  <2>1. Ring!TypeOK'
    BY <1>1, RingTypesNext
  <2>2. dataList' \in Addr \cup {NULL} /\ nextData' \in Pointer /\ sizeUsed' \in Nat
    BY <1>1, <1>2, <1>3
  <2>3. hook' \in [Action -> Addr \cup {NULL}]
    BY <1>1, <1>2, <1>3
  <2> QED
    BY <1>4, <2>1, <2>2, <2>3 DEF TypeOK, NodeType, Pointer, Addr
<1>7. Chained'
  BY <1>1, <1>5 DEF Chained
<1>8. HooksMutual'
  <2>1. ASSUME NEW d \in Action, hook'[d] # NULL
        PROVE  hook'[d] \in InUse' /\ node'[hook'[d]].action = d
    <3>1. CASE d = c
      <4>1. hook'[d] = a
        BY <1>2, <1>3, <2>1, <3>1, JunkAssumption
      <4> QED
        BY <1>1, <1>4, <3>1, <4>1
    <3>2. CASE d # c
      <4>1. hook'[d] = hook[d]
        BY <1>2, <1>3, <3>2
      <4>2. hook[d] \in InUse /\ node[hook[d]].action = d
        BY <2>1, <4>1 DEF StoreInv, HooksMutual
      <4> QED
        BY <1>1, <1>2, <1>4, <4>1, <4>2
    <3> QED
      BY <3>1, <3>2
  <2> QED
    BY <2>1 DEF HooksMutual
<1>9. BytesAccounted'
  <2>1. IsFiniteSet(blocks') /\ \A b \in blocks' : header'[b].type \in Type
    BY <1>1, RingTypesNext DEF BlocksTyped
  <2>2. WordsOf(header', blocks') = WordsAt(header', a) + WordsOf(header', blocks' \ {a})
    BY <1>1, <2>1, WordsOfRemoved
  <2>3. blocks' \ {a} = blocks
    BY <1>1
  <2>4. WordsOf(header', blocks) = WordsOf(header, blocks)
    BY <1>1, <1>2, WordsOfSame DEF BlocksTyped
  <2>5. WordsAt(header', a) = Ring!BlockWords(t)
    BY <1>1 DEF WordsAt
  <2>6. sizeUsed = WordsOf(header, blocks)
    BY DEF StoreInv, BytesAccounted
  <2>7. sizeUsed' = WordsOf(header', blocks')
    <3>1. WordsOf(header', blocks') = Ring!BlockWords(t) + WordsOf(header, blocks)
      BY <2>2, <2>3, <2>4, <2>5
    <3>2. sizeUsed \in Nat /\ Ring!BlockWords(t) \in Nat /\ sizeUsed' = sizeUsed + Ring!BlockWords(t)
      BY <1>1, <1>2, <1>3
    <3> QED
      BY <2>6, <3>1, <3>2
  <2> QED
    BY <2>7 DEF BytesAccounted
<1> QED
  BY <1>1, <1>6, <1>7, <1>8, <1>9 DEF StoreInv

\* The step frees b, the item at place i of the list q.
FreedFrom(q, b, i) ==
    /\ q = Queue /\ IsList(q, dataList, node) /\ Elements(q) = InUse
    /\ q \in Seq(Addr) /\ Len(q) \in Nat /\ i \in 1 .. Len(q) /\ b = q[i]
    /\ RingProofs!IInv'
    /\ b \in InUse
    /\ Ring!Passed(b) \in SUBSET blocks
    /\ blocks' = blocks \ Ring!Passed(b)
    /\ \A c \in blocks : header'[c].type = header[c].type
    /\ InUse' = InUse \ {b}
    /\ hook' = (IF node[b].action = NULL THEN hook ELSE [hook EXCEPT ![node[b].action] = NULL])
    /\ dataList' = (IF dataList = b THEN node[b].next ELSE dataList)
    /\ sizeUsed' = (IF sizeUsed >= WordsFreed(b) THEN sizeUsed - WordsFreed(b) ELSE sizeUsed)
    /\ nextData' = (IF nextData = node[b].next THEN node[b].next ELSE nextData)
    /\ node' \in [Addr -> NodeType]
    /\ node[b].next \in Addr \cup {NULL}
    /\ node[b].next = IF i = Len(q) THEN NULL ELSE q[i + 1]
    /\ \A x \in Elements(q) \ {b} :
         /\ x \in Addr
         /\ node'[x].next = IF x = node[b].prev THEN node[b].next ELSE node[x].next
         /\ node'[x].prev = IF x = node[b].next THEN node[b].prev ELSE node[x].prev
         /\ node'[x].action = node[x].action /\ node'[x].key = node[x].key
    /\ nextData = b => node'[b].next = node[b].next

\* dataFree() takes one item out of the chain and leaves the others' keys
\* and actions; where the cursor was at the item it is still, and leads on.
LEMMA FreedNodes ==
    ASSUME StoreInv, NEW i \in DOMAIN Queue, Free(Queue[i])
    PROVE  \E q, b : FreedFrom(q, b, i)
<1>1. PICK q : q = Queue /\ IsList(q, dataList, node) /\ Elements(q) = InUse
  BY QueueFacts DEF StoreInv
<1>2. q \in Seq(Addr) /\ Len(q) \in Nat /\ i \in 1 .. Len(q)
  BY <1>1 DEF IsList
<1>3. PICK b : b = q[i]
  OBVIOUS
<1>4. /\ RingProofs!IInv'
      /\ b \in InUse
      /\ Ring!Passed(b) \in SUBSET blocks
      /\ blocks' = blocks \ Ring!Passed(b)
      /\ \A c \in blocks : header'[c].type = header[c].type
      /\ InUse' = InUse \ {b}
  BY <1>1, <1>3, FreeFacts DEF StoreInv, Free
<1>5. /\ node \in [Addr -> NodeType]
      /\ dataList \in Addr \cup {NULL}
      /\ nextData \in Pointer
      /\ sizeUsed \in Nat
      /\ hook \in [Action -> Addr \cup {NULL}]
      /\ BlocksTyped
      /\ InUse \in SUBSET Addr /\ InUse \in SUBSET blocks
  BY StoreTypes
<1>6. /\ hook' = (IF node[b].action = NULL THEN hook ELSE [hook EXCEPT ![node[b].action] = NULL])
      /\ node' = (IF nextData = b THEN Unlinked(b) ELSE Forget(Unlinked(b), b))
      /\ dataList' = (IF dataList = b THEN node[b].next ELSE dataList)
      /\ sizeUsed' = (IF sizeUsed >= WordsFreed(b) THEN sizeUsed - WordsFreed(b) ELSE sizeUsed)
      /\ nextData' = (IF nextData = node[b].next THEN node[b].next ELSE nextData)
  BY <1>1, <1>3 DEF Free
<1>7. /\ node[b].next = IF i = Len(q) THEN NULL ELSE q[i + 1]
      /\ node[b].prev = IF i = 1 THEN NULL ELSE q[i - 1]
      /\ b \in Addr
  BY <1>1, <1>2, <1>3 DEF IsList
<1>8. NULL \notin Addr
  BY BufferAssumption DEF Addr
<1>9. node[b].next \in Addr \cup {NULL} /\ node[b].prev \in Addr \cup {NULL}
  BY <1>2, <1>7
<1>10. node[b].next = node[b].prev => node[b].next \notin Addr
  <2>1. i # Len(q) /\ i # 1 => q[i + 1] # q[i - 1]
    <3>1. i # Len(q) /\ i # 1 => i + 1 \in 1 .. Len(q) /\ i - 1 \in 1 .. Len(q) /\ i + 1 # i - 1
      BY <1>2
    <3> QED
      BY <1>1, <3>1 DEF IsList
  <2> QED
    BY <1>7, <1>8, <2>1
<1> DEFINE un == Unlinked(b)
<1>11. ASSUME NEW x \in Addr
       PROVE  /\ un[x] \in NodeType
              /\ un[x].next = IF x = node[b].prev THEN node[b].next ELSE node[x].next
              /\ un[x].prev = IF x = node[b].next THEN node[b].prev ELSE node[x].prev
              /\ un[x].action = node[x].action /\ un[x].key = node[x].key
  <2>1. PICK o \in NodeType : o = node[x]
    BY <1>5
  <2>2. node[b].next \in Pointer /\ node[b].prev \in Pointer
    BY <1>9 DEF Pointer
  <2>3. CASE x = node[b].prev
    <3>1. un[x] = [o EXCEPT !.next = node[b].next] /\ x # node[b].next
      BY <1>10, <2>1, <2>3 DEF Unlinked
    <3> HIDE DEF un
    <3> QED
      BY <2>1, <2>2, <2>3, <3>1 DEF NodeType
  <2>4. CASE x = node[b].next
    <3>1. un[x] = [o EXCEPT !.prev = node[b].prev] /\ x # node[b].prev
      BY <1>10, <2>1, <2>4 DEF Unlinked
    <3> HIDE DEF un
    <3> QED
      BY <2>1, <2>2, <2>4, <3>1 DEF NodeType
  <2>5. CASE x # node[b].prev /\ x # node[b].next
    <3>1. un[x] = o
      BY <2>1, <2>5 DEF Unlinked
    <3> HIDE DEF un
    <3> QED
      BY <2>1, <2>5, <3>1
  <2> QED
    BY <2>3, <2>4, <2>5
<1>12. un \in [Addr -> NodeType]
  <2>1. un = [x \in Addr |-> un[x]]
    BY DEF Unlinked
  <2> HIDE DEF un
  <2> QED
    BY <1>11, <2>1
<1>13. node' \in [Addr -> NodeType] /\ \A x \in Addr : x # b => node'[x] = un[x]
  <2>1. node' = un \/ node' = Forget(un, b)
    BY <1>6
  <2> HIDE DEF un
  <2> QED
    BY <1>12, <2>1, ForgetFacts
<1> HIDE DEF un
<1>14. \A x \in Elements(q) \ {b} :
          /\ x \in Addr
          /\ node'[x].next = IF x = node[b].prev THEN node[b].next ELSE node[x].next
          /\ node'[x].prev = IF x = node[b].next THEN node[b].prev ELSE node[x].prev
          /\ node'[x].action = node[x].action /\ node'[x].key = node[x].key
  <2>1. \A x \in Elements(q) \ {b} : x \in Addr /\ x # b
    BY <1>1, <1>5
  <2> QED
    BY <1>11, <1>13, <2>1
<1>15. nextData = b => node'[b].next = node[b].next
  <2>1. b # node[b].prev
    <3>1. i # 1 => i - 1 \in 1 .. Len(q) /\ q[i - 1] # q[i]
      BY <1>1, <1>2 DEF IsList
    <3> QED
      BY <1>3, <1>7, <1>8, <3>1
  <2> QED
    BY <1>6, <1>7, <1>11, <2>1 DEF un
<1>16. FreedFrom(q, b, i)
  BY <1>1, <1>2, <1>3, <1>4, <1>6, <1>7, <1>9, <1>13, <1>14, <1>15 DEF FreedFrom
<1> QED
  BY <1>16

LEMMA FreeStoreInv ==
    ASSUME StoreInv, NEW i \in DOMAIN Queue, Free(Queue[i])
    PROVE  StoreInv'
<1>0. PICK q, b : FreedFrom(q, b, i)
  BY FreedNodes
<1>1. /\ q = Queue /\ IsList(q, dataList, node) /\ Elements(q) = InUse
      /\ q \in Seq(Addr) /\ Len(q) \in Nat /\ i \in 1 .. Len(q) /\ b = q[i]
      /\ RingProofs!IInv'
      /\ b \in InUse
      /\ Ring!Passed(b) \in SUBSET blocks
      /\ blocks' = blocks \ Ring!Passed(b)
      /\ \A c \in blocks : header'[c].type = header[c].type
      /\ InUse' = InUse \ {b}
      /\ hook' = (IF node[b].action = NULL THEN hook ELSE [hook EXCEPT ![node[b].action] = NULL])
      /\ dataList' = (IF dataList = b THEN node[b].next ELSE dataList)
      /\ sizeUsed' = (IF sizeUsed >= WordsFreed(b) THEN sizeUsed - WordsFreed(b) ELSE sizeUsed)
      /\ nextData' = (IF nextData = node[b].next THEN node[b].next ELSE nextData)
      /\ node' \in [Addr -> NodeType]
      /\ node[b].next \in Addr \cup {NULL}
      /\ \A x \in Elements(q) \ {b} :
           /\ x \in Addr
           /\ node'[x].next = IF x = node[b].prev THEN node[b].next ELSE node[x].next
           /\ node'[x].prev = IF x = node[b].next THEN node[b].prev ELSE node[x].prev
           /\ node'[x].action = node[x].action
  BY <1>0 DEF FreedFrom
<1>2. /\ node \in [Addr -> NodeType]
      /\ dataList \in Addr \cup {NULL}
      /\ nextData \in Pointer
      /\ sizeUsed \in Nat
      /\ hook \in [Action -> Addr \cup {NULL}]
      /\ BlocksTyped
      /\ InUse \in SUBSET Addr /\ InUse \in SUBSET blocks
  BY StoreTypes
<1>3. WordsFreed(b) = WordsOf(header, Ring!Passed(b)) /\ WordsFreed(b) \in Nat
       /\ sizeUsed = WordsFreed(b) + WordsOf(header, blocks \ Ring!Passed(b))
       /\ WordsOf(header, blocks \ Ring!Passed(b)) \in Nat
  <2>1. IsFiniteSet(blocks) /\ \A c \in blocks : header[c].type \in Type
    BY <1>2 DEF BlocksTyped
  <2>2. WordsOf(header, blocks) = WordsOf(header, Ring!Passed(b)) + WordsOf(header, blocks \ Ring!Passed(b))
    BY <1>1, <2>1, WordsOfSplit
  <2>3. ASSUME NEW S \in SUBSET blocks PROVE WordsOf(header, S) \in Nat
    BY <2>1, FS_Subset, WordsOfFacts
  <2>4. WordsOf(header, Ring!Passed(b)) \in Nat /\ WordsOf(header, blocks \ Ring!Passed(b)) \in Nat
    BY <1>1, <2>3
  <2>5. sizeUsed = WordsOf(header, blocks) /\ WordsFreed(b) = WordsOf(header, Ring!Passed(b))
    BY DEF StoreInv, BytesAccounted, WordsFreed
  <2> QED
    BY <2>2, <2>4, <2>5
<1>4. sizeUsed' = WordsOf(header, blocks \ Ring!Passed(b)) /\ sizeUsed' \in Nat
  <2>1. ASSUME NEW w \in Nat, NEW r \in Nat, NEW u, u = w + r
        PROVE  u >= w /\ u - w = r
    BY <2>1
  <2>2. sizeUsed' = (IF sizeUsed >= WordsFreed(b) THEN sizeUsed - WordsFreed(b) ELSE sizeUsed)
    BY <1>1
  <2> QED
    BY <1>3, <2>1, <2>2
<1>5. hook' \in [Action -> Addr \cup {NULL}]
       /\ \A d \in Action : hook'[d] = IF d = node[b].action THEN NULL ELSE hook[d]
  <2>1. NULL \notin Action /\ node[b].action \in Action \cup {NULL}
    BY <1>1, <1>2, JunkAssumption DEF NodeType
  <2> QED
    BY <1>1, <1>2, <2>1
<1>6. TypeOK'
  <2>1. Ring!TypeOK'
    BY <1>1, RingTypesNext
  <2>2. dataList' \in Addr \cup {NULL} /\ nextData' \in Pointer
    BY <1>1, <1>2 DEF Pointer
  <2> QED
    BY <1>1, <1>4, <1>5, <2>1, <2>2 DEF TypeOK, NodeType, Pointer, Addr
<1>7. Chained'
  <2>1. dataList' = (IF dataList = q[i] THEN node[q[i]].next ELSE dataList)
    BY <1>1
  <2>2. PICK r : IsList(r, dataList', node') /\ Elements(r) = Elements(q) \ {b}
    <3>1. IsList(q, dataList, node) /\ i \in 1 .. Len(q)
      BY <1>1
    <3>2. \A x \in Elements(q) \ {q[i]} :
            /\ node'[x].next = IF x = node[q[i]].prev THEN node[q[i]].next ELSE node[x].next
            /\ node'[x].prev = IF x = node[q[i]].next THEN node[q[i]].prev ELSE node[x].prev
      BY <1>1
    <3>3. \E r : IsList(r, dataList', node') /\ Elements(r) = Elements(q) \ {q[i]}
      BY <2>1, <3>1, <3>2, ListUnlinked
    <3> QED
      BY <1>1, <3>3
  <2> QED
    BY <1>1, <2>2 DEF Chained
<1>8. HooksMutual'
  <2>1. ASSUME NEW d \in Action, hook'[d] # NULL
        PROVE  hook'[d] \in InUse' /\ node'[hook'[d]].action = d
    <3>1. hook'[d] = hook[d] /\ d # node[b].action
      BY <1>5, <2>1
    <3>2. hook[d] \in InUse /\ node[hook[d]].action = d
      BY <2>1, <3>1 DEF StoreInv, HooksMutual
    <3>3. hook[d] # b
      BY <3>1, <3>2
    <3> QED
      BY <1>1, <3>1, <3>2, <3>3
  <2> QED
    BY <2>1 DEF HooksMutual
<1>9. BytesAccounted'
  <2>1. IsFiniteSet(blocks') /\ \A c \in blocks' : header[c].type \in Type /\ header'[c].type = header[c].type
    BY <1>1, <1>2, FS_Subset DEF BlocksTyped
  <2>2. WordsOf(header', blocks') = WordsOf(header, blocks')
    BY <2>1, WordsOfSame
  <2>3. sizeUsed' = WordsOf(header', blocks')
    BY <1>1, <1>4, <2>2
  <2> QED
    BY <2>3 DEF BytesAccounted
<1> QED
  BY <1>1, <1>6, <1>7, <1>8, <1>9 DEF StoreInv

\* What leaves the allocator alone, keeps the chain and changes the pointers
\* to and from actions together.
LEMMA KeptStoreInv ==
    ASSUME StoreInv, UNCHANGED <<ring, sizeUsed>>,
           StillChained(InUse, node', [root |-> dataList', node |-> node']),
           nextData' \in Pointer,
           hook' \in [Action -> Addr \cup {NULL}],
           \A d \in Action : hook'[d] # NULL =>
              hook'[d] = hook[d] /\ node'[hook[d]].action = node[hook[d]].action
    PROVE  StoreInv'
<1>1. RingProofs!IInv'
  <2>1. UNCHANGED RingProofs!vars
    BY DEF ring, RingProofs!vars
  <2> QED
    BY <2>1, RingAssumptions, RingProofs!StepIInv DEF StoreInv
<1>2. UNCHANGED <<header, blocks>> /\ InUse' = InUse
  BY DEF ring, InUse
<1>3. PICK r : IsList(r, dataList', node') /\ Elements(r) = InUse /\ node' \in [Addr -> NodeType]
  BY DEF StillChained
<1>4. Chained'
  BY <1>2, <1>3 DEF Chained
<1>5. HooksMutual'
  BY <1>2 DEF StoreInv, HooksMutual
<1>6. BytesAccounted'
  <2>1. sizeUsed = WordsOf(header, blocks)
    BY DEF StoreInv, BytesAccounted
  <2>2. sizeUsed' = WordsOf(header', blocks')
    BY <1>2, <2>1
  <2> QED
    BY <2>2 DEF BytesAccounted
<1>7. TypeOK'
  <2>1. Ring!TypeOK'
    BY <1>1, RingTypesNext
  <2>2. dataList' \in Addr \cup {NULL}
    BY <1>3 DEF IsList
  <2>3. sizeUsed' \in Nat
    BY StoreTypes
  <2> QED
    BY <1>3, <2>1, <2>2, <2>3 DEF TypeOK, NodeType, Pointer, Addr
<1> QED
  BY <1>1, <1>4, <1>5, <1>6, <1>7 DEF StoreInv

LEMMA StoreChained ==
    ASSUME StoreInv
    PROVE  StillChained(InUse, node, [root |-> dataList, node |-> node])
<1>1. node \in [Addr -> NodeType] /\ Chained
  BY StoreTypes DEF StoreInv
<1> QED
  BY <1>1 DEF StillChained, Chained

\* Forgetting what the cursor leaves behind touches no item in use.
LEMMA ForgetKeeps ==
    ASSUME StoreInv, NEW s, StillChained(InUse, node, s)
    PROVE  /\ \A root2, n2 : root2 = s.root /\ n2 = Forget(s.node, Stale) =>
                StillChained(InUse, n2, [root |-> root2, node |-> n2])
           /\ \A x \in InUse : Forget(s.node, Stale)[x].action = node[x].action
<1> DEFINE n == Forget(s.node, Stale)
<1>1. Stale \notin InUse /\ InUse \in SUBSET Addr
  <2>1. InUse \in SUBSET Addr /\ NULL \notin Addr
    BY StoreTypes DEF BlocksTyped
  <2> QED
    BY <2>1 DEF Stale
<1>2. s.node \in [Addr -> NodeType] /\ \A x \in Addr : s.node[x].action = node[x].action
  BY DEF StillChained
<1>3. n \in [Addr -> NodeType] /\ \A x \in Addr : x # Stale => n[x] = s.node[x]
  BY <1>2, ForgetFacts
<1> HIDE DEF n
<1>4. \A x \in InUse : n[x] = s.node[x]
  BY <1>1, <1>3
<1>5. PICK r : IsList(r, s.root, s.node) /\ Elements(r) = InUse
  BY DEF StillChained
<1>6. IsList(r, s.root, n)
  BY <1>4, <1>5, ListKept
<1>7. StillChained(InUse, n, [root |-> s.root, node |-> n])
  BY <1>3, <1>5, <1>6 DEF StillChained
<1> QED
  BY <1>1, <1>2, <1>4, <1>7 DEF n

LEMMA ReuseStoreInv ==
    ASSUME StoreInv, NEW c \in Action, ReuseAction(c)
    PROVE  StoreInv'
<1>1. /\ hook[c] # NULL
      /\ node' = [node EXCEPT ![hook[c]].action = NULL]
      /\ hook' = [hook EXCEPT ![c] = NULL]
      /\ UNCHANGED <<ring, dataList, nextData, sizeUsed>>
  BY DEF ReuseAction
<1>2. hook[c] \in InUse /\ node[hook[c]].action = c
  BY <1>1 DEF StoreInv, HooksMutual
<1>3. /\ node \in [Addr -> NodeType] /\ hook \in [Action -> Addr \cup {NULL}]
      /\ nextData \in Pointer /\ InUse \in SUBSET Addr
  BY StoreTypes
<1>4. PICK o \in NodeType : o = node[hook[c]]
  BY <1>2, <1>3
<1> DEFINE new == [o EXCEPT !.action = NULL]
<1>5. new \in NodeType /\ new.next = o.next /\ new.prev = o.prev
  BY DEF NodeType
<1>6. node' = [node EXCEPT ![hook[c]] = new]
  BY <1>1, <1>4
<1> HIDE DEF new
<1>7. /\ node' \in [Addr -> NodeType]
      /\ \A x \in Addr : node'[x].next = node[x].next /\ node'[x].prev = node[x].prev
      /\ \A x \in Addr : x # hook[c] => node'[x] = node[x]
  BY <1>2, <1>3, <1>4, <1>5, <1>6
<1>8. PICK q : IsList(q, dataList, node) /\ Elements(q) = InUse
  BY DEF StoreInv, Chained
<1>9. IsList(q, dataList', node')
  <2>1. \A x \in Elements(q) : node'[x].next = node[x].next /\ node'[x].prev = node[x].prev
    BY <1>3, <1>7, <1>8
  <2>2. IsList(q, dataList, node')
    BY <1>8, <2>1, ListKept
  <2> QED
    BY <1>1, <2>2
<1>10. StillChained(InUse, node', [root |-> dataList', node |-> node'])
  BY <1>7, <1>8, <1>9 DEF StillChained
<1>11. ASSUME NEW d \in Action, hook'[d] # NULL
       PROVE  hook'[d] = hook[d] /\ node'[hook[d]].action = node[hook[d]].action
  <2>1. d # c /\ hook'[d] = hook[d]
    BY <1>1, <1>3, <1>11
  <2>2. hook[d] \in InUse /\ node[hook[d]].action = d
    BY <1>11, <2>1 DEF StoreInv, HooksMutual
  <2> QED
    BY <1>2, <1>3, <1>7, <2>1, <2>2
<1>12. hook' \in [Action -> Addr \cup {NULL}] /\ nextData' \in Pointer
  BY <1>1, <1>3
<1> QED
  BY <1>1, <1>10, <1>11, <1>12, KeptStoreInv

\* The steps that move the cursor: a sort, pDataFirst() and pDataNext().
LEMMA CursorStoreInv ==
    ASSUME StoreInv, NEW s, StillChained(InUse, node, s),
           node' = Forget(s.node, Stale), dataList' = s.root,
           nextData' \in Pointer, UNCHANGED <<ring, sizeUsed, hook>>
    PROVE  StoreInv'
<1>1. /\ StillChained(InUse, node', [root |-> dataList', node |-> node'])
      /\ \A x \in InUse : node'[x].action = node[x].action
  BY ForgetKeeps
<1>2. hook' \in [Action -> Addr \cup {NULL}]
  BY StoreTypes
<1>3. \A d \in Action : hook'[d] # NULL =>
         hook'[d] = hook[d] /\ node'[hook[d]].action = node[hook[d]].action
  BY <1>1 DEF StoreInv, HooksMutual
<1> QED
  BY <1>1, <1>2, <1>3, KeptStoreInv

LEMMA SortStoreInv ==
    ASSUME StoreInv, Sort
    PROVE  StoreInv'
<1>1. PICK k \in 0 .. EnoughExchanges :
        /\ node' = Forget(Sorted(k).node, Stale)
        /\ dataList' = Sorted(k).root
        /\ nextData' = dataList'
        /\ UNCHANGED <<ring, sizeUsed, hook>>
  BY DEF Sort
<1>2. k \in Nat
  <2>1. Cardinality(blocks) \in Nat
    BY StoreTypes, FS_CardinalityType DEF BlocksTyped
  <2>2. EnoughExchanges \in Int
    BY <2>1 DEF EnoughExchanges
  <2> QED
    BY <2>2
<1>3. PICK s : s = Sorted(k) /\ StillChained(InUse, node, s)
  BY <1>2, StoreChained, SortedFacts DEF AsFound
<1>4. nextData' \in Pointer
  BY <1>1, <1>3 DEF StillChained, IsList, Pointer
<1> QED
  BY <1>1, <1>3, <1>4, CursorStoreInv

LEMMA StepStoreInv == StoreInv /\ [Next]_vars => StoreInv'
<1> SUFFICES ASSUME StoreInv, [Next]_vars
             PROVE  StoreInv'
  OBVIOUS
<1>1. ASSUME NEW c \in Action \cup {NULL}, NEW t \in Type, NEW k \in Key, Alloc(c, t, k)
      PROVE  StoreInv'
  BY <1>1, AllocStoreInv
<1>2. ASSUME NEW i \in DOMAIN Queue, Free(Queue[i])
      PROVE  StoreInv'
  BY <1>2, FreeStoreInv
<1>3. ASSUME NEW c \in Action, ReuseAction(c)
      PROVE  StoreInv'
  BY <1>3, ReuseStoreInv
<1>4. CASE Sort
  BY <1>4, SortStoreInv
<1> DEFINE here == [root |-> dataList, node |-> node]
<1>5. StillChained(InUse, node, here) /\ here.root = dataList /\ here.node = node
  BY StoreChained
<1> HIDE DEF here
<1>6. /\ dataList \in Pointer
      /\ nextData \in Addr => node[nextData].next \in Pointer
  BY StoreTypes DEF NodeType, Pointer
<1>7. CASE First
  BY <1>5, <1>6, <1>7, CursorStoreInv DEF First
<1>8. CASE Advance
  BY <1>5, <1>6, <1>8, CursorStoreInv DEF Advance
<1>9. CASE UNCHANGED vars
  <2>1. UNCHANGED <<ring, node, dataList, nextData, sizeUsed, hook>>
    BY <1>9 DEF vars
  <2>2. StillChained(InUse, node', [root |-> dataList', node |-> node'])
    BY <2>1, StoreChained
  <2>3. nextData' \in Pointer /\ hook' \in [Action -> Addr \cup {NULL}]
    BY <2>1, StoreTypes
  <2> QED
    BY <2>1, <2>2, <2>3, KeptStoreInv
<1> QED
  BY <1>1, <1>2, <1>3, <1>4, <1>7, <1>8, <1>9 DEF Next

LEMMA SpecStoreInv == Spec => []StoreInv
  BY InitStoreInv, StepStoreInv, PTL DEF Spec

\* Every pointer of the queue is an address, NULL or one that was read from
\* memory given to other data; the first item is never one of those.
THEOREM StoreTypeCorrect == Spec => []TypeOK
<1>1. StoreInv => TypeOK
  BY DEF StoreInv
<1> QED
  BY <1>1, SpecStoreInv, PTL

\* However items are made, freed out of order, sorted (to the end or not)
\* and their actions reused, the list holds exactly the items not freed and
\* can be followed both ways, actions and items point at one another or not
\* at all, and gDataSizeUsed is the words of the ring not yet reclaimed
\* (dataFree(), pDataAlloc(), sort(), writeAction()).
THEOREM StoreIsSound == Spec => []StoreSound
<1>1. StoreInv => ListSound
  <2> SUFFICES ASSUME StoreInv PROVE ListSound
    OBVIOUS
  <2>1. IsList(Queue, dataList, node) /\ Elements(Queue) = InUse
    BY QueueFacts DEF StoreInv
  <2>2. Queue \in Seq(Addr) /\ DOMAIN Queue = 1 .. Len(Queue)
    BY <2>1 DEF IsList
  <2>3. Len(Queue) = Cardinality(InUse)
    BY <2>1, ListLength DEF IsList
  <2>4. Range(Queue) = InUse
    BY <2>1, <2>2 DEF Range, Elements
  <2> QED
    BY <2>1, <2>2, <2>3, <2>4 DEF ListSound, IsList
<1>2. StoreInv => StoreSound
  BY <1>1 DEF StoreInv, StoreSound
<1> QED
  BY <1>2, SpecStoreInv, PTL

-----------------------------------------------------------------------------
\* An entry with an item after a step is plural then if it was, or if the
\* step gave it an item while it had another.
LEMMA NotedFacts ==
    ASSUME Noted, NEW c \in Action \ plural', NEW b \in InUse', node'[b].action = c
    PROVE  c \notin plural /\ ~(hook[c] # NULL /\ hook'[c] \notin {NULL, hook[c]})
<1>1. Naming(c)' # {}
  BY DEF Naming
<1> QED
  BY <1>1 DEF Noted

\* What makes no item and gives no item another action keeps them both ways
\* if it leaves the pointers of the actions that still have items.
LEMMA HooksKept ==
    ASSUME HooksBothWays, Noted,
           \A c \in Action : \A b \in InUse' : node'[b].action = c =>
              b \in InUse /\ node[b].action = c /\ hook'[c] = hook[c]
    PROVE  HooksBothWays'
<1> SUFFICES ASSUME NEW c \in Action \ plural', NEW b \in InUse', node'[b].action = c
             PROVE  hook'[c] = b
  BY DEF HooksBothWays
<1>1. c \notin plural
  BY NotedFacts
<1> QED
  BY <1>1 DEF HooksBothWays

\* The one a new item points at pointed at nothing, or is plural now.
LEMMA AllocHooks ==
    ASSUME StoreInv, HooksBothWays, Noted,
           NEW c \in Action \cup {NULL}, NEW t \in Type, NEW k \in Key, Alloc(c, t, k)
    PROVE  HooksBothWays'
<1>1. PICK q, a : AllocatedTo(q, a, c, t, k)
  BY AllocatedNodes
<1>2. /\ a \notin blocks /\ InUse' = InUse \cup {a}
      /\ hook' = (IF c = NULL THEN hook ELSE [hook EXCEPT ![c] = a])
      /\ node'[a].action = c
      /\ \A x \in blocks : node'[x].action = node[x].action
  BY <1>1 DEF AllocatedTo
<1>3. /\ hook \in [Action -> Addr \cup {NULL}] /\ InUse \in SUBSET blocks
      /\ a \in Addr /\ NULL \notin Addr /\ NULL \notin Action
  BY <1>1, StoreTypes, JunkAssumption DEF AllocatedTo, BlocksTyped
<1> SUFFICES ASSUME NEW d \in Action \ plural', NEW b \in InUse', node'[b].action = d
             PROVE  hook'[d] = b
  BY DEF HooksBothWays
<1>4. d \notin plural /\ ~(hook[d] # NULL /\ hook'[d] \notin {NULL, hook[d]})
  BY NotedFacts
<1>5. CASE b = a
  BY <1>2, <1>3, <1>5
<1>6. CASE b # a
  <2>1. b \in InUse /\ node[b].action = d
    BY <1>2, <1>3, <1>6
  <2>2. hook[d] = b /\ b # NULL
    BY <1>3, <1>4, <2>1, StoreTypes DEF HooksBothWays
  <2>3. c = d => hook'[d] = a /\ a # NULL
    BY <1>2, <1>3
  <2>4. c # d => hook'[d] = hook[d]
    BY <1>2, <1>3
  <2> QED
    BY <1>4, <1>6, <2>2, <2>3, <2>4
<1> QED
  BY <1>5, <1>6

\* The item freed is the only one of its action.
LEMMA FreeHooks ==
    ASSUME StoreInv, HooksBothWays, Noted, NEW i \in DOMAIN Queue, Free(Queue[i])
    PROVE  HooksBothWays'
<1>1. PICK q, b : FreedFrom(q, b, i)
  BY FreedNodes
<1>2. /\ Elements(q) = InUse /\ b \in InUse /\ InUse' = InUse \ {b}
      /\ hook' = (IF node[b].action = NULL THEN hook ELSE [hook EXCEPT ![node[b].action] = NULL])
      /\ \A x \in Elements(q) \ {b} : node'[x].action = node[x].action
  BY <1>1 DEF FreedFrom
<1>3. hook \in [Action -> Addr \cup {NULL}]
  BY StoreTypes
<1> SUFFICES ASSUME NEW d \in Action \ plural', NEW x \in InUse', node'[x].action = d
             PROVE  hook'[d] = x
  BY DEF HooksBothWays
<1>4. d \notin plural
  BY NotedFacts
<1>5. x \in InUse /\ x # b /\ node[x].action = d
  BY <1>2
<1>6. hook[d] = x
  BY <1>4, <1>5 DEF HooksBothWays
<1>7. node[b].action # d
  BY <1>2, <1>4, <1>5, <1>6 DEF HooksBothWays
<1> QED
  BY <1>2, <1>3, <1>6, <1>7

\* writeAction() takes the item's pointer away with the entry's.
LEMMA ReuseHooks ==
    ASSUME StoreInv, HooksBothWays, Noted, NEW c \in Action, ReuseAction(c)
    PROVE  HooksBothWays'
<1>1. /\ hook[c] # NULL
      /\ node' = [node EXCEPT ![hook[c]].action = NULL]
      /\ hook' = [hook EXCEPT ![c] = NULL]
      /\ UNCHANGED ring
  BY DEF ReuseAction
<1>2. InUse' = InUse
  BY <1>1 DEF ring, InUse
<1>3. /\ node \in [Addr -> NodeType] /\ hook \in [Action -> Addr \cup {NULL}]
      /\ InUse \in SUBSET Addr /\ NULL \notin Action
  BY StoreTypes, JunkAssumption
<1> SUFFICES ASSUME NEW d \in Action \ plural', NEW b \in InUse', node'[b].action = d
             PROVE  hook'[d] = b
  BY DEF HooksBothWays
<1>4. d \notin plural
  BY NotedFacts
<1>5. b # hook[c] /\ node[b].action = d
  <2>1. CASE b = hook[c]
    <3>1. node[b] \in NodeType /\ node'[b] = [node[b] EXCEPT !.action = NULL]
      BY <1>1, <1>2, <1>3, <2>1
    <3>2. node'[b].action = NULL
      BY <3>1 DEF NodeType
    <3> QED
      BY <1>3, <3>2
  <2>2. CASE b # hook[c]
    BY <1>1, <1>2, <1>3, <2>2
  <2> QED
    BY <2>1, <2>2
<1>6. hook[d] = b
  BY <1>2, <1>4, <1>5 DEF HooksBothWays
<1> QED
  BY <1>1, <1>3, <1>5, <1>6

\* The steps that move the cursor leave actions alone.
LEMMA CursorHooks ==
    ASSUME StoreInv, HooksBothWays, Noted, NEW s, StillChained(InUse, node, s),
           node' = Forget(s.node, Stale), UNCHANGED <<ring, hook>>
    PROVE  HooksBothWays'
<1>1. \A x \in InUse : node'[x].action = node[x].action
  BY ForgetKeeps
<1>2. InUse' = InUse
  BY DEF ring, InUse
<1> QED
  BY <1>1, <1>2, HooksKept

LEMMA StepHooks == StoreInv /\ HooksBothWays /\ [HookNext]_<<vars, plural>> => HooksBothWays'
<1> SUFFICES ASSUME StoreInv, HooksBothWays, [HookNext]_<<vars, plural>>
             PROVE  HooksBothWays'
  OBVIOUS
<1>1. CASE UNCHANGED <<vars, plural>>
  BY <1>1 DEF vars, ring, HooksBothWays, InUse
<1> DEFINE here == [root |-> dataList, node |-> node]
<1>2. StillChained(InUse, node, here) /\ here.node = node
  BY StoreChained
<1> HIDE DEF here
<1>3. CASE Next /\ Noted
  <2>1. ASSUME NEW c \in Action \cup {NULL}, NEW t \in Type, NEW k \in Key, Alloc(c, t, k)
        PROVE  HooksBothWays'
    BY <1>3, <2>1, AllocHooks
  <2>2. ASSUME NEW i \in DOMAIN Queue, Free(Queue[i])
        PROVE  HooksBothWays'
    BY <1>3, <2>2, FreeHooks
  <2>3. ASSUME NEW c \in Action, ReuseAction(c)
        PROVE  HooksBothWays'
    BY <1>3, <2>3, ReuseHooks
  <2>4. CASE Sort
    <3>1. PICK k \in 0 .. EnoughExchanges :
             node' = Forget(Sorted(k).node, Stale) /\ UNCHANGED <<ring, sizeUsed, hook>>
      BY <2>4 DEF Sort
    <3>2. k \in Nat
      <4>1. Cardinality(blocks) \in Nat
        BY StoreTypes, FS_CardinalityType DEF BlocksTyped
      <4>2. EnoughExchanges \in Int
        BY <4>1 DEF EnoughExchanges
      <4> QED
        BY <4>2
    <3>3. PICK s : s = Sorted(k) /\ StillChained(InUse, node, s)
      BY <3>2, StoreChained, SortedFacts DEF AsFound
    <3> QED
      BY <1>3, <3>1, <3>3, CursorHooks
  <2>5. CASE First
    BY <1>2, <1>3, <2>5, CursorHooks DEF First
  <2>6. CASE Advance
    BY <1>2, <1>3, <2>6, CursorHooks DEF Advance
  <2> QED
    BY <1>3, <2>1, <2>2, <2>3, <2>4, <2>5, <2>6 DEF Next
<1> QED
  BY <1>1, <1>3 DEF HookNext

\* However items are made, freed out of order and sorted, and entries of the
\* action list reused (writeAction()), an item that points at an action is
\* the one the action points at, for every action that was not given a second
\* item while it had a first: dataFree() never clears another item's pointer.
THEOREM HooksAreBothWays == HookSpec => []HooksBothWays
<1>1. HookInit => StoreInv /\ HooksBothWays
  <2>1. Init => HooksBothWays
    BY DEF Init, Ring!Init, InUse, HooksBothWays
  <2> QED
    BY <2>1, InitStoreInv DEF HookInit
<1>2. StoreInv /\ HooksBothWays /\ [HookNext]_<<vars, plural>> => StoreInv' /\ HooksBothWays'
  <2>1. [HookNext]_<<vars, plural>> => [Next]_vars
    BY DEF HookNext
  <2> QED
    BY <2>1, StepStoreInv, StepHooks
<1> QED
  BY <1>1, <1>2, PTL DEF HookSpec

\* However the queue is used, no item is written over another.
THEOREM StoreNoOverlap == Spec => []RingProofs!BlocksDisjoint
<1>1. StoreInv => RingProofs!BlocksDisjoint
  BY DEF StoreInv, RingProofs!IInv
<1> QED
  BY <1>1, SpecStoreInv, PTL

-----------------------------------------------------------------------------
(* The queue as its callers see it *)

\* The items of a list, with the types of some headers and the keys of some
\* nodes.
Seen(q, h, n) == [i \in DOMAIN q |-> [id |-> q[i], type |-> h[q[i]].type, key |-> n[q[i]].key]]

\* As many of them as the list has, each what its header and its node say.
LEMMA SeenFacts ==
    ASSUME NEW q \in Seq(Addr), NEW h, NEW n, NEW s, s = Seen(q, h, n)
    PROVE  /\ Len(s) = Len(q) /\ DOMAIN s = 1 .. Len(q) /\ Len(q) \in Nat
           /\ DOMAIN q = 1 .. Len(q) /\ s = [i \in 1 .. Len(s) |-> s[i]]
           /\ \A i \in 1 .. Len(q) : s[i] = [id |-> q[i], type |-> h[q[i]].type, key |-> n[q[i]].key]
<1>1. DOMAIN q = 1 .. Len(q) /\ Len(q) \in Nat
  OBVIOUS
<1>2. s = [i \in 1 .. Len(q) |-> [id |-> q[i], type |-> h[q[i]].type, key |-> n[q[i]].key]]
  BY <1>1 DEF Seen
<1>3. DOMAIN s = 1 .. Len(q) /\ Len(s) = Len(q)
  BY <1>1, <1>2
<1> QED
  BY <1>1, <1>2, <1>3

\* What callers see, before a step and after.
LEMMA ItemsSeen == Items = Seen(Queue, header, node) /\ Items' = Seen(Queue', header', node')
BY DEF Items, Seen

\* The first items of a sequence, when they are those of another.
LEMMA FirstPart ==
    ASSUME NEW s, NEW u, Len(s) \in Nat, s = [i \in 1 .. Len(s) |-> s[i]],
           \A i \in 1 .. Len(s) : u[i] = s[i]
    PROVE  SubSeq(u, 1, Len(s)) = s
<1>1. SubSeq(u, 1, Len(s)) = [i \in 1 .. 1 + Len(s) - 1 |-> u[i + 1 - 1]]
  OBVIOUS
<1>2. \A i \in 1 .. 1 + Len(s) - 1 : i \in 1 .. Len(s) /\ u[i + 1 - 1] = s[i]
  OBVIOUS
<1> QED
  BY <1>1, <1>2

\* Every item in use has a key.
KeysHeld == \A b \in InUse : node[b].key \in Key

\* The invariant the refinement rests on.
SeenInv == StoreInv /\ KeysHeld

\* Where no item leaves, comes or changes, callers see the same queue.
LEMMA SeenStays ==
    ASSUME NEW q \in Seq(Addr), NEW h, NEW n, NEW k, NEW m,
           \A i \in 1 .. Len(q) : k[q[i]].type = h[q[i]].type /\ m[q[i]].key = n[q[i]].key
    PROVE  Seen(q, k, m) = Seen(q, h, n)
<1>1. DOMAIN q = 1 .. Len(q)
  OBVIOUS
<1> QED
  BY <1>1 DEF Seen

\* The list is without repetition, and its items are blocks in use.
LEMMA QueueShape ==
    ASSUME StoreInv, NEW q, q = Queue
    PROVE  /\ IsList(q, dataList, node) /\ Elements(q) = InUse
           /\ q \in Seq(Addr) /\ Len(q) \in Nat /\ DOMAIN q = 1 .. Len(q)
           /\ \A i, j \in 1 .. Len(q) : q[i] = q[j] => i = j
           /\ \A i \in 1 .. Len(q) : q[i] \in InUse /\ q[i] \in blocks /\ q[i] \in Addr
           /\ NULL \notin Addr
<1>1. IsList(q, dataList, node) /\ Elements(q) = InUse
  BY QueueFacts DEF StoreInv
<1>2. InUse \in SUBSET blocks /\ NULL \notin Addr
  BY StoreTypes DEF BlocksTyped
<1> QED
  BY <1>1, <1>2 DEF IsList, Elements

\* A chain after a step is the list after it.
LEMMA QueueNext ==
    ASSUME NEW r, IsList(r, dataList', node')
    PROVE  Queue' = r
<1>1. Walk(dataList', node') = r
  BY WalkFindsList
<1> QED
  BY <1>1 DEF Queue

-----------------------------------------------------------------------------
(* pDataAlloc() *)

\* A new item goes to the end of what is seen.
LEMMA AllocSeen ==
    ASSUME SeenInv, NEW c \in Action \cup {NULL}, NEW t \in Type, NEW k \in Key, Alloc(c, t, k),
           Abstract!RoomTaken' <= Size
    PROVE  Abstract!Add /\ KeysHeld'
<1>1. PICK q, a : AllocatedTo(q, a, c, t, k)
  BY AllocatedNodes DEF SeenInv
<1>2. /\ q = Queue /\ a \in Addr /\ a \notin blocks
      /\ \A b \in blocks : header'[b] = header[b] /\ node'[b].key = node[b].key
      /\ node'[a].key = k
      /\ InUse' = InUse \cup {a}
      /\ nextData' = nextData
      /\ IsList(Append(q, a), dataList', node')
  BY <1>1 DEF AllocatedTo
<1>3. PICK r : r = Append(q, a) /\ Queue' = r
  BY <1>2, QueueNext
<1>4. /\ q \in Seq(Addr) /\ Len(q) \in Nat /\ r \in Seq(Addr)
      /\ \A i \in 1 .. Len(q) : q[i] \in blocks
      /\ Len(r) = Len(q) + 1
      /\ \A i \in 1 .. Len(q) : r[i] = q[i]
      /\ r[Len(q) + 1] = a
  BY <1>2, <1>3, QueueShape DEF SeenInv
<1> DEFINE s == Seen(q, header, node)
           u == Seen(r, header', node')
<1>5. /\ Len(s) = Len(q) /\ DOMAIN s = 1 .. Len(q) /\ s = [i \in 1 .. Len(s) |-> s[i]]
      /\ \A i \in 1 .. Len(q) : s[i] = [id |-> q[i], type |-> header[q[i]].type, key |-> node[q[i]].key]
  BY <1>4, SeenFacts
<1>6. /\ Len(u) = Len(r) /\ DOMAIN u = 1 .. Len(r)
      /\ \A i \in 1 .. Len(r) : u[i] = [id |-> r[i], type |-> header'[r[i]].type, key |-> node'[r[i]].key]
  BY <1>4, SeenFacts
<1>s. s = Items /\ u = Items'
  BY <1>2, <1>3, ItemsSeen
<1> HIDE DEF s, u
<1>7. Len(u) = Len(s) + 1 /\ \A i \in 1 .. Len(s) : u[i] = s[i]
  BY <1>2, <1>4, <1>5, <1>6
<1>8. SubSeq(u, 1, Len(s)) = s
  BY <1>4, <1>5, <1>6, <1>7, FirstPart
<1>9. u[Len(s) + 1].id = a /\ a \notin {s[i].id : i \in DOMAIN s}
  BY <1>2, <1>4, <1>5, <1>6
<1>10. Abstract!Add
  BY <1>2, <1>7, <1>8, <1>9, <1>s DEF Abstract!Add, Abstract!Held
<1>11. KeysHeld'
  <2>1. InUse \subseteq blocks
    BY StoreTypes DEF SeenInv
  <2> QED
    BY <1>2, <2>1 DEF SeenInv, KeysHeld
<1> QED
  BY <1>10, <1>11

-----------------------------------------------------------------------------
(* dataFree() *)

\* A sequence without one of its items.
LEMMA CutOut ==
    ASSUME NEW S, NEW s \in Seq(S), NEW u \in Seq(S), NEW i \in 1 .. Len(s), WithoutPlace(u, s, i)
    PROVE  u = SubSeq(s, 1, i - 1) \o SubSeq(s, i + 1, Len(s))
<1> DEFINE before == SubSeq(s, 1, i - 1)
           after == SubSeq(s, i + 1, Len(s))
<1>1. Len(s) \in Nat /\ i \in Nat /\ \A j \in 1 .. Len(s) : s[j] \in S
  OBVIOUS
<1>2. /\ before \in Seq(S) /\ Len(before) = i - 1
      /\ \A j \in 1 .. i - 1 : before[j] = s[j]
  <2>1. \A j \in 1 .. i - 1 : s[j] \in S
    BY <1>1
  <2>2. /\ before \in Seq(S)
        /\ Len(before) = IF 1 <= i - 1 THEN (i - 1) - 1 + 1 ELSE 0
        /\ \A j \in 1 .. (i - 1) - 1 + 1 : before[j] = s[1 + j - 1]
    BY <1>1, <2>1, SubSeqProperties
  <2> QED
    BY <1>1, <2>2
<1>3. /\ after \in Seq(S) /\ Len(after) = Len(s) - i
      /\ \A j \in 1 .. Len(s) - i : after[j] = s[i + j]
  <2>1. \A j \in i + 1 .. Len(s) : s[j] \in S
    BY <1>1
  <2>2. /\ after \in Seq(S)
        /\ Len(after) = IF i + 1 <= Len(s) THEN Len(s) - (i + 1) + 1 ELSE 0
        /\ \A j \in 1 .. Len(s) - (i + 1) + 1 : after[j] = s[(i + 1) + j - 1]
    BY <1>1, <2>1, SubSeqProperties
  <2> QED
    BY <1>1, <2>2
<1> HIDE DEF before, after
<1>4. /\ before \o after \in Seq(S)
      /\ Len(before \o after) = Len(before) + Len(after)
      /\ \A j \in 1 .. Len(before) + Len(after) :
            (before \o after)[j] = IF j <= Len(before) THEN before[j] ELSE after[j - Len(before)]
  BY <1>2, <1>3, ConcatProperties
<1>5. Len(u) = Len(s) - 1 /\ \A j \in 1 .. Len(u) : u[j] = IF j < i THEN s[j] ELSE s[j + 1]
  BY DEF WithoutPlace
<1>6. Len(u) = Len(before \o after)
  BY <1>1, <1>2, <1>3, <1>4, <1>5
<1>7. ASSUME NEW j \in 1 .. Len(u) PROVE u[j] = (before \o after)[j]
  <2>1. CASE j < i
    <3>1. j \in 1 .. i - 1 /\ j \in 1 .. Len(before) + Len(after)
      BY <1>1, <1>2, <1>3, <1>5, <2>1
    <3> QED
      BY <1>2, <1>4, <1>5, <2>1, <3>1
  <2>2. CASE ~ (j < i)
    <3>1. j - (i - 1) \in 1 .. Len(s) - i /\ i + (j - (i - 1)) = j + 1
      BY <1>1, <1>5, <2>2
    <3>2. after[j - (i - 1)] = s[j + 1]
      BY <1>3, <3>1
    <3> QED
      BY <1>1, <1>2, <1>3, <1>4, <1>5, <2>2, <3>2
  <2> QED
    BY <2>1, <2>2
<1>8. u = before \o after
  BY <1>4, <1>6, <1>7, SeqEqual
<1> QED
  BY <1>8 DEF before, after

\* An item freed is taken out of what is seen, wherever it was.
LEMMA FreeSeen ==
    ASSUME SeenInv, NEW i \in DOMAIN Queue, Free(Queue[i])
    PROVE  Abstract!Take /\ KeysHeld'
<1>1. PICK q, b : FreedFrom(q, b, i)
  BY FreedNodes DEF SeenInv
<1>2. /\ q = Queue /\ IsList(q, dataList, node) /\ i \in 1 .. Len(q) /\ b = q[i]
      /\ Elements(q) = InUse
      /\ \A c \in blocks : header'[c].type = header[c].type
      /\ InUse' = InUse \ {b}
      /\ dataList' = (IF dataList = b THEN node[b].next ELSE dataList)
      /\ nextData' = (IF nextData = node[b].next THEN node[b].next ELSE nextData)
      /\ \A x \in Elements(q) \ {b} :
           /\ node'[x].next = IF x = node[b].prev THEN node[b].next ELSE node[x].next
           /\ node'[x].prev = IF x = node[b].next THEN node[b].prev ELSE node[x].prev
           /\ node'[x].key = node[x].key
  BY <1>1 DEF FreedFrom
<1>3. PICK r : IsList(r, dataList', node') /\ Elements(r) = Elements(q) \ {q[i]} /\ WithoutPlace(r, q, i)
  BY <1>2, ListUnlinked
<1>4. Queue' = r
  BY <1>3, QueueNext
<1>5. /\ q \in Seq(Addr) /\ Len(q) \in Nat /\ r \in Seq(Addr) /\ Len(r) \in Nat
      /\ \A j \in 1 .. Len(q) : q[j] \in blocks /\ q[j] \in Elements(q)
      /\ Len(r) = Len(q) - 1
      /\ \A j \in 1 .. Len(r) : r[j] = (IF j < i THEN q[j] ELSE q[j + 1]) /\ r[j] \in Elements(q) \ {b}
  <2>1. r \in Seq(Addr) /\ Len(r) \in Nat /\ \A j \in 1 .. Len(r) : r[j] \in Elements(q) \ {b}
    <3>1. r \in Seq(Addr) /\ Len(r) \in Nat
      BY <1>3 DEF IsList
    <3>2. \A j \in 1 .. Len(r) : r[j] \in Elements(r)
      BY DEF Elements
    <3> QED
      BY <1>2, <1>3, <3>1, <3>2
  <2> QED
    BY <1>2, <1>3, <2>1, QueueShape DEF SeenInv, WithoutPlace, Elements
<1> DEFINE s == Seen(q, header, node)
           u == Seen(r, header', node')
           Held == {s[j] : j \in 1 .. Len(q)}
<1>6. /\ Len(s) = Len(q) /\ DOMAIN s = 1 .. Len(q) /\ s = [j \in 1 .. Len(s) |-> s[j]]
      /\ \A j \in 1 .. Len(q) : s[j] = [id |-> q[j], type |-> header[q[j]].type, key |-> node[q[j]].key]
  BY <1>5, SeenFacts
<1>7. /\ Len(u) = Len(r) /\ DOMAIN u = 1 .. Len(r) /\ u = [j \in 1 .. Len(u) |-> u[j]]
      /\ \A j \in 1 .. Len(r) : u[j] = [id |-> r[j], type |-> header'[r[j]].type, key |-> node'[r[j]].key]
  BY <1>5, SeenFacts
<1>s. s = Items /\ u = Items'
  BY <1>2, <1>4, ItemsSeen
<1> HIDE DEF s, u
<1>8. ASSUME NEW j \in 1 .. Len(r)
      PROVE  u[j] = (IF j < i THEN s[j] ELSE s[j + 1]) /\ u[j] \in Held
  <2>1. r[j] \in blocks /\ r[j] \in Elements(q) \ {b}
    BY <1>5
  <2>2. u[j] = [id |-> r[j], type |-> header[r[j]].type, key |-> node[r[j]].key]
    BY <1>2, <1>7, <2>1
  <2>3. (j < i => j \in 1 .. Len(q)) /\ (~ (j < i) => j + 1 \in 1 .. Len(q))
    BY <1>2, <1>5
  <2> QED
    BY <1>5, <1>6, <2>2, <2>3
<1>9. s \in Seq(Held) /\ u \in Seq(Held)
  <2>1. s \in Seq(Held)
    <3>1. \A j \in 1 .. Len(q) : s[j] \in Held
      OBVIOUS
    <3> HIDE DEF Held
    <3> QED
      BY <1>5, <1>6, <3>1
  <2>2. u \in Seq(Held)
    <3> HIDE DEF Held
    <3> QED
      BY <1>5, <1>7, <1>8
  <2> QED
    BY <2>1, <2>2
<1>10. WithoutPlace(u, s, i)
  BY <1>5, <1>6, <1>7, <1>8 DEF WithoutPlace
<1> HIDE DEF Held
<1>11. i \in 1 .. Len(s) /\ i \in DOMAIN s
  BY <1>2, <1>6
<1>12. u = SubSeq(s, 1, i - 1) \o SubSeq(s, i + 1, Len(s))
  BY <1>9, <1>10, <1>11, CutOut
<1>13. Abstract!Take
  <2>1. nextData' = nextData
    BY <1>2
  <2> QED
    BY <1>11, <1>12, <1>s, <2>1 DEF Abstract!Take
<1>14. KeysHeld'
  BY <1>2 DEF SeenInv, KeysHeld
<1> QED
  BY <1>13, <1>14

-----------------------------------------------------------------------------
(* writeAction(), pDataFirst() and pDataNext() *)

\* Where the items in use keep their places and keys, callers see the same.
LEMMA ItemsStay ==
    ASSUME SeenInv, UNCHANGED <<header, blocks, dataList>>,
           \A x \in InUse : /\ node'[x].next = node[x].next /\ node'[x].prev = node[x].prev
                            /\ node'[x].key = node[x].key
    PROVE  Items' = Items /\ KeysHeld' /\ Queue' = Queue
<1>1. PICK q : q = Queue
  OBVIOUS
<1>2. /\ IsList(q, dataList, node) /\ Elements(q) = InUse /\ q \in Seq(Addr)
      /\ \A i \in 1 .. Len(q) : q[i] \in InUse
  BY <1>1, QueueShape DEF SeenInv
<1>3. IsList(q, dataList, node')
  BY <1>2, ListKept
<1>4. Queue' = q
  BY <1>3, QueueNext
<1>5. Seen(q, header', node') = Seen(q, header, node)
  BY <1>2, SeenStays
<1>6. Items' = Items
  BY <1>1, <1>4, <1>5, ItemsSeen
<1>7. InUse' = InUse
  BY DEF InUse
<1> QED
  BY <1>1, <1>4, <1>6, <1>7 DEF SeenInv, KeysHeld

\* An action entry reused changes nothing that is seen,
LEMMA ReuseSeen ==
    ASSUME SeenInv, NEW c \in Action, ReuseAction(c)
    PROVE  UNCHANGED Abstract!vars /\ KeysHeld'
<1>1. /\ hook[c] # NULL
      /\ node' = [node EXCEPT ![hook[c]].action = NULL]
      /\ UNCHANGED <<ring, dataList, nextData>>
  BY DEF ReuseAction
<1>2. hook[c] \in InUse
  BY <1>1 DEF SeenInv, StoreInv, HooksMutual
<1>3. node \in [Addr -> NodeType] /\ InUse \in SUBSET Addr
  BY StoreTypes DEF SeenInv
<1>4. ASSUME NEW x \in InUse
      PROVE  /\ node'[x].next = node[x].next /\ node'[x].prev = node[x].prev
             /\ node'[x].key = node[x].key
  <2>1. PICK o \in NodeType : o = node[x]
    BY <1>3
  <2>2. node'[x] = IF x = hook[c] THEN [o EXCEPT !.action = NULL] ELSE o
    BY <1>1, <1>2, <1>3, <2>1
  <2> QED
    BY <2>1, <2>2 DEF NodeType
<1>5. UNCHANGED <<header, blocks, dataList>>
  BY <1>1 DEF ring
<1> QED
  BY <1>1, <1>4, <1>5, ItemsStay DEF Abstract!vars

\* What the cursor leaves behind is no item in use.
LEMMA CursorSeen ==
    ASSUME SeenInv, node' = Forget(node, Stale), UNCHANGED <<ring, dataList>>
    PROVE  Items' = Items /\ KeysHeld'
<1>1. node \in [Addr -> NodeType] /\ InUse \in SUBSET Addr /\ NULL \notin Addr
  BY StoreTypes DEF SeenInv, BlocksTyped
<1>2. Stale \notin InUse
  BY <1>1 DEF Stale
<1>3. \A x \in InUse : node'[x] = node[x]
  BY <1>1, <1>2, ForgetFacts
<1>4. UNCHANGED <<header, blocks, dataList>>
  BY DEF ring
<1> QED
  BY <1>3, <1>4, ItemsStay

\* The cursor at the head of what is seen.
LEMMA HeadSeen ==
    ASSUME NEW q \in Seq(Addr), NEW root, NEW n, NEW h, NEW s, s = Seen(q, h, n), IsList(q, root, n)
    PROVE  root = IF s = <<>> THEN NULL ELSE s[1].id
<1>1. /\ Len(s) = Len(q) /\ Len(q) \in Nat /\ s = [i \in 1 .. Len(s) |-> s[i]]
      /\ \A i \in 1 .. Len(q) : s[i].id = q[i]
  <2>1. /\ Len(s) = Len(q) /\ Len(q) \in Nat /\ s = [i \in 1 .. Len(s) |-> s[i]]
        /\ \A i \in 1 .. Len(q) : s[i] = [id |-> q[i], type |-> h[q[i]].type, key |-> n[q[i]].key]
    BY SeenFacts
  <2> QED
    BY <2>1
<1>2. root = IF Len(q) = 0 THEN NULL ELSE q[1]
  BY DEF IsList
<1>3. Len(s) = 0 <=> s = <<>>
  BY <1>1
<1> QED
  BY <1>1, <1>2, <1>3

\* pDataFirst() moves the cursor to the head,
LEMMA FirstSeen ==
    ASSUME SeenInv, First
    PROVE  Abstract!Rewind /\ KeysHeld'
<1>1. Items' = Items /\ KeysHeld' /\ nextData' = dataList
  BY CursorSeen DEF First
<1>2. IsList(Queue, dataList, node) /\ Queue \in Seq(Addr)
  BY QueueShape DEF SeenInv
<1>3. dataList = IF Items = <<>> THEN NULL ELSE Items[1].id
  BY <1>2, HeadSeen, ItemsSeen
<1> QED
  BY <1>1, <1>3 DEF Abstract!Rewind

\* and pDataNext() to the item that follows, if its item is still there.
LEMMA AdvanceSeen ==
    ASSUME SeenInv, Advance
    PROVE  Abstract!Advance /\ KeysHeld'
<1>1. Items' = Items /\ KeysHeld' /\ nextData' = node[nextData].next /\ nextData \in Addr
  BY CursorSeen DEF Advance
<1>2. PICK q : q = Queue
  OBVIOUS
<1>3. IsList(q, dataList, node) /\ q \in Seq(Addr) /\ NULL \notin Addr
  BY <1>2, QueueShape DEF SeenInv
<1>4. PICK s : s = Items
  OBVIOUS
<1>5. /\ Len(s) = Len(q) /\ DOMAIN s = 1 .. Len(q) /\ Len(q) \in Nat
      /\ \A i \in 1 .. Len(q) : s[i].id = q[i]
  <2>1. /\ Len(s) = Len(q) /\ DOMAIN s = 1 .. Len(q) /\ Len(q) \in Nat
        /\ \A i \in 1 .. Len(q) : s[i] = [id |-> q[i], type |-> header[q[i]].type, key |-> node[q[i]].key]
    BY <1>2, <1>3, <1>4, SeenFacts, ItemsSeen
  <2> QED
    BY <2>1
<1>6. ASSUME NEW i \in DOMAIN s, s[i].id = nextData
      PROVE  nextData' = IF i = Len(s) THEN NULL ELSE s[i + 1].id
  <2>1. i \in 1 .. Len(q) /\ nextData = q[i]
    BY <1>5, <1>6
  <2>2. nextData' = IF i = Len(q) THEN NULL ELSE q[i + 1]
    BY <1>1, <1>3, <2>1 DEF IsList
  <2> QED
    BY <1>5, <2>1, <2>2
<1>7. nextData # NULL
  BY <1>1, <1>3
<1> QED
  BY <1>1, <1>4, <1>6, <1>7 DEF Abstract!Advance

-----------------------------------------------------------------------------
(* pDataSort() *)

\* Of two items of q in order, the greater key or an equal one first, the
\* first is still first in r.
OrderKept(q, r, n) ==
    \A i, j \in 1 .. Len(q) : i < j /\ n[q[i]].key >= n[q[j]].key =>
        \E k, m \in 1 .. Len(r) : k < m /\ r[k] = q[i] /\ r[m] = q[j]

\* The chain as sort() may leave it, by the order of the items.
SortedFrom(q, n, s) ==
    /\ \E r : /\ IsList(r, s.root, s.node)
              /\ Elements(r) = Elements(q)
              /\ Len(r) = Len(q)
              /\ OrderKept(q, r, n)
    /\ s.node \in [Addr -> NodeType]
    /\ \A x \in Addr : s.node[x].key = n[x].key

\* Neighbours out of order exchanged: no two in order change places.
LEMMA ExchangeKeepsOrder ==
    ASSUME NEW q \in Seq(Addr), NEW n, \A i \in 1 .. Len(q) : n[q[i]].key \in Int,
           NEW r \in Seq(Addr), OrderKept(q, r, n), \A i, j \in 1 .. Len(r) : r[i] = r[j] => i = j,
           NEW k \in 1 .. Len(r), k # Len(r), n[r[k + 1]].key > n[r[k]].key,
           NEW t, PlacesExchanged(t, r, k)
    PROVE  OrderKept(q, t, n)
<1> DEFINE at(j) == IF j = k THEN k + 1 ELSE IF j = k + 1 THEN k ELSE j
<1>1. Len(r) \in Nat /\ Len(t) = Len(r) /\ \A j \in 1 .. Len(r) : t[j] = r[at(j)]
  BY DEF PlacesExchanged
<1>2. ASSUME NEW j \in 1 .. Len(r) PROVE at(j) \in 1 .. Len(r) /\ t[at(j)] = r[j]
  <2>1. at(j) \in 1 .. Len(r) /\ at(at(j)) = j
    BY <1>1
  <2> HIDE DEF at
  <2> QED
    BY <1>1, <2>1
<1>3. ASSUME NEW i \in 1 .. Len(q), NEW j \in 1 .. Len(q), i < j, n[q[i]].key >= n[q[j]].key
      PROVE  \E a, b \in 1 .. Len(t) : a < b /\ t[a] = q[i] /\ t[b] = q[j]
  <2>1. PICK a \in 1 .. Len(r), b \in 1 .. Len(r) : a < b /\ r[a] = q[i] /\ r[b] = q[j]
    BY <1>3 DEF OrderKept
  <2>2. ~ (a = k /\ b = k + 1)
    <3>1. SUFFICES ASSUME a = k, b = k + 1 PROVE FALSE
      OBVIOUS
    <3>2. n[q[j]].key > n[q[i]].key
      BY <2>1, <3>1
    <3>3. n[q[i]].key \in Int /\ n[q[j]].key \in Int
      OBVIOUS
    <3> QED
      BY <1>3, <3>2, <3>3
  <2>3. at(a) < at(b)
    BY <1>1, <2>1, <2>2
  <2>4. /\ at(a) \in 1 .. Len(t) /\ at(b) \in 1 .. Len(t)
        /\ t[at(a)] = q[i] /\ t[at(b)] = q[j]
    BY <1>1, <1>2, <2>1
  <2> HIDE DEF at
  <2> QED
    BY <2>3, <2>4
<1> QED
  BY <1>3 DEF OrderKept

\* One exchange of sort() keeps the order,
LEMMA SortStepOrder ==
    ASSUME NEW q \in Seq(Addr), NEW n, \A i \in 1 .. Len(q) : n[q[i]].key \in Int,
           NEW s, SortedFrom(q, n, s)
    PROVE  SortedFrom(q, n, SortStep(s))
<1>1. PICK r : /\ IsList(r, s.root, s.node) /\ Elements(r) = Elements(q) /\ Len(r) = Len(q)
               /\ OrderKept(q, r, n)
  BY DEF SortedFrom
<1>2. Walk(s.root, s.node) = r /\ r \in Seq(Addr) /\ Len(r) \in Nat
      /\ \A i, j \in 1 .. Len(r) : r[i] = r[j] => i = j
  <2>1. Walk(s.root, s.node) = r
    BY <1>1, WalkFindsList
  <2>2. r \in Seq(Addr) /\ \A i, j \in 1 .. Len(r) : r[i] = r[j] => i = j
    BY <1>1 DEF IsList
  <2> QED
    BY <2>1, <2>2
<1> DEFINE late == {i \in 1 .. Len(r) : OutOfOrder(s.node, r[i])}
<1>3. CASE late = {}
  <2>1. SortStep(s) = s
    BY <1>2, <1>3 DEF SortStep
  <2> QED
    BY <2>1
<1>4. CASE late # {}
  <2>1. late \in SUBSET Nat
    BY <1>2
  <2>2. Min(late) \in late
    <3> HIDE DEF late
    <3> QED
      BY <1>4, <2>1, LeastNumber DEF Min
  <2>3. PICK k \in 1 .. Len(r) : k = Min(late) /\ OutOfOrder(s.node, r[k])
    BY <2>2
  <2> DEFINE t == SortStep(s)
  <2>4. /\ t.root = IF r[k] = s.root THEN s.node[r[k]].next ELSE s.root
        /\ t.node = Exchanged(s.node, r[k])
    BY <1>2, <1>4, <2>3 DEF SortStep
  <2>5. k # Len(r) /\ s.node[r[k]].next = r[k + 1]
    BY <1>1, <2>3 DEF IsList, OutOfOrder
  <2>6. s.node \in [Addr -> NodeType] /\ \A x \in Addr : s.node[x].key = n[x].key
    BY DEF SortedFrom
  <2> HIDE DEF t
  <2>7. PICK w : /\ IsList(w, t.root, t.node) /\ Elements(w) = Elements(r) /\ PlacesExchanged(w, r, k)
    BY <1>1, <2>4, <2>5, <2>6, ListExchanged
  <2>8. /\ t.node \in [Addr -> NodeType]
        /\ \A x \in Addr : t.node[x].key = s.node[x].key
    BY <1>1, <2>4, <2>5, <2>6, ListExchanged
  <2>9. n[r[k + 1]].key > n[r[k]].key
    <3>1. r[k] \in Addr /\ r[k + 1] \in Addr
      BY <1>2, <2>5
    <3> QED
      BY <2>3, <2>5, <2>6, <3>1 DEF OutOfOrder
  <2>10. OrderKept(q, w, n)
    BY <1>1, <1>2, <2>5, <2>7, <2>9, ExchangeKeepsOrder
  <2>11. SortedFrom(q, n, t)
    BY <1>1, <2>6, <2>7, <2>8, <2>10 DEF SortedFrom, PlacesExchanged
  <2> QED
    BY <2>11 DEF t
<1> QED
  BY <1>3, <1>4

\* and so does any number of them.
LEMMA SortedOrder ==
    ASSUME NEW q \in Seq(Addr), \A i \in 1 .. Len(q) : node[q[i]].key \in Int,
           SortedFrom(q, node, AsFound), NEW k \in Nat
    PROVE  SortedFrom(q, node, Sorted(k))
<1>1. PICK f : /\ Sorted(k) = f[k]
               /\ \A i \in 0 .. k : f[i] = IF i = 0 THEN AsFound ELSE SortStep(f[i - 1])
  BY SortedSteps
<1> DEFINE Lost == {i \in 0 .. k : ~ SortedFrom(q, node, f[i])}
<1>2. CASE Lost = {}
  BY <1>1, <1>2
<1>3. CASE Lost # {}
  <2>1. Lost \in SUBSET Nat
    OBVIOUS
  <2> HIDE DEF Lost
  <2>2. PICK i \in Lost : \A j \in Lost : i <= j
    BY <1>3, <2>1, LeastNumber
  <2>3. i \in 0 .. k /\ ~ SortedFrom(q, node, f[i])
    BY <2>2 DEF Lost
  <2>4. i # 0
    BY <1>1, <2>3
  <2>5. i - 1 \in 0 .. k /\ i - 1 \notin Lost
    BY <2>2, <2>3, <2>4
  <2>6. SortedFrom(q, node, f[i - 1])
    BY <2>5 DEF Lost
  <2> QED
    BY <1>1, <2>3, <2>4, <2>6, SortStepOrder
<1> QED
  BY <1>2, <1>3

\* A sort, finished or stopped, is one to the callers; the cursor is rewound.
LEMMA SortSeen ==
    ASSUME SeenInv, Sort
    PROVE  Abstract!Sort /\ KeysHeld'
<1>1. PICK k \in 0 .. EnoughExchanges :
        /\ node' = Forget(Sorted(k).node, Stale)
        /\ dataList' = Sorted(k).root
        /\ nextData' = dataList'
        /\ UNCHANGED <<ring, sizeUsed, hook>>
  BY DEF Sort
<1>2. k \in Nat
  <2>1. Cardinality(blocks) \in Nat
    BY StoreTypes, FS_CardinalityType DEF SeenInv, BlocksTyped
  <2>2. EnoughExchanges \in Int
    BY <2>1 DEF EnoughExchanges
  <2> QED
    BY <2>2
<1>3. PICK q : q = Queue
  OBVIOUS
<1>4. /\ IsList(q, dataList, node) /\ Elements(q) = InUse
      /\ q \in Seq(Addr) /\ Len(q) \in Nat
      /\ \A i, j \in 1 .. Len(q) : q[i] = q[j] => i = j
      /\ \A i \in 1 .. Len(q) : q[i] \in InUse /\ q[i] \in Addr
  BY <1>3, QueueShape DEF SeenInv
<1>5. /\ node \in [Addr -> NodeType] /\ InUse \in SUBSET Addr /\ Stale \notin InUse
      /\ \A x \in InUse : node[x].key \in Int
  <2>1. node \in [Addr -> NodeType] /\ InUse \in SUBSET Addr /\ NULL \notin Addr
    BY StoreTypes DEF SeenInv, BlocksTyped
  <2>2. Stale \notin InUse
    BY <2>1 DEF Stale
  <2>3. \A x \in InUse : node[x].key \in Int
    BY KeyAssumption DEF SeenInv, KeysHeld
  <2> QED
    BY <2>1, <2>2, <2>3
<1>6. SortedFrom(q, node, AsFound)
  <2>1. OrderKept(q, q, node)
    BY DEF OrderKept
  <2>2. AsFound.root = dataList /\ AsFound.node = node
    BY DEF AsFound
  <2> QED
    BY <1>4, <1>5, <2>1, <2>2 DEF SortedFrom
<1>7. PICK s : s = Sorted(k) /\ SortedFrom(q, node, s)
  BY <1>2, <1>4, <1>5, <1>6, SortedOrder
<1>8. PICK r : /\ IsList(r, s.root, s.node) /\ Elements(r) = Elements(q) /\ Len(r) = Len(q)
               /\ OrderKept(q, r, node)
  BY <1>7 DEF SortedFrom
<1>9. \A x \in InUse : node'[x] = s.node[x] /\ node'[x].key = node[x].key
  <2>1. s.node \in [Addr -> NodeType] /\ \A x \in Addr : s.node[x].key = node[x].key
    BY <1>7 DEF SortedFrom
  <2>2. \A x \in Addr : x # Stale => node'[x] = s.node[x]
    BY <1>1, <1>7, <2>1, ForgetFacts
  <2> QED
    BY <1>5, <2>1, <2>2
<1>10. IsList(r, dataList', node')
  <2>1. IsList(r, s.root, node')
    BY <1>4, <1>8, <1>9, ListKept
  <2> QED
    BY <1>1, <1>7, <2>1
<1>11. Queue' = r
  BY <1>10, QueueNext
<1>12. UNCHANGED <<header, blocks>> /\ InUse' = InUse
  BY <1>1 DEF ring, InUse
<1>13. /\ r \in Seq(Addr) /\ Len(r) \in Nat
       /\ \A i, j \in 1 .. Len(r) : r[i] = r[j] => i = j
       /\ \A i \in 1 .. Len(r) : r[i] \in InUse
  <2>1. \A i \in 1 .. Len(r) : r[i] \in Elements(r)
    BY DEF Elements
  <2>2. Elements(r) = InUse
    BY <1>4, <1>8
  <2> QED
    BY <1>8, <2>1, <2>2 DEF IsList
\* An item as it is seen, before and after.
<1> DEFINE item(b) == [id |-> b, type |-> header[b].type, key |-> node[b].key]
           u == Seen(q, header, node)
           v == Seen(r, header', node')
<1>14. /\ Len(u) = Len(q) /\ DOMAIN u = 1 .. Len(q) /\ \A i \in 1 .. Len(q) : u[i] = item(q[i])
  BY <1>4, SeenFacts
<1>15. /\ Len(v) = Len(r) /\ DOMAIN v = 1 .. Len(r) /\ \A i \in 1 .. Len(r) : v[i] = item(r[i])
  <2>1. /\ Len(v) = Len(r) /\ DOMAIN v = 1 .. Len(r)
        /\ \A i \in 1 .. Len(r) : v[i] = [id |-> r[i], type |-> header'[r[i]].type, key |-> node'[r[i]].key]
    BY <1>13, SeenFacts
  <2> HIDE DEF v
  <2> QED
    BY <1>9, <1>12, <1>13, <2>1
<1>16. u = Items /\ v = Items'
  BY <1>3, <1>11, ItemsSeen
<1>17. dataList' = IF v = <<>> THEN NULL ELSE v[1].id
  <2>1. v = Seen(r, header', node')
    OBVIOUS
  <2> HIDE DEF v
  <2> QED
    BY <1>10, <1>13, <2>1, HeadSeen
<1> HIDE DEF u, v
<1>18. /\ \A b, c : item(b) = item(c) => b = c
       /\ \A i \in 1 .. Len(q) : u[i].key = node[q[i]].key
  BY <1>14
<1> HIDE DEF item
<1>19. {v[i] : i \in DOMAIN v} = {u[i] : i \in DOMAIN u}
  <2>1. \A i \in 1 .. Len(r) : \E j \in 1 .. Len(q) : r[i] = q[j]
    BY <1>8 DEF Elements
  <2>2. \A j \in 1 .. Len(q) : \E i \in 1 .. Len(r) : r[i] = q[j]
    BY <1>8 DEF Elements
  <2>3. \A i \in DOMAIN v : \E j \in DOMAIN u : v[i] = u[j]
    BY <1>14, <1>15, <2>1
  <2>4. \A j \in DOMAIN u : \E i \in DOMAIN v : v[i] = u[j]
    BY <1>14, <1>15, <2>2
  <2> QED
    BY <2>3, <2>4
<1> DEFINE place(it) == CHOOSE j \in DOMAIN v : v[j] = it
<1>20. ASSUME NEW i \in 1 .. Len(q), NEW m \in 1 .. Len(r), r[m] = q[i] PROVE place(u[i]) = m
  <2>1. m \in DOMAIN v /\ v[m] = u[i]
    BY <1>14, <1>15, <1>20
  <2>2. \A j \in DOMAIN v : v[j] = u[i] => j = m
    BY <1>13, <1>14, <1>15, <1>18, <1>20
  <2> QED
    BY <2>1, <2>2
<1>21. ASSUME NEW i \in DOMAIN u, NEW j \in DOMAIN u, i < j, u[i].key >= u[j].key
       PROVE  place(u[i]) < place(u[j])
  <2>1. i \in 1 .. Len(q) /\ j \in 1 .. Len(q) /\ node[q[i]].key >= node[q[j]].key
    BY <1>14, <1>18, <1>21
  <2>2. PICK a \in 1 .. Len(r), b \in 1 .. Len(r) : a < b /\ r[a] = q[i] /\ r[b] = q[j]
    BY <1>8, <1>21, <2>1 DEF OrderKept
  <2>3. place(u[i]) = a /\ place(u[j]) = b
    BY <1>20, <2>1, <2>2
  <2> QED
    BY <2>2, <2>3
<1>22. Len(v) = Len(u) /\ nextData' = IF v = <<>> THEN NULL ELSE v[1].id
  BY <1>1, <1>8, <1>14, <1>15, <1>17
<1>23. Abstract!Sort
  <2>1. Len(Items') = Len(Items) /\ nextData' = IF Items' = <<>> THEN NULL ELSE Items'[1].id
    BY <1>16, <1>22
  <2>2. {Items'[i] : i \in DOMAIN Items'} = {Items[i] : i \in DOMAIN Items}
    BY <1>16, <1>19
  <2>3. \A i, j \in DOMAIN Items : i < j /\ Items[i].key >= Items[j].key =>
           (CHOOSE m \in DOMAIN Items' : Items'[m] = Items[i])
             < (CHOOSE m \in DOMAIN Items' : Items'[m] = Items[j])
    BY <1>16, <1>21
  <2> QED
    BY <2>1, <2>2, <2>3, Zenon DEF Abstract!Sort
<1>24. KeysHeld'
  BY <1>9, <1>12 DEF SeenInv, KeysHeld
<1> QED
  BY <1>23, <1>24

-----------------------------------------------------------------------------
(* What is stored never takes more than there is *)

\* The words that some blocks take.
Covered(T) == UNION {Ring!Extent(b, header[b].type) : b \in T}

\* Blocks that share no word cover as many words as they are counted for.
LEMMA CoveredWords ==
    ASSUME RingProofs!IInv, NEW S \in SUBSET blocks
    PROVE  /\ Covered(S) \subseteq Addr
           /\ IsFiniteSet(Covered(S)) /\ Cardinality(Covered(S)) = WordsOf(header, S)
<1>1. BlocksTyped
  BY RingTypes
<1>2. /\ \A b \in blocks : Ring!Extent(b, header[b].type) \subseteq Addr
      /\ \A b, c \in blocks :
           b # c => Ring!Extent(b, header[b].type) \cap Ring!Extent(c, header[c].type) = {}
  <2>1. \A b \in blocks : b \in Int /\ header[b].type \in Type
    BY <1>1 DEF BlocksTyped, Addr
  <2>2. \A b \in blocks : Ring!Extent(b, header[b].type) = RingProofs!Extent(b, header[b].type)
    BY <2>1, SameAllocator
  <2>3. RingProofs!BlocksDisjoint /\ RingProofs!BlocksIntact
    BY DEF RingProofs!IInv
  <2> QED
    BY <2>2, <2>3, SameAllocator DEF RingProofs!BlocksDisjoint, RingProofs!BlocksIntact
<1>3. \A T \in SUBSET S : Covered(T) \subseteq Addr /\ IsFiniteSet(Covered(T))
  <2>1. IsFiniteSet(Addr)
    BY FS_Interval, BufferAssumption DEF Addr
  <2>2. \A T \in SUBSET S : Covered(T) \subseteq Addr
    BY <1>2 DEF Covered
  <2> QED
    BY <2>1, <2>2, FS_Subset
<1>4. IsFiniteSet(S) /\ \A b \in S : b \in Int /\ header[b].type \in Type
  <2>1. \A b \in S : b \in Int /\ header[b].type \in Type
    BY <1>1 DEF BlocksTyped, Addr
  <2>2. IsFiniteSet(S)
    BY <1>1, FS_Subset DEF BlocksTyped
  <2> QED
    BY <2>1, <2>2
<1> DEFINE Wrong == {T \in SUBSET S : Cardinality(Covered(T)) # WordsOf(header, T)}
<1>5. CASE Wrong = {}
  BY <1>3, <1>5
<1>6. CASE Wrong # {}
  <2>1. Wrong \in SUBSET SUBSET S
    OBVIOUS
  <2> HIDE DEF Wrong
  <2>2. PICK T \in Wrong : \A U \in Wrong : Cardinality(T) <= Cardinality(U)
    BY <1>4, <1>6, <2>1, SmallestSet
  <2>3. T \in SUBSET S /\ Cardinality(Covered(T)) # WordsOf(header, T)
    BY <2>2 DEF Wrong
  <2>4. T # {}
    <3>1. WordsOf(header, {}) = 0
      BY WordsOfFacts, FS_EmptySet
    <3>2. Covered({}) = {}
      BY DEF Covered
    <3> QED
      BY <2>3, <3>1, <3>2, FS_EmptySet
  <2>5. PICK x : x \in T
    BY <2>4
  <2> DEFINE rest == T \ {x}
  <2>6. rest \in SUBSET S /\ rest \notin Wrong
    BY <1>4, <2>2, <2>3, <2>5, SmallerSet
  <2>7. Cardinality(Covered(rest)) = WordsOf(header, rest)
    BY <2>6 DEF Wrong
  <2>8. PICK E : E = Ring!Extent(x, header[x].type)
    OBVIOUS
  <2>9. Covered(T) = Covered(rest) \cup E /\ Covered(rest) \cap E = {}
    BY <1>2, <2>3, <2>5, <2>8 DEF Covered
  <2>10. IsFiniteSet(E) /\ Cardinality(E) = WordsAt(header, x) /\ WordsAt(header, x) \in Nat
    <3>1. WordsAt(header, x) \in Nat /\ x \in Int
      BY <1>4, <2>3, <2>5, WordsAtNat
    <3>2. E = x .. x + WordsAt(header, x) - 1
      BY <2>8 DEF Ring!Extent, WordsAt
    <3> QED
      BY <3>1, <3>2, FS_Interval
  <2>11. WordsOf(header, T) = WordsAt(header, x) + WordsOf(header, rest)
    <3>1. IsFiniteSet(T) /\ \A b \in T : header[b].type \in Type
      BY <1>4, <2>3, FS_Subset
    <3> QED
      BY <2>5, <3>1, WordsOfRemoved
  <2>12. IsFiniteSet(Covered(rest)) /\ Cardinality(Covered(rest)) \in Nat
    BY <1>3, <2>6, FS_CardinalityType
  <2> HIDE DEF rest
  <2>13. Cardinality(Covered(T)) = Cardinality(Covered(rest)) + Cardinality(E)
    <3>1. Cardinality(Covered(rest) \cup E)
            = Cardinality(Covered(rest)) + Cardinality(E) - Cardinality(Covered(rest) \cap E)
      BY <2>10, <2>12, FS_Union
    <3>2. Cardinality(Covered(rest) \cap E) = 0
      BY <2>9, FS_EmptySet
    <3> QED
      BY <2>9, <2>10, <2>12, <3>1, <3>2
  <2> QED
    BY <2>3, <2>7, <2>10, <2>11, <2>12, <2>13
<1> QED
  BY <1>5, <1>6

\* They are never counted for more than there is.
LEMMA WordsFit ==
    ASSUME RingProofs!IInv, NEW S \in SUBSET blocks
    PROVE  WordsOf(header, S) <= Size
<1>1. /\ Covered(S) \subseteq Addr
      /\ IsFiniteSet(Covered(S)) /\ Cardinality(Covered(S)) = WordsOf(header, S)
  BY CoveredWords
<1>2. IsFiniteSet(Addr) /\ Cardinality(Addr) = Size
  BY FS_Interval, BufferAssumption DEF Addr
<1>3. Cardinality(Covered(S)) <= Cardinality(Addr)
  BY <1>1, <1>2, FS_Subset
<1> QED
  BY <1>1, <1>2, <1>3

\* The words of the items on the list, one after the other, are those of the
\* blocks in use.
LEMMA RoomSeen == StoreInv => Abstract!RoomTaken = WordsOf(header, InUse)
<1> SUFFICES ASSUME StoreInv PROVE Abstract!RoomTaken = WordsOf(header, InUse)
  OBVIOUS
<1>1. PICK q : q = Queue
  OBVIOUS
<1>2. /\ Elements(q) = InUse /\ q \in Seq(Addr) /\ Len(q) \in Nat
      /\ \A i, j \in 1 .. Len(q) : q[i] = q[j] => i = j
      /\ \A i \in 1 .. Len(q) : q[i] \in blocks
  BY <1>1, QueueShape
<1>3. IsFiniteSet(blocks) /\ \A b \in blocks : header[b].type \in Type
  BY StoreTypes DEF BlocksTyped
<1>4. PICK s : s = Items
  OBVIOUS
<1>5. Len(s) = Len(q) /\ \A i \in 1 .. Len(q) : s[i].type = header[q[i]].type
  <2>1. /\ Len(s) = Len(q)
        /\ \A i \in 1 .. Len(q) : s[i] = [id |-> q[i], type |-> header[q[i]].type, key |-> node[q[i]].key]
    BY <1>1, <1>2, <1>4, SeenFacts, ItemsSeen
  <2>2. ASSUME NEW i \in 1 .. Len(q) PROVE s[i].type = header[q[i]].type
    <3>1. s[i] = [id |-> q[i], type |-> header[q[i]].type, key |-> node[q[i]].key]
      BY <2>1
    <3>2. [id |-> q[i], type |-> header[q[i]].type, key |-> node[q[i]].key].type = header[q[i]].type
      OBVIOUS
    <3> QED
      BY <3>1, <3>2, Zenon
  <2> QED
    BY <2>1, <2>2
<1> DEFINE Room(n) == [t \in Type |-> Ring!BlockWords(t)][s[n].type]
           Firsts(n) == {q[i] : i \in 1 .. n}
           IsSum(f) == f = [n \in 0 .. Len(s) |-> IF n = 0 THEN 0 ELSE f[n - 1] + Room(n)]
           g == [n \in 0 .. Len(s) |-> WordsOf(header, Firsts(n))]
<1>6. ASSUME NEW n \in 1 .. Len(q) PROVE Room(n) = WordsAt(header, q[n])
  <2>1. header[q[n]].type \in Type
    BY <1>2, <1>3
  <2> QED
    BY <1>5, <2>1 DEF WordsAt
<1>7. ASSUME NEW n \in 0 .. Len(q) PROVE Firsts(n) \in SUBSET blocks
  BY <1>2
<1>8. ASSUME NEW n \in 0 .. Len(s)
      PROVE  g[n] = IF n = 0 THEN 0 ELSE g[n - 1] + Room(n)
  <2>1. CASE n = 0
    <3>1. Firsts(0) = {}
      OBVIOUS
    <3>2. WordsOf(header, {}) = 0
      BY WordsOfFacts, FS_EmptySet
    <3> QED
      BY <2>1, <3>1, <3>2
  <2>2. CASE n # 0
    <3>1. n \in 1 .. Len(q) /\ n - 1 \in 0 .. Len(s) /\ n \in 0 .. Len(q)
      BY <1>2, <1>5, <2>2
    <3>2. Firsts(n) \in SUBSET blocks
      BY <1>7, <3>1
    <3>3. IsFiniteSet(Firsts(n)) /\ \A b \in Firsts(n) : header[b].type \in Type
      BY <1>3, <3>2, FS_Subset
    <3>4. q[n] \in Firsts(n)
      BY <3>1
    <3>5. Firsts(n) \ {q[n]} = Firsts(n - 1)
      <4>1. ASSUME NEW x \in Firsts(n), x # q[n] PROVE x \in Firsts(n - 1)
        <5>1. PICK i \in 1 .. n : x = q[i]
          OBVIOUS
        <5>2. i \in 1 .. n - 1
          BY <3>1, <4>1, <5>1
        <5> QED
          BY <5>1, <5>2
      <4>2. ASSUME NEW x \in Firsts(n - 1) PROVE x \in Firsts(n) /\ x # q[n]
        <5>1. PICK i \in 1 .. n - 1 : x = q[i]
          OBVIOUS
        <5>2. i \in 1 .. n /\ i \in 1 .. Len(q) /\ i # n
          BY <3>1, <5>1
        <5> QED
          BY <1>2, <3>1, <5>1, <5>2
      <4> QED
        BY <4>1, <4>2
    <3> HIDE DEF Firsts
    <3>6. WordsOf(header, Firsts(n)) = WordsAt(header, q[n]) + WordsOf(header, Firsts(n) \ {q[n]})
      BY <3>3, <3>4, WordsOfRemoved
    <3>7. WordsAt(header, q[n]) \in Nat /\ WordsOf(header, Firsts(n - 1)) \in Nat
      <4>1. IsFiniteSet(Firsts(n - 1)) /\ \A b \in Firsts(n - 1) : header[b].type \in Type
        BY <3>3, <3>5, FS_Subset
      <4> QED
        BY <3>3, <3>4, <4>1, WordsAtNat, WordsOfFacts
    <3>8. g[n] = WordsOf(header, Firsts(n)) /\ g[n - 1] = WordsOf(header, Firsts(n - 1))
      BY <3>1
    <3>9. Room(n) = WordsAt(header, q[n])
      BY <1>6, <3>1
    <3>10. WordsOf(header, Firsts(n)) = WordsAt(header, q[n]) + WordsOf(header, Firsts(n - 1))
      BY <3>5, <3>6
    <3> HIDE DEF g, Room
    <3> QED
      BY <2>2, <3>7, <3>8, <3>9, <3>10
  <2> QED
    BY <2>1, <2>2
<1> HIDE DEF Firsts, Room
<1>9. IsSum(g)
  <2> DEFINE to == [n \in 0 .. Len(s) |-> IF n = 0 THEN 0 ELSE g[n - 1] + Room(n)]
  <2>1. \A n \in 0 .. Len(s) : g[n] = to[n]
    <3> HIDE DEF g
    <3> QED
      BY <1>8
  <2>2. g = to
    <3> HIDE DEF to
    <3>1. to = [n \in 0 .. Len(s) |-> to[n]]
      BY DEF to
    <3> QED
      BY <2>1, <3>1
  <2> QED
    BY <2>2
<1>10. PICK f : IsSum(f) /\ Abstract!RoomTaken = f[Len(s)]
  <2>1. Abstract!RoomTaken = (CHOOSE f : IsSum(f))[Len(s)]
    BY <1>4 DEF Abstract!RoomTaken, Room
  <2> HIDE DEF IsSum
  <2> QED
    BY <1>9, <2>1
<1>11. \A n \in 0 .. Len(s) : f[n] = IF n = 0 THEN 0 ELSE f[n - 1] + Room(n)
  BY <1>10
<1> HIDE DEF IsSum
<1> DEFINE Differ == {n \in 0 .. Len(s) : f[n] # g[n]}
<1>12. Differ = {}
  <2>1. SUFFICES ASSUME Differ # {} PROVE FALSE
    OBVIOUS
  <2>2. Differ \in SUBSET Nat
    OBVIOUS
  <2> HIDE DEF Differ
  <2>3. PICK n \in Differ : \A m \in Differ : n <= m
    BY <2>1, <2>2, LeastNumber
  <2>4. n \in 0 .. Len(s) /\ f[n] # g[n]
    BY <2>3 DEF Differ
  <2> HIDE DEF g
  <2>5. n # 0
    BY <1>8, <1>11, <2>4
  <2>6. n - 1 \in 0 .. Len(s) /\ n - 1 \notin Differ
    BY <2>3, <2>4, <2>5
  <2>7. f[n - 1] = g[n - 1]
    BY <2>6 DEF Differ, g
  <2> QED
    BY <1>8, <1>11, <2>4, <2>5, <2>7
<1>13. Len(s) \in 0 .. Len(s) /\ Firsts(Len(s)) = InUse
  BY <1>2, <1>5 DEF Firsts, Elements
<1>14. g[Len(s)] = WordsOf(header, InUse)
  <2>1. g[Len(s)] = WordsOf(header, Firsts(Len(s)))
    BY <1>13
  <2> QED
    BY <1>13, <2>1
<1>15. f[Len(s)] = g[Len(s)]
  BY <1>12, <1>13
<1> HIDE DEF g
<1> QED
  BY <1>10, <1>14, <1>15

\* There is room for what is on the list.
RoomKept == Abstract!RoomTaken <= Size

\* So what is on the list never takes more than the buffer has,
LEMMA RoomFits == StoreInv => RoomKept
<1> SUFFICES ASSUME StoreInv PROVE Abstract!RoomTaken <= Size
  BY DEF RoomKept
<1>1. InUse \in SUBSET blocks
  BY StoreTypes
<1>2. WordsOf(header, InUse) <= Size
  BY <1>1, WordsFit DEF StoreInv
<1> QED
  BY <1>2, RoomSeen

\* after a step too.
LEMMA RoomFitsNext == StoreInv' => RoomKept'
BY RoomFits, PTL

-----------------------------------------------------------------------------
(* Every step is one of the bounded queue's *)

\* At the start the callers see an empty queue,
LEMMA InitSeen == Init => SeenInv /\ Abstract!Init
<1> SUFFICES ASSUME Init PROVE SeenInv /\ Abstract!Init
  OBVIOUS
<1>1. StoreInv
  BY InitStoreInv
<1>2. InUse = {} /\ dataList = NULL /\ nextData = NULL
  BY DEF Init, Ring!Init, InUse
<1>3. KeysHeld
  BY <1>2 DEF KeysHeld
<1>4. IsList(Queue, dataList, node) /\ Queue \in Seq(Addr) /\ NULL \notin Addr
  BY <1>1, QueueShape
<1>5. Len(Queue) = 0
  BY <1>2, <1>4 DEF IsList
<1>6. Items = <<>>
  <2>1. PICK q, s : q = Queue /\ s = Seen(q, header, node)
    OBVIOUS
  <2>2. Len(s) = Len(q) /\ s = [i \in 1 .. Len(s) |-> s[i]]
    BY <1>4, <2>1, SeenFacts
  <2>3. Len(s) = 0
    BY <1>5, <2>1, <2>2
  <2>4. s = <<>>
    BY <2>2, <2>3
  <2> QED
    BY <2>1, <2>4, ItemsSeen
<1> QED
  BY <1>1, <1>2, <1>3, <1>6 DEF SeenInv, Abstract!Init

\* and every step is one of that queue's, or none.
LEMMA StepSeen == SeenInv /\ [Next]_vars => KeysHeld' /\ [Abstract!Next]_(Abstract!vars)
<1> SUFFICES ASSUME SeenInv, [Next]_vars
             PROVE  KeysHeld' /\ (Abstract!Next \/ UNCHANGED Abstract!vars)
  OBVIOUS
<1>1. Abstract!RoomTaken' <= Size
  BY StepStoreInv, RoomFitsNext DEF SeenInv, RoomKept
<1>2. ASSUME NEW c \in Action \cup {NULL}, NEW t \in Type, NEW k \in Key, Alloc(c, t, k)
      PROVE  KeysHeld' /\ Abstract!Next
  BY <1>1, <1>2, AllocSeen DEF Abstract!Next
<1>3. ASSUME NEW i \in DOMAIN Queue, Free(Queue[i])
      PROVE  KeysHeld' /\ Abstract!Next
  BY <1>3, FreeSeen DEF Abstract!Next
<1>4. ASSUME NEW c \in Action, ReuseAction(c)
      PROVE  KeysHeld' /\ UNCHANGED Abstract!vars
  BY <1>4, ReuseSeen
<1>5. CASE Sort
  BY <1>5, SortSeen DEF Abstract!Next
<1>6. CASE First
  BY <1>6, FirstSeen DEF Abstract!Next
<1>7. CASE Advance
  BY <1>7, AdvanceSeen DEF Abstract!Next
<1>8. CASE UNCHANGED vars
  <2>1. UNCHANGED <<header, blocks, dataList, node, nextData>>
    BY <1>8 DEF vars, ring
  <2>2. Items' = Items /\ KeysHeld'
    BY <2>1, ItemsStay
  <2> QED
    BY <2>1, <2>2 DEF Abstract!vars
<1> QED
  BY <1>2, <1>3, <1>4, <1>5, <1>6, <1>7, <1>8 DEF Next

\* The linked list kept in the ring, with items made over the memory of freed
\* ones, is to its callers a bounded queue: a new item goes to the end and
\* never exceeds the room there is, an item taken out leaves the others in
\* their order, a sort, finished or stopped, changes no two items that were
\* in order, and the cursor goes from each item to the one that follows it
\* (pDataAlloc(), dataFree(), sort(), pDataFirst(), pDataNext()).
THEOREM StoreImplementsQueue == Spec => QueueSpec
<1>1. SeenInv /\ [Next]_vars => SeenInv'
  BY StepStoreInv, StepSeen DEF SeenInv
<1>2. Spec => []SeenInv
  BY <1>1, InitSeen, PTL DEF Spec
<1> QED
  BY <1>2, InitSeen, StepSeen, PTL DEF Spec, QueueSpec, Abstract!Spec
=============================================================================
