-------------------------- MODULE DataRing_proofs --------------------------
(***************************************************************************)
(* Proofs about the ring allocator, for every buffer size and every set of *)
(* item sizes.                                                             *)
(***************************************************************************)
EXTENDS DataRing, TLAPS

\* The used part of the ring: F..E-1, or F..end and start..E-1.  A block
\* placed in the rest can touch no other.
RingShape ==
    firstFull # NULL =>
        /\ previousNext # NULL
        /\ next[previousNext] = NULL
        /\ \E b \in blocks : Trailer(b) = previousNext
        /\ \A b \in blocks :
             IF nextEmpty > firstFull
             THEN b >= firstFull /\ Trailer(b) < nextEmpty
             ELSE b >= firstFull \/ Trailer(b) < nextEmpty

\* The inductive invariant.
IInv == /\ TypeOK
        /\ BlocksIntact
        /\ BlocksDisjoint
        /\ ChainOrdered
        /\ RingShape
        /\ OldestInUse

-----------------------------------------------------------------------------
\* A block's words, by their bounds.
LEMMA BlockBounds ==
    ASSUME TypeOK, BlocksIntact, NEW b \in blocks
    PROVE  /\ b \in Int /\ 0 <= b /\ b < Trailer(b) /\ Trailer(b) < Size
           /\ Trailer(b) \in Int
           /\ header[b].type \in Type
           /\ Words[header[b].type] \in Nat \ {0}
           /\ Extent(b, header[b].type) = b .. Trailer(b)
<1>1. header[b].type \in Type /\ Words[header[b].type] \in Nat \ {0}
  BY WordsAssumption DEF BlocksIntact
<1>2. b \in Int /\ 0 <= b
  BY SizeAssumption DEF TypeOK, Addr
<1>3. Extent(b, header[b].type) = b .. Trailer(b)
  BY <1>1, <1>2 DEF Extent, BlockWords, Trailer
<1>4. Trailer(b) \in Int /\ b < Trailer(b)
  BY <1>1, <1>2 DEF Trailer
<1>5. Trailer(b) \in Extent(b, header[b].type)
  BY <1>2, <1>3, <1>4
<1>6. Trailer(b) \in Addr
  BY <1>5 DEF BlocksIntact
<1> QED
  BY <1>1, <1>2, <1>3, <1>4, <1>6, SizeAssumption DEF Addr

\* Different blocks, different ages.
LEMMA AgeFacts ==
    ASSUME TypeOK, firstFull # NULL, NEW a \in Addr
    PROVE  /\ Age(a) \in Nat
           /\ Age(firstFull) = 0
           /\ \A c \in Addr : Age(a) = Age(c) => a = c
           /\ Age(a) = 0 => a = firstFull
  BY SizeAssumption DEF TypeOK, Addr, Age

-----------------------------------------------------------------------------
\* The blocks memoryFree() passes: all freed, together with every older one,
\* and closed under the step of its while loop.
LEMMA PassedFacts ==
    ASSUME IInv, NEW b \in blocks
    PROVE  /\ Closed(Passed(b), b)
           /\ \A c \in Passed(b) : c = b \/ header[c].free
           /\ \A c \in Passed(b), e \in blocks :
                Age(e) <= Age(c) => e \in Passed(b)
<1> DEFINE flagged(c) == c = b \/ Flagged(c)
<1> USE DEF IInv
<1>0. firstFull \in blocks /\ firstFull # NULL /\ blocks \subseteq Addr
  BY DEF ChainOrdered, TypeOK
<1>n. \A c \in blocks : c # NULL
  BY NullAssumption, <1>0 DEF Addr
<1>1. Closed(Passed(b), b)
  <2>1. flagged(firstFull) => firstFull \in Passed(b)
    BY <1>0 DEF Closed, Passed
  <2>2. ASSUME NEW c \in Passed(b), flagged(After(c))
        PROVE  After(c) \in Passed(b)
    <3>1. c \in blocks
      BY DEF Passed
    <3>2. After(c) \in blocks
      BY <2>2, <3>1, <1>n DEF Flagged, ChainOrdered
    <3>3. ASSUME NEW S \in SUBSET blocks, Closed(S, b)
          PROVE  After(c) \in S
      <4>1. c \in S
        BY <3>3 DEF Passed
      <4> QED
        BY <4>1, <3>3, <2>2 DEF Closed
    <3> QED
      BY <3>2, <3>3 DEF Passed
  <2> QED
    BY <2>1, <2>2 DEF Closed
<1>2. \A c \in Passed(b) : c = b \/ header[c].free
  <2> DEFINE S == {c \in blocks : c = b \/ header[c].free}
  <2>1. Closed(S, b)
    <3>1. flagged(firstFull) => firstFull \in S
      BY <1>0 DEF Flagged
    <3>2. ASSUME NEW c \in S, flagged(After(c))
          PROVE  After(c) \in S
      <4>1. After(c) \in blocks
        BY <3>2, <1>n DEF Flagged, ChainOrdered
      <4> QED
        BY <3>2, <4>1 DEF Flagged
    <3> QED
      BY <3>1, <3>2 DEF Closed
  <2> QED
    BY <2>1 DEF Passed
<1>3. \A c \in Passed(b), e \in blocks : Age(e) <= Age(c) => e \in Passed(b)
  <2> DEFINE S == {c \in Passed(b) : \A e \in blocks :
                                       Age(e) <= Age(c) => e \in Passed(b)}
  <2>1. Closed(S, b)
    <3>1. flagged(firstFull) => firstFull \in S
      <4>1. SUFFICES ASSUME flagged(firstFull)
                     PROVE  firstFull \in S
        OBVIOUS
      <4>2. firstFull \in Passed(b)
        BY <4>1, <1>1 DEF Closed
      <4>3. ASSUME NEW e \in blocks, Age(e) <= Age(firstFull)
            PROVE  e = firstFull
        <5>1. e \in Addr
          BY <1>0
        <5>2. Age(e) \in Nat /\ Age(firstFull) = 0 /\ (Age(e) = 0 => e = firstFull)
          BY <5>1, <1>0, AgeFacts
        <5> QED
          BY <5>2, <4>3
      <4> QED
        BY <4>2, <4>3
    <3>2. ASSUME NEW c \in S, flagged(After(c))
          PROVE  After(c) \in S
      <4>1. c \in blocks /\ c \in Passed(b)
        BY DEF Passed
      <4>2. After(c) \in Passed(b) /\ After(c) \in blocks
        BY <4>1, <3>2, <1>1 DEF Closed, Passed
      <4>3. ASSUME NEW e \in blocks, Age(e) <= Age(After(c))
            PROVE  e \in Passed(b)
        <5>1. CASE Age(e) <= Age(c)
          BY <5>1
        <5>2. CASE Age(After(c)) <= Age(e)
          <6>1. Age(e) \in Nat /\ Age(After(c)) \in Nat
            BY <4>2, <1>0, AgeFacts
          <6>2. Age(e) = Age(After(c))
            BY <6>1, <5>2, <4>3
          <6>3. e = After(c)
            BY <6>2, <4>2, <1>0, AgeFacts
          <6> QED
            BY <6>3, <4>2
        <5>3. After(c) # NULL
          BY <4>2, <1>n
        <5> QED
          BY <5>1, <5>2, <5>3, <4>1 DEF ChainOrdered
      <4> QED
        BY <4>2, <4>3
    <3> QED
      BY <3>1, <3>2 DEF Closed
  <2>2. S \in SUBSET blocks
    BY DEF Passed
  <2>3. ASSUME NEW c \in Passed(b) PROVE c \in S
    BY <2>1, <2>2 DEF Passed
  <2> QED
    BY <2>3
<1> QED
  BY <1>1, <1>2, <1>3
-----------------------------------------------------------------------------
\* Where pMemoryAlloc() puts a block: inside the buffer, clear of every
\* block in use, and last in the ring.
LEMMA PlaceFacts ==
    ASSUME IInv, NEW t \in Type, Place(t) # NULL
    PROVE  /\ Place(t) \in Int /\ 0 <= Place(t)
           /\ Place(t) + BlockWords(t) <= Size
           /\ BlockWords(t) \in Nat /\ BlockWords(t) >= 2
           /\ \A b \in blocks : \/ Trailer(b) < Place(t)
                                \/ Place(t) + BlockWords(t) <= b
           /\ firstFull # NULL => \A b \in blocks : Age(b) < Age(Place(t))
<1> DEFINE a == Place(t)
           n == BlockWords(t)
<1> USE DEF IInv
<1>1. n \in Nat /\ n >= 2
  BY WordsAssumption DEF BlockWords
<1>2. nextEmpty \in Int /\ 0 <= nextEmpty /\ nextEmpty < Size /\ Size \in Nat
  BY SizeAssumption DEF TypeOK, Addr
<1>3. firstFull = NULL => blocks = {}
  BY DEF ChainOrdered
<1>4. firstFull # NULL => firstFull \in Int /\ 0 <= firstFull /\ firstFull < Size
  BY SizeAssumption DEF TypeOK, Addr
<1>5. \A b \in blocks : /\ b \in Int /\ 0 <= b /\ b < Trailer(b)
                        /\ Trailer(b) < Size /\ Trailer(b) \in Int
  BY BlockBounds
<1>6. CASE FitsBeforeEnd(t)
  <2>1. a = nextEmpty
    BY <1>6 DEF Place
  <2>2. a + n <= Size
    BY <1>6, <2>1 DEF FitsBeforeEnd
  <2>3. firstFull # NULL => nextEmpty > firstFull
    BY <1>6 DEF FitsBeforeEnd, FreeSpaceAtEnd
  <2>4. firstFull # NULL => \A b \in blocks : b >= firstFull /\ Trailer(b) < a
    BY <2>1, <2>3 DEF RingShape
  <2>5. firstFull # NULL => \A b \in blocks : Age(b) < Age(a)
    BY <2>1, <2>3, <2>4, <1>2, <1>4, <1>5 DEF Age
  <2> QED
    BY <1>1, <1>2, <1>3, <2>1, <2>2, <2>4, <2>5
<1>7. CASE ~FitsBeforeEnd(t) /\ FitsAtStart(t)
  <2>1. a = 0
    BY <1>7 DEF Place, FitsInGap, FitsAtStart
  <2>2. firstFull # NULL /\ n <= firstFull /\ nextEmpty > firstFull
    BY <1>7 DEF FitsAtStart, FreeSpaceAtEnd
  <2>3. \A b \in blocks : b >= firstFull
    BY <2>2 DEF RingShape
  <2>4. \A b \in blocks : Age(b) < Age(a)
    BY <2>1, <2>2, <2>3, <1>1, <1>2, <1>4, <1>5 DEF Age
  <2> QED
    BY <1>1, <1>2, <1>4, <1>5, <2>1, <2>2, <2>3, <2>4
<1>8. CASE FitsInGap(t)
  <2>1. a = nextEmpty
    BY <1>8 DEF Place
  <2>2. firstFull # NULL /\ ~(nextEmpty > firstFull) /\ firstFull - a >= n
    BY <1>8, <2>1 DEF FitsInGap, FreeSpaceAtEnd
  <2>3. \A b \in blocks : b >= firstFull \/ Trailer(b) < a
    BY <2>1, <2>2 DEF RingShape
  <2>4. \A b \in blocks : Age(b) < Age(a)
    BY <2>1, <2>2, <2>3, <1>1, <1>2, <1>4, <1>5 DEF Age
  <2>5. a + n <= firstFull
    BY <2>1, <2>2, <1>1, <1>2, <1>4
  <2>6. a + n <= Size
    BY <2>5, <2>1, <1>1, <1>2, <1>4, <2>2
  <2>7. \A b \in blocks : Trailer(b) < a \/ a + n <= b
    BY <2>1, <2>2, <2>3, <2>5, <1>1, <1>2, <1>4, <1>5
  <2> QED
    BY <1>1, <1>2, <2>1, <2>4, <2>6, <2>7
<1> QED
  BY <1>6, <1>7, <1>8 DEF Place

-----------------------------------------------------------------------------
LEMMA InitIInv == Init => IInv
  BY SizeAssumption DEF Init, IInv, TypeOK, BlocksIntact, BlocksDisjoint,
     ChainOrdered, RingShape, OldestInUse, Addr, Header, NoHeader

\* A block is placed without disturbing any other.
LEMMA AllocIInv ==
    ASSUME IInv, NEW t \in Type, Alloc(t)
    PROVE  IInv'
<1> DEFINE n == BlockWords(t)
<1> USE DEF IInv
<1>0. PICK a : a = Place(t)
  OBVIOUS
<1>1. a # NULL
  BY <1>0 DEF Alloc
<1>2. /\ a \in Int /\ 0 <= a /\ a + n <= Size /\ n \in Nat /\ n >= 2
      /\ \A b \in blocks : Trailer(b) < a \/ a + n <= b
      /\ firstFull # NULL => \A b \in blocks : Age(b) < Age(a)
  BY <1>0, <1>1, PlaceFacts
<1>3. /\ firstFull' = IF firstFull = NULL THEN a ELSE firstFull
      /\ nextEmpty' = IF a + n >= Size THEN 0 ELSE a + n
      /\ previousNext' = a + n - 1
      /\ blocks' = blocks \cup {a}
  <2>1. /\ Advance(t, a)
        /\ firstFull' = IF firstFull = NULL THEN a ELSE firstFull
        /\ blocks' = blocks \cup {a}
    BY <1>0, Zenon DEF Alloc
  <2>2. /\ nextEmpty' = IF a + n >= Size THEN 0 ELSE a + n
        /\ previousNext' = a + n - 1
    BY <2>1, <1>2 DEF Advance
  <2> QED
    BY <2>1, <2>2
<1>4. Size \in Nat \ {0} /\ a \in Addr /\ a + n - 1 \in Addr
  BY <1>2, SizeAssumption DEF Addr
<1>5. Extent(a, t) = a .. a + n - 1 /\ Extent(a, t) \subseteq Addr
  BY <1>2, <1>4 DEF Extent, Addr
<1>6. \A b \in blocks : /\ b \in Addr /\ b \in Int /\ b < Trailer(b)
                        /\ Trailer(b) \in Addr /\ Trailer(b) \in Int
                        /\ b \notin Extent(a, t) /\ Trailer(b) \notin Extent(a, t)
                        /\ a # b /\ header[b].type \in Type
                        /\ Extent(b, header[b].type) = b .. Trailer(b)
                        /\ Words[header[b].type] \in Nat \ {0}
  <2>1. ASSUME NEW b \in blocks
        PROVE  /\ b \in Int /\ 0 <= b /\ b < Trailer(b)
               /\ Trailer(b) < Size /\ Trailer(b) \in Int
               /\ header[b].type \in Type
               /\ Extent(b, header[b].type) = b .. Trailer(b)
               /\ Words[header[b].type] \in Nat \ {0}
    BY BlockBounds
  <2>2. ASSUME NEW b \in blocks
        PROVE  /\ b \in Addr /\ Trailer(b) \in Addr
               /\ b \notin Extent(a, t) /\ Trailer(b) \notin Extent(a, t)
               /\ a # b
    BY <2>1, <1>2, <1>4, <1>5 DEF Addr
  <2> QED
    BY <2>1, <2>2
<1>7. /\ header'[a] = [type |-> t, free |-> FALSE]
      /\ \A b \in blocks : header'[b] = header[b]
  BY <1>0, <1>4, <1>6 DEF Alloc
<1>8. /\ \A b \in blocks : Trailer(b)' = Trailer(b)
      /\ Trailer(a)' = a + n - 1
  BY <1>7, <1>2, WordsAssumption DEF Trailer, BlockWords
<1>9. TypeOK'
  <2>1. header' \in [Addr -> Header]
    BY <1>0 DEF Alloc, TypeOK, Header
  <2>2. next' \in [Addr -> Addr \cup {NULL}]
    BY <1>0, <1>4 DEF Alloc, Advance, TypeOK
  <2>3. nextEmpty' \in Addr
    BY <1>2, <1>3, <1>4 DEF Addr
  <2>4. firstFull' \in Addr \cup {NULL} /\ blocks' \in SUBSET Addr
    BY <1>3, <1>4 DEF TypeOK
  <2> QED
    BY <2>1, <2>2, <2>3, <2>4, <1>3, <1>4 DEF TypeOK
<1>10. BlocksIntact'
  BY <1>3, <1>5, <1>7 DEF BlocksIntact, Extent, BlockWords
<1>11. BlocksDisjoint'
  <2>1. \A b \in blocks : Extent(b, header[b].type) \cap Extent(a, t) = {}
    BY <1>2, <1>5, <1>6
  <2>2. \A b \in blocks' : Extent(b, header[b].type)'
                            = Extent(b, IF b = a THEN t ELSE header[b].type)
    BY <1>3, <1>6, <1>7 DEF Extent
  <2> QED
    BY <2>1, <2>2, <1>3, <1>6 DEF BlocksDisjoint
<1>12. OldestInUse'
  BY <1>3, <1>7 DEF OldestInUse, ChainOrdered
<1>13. next'[a + n - 1] = NULL
  BY <1>0, <1>2, <1>4, <1>5 DEF Alloc, Advance
<1>14. CASE firstFull = NULL
  <2>1. blocks' = {a} /\ firstFull' = a
    BY <1>3, <1>14 DEF ChainOrdered
  <2>2. After(a)' = NULL
    BY <1>8, <1>13 DEF After
  <2>3. ChainOrdered'
    BY <2>1, <2>2, <1>1, <1>2, <1>3, <1>8 DEF ChainOrdered, Age
  <2>4. RingShape'
    <3>1. Trailer(a)' = previousNext' /\ next'[previousNext'] = NULL
      BY <1>3, <1>8, <1>13
    <3>2. previousNext' # NULL
      BY <1>2, <1>3, NullAssumption
    <3> QED
      BY <3>1, <3>2, <2>1, <1>1, <1>2, <1>3, <1>8 DEF RingShape
  <2> QED
    BY <2>3, <2>4, <1>9, <1>10, <1>11, <1>12
<1>15. CASE firstFull # NULL
  <2>1. firstFull' = firstFull /\ firstFull \in blocks
    BY <1>3, <1>15 DEF ChainOrdered
  <2>2. \A x \in Addr : Age(x)' = Age(x)
    BY <2>1 DEF Age
  <2>3. PICK last \in blocks : Trailer(last) = previousNext /\ After(last) = NULL
    BY <1>15 DEF RingShape, After
  <2>4. \A b \in blocks : b # last => Trailer(b) # previousNext
    <3>1. SUFFICES ASSUME NEW b \in blocks, b # last, Trailer(b) = Trailer(last)
                   PROVE  FALSE
      BY <2>3
    <3>2. Trailer(b) \in b .. Trailer(b) /\ Trailer(b) \in last .. Trailer(last)
      BY <3>1, <1>6
    <3> QED
      BY <3>1, <3>2, <1>6 DEF BlocksDisjoint
  <2>5. After(last)' = a
    <3>1. previousNext \in Addr /\ previousNext \notin Extent(a, t)
      BY <2>3, <1>6
    <3> QED
      BY <3>1, <1>0, <1>8, <1>15, <2>3 DEF Alloc, Advance, After, TypeOK
  <2>6. \A b \in blocks : b # last => After(b)' = After(b)
    BY <1>0, <1>6, <1>8, <1>15, <2>4 DEF Alloc, Advance, After, TypeOK
  <2>7. After(a)' = NULL
    BY <1>8, <1>13 DEF After
  <2>8. \A b \in blocks : Age(b) \in Nat /\ Age(b) < Age(a) /\ Age(a) \in Nat
                          /\ Age(b) <= Age(last)
    BY <1>2, <1>4, <1>6, <1>15, <2>3, AgeFacts DEF ChainOrdered
  <2>9. ChainOrdered'
    <3>1. firstFull' \in blocks' /\ firstFull' # NULL /\ blocks' # {}
      BY <1>3, <1>15, <2>1
    <3>2. ASSUME NEW b \in blocks', After(b)' = NULL
          PROVE  Trailer(b)' = previousNext' /\ \A c \in blocks' : Age(c)' <= Age(b)'
      <4>1. b = a
        <5>1. SUFFICES ASSUME b \in blocks PROVE FALSE
          BY <1>3
        <5>2. b # last
          BY <2>5, <3>2, <1>1
        <5>3. After(b) = NULL
          BY <5>1, <5>2, <2>6, <3>2
        <5>4. Trailer(b) = previousNext
          BY <5>1, <5>3 DEF ChainOrdered
        <5> QED
          BY <5>1, <5>2, <5>4, <2>4
      <4>2. \A c \in blocks' : Age(c) <= Age(a)
        BY <1>3, <2>8, <2>1
      <4> QED
        BY <4>1, <4>2, <1>3, <1>4, <1>6, <1>8, <2>2
    <3>3. ASSUME NEW b \in blocks', After(b)' # NULL
          PROVE  /\ After(b)' \in blocks'
                 /\ Age(b)' < Age(After(b))'
                 /\ \A c \in blocks' : Age(c)' <= Age(b)' \/ Age(After(b))' <= Age(c)'
      <4>1. b \in blocks
        BY <3>3, <2>7, <1>3
      <4>2. CASE b = last
        <5>1. Age(b)' = Age(b) /\ Age(After(b))' = Age(a)
          BY <4>2, <2>2, <2>5, <1>4, <1>6, <2>1 DEF Age
        <5>2. \A c \in blocks' : Age(c)' = Age(c) /\ (c = a \/ Age(c) <= Age(b))
          BY <4>2, <2>2, <2>8, <1>3, <1>4, <1>6
        <5>3. Age(a) <= Age(a) /\ Age(b) < Age(a)
          BY <4>1, <2>8
        <5> QED
          BY <4>2, <5>1, <5>2, <5>3, <2>5, <1>3
      <4>3. CASE b # last
        <5>1. After(b)' = After(b) /\ After(b) # NULL
          BY <4>1, <4>3, <2>6, <3>3
        <5>2. /\ After(b) \in blocks /\ Age(b) < Age(After(b))
              /\ \A c \in blocks : Age(c) <= Age(b) \/ Age(After(b)) <= Age(c)
          BY <4>1, <5>1 DEF ChainOrdered
        <5>3. Age(b)' = Age(b) /\ Age(After(b))' = Age(After(b))
          BY <4>1, <5>1, <5>2, <2>1, <2>2, <1>6 DEF Age
        <5>4. Age(After(b)) <= Age(a)
          BY <5>2, <2>8
        <5>5. \A c \in blocks' : Age(c)' = Age(c) /\ (c \in blocks \/ c = a)
          BY <1>3, <1>4, <1>6, <2>2
        <5> QED
          BY <5>1, <5>2, <5>3, <5>4, <5>5, <1>3
      <4> QED
        BY <4>2, <4>3
    <3> QED
      BY <3>1, <3>2, <3>3 DEF ChainOrdered
  <2>10. RingShape'
    <3>1. /\ previousNext' # NULL /\ next'[previousNext'] = NULL
          /\ \E b \in blocks' : Trailer(b)' = previousNext'
      BY <1>2, <1>3, <1>8, <1>13, NullAssumption
    <3>2. ASSUME NEW b \in blocks'
          PROVE  IF nextEmpty' > firstFull'
                 THEN b >= firstFull' /\ Trailer(b)' < nextEmpty'
                 ELSE b >= firstFull' \/ Trailer(b)' < nextEmpty'
      <4>1. firstFull \in Int /\ nextEmpty \in Int /\ 0 <= firstFull /\ firstFull < Size
            /\ 0 <= nextEmpty
        BY <1>15, <1>4 DEF TypeOK, Addr
      <4>2. \/ a = nextEmpty /\ nextEmpty > firstFull
            \/ a = 0 /\ nextEmpty > firstFull /\ n <= firstFull
            \/ a = nextEmpty /\ nextEmpty <= firstFull /\ a + n <= firstFull
        <5>1. CASE FitsBeforeEnd(t)
          BY <5>1, <1>0, <1>15 DEF Place, FitsBeforeEnd, FreeSpaceAtEnd
        <5>2. CASE ~FitsBeforeEnd(t) /\ FitsAtStart(t)
          BY <5>2, <1>0, <1>15 DEF Place, FitsAtStart, FitsInGap, FreeSpaceAtEnd
        <5>3. CASE FitsInGap(t)
          BY <5>3, <1>0, <1>15, <1>2, <4>1 DEF Place, FitsInGap, FreeSpaceAtEnd
        <5> QED
          BY <5>1, <5>2, <5>3, <1>0, <1>1 DEF Place
      <4>3. CASE b \in blocks
        <5>1. /\ Trailer(b)' = Trailer(b) /\ Trailer(b) \in Int /\ b \in Int
              /\ b < Trailer(b) /\ Trailer(b) < Size /\ 0 <= b
              /\ (Trailer(b) < a \/ a + n <= b)
              /\ IF nextEmpty > firstFull
                 THEN b >= firstFull /\ Trailer(b) < nextEmpty
                 ELSE b >= firstFull \/ Trailer(b) < nextEmpty
          <6>1. /\ Trailer(b)' = Trailer(b)
                /\ Trailer(b) < a \/ a + n <= b
            BY <4>3, <1>2, <1>8
          <6>2. IF nextEmpty > firstFull
                THEN b >= firstFull /\ Trailer(b) < nextEmpty
                ELSE b >= firstFull \/ Trailer(b) < nextEmpty
            BY <4>3, <1>15 DEF RingShape
          <6> QED
            BY <4>3, <6>1, <6>2, <1>4, <1>6 DEF Addr
        <5>2. firstFull' = firstFull
          BY <2>1
        <5> QED
          BY <5>1, <5>2, <4>1, <4>2, <1>2, <1>3, <1>4
      <4>4. CASE b = a
        BY <4>1, <4>2, <4>4, <1>2, <1>3, <1>4, <1>8, <2>1
      <4> QED
        BY <4>3, <4>4, <1>3
    <3> QED
      BY <3>1, <3>2 DEF RingShape
  <2> QED
    BY <2>9, <2>10, <1>9, <1>10, <1>11, <1>12
<1> QED
  BY <1>14, <1>15
-----------------------------------------------------------------------------
\* Flagging an item moves no block.
LEMMA FreeKeeps ==
    ASSUME IInv, NEW b \in blocks, Free(b)
    PROVE  /\ \A c \in blocks : /\ header'[c].type = header[c].type
                                /\ header'[c].free = (c = b \/ header[c].free)
                                /\ Trailer(c)' = Trailer(c)
                                /\ After(c)' = After(c)
                                /\ Extent(c, header[c].type)' = Extent(c, header[c].type)
           /\ blocks' \subseteq blocks
<1>1. \A c \in blocks : c \in Addr /\ header[c] \in Header
  BY DEF IInv, TypeOK
<1>2. \A c \in blocks : /\ header'[c].type = header[c].type
                        /\ header'[c].free = (c = b \/ header[c].free)
  <2>1. header' = [header EXCEPT ![b].free = TRUE]
    BY DEF Free
  <2>2. header \in [Addr -> Header]
    BY DEF IInv, TypeOK
  <2>3. \A c \in Addr : header'[c] = IF c = b THEN [header[b] EXCEPT !.free = TRUE]
                                      ELSE header[c]
    BY <2>1, <2>2
  <2>4. /\ [header[b] EXCEPT !.free = TRUE].type = header[b].type
        /\ [header[b] EXCEPT !.free = TRUE].free = TRUE
    BY <1>1 DEF Header, NoHeader
  <2>5. \A c \in blocks : header[c].free \in BOOLEAN
    <3>1. \A h \in Header : h.free \in BOOLEAN
      <4>1. NoHeader.free \in BOOLEAN
        BY DEF NoHeader
      <4>2. \A h \in [type : Type, free : BOOLEAN] : h.free \in BOOLEAN
        OBVIOUS
      <4> QED
        BY <4>1, <4>2 DEF Header
    <3> QED
      BY <1>1, <3>1
  <2> QED
    BY <1>1, <2>3, <2>4, <2>5
<1>3. \A c \in blocks : Trailer(c)' = Trailer(c)
  BY <1>2 DEF Trailer
<1> QED
  BY <1>2, <1>3 DEF Free, After, Extent

LEMMA FreeIInv ==
    ASSUME IInv, NEW b \in blocks, Free(b)
    PROVE  IInv'
<1> USE DEF IInv
<1> DEFINE P == Passed(b)
<1>1. /\ Closed(P, b)
      /\ \A c \in P : c = b \/ header[c].free
      /\ \A c \in P, e \in blocks : Age(e) <= Age(c) => e \in P
  BY PassedFacts
<1>2. /\ firstFull \in blocks /\ firstFull # NULL
      /\ blocks \subseteq Addr /\ NULL \notin blocks
      /\ Size \in Nat \ {0} /\ nextEmpty \in Addr
  <2>1. blocks \subseteq Addr /\ nextEmpty \in Addr
    BY DEF TypeOK
  <2>2. NULL \notin Addr
    BY NullAssumption DEF Addr
  <2> QED
    BY <2>1, <2>2, SizeAssumption DEF ChainOrdered
<1>3. /\ blocks' = blocks \ P /\ P \subseteq blocks
      /\ UNCHANGED <<nextEmpty, previousNext, next>>
  BY DEF Free, Passed
<1>4. /\ \A c \in blocks : /\ header'[c].type = header[c].type
                           /\ header'[c].free = (c = b \/ header[c].free)
                           /\ Trailer(c)' = Trailer(c)
                           /\ After(c)' = After(c)
                           /\ Extent(c, header[c].type)' = Extent(c, header[c].type)
      /\ blocks' \subseteq blocks
  BY FreeKeeps
<1>5. BlocksIntact' /\ BlocksDisjoint'
  BY <1>4 DEF BlocksIntact, BlocksDisjoint, Addr
<1>6. header' \in [Addr -> Header]
  <2>1. header' = [header EXCEPT ![b] = [header[b] EXCEPT !.free = TRUE]]
    BY DEF Free
  <2>2. header[b] \in Header /\ header[b].type \in Type
    BY DEF TypeOK, BlocksIntact
  <2>3. [header[b] EXCEPT !.free = TRUE] \in Header
    BY <2>2 DEF Header, NoHeader
  <2> QED
    BY <2>1, <2>3 DEF TypeOK
<1>7. CASE P = {}
  <2>1. UNCHANGED <<firstFull, blocks>>
    BY <1>3, <1>7 DEF Free
  <2>2. \A x : Age(x)' = Age(x)
    BY <2>1 DEF Age
  <2>3. ChainOrdered' /\ RingShape'
    BY <1>3, <1>4, <2>1, <2>2 DEF ChainOrdered, RingShape
  <2>4. OldestInUse'
    <3>1. ~(firstFull = b \/ Flagged(firstFull))
      BY <1>1, <1>7 DEF Closed
    <3> QED
      BY <3>1, <1>2, <1>4, <2>1 DEF OldestInUse, Flagged
  <2> QED
    BY <1>3, <1>5, <1>6, <2>1, <2>3, <2>4 DEF TypeOK
<1>8. CASE P # {}
  <2>1. PICK c \in P : After(c) \notin P /\ firstFull' = After(c)
    BY <1>8 DEF Free
  <2>2. c \in blocks /\ ~(After(c) = b \/ Flagged(After(c)))
    BY <2>1, <1>1, <1>3 DEF Closed
  <2>3. CASE After(c) = NULL
    <3>1. \A e \in blocks : Age(e) <= Age(c)
      BY <2>2, <2>3 DEF ChainOrdered
    <3>2. blocks' = {} /\ firstFull' = NULL
      BY <3>1, <1>1, <1>3, <2>1, <2>3
    <3> QED
      BY <3>2, <1>3, <1>5, <1>6
         DEF TypeOK, ChainOrdered, RingShape, OldestInUse
  <2>4. CASE After(c) # NULL
    <3> DEFINE old == firstFull
    <3>1. PICK d : d = After(c)
      OBVIOUS
    <3>2. /\ d \in blocks' /\ d \in blocks /\ firstFull' = d /\ d # NULL
          /\ d # b /\ ~header[d].free
      <4>1. d \in blocks
        BY <3>1, <2>2, <2>4 DEF ChainOrdered
      <4> QED
        BY <4>1, <3>1, <2>1, <2>2, <2>4, <1>3 DEF Flagged
    <3>3. \A e \in blocks : Age(e) \in Nat
      BY <1>2, AgeFacts
    <3>4. ASSUME NEW e \in blocks' PROVE Age(d) <= Age(e)
      <4>1. e \in blocks /\ e \notin P
        BY <1>3
      <4>2. ~(Age(e) <= Age(c))
        BY <4>1, <1>1, <2>1
      <4> QED
        BY <4>1, <4>2, <2>2, <2>4, <3>1 DEF ChainOrdered
    <3>5. firstFull \in Int /\ 0 <= firstFull /\ firstFull < Size
      BY <1>2 DEF Addr
    <3>6. \A e \in blocks : e \in Int /\ 0 <= e /\ e < Size
      BY <1>2 DEF Addr
    \* The ages of what is left fall by the age of the new oldest block.
    <3>7. ASSUME NEW e \in blocks' PROVE Age(e)' = Age(e) - Age(d)
      <4>1. Age(e)' = IF e >= d THEN e - d ELSE e + Size - d
        BY <3>2 DEF Age
      <4>2. e \in blocks /\ Age(d) <= Age(e)
        BY <3>4, <1>3
      <4>3. Age(e) = IF e >= firstFull THEN e - firstFull ELSE e + Size - firstFull
        BY DEF Age
      <4>4. Age(d) = IF d >= firstFull THEN d - firstFull ELSE d + Size - firstFull
        BY DEF Age
      <4>5. /\ e \in Int /\ 0 <= e /\ e < Size
            /\ d \in Int /\ 0 <= d /\ d < Size
        BY <4>2, <3>2, <3>6
      <4> QED
        BY <4>1, <4>2, <4>3, <4>4, <4>5, <3>5, <1>2
    <3>8. ChainOrdered'
      <4>1. firstFull' # NULL /\ blocks' # {} /\ firstFull' \in blocks'
        BY <3>2
      <4>2. ASSUME NEW e \in blocks', After(e)' = NULL
            PROVE  Trailer(e)' = previousNext' /\ \A f \in blocks' : Age(f)' <= Age(e)'
        <5>1. e \in blocks /\ After(e) = NULL
          BY <4>2, <1>3, <1>4
        <5>2. Trailer(e) = previousNext /\ \A f \in blocks : Age(f) <= Age(e)
          BY <5>1 DEF ChainOrdered
        <5>3. ASSUME NEW f \in blocks' PROVE Age(f)' <= Age(e)'
          <6>1. f \in blocks /\ Age(f) <= Age(e)
            BY <5>2, <1>3
          <6>2. Age(f)' = Age(f) - Age(d) /\ Age(e)' = Age(e) - Age(d)
            BY <3>7
          <6> QED
            BY <6>1, <6>2, <5>1, <3>2, <3>3
        <5> QED
          BY <5>1, <5>2, <5>3, <1>3, <1>4
      <4>3. ASSUME NEW e \in blocks', After(e)' # NULL
            PROVE  /\ After(e)' \in blocks'
                   /\ Age(e)' < Age(After(e))'
                   /\ \A f \in blocks' : Age(f)' <= Age(e)' \/ Age(After(e))' <= Age(f)'
        <5>1. PICK g : g = After(e)
          OBVIOUS
        <5>2. e \in blocks /\ e \notin P /\ After(e)' = g /\ g # NULL
          BY <4>3, <5>1, <1>3, <1>4
        <5>3. /\ g \in blocks /\ Age(e) < Age(g)
              /\ \A f \in blocks : Age(f) <= Age(e) \/ Age(g) <= Age(f)
          BY <5>1, <5>2 DEF ChainOrdered
        <5>4. g \notin P
          BY <5>2, <5>3, <3>3, <1>1
        <5>5. g \in blocks'
          BY <5>3, <5>4, <1>3
        <5>6. Age(e)' = Age(e) - Age(d) /\ Age(g)' = Age(g) - Age(d)
          BY <3>7, <5>5
        <5>7. Age(After(e))' = Age(g)'
          BY <5>2 DEF Age
        <5>8. ASSUME NEW f \in blocks'
              PROVE  Age(f)' <= Age(e)' \/ Age(g)' <= Age(f)'
          <6>1. f \in blocks /\ Age(f)' = Age(f) - Age(d)
            BY <3>7, <1>3
          <6> QED
            BY <6>1, <5>2, <5>3, <5>6, <3>2, <3>3
        <5>9. Age(e)' < Age(g)'
          BY <5>2, <5>3, <5>6, <3>2, <3>3
        <5> QED
          BY <5>2, <5>5, <5>7, <5>8, <5>9
      <4> QED
        BY <4>1, <4>2, <4>3 DEF ChainOrdered
    <3>9. RingShape'
      <4>1. previousNext' # NULL /\ next'[previousNext'] = NULL
        BY <1>2, <1>3 DEF RingShape
      <4>2. \E e \in blocks' : Trailer(e)' = previousNext'
        <5>1. PICK e \in blocks : Trailer(e) = previousNext /\ After(e) = NULL
          BY <1>2 DEF RingShape, After
        <5>2. \A f \in blocks : Age(f) <= Age(e)
          BY <5>1 DEF ChainOrdered
        <5>3. e \notin P
          BY <5>2, <3>2, <1>1, <1>3
        <5> QED
          BY <5>1, <5>3, <1>3, <1>4
      <4>3. ASSUME NEW e \in blocks'
            PROVE  IF nextEmpty' > firstFull'
                   THEN e >= firstFull' /\ Trailer(e)' < nextEmpty'
                   ELSE e >= firstFull' \/ Trailer(e)' < nextEmpty'
        <5>1. /\ e \in blocks /\ Age(d) <= Age(e)
              /\ e \in Int /\ 0 <= e /\ e < Size
              /\ d \in Int /\ 0 <= d /\ d < Size
          BY <3>2, <3>4, <3>6, <1>3
        <5>2. \A x \in {d, e} : IF nextEmpty > firstFull
                               THEN x >= firstFull /\ Trailer(x) < nextEmpty
                               ELSE x >= firstFull \/ Trailer(x) < nextEmpty
          BY <5>1, <3>2, <1>2 DEF RingShape
        <5>3. /\ d < Trailer(d) /\ e < Trailer(e)
              /\ Trailer(d) \in Int /\ Trailer(e) \in Int
          BY <5>1, <3>2, BlockBounds
        <5>4. nextEmpty \in Int /\ 0 <= nextEmpty /\ nextEmpty < Size
          BY <1>2 DEF Addr
        <5>5. Trailer(e)' = Trailer(e) /\ nextEmpty' = nextEmpty /\ firstFull' = d
          BY <5>1, <3>2, <1>3, <1>4
        <5>6. IF nextEmpty > d
              THEN e >= d /\ Trailer(e) < nextEmpty
              ELSE e >= d \/ Trailer(e) < nextEmpty
          BY <5>1, <5>2, <5>3, <5>4, <3>5, <1>2 DEF Age
        <5> QED
          BY <5>5, <5>6
      <4> QED
        BY <4>1, <4>2, <4>3 DEF RingShape
    <3>10. OldestInUse'
      BY <3>2, <1>4 DEF OldestInUse
    <3>11. TypeOK'
      BY <3>2, <1>2, <1>3, <1>6 DEF TypeOK
    <3> QED
      BY <1>5, <3>8, <3>9, <3>10, <3>11
  <2> QED
    BY <2>3, <2>4
<1> QED
  BY <1>7, <1>8

-----------------------------------------------------------------------------
LEMMA StepIInv == IInv /\ [Next]_vars => IInv'
<1> SUFFICES ASSUME IInv, [Next]_vars
             PROVE  IInv'
  OBVIOUS
<1>1. ASSUME NEW t \in Type, Alloc(t)
      PROVE  IInv'
  BY <1>1, AllocIInv
<1>2. ASSUME NEW b \in blocks, Free(b)
      PROVE  IInv'
  BY <1>2, FreeIInv
<1>3. CASE UNCHANGED vars
  BY <1>3 DEF vars, IInv, TypeOK, BlocksIntact, BlocksDisjoint, ChainOrdered,
     RingShape, OldestInUse, Trailer, After, Age, Extent
<1> QED
  BY <1>1, <1>2, <1>3 DEF Next

LEMMA SpecIInv == Spec => []IInv
  BY InitIInv, StepIInv, PTL DEF Spec

\* The pointers and words of the allocator stay of their types.
THEOREM TypeCorrect == Spec => []TypeOK
<1>1. IInv => TypeOK
  BY DEF IInv
<1> QED
  BY <1>1, SpecIInv, PTL

\* Whatever is allocated and freed, in whatever order, no two items of the
\* data queue share a word of the buffer (pMemoryAlloc, memoryFree).
THEOREM NoOverlap == Spec => []BlocksDisjoint
<1>1. IInv => BlocksDisjoint
  BY DEF IInv
<1> QED
  BY <1>1, SpecIInv, PTL

\* Nothing is written over the header of an item in the buffer.
THEOREM NoDamage == Spec => []BlocksIntact
<1>1. IInv => BlocksIntact
  BY DEF IInv
<1> QED
  BY <1>1, SpecIInv, PTL

\* The trailing words always lead memoryFree() from the oldest block to the
\* newest, so that it neither skips a block nor leaves the ring.
THEOREM ChainKept == Spec => []ChainOrdered
<1>1. IInv => ChainOrdered
  BY DEF IInv
<1> QED
  BY <1>1, SpecIInv, PTL

\* memoryFree() reclaims as far as it can.
THEOREM NoFreedSpaceHeld == Spec => []OldestInUse
<1>1. IInv => OldestInUse
  BY DEF IInv
<1> QED
  BY <1>1, SpecIInv, PTL

\* Both at once: the chain that memoryFree() follows is whole, and begins
\* with an item in use.
THEOREM ChainStaysSound == Spec => []ChainSound
<1>1. ChainOrdered /\ OldestInUse => ChainSound
  BY DEF ChainSound
<1> QED
  BY <1>1, ChainKept, NoFreedSpaceHeld, PTL

\* An item in use is changed by no allocation and by no freeing but its own.
THEOREM InUseSafe == Spec => InUseUntouched
<1>1. IInv /\ [Next]_vars => [InUseStays]_vars
  <2> SUFFICES ASSUME IInv, [Next]_vars
               PROVE  InUseStays \/ UNCHANGED vars
    OBVIOUS
  <2>1. ASSUME NEW t \in Type, Alloc(t)
        PROVE  InUseStays
    <3>1. PICK a : a = Place(t) /\ a # NULL
      BY <2>1 DEF Alloc
    <3>2. /\ blocks \subseteq blocks'
          /\ header' = [x \in Addr |->
                IF x = a THEN [type |-> t, free |-> FALSE]
                ELSE IF x \in Extent(a, t) THEN NoHeader ELSE header[x]]
      BY <2>1, <3>1 DEF Alloc
    <3>3. a \in Int /\ BlockWords(t) \in Nat /\ BlockWords(t) >= 2
      BY <3>1, PlaceFacts
    <3>4. ASSUME NEW c \in blocks
          PROVE  c \notin Extent(a, t) /\ c # a /\ c \in Addr
      <4>1. Trailer(c) < a \/ a + BlockWords(t) <= c
        BY <3>1, PlaceFacts
      <4>2. c \in Int /\ c < Trailer(c) /\ Trailer(c) \in Int /\ c \in Addr
        BY BlockBounds DEF IInv, TypeOK
      <4> QED
        BY <4>1, <4>2, <3>3 DEF Extent
    <3> QED
      BY <3>2, <3>4 DEF InUseStays
  <2>2. ASSUME NEW b \in blocks, Free(b)
        PROVE  InUseStays
    <3>1. SUFFICES ASSUME NEW c \in blocks, ~header[c].free, c # b
                   PROVE  c \in blocks' /\ header'[c] = header[c]
      BY <2>2 DEF InUseStays
    <3>2. c \notin Passed(b)
      BY <3>1, PassedFacts
    <3> QED
      BY <2>2, <3>1, <3>2 DEF Free, IInv, TypeOK
  <2> QED
    BY <2>1, <2>2 DEF Next
<1> QED
  BY <1>1, SpecIInv, PTL DEF Spec, InUseUntouched
=============================================================================
