------------------------------ MODULE DataRing ------------------------------
(***************************************************************************)
(* The memory allocator of eh_data.cpp: pMemoryAlloc(), memoryFree() and   *)
(* advanceMemoryPointers() on the static buffer main() hands to            *)
(* dataInit().                                                             *)
(*                                                                         *)
(* The buffer is an array of words, 0..Size-1.  A block is a header (type  *)
(* and flags), the contents, and one trailing word holding the address of  *)
(* the block allocated after it (NULL in the newest).  Blocks are handed   *)
(* out in a ring and given back in any order, but space is reclaimed only  *)
(* from the oldest end: memoryFree() flags a block and then follows the    *)
(* trailing words from gpBufferFirstFull over every flagged block.         *)
(*                                                                         *)
(* Memory is kept word by word, so that a block placed over another would  *)
(* destroy the header or the trailing word of the other.                   *)
(***************************************************************************)
EXTENDS Integers, FiniteSets

CONSTANTS
    Size,   \* DATA_MAX_SIZE_WORDS
    Type,   \* the data types
    Words,  \* words an item of a type needs, header included
    NULL

ASSUME SizeAssumption == Size \in Nat \ {0}
ASSUME WordsAssumption == Words \in [Type -> Nat \ {0}]
ASSUME NullAssumption == NULL \notin Int

Addr == 0 .. Size - 1

\* A word that is not the first of an item.
NoHeader == [type |-> NULL, free |-> FALSE]
Header == [type : Type, free : BOOLEAN] \cup {NoHeader}

VARIABLES
    firstFull,     \* gpBufferFirstFull
    nextEmpty,     \* gpBufferNextEmpty
    previousNext,  \* gpBufferPreviousNext: the trailing word of the newest block
    header,        \* the header each word would be read as
    next,          \* the pointer each word would be read as
    blocks         \* history: blocks handed out and not yet reclaimed

vars == <<firstFull, nextEmpty, previousNext, header, next, blocks>>

\* mallocSizeWords, the trailing word included.
BlockWords(t) == Words[t] + 1

\* The words of a block of type t at address a.
Extent(a, t) == a .. a + BlockWords(t) - 1

\* The word that links block b to the block allocated after it.
Trailer(b) == b + Words[header[b].type]
After(b) == next[Trailer(b)]

Init ==
    /\ firstFull = NULL
    /\ nextEmpty = 0
    /\ previousNext = NULL
    /\ header = [a \in Addr |-> NoHeader]
    /\ next = [a \in Addr |-> NULL]
    /\ blocks = {}

-----------------------------------------------------------------------------
(* pMemoryAlloc: where a block of a type goes, or NULL. *)

\* Nothing is allocated, or the free space is E..end and start..F.
FreeSpaceAtEnd == firstFull = NULL \/ nextEmpty > firstFull

FitsBeforeEnd(t) == FreeSpaceAtEnd /\ nextEmpty + BlockWords(t) <= Size

\* Mutant: wraps without asking whether the start of the buffer is in use.
FitsAtStartBlindly(t) == FreeSpaceAtEnd /\ firstFull # NULL

\* An empty buffer is never wrapped: the code tries the end only.
FitsAtStart(t) ==
    /\ FreeSpaceAtEnd
    /\ firstFull # NULL
    /\ firstFull >= BlockWords(t)

FitsInGap(t) ==
    /\ ~FreeSpaceAtEnd
    /\ firstFull - nextEmpty >= BlockWords(t)

\* pMemoryAlloc(type, false): also all that dataAllocCheck() returns.
Place(t) ==
    IF FitsBeforeEnd(t) \/ FitsInGap(t) THEN nextEmpty
    ELSE IF FitsAtStart(t) THEN 0
    ELSE NULL

\* Mutant: > for >= where the pointer wraps.
AdvanceOffEnd(t, a) ==
    LET end == a + BlockWords(t)
        linked == IF firstFull # NULL
                  THEN [next EXCEPT ![previousNext] = a]
                  ELSE next
    IN  /\ next' = [x \in Addr |-> IF x \in Extent(a, t) THEN NULL ELSE linked[x]]
        /\ nextEmpty' = IF end > Size THEN 0 ELSE end
        /\ previousNext' = end - 1

\* Mutant: the next block starts on the trailing word of this one.
AdvanceShort(t, a) ==
    LET end == a + Words[t]
        linked == IF firstFull # NULL
                  THEN [next EXCEPT ![previousNext] = a]
                  ELSE next
    IN  /\ next' = [x \in Addr |-> IF x \in Extent(a, t) THEN NULL ELSE linked[x]]
        /\ nextEmpty' = IF end >= Size THEN 0 ELSE end
        /\ previousNext' = end

\* advanceMemoryPointers(), with gpBufferNextEmpty at a.
Advance(t, a) ==
    LET end == a + BlockWords(t)
        linked == IF firstFull # NULL
                  THEN [next EXCEPT ![previousNext] = a]
                  ELSE next
    IN  /\ next' = [x \in Addr |-> IF x \in Extent(a, t) THEN NULL ELSE linked[x]]
        /\ nextEmpty' = IF end >= Size THEN 0 ELSE end
        /\ previousNext' = end - 1

\* pMemoryAlloc(type, true) finding room, and the item written into it.
Alloc(t) ==
    LET a == Place(t) IN
    /\ a # NULL
    /\ Advance(t, a)
    /\ firstFull' = IF firstFull = NULL THEN a ELSE firstFull
    /\ header' = [x \in Addr |->
                    IF x = a THEN [type |-> t, free |-> FALSE]
                    ELSE IF x \in Extent(a, t) THEN NoHeader ELSE header[x]]
    /\ blocks' = blocks \cup {a}

-----------------------------------------------------------------------------
(* memoryFree *)

Flagged(b) == b # NULL /\ header[b].free

\* The blocks the while loop passes once b is flagged too: the least set
\* that has the first block and, with a block, the one its trailing word
\* names, as far as they are flagged.
Closed(S, b) ==
    LET flagged(c) == c = b \/ Flagged(c) IN
    /\ flagged(firstFull) => firstFull \in S
    /\ \A c \in S : flagged(After(c)) => After(c) \in S

\* Mutant: an if for the while, one block is reclaimed at most.
PassedOnce(b) == {c \in blocks : c = firstFull /\ (c = b \/ Flagged(c))}

\* Mutant: once started the loop does not look at the flags.
PassedBlindly(b) == {c \in blocks : b = firstFull}

Passed(b) == {c \in blocks : \A S \in SUBSET blocks : Closed(S, b) => c \in S}

\* memoryFree(b), for an item of the data list.
Free(b) ==
    /\ b \in blocks
    /\ ~header[b].free
    /\ header' = [header EXCEPT ![b].free = TRUE]
    /\ blocks' = blocks \ Passed(b)
    /\ IF Passed(b) = {}
       THEN UNCHANGED firstFull
       ELSE \E c \in Passed(b) : /\ After(c) \notin Passed(b)
                                 /\ firstFull' = After(c)
    /\ UNCHANGED <<nextEmpty, previousNext, next>>

Next ==
    \/ \E t \in Type : Alloc(t)
    \/ \E b \in blocks : Free(b)

Spec == Init /\ [][Next]_vars

-----------------------------------------------------------------------------
TypeOK ==
    /\ firstFull \in Addr \cup {NULL}
    /\ nextEmpty \in Addr
    /\ previousNext \in Addr \cup {NULL}
    /\ header \in [Addr -> Header]
    /\ next \in [Addr -> Addr \cup {NULL}]
    /\ blocks \in SUBSET Addr

\* How far round the ring a block is from the oldest one.
Age(a) == IF a >= firstFull THEN a - firstFull ELSE a + Size - firstFull

\* Every block is still an item that lies inside the buffer: nothing
\* allocated since has been written over its header (eh_data.cpp,
\* pMemoryAlloc's tests of gpBufferNextEmpty against gpBufferFirstFull).
BlocksIntact ==
    \A b \in blocks : /\ header[b].type \in Type
                      /\ Extent(b, header[b].type) \subseteq Addr

\* No two blocks share a word.
BlocksDisjoint ==
    \A b, c \in blocks :
        b # c => Extent(b, header[b].type) \cap Extent(c, header[c].type) = {}

\* The trailing words chain the blocks in the order they lie in the ring,
\* from gpBufferFirstFull to the newest, skipping none: what memoryFree()
\* needs to give back every word it should and no other.
ChainOrdered ==
    /\ firstFull = NULL <=> blocks = {}
    /\ blocks # {} => firstFull \in blocks
    /\ \A b \in blocks :
         IF After(b) = NULL
         THEN Trailer(b) = previousNext /\ \A c \in blocks : Age(c) <= Age(b)
         ELSE /\ After(b) \in blocks
              /\ Age(b) < Age(After(b))
              /\ \A c \in blocks : Age(c) <= Age(b) \/ Age(After(b)) <= Age(c)

\* The oldest block is one its owner still holds: memoryFree() leaves no
\* freed space behind at the old end of the ring.
OldestInUse == firstFull # NULL => ~header[firstFull].free

\* The chain is whole and nothing freed is left at its old end.
ChainSound == ChainOrdered /\ OldestInUse

\* Space is taken back only from items that were freed, and an item in use
\* keeps its place, its header and its list membership whatever is
\* allocated or freed around it.
InUseStays ==
    \A b \in blocks : ~header[b].free =>
        \/ b \in blocks' /\ header'[b] = header[b]
        \/ Free(b)
InUseUntouched == [][InUseStays]_vars

=============================================================================
