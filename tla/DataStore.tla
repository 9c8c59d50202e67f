----------------------------- MODULE DataStore -----------------------------
(***************************************************************************)
(* The data queue of eh_data.cpp: the doubly linked list of items kept in  *)
(* the blocks of the ring allocator, the read cursor gpNextData, the byte  *)
(* count, and the pointers that tie an item to the action that made it.    *)
(*                                                                         *)
(* Every operation holds the data mutex throughout, so each is one action; *)
(* the threads that call them interleave freely.  (pDataFirst() takes no   *)
(* mutex, but makes a single assignment.)  An item's flags and time matter *)
(* only to the order of sorting: "key" is that pair.                       *)
(***************************************************************************)
EXTENDS Integers, FiniteSets, Sequences, SequencesExt, FiniteSetsExt

CONSTANTS
    Size, Type, Words, NULL,
    Action,  \* entries of gActionList
    Key,     \* sort keys: what conditionFlags() compares, as integers
    Junk     \* a pointer read from memory that has been given to other data

ASSUME BufferAssumption ==
    /\ Size \in Nat \ {0}
    /\ Words \in [Type -> Nat \ {0}]
    /\ NULL \notin Int
ASSUME KeyAssumption == Key \subseteq Int
ASSUME JunkAssumption == Junk \notin Int /\ Junk # NULL /\ NULL \notin Action

VARIABLES
    firstFull, nextEmpty, previousNext, header, next, blocks,
    node,      \* pNext, pPrevious, pAction and sort key each word would be read as
    dataList,  \* gpDataList
    nextData,  \* gpNextData
    sizeUsed,  \* gDataSizeUsed, in words
    hook       \* pData of each action

Ring == INSTANCE DataRing

ring == <<firstFull, nextEmpty, previousNext, header, next, blocks>>
vars == <<ring, node, dataList, nextData, sizeUsed, hook>>

Addr == 0 .. Size - 1
Scrap == [next |-> Junk, prev |-> Junk, action |-> NULL, key |-> NULL]

\* The addresses met on following pNext from a root through a node memory.
Walk(root, n) ==
    LET hop[i \in 0 .. Size] ==
            IF i = 0 THEN root
            ELSE LET p == hop[i - 1] IN IF p \in Addr THEN n[p].next ELSE NULL
        hops == {i \in 0 .. Size : hop[i] \in Addr}
    IN  [i \in 1 .. Cardinality(hops) |-> hop[i - 1]]

InUse == {b \in blocks : ~header[b].free}

Queue == Walk(dataList, node)
Tail1 == IF Queue = <<>> THEN NULL ELSE Queue[Len(Queue)]

Init ==
    /\ Ring!Init
    /\ node = [a \in Addr |-> Scrap]
    /\ dataList = NULL
    /\ nextData = NULL
    /\ sizeUsed = 0
    /\ hook = [c \in Action |-> NULL]

-----------------------------------------------------------------------------
\* pDataAlloc(pAction, type, flags, ...) finding room; c may be NULL.
Alloc(c, t, k) ==
    LET a == Ring!Place(t) IN
    /\ Ring!Alloc(t)
    /\ node' = [x \in Addr |->
          IF x = a THEN [next |-> NULL, prev |-> Tail1, action |-> c, key |-> k]
          ELSE IF x \in Ring!Extent(a, t) THEN Scrap
          ELSE IF x = Tail1 THEN [node[x] EXCEPT !.next = a]
          ELSE node[x]]
    /\ dataList' = IF dataList = NULL THEN a ELSE dataList
    /\ sizeUsed' = sizeUsed + Ring!BlockWords(t)
    /\ hook' = IF c = NULL THEN hook ELSE [hook EXCEPT ![c] = a]
    /\ UNCHANGED nextData

\* The memory of an item no longer listed is read only through the cursor:
\* once the cursor is elsewhere what the words of a hold is of no account.
Forget(n, a) == IF a \in Addr THEN [n EXCEPT ![a] = Scrap] ELSE n

\* Where the cursor would leave a freed item behind.
Stale == IF nextData \in InUse THEN NULL ELSE nextData

\* Mutant: the pointer back to b is left in the item after it.
UnlinkedForward(b) ==
    [x \in Addr |->
        IF x = node[b].prev THEN [node[x] EXCEPT !.next = node[b].next] ELSE node[x]]

\* Nodes with b taken out of the chain; b itself is left as it was.
Unlinked(b) ==
    [x \in Addr |->
        CASE x = node[b].prev -> [node[x] EXCEPT !.next = node[b].next]
          [] x = node[b].next -> [node[x] EXCEPT !.prev = node[b].prev]
          [] OTHER -> node[x]]

\* The words of some blocks, by their headers.
WordsOf(h, S) == MapThenSumSet(LAMBDA b : Ring!BlockWords(h[b].type), S)

\* The words memoryFree(b) reports as freed.
WordsFreed(b) == WordsOf(header, Ring!Passed(b))

\* Mutant: the root is moved on after the memory has been given back.
FreeThenRead(b) ==
    /\ Ring!Free(b)
    /\ hook' = IF node[b].action = NULL THEN hook
               ELSE [hook EXCEPT ![node[b].action] = NULL]
    /\ node' = IF nextData = b THEN Unlinked(b) ELSE Forget(Unlinked(b), b)
    /\ dataList' = IF dataList = b THEN node'[b].next ELSE dataList
    /\ sizeUsed' = sizeUsed - WordsFreed(b)
    /\ UNCHANGED nextData

\* dataFree() of an item found in the list.  The last test of the code,
\* "*ppThis == gpNextData", is made when *ppThis is already the item after b.
Free(b) ==
    /\ Ring!Free(b)
    /\ hook' = IF node[b].action = NULL THEN hook
               ELSE [hook EXCEPT ![node[b].action] = NULL]
    /\ node' = IF nextData = b THEN Unlinked(b) ELSE Forget(Unlinked(b), b)
    /\ dataList' = IF dataList = b THEN node[b].next ELSE dataList
    /\ sizeUsed' = IF sizeUsed >= WordsFreed(b)
                   THEN sizeUsed - WordsFreed(b) ELSE sizeUsed
    /\ nextData' = IF nextData = node[b].next THEN node[b].next ELSE nextData

\* Mutant: only the entry lets go, the item goes on pointing at it.
ReuseActionOneWay(c) ==
    /\ hook[c] # NULL
    /\ hook' = [hook EXCEPT ![c] = NULL]
    /\ UNCHANGED <<ring, node, dataList, nextData, sizeUsed>>

\* writeAction(): the entry is reused, its last item is unhooked.
ReuseAction(c) ==
    /\ hook[c] # NULL
    /\ node' = [node EXCEPT ![hook[c]].action = NULL]
    /\ hook' = [hook EXCEPT ![c] = NULL]
    /\ UNCHANGED <<ring, dataList, nextData, sizeUsed>>

-----------------------------------------------------------------------------
(* sort(): exchange the first neighbours out of order, start again. *)

\* Mutant: >= for >, equals change places.
OutOfOrderEqual(n, a) == n[a].next # NULL /\ n[n[a].next].key >= n[a].key

OutOfOrder(n, a) == n[a].next # NULL /\ n[n[a].next].key > n[a].key

\* Node a exchanged with the one after it.
Exchanged(n, a) ==
    LET b == n[a].next IN
    [x \in Addr |->
        CASE x = a -> [n[x] EXCEPT !.next = n[b].next, !.prev = b]
          [] x = b -> [n[x] EXCEPT !.next = a, !.prev = n[a].prev]
          [] x = n[a].prev -> [n[x] EXCEPT !.next = b]
          [] x = n[b].next -> [n[x] EXCEPT !.prev = a]
          [] OTHER -> n[x]]

SortStep(s) ==
    LET q == Walk(s.root, s.node)
        late == {i \in 1 .. Len(q) : OutOfOrder(s.node, q[i])}
    IN  IF late = {} THEN s
        ELSE LET a == q[Min(late)] IN
             [root |-> IF a = s.root THEN s.node[a].next ELSE s.root,
              node |-> Exchanged(s.node, a)]

\* The list after k exchanges.
Sorted(k) ==
    LET after[i \in 0 .. k] ==
            IF i = 0 THEN [root |-> dataList, node |-> node]
            ELSE SortStep(after[i - 1])
    IN  after[k]

\* Exchanges that sort any list that fits.
EnoughExchanges == LET m == Cardinality(blocks) IN (m * (m - 1)) \div 2

\* pDataSort(); DATA_SORT_GUARD_TIMER_MS may stop it after any exchange.
Sort ==
    \E k \in 0 .. EnoughExchanges :
        /\ node' = Forget(Sorted(k).node, Stale)
        /\ dataList' = Sorted(k).root
        /\ nextData' = dataList'
        /\ UNCHANGED <<ring, sizeUsed, hook>>

\* pDataFirst()
First ==
    /\ nextData' = dataList
    /\ node' = Forget(node, Stale)
    /\ UNCHANGED <<ring, dataList, sizeUsed, hook>>

\* pDataNext(); the cursor may be at an item that has been freed.
Advance ==
    /\ nextData \in Addr
    /\ nextData' = node[nextData].next
    /\ node' = Forget(node, Stale)
    /\ UNCHANGED <<ring, dataList, sizeUsed, hook>>

Next ==
    \/ \E c \in Action \cup {NULL}, t \in Type, k \in Key : Alloc(c, t, k)
    \/ \E i \in DOMAIN Queue : Free(Queue[i])
    \/ \E c \in Action : ReuseAction(c)
    \/ Sort
    \/ First
    \/ Advance

Spec == Init /\ [][Next]_vars

-----------------------------------------------------------------------------
Pointer == Addr \cup {NULL, Junk}

TypeOK ==
    /\ Ring!TypeOK
    /\ node \in [Addr -> [next : Pointer, prev : Pointer,
                          action : Action \cup {NULL}, key : Key \cup {NULL}]]
    /\ dataList \in Addr \cup {NULL}
    /\ nextData \in Pointer
    /\ sizeUsed \in Nat
    /\ hook \in [Action -> Addr \cup {NULL}]

\* The list and the allocator agree on what is stored: the items on the list
\* are exactly the blocks not freed, each once, and it can be followed
\* backwards as well (the pointer exchanges of dataFree() and sort()).
ListSound ==
    /\ Range(Queue) = InUse
    /\ Len(Queue) = Cardinality(InUse)
    /\ \A i \in DOMAIN Queue :
         node[Queue[i]].prev = IF i = 1 THEN NULL ELSE Queue[i - 1]

\* An action points only at an item in the list that points back at it, so
\* writeAction() never writes through a dead pointer, even though an action
\* may make several items and its entry be reused.  (The other direction is
\* HooksBothWays of DataHooks.)
HooksMutual ==
    \A c \in Action : hook[c] # NULL =>
        hook[c] \in InUse /\ node[hook[c]].action = c

\* gDataSizeUsed is what the ring holds, freed space not yet reclaimed
\* included: dataFree()'s test "gDataSizeUsed >= x" never hides an error.
BytesAccounted == sizeUsed = WordsOf(header, blocks)

\* What dataFree(), sort() and the reuse of action entries must keep between
\* them: the list, the pointers to and from actions, and the count of bytes.
StoreSound == ListSound /\ HooksMutual /\ BytesAccounted

\* The items as the callers see them, in the order of the list.
Items == [i \in DOMAIN Queue |->
             [id |-> Queue[i], type |-> header[Queue[i]].type, key |-> node[Queue[i]].key]]

Abstract == INSTANCE DataQueue WITH
    Capacity <- Size,
    Room <- [t \in Type |-> Ring!BlockWords(t)],
    Id <- Addr,
    Nothing <- NULL,
    queue <- Items,
    cursor <- nextData

\* The linked list in the ring implements the bounded queue.
QueueSpec == Abstract!Spec

\* Claimed by the assertion in pDataAlloc(), "I have seen this happen once,
\* so catch it here and recover": an item that fits the buffer is refused
\* only while something is stored.  Not so of the code; see the README.
RefusedOnlyWhenUsed ==
    \A t \in Type : Ring!BlockWords(t) <= Size /\ Ring!Place(t) = NULL => sizeUsed # 0

=============================================================================
