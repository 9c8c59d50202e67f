----------------------------- MODULE DataQueue -----------------------------
(***************************************************************************)
(* What eh_data.cpp promises its callers: a bounded queue of items, read   *)
(* with one cursor, whose items may be taken out in any order and which    *)
(* may be sorted, perhaps not completely.                                  *)
(***************************************************************************)
EXTENDS Integers, Sequences, FiniteSets

CONSTANTS
    Capacity,  \* words of storage
    Room,      \* words an item of a type takes
    Id,        \* names of items
    Nothing    \* the cursor at the end

VARIABLES
    queue,   \* the items, [id, type, key], oldest first until sorted
    cursor   \* the item next to be read

vars == <<queue, cursor>>

Held == {queue[i].id : i \in DOMAIN queue}

\* Words of the first n items.
RoomTaken ==
    LET sum[n \in 0 .. Len(queue)] ==
            IF n = 0 THEN 0 ELSE sum[n - 1] + Room[queue[n].type]
    IN  sum[Len(queue)]

Init == queue = <<>> /\ cursor = Nothing

\* A new item goes to the end and never takes more than there is.
Add ==
    /\ Len(queue') = Len(queue) + 1
    /\ SubSeq(queue', 1, Len(queue)) = queue
    /\ queue'[Len(queue) + 1].id \in Id \ Held
    /\ RoomTaken' <= Capacity
    /\ UNCHANGED cursor

\* One item is taken out; the others keep their order.
Take ==
    /\ \E i \in DOMAIN queue :
         queue' = SubSeq(queue, 1, i - 1) \o SubSeq(queue, i + 1, Len(queue))
    /\ UNCHANGED cursor

\* The same items in another order, in which no two that were in order
\* (the greater key first) have changed places.  The cursor is rewound.
Sort ==
    LET place(it) == CHOOSE j \in DOMAIN queue' : queue'[j] = it IN
    /\ Len(queue') = Len(queue)
    /\ {queue'[i] : i \in DOMAIN queue'} = {queue[i] : i \in DOMAIN queue}
    /\ \A i, j \in DOMAIN queue :
         i < j /\ queue[i].key >= queue[j].key => place(queue[i]) < place(queue[j])
    /\ cursor' = IF queue' = <<>> THEN Nothing ELSE queue'[1].id

Rewind ==
    /\ cursor' = IF queue = <<>> THEN Nothing ELSE queue[1].id
    /\ UNCHANGED queue

\* To the following item; nothing is promised of a cursor whose item is gone.
Advance ==
    /\ cursor # Nothing
    /\ \A i \in DOMAIN queue : queue[i].id = cursor =>
         cursor' = IF i = Len(queue) THEN Nothing ELSE queue[i + 1].id
    /\ UNCHANGED queue

Next == Add \/ Take \/ Sort \/ Rewind \/ Advance

Spec == Init /\ [][Next]_vars
=============================================================================
