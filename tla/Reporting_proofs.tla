-------------------------- MODULE Reporting_proofs --------------------------
(***************************************************************************)
(* Whatever is stored meanwhile and whatever becomes of the reports and of *)
(* their acks, the codec and the thread that sends use the data queue as   *)
(* the queue expects.  Until something is stored just between a dataFree() *)
(* and its pDataNext(), the codec keeps its place in the queue, reports    *)
(* have numbers of their own, all that is due has been sent when the last  *)
(* of a session has been, and an item that requires an ack is freed by the *)
(* ack of the report that held it.                                         *)
(***************************************************************************)
EXTENDS Reporting, FiniteSetTheorems, TLAPS

StoreProofs == INSTANCE DataStore_proofs WITH Action <- {}, Key <- Flags, plural <- {}

-----------------------------------------------------------------------------
(* What is proved of the queue, for the use that is made of it here *)

\* The assumptions of the queue's modules follow from those made here.
LEMMA StoreAssumptions ==
    /\ StoreProofs!BufferAssumption
    /\ StoreProofs!KeyAssumption
    /\ StoreProofs!JunkAssumption
BY StoreAssumption, FlagsAssumption
   DEF StoreProofs!BufferAssumption, StoreProofs!KeyAssumption, StoreProofs!JunkAssumption

\* The two instances of the queue speak of the same addresses, items and list,
LEMMA SamePlaces ==
    /\ Store!Addr = StoreProofs!Addr
    /\ Store!InUse = StoreProofs!InUse
    /\ Store!Queue = StoreProofs!Queue
    /\ Store!Tail1 = StoreProofs!Tail1
    /\ Store!Stale = StoreProofs!Stale
    /\ Store!Pointer = StoreProofs!Pointer
    /\ Store!Scrap = StoreProofs!Scrap
<1>1. Store!Addr = StoreProofs!Addr /\ Store!InUse = StoreProofs!InUse
  BY DEF Store!Addr, StoreProofs!Addr, Store!InUse, StoreProofs!InUse
<1>2. Store!Queue = StoreProofs!Queue
  BY DEF Store!Queue, StoreProofs!Queue, Store!Walk, StoreProofs!Walk, Store!Addr, StoreProofs!Addr,
         Store!Cardinality, StoreProofs!Cardinality
<1>3. Store!Tail1 = StoreProofs!Tail1 /\ Store!Stale = StoreProofs!Stale
  BY <1>1, <1>2 DEF Store!Tail1, StoreProofs!Tail1, Store!Stale, StoreProofs!Stale
<1>4. Store!Pointer = StoreProofs!Pointer /\ Store!Scrap = StoreProofs!Scrap
  BY <1>1 DEF Store!Pointer, StoreProofs!Pointer, Store!Scrap, StoreProofs!Scrap
<1> QED
  BY <1>1, <1>2, <1>3, <1>4

\* and after a step too;
LEMMA SameQueueNext == Store!Queue' = StoreProofs!Queue'
BY DEF Store!Queue, StoreProofs!Queue, Store!Walk, StoreProofs!Walk, Store!Addr, StoreProofs!Addr,
       Store!Cardinality, StoreProofs!Cardinality

\* they keep the same memory
LEMMA SameRing ==
    /\ Store!Ring!Init <=> StoreProofs!Ring!Init
    /\ \A t \in Type : Store!Ring!Alloc(t) <=> StoreProofs!Ring!Alloc(t)
    /\ \A t \in Type : Store!Ring!Place(t) = StoreProofs!Ring!Place(t)
    /\ \A t \in Type : Store!Ring!BlockWords(t) = StoreProofs!Ring!BlockWords(t)
    /\ \A a, t : Store!Ring!Extent(a, t) = StoreProofs!Ring!Extent(a, t)
    /\ \A b : Store!Ring!Free(b) <=> StoreProofs!Ring!Free(b)
    /\ \A b : Store!Ring!Passed(b) = StoreProofs!Ring!Passed(b)
    /\ Store!Ring!TypeOK <=> StoreProofs!Ring!TypeOK
<1> USE DEF Store!Ring!BlockWords, StoreProofs!Ring!BlockWords, Store!Ring!Extent, StoreProofs!Ring!Extent,
            Store!Ring!Addr, StoreProofs!Ring!Addr,
            Store!Ring!NoHeader, StoreProofs!Ring!NoHeader, Store!Ring!Trailer, StoreProofs!Ring!Trailer,
            Store!Ring!After, StoreProofs!Ring!After
<1>1. Store!Ring!Init <=> StoreProofs!Ring!Init
  BY DEF Store!Ring!Init, StoreProofs!Ring!Init
<1>2. ASSUME NEW t \in Type PROVE Store!Ring!Place(t) = StoreProofs!Ring!Place(t)
  BY DEF Store!Ring!Place, StoreProofs!Ring!Place,
         Store!Ring!FitsBeforeEnd, StoreProofs!Ring!FitsBeforeEnd,
         Store!Ring!FitsInGap, StoreProofs!Ring!FitsInGap,
         Store!Ring!FitsAtStart, StoreProofs!Ring!FitsAtStart,
         Store!Ring!FreeSpaceAtEnd, StoreProofs!Ring!FreeSpaceAtEnd
<1>3. ASSUME NEW t \in Type PROVE Store!Ring!Alloc(t) <=> StoreProofs!Ring!Alloc(t)
  BY <1>2 DEF Store!Ring!Alloc, StoreProofs!Ring!Alloc, Store!Ring!Advance, StoreProofs!Ring!Advance
<1>4. ASSUME NEW b PROVE Store!Ring!Passed(b) = StoreProofs!Ring!Passed(b)
  BY DEF Store!Ring!Passed, StoreProofs!Ring!Passed, Store!Ring!Closed, StoreProofs!Ring!Closed,
         Store!Ring!Flagged, StoreProofs!Ring!Flagged
<1>5. ASSUME NEW b PROVE Store!Ring!Free(b) <=> StoreProofs!Ring!Free(b)
  BY <1>4 DEF Store!Ring!Free, StoreProofs!Ring!Free
<1>6. Store!Ring!TypeOK <=> StoreProofs!Ring!TypeOK
  BY DEF Store!Ring!TypeOK, StoreProofs!Ring!TypeOK, Store!Ring!Header, StoreProofs!Ring!Header
<1> QED
  BY <1>1, <1>2, <1>3, <1>4, <1>5, <1>6

\* and take the same steps.
LEMMA SameStore ==
    /\ Store!Init <=> StoreProofs!Init
    /\ \A t \in Type, f \in Flags : Store!Alloc(NULL, t, f) <=> StoreProofs!Alloc(NULL, t, f)
    /\ \A b : Store!Unlinked(b) = StoreProofs!Unlinked(b)
    /\ \A n, z : Store!Forget(n, z) = StoreProofs!Forget(n, z)
    /\ \A b : Store!Free(b) <=> StoreProofs!Free(b)
    /\ Store!First <=> StoreProofs!First
    /\ Store!Advance <=> StoreProofs!Advance
    /\ Store!TypeOK <=> StoreProofs!TypeOK
    /\ UNCHANGED store <=> UNCHANGED StoreProofs!vars
<1>1. Store!Init <=> StoreProofs!Init
  BY SamePlaces, SameRing DEF Store!Init, StoreProofs!Init
<1>2. ASSUME NEW t \in Type, NEW f \in Flags
      PROVE  Store!Alloc(NULL, t, f) <=> StoreProofs!Alloc(NULL, t, f)
  BY SamePlaces, SameRing DEF Store!Alloc, StoreProofs!Alloc
<1>3. ASSUME NEW b PROVE Store!Unlinked(b) = StoreProofs!Unlinked(b)
  BY SamePlaces DEF Store!Unlinked, StoreProofs!Unlinked
<1>4. ASSUME NEW n, NEW z PROVE Store!Forget(n, z) = StoreProofs!Forget(n, z)
  BY SamePlaces DEF Store!Forget, StoreProofs!Forget
<1>5. ASSUME NEW b PROVE Store!WordsFreed(b) = StoreProofs!WordsFreed(b)
  <2>1. Store!Ring!Passed(b) = StoreProofs!Ring!Passed(b)
    BY SameRing
  <2>2. ASSUME NEW S PROVE Store!WordsOf(header, S) = StoreProofs!WordsOf(header, S)
    BY DEF Store!WordsOf, StoreProofs!WordsOf, Store!MapThenSumSet, StoreProofs!MapThenSumSet,
           Store!MapThenFoldSet, StoreProofs!MapThenFoldSet,
           Store!Ring!BlockWords, StoreProofs!Ring!BlockWords
  <2> QED
    BY <2>1, <2>2 DEF Store!WordsFreed, StoreProofs!WordsFreed
<1>6. ASSUME NEW b PROVE Store!Free(b) <=> StoreProofs!Free(b)
  BY <1>3, <1>4, <1>5, SameRing DEF Store!Free, StoreProofs!Free
<1>7. (Store!First <=> StoreProofs!First) /\ (Store!Advance <=> StoreProofs!Advance)
  BY <1>4, SamePlaces
     DEF Store!First, StoreProofs!First, Store!Advance, StoreProofs!Advance, Store!ring, StoreProofs!ring
<1>8. Store!TypeOK <=> StoreProofs!TypeOK
  BY SamePlaces, SameRing DEF Store!TypeOK, StoreProofs!TypeOK
<1>9. UNCHANGED store <=> UNCHANGED StoreProofs!vars
  BY DEF store, StoreProofs!vars, StoreProofs!ring
<1> QED
  BY <1>1, <1>2, <1>3, <1>4, <1>6, <1>7, <1>8, <1>9

\* Whatever the thread does to the queue is an operation of the queue.
LEMMA StoreSteps == StoreProofs!StoreInv /\ [Next]_vars => [StoreProofs!Next]_(StoreProofs!vars)
<1> SUFFICES ASSUME StoreProofs!StoreInv, [Next]_vars
             PROVE  StoreProofs!Next \/ UNCHANGED store
  BY SameStore
<1>1. ASSUME NEW t \in Type, NEW f \in Flags, Store!Alloc(NULL, t, f) PROVE StoreProofs!Next
  BY <1>1, SameStore DEF StoreProofs!Next
<1>2. ASSUME NEW b, Store!Free(b) PROVE StoreProofs!Next
  <2>1. StoreProofs!Free(b) /\ StoreProofs!Ring!Free(b)
    BY <1>2, SameStore DEF StoreProofs!Free
  <2>2. b \in StoreProofs!InUse
    BY <2>1, StoreAssumptions, StoreProofs!FreeFacts DEF StoreProofs!StoreInv
  <2>3. /\ StoreProofs!IsList(StoreProofs!Queue, dataList, node)
        /\ StoreProofs!Elements(StoreProofs!Queue) = StoreProofs!InUse
    BY StoreAssumptions, StoreProofs!QueueFacts DEF StoreProofs!StoreInv
  <2>4. PICK i \in DOMAIN StoreProofs!Queue : StoreProofs!Queue[i] = b
    BY <2>2, <2>3 DEF StoreProofs!IsList, StoreProofs!Elements
  <2> QED
    BY <2>1, <2>4 DEF StoreProofs!Next
<1>3. Store!First => StoreProofs!Next
  BY SameStore DEF StoreProofs!Next
<1>4. DataNext => StoreProofs!Next \/ UNCHANGED store
  BY SameStore DEF DataNext, StoreProofs!Next
<1>5. CASE Reading
  BY <1>1, <1>5 DEF Reading
<1>6. CASE Prepare
  BY <1>3, <1>6 DEF Prepare
<1>7. CASE NewReport \/ EndReport \/ Sent \/ SendFails \/ StopSending \/ AckDone \/ AckOther \/ Astray
           \/ TimeOut
  BY <1>7 DEF NewReport, EndReport, Sent, SendFails, StopSending, AckDone, AckOther, Astray, TimeOut,
              PeekOver, Finish, vars
<1>8. CASE Encode
  BY <1>2, <1>8 DEF Encode
<1>9. CASE Following \/ AckNext
  BY <1>4, <1>9 DEF Following, AckNext
<1>10. CASE \E i \in air : Receive(i)
  BY <1>3, <1>10 DEF Receive
<1>11. CASE AckFree
  BY <1>2, <1>11 DEF AckFree
<1>12. CASE UNCHANGED vars
  BY <1>12 DEF vars
<1> QED
  BY <1>5, <1>6, <1>7, <1>8, <1>9, <1>10, <1>11, <1>12 DEF Next, Reporter

\* So the queue's invariant holds of every behaviour of the sending thread.
LEMMA SpecStoreInv == Spec => []StoreProofs!StoreInv
<1>1. Init => StoreProofs!StoreInv
  BY SameStore, StoreAssumptions, StoreProofs!InitStoreInv DEF Init
<1>2. StoreProofs!StoreInv /\ [Next]_vars => StoreProofs!StoreInv'
  BY StoreSteps, StoreAssumptions, StoreProofs!StepStoreInv
<1> QED
  BY <1>1, <1>2, PTL DEF Spec

-----------------------------------------------------------------------------
(* The type invariant *)

\* What is counted and numbered stays within its limits.
SenderTyped ==
    /\ at \in {"idle", "report", "item", "next", "send", "peek", "acks", "acking", "ackNext"}
    /\ keepGoing \in BOOLEAN /\ good \in BOOLEAN
    /\ needing \in Nat /\ acked \in 0 .. needing + MaxExtra
    /\ at \in {"acking", "ackNext"} => acked < needing + MaxExtra
    /\ gpData \in Store!Pointer
    /\ {reportIndex, lastIndex, got} \subseteq 0 .. IndexLimit - 1
    /\ index \in [Store!Addr -> 0 .. IndexLimit - 1]
    /\ inReport \subseteq Store!Addr /\ due \subseteq Store!Addr /\ late \subseteq Store!Addr
    /\ heldIn \in [Store!Addr -> (0 .. IndexLimit - 1) \cup {NULL}]
    /\ crossed \in BOOLEAN
    /\ others \in 0 .. MaxOthers
    /\ pData \in Store!Pointer
    /\ back \in {"peek", "acks"}
    /\ air \subseteq 0 .. IndexLimit - 1

ReportInv == StoreProofs!StoreInv /\ SenderTyped

\* What of it the proofs below use: the types of the queue's state,
LEMMA StoreTypes ==
    ASSUME StoreProofs!StoreInv
    PROVE  /\ Store!TypeOK
           /\ nextData \in Store!Pointer
           /\ NULL \in Store!Pointer
           /\ Store!InUse \subseteq Store!Addr
           /\ Store!Addr \subseteq Store!Pointer
<1>1. StoreProofs!InUse \subseteq StoreProofs!Addr /\ nextData \in StoreProofs!Pointer
  BY StoreAssumptions, StoreProofs!StoreTypes
<1> QED
  BY <1>1, SamePlaces, SameStore DEF StoreProofs!StoreInv, Store!Pointer

\* after a step too.
LEMMA StoreTypesNext ==
    StoreProofs!StoreInv' => Store!TypeOK' /\ nextData' \in Store!Pointer
<1>1. StoreProofs!StoreInv => Store!TypeOK /\ nextData \in Store!Pointer
  BY StoreTypes
<1>2. (nextData \in Store!Pointer)' <=> nextData' \in Store!Pointer
  BY DEF Store!Pointer, Store!Addr
<1> QED
  BY <1>1, <1>2, PTL

\* The step stores a reading of type t with the flags f at a.
StoredAs(t, f, i, a) ==
    /\ a = Store!Ring!Place(t)
    /\ Store!Alloc(NULL, t, f)
    /\ index' = [index EXCEPT ![a] = IF MaskedNeedsAck(f) THEN i ELSE 0]
    /\ heldIn' = [heldIn EXCEPT ![a] = NULL]
    /\ \/ at = "idle" /\ UNCHANGED <<others, due, late, crossed>>
       \/ /\ at # "idle" /\ others > 0 /\ others' = others - 1
          /\ due' = IF gpData = NULL THEN due ELSE due \cup {a}
          /\ late' = IF gpData = NULL THEN late \cup {a} ELSE late
          /\ crossed' = (crossed \/ Between)
    /\ UNCHANGED <<gpData, reportIndex, lastIndex, inReport, got, pData, back,
                   keepGoing, good, needing, acked, air, at>>

\* A reading is stored at an address that was free.
LEMMA AllocPlace ==
    ASSUME StoreProofs!StoreInv, NEW t \in Type, NEW f \in Flags, Store!Alloc(NULL, t, f),
           NEW a, a = Store!Ring!Place(t)
    PROVE  a \in Store!Addr /\ a \notin Store!InUse
<1>1. StoreProofs!Ring!Alloc(t) /\ a = StoreProofs!Ring!Place(t)
  BY SameStore, SameRing DEF StoreProofs!Alloc
<1>2. a \in StoreProofs!Addr /\ a \notin blocks
  BY <1>1, StoreAssumptions, StoreProofs!AllocFacts DEF StoreProofs!StoreInv
<1> QED
  BY <1>2, SamePlaces DEF Store!InUse

\* The sending thread's own variables have their types at the start,
LEMMA InitSenderTyped == Init => SenderTyped
<1> SUFFICES ASSUME Init PROVE SenderTyped
  OBVIOUS
<1>1. 0 \in 0 .. IndexLimit - 1 /\ 0 \in 0 .. MaxOthers /\ 0 \in 0 .. 0 + MaxExtra
  BY CountAssumption
<1>2. /\ index \in [Store!Addr -> 0 .. IndexLimit - 1]
      /\ heldIn \in [Store!Addr -> (0 .. IndexLimit - 1) \cup {NULL}]
  BY <1>1 DEF Init
<1>3. gpData \in Store!Pointer /\ pData \in Store!Pointer
  BY DEF Init, Store!Pointer
<1> QED
  BY <1>1, <1>2, <1>3 DEF Init, SenderTyped

\* and every step keeps them.
LEMMA StepSenderTyped ==
    StoreProofs!StoreInv /\ StoreProofs!StoreInv' /\ SenderTyped /\ [Next]_vars => SenderTyped'
<1> SUFFICES ASSUME StoreProofs!StoreInv, StoreProofs!StoreInv', SenderTyped, [Next]_vars
             PROVE  SenderTyped'
  OBVIOUS
<1>1. /\ nextData' \in Store!Pointer /\ NULL \in Store!Pointer
      /\ Store!InUse \subseteq Store!Addr
  BY StoreTypes, StoreTypesNext
<1>2. IndexLimit \in Nat \ {0} /\ MaxExtra \in Nat /\ MaxOthers \in Nat
  BY CountAssumption
<1> USE DEF SenderTyped
<1>3. CASE Reading
  <2>t. PICK t \in Type, f \in Flags, i \in 0 .. IndexLimit - 1 : \E a : StoredAs(t, f, i, a)
    BY <1>3 DEF Reading, StoredAs, acking
  <2>a. PICK a : StoredAs(t, f, i, a)
    BY <2>t
  <2>1. /\ a = Store!Ring!Place(t)
        /\ Store!Alloc(NULL, t, f)
        /\ index' = [index EXCEPT ![a] = IF MaskedNeedsAck(f) THEN i ELSE 0]
        /\ heldIn' = [heldIn EXCEPT ![a] = NULL]
        /\ \/ at = "idle" /\ UNCHANGED <<others, due, late, crossed>>
           \/ /\ at # "idle" /\ others > 0 /\ others' = others - 1
              /\ due' = IF gpData = NULL THEN due ELSE due \cup {a}
              /\ late' = IF gpData = NULL THEN late \cup {a} ELSE late
              /\ crossed' = (crossed \/ Between)
        /\ UNCHANGED <<gpData, reportIndex, lastIndex, inReport, got, pData, back>>
        /\ UNCHANGED <<keepGoing, good, needing, acked, air, at>>
    BY <2>a DEF StoredAs
  <2>2. a \in Store!Addr
    BY <2>1, AllocPlace
  <2>3. 0 \in 0 .. IndexLimit - 1
    BY <1>2
  <2>4. index' \in [Store!Addr -> 0 .. IndexLimit - 1]
    BY <2>1, <2>3
  <2>5. heldIn' \in [Store!Addr -> (0 .. IndexLimit - 1) \cup {NULL}]
    BY <2>1
  <2>6. /\ others' \in 0 .. MaxOthers
        /\ due' \subseteq Store!Addr /\ late' \subseteq Store!Addr
    BY <1>2, <2>1, <2>2
  <2>7. crossed' \in BOOLEAN
    <3>1. crossed' = crossed \/ crossed' = (crossed \/ Between)
      BY <2>1
    <3> QED
      BY <3>1, Zenon
  <2> QED
    BY <2>1, <2>4, <2>5, <2>6, <2>7
<1>4. CASE Prepare
  BY <1>1, <1>4 DEF Prepare, acking, history
<1>5. CASE NewReport
  <2>1. (reportIndex + 1) % IndexLimit \in 0 .. IndexLimit - 1
    BY <1>2
  <2> QED
    BY <1>5, <2>1 DEF NewReport, acking, sender, history
<1>6. CASE Encode
  <2>1. /\ gpData \in Store!Addr
        /\ index' \in [Store!Addr -> 0 .. IndexLimit - 1]
        /\ heldIn' \in [Store!Addr -> (0 .. IndexLimit - 1) \cup {NULL}]
        /\ gpData' \in Store!Pointer
    BY <1>1, <1>2, <1>6 DEF Encode
  <2> QED
    BY <1>6, <2>1 DEF Encode, acking, sender
<1>7. CASE Following
  BY <1>1, <1>7 DEF Following, acking, sender, history
<1>8. CASE EndReport \/ PeekOver \/ AckOther \/ Astray \/ UNCHANGED vars
  BY <1>8 DEF EndReport, PeekOver, AckOther, Astray, vars, codec, acking, sender, history
<1>9. CASE Sent
  <2>1. needing' = needing + 1 /\ acked' = acked /\ acked \in 0 .. needing' + MaxExtra
    BY <1>2, <1>9 DEF Sent
  <2>2. air' \subseteq 0 .. IndexLimit - 1
    BY <1>9 DEF Sent
  <2>3. at' \in {"peek", "report"} /\ inReport' = {}
    BY <1>9 DEF Sent
  <2> QED
    BY <1>9, <2>1, <2>2, <2>3 DEF Sent, acking, history
<1>10. CASE SendFails
  <2>1. heldIn' \in [Store!Addr -> (0 .. IndexLimit - 1) \cup {NULL}]
    BY <1>10 DEF SendFails
  <2> QED
    BY <1>10, <2>1 DEF SendFails, acking
<1>11. CASE StopSending
  <2>1. keepGoing' \in BOOLEAN
    BY <1>11 DEF StopSending
  <2> QED
    BY <1>11, <2>1 DEF StopSending, codec, acking, history
<1>12. ASSUME NEW i \in air, Receive(i) PROVE SenderTyped'
  BY <1>1, <1>12 DEF Receive, codec, history
<1>13. CASE AckDone
  <2>1. got' \in 0 .. IndexLimit - 1 /\ pData' \in Store!Pointer
    BY <1>1, <1>2, <1>13 DEF AckDone
  <2> QED
    BY <1>2, <1>13, <2>1 DEF AckDone, codec, history
<1>14. CASE AckFree
  <2>1. 0 \in 0 .. IndexLimit - 1
    BY <1>2
  <2>2. /\ index' = [index EXCEPT ![pData] = 0]
        /\ heldIn' = [heldIn EXCEPT ![pData] = NULL]
        /\ late' = late \ {pData}
    BY <1>14 DEF AckFree
  <2>3. index' \in [Store!Addr -> 0 .. IndexLimit - 1]
    BY <2>1, <2>2
  <2>4. heldIn' \in [Store!Addr -> (0 .. IndexLimit - 1) \cup {NULL}]
    BY <2>2
  <2> QED
    BY <1>14, <2>2, <2>3, <2>4 DEF AckFree, acking, sender
<1>15. CASE AckNext
  BY <1>1, <1>15 DEF AckNext, codec, sender, history
<1>16. CASE Finish
  <2>1. heldIn' \in [Store!Addr -> (0 .. IndexLimit - 1) \cup {NULL}]
    BY <1>16 DEF Finish, ForgetSession
  <2>2. /\ inReport' = {} /\ due' = {} /\ late' = {} /\ (crossed' <=> FALSE)
        /\ needing' = 0 /\ acked' = 0 /\ air' = {}
    BY <1>16 DEF Finish, ForgetSession
  <2>3. 0 \in 0 .. 0 + MaxExtra
    BY <1>2
  <2>4. crossed' \in BOOLEAN
    BY <1>16, Zenon DEF Finish, ForgetSession
  <2> QED
    BY <1>16, <2>1, <2>2, <2>3, <2>4 DEF Finish, acking
<1> QED
  BY <1>3, <1>4, <1>5, <1>6, <1>7, <1>8, <1>9, <1>10, <1>11, <1>12, <1>13, <1>14, <1>15, <1>16
     DEF Next, Reporter, TimeOut

\* The queue's invariant and the types hold throughout.
LEMMA SpecReportInv == Spec => []ReportInv
<1>1. SenderTyped /\ StoreProofs!StoreInv /\ StoreProofs!StoreInv' /\ [Next]_vars => SenderTyped'
  BY StepSenderTyped
<1> QED
  BY <1>1, InitSenderTyped, SpecStoreInv, PTL DEF Spec, ReportInv

\* The counts of reports and acks, the numbers of the reports and every
\* pointer the codec keeps have their types, however often sending is
\* started, stopped or timed out and whatever the server answers.
THEOREM ReportTypeCorrect == Spec => []TypeOK
<1>1. ReportInv => TypeOK
  BY StoreTypes DEF ReportInv, SenderTyped, TypeOK
<1> QED
  BY <1>1, SpecReportInv, PTL

-----------------------------------------------------------------------------
(* What leaves the queue *)

\* A step that takes an item out of the queue has looked at its flags.
LEMMA StoreChanges ==
    ASSUME StoreProofs!StoreInv, [Next]_vars, NEW b \in Store!InUse, b \notin Store!InUse'
    PROVE  \/ Encode /\ b = gpData /\ ~ RequiresAck(node[gpData].key)
           \/ AckFree /\ b = pData
<1>1. ASSUME UNCHANGED store PROVE FALSE
  BY <1>1 DEF store, Store!InUse
<1>2. ASSUME Store!First \/ DataNext PROVE FALSE
  BY <1>1, <1>2 DEF Store!First, DataNext, Store!Advance, Store!ring, Store!InUse
<1>3. ASSUME NEW t \in Type, NEW f \in Flags, Store!Alloc(NULL, t, f) PROVE FALSE
  <2>1. StoreProofs!Ring!Alloc(t)
    BY <1>3, SameStore DEF StoreProofs!Alloc
  <2>2. PICK a : a = StoreProofs!Ring!Place(t)
    OBVIOUS
  <2>3. /\ \A c \in blocks : header'[c] = header[c]
        /\ blocks' = blocks \cup {a}
    BY <1>3, <2>1, <2>2, StoreAssumptions, StoreProofs!AllocFacts DEF StoreProofs!StoreInv
  <2> QED
    BY <2>3 DEF Store!InUse
<1>4. ASSUME NEW c, Store!Free(c) PROVE b = c
  <2>1. StoreProofs!Ring!Free(c)
    BY <1>4, SameStore DEF StoreProofs!Free
  <2>2. StoreProofs!InUse' = StoreProofs!InUse \ {c}
    BY <2>1, StoreAssumptions, StoreProofs!FreeFacts DEF StoreProofs!StoreInv
  <2> QED
    BY <2>2 DEF Store!InUse, StoreProofs!InUse
<1>5. CASE Reading
  BY <1>3, <1>5 DEF Reading
<1>6. CASE Encode
  BY <1>1, <1>4, <1>6 DEF Encode
<1>7. CASE AckFree
  BY <1>4, <1>7 DEF AckFree
<1>8. CASE Prepare \/ Following \/ AckNext \/ \E i \in air : Receive(i)
  BY <1>2, <1>8 DEF Prepare, Following, AckNext, Receive
<1>9. CASE NewReport \/ EndReport \/ Sent \/ SendFails \/ StopSending \/ AckDone \/ AckOther \/ Astray
           \/ TimeOut \/ UNCHANGED vars
  BY <1>1, <1>9 DEF NewReport, EndReport, Sent, SendFails, StopSending, AckDone, AckOther, Astray, TimeOut,
              PeekOver, Finish, vars
<1> QED
  BY <1>5, <1>6, <1>7, <1>8, <1>9 DEF Next, Reporter

-----------------------------------------------------------------------------
(* What the operations do to the list, as far as the codec uses them *)

\* The list, its items and how they lead on.
LEMMA QueueShape ==
    ASSUME StoreProofs!StoreInv, NEW q, q = Store!Queue
    PROVE  /\ q \in Seq(Store!Addr) /\ Len(q) \in Nat
           /\ \A i, j \in 1 .. Len(q) : q[i] = q[j] => i = j
           /\ \A i \in 1 .. Len(q) : q[i] \in Store!InUse /\ q[i] \in Store!Addr
           /\ Store!InUse = {q[i] : i \in 1 .. Len(q)}
           /\ dataList = IF Len(q) = 0 THEN NULL ELSE q[1]
           /\ \A i \in 1 .. Len(q) : node[q[i]].next = IF i = Len(q) THEN NULL ELSE q[i + 1]
           /\ NULL \notin Store!Addr
<1>1. /\ StoreProofs!IsList(q, dataList, node)
      /\ StoreProofs!Elements(q) = Store!InUse
  BY SamePlaces, StoreAssumptions, StoreProofs!QueueFacts DEF StoreProofs!StoreInv
<1>2. NULL \notin Store!Addr
  BY StoreAssumption DEF Store!Addr
<1> QED
  BY <1>1, <1>2, SamePlaces DEF StoreProofs!IsList, StoreProofs!Elements

\* Where the items in use keep their nodes the list stays as it is.
LEMMA QueueStays ==
    ASSUME StoreProofs!StoreInv, UNCHANGED <<dataList, header, blocks>>,
           \A x \in Store!InUse : node'[x] = node[x]
    PROVE  Store!Queue' = Store!Queue /\ Store!InUse' = Store!InUse
<1>1. PICK q : q = StoreProofs!Queue
  OBVIOUS
<1>2. /\ StoreProofs!IsList(q, dataList, node)
      /\ StoreProofs!Elements(q) = Store!InUse
  BY <1>1, SamePlaces, StoreAssumptions, StoreProofs!QueueFacts DEF StoreProofs!StoreInv
<1>3. StoreProofs!IsList(q, dataList', node')
  BY <1>2, StoreAssumptions, StoreProofs!ListKept
<1>4. StoreProofs!Walk(dataList', node') = q
  BY <1>3, StoreAssumptions, StoreProofs!WalkFindsList
<1>5. StoreProofs!Queue' = StoreProofs!Queue
  BY <1>1, <1>4 DEF StoreProofs!Queue
<1>6. Store!Queue = StoreProofs!Queue /\ Store!Queue' = StoreProofs!Queue'
  BY SamePlaces, SameQueueNext
<1> QED
  BY <1>5, <1>6 DEF Store!InUse

\* pDataFirst() and pDataNext() leave the list, and move the cursor on.
LEMMA CursorMoves ==
    ASSUME StoreProofs!StoreInv, Store!First \/ Store!Advance
    PROVE  /\ Store!Queue' = Store!Queue /\ Store!InUse' = Store!InUse
           /\ \A x \in Store!InUse : node'[x] = node[x]
           /\ Store!First => nextData' = dataList
           /\ Store!Advance => nextData' = node[nextData].next
<1>1. /\ UNCHANGED <<dataList, header, blocks>>
      /\ node' = Store!Forget(node, Store!Stale)
  BY DEF Store!First, Store!Advance, Store!ring
<1>2. Store!InUse \subseteq Store!Addr /\ node \in [Store!Addr -> StoreProofs!NodeType]
  BY StoreTypes, StoreAssumptions, StoreProofs!StoreTypes, SamePlaces
<1>3. Store!Stale \notin Store!InUse
  <2>1. NULL \notin Store!Addr
    BY StoreAssumption DEF Store!Addr
  <2> QED
    BY <1>2, <2>1 DEF Store!Stale
<1>4. \A x \in Store!InUse : node'[x] = node[x]
  BY <1>1, <1>2, <1>3 DEF Store!Forget
<1> QED
  BY <1>1, <1>4, QueueStays DEF Store!First, Store!Advance

\* The list after the item at place m, where the cursor is, has been freed.
LEMMA FreedAtCursor ==
    ASSUME StoreProofs!StoreInv, NEW q, q = Store!Queue, NEW m \in 1 .. Len(q),
           nextData = q[m], Store!Free(q[m]), NEW r, r = Store!Queue'
    PROVE  /\ Len(r) = Len(q) - 1
           /\ \A i \in 1 .. Len(r) : r[i] = IF i < m THEN q[i] ELSE q[i + 1]
           /\ \A i \in 1 .. Len(q) : i # m => node'[q[i]].key = node[q[i]].key
           /\ nextData' = nextData
           /\ node'[nextData].next = node[nextData].next
<1>1. q = StoreProofs!Queue /\ r = StoreProofs!Queue' /\ StoreProofs!Free(q[m])
  BY SamePlaces, SameQueueNext, SameStore
<1>2. m \in DOMAIN StoreProofs!Queue
  BY <1>1, QueueShape
<1>3. PICK qq, b : StoreProofs!FreedFrom(qq, b, m)
  BY <1>1, <1>2, StoreAssumptions, StoreProofs!FreedNodes
<1>4. qq = q /\ b = q[m]
  BY <1>1, <1>3 DEF StoreProofs!FreedFrom
<1>5. /\ StoreProofs!IsList(q, dataList, node)
      /\ q \in Seq(Store!Addr) /\ Len(q) \in Nat
      /\ dataList' = (IF dataList = b THEN node[b].next ELSE dataList)
      /\ nextData' = (IF nextData = node[b].next THEN node[b].next ELSE nextData)
      /\ \A x \in StoreProofs!Elements(q) \ {b} :
            /\ node'[x].next = IF x = node[b].prev THEN node[b].next ELSE node[x].next
            /\ node'[x].prev = IF x = node[b].next THEN node[b].prev ELSE node[x].prev
            /\ node'[x].key = node[x].key
      /\ nextData = b => node'[b].next = node[b].next
  BY <1>3, <1>4, SamePlaces DEF StoreProofs!FreedFrom
<1>6. PICK s : StoreProofs!IsList(s, dataList', node') /\ StoreProofs!WithoutPlace(s, q, m)
  BY <1>4, <1>5, StoreAssumptions, StoreProofs!ListUnlinked
<1>7. StoreProofs!Walk(dataList', node') = s
  BY <1>6, StoreAssumptions, StoreProofs!WalkFindsList
<1>8. r = s
  BY <1>1, <1>7 DEF StoreProofs!Queue
<1>9. \A i \in 1 .. Len(q) : i # m => q[i] \in StoreProofs!Elements(q) \ {b}
  BY <1>4, QueueShape DEF StoreProofs!Elements
<1> QED
  BY <1>4, <1>5, <1>6, <1>8, <1>9 DEF StoreProofs!WithoutPlace

-----------------------------------------------------------------------------
(* The codec's places in the queue *)

\* The item at a place of a list; NULL past its end.
Item(q, k) == IF k > Len(q) THEN NULL ELSE q[k]

\* Encoding goes on at p, place k of the list q with the nodes n: what is
\* before waits for an ack, what follows is still due or, when encoding has
\* come to the end of the list, was stored too late.
EncodedTo(q, n, p, d, l, k) ==
    /\ k \in 1 .. Len(q) + 1
    /\ \A i \in 1 .. k - 1 : RequiresAck(n[q[i]].key)
    /\ p # NULL => k <= Len(q) /\ p = q[k] /\ d = {q[i] : i \in k .. Len(q)}
    /\ p = NULL => d = {} /\ \A i \in k .. Len(q) : q[i] \in l

\* An item has the number of the report that holds it, or of the one that
\* could not be sent.
HeldAs(b) == heldIn[b] = index[b] \/ (heldIn[b] = NULL /\ ~good /\ index[b] = lastIndex)

\* Where encoding goes on, and the search for what an ack is about.
Onward == IF at = "next" THEN node[nextData].next ELSE gpData
SoughtAt == IF at = "ackNext" THEN node[nextData].next ELSE pData
Acking == at \in {"acking", "ackNext"}

\* The search for what an ack is about is at place m, not past place k where
\* encoding goes on unless that is at the end.
Sought(q, k) ==
    Acking => \E m \in 1 .. Len(q) + 1 : SoughtAt = Item(q, m) /\ (gpData # NULL => m <= k)

\* The list and the codec's place in it.
PlacedAt(q, k) ==
    /\ EncodedTo(q, node, Onward, due, late, k)
    /\ \A i \in 1 .. k - 1 : HeldAs(q[i])
    /\ at = "next" /\ gpData # NULL => k # 1 /\ gpData = q[k - 1]
    /\ Sought(q, k)

Placed == \E k \in Nat : PlacedAt(Store!Queue, k)

\* The cursor, which others could move, is where the codec's pointer is.
CursorPlaced ==
    /\ at = "next" => nextData \in Store!Addr /\ gpData \in {NULL, nextData}
    /\ Acking => nextData = pData
    /\ at = "ackNext" => pData \in Store!Addr
    /\ at \notin {"idle", "next", "acking", "ackNext"} => nextData = gpData

\* So it is until something is stored before a pDataNext() is called.
PlacesKept == ~crossed => CursorPlaced /\ (at # "idle" => Placed)

\* Before a session the codec has no place to keep.
LEMMA InitPlacesKept == Init => PlacesKept
BY DEF Init, PlacesKept, CursorPlaced, Acking

\* Steps that leave the queue and the codec's place alone.
LEMMA QuietPlaces ==
    ASSUME StoreProofs!StoreInv, PlacesKept, at # "idle",
           UNCHANGED <<store, gpData, due, late, crossed>>,
           at \notin {"next", "ackNext"}, at' \notin {"next", "acking", "ackNext"},
           at = "acking" => pData = gpData,
           \A b \in Store!Addr : HeldAs(b) => HeldAs(b)'
    PROVE  PlacesKept'
<1> SUFFICES ASSUME ~crossed PROVE PlacesKept'
  BY DEF PlacesKept
<1>1. UNCHANGED <<Store!Queue, node, nextData, gpData, due, late>>
  BY DEF store, Store!Queue
<1>2. Onward' = Onward /\ ~Acking'
  BY <1>1 DEF Onward, Acking
<1>q. PICK q : q = Store!Queue
  OBVIOUS
<1>3. PICK k \in Nat : q = Store!Queue /\ PlacedAt(q, k)
  BY <1>q DEF PlacesKept, Placed
<1>4. EncodedTo(q, node', Onward', due', late', k)
  BY <1>1, <1>2, <1>3 DEF PlacedAt
<1>5. ASSUME NEW i \in 1 .. k - 1 PROVE HeldAs(q[i])'
  <2>1. k \in 1 .. Len(q) + 1 /\ Len(q) \in Nat /\ \A j \in 1 .. Len(q) : q[j] \in Store!Addr
    BY <1>3, QueueShape DEF PlacedAt, EncodedTo
  <2>2. q[i] \in Store!Addr /\ HeldAs(q[i])
    BY <1>3, <2>1 DEF PlacedAt
  <2> QED
    BY <2>2
<1>6. PlacedAt(q, k)'
  BY <1>1, <1>2, <1>4, <1>5 DEF PlacedAt, Sought
<1>7. Placed'
  BY <1>1, <1>3, <1>6 DEF Placed
<1>8. CursorPlaced'
  BY <1>1, <1>2 DEF PlacesKept, CursorPlaced, Acking
<1> QED
  BY <1>7, <1>8 DEF PlacesKept

\* A reading goes to the end of the list, whose other items stay.
LEMMA StoredAtEnd ==
    ASSUME StoreProofs!StoreInv, NEW q, q = Store!Queue, NEW t \in Type, NEW f \in Flags,
           Store!Alloc(NULL, t, f), NEW a, a = Store!Ring!Place(t), NEW r, r = Store!Queue'
    PROVE  /\ a \in Store!Addr
           /\ Len(r) = Len(q) + 1 /\ r[Len(q) + 1] = a
           /\ \A i \in 1 .. Len(q) : r[i] = q[i] /\ q[i] # a
           /\ \A i \in 1 .. Len(q) : node'[q[i]].key = node[q[i]].key
           /\ \A i \in 1 .. Len(q) : node'[q[i]].next = IF i = Len(q) THEN a ELSE q[i + 1]
           /\ nextData' = nextData
<1>1. StoreProofs!Alloc(NULL, t, f) /\ StoreProofs!Ring!Alloc(t) /\ a = StoreProofs!Ring!Place(t)
  BY SameStore, SameRing DEF StoreProofs!Alloc
<1>2. a \notin blocks /\ blocks' = blocks \cup {a} /\ a \in Store!Addr
  BY <1>1, SamePlaces, StoreAssumptions, StoreProofs!AllocFacts DEF StoreProofs!StoreInv
<1>3. PICK p, b : StoreProofs!AllocatedTo(p, b, NULL, t, f)
  BY <1>1, StoreAssumptions, StoreProofs!AllocatedNodes
<1>4. /\ p = StoreProofs!Queue /\ StoreProofs!IsList(p, dataList, node)
      /\ b \notin blocks /\ blocks' = blocks \cup {b}
      /\ nextData' = nextData
      /\ \A x \in blocks : node'[x].key = node[x].key
      /\ StoreProofs!IsList(Append(p, b), dataList', node')
  BY <1>3 DEF StoreProofs!AllocatedTo
<1>5. p = q /\ b = a
  BY <1>2, <1>4, SamePlaces
<1>6. StoreProofs!Walk(dataList', node') = Append(q, a)
  BY <1>4, <1>5, StoreAssumptions, StoreProofs!WalkFindsList
<1>7. r = Append(q, a)
  <2>1. r = StoreProofs!Queue'
    BY SameQueueNext
  <2> QED
    BY <1>6, <2>1 DEF StoreProofs!Queue
<1>8. q \in Seq(Store!Addr) /\ Len(q) \in Nat /\ \A i \in 1 .. Len(q) : q[i] \in blocks
  BY QueueShape DEF Store!InUse
<1>9. Len(r) = Len(q) + 1 /\ r[Len(q) + 1] = a /\ \A i \in 1 .. Len(q) : r[i] = q[i]
  BY <1>2, <1>7, <1>8
<1>10. \A i \in 1 .. Len(r) : node'[r[i]].next = IF i = Len(r) THEN NULL ELSE r[i + 1]
  BY <1>4, <1>5, <1>7 DEF StoreProofs!IsList
<1>11. ASSUME NEW i \in 1 .. Len(q) PROVE node'[q[i]].next = IF i = Len(q) THEN a ELSE q[i + 1]
  <2>1. i \in 1 .. Len(r) /\ i # Len(r) /\ r[i] = q[i] /\ r[i + 1] = IF i = Len(q) THEN a ELSE q[i + 1]
    BY <1>8, <1>9
  <2> QED
    BY <1>10, <2>1
<1> QED
  BY <1>2, <1>4, <1>8, <1>9, <1>11

\* A reading stored while sending goes on is still due or too late.
LEMMA ReadingPlaces ==
    ASSUME StoreProofs!StoreInv, SenderTyped, PlacesKept, Reading, at # "idle"
    PROVE  PlacesKept'
<1> SUFFICES ASSUME ~crossed' PROVE PlacesKept'
  BY DEF PlacesKept
<1>t. PICK t \in Type, f \in Flags, i \in 0 .. IndexLimit - 1 : \E a : StoredAs(t, f, i, a)
  BY DEF Reading, StoredAs, acking
<1>a. PICK a : StoredAs(t, f, i, a)
  BY <1>t
<1>1. /\ a = Store!Ring!Place(t)
      /\ Store!Alloc(NULL, t, f)
      /\ index' = [index EXCEPT ![a] = IF MaskedNeedsAck(f) THEN i ELSE 0]
      /\ heldIn' = [heldIn EXCEPT ![a] = NULL]
      /\ due' = IF gpData = NULL THEN due ELSE due \cup {a}
      /\ late' = IF gpData = NULL THEN late \cup {a} ELSE late
      /\ crossed' = (crossed \/ Between)
      /\ UNCHANGED <<gpData, lastIndex, pData, good, at>>
  BY <1>a DEF StoredAs
<1>2. ~crossed /\ at # "ackNext" /\ (at = "next" => gpData # NULL)
  BY <1>1 DEF Between
<1>q. PICK q : q = Store!Queue
  OBVIOUS
<1>3. PICK k \in Nat : q = Store!Queue /\ PlacedAt(q, k)
  BY <1>q, <1>2 DEF PlacesKept, Placed
<1>4. PICK r : r = Store!Queue'
  OBVIOUS
<1>5. /\ a \in Store!Addr
      /\ Len(r) = Len(q) + 1 /\ r[Len(q) + 1] = a
      /\ \A j \in 1 .. Len(q) : r[j] = q[j] /\ q[j] # a
      /\ \A j \in 1 .. Len(q) : node'[q[j]].key = node[q[j]].key
      /\ \A j \in 1 .. Len(q) : node'[q[j]].next = IF j = Len(q) THEN a ELSE q[j + 1]
      /\ nextData' = nextData
  BY <1>1, <1>3, <1>4, StoredAtEnd
<1>6. /\ q \in Seq(Store!Addr) /\ Len(q) \in Nat
      /\ \A j \in 1 .. Len(q) : q[j] \in Store!Addr
      /\ \A j \in 1 .. Len(q) : node[q[j]].next = IF j = Len(q) THEN NULL ELSE q[j + 1]
      /\ NULL \notin Store!Addr
  BY <1>3, QueueShape
<1>7. k \in 1 .. Len(q) + 1
  BY <1>3 DEF PlacedAt, EncodedTo
<1>8. \A j \in 1 .. k - 1 : j \in 1 .. Len(q) /\ j \in 1 .. Len(r) /\ r[j] = q[j] /\ q[j] # a
  BY <1>5, <1>6, <1>7
<1>9. {r[j] : j \in k .. Len(r)} = {q[j] : j \in k .. Len(q)} \cup {a}
  <2>1. \A j : j \in k .. Len(r) <=> j \in k .. Len(q) \/ j = Len(q) + 1
    BY <1>5, <1>6, <1>7
  <2>2. \A j \in k .. Len(q) : r[j] = q[j]
    BY <1>5, <1>6, <1>7
  <2> QED
    BY <1>5, <2>1, <2>2
<1>10. EncodedTo(r, node', Onward', due', late', k)
  <2>1. \A j \in 1 .. k - 1 : RequiresAck(node'[r[j]].key)
    <3>1. \A j \in 1 .. k - 1 : RequiresAck(node[q[j]].key)
      BY <1>3 DEF PlacedAt, EncodedTo
    <3>2. \A j \in 1 .. k - 1 : node'[r[j]].key = node[q[j]].key
      BY <1>5, <1>8
    <3> QED
      BY <3>1, <3>2
  <2>2. CASE at = "next"
    <3>1. k - 1 \in 1 .. Len(q) /\ nextData = q[k - 1] /\ gpData # NULL
      BY <1>2, <1>3, <1>6, <1>7, <2>2 DEF PlacedAt, PlacesKept, CursorPlaced
    <3>2. Onward = IF k = Len(q) + 1 THEN NULL ELSE q[k]
      BY <1>6, <1>7, <2>2, <3>1 DEF Onward
    <3>3. Onward' = r[k] /\ k <= Len(r) /\ r[k] # NULL
      <4>1. Onward' = IF k = Len(q) + 1 THEN a ELSE q[k]
        BY <1>1, <1>5, <1>6, <1>7, <2>2, <3>1 DEF Onward
      <4> QED
        BY <1>5, <1>6, <1>7, <4>1
    <3>4. due = {q[j] : j \in k .. Len(q)}
      <4>1. CASE k = Len(q) + 1
        <5>1. due = {}
          BY <1>3, <3>2, <4>1 DEF PlacedAt, EncodedTo
        <5>2. \A j : ~ (j \in k .. Len(q))
          BY <1>6, <4>1
        <5> QED
          BY <5>1, <5>2
      <4>2. CASE k # Len(q) + 1
        <5>1. Onward # NULL
          BY <1>6, <1>7, <3>2, <4>2
        <5> QED
          BY <1>3, <5>1 DEF PlacedAt, EncodedTo
      <4> QED
        BY <4>1, <4>2
    <3>5. due' = {r[j] : j \in k .. Len(r)}
      BY <1>1, <1>9, <3>1, <3>4
    <3> QED
      BY <1>5, <1>6, <1>7, <2>1, <3>3, <3>5 DEF EncodedTo
  <2>3. CASE at # "next"
    <3>1. Onward = gpData /\ Onward' = gpData
      BY <1>1, <2>3 DEF Onward
    <3>2. CASE gpData = NULL
      <4>1. due = {} /\ \A j \in k .. Len(q) : q[j] \in late
        BY <1>3, <3>1, <3>2 DEF PlacedAt, EncodedTo
      <4>2. due' = {} /\ late' = late \cup {a}
        BY <1>1, <3>2, <4>1
      <4>3. \A x \in {r[j] : j \in k .. Len(r)} : x \in late'
        BY <1>9, <4>1, <4>2
      <4>4. \A j \in k .. Len(r) : r[j] \in late'
        BY <4>3
      <4> QED
        BY <1>5, <1>6, <1>7, <2>1, <3>1, <3>2, <4>2, <4>4 DEF EncodedTo
    <3>3. CASE gpData # NULL
      <4>1. k <= Len(q) /\ gpData = q[k] /\ due = {q[j] : j \in k .. Len(q)}
        BY <1>3, <3>1, <3>3 DEF PlacedAt, EncodedTo
      <4>2. gpData = r[k] /\ k <= Len(r)
        BY <1>5, <1>6, <1>7, <4>1
      <4>3. due' = {r[j] : j \in k .. Len(r)}
        BY <1>1, <1>9, <3>3, <4>1
      <4> QED
        BY <1>5, <1>6, <1>7, <2>1, <3>1, <3>3, <4>2, <4>3 DEF EncodedTo
    <3> QED
      BY <3>2, <3>3
  <2> QED
    BY <2>2, <2>3
<1>11. ASSUME NEW j \in 1 .. k - 1 PROVE HeldAs(r[j])'
  <2>1. r[j] = q[j] /\ q[j] # a /\ q[j] \in Store!Addr /\ HeldAs(q[j])
    BY <1>3, <1>6, <1>8 DEF PlacedAt
  <2>2. index'[q[j]] = index[q[j]] /\ heldIn'[q[j]] = heldIn[q[j]]
    BY <1>1, <2>1 DEF SenderTyped
  <2>3. heldIn'[r[j]] = index'[r[j]] \/ (heldIn'[r[j]] = NULL /\ ~good' /\ index'[r[j]] = lastIndex')
    BY <1>1, <2>1, <2>2 DEF HeldAs
  <2> QED
    BY <2>3 DEF HeldAs
<1>12. at' = "next" /\ gpData' # NULL => k # 1 /\ gpData' = r[k - 1]
  <2> SUFFICES ASSUME at = "next", gpData # NULL PROVE k # 1 /\ gpData = r[k - 1]
    BY <1>1
  <2>1. k # 1 /\ gpData = q[k - 1]
    BY <1>3 DEF PlacedAt
  <2>2. k - 1 \in 1 .. k - 1
    BY <1>7, <2>1
  <2> QED
    BY <1>8, <2>1, <2>2
<1>13. Sought(r, k)'
  <2> SUFFICES ASSUME at = "acking"
               PROVE  \E m \in 1 .. Len(r) + 1 : pData = Item(r, m) /\ (gpData # NULL => m <= k)
    BY <1>1, <1>2 DEF Sought, Acking, SoughtAt
  <2>1. PICK m \in 1 .. Len(q) + 1 : pData = Item(q, m) /\ (gpData # NULL => m <= k)
    BY <1>3 DEF PlacedAt, Sought, Acking, SoughtAt
  <2>2. CASE m <= Len(q)
    <3>1. m \in 1 .. Len(r) + 1 /\ pData = Item(r, m)
      BY <1>5, <1>6, <2>1, <2>2 DEF Item
    <3> QED
      BY <2>1, <3>1
  <2>3. CASE ~ (m <= Len(q))
    <3>1. gpData = NULL
      <4>1. gpData # NULL => k <= Len(q)
        BY <1>3 DEF PlacedAt, EncodedTo, Onward
      <4> QED
        BY <1>6, <1>7, <2>1, <2>3, <4>1
    <3>2. Len(r) + 1 \in 1 .. Len(r) + 1 /\ pData = Item(r, Len(r) + 1)
      BY <1>5, <1>6, <2>1, <2>3 DEF Item
    <3> QED
      BY <3>1, <3>2
  <2> QED
    BY <2>2, <2>3
<1>14. PlacedAt(r, k)'
  BY <1>10, <1>11, <1>12, <1>13 DEF PlacedAt
<1>15. CursorPlaced'
  BY <1>1, <1>2, <1>5 DEF PlacesKept, CursorPlaced, Acking
<1> QED
  BY <1>4, <1>14, <1>15 DEF PlacesKept, Placed

\* Steps that move the cursor only.
LEMMA CursorPlaces ==
    ASSUME StoreProofs!StoreInv, Store!First \/ Store!Advance, NEW d, NEW l, NEW p, NEW k \in Nat,
           EncodedTo(Store!Queue, node, p, d, l, k)
    PROVE  EncodedTo(Store!Queue', node', p, d, l, k)
<1>1. PICK q : q = Store!Queue
  OBVIOUS
<1>2. Store!Queue' = q /\ \A x \in Store!InUse : node'[x] = node[x]
  BY <1>1, CursorMoves
<1>3. Len(q) \in Nat /\ \A i \in 1 .. Len(q) : q[i] \in Store!InUse
  BY <1>1, QueueShape
<1>4. \A i \in 1 .. k - 1 : node'[q[i]] = node[q[i]]
  BY <1>1, <1>2, <1>3 DEF EncodedTo
<1> QED
  BY <1>1, <1>2, <1>4 DEF EncodedTo

\* codecPrepareData() sorts the queue and starts at the head of it.
LEMMA PreparePlaces ==
    ASSUME StoreProofs!StoreInv, Prepare
    PROVE  PlacesKept'
<1>1. PICK q : q = Store!Queue
  OBVIOUS
<1>2. /\ at' = "report" /\ Store!First /\ gpData' = nextData' /\ due' = Store!InUse'
      /\ Store!Queue' = q /\ nextData' = dataList
  BY <1>1, CursorMoves DEF Prepare
<1>3. /\ q \in Seq(Store!Addr) /\ Len(q) \in Nat
      /\ \A i \in 1 .. Len(q) : q[i] \in Store!Addr
      /\ Store!InUse' = {q[i] : i \in 1 .. Len(q)}
      /\ dataList = IF Len(q) = 0 THEN NULL ELSE q[1]
      /\ NULL \notin Store!Addr
  BY <1>1, <1>2, CursorMoves, QueueShape
<1>4. Onward' = IF Len(q) = 0 THEN NULL ELSE q[1]
  BY <1>2, <1>3 DEF Onward
<1>5. EncodedTo(q, node', Onward', due', late', 1)
  <2>1. CASE Len(q) = 0
    BY <1>2, <1>3, <1>4, <2>1 DEF EncodedTo
  <2>2. CASE Len(q) # 0
    BY <1>2, <1>3, <1>4, <2>2 DEF EncodedTo
  <2> QED
    BY <2>1, <2>2
<1>6. ~ Acking' /\ CursorPlaced'
  BY <1>2 DEF Acking, CursorPlaced
<1>7. PlacedAt(q, 1)'
  BY <1>2, <1>5, <1>6 DEF PlacedAt, Sought
<1> QED
  BY <1>2, <1>6, <1>7 DEF PlacesKept, Placed

\* codecEncodeData() fills a report: what it passes waits for its ack or is freed.
LEMMA EncodePlaces ==
    ASSUME StoreProofs!StoreInv, SenderTyped, PlacesKept, Encode
    PROVE  PlacesKept'
<1> SUFFICES ASSUME ~crossed PROVE PlacesKept'
  BY DEF PlacesKept, Encode
<1>q. PICK q : q = Store!Queue
  OBVIOUS
<1>1. PICK k \in Nat : q = Store!Queue /\ PlacedAt(q, k)
  BY <1>q DEF PlacesKept, Placed, Encode
<1>2. /\ at = "item" /\ at' = "next" /\ nextData = gpData /\ gpData \in Store!Addr
      /\ due' = due \ {gpData} /\ UNCHANGED <<lastIndex, good, late>>
  BY DEF Encode, PlacesKept, CursorPlaced, sender
<1>3. /\ q \in Seq(Store!Addr) /\ Len(q) \in Nat
      /\ \A i, j \in 1 .. Len(q) : q[i] = q[j] => i = j
      /\ \A i \in 1 .. Len(q) : q[i] \in Store!Addr
      /\ \A i \in 1 .. Len(q) : node[q[i]].next = IF i = Len(q) THEN NULL ELSE q[i + 1]
      /\ NULL \notin Store!Addr
  BY <1>1, QueueShape
<1>4. /\ k \in 1 .. Len(q) /\ gpData = q[k]
      /\ due = {q[i] : i \in k .. Len(q)}
      /\ \A i \in 1 .. k - 1 : RequiresAck(node[q[i]].key)
  BY <1>1, <1>2, <1>3 DEF PlacedAt, EncodedTo, Onward
<1>5. node[gpData].next = IF k = Len(q) THEN NULL ELSE q[k + 1]
  BY <1>3, <1>4
<1>6. due' = {q[i] : i \in k + 1 .. Len(q)}
  <2>1. \A i \in k .. Len(q) : q[i] = gpData <=> i = k
    BY <1>3, <1>4
  <2>2. \A i : i \in k + 1 .. Len(q) <=> i \in k .. Len(q) /\ i # k
    BY <1>3, <1>4
  <2> QED
    BY <1>2, <1>4, <2>1, <2>2
<1>7. k = Len(q) => due' = {}
  BY <1>3, <1>6
<1>8. ~ Acking'
  BY <1>2 DEF Acking
<1>9. \A i \in 1 .. k - 1 : i \in 1 .. Len(q) /\ q[i] # gpData /\ q[i] \in Store!Addr
  BY <1>3, <1>4
<1>10. CASE RequiresAck(node[gpData].key)
  <2>1. /\ UNCHANGED <<store, gpData>>
        /\ index' = [index EXCEPT ![gpData] = lastIndex]
        /\ heldIn' = [heldIn EXCEPT ![gpData] = lastIndex]
    BY <1>10 DEF Encode
  <2>2. UNCHANGED <<Store!Queue, node, nextData, gpData>>
    BY <2>1 DEF store, Store!Queue
  <2>3. Onward' = IF k = Len(q) THEN NULL ELSE q[k + 1]
    BY <1>2, <1>5, <2>2 DEF Onward
  <2>4. \A i \in 1 .. k + 1 - 1 : i \in 1 .. k - 1 \/ i = k
    BY <1>4
  <2>5. \A i \in 1 .. k + 1 - 1 : RequiresAck(node[q[i]].key)
    BY <1>4, <1>10, <2>4
  <2>6. EncodedTo(q, node', Onward', due', late', k + 1)
    <3>1. CASE k = Len(q)
      BY <1>3, <1>4, <1>7, <2>2, <2>3, <2>5, <3>1 DEF EncodedTo
    <3>2. CASE k # Len(q)
      <4>1. k + 1 \in 1 .. Len(q) /\ Onward' = q[k + 1] /\ q[k + 1] # NULL
        BY <1>3, <1>4, <2>3, <3>2
      <4> QED
        BY <1>3, <1>6, <2>2, <2>5, <4>1 DEF EncodedTo
    <3> QED
      BY <3>1, <3>2
  <2>7. ASSUME NEW i \in 1 .. k + 1 - 1 PROVE HeldAs(q[i])'
    <3>1. CASE i = k
      <4>1. index'[q[i]] = lastIndex /\ heldIn'[q[i]] = lastIndex
        BY <1>2, <1>4, <2>1, <3>1 DEF SenderTyped
      <4> QED
        BY <4>1 DEF HeldAs
    <3>2. CASE i \in 1 .. k - 1
      <4>1. index'[q[i]] = index[q[i]] /\ heldIn'[q[i]] = heldIn[q[i]]
        BY <1>9, <2>1, <3>2 DEF SenderTyped
      <4> QED
        BY <1>1, <1>2, <3>2, <4>1 DEF HeldAs, PlacedAt
    <3> QED
      BY <2>4, <3>1, <3>2
  <2>8. gpData' = q[k + 1 - 1] /\ k + 1 # 1
    BY <1>4, <2>2
  <2>9. PlacedAt(q, k + 1)'
    BY <1>8, <2>6, <2>7, <2>8 DEF PlacedAt, Sought
  <2>10. CursorPlaced'
    BY <1>2, <1>8, <2>2 DEF CursorPlaced
  <2> QED
    BY <1>1, <2>2, <2>9, <2>10 DEF PlacesKept, Placed
<1>11. CASE ~ RequiresAck(node[gpData].key)
  <2>1. /\ Store!Free(q[k]) /\ gpData' = NULL
        /\ index' = [index EXCEPT ![gpData] = 0] /\ heldIn' = heldIn
    BY <1>4, <1>11 DEF Encode
  <2>2. PICK r : r = Store!Queue'
    OBVIOUS
  <2>3. /\ Len(r) = Len(q) - 1
        /\ \A i \in 1 .. Len(r) : r[i] = IF i < k THEN q[i] ELSE q[i + 1]
        /\ \A i \in 1 .. Len(q) : i # k => node'[q[i]].key = node[q[i]].key
        /\ nextData' = nextData
        /\ node'[nextData].next = node[nextData].next
    BY <1>1, <1>2, <1>4, <2>1, <2>2, FreedAtCursor
  <2>4. Onward' = IF k = Len(q) THEN NULL ELSE q[k + 1]
    BY <1>2, <1>5, <2>3 DEF Onward
  <2>5. \A i \in 1 .. k - 1 : r[i] = q[i] /\ i \in 1 .. Len(q) /\ i # k
    BY <1>3, <1>4, <2>3
  <2>6. \A i \in 1 .. k - 1 : RequiresAck(node'[r[i]].key)
    BY <1>4, <2>3, <2>5
  <2>7. due' = {r[i] : i \in k .. Len(r)}
    <3>1. \A i \in k .. Len(r) : r[i] = q[i + 1] /\ i + 1 \in k + 1 .. Len(q)
      BY <1>3, <1>4, <2>3
    <3>2. \A i \in k + 1 .. Len(q) : i - 1 \in k .. Len(r) /\ r[i - 1] = q[i]
      BY <1>3, <1>4, <2>3
    <3> QED
      BY <1>6, <3>1, <3>2
  <2>8. EncodedTo(r, node', Onward', due', late', k)
    <3>1. CASE k = Len(q)
      <4>1. \A i : ~ (i \in k .. Len(r))
        BY <1>3, <2>3, <3>1
      <4>2. k \in 1 .. Len(r) + 1
        BY <1>3, <1>4, <2>3
      <4> QED
        BY <1>7, <2>4, <2>6, <3>1, <4>1, <4>2 DEF EncodedTo
    <3>2. CASE k # Len(q)
      <4>1. Onward' = r[k] /\ r[k] # NULL /\ k <= Len(r)
        BY <1>3, <1>4, <2>3, <2>4, <3>2
      <4> QED
        BY <1>3, <1>4, <2>3, <2>6, <2>7, <4>1 DEF EncodedTo
    <3> QED
      BY <3>1, <3>2
  <2>9. ASSUME NEW i \in 1 .. k - 1 PROVE HeldAs(r[i])'
    <3>1. r[i] = q[i] /\ index'[q[i]] = index[q[i]] /\ heldIn'[q[i]] = heldIn[q[i]]
      BY <1>9, <2>1, <2>5 DEF SenderTyped
    <3> QED
      BY <1>1, <1>2, <3>1 DEF HeldAs, PlacedAt
  <2>10. PlacedAt(r, k)'
    BY <1>8, <2>1, <2>8, <2>9 DEF PlacedAt, Sought
  <2>11. CursorPlaced'
    BY <1>2, <1>8, <2>1, <2>3 DEF CursorPlaced
  <2> QED
    BY <2>2, <2>10, <2>11 DEF PlacesKept, Placed
<1> QED
  BY <1>10, <1>11

\* Going on after an item has been put in the report.
LEMMA FollowingPlaces ==
    ASSUME StoreProofs!StoreInv, PlacesKept, Following
    PROVE  PlacesKept'
<1> SUFFICES ASSUME ~crossed PROVE PlacesKept'
  BY DEF PlacesKept, Following, history
<1>1. /\ at = "next" /\ at' = "item" /\ gpData' = nextData'
      /\ UNCHANGED <<due, late, index, heldIn, good, lastIndex>>
      /\ nextData \in Store!Addr
      /\ DataNext
  BY DEF Following, PlacesKept, CursorPlaced, history, sender
<1>2. Store!Advance
  BY <1>1, StoreAssumption DEF DataNext, Store!Addr
<1>q. PICK q : q = Store!Queue
  OBVIOUS
<1>3. PICK k \in Nat : q = Store!Queue /\ PlacedAt(q, k)
  BY <1>q, <1>1 DEF PlacesKept, Placed
<1>4. Onward' = Onward /\ Store!Queue' = q
  BY <1>1, <1>2, <1>3, CursorMoves DEF Onward
<1>5. EncodedTo(q, node', Onward', due', late', k)
  BY <1>1, <1>2, <1>3, <1>4, CursorPlaces DEF PlacedAt
<1>6. ~ Acking' /\ CursorPlaced'
  BY <1>1 DEF CursorPlaced, Acking
<1>7. PlacedAt(q, k)'
  BY <1>1, <1>3, <1>5, <1>6 DEF PlacedAt, Sought, HeldAs
<1> QED
  BY <1>4, <1>6, <1>7 DEF PlacesKept, Placed

\* An ack is looked for from the head of the queue.
LEMMA ReceivePlaces ==
    ASSUME StoreProofs!StoreInv, PlacesKept, NEW i \in air, Receive(i)
    PROVE  PlacesKept'
<1> SUFFICES ASSUME ~crossed PROVE PlacesKept'
  BY DEF PlacesKept, Receive, codec, history
<1>1. /\ at \in {"peek", "acks"} /\ at' = "acking" /\ pData' = nextData'
      /\ UNCHANGED <<gpData, due, late, index, heldIn, good, lastIndex>>
      /\ Store!First
  BY DEF Receive, codec, history
<1>q. PICK q : q = Store!Queue
  OBVIOUS
<1>2. PICK k \in Nat : q = Store!Queue /\ PlacedAt(q, k)
  BY <1>q, <1>1 DEF PlacesKept, Placed
<1>3. Onward' = Onward
  BY <1>1 DEF Onward
<1>4. /\ Store!Queue' = q /\ nextData' = dataList
      /\ Len(q) \in Nat
      /\ dataList = IF Len(q) = 0 THEN NULL ELSE q[1]
  BY <1>1, <1>2, CursorMoves, QueueShape
<1>5. EncodedTo(q, node', Onward', due', late', k)
  BY <1>1, <1>2, <1>3, <1>4, CursorPlaces DEF PlacedAt
<1>6. k \in 1 .. Len(q) + 1
  BY <1>2 DEF PlacedAt, EncodedTo
<1>7. 1 \in 1 .. Len(q) + 1 /\ SoughtAt' = Item(q, 1) /\ 1 <= k
  BY <1>1, <1>4, <1>6 DEF SoughtAt, Item
<1>8. Sought(q, k)'
  BY <1>7 DEF Sought
<1>9. PlacedAt(q, k)'
  BY <1>1, <1>2, <1>5, <1>8 DEF PlacedAt, HeldAs
<1>10. CursorPlaced'
  BY <1>1 DEF CursorPlaced, Acking
<1> QED
  BY <1>4, <1>9, <1>10 DEF PlacesKept, Placed

\* codecAckDataIndex() frees an item that waits before the codec's place,
\* or one that was stored too late,
LEMMA AckFreePlaces ==
    ASSUME StoreProofs!StoreInv, SenderTyped, PlacesKept, AckFree
    PROVE  PlacesKept'
<1> SUFFICES ASSUME ~crossed PROVE PlacesKept'
  BY DEF PlacesKept, AckFree
<1>q. PICK q : q = Store!Queue
  OBVIOUS
<1>1. PICK k \in Nat : q = Store!Queue /\ PlacedAt(q, k)
  BY <1>q DEF PlacesKept, Placed, AckFree
<1>2. /\ at = "acking" /\ at' = "ackNext" /\ pData # gpData /\ pData \in Store!InUse
      /\ UNCHANGED <<gpData, due, pData, good, lastIndex>>
      /\ nextData = pData
      /\ index' = [index EXCEPT ![pData] = 0]
      /\ heldIn' = [heldIn EXCEPT ![pData] = NULL]
      /\ late' = late \ {pData}
  BY DEF AckFree, acking, sender, PlacesKept, CursorPlaced, Acking
<1>3. /\ q \in Seq(Store!Addr) /\ Len(q) \in Nat
      /\ \A i, j \in 1 .. Len(q) : q[i] = q[j] => i = j
      /\ \A i \in 1 .. Len(q) : q[i] \in Store!InUse /\ q[i] \in Store!Addr
      /\ \A i \in 1 .. Len(q) : node[q[i]].next = IF i = Len(q) THEN NULL ELSE q[i + 1]
      /\ NULL \notin Store!Addr
  BY <1>1, QueueShape
<1>4. PICK m \in 1 .. Len(q) + 1 : pData = Item(q, m) /\ (gpData # NULL => m <= k)
  BY <1>1, <1>2 DEF PlacedAt, Sought, Acking, SoughtAt
<1>5. m \in 1 .. Len(q) /\ pData = q[m] /\ pData \in Store!Addr
  <2>1. pData \in Store!Addr
    BY <1>2, StoreTypes
  <2> QED
    BY <1>3, <1>4, <2>1 DEF Item
<1>6. /\ k \in 1 .. Len(q) + 1
      /\ \A i \in 1 .. k - 1 : RequiresAck(node[q[i]].key)
      /\ gpData # NULL => k <= Len(q) /\ gpData = q[k] /\ due = {q[i] : i \in k .. Len(q)}
      /\ gpData = NULL => due = {} /\ \A i \in k .. Len(q) : q[i] \in late
  BY <1>1, <1>2 DEF PlacedAt, EncodedTo, Onward
<1>7. Store!Free(q[m])
  BY <1>5 DEF AckFree
<1>8. PICK r : r = Store!Queue'
  OBVIOUS
<1>9. /\ Len(r) = Len(q) - 1
      /\ \A i \in 1 .. Len(r) : r[i] = IF i < m THEN q[i] ELSE q[i + 1]
      /\ \A i \in 1 .. Len(q) : i # m => node'[q[i]].key = node[q[i]].key
      /\ nextData' = nextData
      /\ node'[nextData].next = node[nextData].next
  BY <1>1, <1>2, <1>5, <1>7, <1>8, FreedAtCursor
<1>10. PICK h \in Nat : h = IF m < k THEN k - 1 ELSE k
  BY <1>5, <1>6
<1>11. /\ h \in 1 .. Len(r) + 1
       /\ gpData # NULL => m < k
       /\ \A i \in 1 .. h - 1 : \E j \in 1 .. k - 1 : j # m /\ j \in 1 .. Len(q) /\ r[i] = q[j]
  <2>1. gpData # NULL => m < k
    <3>1. gpData # NULL => m # k
      BY <1>2, <1>5, <1>6
    <3> QED
      BY <1>4, <1>5, <1>6, <3>1
  <2>2. h \in 1 .. Len(r) + 1
    BY <1>3, <1>5, <1>6, <1>9, <1>10
  <2>3. ASSUME NEW i \in 1 .. h - 1
        PROVE  \E j \in 1 .. k - 1 : j # m /\ j \in 1 .. Len(q) /\ r[i] = q[j]
    <3>1. PICK j : j = IF i < m THEN i ELSE i + 1
      OBVIOUS
    <3>2. j \in 1 .. k - 1 /\ j \in 1 .. Len(q) /\ j # m /\ r[i] = q[j]
      BY <1>3, <1>5, <1>6, <1>9, <1>10, <2>2, <3>1
    <3> QED
      BY <3>2
  <2> QED
    BY <2>1, <2>2, <2>3
<1>12. \A i \in h .. Len(r) : \E j \in k .. Len(q) : j # m /\ j \in 1 .. Len(q) /\ r[i] = q[j]
  <2>1. ASSUME NEW i \in h .. Len(r)
        PROVE  \E j \in k .. Len(q) : j # m /\ j \in 1 .. Len(q) /\ r[i] = q[j]
    <3>1. PICK j : j = IF i < m THEN i ELSE i + 1
      OBVIOUS
    <3>2. j \in k .. Len(q) /\ j \in 1 .. Len(q) /\ j # m /\ r[i] = q[j]
      BY <1>3, <1>5, <1>6, <1>9, <1>10, <1>11, <3>1
    <3> QED
      BY <3>2
  <2> QED
    BY <2>1
<1>13. \A i \in 1 .. h - 1 : RequiresAck(node'[r[i]].key)
  <2>1. ASSUME NEW i \in 1 .. h - 1 PROVE RequiresAck(node'[r[i]].key)
    <3>1. PICK j \in 1 .. k - 1 : j # m /\ j \in 1 .. Len(q) /\ r[i] = q[j]
      BY <1>11
    <3>2. node'[r[i]].key = node[q[j]].key
      BY <1>9, <3>1
    <3> QED
      BY <1>6, <3>1, <3>2
  <2> QED
    BY <2>1
<1>14. ASSUME gpData # NULL PROVE h <= Len(r) /\ gpData = r[h] /\ due = {r[i] : i \in h .. Len(r)}
  <2>1. m < k /\ h = k - 1 /\ k <= Len(q) /\ gpData = q[k] /\ due = {q[i] : i \in k .. Len(q)}
    BY <1>6, <1>10, <1>11, <1>14
  <2>2. h <= Len(r) /\ gpData = r[h]
    BY <1>3, <1>5, <1>6, <1>9, <2>1
  <2>3. \A i \in k - 1 .. Len(r) : r[i] = q[i + 1] /\ i + 1 \in k .. Len(q)
    BY <1>3, <1>5, <1>6, <1>9, <2>1
  <2>4. \A i \in k .. Len(q) : i - 1 \in k - 1 .. Len(r) /\ r[i - 1] = q[i]
    BY <1>3, <1>5, <1>6, <1>9, <2>1
  <2>5. \A x \in {r[i] : i \in k - 1 .. Len(r)} : x \in due
    BY <2>1, <2>3
  <2>6. \A x \in due : x \in {r[i] : i \in k - 1 .. Len(r)}
    BY <2>1, <2>4
  <2> QED
    BY <2>1, <2>2, <2>5, <2>6
<1>15. ASSUME gpData = NULL PROVE due = {} /\ \A i \in h .. Len(r) : r[i] \in late'
  <2>1. due = {} /\ \A i \in k .. Len(q) : q[i] \in late
    BY <1>6, <1>15
  <2>2. ASSUME NEW i \in h .. Len(r) PROVE r[i] \in late'
    <3>1. PICK j \in k .. Len(q) : j # m /\ j \in 1 .. Len(q) /\ r[i] = q[j]
      BY <1>12
    <3>2. q[j] # pData
      BY <1>3, <1>5, <3>1
    <3> QED
      BY <1>2, <2>1, <3>1, <3>2
  <2> QED
    BY <2>1, <2>2
<1>16. EncodedTo(r, node', Onward', due', late', h)
  <2>1. Onward' = gpData /\ due' = due
    BY <1>2 DEF Onward
  <2> QED
    BY <1>11, <1>13, <1>14, <1>15, <2>1 DEF EncodedTo
<1>17. ASSUME NEW i \in 1 .. h - 1 PROVE HeldAs(r[i])'
  <2>1. PICK j \in 1 .. k - 1 : j # m /\ j \in 1 .. Len(q) /\ r[i] = q[j]
    BY <1>11
  <2>2. q[j] # pData /\ q[j] \in Store!Addr
    BY <1>3, <1>5, <2>1
  <2>3. index'[q[j]] = index[q[j]] /\ heldIn'[q[j]] = heldIn[q[j]]
    BY <1>2, <2>2 DEF SenderTyped
  <2>4. HeldAs(q[j])
    BY <1>1, <2>1 DEF PlacedAt
  <2> QED
    BY <1>2, <2>1, <2>3, <2>4 DEF HeldAs
<1>18. SoughtAt' = Item(r, m) /\ m \in 1 .. Len(r) + 1 /\ (gpData' # NULL => m <= h)
  <2>1. SoughtAt' = node[q[m]].next
    BY <1>2, <1>5, <1>9 DEF SoughtAt
  <2>2. node[q[m]].next = IF m = Len(q) THEN NULL ELSE q[m + 1]
    BY <1>3, <1>5
  <2>3. SoughtAt' = Item(r, m) /\ m \in 1 .. Len(r) + 1
    BY <1>3, <1>5, <1>9, <2>1, <2>2 DEF Item
  <2>4. gpData' # NULL => m <= h
    BY <1>2, <1>5, <1>6, <1>10, <1>11
  <2> QED
    BY <2>3, <2>4
<1>19. PlacedAt(r, h)'
  <2>1. Sought(r, h)'
    BY <1>18 DEF Sought
  <2> QED
    BY <1>2, <1>16, <1>17, <2>1 DEF PlacedAt
<1>20. CursorPlaced'
  BY <1>2, <1>5, <1>9 DEF CursorPlaced, Acking
<1> QED
  BY <1>8, <1>19, <1>20 DEF PlacesKept, Placed

\* and goes on to the next.
LEMMA AckNextPlaces ==
    ASSUME StoreProofs!StoreInv, PlacesKept, AckNext
    PROVE  PlacesKept'
<1> SUFFICES ASSUME ~crossed PROVE PlacesKept'
  BY DEF PlacesKept, AckNext, codec, history
<1>1. /\ at = "ackNext" /\ at' = "acking" /\ pData' = nextData'
      /\ UNCHANGED <<gpData, due, late, index, heldIn, good, lastIndex>>
      /\ nextData = pData /\ pData \in Store!Addr
      /\ DataNext
  BY DEF AckNext, codec, history, sender, PlacesKept, CursorPlaced, Acking
<1>2. Store!Advance
  BY <1>1, StoreAssumption DEF DataNext, Store!Addr
<1>q. PICK q : q = Store!Queue
  OBVIOUS
<1>3. PICK k \in Nat : q = Store!Queue /\ PlacedAt(q, k)
  BY <1>q, <1>1 DEF PlacesKept, Placed
<1>4. Onward' = Onward /\ SoughtAt' = SoughtAt /\ Store!Queue' = q
  BY <1>1, <1>2, <1>3, CursorMoves DEF Onward, SoughtAt
<1>5. EncodedTo(q, node', Onward', due', late', k)
  BY <1>1, <1>2, <1>3, <1>4, CursorPlaces DEF PlacedAt
<1>6. Sought(q, k)'
  BY <1>1, <1>3, <1>4 DEF PlacedAt, Sought, Acking
<1>7. PlacedAt(q, k)'
  BY <1>1, <1>3, <1>5, <1>6 DEF PlacedAt, HeldAs
<1>8. CursorPlaced'
  BY <1>1 DEF CursorPlaced, Acking
<1> QED
  BY <1>4, <1>7, <1>8 DEF PlacesKept, Placed

\* Every step keeps the codec's place.
LEMMA StepPlacesKept ==
    ASSUME StoreProofs!StoreInv, SenderTyped, PlacesKept, [Next]_vars
    PROVE  PlacesKept'
<1>1. CASE Reading
  <2>1. CASE at = "idle"
    BY <1>1, <2>1 DEF Reading, PlacesKept, CursorPlaced, Acking
  <2> QED
    BY <1>1, <2>1, ReadingPlaces
<1>2. CASE Prepare
  BY <1>2, PreparePlaces
<1>3. CASE NewReport
  <2>1. good /\ good' = good /\ UNCHANGED <<index, heldIn>>
    BY <1>3 DEF NewReport, history, sender
  <2>2. \A b \in Store!Addr : HeldAs(b) => HeldAs(b)'
    BY <2>1 DEF HeldAs
  <2> QED
    BY <1>3, <2>2, QuietPlaces DEF NewReport, history
<1>4. CASE EndReport \/ Sent \/ StopSending \/ PeekOver \/ AckDone
  <2>1. /\ at \in {"report", "item", "send", "peek", "acking"}
        /\ at' \in {"report", "send", "peek", "acks"}
        /\ at = "acking" => pData = gpData
        /\ UNCHANGED <<store, gpData, due, late, crossed, index, heldIn, good, lastIndex>>
    BY <1>4 DEF EndReport, Sent, StopSending, PeekOver, AckDone, codec, history, sender, SenderTyped
  <2>2. \A b \in Store!Addr : HeldAs(b) => HeldAs(b)'
    BY <2>1 DEF HeldAs
  <2> QED
    BY <2>1, <2>2, QuietPlaces
<1>5. CASE SendFails
  <2>1. /\ at = "send" /\ at' = "report" /\ ~good'
        /\ heldIn' = [a \in Store!Addr |-> IF heldIn[a] = lastIndex THEN NULL ELSE heldIn[a]]
        /\ UNCHANGED <<store, gpData, due, late, crossed, index, lastIndex>>
    BY <1>5 DEF SendFails
  <2>2. ASSUME NEW b \in Store!Addr, HeldAs(b) PROVE HeldAs(b)'
    <3>1. heldIn'[b] = IF heldIn[b] = lastIndex THEN NULL ELSE heldIn[b]
      BY <2>1
    <3> QED
      BY <2>1, <2>2, <3>1 DEF HeldAs
  <2> QED
    BY <2>1, <2>2, QuietPlaces
<1>6. CASE Encode
  BY <1>6, EncodePlaces
<1>7. CASE Following
  BY <1>7, FollowingPlaces
<1>8. ASSUME NEW i \in air, Receive(i) PROVE PlacesKept'
  BY <1>8, ReceivePlaces
<1>9. CASE AckFree
  BY <1>9, AckFreePlaces
<1>10. CASE AckNext
  BY <1>10, AckNextPlaces
<1>11. CASE Finish
  BY <1>11 DEF Finish, PlacesKept, CursorPlaced, Acking
<1>12. CASE AckOther \/ Astray \/ UNCHANGED vars
  <2>1. /\ UNCHANGED <<at, gpData, due, late, crossed, index, heldIn, good, lastIndex>>
        /\ UNCHANGED <<pData, nextData, node, Store!Queue>>
    BY <1>12 DEF AckOther, Astray, vars, store, codec, acking, history, sender, Store!Queue
  <2> QED
    BY <2>1 DEF PlacesKept, CursorPlaced, Placed, PlacedAt, Onward, Sought, SoughtAt, HeldAs, Acking
<1> QED
  BY <1>1, <1>2, <1>3, <1>4, <1>5, <1>6, <1>7, <1>8, <1>9, <1>10, <1>11, <1>12
     DEF Next, Reporter, TimeOut

-----------------------------------------------------------------------------
(* The numbers of reports *)

\* The number d after i.
After(i, d) == IF i + d < IndexLimit THEN i + d ELSE i + d - IndexLimit

\* A report is being made; the reports for which acks may come are whole.
Making == at \in {"item", "next", "send"}
Sending == (at = "report" /\ good) \/ at = "peek" \/ (Acking /\ back = "peek")

\* A report that counts as sent once there is something in it.
Begun == IF at \in {"next", "send"} \/ (at = "item" /\ inReport # {}) THEN 1 ELSE 0

\* The reports that have been made, are being made and may still be.
Counted == needing + Cardinality(due) + others + Begun

\* An ack on its way is for one of the reports counted in needing, and
\* every report has taken an item or more of those that were due: as many
\* as fit the buffer and as are still stored, and so fewer than there are
\* numbers.  The number of a report that could not be sent is no ack's.
NumbersKept ==
    /\ Making => /\ reportIndex = After(lastIndex, 1)
                 /\ \A i \in air : \E d \in 1 .. needing : After(i, d) = lastIndex
    /\ Sending => \A i \in air : \E d \in 1 .. needing : After(i, d) = reportIndex
    /\ Making \/ Sending => Counted <= Size + MaxOthers
    /\ Sending \/ at = "idle" => inReport = {}
    /\ at = "next" => inReport # {}
    /\ at = "item" /\ inReport = {} => gpData # NULL
    /\ at = "idle" => needing = 0 /\ air = {}
    /\ ~good /\ at # "idle" => /\ at \in {"report", "acks", "acking", "ackNext"}
                               /\ lastIndex \notin air
                               /\ Acking => back = "acks" /\ got # lastIndex

\* So it is as long as the codec keeps its place.
Numbered == ~crossed => NumbersKept

\* The numbers of reports go round their range: so many steps on, a new one.
LEMMA NextNumber ==
    ASSUME NEW r \in 0 .. IndexLimit - 1
    PROVE  (r + 1) % IndexLimit = After(r, 1)
<1>1. IndexLimit \in Nat \ {0}
  BY CountAssumption
<1>2. CASE r + 1 = IndexLimit
  <2>1. IndexLimit % IndexLimit = 0
    BY <1>1
  <2> QED
    BY <1>1, <1>2, <2>1 DEF After
<1>3. CASE r + 1 # IndexLimit
  <2>1. r + 1 \in 0 .. IndexLimit - 1
    BY <1>1, <1>3
  <2>2. (r + 1) % IndexLimit = r + 1
    BY <1>1, <2>1
  <2> QED
    BY <1>1, <2>1, <2>2 DEF After
<1> QED
  BY <1>2, <1>3

\* What is due is never more than fits the buffer.
LEMMA DueCounted ==
    ASSUME NEW S \in SUBSET Store!Addr
    PROVE  /\ IsFiniteSet(S) /\ Cardinality(S) \in Nat /\ Cardinality(S) <= Size
           /\ \A x \in S : Cardinality(S \ {x}) = Cardinality(S) - 1
<1>1. IsFiniteSet(Store!Addr) /\ Cardinality(Store!Addr) = Size
  BY StoreAssumption, FS_Interval DEF Store!Addr
<1>2. IsFiniteSet(S) /\ Cardinality(S) <= Size
  BY <1>1, FS_Subset
<1> QED
  BY <1>2, FS_CardinalityType, FS_RemoveElement

\* One more is due at the most when a reading is stored.
LEMMA OneMoreDue ==
    ASSUME NEW S \in SUBSET Store!Addr, NEW a \in Store!Addr
    PROVE  Cardinality(S \cup {a}) <= Cardinality(S) + 1
<1>1. IsFiniteSet(S) /\ Cardinality(S) \in Nat
  BY DueCounted
<1>2. CASE a \in S
  <2>1. S \cup {a} = S
    BY <1>2
  <2>2. Cardinality(S \cup {a}) = Cardinality(S)
    BY <2>1, Zenon
  <2> QED
    BY <1>1, <2>2
<1>3. CASE a \notin S
  <2>1. Cardinality(S \cup {a}) = Cardinality(S) + 1
    BY <1>1, <1>3, FS_AddElement
  <2> QED
    BY <1>1, <2>1
<1> QED
  BY <1>2, <1>3

\* No report is numbered at the start.
LEMMA InitNumbered == Init => Numbered
BY DEF Init, Numbered, NumbersKept, Making, Sending, Acking

\* A reading stored meanwhile is one of those that could still be.
LEMMA ReadingNumbered ==
    ASSUME StoreProofs!StoreInv, SenderTyped, Numbered, Reading
    PROVE  Numbered'
<1> SUFFICES ASSUME ~crossed' PROVE NumbersKept'
  BY DEF Numbered
<1>t. PICK t \in Type, f \in Flags, i \in 0 .. IndexLimit - 1 : \E a : StoredAs(t, f, i, a)
  BY DEF Reading, StoredAs, acking
<1>a. PICK a : StoredAs(t, f, i, a)
  BY <1>t
<1>1. /\ a = Store!Ring!Place(t)
      /\ Store!Alloc(NULL, t, f)
      /\ \/ at = "idle" /\ UNCHANGED <<others, due, crossed>>
         \/ /\ at # "idle" /\ others > 0 /\ others' = others - 1
            /\ due' = IF gpData = NULL THEN due ELSE due \cup {a}
            /\ crossed' = (crossed \/ Between)
      /\ UNCHANGED <<gpData, reportIndex, lastIndex, inReport, got, back, good, needing, air, at>>
  BY <1>a DEF StoredAs
<1>2. NumbersKept
  <2>1. crossed' = crossed \/ crossed' = (crossed \/ Between)
    BY <1>1
  <2>2. ~crossed
    BY <2>1, Zenon
  <2> QED
    BY <2>2 DEF Numbered
<1>3. Begun' = Begun /\ (Making' <=> Making) /\ (Sending' <=> Sending) /\ (Acking' <=> Acking)
  BY <1>1 DEF Begun, Making, Sending, Acking
<1>4. ASSUME Making \/ Sending PROVE Counted' <= Size + MaxOthers
  <2>1. /\ at # "idle" /\ others' = others - 1
        /\ due' = IF gpData = NULL THEN due ELSE due \cup {a}
    BY <1>1, <1>4 DEF Making, Sending, Acking
  <2>2. a \in Store!Addr
    BY <1>1, AllocPlace
  <2>3. due \in SUBSET Store!Addr /\ due' \in SUBSET Store!Addr
    BY <2>1, <2>2 DEF SenderTyped
  <2>4. /\ Cardinality(due) \in Nat /\ Cardinality(due') \in Nat
        /\ Cardinality(due') <= Cardinality(due) + 1
    BY <2>1, <2>2, <2>3, DueCounted, OneMoreDue
  <2>5. /\ needing \in Nat /\ needing' = needing /\ others \in Int /\ Size \in Nat /\ MaxOthers \in Nat
        /\ Begun \in {0, 1}
    BY <1>1, StoreAssumption, CountAssumption DEF SenderTyped, Begun
  <2>6. Counted <= Size + MaxOthers
    BY <1>2, <1>4 DEF NumbersKept
  <2> QED
    BY <1>3, <2>1, <2>4, <2>5, <2>6 DEF Counted
<1> QED
  BY <1>1, <1>2, <1>3, <1>4 DEF NumbersKept

\* A session starts with nothing sent.
LEMMA PrepareNumbered ==
    ASSUME SenderTyped, SenderTyped', Numbered, Prepare
    PROVE  Numbered'
<1> SUFFICES ASSUME ~crossed' PROVE NumbersKept'
  BY DEF Numbered
<1>1. /\ at = "idle" /\ at' = "report" /\ good' /\ others' \in 0 .. MaxOthers
      /\ UNCHANGED <<inReport, needing, air, crossed>>
  BY DEF Prepare, history
<1>2. NumbersKept
  BY <1>1 DEF Numbered
<1>3. Cardinality(due') \in Nat /\ Cardinality(due') <= Size
  BY DueCounted DEF SenderTyped
<1>4. inReport' = {} /\ air' = {} /\ needing' = 0 /\ Begun' = 0
  BY <1>1, <1>2 DEF NumbersKept, Begun
<1>5. Counted' <= Size + MaxOthers
  BY <1>1, <1>3, <1>4, StoreAssumption, CountAssumption DEF Counted
<1> QED
  BY <1>1, <1>4, <1>5 DEF NumbersKept, Making, Acking

\* A new report has a number that no other of the session has.
LEMMA NewReportNumbered ==
    ASSUME SenderTyped, Numbered, NewReport
    PROVE  Numbered'
<1> SUFFICES ASSUME ~crossed' PROVE NumbersKept'
  BY DEF Numbered
<1>1. /\ at = "report" /\ good /\ gpData # NULL /\ at' = "item"
      /\ lastIndex' = reportIndex
      /\ reportIndex' = (reportIndex + 1) % IndexLimit
      /\ UNCHANGED <<gpData, inReport, due, needing, air, good, others, crossed>>
  BY DEF NewReport, sender, history
<1>2. NumbersKept
  BY <1>1 DEF Numbered
<1>3. reportIndex' = After(lastIndex', 1)
  BY <1>1, NextNumber DEF SenderTyped
<1>4. /\ \A i \in air : \E d \in 1 .. needing : After(i, d) = reportIndex
      /\ Counted <= Size + MaxOthers
      /\ inReport = {}
  BY <1>1, <1>2 DEF NumbersKept, Sending
<1>5. Counted' = Counted
  BY <1>1, <1>4 DEF Begun, Counted
<1> QED
  BY <1>1, <1>3, <1>4, <1>5 DEF NumbersKept, Sending, Making, Acking

\* A report numbered takes one item or more of what was due.
LEMMA EncodeNumbered ==
    ASSUME StoreProofs!StoreInv, SenderTyped, PlacesKept, Numbered, Encode
    PROVE  Numbered'
<1> SUFFICES ASSUME ~crossed' PROVE NumbersKept'
  BY DEF Numbered
<1>1. /\ at = "item" /\ at' = "next"
      /\ gpData \in Store!Addr
      /\ inReport' = inReport \cup {gpData} /\ due' = due \ {gpData}
      /\ UNCHANGED <<reportIndex, lastIndex, air, needing, others, good, crossed>>
  BY DEF Encode, sender
<1>2. NumbersKept
  BY <1>1 DEF Numbered
<1>3. gpData \in due
  <2>1. PICK q : q = Store!Queue
    OBVIOUS
  <2>2. PICK k \in Nat : EncodedTo(q, node, gpData, due, late, k)
    BY <1>1, <2>1 DEF PlacesKept, Placed, PlacedAt, Onward
  <2>3. NULL \notin Store!Addr /\ Len(q) \in Nat
    BY <2>1, QueueShape
  <2>4. k \in 1 .. Len(q) /\ gpData = q[k] /\ due = {q[i] : i \in k .. Len(q)}
    BY <1>1, <2>2, <2>3 DEF EncodedTo
  <2>5. k \in k .. Len(q)
    BY <2>3, <2>4
  <2> QED
    BY <2>4, <2>5
<1>4. Cardinality(due') = Cardinality(due) - 1 /\ Cardinality(due) \in Nat
  BY <1>1, <1>3, DueCounted DEF SenderTyped
<1>5. Counted <= Size + MaxOthers
  BY <1>1, <1>2 DEF NumbersKept, Making
<1>6. /\ needing \in Nat /\ others \in Int /\ Size \in Nat /\ MaxOthers \in Nat
      /\ Begun \in {0, 1} /\ Begun' = 1
  BY <1>1, StoreAssumption, CountAssumption DEF SenderTyped, Begun
<1>7. Counted' <= Size + MaxOthers
  BY <1>1, <1>4, <1>5, <1>6 DEF Counted
<1> QED
  BY <1>1, <1>2, <1>7 DEF NumbersKept, Making, Sending, Acking

\* What was sent keeps the numbers that its items wait with.
LEMMA SentNumbered ==
    ASSUME SenderTyped, Numbered, Sent
    PROVE  Numbered'
<1> SUFFICES ASSUME ~crossed' PROVE NumbersKept'
  BY DEF Numbered
<1>1. /\ at = "send" /\ at' \in {"peek", "report"}
      /\ needing' = needing + 1 /\ air' \subseteq air \cup {lastIndex}
      /\ inReport' = {}
      /\ UNCHANGED <<reportIndex, lastIndex, due, others, good, crossed>>
  BY DEF Sent, history
<1>2. NumbersKept
  BY <1>1 DEF Numbered
<1>3. /\ reportIndex = After(lastIndex, 1)
      /\ \A i \in air : \E d \in 1 .. needing : After(i, d) = lastIndex
      /\ needing + Cardinality(due) + others + 1 <= Size + MaxOthers
      /\ good
  BY <1>1, <1>2 DEF NumbersKept, Making, Begun, Counted
<1>4. /\ Cardinality(due) \in Nat /\ needing \in Nat /\ others \in Nat
      /\ Size \in Nat /\ MaxOthers \in Nat /\ IndexLimit \in Nat /\ Size + MaxOthers <= IndexLimit
  BY DueCounted, StoreAssumption, CountAssumption DEF SenderTyped
<1>5. ASSUME NEW i \in air' PROVE \E d \in 1 .. needing' : After(i, d) = reportIndex
  <2>1. CASE i = lastIndex
    <3>1. 1 \in 1 .. needing'
      BY <1>1, <1>4
    <3> QED
      BY <1>3, <2>1, <3>1
  <2>2. CASE i \in air
    <3>1. PICK d \in 1 .. needing : After(i, d) = lastIndex
      BY <1>3, <2>2
    <3>2. i \in 0 .. IndexLimit - 1 /\ d + 1 \in 1 .. needing' /\ d < IndexLimit
      BY <1>1, <1>3, <1>4, <2>2 DEF SenderTyped
    <3>3. After(i, d + 1) = After(lastIndex, 1)
      BY <1>4, <3>1, <3>2 DEF After
    <3> QED
      BY <1>3, <3>2, <3>3
  <2> QED
    BY <1>1, <2>1, <2>2
<1>6. Counted' <= Size + MaxOthers
  BY <1>1, <1>3, <1>4 DEF Begun, Counted
<1> QED
  BY <1>1, <1>3, <1>5, <1>6 DEF NumbersKept, Making

\* The number of a report about to be sent is on no ack.
LEMMA SendNumberFree ==
    ASSUME SenderTyped, NumbersKept, at = "send"
    PROVE  lastIndex \notin air
<1> SUFFICES ASSUME lastIndex \in air PROVE FALSE
  OBVIOUS
<1>1. /\ needing + Cardinality(due) + others + 1 <= Size + MaxOthers
      /\ \E d \in 1 .. needing : After(lastIndex, d) = lastIndex
  BY DEF NumbersKept, Making, Begun, Counted
<1>2. /\ Cardinality(due) \in Nat /\ needing \in Nat /\ others \in Nat /\ lastIndex \in 0 .. IndexLimit - 1
      /\ Size \in Nat /\ MaxOthers \in Nat /\ IndexLimit \in Nat /\ Size + MaxOthers <= IndexLimit
  BY DueCounted, StoreAssumption, CountAssumption DEF SenderTyped
<1>3. PICK d \in 1 .. needing : After(lastIndex, d) = lastIndex
  BY <1>1
<1> QED
  BY <1>1, <1>2, <1>3 DEF After

\* Nor is it when it could not be sent.
LEMMA SendFailsNumbered ==
    ASSUME SenderTyped, Numbered, SendFails
    PROVE  Numbered'
<1> SUFFICES ASSUME ~crossed' PROVE NumbersKept'
  BY DEF Numbered
<1>1. /\ at = "send" /\ at' = "report" /\ ~good' /\ inReport' = {}
      /\ UNCHANGED <<lastIndex, needing, air, crossed>>
  BY DEF SendFails
<1>2. NumbersKept
  BY <1>1 DEF Numbered
<1>3. lastIndex \notin air
  BY <1>1, <1>2, SendNumberFree
<1> QED
  BY <1>1, <1>3 DEF NumbersKept, Making, Sending, Acking

\* Every step keeps the count of what is numbered.
LEMMA StepNumbered ==
    ASSUME SenderTyped, SenderTyped', StoreProofs!StoreInv, PlacesKept, Numbered, [Next]_vars
    PROVE  Numbered'
<1>1. CASE Reading
  BY <1>1, ReadingNumbered
<1>2. CASE Prepare
  BY <1>2, PrepareNumbered
<1>3. CASE NewReport
  BY <1>3, NewReportNumbered
<1>4. CASE Encode
  BY <1>4, EncodeNumbered
<1>5. CASE Sent
  BY <1>5, SentNumbered
<1>6. CASE SendFails
  BY <1>6, SendFailsNumbered
<1>7. CASE Finish
  BY <1>7 DEF Finish, ForgetSession, Numbered, NumbersKept, Making, Sending, Acking
<1> SUFFICES ASSUME ~crossed', ~Reading, ~Prepare, ~NewReport, ~Encode, ~Sent, ~SendFails, ~Finish
             PROVE  NumbersKept'
  BY <1>1, <1>2, <1>3, <1>4, <1>5, <1>6, <1>7 DEF Numbered
<1>8. CASE Following
  <2>1. /\ at = "next" /\ at' = "item"
        /\ UNCHANGED <<reportIndex, lastIndex, inReport, due, needing, air, good, others, crossed>>
    BY <1>8 DEF Following, sender, history
  <2>2. NumbersKept
    BY <2>1 DEF Numbered
  <2>3. Counted' = Counted
    BY <2>1, <2>2 DEF Begun, Counted, NumbersKept
  <2> QED
    BY <2>1, <2>2, <2>3 DEF NumbersKept, Making, Sending, Acking
<1>9. CASE EndReport
  <2>1. /\ at = "item" /\ at' = "send" /\ (gpData = NULL \/ inReport # {})
        /\ UNCHANGED <<reportIndex, lastIndex, inReport, due, needing, air, gpData, good, others, crossed>>
    BY <1>9 DEF EndReport, codec, sender, history
  <2>2. NumbersKept
    BY <2>1 DEF Numbered
  <2>3. Counted' = Counted
    BY <2>1, <2>2 DEF Begun, Counted, NumbersKept
  <2> QED
    BY <2>1, <2>2, <2>3 DEF NumbersKept, Making, Sending, Acking
<1>10. CASE StopSending
  <2>1. /\ at = "report" /\ at' = "acks" /\ UNCHANGED <<lastIndex, air, good, crossed>>
    BY <1>10 DEF StopSending, codec, history
  <2>2. NumbersKept
    BY <2>1 DEF Numbered
  <2> QED
    BY <2>1, <2>2 DEF NumbersKept, Making, Sending, Acking
<1>11. ASSUME NEW i \in air, Receive(i) PROVE NumbersKept'
  <2>1. /\ at \in {"peek", "acks"} /\ at' = "acking" /\ back' = at /\ air' \subseteq air /\ got' \in air
        /\ UNCHANGED <<reportIndex, lastIndex, inReport, due, needing, good, others, crossed>>
    BY <1>11 DEF Receive, codec, history
  <2>2. NumbersKept
    BY <2>1 DEF Numbered
  <2>3. Sending' => Sending
    BY <2>1 DEF Sending, Acking
  <2>4. Counted' = Counted
    BY <2>1 DEF Begun, Counted
  <2>5. ~good => at = "acks" /\ lastIndex \notin air
    BY <2>1, <2>2 DEF NumbersKept
  <2> QED
    BY <2>1, <2>2, <2>3, <2>4, <2>5 DEF NumbersKept, Making
<1>12. CASE AckDone \/ AckFree \/ AckNext
  <2>1. /\ Acking /\ at' \in {"acking", "ackNext", back} /\ back \in {"peek", "acks"}
        /\ Acking' => UNCHANGED <<back, got>>
        /\ UNCHANGED <<reportIndex, lastIndex, inReport, due, needing, air, good, others, crossed>>
    BY <1>12 DEF AckDone, AckFree, AckNext, codec, history, acking, sender, SenderTyped, Acking
  <2>2. NumbersKept
    BY <2>1 DEF Numbered
  <2>3. Sending' => Sending
    BY <2>1, <2>2 DEF Sending, Acking, NumbersKept
  <2>4. Counted' = Counted
    BY <2>1 DEF Begun, Acking, Counted
  <2>5. ~good => back = "acks" /\ got # lastIndex /\ lastIndex \notin air
    BY <2>1, <2>2 DEF NumbersKept, Acking
  <2>6. ~Making' /\ at' \in {"acking", "ackNext", "peek", "acks"} /\ (at' = "peek" => good)
    BY <2>1, <2>5 DEF Making
  <2>7. /\ Sending' => \A i \in air : \E d \in 1 .. needing : After(i, d) = reportIndex
        /\ Sending' => Counted' <= Size + MaxOthers /\ inReport' = {}
    BY <2>1, <2>2, <2>3, <2>4 DEF NumbersKept
  <2> QED
    BY <2>1, <2>5, <2>6, <2>7 DEF NumbersKept
<1>13. CASE PeekOver
  <2>1. at = "peek" /\ at' = "report" /\ UNCHANGED <<codec, sender>>
    BY <1>13 DEF PeekOver
  <2>2. /\ Counted' = Counted
        /\ UNCHANGED <<reportIndex, lastIndex, inReport, due, needing, air, good, crossed>>
    BY <2>1 DEF Begun, Counted, codec, sender, history
  <2>3. NumbersKept
    BY <2>2 DEF Numbered
  <2> QED
    BY <2>1, <2>2, <2>3 DEF NumbersKept, Making, Sending, Acking
<1>14. CASE AckOther \/ Astray \/ UNCHANGED vars
  <2>1. /\ UNCHANGED <<at, good, back, got, gpData, reportIndex, lastIndex>>
        /\ UNCHANGED <<inReport, due, needing, air, others, crossed>>
    BY <1>14 DEF AckOther, Astray, vars, codec, acking, sender, history
  <2>2. NumbersKept
    BY <2>1 DEF Numbered
  <2> QED
    BY <2>1, <2>2 DEF NumbersKept, Making, Sending, Acking, Begun, Counted
<1> QED
  BY <1>8, <1>9, <1>10, <1>11, <1>12, <1>13, <1>14 DEF Next, Reporter, TimeOut

-----------------------------------------------------------------------------
(* What the codec keeps stays true *)

\* Once sending has stopped for no failure and no request, nothing is left.
SentAll ==
    (IF Acking THEN back = "acks" ELSE at = "acks") /\ good /\ keepGoing => gpData = NULL

\* When the session is left for the last time all that was due has been sent.
LEMMA StepSentAll ==
    ASSUME SenderTyped, SentAll, [Next]_vars
    PROVE  SentAll'
<1> USE DEF SentAll, Acking
<1>1. CASE Reading
  BY <1>1 DEF Reading, acking
<1>2. CASE Prepare \/ NewReport \/ Encode \/ Following \/ EndReport \/ SendFails \/ PeekOver \/ Finish
  BY <1>2 DEF Prepare, NewReport, Encode, Following, EndReport, SendFails, PeekOver, Finish
<1>3. CASE Sent
  BY <1>3 DEF Sent
<1>4. CASE StopSending
  BY <1>4 DEF StopSending, codec
<1>5. ASSUME NEW i \in air, Receive(i) PROVE SentAll'
  BY <1>5 DEF Receive, codec
<1>6. CASE AckDone \/ AckFree \/ AckNext
  BY <1>6 DEF AckDone, AckFree, AckNext, codec, acking, sender, SenderTyped
<1>7. CASE AckOther \/ Astray \/ UNCHANGED vars
  BY <1>7 DEF AckOther, Astray, vars, codec, acking, sender
<1> QED
  BY <1>1, <1>2, <1>3, <1>4, <1>5, <1>6, <1>7 DEF Next, Reporter, TimeOut

\* The inductive invariant.
CodecInv == ReportInv /\ PlacesKept /\ Numbered /\ SentAll

LEMMA SpecCodecInv == Spec => []CodecInv
<1>1. Init => PlacesKept /\ Numbered /\ SentAll
  BY InitPlacesKept, InitNumbered DEF Init, SentAll, Acking
<1>2. ReportInv /\ ReportInv' /\ PlacesKept /\ Numbered /\ SentAll /\ [Next]_vars
      => PlacesKept' /\ Numbered' /\ SentAll'
  BY StepPlacesKept, StepNumbered, StepSentAll DEF ReportInv
<1> QED
  BY <1>1, <1>2, SpecReportInv, PTL DEF Spec, CodecInv

\* Whichever way sending goes, the codec's places in the queue stay places
\* in the queue: what is before them waits for an ack, what is after them is
\* still to be sent, all is sent in the end, and each ack on its way stands
\* for one report.  This is so for a queue of any size and any number of
\* readings stored meanwhile, until one is stored just between a dataFree()
\* and the pDataNext() after it; the run of MCReportingWild.cfg shows that it
\* is not so from there on.
THEOREM ReportIsSound == Spec => []ReportSound
<1>1. CodecInv => ReportSound
  <2> SUFFICES ASSUME StoreProofs!StoreInv, SenderTyped, PlacesKept, Numbered, SentAll, ~crossed
               PROVE  EatsFromHead /\ PlacesListed /\ SentUntilDone /\ NumbersDistinct
    BY DEF CodecInv, ReportInv, ReportSound
  <2>1. PICK q : q = Store!Queue
    OBVIOUS
  <2>2. /\ q \in Seq(Store!Addr) /\ Len(q) \in Nat
        /\ \A i, j \in 1 .. Len(q) : q[i] = q[j] => i = j
        /\ \A i \in 1 .. Len(q) : q[i] \in Store!InUse /\ q[i] \in Store!Addr
        /\ \A i \in 1 .. Len(q) : node[q[i]].next = IF i = Len(q) THEN NULL ELSE q[i + 1]
        /\ NULL \notin Store!Addr
    BY <2>1, QueueShape
  <2>3. ASSUME at # "idle"
        PROVE  \E k \in 1 .. Len(q) + 1 :
                  /\ PlacedAt(q, k)
                  /\ \A i \in 1 .. k - 1 : RequiresAck(node[q[i]].key)
                  /\ Onward # NULL => k <= Len(q) /\ Onward = q[k]
    BY <2>1, <2>3 DEF PlacesKept, Placed, PlacedAt, EncodedTo
  <2>4. EatsFromHead
    <3> SUFFICES ASSUME at # "idle", gpData \in Store!InUse, NEW i \in 1 .. Len(q), NEW j \in 1 .. Len(q),
                        i < j, q[j] = gpData
                 PROVE  RequiresAck(node[q[i]].key)
      BY <2>1, <2>2 DEF EatsFromHead
    <3>1. PICK k \in 1 .. Len(q) + 1 :
             /\ PlacedAt(q, k)
             /\ \A n \in 1 .. k - 1 : RequiresAck(node[q[n]].key)
             /\ Onward # NULL => k <= Len(q) /\ Onward = q[k]
      BY <2>3
    <3>2. gpData # NULL
      BY <2>2
    <3>3. j <= k
      <4>1. CASE at = "next"
        <5>1. k # 1 /\ gpData = q[k - 1]
          BY <3>1, <3>2, <4>1 DEF PlacedAt
        <5>2. k - 1 \in 1 .. Len(q)
          BY <2>2, <5>1
        <5>3. k - 1 = j
          BY <2>2, <5>1, <5>2
        <5> QED
          BY <5>3
      <4>2. CASE at # "next"
        <5>1. k \in 1 .. Len(q) /\ q[k] = q[j]
          BY <2>2, <3>1, <3>2, <4>2 DEF Onward
        <5> QED
          BY <2>2, <5>1
      <4> QED
        BY <4>1, <4>2
    <3>4. i \in 1 .. k - 1
      BY <2>2, <3>3
    <3> QED
      BY <3>1, <3>4
  <2>5. PlacesListed
    <3>1. ASSUME at = "item" PROVE gpData \in Store!InUse \cup {NULL}
      BY <2>2, <2>3, <3>1 DEF Onward
    <3>2. ASSUME at = "acking" PROVE pData \in Store!InUse \cup {gpData}
      <4>1. PICK k \in 1 .. Len(q) + 1 :
               /\ PlacedAt(q, k)
               /\ Onward # NULL => k <= Len(q) /\ Onward = q[k]
        BY <2>3, <3>2
      <4>2. PICK m \in 1 .. Len(q) + 1 : pData = Item(q, m) /\ (gpData # NULL => m <= k)
        BY <3>2, <4>1 DEF PlacedAt, Sought, SoughtAt, Acking
      <4>3. CASE m <= Len(q)
        BY <2>2, <4>2, <4>3 DEF Item
      <4>4. CASE ~ (m <= Len(q))
        <5>1. pData = NULL
          BY <4>2, <4>4 DEF Item
        <5>2. gpData = NULL
          BY <2>2, <3>2, <4>1, <4>2, <4>4 DEF Onward
        <5> QED
          BY <5>1, <5>2
      <4> QED
        BY <4>3, <4>4
    <3> QED
      BY <3>1, <3>2 DEF PlacesListed
  <2>6. SentUntilDone
    <3> SUFFICES ASSUME at = "acks", good, keepGoing PROVE due = {}
      BY DEF SentUntilDone
    <3>1. gpData = NULL
      BY DEF SentAll, Acking
    <3>2. PICK k \in 1 .. Len(q) + 1 : PlacedAt(q, k)
      BY <2>3
    <3> QED
      BY <3>1, <3>2 DEF PlacedAt, EncodedTo, Onward
  <2>7. NumbersDistinct
    BY SendNumberFree DEF Numbered, NumbersDistinct
  <2> QED
    BY <2>4, <2>5, <2>6, <2>7
<1> QED
  BY <1>1, SpecCodecInv, PTL

\* An item that requires an ack is freed only when the ack of a report that
\* was sent and that held it has come: not when it is encoded, not when
\* another report is acked, not when sending fails or times out.  The report
\* is the one the histories name, not the one the item's index does: that the
\* index is right wherever it is compared is what the invariant adds.
THEOREM ItemsKeptUntilAcked == Spec => KeptUntilAcked
<1>1. ASSUME CodecInv, [Next]_vars, ~crossed, NEW b \in Store!InUse,
             RequiresAck(node[b].key), b \notin Store!InUse'
      PROVE  at = "acking" /\ (heldIn[b] = got \/ b \in late)
  <2>1. AckFree /\ b = pData
    BY <1>1, StoreChanges DEF CodecInv, ReportInv
  <2>2. at = "acking" /\ pData # gpData /\ index[b] = got
    BY <2>1 DEF AckFree
  <2>3. PICK q : q = Store!Queue
    OBVIOUS
  <2>4. /\ Len(q) \in Nat
        /\ \A i \in 1 .. Len(q) : q[i] \in Store!InUse /\ q[i] \in Store!Addr
        /\ NULL \notin Store!Addr
    BY <1>1, <2>3, QueueShape DEF CodecInv, ReportInv
  <2>5. b \in Store!Addr
    BY <1>1, StoreTypes DEF CodecInv, ReportInv
  <2>6. PICK k \in Nat : PlacedAt(q, k)
    BY <1>1, <2>2, <2>3 DEF CodecInv, PlacesKept, Placed
  <2>7. PICK m \in 1 .. Len(q) + 1 : b = Item(q, m) /\ (gpData # NULL => m <= k)
    BY <2>1, <2>2, <2>6 DEF PlacedAt, Sought, SoughtAt, Acking
  <2>8. m \in 1 .. Len(q) /\ b = q[m]
    BY <2>4, <2>5, <2>7 DEF Item
  <2>9. /\ k \in 1 .. Len(q) + 1
        /\ gpData # NULL => gpData = q[k]
        /\ gpData = NULL => \A i \in k .. Len(q) : q[i] \in late
    BY <2>2, <2>6 DEF PlacedAt, EncodedTo, Onward
  <2>10. CASE m < k
    <3>1. HeldAs(b)
      <4>1. m \in 1 .. k - 1
        BY <2>8, <2>9, <2>10
      <4> QED
        BY <2>6, <2>8, <4>1 DEF PlacedAt
    <3>2. ~good => got # lastIndex
      BY <1>1, <2>2 DEF CodecInv, Numbered, NumbersKept, Acking
    <3> QED
      BY <2>2, <3>1, <3>2 DEF HeldAs
  <2>11. CASE ~ (m < k)
    <3>1. gpData = NULL
      <4>1. m = k => gpData = NULL
        BY <2>1, <2>2, <2>8, <2>9
      <4> QED
        BY <2>7, <2>8, <2>9, <2>11, <4>1
    <3>2. m \in k .. Len(q)
      BY <2>4, <2>8, <2>9, <2>11
    <3> QED
      BY <2>2, <2>8, <2>9, <3>1, <3>2
  <2> QED
    BY <2>10, <2>11
<1>2. CodecInv /\ [Next]_vars =>
        [~crossed =>
            \A b \in Store!InUse :
                RequiresAck(node[b].key) /\ b \notin Store!InUse' =>
                    at = "acking" /\ (heldIn[b] = got \/ b \in late)]_vars
  BY <1>1
<1> QED
  BY <1>2, SpecCodecInv, PTL DEF Spec, KeptUntilAcked

=============================================================================
