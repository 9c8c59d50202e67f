----------------------------- MODULE Reporting -----------------------------
(***************************************************************************)
(* Sending reports: modemSendReports() of act_modem.cpp and the codec      *)
(* (eh_codec.cpp) working on the data queue, while other action threads    *)
(* add to it; the server and the UDP link to it, which may lose, reorder   *)
(* or duplicate.                                                           *)
(*                                                                         *)
(* The thread holds no lock on the queue from one call of eh_data.cpp to   *)
(* the next: each such call is a step.  What a report looks like is left   *)
(* out; a report holds one item or more, as many as happen to fit.         *)
(***************************************************************************)
EXTENDS Integers, FiniteSets, Sequences, SequencesExt

CONSTANTS
    Size, Type, Words, NULL, Junk,  \* of the data queue
    Flags,       \* the flags items are given, bits 1 (ack) and 2 (send now)
    AckEvery,    \* reports between looks for acks
    IndexLimit,  \* INT_MAX + 1
    MaxExtra,    \* bound: acks received beyond those needed
    MaxOthers    \* action threads, of one reading each, still running

ASSUME StoreAssumption ==
    /\ Size \in Nat \ {0}
    /\ Words \in [Type -> Nat \ {0}]
    /\ NULL \notin Int /\ Junk \notin Int /\ Junk # NULL
ASSUME FlagsAssumption == Flags \subseteq {0, 2, 4, 6}
ASSUME CountAssumption ==
    /\ AckEvery \in Nat \ {0} /\ IndexLimit \in Nat \ {0}
    /\ MaxExtra \in Nat /\ MaxOthers \in Nat
    /\ Size + MaxOthers <= IndexLimit

VARIABLES
    firstFull, nextEmpty, previousNext, header, next, blocks,
    node, dataList, nextData, sizeUsed, hook,
    at,           \* where modemSendReports() is
    keepGoing,    \* what its callback last returned
    good,         \* result is ACTION_DRIVER_OK
    needing,      \* numNeedingAck
    acked,        \* numAcked
    gpData,       \* the codec's place in the queue
    reportIndex,  \* gReportIndex
    lastIndex,    \* gLastUsedReportIndex
    index,        \* index of each item
    inReport,     \* history: items encoded in the report being made
    due,          \* history: items that the codec has still to come to
    heldIn,       \* history: the report that holds an item; NULL if none does
    late,         \* history: items stored when it had come to the end
    crossed,      \* history: one was stored between a dataFree() and its pDataNext()
    others,       \* other threads that have still to store their reading
    got,          \* the index codecAckDataIndex() is called with
    pData,        \* and its place in the queue
    back,         \* and where it returns to
    air           \* acks on their way

store == <<firstFull, nextEmpty, previousNext, header, next, blocks,
           node, dataList, nextData, sizeUsed, hook>>
history == <<heldIn, late, crossed>>
codec == <<gpData, reportIndex, lastIndex, index, inReport, due, history>>
acking == <<got, pData, back>>
sender == <<keepGoing, good, needing, acked, air, others>>
vars == <<store, codec, acking, sender, at>>

Store == INSTANCE DataStore WITH Action <- {}, Key <- Flags

RequiresAck(flags) == flags \in {2, 6}     \* DATA_FLAG_REQUIRES_ACK
MaskedNeedsAck(flags) == flags \in {4, 6}  \* CODEC_FLAG_NEEDS_ACK, as is written

Init ==
    /\ Store!Init
    /\ at = "idle"
    /\ keepGoing = TRUE /\ good = TRUE
    /\ needing = 0 /\ acked = 0 /\ air = {}
    /\ gpData = NULL /\ reportIndex = 0 /\ lastIndex = 0
    /\ index = [a \in Store!Addr |-> 0]
    /\ inReport = {} /\ due = {} /\ others = 0
    /\ heldIn = [a \in Store!Addr |-> NULL] /\ late = {} /\ crossed = FALSE
    /\ got = 0 /\ pData = NULL /\ back = "acks"

\* dataFree() has been called, pDataNext() not yet.
Between == at = "ackNext" \/ (at = "next" /\ gpData = NULL)

\* A reading is stored, before the report is started or while it is made.
\* pDataAlloc() does not set the index: it is whatever the memory held (and
\* of account only where it may be compared).
Reading ==
    \E t \in Type, f \in Flags, i \in 0 .. IndexLimit - 1 :
        LET a == Store!Ring!Place(t) IN
        /\ Store!Alloc(NULL, t, f)
        /\ index' = [index EXCEPT ![a] = IF MaskedNeedsAck(f) THEN i ELSE 0]
        /\ heldIn' = [heldIn EXCEPT ![a] = NULL]
        /\ \/ at = "idle" /\ UNCHANGED <<others, due, late, crossed>>
           \/ /\ at # "idle" /\ others > 0 /\ others' = others - 1
              /\ due' = IF gpData = NULL THEN due ELSE due \cup {a}
              /\ late' = IF gpData = NULL THEN late \cup {a} ELSE late
              /\ crossed' = (crossed \/ Between)
        /\ UNCHANGED <<gpData, reportIndex, lastIndex, inReport, acking,
                       keepGoing, good, needing, acked, air, at>>

-----------------------------------------------------------------------------
(* modemSendReports() and codecEncodeData() *)

\* A socket is opened; codecPrepareData(), AVOID_FRAGMENTATION being set.
Prepare ==
    /\ at = "idle"
    /\ at' = "report"
    /\ Store!First
    /\ gpData' = nextData'
    /\ due' = Store!InUse
    /\ others' \in 0 .. MaxOthers
    /\ keepGoing' = TRUE /\ good' = TRUE
    /\ UNCHANGED <<reportIndex, lastIndex, index, inReport, history, acking, needing, acked, air>>

\* Mutant: the report index is never put back to 0.
NewReportUnwrapped ==
    /\ at = "report" /\ good /\ gpData # NULL
    /\ at' = "item"
    /\ lastIndex' = reportIndex
    /\ reportIndex' = reportIndex + 1
    /\ UNCHANGED <<store, gpData, index, inReport, due, history, acking, sender>>

\* The header of a report and its index.
NewReport ==
    /\ at = "report" /\ good /\ gpData # NULL
    /\ at' = "item"
    /\ lastIndex' = reportIndex
    /\ reportIndex' = (reportIndex + 1) % IndexLimit
    /\ UNCHANGED <<store, gpData, index, inReport, due, history, acking, sender>>

\* Mutant: the index of the report is not written into the item.
EncodeUnnumbered ==
    /\ at = "item" /\ gpData \in Store!Addr
    /\ at' = "next"
    /\ inReport' = inReport \cup {gpData}
    /\ due' = due \ {gpData}
    /\ IF RequiresAck(node[gpData].key)
       THEN /\ heldIn' = [heldIn EXCEPT ![gpData] = lastIndex]
            /\ UNCHANGED <<store, gpData>>
       ELSE /\ Store!Free(gpData)
            /\ gpData' = NULL
            /\ UNCHANGED heldIn
    /\ UNCHANGED <<reportIndex, lastIndex, index, late, crossed, acking, sender>>

\* An item that fits is encoded and, unless it has to wait for an ack, freed.
\* (An item at Junk is not modelled: what is read there is anything.)
Encode ==
    /\ at = "item" /\ gpData \in Store!Addr
    /\ at' = "next"
    /\ inReport' = inReport \cup {gpData}
    /\ due' = due \ {gpData}
    /\ IF RequiresAck(node[gpData].key)
       THEN /\ index' = [index EXCEPT ![gpData] = lastIndex]
            /\ heldIn' = [heldIn EXCEPT ![gpData] = lastIndex]
            /\ UNCHANGED <<store, gpData>>
       ELSE /\ Store!Free(gpData)
            /\ index' = [index EXCEPT ![gpData] = 0]
            /\ gpData' = NULL
            /\ UNCHANGED heldIn
    /\ UNCHANGED <<reportIndex, lastIndex, late, crossed, acking, sender>>

\* pDataNext()
DataNext == Store!Advance \/ (nextData = NULL /\ UNCHANGED store)

Following ==
    /\ at = "next"
    /\ at' = "item"
    /\ DataNext
    /\ gpData' = nextData'
    /\ UNCHANGED <<reportIndex, lastIndex, index, inReport, due, history, acking, sender>>

\* Mutant: an item that does not fit is passed over.
EndReportSkipping ==
    /\ at = "item"
    /\ gpData = NULL \/ inReport # {}
    /\ at' = "send"
    /\ gpData' = IF gpData = NULL THEN NULL ELSE node[gpData].next
    /\ UNCHANGED <<store, reportIndex, lastIndex, index, inReport, due, history, acking, sender>>

\* Nothing is left or the next item does not fit.
EndReport ==
    /\ at = "item"
    /\ gpData = NULL \/ inReport # {}
    /\ at' = "send"
    /\ UNCHANGED <<store, codec, acking, sender>>

\* Every report asks for an ack (ACK_FOR_REPORTS).  It may be lost, or its ack.
Sent ==
    /\ at = "send"
    /\ needing' = needing + 1
    /\ air' \in {air, air \cup {lastIndex}}
    /\ at' = IF needing' > acked /\ needing' % AckEvery = 0 THEN "peek" ELSE "report"
    /\ inReport' = {}
    /\ UNCHANGED <<store, gpData, reportIndex, lastIndex, index, due, history, acking,
                   keepGoing, good, acked, others>>

SendFails ==
    /\ at = "send"
    /\ good' = FALSE
    /\ at' = "report"
    /\ heldIn' = [a \in Store!Addr |-> IF heldIn[a] = lastIndex THEN NULL ELSE heldIn[a]]
    /\ inReport' = {}
    /\ UNCHANGED <<store, gpData, reportIndex, lastIndex, index, due, late, crossed,
                   acking, keepGoing, needing, acked, air, others>>

\* The callback says stop, something failed, or nothing is left to send.
StopSending ==
    /\ at = "report"
    /\ \/ keepGoing' = FALSE
       \/ (~good \/ gpData = NULL) /\ UNCHANGED keepGoing
    /\ at' = "acks"
    /\ UNCHANGED <<store, codec, acking, good, needing, acked, air, others>>

-----------------------------------------------------------------------------
(* Acks: codecDecodeAck(), codecAckDataIndex() *)

\* An ack arrives, perhaps to arrive again; codecAckDataIndex() begins.
Receive(i) ==
    /\ \/ at = "peek"
       \/ at = "acks" /\ acked < needing
    /\ acked < needing + MaxExtra
    /\ i \in air
    /\ air' \in {air, air \ {i}}
    /\ got' = i
    /\ back' = at
    /\ at' = "acking"
    /\ Store!First
    /\ pData' = nextData'
    /\ UNCHANGED <<codec, keepGoing, good, needing, acked, others>>

\* It has reached the codec's place in the queue, and returns.
AckDone ==
    /\ at = "acking" /\ pData = gpData
    /\ at' = back
    /\ acked' = acked + 1
    /\ got' = 0 /\ pData' = NULL /\ back' = "acks"
    /\ UNCHANGED <<store, codec, keepGoing, good, needing, air, others>>

\* The item was in that report: it is freed, and what is kept of it is of
\* no account.
AckFree ==
    /\ at = "acking" /\ pData # gpData /\ pData \in Store!InUse
    /\ MaskedNeedsAck(node[pData].key) /\ index[pData] = got
    /\ Store!Free(pData)
    /\ at' = "ackNext"
    /\ index' = [index EXCEPT ![pData] = 0]
    /\ heldIn' = [heldIn EXCEPT ![pData] = NULL]
    /\ late' = late \ {pData}
    /\ UNCHANGED <<gpData, reportIndex, lastIndex, inReport, due, crossed, acking, sender>>

AckNext ==
    /\ at = "ackNext"
    /\ DataNext
    /\ pData' = nextData'
    /\ at' = "acking"
    /\ UNCHANGED <<codec, got, back, sender>>

\* The item was not in that report: the loop does not move on.
AckStuck ==
    /\ at = "acking" /\ pData # gpData /\ pData \in Store!InUse
    /\ ~(MaskedNeedsAck(node[pData].key) /\ index[pData] = got)

AckOther ==
    /\ AckStuck
    /\ UNCHANGED vars

\* What either loop is led to is no item: what it makes of it is not modelled.
Astray ==
    /\ \/ at = "item" /\ gpData \notin Store!InUse \cup {NULL}
       \/ at = "acking" /\ pData \notin Store!InUse \cup {gpData}
    /\ UNCHANGED vars

\* The look for acks is over.
PeekOver ==
    /\ at = "peek"
    /\ at' = "report"
    /\ UNCHANGED <<store, codec, acking, sender>>

\* The histories are of one session: an ack that comes later finds no socket.
ForgetSession ==
    /\ inReport' = {} /\ due' = {} /\ late' = {} /\ crossed' = FALSE
    /\ heldIn' = [a \in Store!Addr |-> NULL]

\* Mutant: the wait for the last acks has no limit.
FinishAllAcked ==
    /\ at = "acks"
    /\ IF acked < needing THEN UNCHANGED vars
       ELSE /\ at' = "idle"
            /\ needing' = 0 /\ acked' = 0 /\ air' = {}
            /\ ForgetSession
            /\ UNCHANGED <<store, gpData, reportIndex, lastIndex, index, acking,
                           keepGoing, good, others>>

\* All acks are in, or ACK_TIMEOUT_MS has passed.
Finish ==
    /\ at = "acks"
    /\ at' = "idle"
    /\ needing' = 0 /\ acked' = 0 /\ air' = {}
    /\ ForgetSession
    /\ UNCHANGED <<store, gpData, reportIndex, lastIndex, index, acking, keepGoing, good, others>>

TimeOut == PeekOver \/ Finish

-----------------------------------------------------------------------------
Reporter ==
    \/ NewReport \/ Encode \/ Following \/ EndReport \/ Sent \/ SendFails
    \/ StopSending \/ (\E i \in air : Receive(i))
    \/ AckDone \/ AckFree \/ AckNext \/ AckOther \/ Astray \/ TimeOut

Next == Reading \/ Prepare \/ Reporter

Spec == Init /\ [][Next]_vars

\* The thread runs and time passes: neither wait for acks lasts for ever.
FairSpec == Spec /\ WF_vars(Reporter) /\ SF_vars(TimeOut)

-----------------------------------------------------------------------------
TypeOK ==
    /\ Store!TypeOK
    /\ at \in {"idle", "report", "item", "next", "send", "peek", "acks", "acking", "ackNext"}
    /\ keepGoing \in BOOLEAN /\ good \in BOOLEAN
    /\ needing \in Nat /\ acked \in 0 .. needing + MaxExtra
    /\ gpData \in Store!Pointer
    /\ {reportIndex, lastIndex, got} \subseteq 0 .. IndexLimit - 1
    /\ index \in [Store!Addr -> 0 .. IndexLimit - 1]
    /\ inReport \subseteq Store!Addr /\ due \subseteq Store!Addr /\ late \subseteq Store!Addr
    /\ heldIn \in [Store!Addr -> (0 .. IndexLimit - 1) \cup {NULL}]
    /\ crossed \in BOOLEAN
    /\ others \in 0 .. MaxOthers
    /\ pData \in Store!Pointer
    /\ back \in {"peek", "acks"}
    /\ air \subseteq 0 .. IndexLimit - 1

\* The codec eats the queue from its head, leaving only what waits for an
\* ack: an item before its place that does not would never be passed by
\* codecAckDataIndex().
EatsFromHead ==
    at # "idle" /\ gpData \in Store!InUse =>
        \A i \in DOMAIN Store!Queue :
            (\E j \in DOMAIN Store!Queue : i < j /\ Store!Queue[j] = gpData) =>
                RequiresAck(node[Store!Queue[i]].key)

\* The codec and codecAckDataIndex() only look at items that are in the
\* queue, though they keep pointers while the queue changes ("the data
\* pointers are left such that pDataNext() is pointing to the next data item
\* which would be encoded", codecEncodeData).
PlacesListed ==
    /\ at = "item" => gpData \in Store!InUse \cup {NULL}
    /\ at = "acking" => pData \in Store!InUse \cup {gpData}

\* "Encode and send data until done" (modemSendReports): when sending stops
\* for no failure and no request, all that there was has been sent, and all
\* that was stored before it had come to the end.
SentUntilDone == at = "acks" /\ good /\ keepGoing => due = {}

\* Reports awaiting an ack have numbers of their own, so an ack stands for
\* one report (gReportIndex against wrapping).
NumbersDistinct == at = "send" => lastIndex \notin air

\* What the codec keeps from one call to the next, its places in the queue
\* and the numbers of its reports, stays true of the queue and of the air,
\* whatever the other threads store meanwhile, unless that comes just between
\* a dataFree() and the pDataNext() after it.
ReportSound ==
    ~crossed => EatsFromHead /\ PlacesListed /\ SentUntilDone /\ NumbersDistinct

\* An item that requires an ack leaves the queue only when the ack of a
\* report that was sent and that held it has come, though pDataAlloc() leaves
\* in its index whatever the memory held: all but what is stored once the
\* codec has come to the end of the queue, which codecAckDataIndex() reaches
\* without its having been encoded.
KeptUntilAcked ==
    [][~crossed =>
          \A b \in Store!InUse :
              RequiresAck(node[b].key) /\ b \notin Store!InUse' =>
                  at = "acking" /\ (heldIn[b] = got \/ b \in late)]_vars

\* Sending reports comes to an end whatever the server and the link do,
\* unless an ack leads codecAckDataIndex() to such an item or the place in
\* the queue is lost ...
SendingEnds == at # "idle" ~> at = "idle" \/ AckStuck \/ crossed

\* ... whereas "the time to wait for an ack from the server" is limited
\* (ACK_TIMEOUT_MS, eh_config.h): no ack takes for ever.  Not so of the code;
\* see the README.
AcksEnd == at = "acking" ~> at # "acking"

=============================================================================
