------------------------------- MODULE Locks -------------------------------
(***************************************************************************)
(* The mutexes of the program and the order in which its threads take      *)
(* them.  Every component has one of its own, held throughout each of its  *)
(* operations (MTX_LOCK ... MTX_UNLOCK, eh_utilities.h), and an operation  *)
(* may call into another component meanwhile.  They are recursive.         *)
(*                                                                         *)
(* A thread is the sequence of locks and unlocks it performs in a wake-up. *)
(* The main thread starts a thread for each type of the ranked list, in    *)
(* its order, and at the end shuts down what they used.                    *)
(***************************************************************************)
EXTENDS Integers, FiniteSets, Sequences, SequencesExt

CONSTANTS
    MeasureType,  \* types of measurement
    ReportType,   \* the reporting type, not one of MeasureType
    Driver,   \* the sensor driver of each type of measurement
    NULL

Thread == {"main", ReportType} \cup MeasureType
Drivers == {Driver[t] : t \in MeasureType}
Mutex == {"action", "data", "processor", "modem", "i2c"} \cup Drivers

\* What a thread does next.
Event(do, what) == <<[do |-> do, what |-> what]>>
Hold(m, inside) == Event("lock", m) \o inside \o Event("unlock", m)

\* eh_action.cpp: pActionAdd() unhooks the data of the entry it overwrites.
pActionAdd == Hold("action", Hold("data", <<>>))
SetOutcome == Hold("action", <<>>)
HasActionRun == Hold("action", <<>>)

\* eh_data.cpp: dataFree() unhooks the item from its action.
pDataAlloc == Hold("data", <<>>)
pDataNext == Hold("data", <<>>)
dataFree == Hold("data", Hold("action", <<>>))
dataAdjustTime == Hold("data", <<>>)

\* eh_processor.cpp
WorkOutCost == Hold("processor", <<>>)
updateTime == Hold("processor", dataAdjustTime)
StoreLog == Hold("data", pDataAlloc)

\* Drivers and modem: what they do is held within one mutex.
i2c == Hold("i2c", <<>>)
UseSensor(t) == Hold(Driver[t], i2c)
UseModem == Hold("modem", <<>>)
modemSendReports == Hold("modem", dataFree \o pDataNext \o dataFree \o pDataNext)

MeasureScript(t) ==
    UseSensor(t) \o SetOutcome \o WorkOutCost \o pDataAlloc \o HasActionRun

ReportScript ==
    UseModem \o pDataAlloc \o StoreLog \o UseModem \o updateTime \o pDataAlloc
    \o modemSendReports \o SetOutcome \o WorkOutCost \o HasActionRun

\* processorHandleWakeup() for a ranked list.
StartAll(list) ==
    FlattenSeq([n \in DOMAIN list |-> i2c \o pActionAdd \o Event("start", list[n])])
ShutDown == Event("join", NULL) \o i2c

Script(t, list) ==
    CASE t = "main" -> StartAll(list) \o ShutDown
      [] t = ReportType -> ReportScript
      [] OTHER -> MeasureScript(t)

\* Mutant: the report is left where it was ranked.
RankedListsAnyOrder == UNION {SetToSeqs(M) : M \in SUBSET (MeasureType \cup {ReportType})}

\* What processorActionList() may return: a report comes last.
RankedLists ==
    UNION {SetToSeqs(M) \cup {Append(l, ReportType) : l \in SetToSeqs(M)} : M \in SUBSET MeasureType}

VARIABLES
    ranked,   \* the ranked list of this wake-up
    running,  \* threads started and not ended
    done,     \* events each thread has performed
    owner,    \* of each mutex
    depth     \* locks less unlocks of its owner

vars == <<ranked, running, done, owner, depth>>

Init ==
    /\ ranked \in RankedLists
    /\ running = {"main"}
    /\ done = [t \in Thread |-> 0]
    /\ owner = [m \in Mutex |-> NULL]
    /\ depth = [m \in Mutex |-> 0]

Left(t) == SubSeq(Script(t, ranked), done[t] + 1, Len(Script(t, ranked)))

\* Thread t performs its next event, a do of something.
Perform(t, do) ==
    /\ t \in running
    /\ Left(t) # <<>> /\ Head(Left(t)).do = do
    /\ done' = [done EXCEPT ![t] = @ + 1]
    /\ UNCHANGED ranked

What(t) == Head(Left(t)).what

Lock(t) ==
    /\ Perform(t, "lock")
    /\ owner[What(t)] \in {NULL, t}
    /\ owner' = [owner EXCEPT ![What(t)] = t]
    /\ depth' = [depth EXCEPT ![What(t)] = @ + 1]
    /\ UNCHANGED running

Unlock(t) ==
    /\ Perform(t, "unlock")
    /\ depth' = [depth EXCEPT ![What(t)] = @ - 1]
    /\ owner' = [owner EXCEPT ![What(t)] = IF depth[What(t)] = 1 THEN NULL ELSE t]
    /\ UNCHANGED running

Start ==
    /\ Perform("main", "start")
    /\ running' = running \cup {What("main")}
    /\ UNCHANGED <<owner, depth>>

\* terminateAllThreads() has seen them all end.
Join ==
    /\ Perform("main", "join")
    /\ running = {"main"}
    /\ UNCHANGED <<running, owner, depth>>

End(t) ==
    /\ t \in running \ {"main"} /\ Left(t) = <<>>
    /\ running' = running \ {t}
    /\ UNCHANGED <<ranked, done, owner, depth>>

\* The device sleeps and wakes up again.
WakeUp ==
    /\ Left("main") = <<>>
    /\ ranked' \in RankedLists
    /\ done' = [t \in Thread |-> 0]
    /\ UNCHANGED <<running, owner, depth>>

Step(t) == Lock(t) \/ Unlock(t) \/ End(t)
MainStep == Step("main") \/ Start \/ Join

Next == MainStep \/ WakeUp \/ \E t \in Thread \ {"main"} : Step(t)

Spec == Init /\ [][Next]_vars

\* The scheduler runs every thread that is not waiting for a mutex.
FairSpec == Spec /\ WF_vars(MainStep) /\ \A t \in Thread \ {"main"} : WF_vars(Step(t))

-----------------------------------------------------------------------------
TypeOK ==
    /\ ranked \in RankedLists
    /\ running \subseteq Thread /\ "main" \in running
    /\ done \in [Thread -> Nat]
    /\ owner \in [Mutex -> Thread \cup {NULL}]
    /\ depth \in [Mutex -> 0 .. 2]

Waiting(t) ==
    /\ t \in running /\ Left(t) # <<>>
    /\ Head(Left(t)).do = "lock"
    /\ owner[What(t)] \notin {NULL, t}

\* No threads wait for one another in a ring, although pActionAdd() takes
\* the action mutex and then the data mutex and dataFree() the other way
\* round: the thread that frees data is started when the last action has
\* been added (actionRankMoveType() of the report in processorActionList()).
NoCircularWait ==
    ~ \E S \in SUBSET running :
        S # {} /\ \A t \in S : Waiting(t) /\ owner[What(t)] \in S

\* A thread that has ended holds nothing, and nothing is held in sleep.
NothingLeftHeld ==
    /\ \A m \in Mutex : owner[m] # NULL => owner[m] \in running
    /\ Left("main") = <<>> => \A m \in Mutex : owner[m] = NULL

\* Every wake-up comes to its end.
WakeUpEnds == []<>(Left("main") = <<>>)

\* The mutexes never stop a wake-up, and none is left locked by one.
LocksSound == []NoCircularWait /\ []NothingLeftHeld /\ WakeUpEnds
=============================================================================
