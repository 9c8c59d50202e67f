----------------------------- MODULE Processor -----------------------------
(***************************************************************************)
(* A wake-up of eh_processor.cpp: processorHandleWakeup() starting one     *)
(* thread per action type of the ranked list, waiting for them and         *)
(* terminating what is left; doAction() and the doMeasure...() functions   *)
(* in those threads; and the action list they share through pointers to    *)
(* its entries.                                                            *)
(*                                                                         *)
(* The ranked list is any sequence of different types with a reporting     *)
(* type, if any, last (processorActionList()).  Power and time run out     *)
(* whenever they like.  A thread's step ends where it takes or gives up    *)
(* the action mutex, or where the main thread can come between.            *)
(***************************************************************************)
EXTENDS Integers, FiniteSets, Sequences, SequencesExt

CONSTANTS
    NumActions,   \* MAX_NUM_ACTIONS
    NumTasks,     \* MAX_NUM_SIMULTANEOUS_ACTIONS
    Measure,      \* types of measurement
    Ble,          \* those whose readings are stored as they come
    Report,       \* the reporting types
    NULL,
    MaxFailures   \* bound: threads that memory is too short to start

ASSUME TaskAssumption == NumTasks \in Nat \ {0} /\ NumActions \in Nat \ {0}
ASSUME TypeAssumption ==
    /\ Measure \cap Report = {} /\ NULL \notin Measure \cup Report /\ IsFiniteSet(Measure)
    /\ Ble \subseteq Measure
ASSUME FailAssumption == MaxFailures \in Nat

ActionType == Measure \cup Report
Task == 0 .. NumTasks - 1

VARIABLES
    entry,      \* gActionList
    main,       \* where processorHandleWakeup() is
    todo,       \* ranked types still to be started, from actionType on
    taskIndex,
    thread,     \* gpActionThreadList, and what each thread is doing
    i2c,        \* whether the I2C bus is up
    failures    \* history: threads that could not be started

vars == <<entry, main, todo, taskIndex, thread, i2c, failures>>

Actions == INSTANCE ActionList

\* A thread: where it is, the entry it was given, the type it was started
\* for, the type it found in the entry, whether the terminate signal is set,
\* and (history) whether it recorded an outcome.
Thread == [at : {"started", "chosen", "initialised", "read", "connected",
                 "finishing", "aborting", "ended"},
           slot : Actions!Slot, want : ActionType, doing : ActionType \cup {NULL},
           signal : BOOLEAN, ran : BOOLEAN]
Started(s, t) == [at |-> "started", slot |-> s, want |-> t, doing |-> NULL,
                  signal |-> FALSE, ran |-> FALSE]

ASSUME NullAssumption == NULL \notin Thread

Live == {k \in Task : thread[k] # NULL}
Ended == {k \in Live : thread[k].at = "ended"}
Running == Live \ Ended

\* Mutant: threads that have ended stay in the list.
ReapedNever(th) == th

\* checkThreadsRunning(): threads that have ended are deleted.
Reaped(th) == [k \in Task |-> IF th[k] # NULL /\ th[k].at = "ended" THEN NULL ELSE th[k]]

\* What processorActionList() may return.
Measurements == UNION {SetToSeqs(M) : M \in SUBSET Measure}
RankedLists == Measurements \cup UNION {{l \o <<r>> : l \in Measurements} : r \in Report}

Init ==
    /\ Actions!Init
    /\ main = "asleep"
    /\ todo = <<>>
    /\ taskIndex = 0
    /\ thread = [k \in Task |-> NULL]
    /\ i2c = FALSE
    /\ failures = 0

-----------------------------------------------------------------------------
(* processorHandleWakeup() *)

\* Enough power: rank the actions and get going.
WakeUp ==
    /\ main = "asleep"
    /\ main' = "starting"
    /\ todo' \in RankedLists
    /\ UNCHANGED <<entry, taskIndex, thread, i2c, failures>>

\* Mutant: the task index runs off the end of the list.
StartTurnOffEnd ==
    /\ main = "starting"
    /\ todo # <<>>
    /\ i2c' = TRUE
    /\ taskIndex' = taskIndex + 1
    /\ UNCHANGED main

\* One turn of the start loop: the slot is passed whatever comes of it.
StartTurn ==
    /\ main = "starting"
    /\ todo # <<>>
    /\ i2c' = TRUE
    /\ taskIndex' = (taskIndex + 1) % NumTasks
    /\ UNCHANGED main

StartThread ==
    /\ StartTurn
    /\ thread[taskIndex] = NULL
    /\ Actions!Add(Head(todo))
    /\ thread' = Reaped([thread EXCEPT ![taskIndex] = Started(Actions!Chosen, Head(todo))])
    /\ todo' = Tail(todo)
    /\ UNCHANGED failures

\* A thread cannot be started; the entry made for it stays as it is.
Failure ==
    /\ failures < MaxFailures
    /\ failures' = failures + 1
    /\ StartTurn
    /\ thread[taskIndex] = NULL
    /\ Actions!Add(Head(todo))
    /\ thread' = Reaped(thread)

\* Thread::start() fails: on to the next type.
StartRefused == Failure /\ todo' = Tail(todo)

\* There is no memory for a Thread: the type is tried again.
NoMemory == Failure /\ UNCHANGED todo

\* The slot is taken or the action list is full.
NoRoom ==
    /\ StartTurn
    /\ thread[taskIndex] # NULL \/ Actions!Chosen = NULL
    /\ thread' = Reaped(thread)
    /\ UNCHANGED <<entry, todo, failures>>

\* Everything is started, or voltageIsNotBad() says no.
StopStarting ==
    /\ main = "starting"
    /\ main' = "waiting"
    /\ thread' = Reaped(thread)
    /\ todo' = <<>>
    /\ taskIndex' = 0
    /\ UNCHANGED <<entry, i2c, failures>>

PowerGone == StopStarting /\ todo # <<>>
AllStarted == StopStarting /\ todo = <<>>

\* Threads have ended, power has gone or time is up: terminateAllThreads()
\* signals those that remain.
StopWaiting ==
    /\ main = "waiting"
    /\ main' = "terminating"
    /\ thread' = [k \in Task |-> IF thread[k] = NULL THEN NULL
                                 ELSE [thread[k] EXCEPT !.signal = TRUE]]
    /\ UNCHANGED <<entry, todo, taskIndex, i2c, failures>>

\* All threads have ended: I2C is shut down and the device sleeps.
Sleep ==
    /\ main = "terminating"
    /\ Running = {}
    /\ main' = "asleep"
    /\ thread' = Reaped(thread)
    /\ i2c' = FALSE
    /\ UNCHANGED <<entry, todo, taskIndex, failures>>

-----------------------------------------------------------------------------
(* doAction() in thread k *)

\* Thread k goes on to a place, other fields as given.
Goto(k, place) == thread' = [thread EXCEPT ![k].at = place]
OnlyThreads == UNCHANGED <<main, todo, taskIndex, i2c, failures>>

At(k, place) == k \in Live /\ thread[k].at = place

\* An action has failed: it has run, and there is nothing to store.
Fail(k) ==
    /\ Actions!Mark(thread[k].slot, "TRIED_AND_FAILED")
    /\ thread' = [thread EXCEPT ![k].at = "finishing", ![k].ran = TRUE]

\* threadContinue() is false once, when the signal is set: there is no
\* outcome then.  A position fix has failed, and a Bluetooth action goes on
\* to its end: see Read.
Signalled(k) ==
    /\ k \in Live /\ thread[k].at \in {"started", "initialised", "connected"}
    /\ thread[k].at = "initialised" => thread[k].doing \notin Ble
    /\ thread[k].signal
    /\ \/ /\ UNCHANGED entry
          /\ thread' = [thread EXCEPT ![k].at = "finishing", ![k].signal = FALSE]
       \/ thread[k].at = "initialised" /\ Fail(k)
    /\ OnlyThreads

\* The switch on pAction->type.
Choose(k) ==
    /\ At(k, "started") /\ ~thread[k].signal
    /\ thread' = [thread EXCEPT ![k].at = "chosen",
                                ![k].doing = entry[thread[k].slot].type]
    /\ UNCHANGED entry /\ OnlyThreads

\* Driver initialised, or not, which some types count as a failure; the
\* others, and too little heap, set no outcome.
InitDriver(k) ==
    /\ At(k, "chosen") /\ thread[k].doing \in Measure
    /\ \/ Goto(k, "initialised") /\ UNCHANGED entry
       \/ Goto(k, "finishing") /\ UNCHANGED entry
       \/ thread[k].doing \notin Ble /\ Fail(k)
    /\ OnlyThreads

\* checkBleProgress(), called from the event queue bleRun() dispatches.
StoreBle(k) ==
    /\ At(k, "initialised") /\ thread[k].doing \in Ble
    /\ entry' = [entry EXCEPT ![thread[k].slot].data = thread[k].doing]
    /\ UNCHANGED thread /\ OnlyThreads

\* A reading, and its outcome: the signal may be set since it was looked at,
\* and some types do not look.  A Bluetooth action has then stored what came.
Read(k) ==
    /\ At(k, "initialised")
    /\ \/ Fail(k) /\ thread[k].doing \notin Ble
       \/ /\ Actions!Mark(thread[k].slot, "COMPLETED")
          /\ thread' = [thread EXCEPT
                ![k].at = IF thread[k].doing \in Ble THEN "finishing" ELSE "read",
                ![k].ran = TRUE]
    /\ OnlyThreads

\* pDataAlloc() of a reading; there may be no room for it.
Store(k) ==
    /\ At(k, "read")
    /\ \/ entry' = [entry EXCEPT ![thread[k].slot].data = thread[k].doing]
       \/ UNCHANGED entry
    /\ Goto(k, "finishing")
    /\ OnlyThreads

\* reporting(): the modem connects, or the action has failed.
Connect(k) ==
    /\ At(k, "chosen") /\ thread[k].doing \in Report
    /\ \/ Goto(k, "connected") /\ UNCHANGED entry
       \/ Fail(k)
    /\ OnlyThreads

\* The cellular item is stored, then reports are sent: items sent are freed,
\* this one perhaps among them, and unhooked from their actions.
Send(k) ==
    /\ At(k, "connected") /\ ~thread[k].signal
    /\ \E good, stored \in BOOLEAN, sent \in SUBSET Actions!Slot :
         LET s == thread[k].slot
             hooked == IF stored THEN [entry EXCEPT ![s].data = thread[k].doing]
                       ELSE entry
         IN  /\ entry' = [r \in Actions!Slot |->
                   [hooked[r] EXCEPT
                      !.data = IF r \in sent THEN NULL ELSE @,
                      !.state = IF r # s THEN @
                                ELSE IF good THEN "COMPLETED" ELSE "TRIED_AND_FAILED"]]
    /\ thread' = [thread EXCEPT ![k].at = "finishing", ![k].ran = TRUE]
    /\ OnlyThreads

\* Mutant: an action that has not run is not aborted.
FinishRequested(k) ==
    /\ At(k, "finishing")
    /\ Goto(k, "ended")
    /\ UNCHANGED entry /\ OnlyThreads

\* hasActionRun() decides whether to abort ...
Finish(k) ==
    /\ At(k, "finishing")
    /\ Goto(k, IF Actions!HasRun(thread[k].slot) THEN "ended" ELSE "aborting")
    /\ UNCHANGED entry /\ OnlyThreads

\* ... and actionAborted() does.
Abort(k) ==
    /\ At(k, "aborting")
    /\ Actions!Mark(thread[k].slot, "ABORTED")
    /\ Goto(k, "ended")
    /\ OnlyThreads

-----------------------------------------------------------------------------
MainStep == WakeUp \/ StartThread \/ StartRefused \/ NoMemory \/ NoRoom
            \/ PowerGone \/ AllStarted \/ StopWaiting \/ Sleep

ThreadStep(k) == Signalled(k) \/ Choose(k) \/ InitDriver(k) \/ StoreBle(k) \/ Read(k) \/ Store(k)
                 \/ Connect(k) \/ Send(k) \/ Finish(k) \/ Abort(k)

Next == MainStep \/ \E k \in Task : ThreadStep(k)

Spec == Init /\ [][Next]_vars

\* The scheduler runs every thread that can run; drivers and modem return.
\* The main thread's loops never block.
Fairness == /\ WF_vars(MainStep)
            /\ \A k \in Task : WF_vars(ThreadStep(k))
FairSpec == Spec /\ Fairness

-----------------------------------------------------------------------------
TypeOK ==
    /\ entry \in [Actions!Slot -> Actions!Entry]
    /\ main \in {"asleep", "starting", "waiting", "terminating"}
    /\ todo \in Seq(ActionType)
    /\ taskIndex \in Task
    /\ thread \in [Task -> {NULL} \cup Thread]
    /\ i2c \in BOOLEAN
    /\ failures \in 0 .. MaxFailures

\* "Should be no actions outstanding" (unit test of the processor, after
\* processorHandleWakeup()): no entry is left requested, where it would
\* count in actionCount() and never be reused, but those of threads that
\* could not be started, one each.
OutstandingExplained ==
    main = "asleep" => Cardinality(Actions!Outstanding) <= failures

\* No thread outlives the wake-up that started it, and none talks to a
\* sensor when the bus is down.
NoStragglers ==
    /\ main = "asleep" => Live = {}
    /\ \A k \in Live : thread[k].at \in {"chosen", "initialised"} => i2c

\* The report is started last: while its thread runs the main thread adds no
\* action.  pActionAdd() takes the action mutex and then the data mutex,
\* dataFree() in the reporting thread the other way round.
NoAddDuringReport ==
    (\E k \in Running : thread[k].want \in Report) => todo = <<>>

\* No action type is started twice in a wake-up.
StartedOnce ==
    \A k, l \in Live : k # l => thread[k].want # thread[l].want

\* Threads and entries are those that the wake-up accounts for, whatever
\* order threads end, fail to start or are terminated in.
ThreadsSound == OutstandingExplained /\ NoStragglers /\ NoAddDuringReport /\ StartedOnce

\* "The maximum time that processorHandleWakeup() is allowed to run for"
\* (gMaxRunTime): whatever happens the device goes back to sleep.
SleepsAgain == main # "asleep" ~> main = "asleep"

\* MBED_ASSERT(pData1->type == pData2->type) (dataDifference), when
\* actionRankTypes() compares the data of two actions of one type.
ComparableData ==
    \A s, r \in Actions!Ranked :
        entry[s].type = entry[r].type /\ entry[s].data # NULL /\ entry[r].data # NULL
            => entry[s].data = entry[r].data
=============================================================================
