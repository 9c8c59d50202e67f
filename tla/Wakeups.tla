------------------------------ MODULE Wakeups ------------------------------
(***************************************************************************)
(* What eh_processor.cpp decides from one wake-up to the next: which       *)
(* actions to perform (processorActionList()), and when to try again for a *)
(* position (doMeasurePosition()) or for the time (updateTime()).          *)
(*                                                                         *)
(* The action list at the start of a wake-up is any of a given set of      *)
(* histories.  Energy, room in the data queue, the reason to wake up and   *)
(* the outcome of an action come from outside.  Ages are counted in wake-  *)
(* up intervals, up to where they no longer matter.                        *)
(***************************************************************************)
EXTENDS ActionRank

CONSTANTS
    Position, Report, GetTimeAndReport,  \* action types
    Histories,      \* action lists a wake-up may begin with
    NullKeys,       \* what an action at address 0 may be ranked as
    Energies,       \* what getEnergyAvailableNWH() may answer
    Rooms,          \* sets of types dataAllocCheck() may find room for
    LogsReported,   \* LOGGING_NEEDS_REPORTING_EACH_WAKEUP
    Interval,       \* WAKEUP_INTERVAL_SECONDS
    NoBackOff,      \* LOCATION_FIX_NO_BACK_OFF_SECONDS
    MaxPeriod,      \* LOCATION_FIX_MAX_PERIOD_SECONDS
    MaxAge,         \* LOCATION_FIX_MAX_AGE_SECONDS
    TimeInterval    \* TIME_UPDATE_INTERVAL_SECONDS

ASSUME WakeupAssumption ==
    /\ {Position, Report, GetTimeAndReport} \subseteq ActionType
    /\ Report # GetTimeAndReport /\ Position \notin {Report, GetTimeAndReport}
    /\ LogsReported \in BOOLEAN
    /\ Interval \in Nat \ {0} /\ {NoBackOff, MaxPeriod, MaxAge, TimeInterval} \subseteq Nat
    /\ Interval <= MaxPeriod

\* An entry that has been used has a type; energies are unsigned; whatever
\* is ranked, what it is ranked by are numbers.
ASSUME HistoryAssumption ==
    /\ Histories \subseteq Seq(Entry)
    /\ \A list \in Histories : \A i \in DOMAIN list : list[i].state # "NULL" => list[i].type # NULL
    /\ Energies \subseteq Nat /\ NullKeys \subseteq [1 .. 5 -> Int]

Reports == {Report, GetTimeAndReport}
Wanted == {t \in ActionType : Desirability[t] > 0}
MaxSkips == MaxPeriod \div Interval

\* Positions of a time_t that is compared with a limit only.
Age(limit) == 0 .. (limit \div Interval) + 1
Older(age, limit) == Min({age + 1, (limit \div Interval) + 1})

VARIABLES
    phase,      \* "asleep", "ranked" or "chosen"
    list,       \* gActionList while ranking
    available,  \* energyAvailableNWH
    ranked,     \* gRankedTypes
    input,      \* history: reason, room and queue the choice was made with
    fixAge,     \* since gLastPositionTime: NULL if that is -1
    timeAge,    \* since gTimeUpdate: NULL if that is 0
    weveMoved,  \* gWeveMoved
    required,   \* gPositionFixSkipsRequired
    skipped,    \* gPositionNumFixesSkipped, as far as it matters
    failed,     \* gPositionNumFixesFailedNoBackOff
    sinceTry,   \* history: position actions that have skipped since one tried
    triedSince  \* history: a position has been tried since the device moved

choice == <<phase, list, available, ranked, input>>
backOff == <<required, skipped, failed, sinceTry, triedSince>>
vars == <<choice, fixAge, timeAge, weveMoved, backOff>>

Reset == required' = 0 /\ skipped' = 0 /\ failed' = 0

Init ==
    /\ phase = "asleep" /\ list = <<>> /\ available = 0 /\ ranked = <<>> /\ input = NULL
    /\ fixAge = NULL /\ timeAge = NULL /\ weveMoved = FALSE
    /\ required = 0 /\ skipped = 0 /\ failed = 0
    /\ sinceTry = 0 /\ triedSince = TRUE

-----------------------------------------------------------------------------
(* processorActionList() *)

\* The device has slept for less than an interval, or for one.
Sleep ==
    \/ UNCHANGED <<fixAge, timeAge>>
    \/ /\ fixAge' = IF fixAge = NULL THEN NULL ELSE Older(fixAge, MaxAge)
       /\ timeAge' = IF timeAge = NULL THEN NULL ELSE Older(timeAge, TimeInterval)

\* Up to actionRankTypes()
Rank ==
    /\ phase = "asleep"
    /\ phase' = "ranked"
    /\ list' \in Histories
    /\ \E k \in NullKeys : ranked' = RankTypes(list', k)
    /\ available' \in Energies
    /\ Sleep
    /\ UNCHANGED <<input, weveMoved, backOff>>

\* One kind of report is kept and made last.
OneReport(types) ==
    IF timeAge # NULL /\ timeAge * Interval < TimeInterval
    THEN MoveToEnd(DelType(types, GetTimeAndReport), Report)
    ELSE DelType(MoveToEnd(types, GetTimeAndReport), Report)

\* No report for a queue that is not full, unless a magnet passes or there
\* are logs to report; MAX_REPORT_INTERVAL_SECONDS is 0, there is none.
WorthReporting(types, in) ==
    IF ~LogsReported /\ in.reason # "MAGNETIC" /\ ~in.full THEN DelType(types, Report) ELSE types

\* Mutant: the data of a report is looked at too.
WithRoomForReport(types, in) == Only(types, in.room)

\* Actions whose data has no room are left out; reports have none.
WithRoom(types, in) == Only(types, Reports \cup in.room)

\* The last fix is old (sic), and the device has not moved.
NoPosition == fixAge # NULL /\ ~weveMoved /\ fixAge * Interval > MaxAge
PositionDue(types) == IF NoPosition THEN DelType(types, Position) ELSE types

\* The energy that some actions are expected to take.
Needed(types) == Total([i \in DOMAIN types |-> EnergyNWH(list, types[i])])

\* Each action that takes the total over the edge is dropped.
Affordable(types) ==
    LET kept[n \in 0 .. Len(types)] ==
            IF n = 0 THEN <<>>
            ELSE LET before == kept[n - 1]
                 IN  IF Needed(before) + EnergyNWH(list, types[n]) > available THEN before
                     ELSE Append(before, types[n])
    IN  kept[Len(types)]

\* A bound above which gPositionNumFixesSkipped need not be known.
Skip == skipped' = Min({skipped + 1, MaxSkips})

\* Mutant: the number of skips stays what it was.
MovedKept ==
    /\ phase = "ranked"
    /\ phase' = "asleep"
    /\ weveMoved' = TRUE /\ triedSince' = FALSE
    /\ skipped' = 0 /\ failed' = 0
    /\ list' = <<>> /\ available' = 0 /\ ranked' = <<>>
    /\ UNCHANGED <<input, fixAge, timeAge, required, sinceTry>>

\* A wake-up for acceleration performs no action, but resets the back-off.
Moved ==
    /\ phase = "ranked"
    /\ phase' = "asleep"
    /\ weveMoved' = TRUE /\ triedSince' = FALSE
    /\ Reset
    /\ list' = <<>> /\ available' = 0 /\ ranked' = <<>>
    /\ UNCHANGED <<input, fixAge, timeAge, sinceTry>>

Choose ==
    /\ phase = "ranked"
    /\ phase' = "chosen"
    /\ input' \in [reason : {"RTC", "MAGNETIC"}, full : BOOLEAN, room : Rooms]
    /\ LET types == WithRoom(PositionDue(WorthReporting(OneReport(ranked), input')), input')
       IN  /\ ranked' = Affordable(types)
           /\ IF Position \in ToSet(types) \ ToSet(ranked')
              THEN Skip ELSE UNCHANGED skipped
    /\ list' = <<>> /\ available' = 0
    /\ UNCHANGED <<fixAge, timeAge, weveMoved, required, failed, sinceTry, triedSince>>

-----------------------------------------------------------------------------
(* doMeasurePosition(), and back to sleep *)

Done ==
    /\ phase = "chosen"
    /\ phase' = "asleep"
    /\ ranked' = <<>> /\ input' = NULL
    /\ UNCHANGED <<list, available>>

\* updateTime() by a report that gets the time, or not.
ReportTime ==
    \/ UNCHANGED timeAge
    \/ GetTimeAndReport \in ToSet(ranked) /\ timeAge' = 0

\* Position is not among the actions, or its thread never gets to it.
NotTried ==
    /\ Done /\ ReportTime
    /\ UNCHANGED <<fixAge, weveMoved, backOff>>

Try == Done /\ Position \in ToSet(ranked) /\ skipped >= required

\* This time is one to skip.
SkipTurn ==
    /\ Done /\ ReportTime
    /\ Position \in ToSet(ranked) /\ skipped < required
    /\ Skip
    /\ sinceTry' = sinceTry + 1
    /\ UNCHANGED <<fixAge, weveMoved, required, failed, triedSince>>

\* Too little heap, or the driver does not answer.
NoDriver ==
    /\ Try /\ ReportTime
    /\ Skip
    /\ UNCHANGED <<fixAge, weveMoved, required, failed, sinceTry, triedSince>>

\* A fix, and the time with it.
GotFix ==
    /\ Try
    /\ fixAge' = 0
    /\ timeAge' \in {timeAge, 0}
    /\ weveMoved' = FALSE
    /\ Reset
    /\ sinceTry' = 0 /\ triedSince' = TRUE

\* Mutant: twice as many skips whatever the limit.
BackOffMoreUnlimited ==
    /\ required > 0
    /\ required' = IF required <= MaxSkips THEN required * 2 ELSE required
    /\ skipped' = 0
    /\ UNCHANGED failed

\* Without back-off at first ...
BackOffFirst ==
    /\ required = 0
    /\ failed' = failed + 1
    /\ IF failed' * Interval > NoBackOff
       THEN required' = 1 /\ skipped' = 0
       ELSE UNCHANGED <<required, skipped>>

\* ... then twice as many skips each time, up to the limit.
BackOffMore ==
    /\ required > 0
    /\ required' = IF required * Interval * 2 < MaxPeriod THEN required * 2 ELSE MaxSkips
    /\ skipped' = 0
    /\ UNCHANGED failed

\* No fix in time, or told to stop.
NoFix ==
    /\ Try /\ ReportTime
    /\ BackOffFirst \/ BackOffMore
    /\ sinceTry' = 0 /\ triedSince' = TRUE
    /\ UNCHANGED <<fixAge, weveMoved>>

Next == Rank \/ Moved \/ Choose \/ NotTried \/ SkipTurn \/ NoDriver \/ GotFix \/ NoFix

Spec == Init /\ [][Next]_vars

-----------------------------------------------------------------------------
TypeOK ==
    /\ phase \in {"asleep", "ranked", "chosen"}
    /\ list \in Histories \cup {<<>>}
    /\ available \in Nat
    /\ ranked \in Seq(ActionType)
    /\ input \in [reason : {"RTC", "MAGNETIC"}, full : BOOLEAN, room : Rooms] \cup {NULL}
    /\ fixAge \in Age(MaxAge) \cup {NULL}
    /\ timeAge \in Age(TimeInterval) \cup {NULL}
    /\ weveMoved \in BOOLEAN
    /\ required \in 0 .. MaxSkips /\ skipped \in 0 .. MaxSkips
    /\ failed \in 0 .. (NoBackOff \div Interval) + 1
    /\ sinceTry \in Nat /\ triedSince \in BOOLEAN

\* Every type that is not off is ranked, and once, whatever the actions in
\* the list and whatever the NULL pointers of gpRankedList are ranked as
\* (actionRankTypes(), ranker()).
RankedOnce ==
    phase = "ranked" => IsInjective(ranked) /\ ToSet(ranked) = Wanted

\* "Rank by number of occurrences, least first, rank by energy cost,
\* cheapest first" (eh_action.h): so far as actionRankTypes() keeps to it,
\* that is among types with an action in a list without unused entries.
RanksAsDocumented ==
    (phase = "ranked" /\ Used(list) = list) =>
        \A i, j \in DOMAIN ranked :
            LET t == ranked[i]  u == ranked[j]
                cost(v) == Min({e.cost : e \in {f \in ToSet(list) : f.type = v}})
            IN  (Occurrence(list, t) > 0 /\ Occurrence(list, u) > 0 /\ i < j) =>
                    \/ Occurrence(list, t) < Occurrence(list, u)
                    \/ /\ Occurrence(list, t) = Occurrence(list, u)
                       /\ cost(t) <= cost(u)

\* The processor is given what it counts on (Processor!RankedLists): no
\* type twice, and a report only as the last.
ReportLast ==
    phase = "chosen" =>
        /\ IsInjective(ranked)
        /\ \A i \in DOMAIN ranked : ranked[i] \in Reports => i = Len(ranked)

\* The ranked list, from ranker() to the end of processorActionList().
RankingSound == RankedOnce /\ RanksAsDocumented /\ ReportLast

Choosing == phase = "ranked" /\ phase' = "chosen"

\* What is going to be done needs no more than the energy there is, and
\* when all that was ranked could be paid for, no position is counted as
\* skipped for want of it.
WithinEnergy ==
    [][Choosing => /\ Needed(ranked') <= available
                   /\ Needed(ranked) <= available => skipped' = skipped]_vars

\* A queue with no room for anything is emptied: whenever there is the
\* energy for a report it is made, and nothing else.
QueueDrains ==
    [][(Choosing /\ input'.full /\ input'.room = {} /\ Reports \subseteq Wanted
        /\ \A t \in Reports : EnergyNWH(list, t) <= available)
       => \E t \in Reports : ranked' = <<t>>]_vars

\* What processorActionList() leaves of the list is worth the energy there
\* is, and a full queue is emptied.
ChoiceSound == WithinEnergy /\ QueueDrains

\* However long no position is to be had, and whatever else made attempts
\* to be skipped, no more than LOCATION_FIX_MAX_PERIOD_SECONDS worth of
\* position actions go by without trying.
BackOffBounded == sinceTry <= MaxSkips

\* Once the device has moved the next position action tries at once.
MovedTries == ~triedSince => required <= skipped

\* The back-off of the position: never too long, and ended by a movement.
BackOffSound == BackOffBounded /\ MovedTries
=============================================================================
