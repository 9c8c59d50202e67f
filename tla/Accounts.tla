------------------------------ MODULE Accounts ------------------------------
(***************************************************************************)
(* How time and energy are accounted for: eh_statistics.cpp, and in        *)
(* eh_processor.cpp updateTime(), activeEnergyUsedNWH() and the energy     *)
(* cost of a measurement.  Everything is reckoned from times of the clock, *)
(* which the network or a position fix may set in the middle of a wake-up. *)
(***************************************************************************)
EXTENDS Integers

CONSTANTS Day,        \* seconds in a day
          MaxTime,    \* bound on the clock
          MaxStay,    \* bound: seconds awake or asleep, less than a day
          MaxSet      \* bound: times the clock is set

VARIABLES
    awake,      \* in processorHandleWakeup(), between the two calls
    now,        \* time(NULL)
    sleepTime,  \* gStatistics.sleepTimePerDaySeconds
    wakeTime,   \* gStatistics.wakeTimePerDaySeconds
    gLastWakeUpTime,
    gLastSleepTime,
    gLastMeasurementTime, \* of a sensor that is always on
    timer,      \* gpProcessTimer, in what the processor uses in a second
    gSystemActiveEnergyAllocated,
    anchor,     \* history: the time the day's figures are counted from
    origin,     \* history: the time the sensor's cost is counted from
    charged,    \* history: the seconds charged to its measurements
    timesSet    \* history

vars == <<awake, now, sleepTime, wakeTime, gLastWakeUpTime, gLastSleepTime, gLastMeasurementTime,
          timer, gSystemActiveEnergyAllocated, anchor, origin, charged, timesSet>>

TypeOK ==
    /\ awake \in BOOLEAN
    /\ now \in 1 .. MaxTime
    /\ sleepTime \in Nat /\ wakeTime \in Nat /\ charged \in Nat
    /\ timer \in 0 .. MaxStay /\ timesSet \in 0 .. MaxSet
    /\ gSystemActiveEnergyAllocated \in 0 .. MaxStay
    /\ awake => gSystemActiveEnergyAllocated <= timer \* activeEnergyUsedNWH() does not wrap
    /\ gLastWakeUpTime <= now /\ gLastSleepTime <= now /\ gLastMeasurementTime <= now

SinceMidnight(t) == t % Day

\* statisticsInit() and processorInit(); main() waits a while before that.
Init ==
    /\ awake = FALSE /\ now = 1
    /\ sleepTime = 0 /\ wakeTime = 0
    /\ gLastWakeUpTime = 0 /\ gLastSleepTime = 0 /\ gLastMeasurementTime = 0
    /\ timer = 0 /\ gSystemActiveEnergyAllocated = 0
    /\ anchor = 0 /\ origin = 0 /\ charged = 0 /\ timesSet = 0

Stayed == now - (IF awake THEN gLastWakeUpTime ELSE gLastSleepTime)

Tick ==
    /\ now < MaxTime /\ Stayed < MaxStay
    /\ now' = now + 1
    /\ timer' = IF awake THEN timer + 1 ELSE timer
    /\ UNCHANGED <<awake, sleepTime, wakeTime, gLastWakeUpTime, gLastSleepTime, gLastMeasurementTime,
                   gSystemActiveEnergyAllocated, anchor, origin, charged, timesSet>>

StartTimer ==
    /\ timer' = 0
    /\ gSystemActiveEnergyAllocated' = 0

\* statisticsWakeUp(), in a wake-up that has energy.
WakeUp ==
    /\ ~awake /\ awake' = TRUE
    /\ StartTimer
    /\ gLastWakeUpTime' = now
    /\ IF gLastSleepTime <= 0
       THEN anchor' = now /\ UNCHANGED <<sleepTime, wakeTime>>
       ELSE IF SinceMidnight(now) < SinceMidnight(gLastSleepTime)
       THEN /\ sleepTime' = SinceMidnight(now) /\ wakeTime' = 0
            /\ anchor' = now - SinceMidnight(now)
       ELSE /\ sleepTime' = sleepTime + (now - gLastSleepTime)
            /\ UNCHANGED <<wakeTime, anchor>>
    /\ UNCHANGED <<now, gLastSleepTime, gLastMeasurementTime, origin, charged, timesSet>>

\* statisticsSleep()
Sleep ==
    /\ awake /\ awake' = FALSE
    /\ gLastSleepTime' = now
    /\ IF SinceMidnight(now) < SinceMidnight(gLastWakeUpTime)
       THEN /\ wakeTime' = SinceMidnight(now) /\ sleepTime' = 0
            /\ anchor' = now - SinceMidnight(now)
       ELSE /\ wakeTime' = wakeTime + (now - gLastWakeUpTime)
            /\ UNCHANGED <<sleepTime, anchor>>
    /\ UNCHANGED <<now, gLastWakeUpTime, gLastMeasurementTime, timer,
                   gSystemActiveEnergyAllocated, origin, charged, timesSet>>

\* Mutant: the clock is set before the statistics are told, which then find
\* no difference.
UpdateTimeFirst(new) ==
    LET diff == new - now
    IN /\ now' = new
       /\ UNCHANGED <<gLastWakeUpTime, gLastSleepTime>>
       /\ gLastMeasurementTime' = gLastMeasurementTime + diff
       /\ anchor' = anchor + diff /\ origin' = origin + diff

\* Mutant: the times of the last measurements stay.
UpdateTimeStatisticsOnly(new) ==
    LET diff == new - now
    IN /\ now' = new
       /\ gLastWakeUpTime' = gLastWakeUpTime + diff
       /\ gLastSleepTime' = gLastSleepTime + diff
       /\ gLastMeasurementTime' = gLastMeasurementTime
       /\ anchor' = anchor + diff /\ origin' = origin + diff

\* updateTime() and statisticsTimeUpdate()
UpdateTime(new) ==
    LET diff == new - now
    IN /\ now' = new
       /\ gLastWakeUpTime' = gLastWakeUpTime + diff
       /\ gLastSleepTime' = gLastSleepTime + diff
       /\ gLastMeasurementTime' = gLastMeasurementTime + diff
       /\ anchor' = anchor + diff /\ origin' = origin + diff

\* A wake-up may learn the time; the clock only ever starts too low or runs
\* a little off.
SetTime ==
    /\ awake
    /\ timesSet < MaxSet /\ timesSet' = timesSet + 1
    /\ \E new \in now - 1 .. MaxTime :
          gLastWakeUpTime + new - now > 0 /\ UpdateTime(new)
    /\ UNCHANGED <<awake, sleepTime, wakeTime, timer, gSystemActiveEnergyAllocated, charged>>

\* activeEnergyUsedNWH(): unsigned, 64 bits.
Pow64 == 65536 \* stands for 2^64
ActiveEnergyUsed == (timer - gSystemActiveEnergyAllocated + Pow64) % Pow64

\* doMeasureX(), once the reading is there: the time since the last one is
\* charged to the action, and some of the processor's energy.
Measure ==
    /\ awake
    /\ charged' = charged + (now - gLastMeasurementTime)
    /\ gLastMeasurementTime' = now
    /\ gSystemActiveEnergyAllocated' = ActiveEnergyUsed
    /\ UNCHANGED <<awake, now, sleepTime, wakeTime, gLastWakeUpTime, gLastSleepTime, timer, anchor, origin, timesSet>>

\* A reset: the clock starts again too.
Restart ==
    /\ awake' = FALSE /\ now' = 1
    /\ sleepTime' = 0 /\ wakeTime' = 0
    /\ gLastWakeUpTime' = 0 /\ gLastSleepTime' = 0 /\ gLastMeasurementTime' = 0
    /\ timer' = 0 /\ gSystemActiveEnergyAllocated' = 0
    /\ anchor' = 0 /\ origin' = 0 /\ charged' = 0 /\ timesSet' = 0

Next == Tick \/ WakeUp \/ Sleep \/ SetTime \/ Measure \/ Restart

Spec == Init /\ [][Next]_vars

-----------------------------------------------------------------------------
\* The day's figures account for every second: awake and asleep add up to
\* the time since midnight, or since counting began if that was today, up to
\* the last time one turned into the other, though the clock is set
\* meanwhile.
DayFigures ==
    gLastWakeUpTime > 0 =>
        sleepTime + wakeTime = (IF awake THEN gLastWakeUpTime ELSE gLastSleepTime) - anchor

\* The time a sensor is on is charged once, and all of it, though the clock
\* is set meanwhile: its measurements have been charged for the time up to
\* the last of them (gLastMeasurementTime, moved by updateTime()).  Nothing
\* of the kind is claimed of the processor's own energy.
ChargedOnce == charged = gLastMeasurementTime - origin
=============================================================================
