---------------------------- MODULE Board_proofs ----------------------------
(***************************************************************************)
(* What is proved of the parts of the board, for any number of devices,    *)
(* readings, seconds, levels and choices.                                  *)
(***************************************************************************)
EXTENDS Board, TLAPS, SequenceTheorems, WellFoundedInduction, FiniteSetTheorems

\* Each part goes its own way: a step of the board is a step of every part,
\* or leaves it as it is.
LEMMA PartSteps ==
    ASSUME [Next]_vars
    PROVE  /\ [S!Next]_sensors /\ [E!Next]_source /\ [A!Next]_accounts /\ [B!Next]_ble
           /\ [L!Next]_locks
BY DEF Next, Sensors, Source, Accounts, Ble, Locks, vars

-----------------------------------------------------------------------------
(* Accounts *)

\* The times are those of the clock, and the timer has run since the wake-up
\* (updateTime() moves both ends alike); asleep for the first time nothing has
\* been counted yet.
ClockInv ==
    /\ A!TypeOK
    /\ gLastWakeUpTime \in Int /\ gLastSleepTime \in Int /\ gLastMeasurementTime \in Int
    /\ anchor \in Int /\ origin \in Int
    /\ awake => gLastWakeUpTime > 0 /\ timer = now - gLastWakeUpTime
    /\ ~awake => \/ gLastSleepTime > 0 /\ gLastWakeUpTime > 0
                 \/ gLastSleepTime = 0 /\ gLastWakeUpTime = 0 /\ sleepTime = 0 /\ wakeTime = 0

\* The inductive invariant of the accounts.
AccountsInv == ClockInv /\ DayFigures /\ ChargedOnce

LEMMA NoWrap ==
    ASSUME NEW x \in Nat, NEW P \in Nat, x < P
    PROVE  (x + P) % P = x
OBVIOUS

LEMMA AccountsStep ==
    ASSUME AccountsInv, [A!Next]_accounts
    PROVE  AccountsInv'
<1> USE TimeAssumption
    DEF AccountsInv, ClockInv, DayFigures, ChargedOnce, A!DayFigures, A!ChargedOnce, A!TypeOK
<1>1. CASE UNCHANGED accounts
  BY <1>1 DEF accounts
<1>2. CASE A!Tick
  BY <1>2 DEF A!Tick, A!Stayed
<1>3. CASE A!WakeUp
  <2>1. A!SinceMidnight(now) \in Nat
    BY DEF A!SinceMidnight
  <2> QED
    BY <1>3, <2>1 DEF A!WakeUp, A!StartTimer
<1>4. CASE A!Sleep
  <2>1. A!SinceMidnight(now) \in Nat
    BY DEF A!SinceMidnight
  <2>2. sleepTime' \in Nat /\ wakeTime' \in Nat /\ anchor' \in Int
    BY <1>4, <2>1 DEF A!Sleep
  <2>3. /\ now' = now /\ timer' = timer /\ awake' = FALSE /\ gLastSleepTime' = now
        /\ UNCHANGED <<gLastWakeUpTime, gLastMeasurementTime, gSystemActiveEnergyAllocated>>
        /\ UNCHANGED <<origin, charged, timesSet>>
    BY <1>4 DEF A!Sleep
  <2>4a. A!TypeOK'
    <3>1. awake' \in BOOLEAN /\ now' \in 1 .. MaxTime
      BY <2>3
    <3>2. timer' \in 0 .. MaxStay /\ timesSet' \in 0 .. MaxSet
      BY <2>3
    <3>3. gSystemActiveEnergyAllocated' \in 0 .. MaxStay /\ charged' \in Nat
      BY <2>3
    <3>4. gLastWakeUpTime' <= now' /\ gLastSleepTime' <= now' /\ gLastMeasurementTime' <= now'
      BY <2>3
    <3> QED
      BY <2>2, <2>3, <3>1, <3>2, <3>3, <3>4
  <2>4b. /\ gLastWakeUpTime' \in Int /\ gLastSleepTime' \in Int /\ gLastMeasurementTime' \in Int
         /\ anchor' \in Int /\ origin' \in Int
    BY <2>2, <2>3
  <2>4c. gLastSleepTime' > 0 /\ gLastWakeUpTime' > 0
    BY <1>4, <2>3 DEF A!Sleep
  <2>4. ClockInv' /\ ChargedOnce'
    BY <2>3, <2>4a, <2>4b, <2>4c
  <2>5. DayFigures'
    BY <1>4, <2>1, <2>3 DEF A!Sleep
  <2> QED
    BY <2>4, <2>5
<1>5. CASE A!SetTime
  <2>1. PICK new \in now - 1 .. MaxTime : gLastWakeUpTime + new - now > 0 /\ A!UpdateTime(new)
    BY <1>5 DEF A!SetTime
  <2> QED
    BY <1>5, <2>1 DEF A!SetTime, A!UpdateTime
<1>6. CASE A!Measure
  <2>1. /\ A!Pow64 \in Nat /\ timer - gSystemActiveEnergyAllocated \in Nat
        /\ timer - gSystemActiveEnergyAllocated < A!Pow64
    BY <1>6 DEF A!Measure, A!Pow64
  <2>2. A!ActiveEnergyUsed = timer - gSystemActiveEnergyAllocated
    BY <2>1, NoWrap DEF A!ActiveEnergyUsed
  <2> QED
    BY <1>6, <2>1, <2>2 DEF A!Measure
<1>7. CASE A!Restart
  <2>1. /\ now' \in 1 .. MaxTime /\ timer' \in 0 .. MaxStay /\ timesSet' \in 0 .. MaxSet
        /\ gSystemActiveEnergyAllocated' \in 0 .. MaxStay
    BY <1>7 DEF A!Restart
  <2>2. sleepTime' \in Nat /\ wakeTime' \in Nat /\ charged' \in Nat /\ awake' \in BOOLEAN
    BY <1>7 DEF A!Restart
  <2>3. gLastWakeUpTime' <= now' /\ gLastSleepTime' <= now' /\ gLastMeasurementTime' <= now'
    BY <1>7 DEF A!Restart
  <2>4. A!TypeOK'
    BY <1>7, <2>1, <2>2, <2>3 DEF A!Restart
  <2> QED
    BY <1>7, <2>4 DEF A!Restart
<1> QED
  BY <1>1, <1>2, <1>3, <1>4, <1>5, <1>6, <1>7 DEF A!Next

LEMMA AccountsInvariant == Spec => []AccountsInv
<1>1. Init => AccountsInv
  <2> SUFFICES ASSUME A!Init PROVE AccountsInv
    BY DEF Init
  <2>1. /\ now \in 1 .. MaxTime /\ timer \in 0 .. MaxStay /\ timesSet \in 0 .. MaxSet
        /\ gSystemActiveEnergyAllocated \in 0 .. MaxStay
    BY TimeAssumption DEF A!Init
  <2>2. sleepTime \in Nat /\ wakeTime \in Nat /\ charged \in Nat /\ awake \in BOOLEAN
    BY DEF A!Init
  <2>3. gLastWakeUpTime <= now /\ gLastSleepTime <= now /\ gLastMeasurementTime <= now
    BY DEF A!Init
  <2>4. A!TypeOK
    BY <2>1, <2>2, <2>3 DEF A!Init, A!TypeOK
  <2>5. DayFigures /\ ChargedOnce
    BY DEF A!Init, DayFigures, ChargedOnce, A!DayFigures, A!ChargedOnce
  <2> QED
    BY <2>4, <2>5 DEF A!Init, AccountsInv, ClockInv
<1>2. AccountsInv /\ [Next]_vars => AccountsInv'
  BY PartSteps, AccountsStep
<1> QED
  BY <1>1, <1>2, PTL DEF Spec

\* Awake and asleep add up to the seconds of the day, wherever midnights fall
\* and however often the clock is set.
THEOREM DayIsCounted == Spec => []DayFigures
<1>1. AccountsInv => DayFigures
  BY DEF AccountsInv
<1> QED
  BY <1>1, AccountsInvariant, PTL

\* The time a sensor is on is charged to its measurements once and whole,
\* however often and far the clock is set between them (updateTime()).
THEOREM TimeIsChargedOnce == Spec => []ChargedOnce
<1>1. AccountsInv => ChargedOnce
  BY DEF AccountsInv
<1> QED
  BY <1>1, AccountsInvariant, PTL

-----------------------------------------------------------------------------
(* The energy source *)

\* In setEnergySource() nothing but the source being set is on once the
\* others are off; and before it the source in use is on.
SourceInv ==
    /\ at \in {"start", "off", "on", "asleep", "awake"}
    /\ pins \in [E!Sources -> BOOLEAN] /\ target \in E!Sources
    /\ \A r, s \in E!Sources : pins[r] /\ pins[s] => r = s
    /\ at = "on" => \A s \in E!Sources : pins[s] => s = target
    /\ at \in {"asleep", "awake"} => \E s \in E!Sources : pins[s]

\* The number that stands for the source is that of a source when one is on.
LEMMA SourceInUse ==
    ASSUME pins \in [E!Sources -> BOOLEAN], \E s \in E!Sources : pins[s],
           \A r, s \in E!Sources : pins[r] /\ pins[s] => r = s
    PROVE  E!GetEnergySource \in E!Sources
<1>1. PICK s \in E!Sources : pins[s]
  OBVIOUS
<1>2. \A r \in 1 .. s - 1 : ~pins[r]
  BY <1>1 DEF E!Sources
<1> QED
  BY <1>1, <1>2 DEF E!GetEnergySource

LEMMA ChoiceIsSource ==
    /\ \A wakeups : E!BestRecent(wakeups) \in E!Sources
    /\ \A vIn, count : E!GetEnergySource \in E!Sources => E!NextChoices(vIn, count) \subseteq E!Sources
<1>1. 1 \in E!Sources /\ 2 \in E!Sources /\ 3 \in E!Sources
  BY DEF E!Sources
<1>2. ASSUME NEW wakeups PROVE E!BestRecent(wakeups) \in E!Sources
  BY <1>1, SourceAssumption DEF E!BestRecent
<1>3. ASSUME NEW vIn, E!GetEnergySource \in E!Sources PROVE E!Highest(vIn) \in E!Sources
  BY <1>1, <1>3 DEF E!Highest
<1>4. E!GetEnergySource \in E!Sources => (E!GetEnergySource % 3) + 1 \in E!Sources
  BY DEF E!Sources
<1> QED
  BY <1>2, <1>3, <1>4 DEF E!NextChoices

LEMMA SourceStep ==
    ASSUME SourceInv, [E!Next]_source
    PROVE  SourceInv'
<1> USE DEF SourceInv
<1>1. CASE UNCHANGED source
  BY <1>1 DEF source
<1>2. CASE E!Start \/ E!Restart
  BY <1>2, SourceAssumption DEF E!Start, E!Restart, E!Begin
<1>3. CASE E!SwitchOff
  BY <1>3 DEF E!SwitchOff
<1>4. CASE E!SwitchOn
  BY <1>4 DEF E!SwitchOn
<1>5. CASE E!WakeUp
  BY <1>5 DEF E!WakeUp
<1>6. CASE E!NotEnoughEnergy
  BY <1>6, ChoiceIsSource DEF E!NotEnoughEnergy
<1>7. CASE E!ChooseNext
  <2>1. E!GetEnergySource \in E!Sources
    BY <1>7, SourceInUse DEF E!ChooseNext
  <2>2. target' \in E!Sources
    BY <1>7, <2>1, ChoiceIsSource DEF E!ChooseNext
  <2> QED
    BY <1>7, <2>2 DEF E!ChooseNext
<1> QED
  BY <1>1, <1>2, <1>3, <1>4, <1>5, <1>6, <1>7 DEF E!Next

\* The types of the choices and of the counts.
ChoicesTyped ==
    /\ gEnergyChoice \in [1 .. HistoryLength -> E!Choice]
    /\ past \in Seq(E!Choice) /\ Len(past) <= HistoryLength
CountsTyped ==
    /\ gVIn \in [E!Sources -> Levels \cup {0}] /\ gVInCount \in 0 .. 3
    /\ gNumWakeups \in 0 .. HistoryLength /\ gNumEnergeticWakeups \in 0 .. RandomEvery - 1

LEMMA SourceTypes == E!TypeOK <=> /\ at \in {"start", "off", "on", "asleep", "awake"}
                                  /\ pins \in [E!Sources -> BOOLEAN] /\ target \in E!Sources
                                  /\ ChoicesTyped /\ CountsTyped
BY DEF E!TypeOK, ChoicesTyped, CountsTyped

\* What was chosen goes in front of the history, which stays as long as it is.
LEMMA ChoicesKept ==
    ASSUME ChoicesTyped, NEW s \in E!Sources, NEW good \in BOOLEAN
    PROVE  /\ E!Chosen(s) \in E!Choice
           /\ [gEnergyChoice EXCEPT ![1] = E!Chosen(s)] \in [1 .. HistoryLength -> E!Choice]
           /\ [gEnergyChoice EXCEPT ![1].good = @ \/ good] \in [1 .. HistoryLength -> E!Choice]
           /\ [past EXCEPT ![1].good = @ \/ good] \in Seq(E!Choice)
           /\ Len([past EXCEPT ![1].good = @ \/ good]) = Len(past)
           /\ \A h \in [1 .. HistoryLength -> E!Choice] : E!Aged(h) \in [1 .. HistoryLength -> E!Choice]
           /\ \A n \in 0 .. HistoryLength : n <= Len(past) + 1 =>
                 /\ SubSeq(<<E!Chosen(s)>> \o past, 1, n) \in Seq(E!Choice)
                 /\ Len(SubSeq(<<E!Chosen(s)>> \o past, 1, n)) = n
<1>1. E!Chosen(s) \in E!Choice
  BY DEF E!Chosen, E!Choice
<1>2. 1 \in 1 .. HistoryLength /\ HistoryLength \in Nat
  BY SourceAssumption
<1>3. [gEnergyChoice EXCEPT ![1] = E!Chosen(s)] \in [1 .. HistoryLength -> E!Choice]
  BY <1>1 DEF ChoicesTyped
<1>4. \A c \in E!Choice : [c EXCEPT !.good = c.good \/ good] \in E!Choice
  BY DEF E!Choice
<1>5. [gEnergyChoice EXCEPT ![1].good = @ \/ good] \in [1 .. HistoryLength -> E!Choice]
  BY <1>2, <1>4 DEF ChoicesTyped
<1>6. /\ [past EXCEPT ![1].good = @ \/ good] \in Seq(E!Choice)
      /\ Len([past EXCEPT ![1].good = @ \/ good]) = Len(past)
  <2>1. PICK n \in Nat : n = Len(past) /\ past \in [1 .. n -> E!Choice]
    BY DEF ChoicesTyped
  <2>2. PICK f : f = [past EXCEPT ![1].good = @ \/ good]
    OBVIOUS
  <2>3. f \in [1 .. n -> E!Choice]
    <3>1. \A i \in 1 .. n : f[i] \in E!Choice
      BY <1>4, <2>1, <2>2
    <3> QED
      BY <2>1, <2>2, <3>1
  <2>4. f \in Seq(E!Choice) /\ Len(f) = n
    BY <2>3
  <2> QED
    BY <2>1, <2>2, <2>4, Zenon
<1>7. \A h \in [1 .. HistoryLength -> E!Choice] : E!Aged(h) \in [1 .. HistoryLength -> E!Choice]
  BY <1>2 DEF E!Aged
<1>8. ASSUME NEW n \in 0 .. HistoryLength, n <= Len(past) + 1
      PROVE  /\ SubSeq(<<E!Chosen(s)>> \o past, 1, n) \in Seq(E!Choice)
             /\ Len(SubSeq(<<E!Chosen(s)>> \o past, 1, n)) = n
  <2>1. PICK q \in Seq(E!Choice) : q = <<E!Chosen(s)>> \o past /\ Len(q) = Len(past) + 1
    <3>1. PICK c \in E!Choice : c = E!Chosen(s)
      BY <1>1
    <3>2. past \in Seq(E!Choice)
      BY DEF ChoicesTyped
    <3>3. <<c>> \o past \in Seq(E!Choice) /\ Len(<<c>> \o past) = Len(past) + 1
      BY <3>2
    <3> QED
      BY <3>1, <3>3
  <2>2. Len(past) \in Nat
    BY DEF ChoicesTyped
  <2>3. \A i \in 1 .. n : q[i] \in E!Choice
    BY <1>8, <2>1, <2>2
  <2>4. SubSeq(q, 1, n) \in Seq(E!Choice) /\ Len(SubSeq(q, 1, n)) = n
    BY <1>2, <2>3, SubSeqProperties
  <2> QED
    BY <2>1, <2>4
<1> QED
  BY <1>1, <1>3, <1>5, <1>6, <1>7, <1>8

\* Every action keeps the types of the choices.
LEMMA SourceTypesStep ==
    ASSUME SourceInv, E!TypeOK, [E!Next]_source
    PROVE  E!TypeOK'
<1>1. (/\ at \in {"start", "off", "on", "asleep", "awake"}
       /\ pins \in [E!Sources -> BOOLEAN] /\ target \in E!Sources)'
  BY SourceStep DEF SourceInv
<1>2. SUFFICES ChoicesTyped' /\ CountsTyped'
  BY <1>1 DEF E!TypeOK, ChoicesTyped, CountsTyped
<1>3. ChoicesTyped /\ CountsTyped /\ target \in E!Sources
  BY SourceTypes
<1>4. HistoryLength \in Nat /\ HistoryLength >= 1 /\ RandomEvery \in Nat /\ RandomEvery >= 1
  BY SourceAssumption
<1>5. E!CountWakeUp \in 0 .. HistoryLength
  BY <1>3, <1>4 DEF CountsTyped, E!CountWakeUp
<1>6. CASE UNCHANGED source
  BY <1>3, <1>6 DEF source, ChoicesTyped, CountsTyped
<1>7. CASE E!Start \/ E!Restart
  <2>1. E!Chosen(DefaultSource) \in E!Choice /\ E!Unset \in E!Choice
    BY SourceAssumption DEF E!Chosen, E!Unset, E!Choice
  <2>2. <<>> \in Seq(E!Choice) /\ Len(<<>>) = 0
    OBVIOUS
  <2>2a. /\ gEnergyChoice' = [i \in 1 .. HistoryLength |-> IF i = 1 THEN E!Chosen(DefaultSource) ELSE E!Unset]
         /\ past' = <<>>
    BY <1>7 DEF E!Start, E!Restart, E!Begin
  <2>2b. gEnergyChoice' \in [1 .. HistoryLength -> E!Choice]
    BY <2>1, <2>2a
  <2>3. ChoicesTyped'
    BY <1>4, <2>2, <2>2a, <2>2b DEF ChoicesTyped
  <2>4. CountsTyped'
    BY <1>4, <1>7 DEF E!Start, E!Restart, E!Begin, CountsTyped
  <2> QED
    BY <2>3, <2>4
<1>8. CASE E!SwitchOff
  BY <1>3, <1>8 DEF E!SwitchOff, ChoicesTyped, CountsTyped
<1>9. CASE E!SwitchOn
  <2>1. PICK n \in 0 .. HistoryLength :
          /\ n <= Len(past) + 1 /\ n = (IF Len(past) < HistoryLength THEN Len(past) + 1 ELSE HistoryLength)
    <3>1. Len(past) \in Nat
      BY <1>3 DEF ChoicesTyped
    <3> QED
      BY <1>3, <1>4, <3>1 DEF ChoicesTyped
  <2>2. /\ past' = SubSeq(<<E!Chosen(target)>> \o past, 1, n)
        /\ gEnergyChoice' = [gEnergyChoice EXCEPT ![1] = E!Chosen(target)]
        /\ UNCHANGED <<gVIn, gVInCount, gNumWakeups, gNumEnergeticWakeups>>
    BY <1>9, <2>1 DEF E!SwitchOn
  <2>2a. [gEnergyChoice EXCEPT ![1] = E!Chosen(target)] \in [1 .. HistoryLength -> E!Choice]
    BY <1>3, ChoicesKept
  <2>2b. past' \in Seq(E!Choice) /\ Len(past') = n
    BY <1>3, <2>1, <2>2, ChoicesKept
  <2>3. ChoicesTyped'
    BY <2>1, <2>2, <2>2a, <2>2b DEF ChoicesTyped
  <2> QED
    BY <1>3, <2>2, <2>3 DEF CountsTyped
<1>10. CASE E!WakeUp
  <2>1. (gNumEnergeticWakeups + 1) % RandomEvery \in 0 .. RandomEvery - 1
    BY <1>3, <1>4 DEF CountsTyped
  <2> QED
    BY <1>3, <1>5, <1>10, <2>1 DEF E!WakeUp, ChoicesTyped, CountsTyped
<1>11. CASE E!NotEnoughEnergy
  <2>1. gEnergyChoice' \in [1 .. HistoryLength -> E!Choice]
    BY <1>3, <1>11, ChoicesKept DEF E!NotEnoughEnergy, ChoicesTyped
  <2> QED
    BY <1>3, <1>5, <1>11, <2>1 DEF E!NotEnoughEnergy, ChoicesTyped, CountsTyped
<1>12. CASE E!ChooseNext
  <2>1. PICK level \in Levels, good \in BOOLEAN :
          /\ gVIn' = [gVIn EXCEPT ![E!GetEnergySource] = level]
          /\ gVInCount' = IF gVInCount < 3 THEN gVInCount + 1 ELSE 3
          /\ gEnergyChoice' = E!Aged([gEnergyChoice EXCEPT ![1].good = @ \/ good])
          /\ past' = [past EXCEPT ![1].good = @ \/ good]
    BY <1>12 DEF E!ChooseNext
  <2>2. UNCHANGED <<gNumWakeups, gNumEnergeticWakeups>>
    BY <1>12 DEF E!ChooseNext
  <2>3. ChoicesTyped'
    BY <1>3, <2>1, ChoicesKept DEF ChoicesTyped
  <2>4. gVIn' \in [E!Sources -> Levels \cup {0}]
    BY <1>3, <2>1 DEF CountsTyped
  <2>5. gVInCount' \in 0 .. 3
    BY <1>3, <2>1 DEF CountsTyped
  <2> QED
    BY <1>3, <2>2, <2>3, <2>4, <2>5 DEF CountsTyped
<1> QED
  BY <1>6, <1>7, <1>8, <1>9, <1>10, <1>11, <1>12 DEF E!Next

LEMMA SourceInvariant == Spec => [](SourceInv /\ E!TypeOK)
<1>1. Init => SourceInv /\ E!TypeOK
  <2> SUFFICES ASSUME E!Init PROVE SourceInv /\ E!TypeOK
    BY DEF Init
  <2>1. SourceInv
    BY SourceAssumption DEF E!Init, SourceInv
  <2>2. E!Unset \in E!Choice
    BY DEF E!Unset, E!Choice
  <2>3. ChoicesTyped /\ CountsTyped
    BY <2>2, SourceAssumption DEF E!Init, ChoicesTyped, CountsTyped
  <2> QED
    BY <2>1, <2>3, SourceTypes DEF SourceInv
<1>2. SourceInv /\ E!TypeOK /\ [Next]_vars => (SourceInv /\ E!TypeOK)'
  BY PartSteps, SourceStep, SourceTypesStep
<1> QED
  BY <1>1, <1>2, PTL DEF Spec

\* Whatever the levels measured and whenever the program is reset, two
\* sources are never on at once, and a wake-up finds one on.
THEOREM SourceAlone == Spec => []OneSourceOn
<1>1. SourceInv => OneSourceOn
  BY SourceInUse DEF SourceInv, OneSourceOn, E!OneSourceOn
<1> QED
  BY <1>1, SourceInvariant, PTL

-----------------------------------------------------------------------------
(* The interrupts of the sensors *)

QueueInv ==
    /\ flag \in [S!Watching -> BOOLEAN] /\ queued \in 0 .. QueueSize
    /\ leaked \in 0 .. QueueSize
    /\ phase = "asleep" => \A s \in S!Watching : flag[s] => queued > 0 \/ leaked = QueueSize

LEMMA QueueStep ==
    ASSUME QueueInv, [S!Next]_sensors
    PROVE  QueueInv'
<1> USE QueueAssumption DEF QueueInv
<1>1. CASE UNCHANGED sensors
  BY <1>1 DEF sensors
<1>2. CASE S!Post
  BY <1>2 DEF S!Post, S!PostSensor, S!FlagAfterInit
<1>3. CASE S!PostDone
  BY <1>3 DEF S!PostDone
<1>4. CASE S!Restart
  BY <1>4 DEF S!Restart, S!StartOver
<1>5. CASE S!WakeUp
  BY <1>5 DEF S!WakeUp, S!CallHandler
<1>6. CASE S!NotEnoughEnergy
  BY <1>6 DEF S!NotEnoughEnergy, S!CallHandler
<1>7. CASE S!HandlerBusy
  BY <1>7 DEF S!HandlerBusy
<1>8. CASE S!Report
  BY <1>8 DEF S!Report
<1>9. CASE S!TidyUp
  BY <1>9 DEF S!TidyUp
<1>10. CASE S!ClearFlags
  BY <1>10 DEF S!ClearFlags
<1>11. CASE S!ChipMeasures
  BY <1>11 DEF S!ChipMeasures
<1>12. ASSUME NEW s \in S!Devices, S!Measure(s) PROVE QueueInv'
  BY <1>12 DEF S!Measure, S!FlagAfterInit
<1>13. ASSUME NEW s \in S!Watching, S!Interrupt(s) PROVE QueueInv'
  BY <1>13 DEF S!Interrupt
<1>14. CASE S!BleRuns
  BY <1>14 DEF S!BleRuns
<1> QED
  BY <1>1, <1>2, <1>3, <1>4, <1>5, <1>6, <1>7, <1>8, <1>9, <1>10, <1>11, <1>12, <1>13, <1>14 DEF S!Next

LEMMA QueueInvariant == Spec => []QueueInv
<1>1. Init => QueueInv
  BY QueueAssumption DEF Init, S!Init, QueueInv
<1>2. QueueInv /\ [Next]_vars => QueueInv'
  BY PartSteps, QueueStep
<1> QED
  BY <1>1, <1>2, PTL DEF Spec

\* A sensor that has used up its interrupt while the program sleeps has a
\* wake-up in the queue, though the queue may be full when it calls, as long
\* as there is any room beside what Bluetooth actions have left there.
THEOREM InterruptsCount == Spec => []InterruptsRearmed
<1>1. QueueInv => InterruptsRearmed
  BY DEF QueueInv, InterruptsRearmed, S!InterruptsRearmed
<1> QED
  BY <1>1, QueueInvariant, PTL

-----------------------------------------------------------------------------
(* What the drivers of the sensors do, whatever transfers fail *)
\* The outcomes that are OK with the device in P, or not OK with it in Q.
Out(P, Q) == {o \in [ok : BOOLEAN, dev : P \cup Q] : o.dev \in IF o.ok THEN P ELSE Q}

\* Ok() and Error() of a device are such outcomes.
LEMMA OkOut ==
    ASSUME NEW P, NEW Q, NEW d
    PROVE  /\ d \in P => S!Ok(d) \subseteq Out(P, Q)
           /\ d \in Q => S!Error(d) \subseteq Out(P, Q)
BY DEF S!Ok, S!Error, Out

\* A transfer goes well, or it fails and that is recorded.
LEMMA TransferOut ==
    ASSUME NEW P, NEW Q, NEW d, NEW e \in P, [d EXCEPT !.faulty = TRUE] \in Q
    PROVE  S!Transfer(d, e) \subseteq Out(P, Q)
BY OkOut DEF S!Transfer

\* One that changes nothing in the device.
LEMMA ReadOut ==
    ASSUME NEW P, NEW Q, NEW d \in P, [d EXCEPT !.faulty = TRUE] \in Q
    PROVE  S!Read(d) \subseteq Out(P, Q)
BY TransferOut DEF S!Read

\* What is in less is in more.
LEMMA WiderOut ==
    ASSUME NEW P, NEW Q, NEW P2, NEW Q2, P \subseteq P2, Q \subseteq Q2
    PROVE  Out(P, Q) \subseteq Out(P2, Q2)
BY DEF Out

-----------------------------------------------------------------------------
(* The Hall sensor *)
HallDev == [init : BOOLEAN, range : S!Range, raw : S!Range \cup {NULL, "mixed"}, attached : BOOLEAN,
            mode : {"idle", "timed", "off"}, comp : S!Range \cup {"mixed"},
            data : S!Range \cup {NULL, "mixed"}, code : S!Range \cup {NULL, "mixed"},
            fitted : BOOLEAN, bus : BOOLEAN, faulty : BOOLEAN]
HallOn(b) == {d \in HallDev : d.bus = b}
HallFaulty(b) == {d \in HallOn(b) : d.faulty}

\* A failed transfer is recorded in the device, which is else as it was.
LEMMA HallFails == ASSUME NEW b, NEW d \in HallOn(b) PROVE [d EXCEPT !.faulty = TRUE] \in HallFaulty(b)
BY DEF HallOn, HallFaulty, HallDev

HallSteady(b, r, v) == {d \in HallOn(b) : d.init /\ d.range = r /\ d.comp = r /\ d.raw = v}

\* wakeUp().
LEMMA HallWakes ==
    ASSUME NEW P, NEW Q, NEW d, [d EXCEPT !.mode = "idle"] \in P, [d EXCEPT !.faulty = TRUE] \in Q
    PROVE  S!WakeChip(d) \subseteq Out(P, Q)
BY TransferOut DEF S!WakeChip

\* sleep().
LEMMA HallSleeps ==
    ASSUME NEW P, NEW Q, NEW d, NEW on \in BOOLEAN,
           [d EXCEPT !.mode = IF on THEN "timed" ELSE "off"] \in P, [d EXCEPT !.faulty = TRUE] \in Q
    PROVE  S!Sleep(d, on) \subseteq Out(P, Q)
<1> DEFINE Put(e) == S!Transfer(e, [e EXCEPT !.mode = IF on THEN "timed" ELSE "off"])
<1>1. S!Read(d) \subseteq Out({d}, Q)
  BY ReadOut
<1>2. Put(d) \subseteq Out(P, Q)
  BY TransferOut
<1>3. S!Sleep(d, on) = UNION {IF o.ok THEN Put(o.dev) ELSE {o} : o \in S!Read(d)}
  BY DEF S!Sleep, S!Then
<1> HIDE DEF Put
<1> QED
  BY <1>1, <1>2, <1>3 DEF Out

\* copyCompensationParameters(): all six are those of the range, or a transfer has failed.
LEMMA HallCopies ==
    ASSUME NEW b, NEW P, NEW d \in HallOn(b), NEW r \in S!Range, [d EXCEPT !.comp = r] \in P
    PROVE  S!CopyCompensation(d, r) \subseteq Out(P, HallFaulty(b))
<1> DEFINE Done(e) == S!Ok([e EXCEPT !.comp = r])
           Half == [d EXCEPT !.faulty = TRUE, !.comp = IF @ = r THEN r ELSE "mixed"]
<1>1. S!Read(d) \subseteq Out({d}, HallFaulty(b))
  BY HallFails, ReadOut
<1>2. Half \in HallFaulty(b)
  BY DEF HallOn, HallFaulty, HallDev
<1>3. Done(d) \subseteq Out(P, HallFaulty(b)) /\ S!Error(Half) \subseteq Out({d}, HallFaulty(b))
  BY <1>2, OkOut
<1>4. S!CopyCompensation(d, r) = UNION {IF o.ok THEN Done(o.dev) ELSE {o} : o \in S!Read(d) \cup S!Error(Half)}
  BY DEF S!CopyCompensation, S!Then
<1> HIDE DEF Done, Half
<1> QED
  BY <1>1, <1>3, <1>4 DEF Out

\* _setInterrupt(): the threshold is coded for the range the driver believes in.
LEMMA HallCodes ==
    ASSUME NEW b, NEW P, NEW d \in HallOn(b), [d EXCEPT !.code = d.range] \in P
    PROVE  S!CodeInterrupt(d) \subseteq Out(P, HallFaulty(b))
<1> DEFINE Put(e) == S!Transfer(e, [e EXCEPT !.code = e.range])
           half == [d EXCEPT !.code = "mixed"]
<1>1. half \in HallOn(b)
  BY DEF HallOn, HallDev
<1>2. S!Transfer(d, half) \subseteq Out({half}, HallFaulty(b))
  BY HallFails, TransferOut
<1>3. [half EXCEPT !.code = half.range] = [d EXCEPT !.code = d.range]
  BY DEF HallOn, HallDev
<1>4. Put(half) \subseteq Out(P, HallFaulty(b))
  BY <1>1, <1>3, HallFails, TransferOut
<1>5. S!CodeInterrupt(d) = UNION {IF o.ok THEN Put(o.dev) ELSE {o} : o \in S!Transfer(d, half)}
  BY DEF S!CodeInterrupt, S!Then
<1> HIDE DEF Put, half
<1> QED
  BY <1>2, <1>4, <1>5 DEF Out

\* _getInterrupt() changes nothing.
LEMMA HallGets ==
    ASSUME NEW b, NEW d \in HallOn(b)
    PROVE  S!GetInterrupt(d) \subseteq Out({d}, HallFaulty(b))
<1>1. S!Read(d) \subseteq Out({d}, HallFaulty(b))
  BY HallFails, ReadOut
<1>2. S!GetInterrupt(d) = UNION {IF o.ok THEN S!Read(o.dev) ELSE {o} : o \in S!Read(d)}
  BY DEF S!GetInterrupt, S!Then
<1> QED
  BY <1>1, <1>2 DEF Out

\* si7210Init() leaves the chip timed and set up for the small range, or a transfer has failed.
HallTimed(b, r, v) == {d \in HallSteady(b, r, v) : d.mode = "timed"}
LEMMA HallSetUp ==
    ASSUME NEW b, NEW v, NEW d \in HallOn(b), ~d.init, d.raw = v
    PROVE  S!HallInit(d) \subseteq Out(HallTimed(b, "20", v), HallFaulty(b))
<1> DEFINE F == HallFaulty(b)
           Done(g) == S!Ok([g EXCEPT !.init = TRUE])
           Timed(f) == UNION {IF o.ok THEN Done(o.dev) ELSE {o} : o \in S!SleepTimed(f)}
           Ready(e) == UNION {IF o.ok THEN Timed(o.dev) ELSE {o} :
                              o \in S!CopyCompensation([e EXCEPT !.range = "20"], "20")}
           Identify(e) == UNION {IF o.ok THEN Ready(o.dev) ELSE {o} : o \in S!Read(e)}
           Woken == UNION {IF o.ok THEN Identify(o.dev) ELSE {o} : o \in S!WakeChip(d)}
           Off(e) == {[ok |-> FALSE, dev |-> p.dev] : p \in S!SleepOff(e)}
           V == {e \in HallOn(b) : e.raw = v}
           W == {e \in V : e.comp = "20" /\ e.range = "20"}
           C == {e \in W : e.mode = "timed"}
           Z == HallTimed(b, "20", v)
<1> SUFFICES S!HallInit(d) \subseteq Out(Z, F)
  OBVIOUS
<1>1. ASSUME NEW g \in C PROVE Done(g) \subseteq Out(Z, F)
  <2>1. [g EXCEPT !.init = TRUE] \in Z
    BY DEF HallOn, HallDev, HallTimed, HallSteady
  <2> QED
    BY <2>1, OkOut
<1>2. ASSUME NEW f \in W PROVE Timed(f) \subseteq Out(Z, F)
  <2>1. [f EXCEPT !.mode = "timed"] \in C
    BY DEF HallOn, HallDev
  <2>2. S!SleepTimed(f) \subseteq Out(C, F)
    BY <2>1, HallFails, HallSleeps DEF S!SleepTimed
  <2> HIDE DEF C, Z, F, Done
  <2> QED
    BY <2>2, <1>1 DEF Out
<1>3. ASSUME NEW e \in V PROVE Ready(e) \subseteq Out(Z, F)
  <2> DEFINE x == [e EXCEPT !.range = "20"]
  <2>1. "20" \in S!Range
    BY DEF S!Range
  <2>2. x \in HallOn(b) /\ [x EXCEPT !.comp = "20"] \in W
    BY <2>1 DEF HallOn, HallDev
  <2>3. S!CopyCompensation(x, "20") \subseteq Out(W, F)
    BY <2>1, <2>2, HallCopies
  <2> HIDE DEF W, Z, F, Timed
  <2> QED
    BY <2>3, <1>2 DEF Out
<1>4. ASSUME NEW e \in V PROVE Identify(e) \subseteq Out(Z, F)
  <2>1. S!Read(e) \subseteq Out(V, F)
    BY HallFails, ReadOut
  <2> HIDE DEF V, Z, F, Ready
  <2> QED
    BY <2>1, <1>3 DEF Out
<1>5. Woken \subseteq Out(Z, F)
  <2>1. [d EXCEPT !.mode = "idle"] \in V
    BY DEF HallOn, HallDev
  <2>2. S!WakeChip(d) \subseteq Out(V, F)
    BY <2>1, HallFails, HallWakes
  <2> HIDE DEF V, Z, F, Identify
  <2> QED
    BY <2>2, <1>4 DEF Out
<1>6. S!HallInit(d) = UNION {IF o.ok THEN {o} ELSE Off(o.dev) : o \in Woken}
  BY DEF S!HallInit, S!Then, S!Rescue
<1>7. ASSUME NEW e \in F PROVE Off(e) \subseteq Out(Z, F)
  <2>1. e \in HallOn(b) /\ [e EXCEPT !.mode = "off"] \in F
    BY DEF HallOn, HallDev, HallFaulty
  <2>2. S!SleepOff(e) \subseteq Out(F, F)
    BY <2>1, HallFails, HallSleeps DEF S!SleepOff
  <2>3. \A f \in F : [ok |-> FALSE, dev |-> f] \in Out(Z, F)
    BY DEF Out
  <2> HIDE DEF Z, F
  <2> QED
    BY <2>2, <2>3 DEF Out
<1> HIDE DEF Z, F, Woken, Off
<1> QED
  BY <1>5, <1>6, <1>7 DEF Out

\* What follows whatever the answer was, and does not look at its own.
HallQuiet(b, r, v) == {d \in HallSteady(b, r, v) : d.faulty \/ d.mode # "idle"}

LEMMA HallToSleep ==
    ASSUME NEW X, NEW P, NEW Q, NEW P2, NEW Q2, X \subseteq Out(P, Q),
           \A d \in P : [d EXCEPT !.mode = "timed"] \in P2 /\ [d EXCEPT !.faulty = TRUE] \in P2,
           \A d \in Q : [d EXCEPT !.mode = "timed"] \in Q2 /\ [d EXCEPT !.faulty = TRUE] \in Q2
    PROVE  S!Finally(X, S!SleepTimed) \subseteq Out(P2, Q2)
<1> DEFINE After(o) == {[ok |-> o.ok, dev |-> p.dev] : p \in S!SleepTimed(o.dev)}
<1>1. ASSUME NEW R, NEW R2, NEW d \in R,
             \A e \in R : [e EXCEPT !.mode = "timed"] \in R2 /\ [e EXCEPT !.faulty = TRUE] \in R2
      PROVE  \A p \in S!SleepTimed(d) : p.dev \in R2
  <2>1. S!SleepTimed(d) \subseteq Out(R2, R2)
    BY <1>1, HallSleeps DEF S!SleepTimed
  <2> QED
    BY <2>1 DEF Out
<1>2. ASSUME NEW o \in Out(P, Q) PROVE After(o) \subseteq Out(P2, Q2)
  <2>1. o.ok => \A p \in S!SleepTimed(o.dev) : p.dev \in P2
    BY <1>1 DEF Out
  <2>2. ~o.ok => \A p \in S!SleepTimed(o.dev) : p.dev \in Q2
    BY <1>1 DEF Out
  <2>3. o.ok \in BOOLEAN
    BY DEF Out
  <2> QED
    BY <2>1, <2>2, <2>3 DEF Out
<1>3. S!Finally(X, S!SleepTimed) = UNION {After(o) : o \in X}
  BY DEF S!Finally
<1> HIDE DEF After
<1> QED
  BY <1>2, <1>3

\* si7210SetRange() and si7210SetInterrupt() ...
LEMMA HallRanges ==
    ASSUME NEW b, NEW q, NEW v, NEW r \in S!Range, NEW d \in HallQuiet(b, q, v)
    PROVE  S!HallSetRange(d, r) \subseteq Out(HallQuiet(b, r, v), HallFaulty(b))
<1> DEFINE F == HallFaulty(b)
           Coded(e) == UNION {IF o.ok THEN S!CodeInterrupt(o.dev) ELSE {o} : o \in S!CopyCompensation(e, r)}
           Change(e) == IF r = d.range THEN S!Ok(e)
                        ELSE UNION {IF o.ok THEN Coded(o.dev) ELSE {o} : o \in S!GetInterrupt(e)}
           Do(e) == S!Finally(Change(e), S!SleepTimed)
           Set(e) == S!Ok([e EXCEPT !.range = r])
           Done == UNION {IF o.ok THEN Do(o.dev) ELSE {o} : o \in S!WakeChip(d)}
           V == HallSteady(b, q, v)
           W == {e \in HallOn(b) : e.init /\ e.comp = r /\ e.range = q /\ e.raw = v}
           C == {e \in W : e.faulty \/ e.mode # "idle"}
           Z == HallQuiet(b, r, v)
<1>1. ASSUME NEW e \in C PROVE Set(e) \subseteq Out(Z, F)
  <2>1. [e EXCEPT !.range = r] \in Z
    BY DEF HallOn, HallDev, HallQuiet, HallSteady
  <2> QED
    BY <2>1, OkOut
<1>2. ASSUME NEW e \in W PROVE S!CodeInterrupt(e) \subseteq Out(W, F)
  <2>1. [e EXCEPT !.code = e.range] \in W
    BY DEF HallOn, HallDev
  <2> QED
    BY <2>1, HallCodes
<1>3. ASSUME NEW e \in V PROVE Coded(e) \subseteq Out(W, F)
  <2>1. e \in HallOn(b) /\ [e EXCEPT !.comp = r] \in W
    BY DEF HallOn, HallDev, HallSteady
  <2>2. S!CopyCompensation(e, r) \subseteq Out(W, F)
    BY <2>1, HallCopies
  <2> HIDE DEF W, F
  <2> QED
    BY <2>2, <1>2 DEF Out
<1>4. ASSUME NEW e \in V PROVE Change(e) \subseteq Out(W, F)
  <2>1. CASE r = d.range
    <3>1. e \in W
      BY <2>1 DEF HallSteady, HallQuiet
    <3> QED
      BY <2>1, <3>1, OkOut
  <2>2. CASE r # d.range
    <3>1. S!GetInterrupt(e) \subseteq Out({e}, F)
      BY HallGets DEF HallSteady
    <3> HIDE DEF V, W, F, Coded
    <3> QED
      BY <2>2, <3>1, <1>3 DEF Out
  <2> QED
    BY <2>1, <2>2
<1>5. ASSUME NEW e \in V PROVE Do(e) \subseteq Out(C, F)
  <2>1. \A f \in W : [f EXCEPT !.mode = "timed"] \in C /\ [f EXCEPT !.faulty = TRUE] \in C
    BY DEF HallOn, HallDev
  <2>2. \A f \in F : [f EXCEPT !.mode = "timed"] \in F /\ [f EXCEPT !.faulty = TRUE] \in F
    BY DEF HallFaulty, HallOn, HallDev
  <2> HIDE DEF W, C, F, Change
  <2> QED
    BY <1>4, <2>1, <2>2, HallToSleep
<1>6. Done \subseteq Out(C, F)
  <2>1. [d EXCEPT !.mode = "idle"] \in V /\ [d EXCEPT !.faulty = TRUE] \in F
    BY DEF HallQuiet, HallSteady, HallOn, HallDev, HallFaulty
  <2>2. S!WakeChip(d) \subseteq Out(V, F)
    BY <2>1, HallWakes
  <2> HIDE DEF V, C, F, Do
  <2> QED
    BY <2>2, <1>5 DEF Out
<1>7. S!HallSetRange(d, r) = UNION {IF o.ok THEN Set(o.dev) ELSE {o} : o \in Done}
  <2>1. d.init
    BY DEF HallQuiet, HallSteady
  <2> QED
    BY <2>1 DEF S!HallSetRange, S!Then
<1> SUFFICES S!HallSetRange(d, r) \subseteq Out(Z, F)
  OBVIOUS
<1> HIDE DEF C, Z, F, Done, Set
<1> QED
  BY <1>1, <1>6, <1>7 DEF Out

\* The interrupt is set in the range there is.
LEMMA HallAttaches ==
    ASSUME NEW b, NEW r, NEW v, NEW d \in HallQuiet(b, r, v)
    PROVE  S!HallSetInterrupt(d) \subseteq Out(HallQuiet(b, r, v), HallFaulty(b))
<1> DEFINE F == HallFaulty(b)
           V == HallSteady(b, r, v)
           Z == HallQuiet(b, r, v)
           Attach(f) == S!Ok([f EXCEPT !.attached = TRUE])
           Do(e) == UNION {IF o.ok THEN Attach(o.dev) ELSE {o} : o \in S!CodeInterrupt(e)}
           Done == UNION {IF o.ok THEN Do(o.dev) ELSE {o} : o \in S!WakeChip(d)}
<1>1. ASSUME NEW f \in V PROVE Attach(f) \subseteq Out(V, F)
  <2>1. [f EXCEPT !.attached = TRUE] \in V
    BY DEF HallSteady, HallOn, HallDev
  <2> QED
    BY <2>1, OkOut
<1>2. ASSUME NEW e \in V PROVE Do(e) \subseteq Out(V, F)
  <2>1. e \in HallOn(b) /\ [e EXCEPT !.code = e.range] \in V
    BY DEF HallSteady, HallOn, HallDev
  <2>2. S!CodeInterrupt(e) \subseteq Out(V, F)
    BY <2>1, HallCodes
  <2> HIDE DEF V, F, Attach
  <2> QED
    BY <1>1, <2>2 DEF Out
<1>3. Done \subseteq Out(V, F)
  <2>1. [d EXCEPT !.mode = "idle"] \in V /\ [d EXCEPT !.faulty = TRUE] \in F
    BY DEF HallQuiet, HallSteady, HallOn, HallDev, HallFaulty
  <2>2. S!WakeChip(d) \subseteq Out(V, F)
    BY <2>1, HallWakes
  <2> HIDE DEF V, F, Do
  <2> QED
    BY <2>2, <1>2 DEF Out
<1>4. S!HallSetInterrupt(d) = S!Finally(Done, S!SleepTimed)
  <2>1. d.init
    BY DEF HallQuiet, HallSteady
  <2> QED
    BY <2>1 DEF S!HallSetInterrupt, S!Then
<1>5. \A e \in V : [e EXCEPT !.mode = "timed"] \in Z /\ [e EXCEPT !.faulty = TRUE] \in Z
  BY DEF HallQuiet, HallSteady, HallOn, HallDev
<1>6. \A e \in F : [e EXCEPT !.mode = "timed"] \in F /\ [e EXCEPT !.faulty = TRUE] \in F
  BY DEF HallFaulty, HallOn, HallDev
<1> SUFFICES S!HallSetInterrupt(d) \subseteq Out(Z, F)
  OBVIOUS
<1> HIDE DEF V, F, Z, Done
<1> QED
  BY <1>3, <1>4, <1>5, <1>6, HallToSleep

\* ... and so post() leaves the Hall sensor reading in the range it was given.
LEMMA HallPosted ==
    ASSUME NEW b, NEW d \in HallOn(b), ~d.init, HallRange \in S!Range
    PROVE  S!PostOf("hall", d) \subseteq Out(HallQuiet(b, HallRange, d.raw), HallFaulty(b))
<1> DEFINE F == HallFaulty(b)
           T == HallTimed(b, "20", d.raw)
           V == HallQuiet(b, "20", d.raw)
           Z == HallQuiet(b, HallRange, d.raw)
           Ranged == UNION {IF o.ok THEN S!HallSetRange(o.dev, HallRange) ELSE {o} : o \in S!HallInit(d)}
<1>1. S!HallInit(d) \subseteq Out(T, F)
  BY HallSetUp
<1>2. ASSUME NEW e \in T PROVE S!HallSetRange(e, HallRange) \subseteq Out(Z, F)
  <2>1. e \in V
    BY DEF HallTimed, HallQuiet
  <2> QED
    BY <2>1, HallRanges
<1>3. \A e \in Z : S!HallSetInterrupt(e) \subseteq Out(Z, F)
  BY HallAttaches
<1>4. S!PostOf("hall", d) = UNION {IF o.ok THEN S!HallSetInterrupt(o.dev) ELSE {o} : o \in Ranged}
  BY DEF S!PostOf, S!Then
<1> SUFFICES S!PostOf("hall", d) \subseteq Out(Z, F)
  OBVIOUS
<1> HIDE DEF T, F, Z
<1>5. Ranged \subseteq Out(Z, F)
  BY <1>1, <1>2 DEF Out
<1> HIDE DEF Ranged
<1> QED
  BY <1>3, <1>4, <1>5 DEF Out

\* getFieldStrength(), of a chip set up in one range: it stays so, whatever fails.
HallRight(b) == {d \in HallOn(b) : /\ d.init /\ d.comp = d.range /\ d.raw \in {NULL, d.range}
                                   /\ d.faulty \/ d.mode # "idle"}
LEMMA HallMeasured ==
    ASSUME NEW b, NEW d \in HallRight(b), d.data \in {NULL, d.comp}
    PROVE  S!ReadingOf("hall", d) \subseteq Out(HallRight(b), HallRight(b))
<1> DEFINE Z == HallRight(b)
           R == {e \in HallOn(b) : e.init /\ e.comp = e.range /\ e.raw \in {NULL, e.range}}
           V == {e \in R : e.data \in {NULL, e.comp}}
           Take(e) == IF e.data = NULL THEN S!Ok(e)
                      ELSE S!Transfer(e, [e EXCEPT !.raw = e.data, !.data = NULL])
           Taken(e) == UNION {IF o.ok THEN Take(o.dev) ELSE {o} : o \in S!Read(e)}
           Do(e) == S!Finally(Taken(e), S!SleepTimed)
<1>1. ASSUME NEW e \in V PROVE Take(e) \subseteq Out(R, R)
  <2>1. [e EXCEPT !.faulty = TRUE] \in R
    BY DEF HallOn, HallDev
  <2>2. CASE e.data = NULL
    BY <2>2, OkOut
  <2>3. CASE e.data # NULL
    <3>1. [e EXCEPT !.raw = e.data, !.data = NULL] \in R
      BY <2>3 DEF HallOn, HallDev
    <3> QED
      BY <2>1, <2>3, <3>1, TransferOut
  <2> QED
    BY <2>2, <2>3
<1>2. ASSUME NEW e \in V PROVE Taken(e) \subseteq Out(R, R)
  <2>1. [e EXCEPT !.faulty = TRUE] \in R
    BY DEF HallOn, HallDev
  <2>2. S!Read(e) \subseteq Out(V, R)
    BY <2>1, ReadOut
  <2> HIDE DEF V, R, Take
  <2> QED
    BY <1>1, <2>2 DEF Out
<1>3. ASSUME NEW e \in V PROVE Do(e) \subseteq Out(Z, Z)
  <2>1. \A f \in R : [f EXCEPT !.mode = "timed"] \in Z /\ [f EXCEPT !.faulty = TRUE] \in Z
    BY DEF HallRight, HallOn, HallDev
  <2> HIDE DEF V, R, Z, Taken
  <2> QED
    BY <1>2, <2>1, HallToSleep
<1>4. S!ReadingOf("hall", d) = UNION {IF o.ok THEN S!FieldStrength(o.dev) ELSE {o} : o \in S!Ok(d)}
  BY DEF S!ReadingOf, S!Then, S!HallInit, HallRight
<1>5. S!FieldStrength(d) = UNION {IF o.ok THEN Do(o.dev) ELSE {o} : o \in S!WakeChip(d)}
  BY DEF S!FieldStrength, S!Then, HallRight
<1>6. S!FieldStrength(d) \subseteq Out(Z, Z)
  <2>1. [d EXCEPT !.mode = "idle"] \in V /\ [d EXCEPT !.faulty = TRUE] \in Z
    BY DEF HallRight, HallOn, HallDev
  <2>2. S!WakeChip(d) \subseteq Out(V, Z)
    BY <2>1, HallWakes
  <2> HIDE DEF V, Z, Do
  <2> QED
    BY <1>3, <1>5, <2>2 DEF Out
<1>7. S!ReadingOf("hall", d) = S!FieldStrength(d)
  BY <1>4 DEF S!Ok
<1> QED
  BY <1>6, <1>7

-----------------------------------------------------------------------------
(* The accelerometer *)
AccelSetting == [1 .. 2 -> {"reset", "asked"}]
AccelDev == [init : BOOLEAN, sens : 0 .. 3, attached : BOOLEAN, mode : {"down", "low"}, scale : 0 .. 3,
             threshold : AccelSetting, duration : AccelSetting, enabled : [1 .. 2 -> BOOLEAN],
             fitted : BOOLEAN, bus : BOOLEAN, faulty : BOOLEAN]
AccelOn(b) == {d \in AccelDev : d.bus = b}
AccelSetUp(b) == {d \in AccelOn(b) : d.init}
AccelRight(b) == {d \in AccelSetUp(b) : d.sens = d.scale}

\* A failed transfer leaves the accelerometer scaled as it was.
LEMMA AccelFails ==
    ASSUME NEW b, NEW d \in AccelOn(b)
    PROVE  /\ [d EXCEPT !.faulty = TRUE] \in AccelOn(b)
           /\ d \in AccelRight(b) => [d EXCEPT !.faulty = TRUE] \in AccelRight(b)
BY DEF AccelOn, AccelDev, AccelRight, AccelSetUp

\* lis3dhInit() sets the driver up, or fails.
LEMMA AccelStarts ==
    ASSUME NEW b, NEW d \in AccelOn(b)
    PROVE  S!AccelInit(d) \subseteq Out(AccelSetUp(b), AccelOn(b))
<1> DEFINE V == AccelOn(b)
           Z == AccelSetUp(b)
           Run(e) == S!Transfer(e, [e EXCEPT !.mode = "low", !.init = TRUE])
           x == [d EXCEPT !.attached = FALSE]
           Known == UNION {IF o.ok THEN S!Read(o.dev) ELSE {o} : o \in S!Read(x)}
<1>1. CASE d.init
  BY <1>1, OkOut DEF S!AccelInit, AccelSetUp
<1>2. CASE ~d.init
  <2>1. \A e \in V : S!Read(e) \subseteq Out(V, V)
    BY AccelFails, ReadOut
  <2>2. x \in V
    BY DEF AccelOn, AccelDev
  <2>3. ASSUME NEW e \in V PROVE Run(e) \subseteq Out(Z, V)
    <3>1. [e EXCEPT !.mode = "low", !.init = TRUE] \in Z
      BY DEF AccelSetUp, AccelOn, AccelDev
    <3> QED
      BY <3>1, AccelFails, TransferOut
  <2>4. S!AccelInit(d) = UNION {IF o.ok THEN Run(o.dev) ELSE {o} : o \in Known}
    BY <1>2 DEF S!AccelInit, S!Then
  <2> SUFFICES S!AccelInit(d) \subseteq Out(Z, V)
    OBVIOUS
  <2> HIDE DEF V, Z, Run, x
  <2>5. Known \subseteq Out(V, V)
    BY <2>1, <2>2 DEF Out
  <2> HIDE DEF Known
  <2> QED
    BY <2>3, <2>4, <2>5 DEF Out
<1> QED
  BY <1>1, <1>2

\* _setInterruptThreshold() leaves the scale alone.
LEMMA AccelThreshold ==
    ASSUME NEW b, NEW d \in AccelRight(b), NEW i \in 1 .. 2, NEW t, NEW u \in {"reset", "asked"}
    PROVE  S!SetThreshold(d, i, t, u) \subseteq Out(AccelRight(b), AccelOn(b))
<1>1. [d EXCEPT !.duration[i] = u] \in AccelRight(b)
  BY DEF AccelRight, AccelSetUp, AccelOn, AccelDev, AccelSetting
<1> QED
  BY <1>1, AccelFails, TransferOut DEF S!SetThreshold, AccelRight, AccelSetUp

\* lis3dhSetSensitivity() gives the driver and the chip the same scale when all of it has gone well.
LEMMA AccelScaledRight ==
    ASSUME NEW b, NEW d \in AccelSetUp(b), NEW s
    PROVE  S!AccelSetSensitivity(d, s) \subseteq Out(AccelRight(b), AccelOn(b))
<1> DEFINE V == AccelOn(b)
           Y == AccelSetUp(b)
           Z == AccelRight(b)
           Put(e) == S!Transfer(e, [e EXCEPT !.scale = s, !.sens = s])
           First(e) == S!SetThreshold(e, 1, d.threshold[1], d.duration[1])
           Second(e) == S!SetThreshold(e, 2, d.threshold[2], d.duration[2])
           Restore(e) == UNION {IF o.ok THEN Second(o.dev) ELSE {o} : o \in First(e)}
           Get(e) == UNION {IF o.ok THEN S!Read(o.dev) ELSE {o} : o \in S!Read(e)}
           Got2 == UNION {IF o.ok THEN Get(o.dev) ELSE {o} : o \in Get(d)}
           Got3 == UNION {IF o.ok THEN S!Read(o.dev) ELSE {o} : o \in Got2}
           Written == UNION {IF o.ok THEN Put(o.dev) ELSE {o} : o \in Got3}
<1>1. CASE s \notin 0 .. 3
  BY <1>1, OkOut DEF S!AccelSetSensitivity, AccelSetUp
<1>2. CASE s \in 0 .. 3
  <2>1. \A e \in Y : S!Read(e) \subseteq Out(Y, V)
    BY AccelFails, ReadOut DEF AccelSetUp
  <2>2. ASSUME NEW e \in Y PROVE Put(e) \subseteq Out(Z, V)
    <3>1. [e EXCEPT !.scale = s, !.sens = s] \in Z
      BY <1>2 DEF AccelRight, AccelSetUp, AccelOn, AccelDev
    <3> QED
      BY <3>1, AccelFails, TransferOut DEF AccelSetUp
  <2>3. ASSUME NEW e \in Z PROVE First(e) \subseteq Out(Z, V) /\ Second(e) \subseteq Out(Z, V)
    <3>1. d.duration[1] \in {"reset", "asked"} /\ d.duration[2] \in {"reset", "asked"}
      BY DEF AccelSetUp, AccelOn, AccelDev, AccelSetting
    <3> QED
      BY <3>1, AccelThreshold
  <2>4. S!AccelSetSensitivity(d, s) = UNION {IF o.ok THEN Restore(o.dev) ELSE {o} : o \in Written}
    BY <1>2 DEF S!AccelSetSensitivity, S!Then, S!GetThreshold, AccelSetUp
  <2> SUFFICES S!AccelSetSensitivity(d, s) \subseteq Out(Z, V)
    OBVIOUS
  <2> HIDE DEF V, Y, Z, Put, First, Second
  <2>5. \A e \in Y : Get(e) \subseteq Out(Y, V)
    BY <2>1 DEF Out
  <2>6. Get(d) \subseteq Out(Y, V)
    BY <2>5 DEF Y
  <2> HIDE DEF Get
  <2>7. Got2 \subseteq Out(Y, V)
    BY <2>5, <2>6 DEF Out
  <2> HIDE DEF Got2
  <2>8. Got3 \subseteq Out(Y, V)
    BY <2>1, <2>7 DEF Out
  <2> HIDE DEF Got3
  <2>9. Written \subseteq Out(Z, V)
    BY <2>2, <2>8 DEF Out
  <2>10. \A e \in Z : Restore(e) \subseteq Out(Z, V)
    BY <2>3 DEF Out
  <2> HIDE DEF Written, Restore
  <2> QED
    BY <2>4, <2>9, <2>10 DEF Out
<1> QED
  BY <1>1, <1>2

\* lis3dhSetInterruptEnable() leaves the scale alone.
LEMMA AccelEnables ==
    ASSUME NEW b, NEW d \in AccelRight(b), NEW i \in 1 .. 2
    PROVE  S!AccelSetEnable(d, i, TRUE) \subseteq Out(AccelRight(b), AccelOn(b))
<1> DEFINE V == AccelOn(b)
           Z == AccelRight(b)
           Then1(e) == UNION {IF o.ok THEN S!Read(o.dev) ELSE {o} : o \in S!Read(e)}
           Route(e) == UNION {IF o.ok THEN S!Read(o.dev) ELSE {o} : o \in Then1(e)}
           Enable(e) == S!Transfer(e, [e EXCEPT !.enabled[i] = TRUE, !.attached = TRUE])
           Routed == UNION {IF o.ok THEN Route(o.dev) ELSE {o} : o \in S!Read(d)}
           Twice == UNION {IF o.ok THEN Route(o.dev) ELSE {o} : o \in Routed}
<1>1. \A e \in Z : S!Read(e) \subseteq Out(Z, V)
  BY AccelFails, ReadOut DEF AccelSetUp, AccelRight
<1>2. ASSUME NEW e \in Z PROVE Enable(e) \subseteq Out(Z, V)
  <2>1. [e EXCEPT !.enabled[i] = TRUE, !.attached = TRUE] \in Z
    BY DEF AccelRight, AccelSetUp, AccelOn, AccelDev
  <2> QED
    BY <2>1, AccelFails, TransferOut DEF AccelRight, AccelSetUp
<1>3. S!AccelSetEnable(d, i, TRUE) = UNION {IF o.ok THEN Enable(o.dev) ELSE {o} : o \in Twice}
  BY DEF S!AccelSetEnable, S!Then, AccelRight, AccelSetUp
<1>4. d \in Z
  OBVIOUS
<1> SUFFICES S!AccelSetEnable(d, i, TRUE) \subseteq Out(Z, V)
  OBVIOUS
<1> HIDE DEF V, Z, Enable
<1>5. \A e \in Z : Then1(e) \subseteq Out(Z, V)
  BY <1>1 DEF Out
<1> HIDE DEF Then1
<1>6. \A e \in Z : Route(e) \subseteq Out(Z, V)
  BY <1>1, <1>5 DEF Out
<1> HIDE DEF Route
<1>7. Routed \subseteq Out(Z, V)
  BY <1>1, <1>4, <1>6 DEF Out
<1> HIDE DEF Routed
<1>8. Twice \subseteq Out(Z, V)
  BY <1>6, <1>7 DEF Out
<1> HIDE DEF Twice
<1> QED
  BY <1>2, <1>3, <1>8 DEF Out

\* So post() leaves the accelerometer with one scale, in the driver and in the chip.
LEMMA AccelPosted ==
    ASSUME NEW b, NEW d \in AccelOn(b)
    PROVE  S!PostOf("accel", d) \subseteq Out(AccelRight(b), AccelOn(b))
<1> DEFINE V == AccelOn(b)
           Y == AccelSetUp(b)
           Z == AccelRight(b)
           Ask(e) == S!AccelSetThreshold(e, 1, "asked", "asked")
           Enable(e) == S!AccelSetEnable(e, 1, TRUE)
           Scale(e) == S!AccelSetSensitivity(e, AccelScale)
           Watch(e) == UNION {IF o.ok THEN Enable(o.dev) ELSE {o} : o \in Ask(e)}
           Scaled == UNION {IF o.ok THEN Scale(o.dev) ELSE {o} : o \in S!AccelInit(d)}
<1>1. S!AccelInit(d) \subseteq Out(Y, V)
  BY AccelStarts
<1>2. \A e \in Y : Scale(e) \subseteq Out(Z, V)
  BY AccelScaledRight
<1>3. \A e \in Z : Ask(e) \subseteq Out(Z, V)
  BY AccelThreshold DEF S!AccelSetThreshold, AccelRight, AccelSetUp
<1>4. ASSUME NEW e \in Z PROVE Enable(e) \subseteq Out(Z, V)
  <2>1. 1 \in 1 .. 2
    OBVIOUS
  <2> QED
    BY <2>1, AccelEnables
<1>5. S!PostOf("accel", d) = UNION {IF o.ok THEN Watch(o.dev) ELSE {o} : o \in Scaled}
  BY DEF S!PostOf, S!Then
<1> SUFFICES S!PostOf("accel", d) \subseteq Out(Z, V)
  OBVIOUS
<1> HIDE DEF V, Y, Z, Ask, Enable, Scale
<1>6. Scaled \subseteq Out(Z, V)
  BY <1>1, <1>2 DEF Out
<1>7. \A e \in Z : Watch(e) \subseteq Out(Z, V)
  BY <1>3, <1>4 DEF Out
<1> HIDE DEF Scaled, Watch
<1> QED
  BY <1>5, <1>6, <1>7 DEF Out

\* getAcceleration() leaves it so, whatever fails.
LEMMA AccelMeasured ==
    ASSUME NEW b, NEW d \in AccelRight(b)
    PROVE  S!ReadingOf("accel", d) \subseteq Out(AccelRight(b), AccelRight(b))
<1>1. S!ReadingOf("accel", d) = UNION {IF o.ok THEN S!Acceleration(o.dev) ELSE {o} : o \in S!Ok(d)}
  BY DEF S!ReadingOf, S!Then, S!AccelInit, AccelRight, AccelSetUp
<1>2. S!Acceleration(d) \subseteq Out(AccelRight(b), AccelRight(b))
  BY AccelFails, ReadOut DEF S!Acceleration, AccelRight, AccelSetUp
<1>3. S!Ok(d) \subseteq Out({d}, {})
  BY OkOut
<1> QED
  BY <1>1, <1>2, <1>3 DEF Out

-----------------------------------------------------------------------------
(* The light sensor *)
LightDev == [init : BOOLEAN, params : {"reset", "set", "shut"}, measuring : BOOLEAN,
             irq : {"none", "this", "old"}, took : {NULL, "this", "old"},
             fitted : BOOLEAN, bus : BOOLEAN, faulty : BOOLEAN]
LightOn(b) == {d \in LightDev : d.bus = b}
LightUp(b) == {d \in LightOn(b) : d.init}
LightQuiet(b) == {d \in LightOn(b) : ~d.init /\ (d.faulty \/ d.params # "set")}
LightFaulty(b) == {d \in LightOn(b) : ~d.init /\ d.faulty}
LightReady(b) == {d \in LightUp(b) : d.irq = "none"}
LightTaken(b) == {d \in LightUp(b) : d.took = "this"}

\* A failed transfer is recorded, the driver's state is as it was.
LEMMA LightFails ==
    ASSUME NEW b, NEW d \in LightOn(b)
    PROVE  /\ [d EXCEPT !.faulty = TRUE] \in LightOn(b)
           /\ [d EXCEPT !.faulty = TRUE].init = d.init
           /\ [d EXCEPT !.faulty = TRUE].faulty
BY DEF LightOn, LightDev

\* A command or a parameter is written, or a transfer has failed before or after that.
LEMMA LightWrites ==
    ASSUME NEW P, NEW Q, NEW d, NEW e \in P,
           [d EXCEPT !.faulty = TRUE] \in Q, [e EXCEPT !.faulty = TRUE] \in Q
    PROVE  /\ S!SendCommand(d, e) \subseteq Out(P, Q)
           /\ \A p : e = [d EXCEPT !.params = p] => S!SetParameter(d, p) \subseteq Out(P, Q)
<1> DEFINE Sent == UNION {IF o.ok THEN S!Transfer(o.dev, e) ELSE {o} : o \in S!Read(d)}
<1>1. /\ S!Read(d) \subseteq Out({d}, Q) /\ S!Read(e) \subseteq Out(P, Q)
      /\ S!Transfer(d, e) \subseteq Out({e}, Q)
  <2>1. S!Read(d) \subseteq Out({d}, Q) /\ S!Read(e) \subseteq Out(P, Q)
    BY ReadOut
  <2>2. S!Transfer(d, e) \subseteq Out({e}, Q)
    BY TransferOut
  <2> QED
    BY <2>1, <2>2
<1>2. Sent \subseteq Out({e}, Q)
  BY <1>1 DEF Out
<1>3. S!SendCommand(d, e) = UNION {IF o.ok THEN S!Read(o.dev) ELSE {o} : o \in Sent}
  BY DEF S!SendCommand, S!Then
<1>4. ASSUME NEW p, e = [d EXCEPT !.params = p] PROVE S!SetParameter(d, p) \subseteq Out(P, Q)
  <2> DEFINE Put(f) == S!Transfer(f, [f EXCEPT !.params = p])
             Done == UNION {IF o.ok THEN Put(o.dev) ELSE {o} : o \in S!Read(d)}
  <2>1. Put(d) \subseteq Out({e}, Q)
    BY <1>1, <1>4
  <2>2. S!SetParameter(d, p) = UNION {IF o.ok THEN S!Read(o.dev) ELSE {o} : o \in Done}
    BY DEF S!SetParameter, S!Then
  <2> HIDE DEF Put
  <2>3. Done \subseteq Out({e}, Q)
    <3>1. ASSUME NEW o \in S!Read(d), o.ok PROVE Put(o.dev) \subseteq Out({e}, Q)
      <4>1. o.dev = d
        BY <1>1, <3>1 DEF Out
      <4> QED
        BY <2>1, <4>1
    <3>2. ASSUME NEW o \in S!Read(d), ~o.ok PROVE o \in Out({e}, Q)
      BY <1>1, <3>2 DEF Out
    <3> QED
      BY <3>1, <3>2
  <2> HIDE DEF Done
  <2> QED
    BY <1>1, <2>2, <2>3 DEF Out
<1> HIDE DEF Sent
<1>5. S!SendCommand(d, e) \subseteq Out(P, Q)
  BY <1>1, <1>2, <1>3 DEF Out
<1> QED
  BY <1>4, <1>5

\* si1133Init() leaves no interrupt status in the chip, or a transfer has failed.
LEMMA LightStarts ==
    ASSUME NEW b, NEW d \in LightOn(b), ~d.init
    PROVE  S!LightInit(d) \subseteq Out(LightReady(b), LightFaulty(b))
<1> DEFINE F == LightFaulty(b)
           Z == LightReady(b)
           V == {e \in LightOn(b) : ~e.init /\ e.irq = "none"}
           x == [d EXCEPT !.params = "reset", !.measuring = FALSE, !.irq = "none"]
           Enable(e) == S!Transfer(e, [e EXCEPT !.init = TRUE])
           Program(e) == S!SetParameter(e, "set")
           Programmed == UNION {IF o.ok THEN Program(o.dev) ELSE {o} : o \in S!Transfer(d, x)}
<1>1. \A e \in LightOn(b) : ~e.init => [e EXCEPT !.faulty = TRUE] \in F
  BY DEF LightOn, LightDev, LightFaulty
<1>2. x \in V
  BY DEF LightOn, LightDev
<1>3. S!Transfer(d, x) \subseteq Out(V, F)
  BY <1>1, <1>2, TransferOut
<1>4. ASSUME NEW e \in V PROVE Program(e) \subseteq Out(V, F)
  <2>1. [e EXCEPT !.params = "set"] \in V
    BY DEF LightOn, LightDev
  <2>2. [e EXCEPT !.faulty = TRUE] \in F /\ [[e EXCEPT !.params = "set"] EXCEPT !.faulty = TRUE] \in F
    BY <1>1, <2>1
  <2> HIDE DEF V, F
  <2> QED
    BY <2>1, <2>2, LightWrites
<1>5. ASSUME NEW e \in V PROVE Enable(e) \subseteq Out(Z, F)
  <2>1. [e EXCEPT !.init = TRUE] \in Z
    BY DEF LightReady, LightUp, LightOn, LightDev
  <2> QED
    BY <1>1, <2>1, TransferOut
<1>6. S!LightInit(d) = UNION {IF o.ok THEN Enable(o.dev) ELSE {o} : o \in Programmed}
  BY DEF S!LightInit, S!Then
<1> SUFFICES S!LightInit(d) \subseteq Out(Z, F)
  OBVIOUS
<1> HIDE DEF V, F, Z, Enable, Program, x
<1>7. Programmed \subseteq Out(V, F)
  BY <1>3, <1>4 DEF Out
<1> HIDE DEF Programmed
<1> QED
  BY <1>5, <1>6, <1>7 DEF Out

\* si1133Deinit() puts the chip back, or a transfer has failed.
LightShut(b, t) == {d \in LightQuiet(b) : d.took = t}
LEMMA LightStops ==
    ASSUME NEW b, NEW d \in LightUp(b) \cup LightFaulty(b)
    PROVE  \A o \in S!LightDeinit(d) : o.dev \in LightShut(b, d.took)
<1> DEFINE F == {e \in LightOn(b) : e.took = d.took /\ e.faulty}
           V == {e \in LightOn(b) : e.took = d.took /\ e.params = "shut"}
           Q == F \cup V
           x == [d EXCEPT !.params = "shut"]
           Pause(e) == S!SendCommand(e, e)
           After(o) == {[ok |-> o.ok, dev |-> p.dev] : p \in Pause(o.dev)}
           Done == UNION {After(o) : o \in S!SetParameter(d, "shut")}
<1>1. CASE ~d.init
  <2>1. d \in LightShut(b, d.took)
    BY <1>1 DEF LightUp, LightFaulty, LightShut, LightQuiet
  <2> QED
    BY <1>1, <2>1 DEF S!LightDeinit, S!Ok
<1>2. CASE d.init
  <2>1. d \in LightOn(b)
    BY DEF LightUp, LightFaulty
  <2>2. \A e \in LightOn(b) : [e EXCEPT !.faulty = TRUE].took = e.took
    BY DEF LightOn, LightDev
  <2>3. x \in V
    BY <2>1 DEF LightOn, LightDev
  <2>4. S!SetParameter(d, "shut") \subseteq Out(V, F)
    <3>1. [d EXCEPT !.faulty = TRUE] \in F /\ [x EXCEPT !.faulty = TRUE] \in F
      BY <2>1, <2>2, <2>3, LightFails
    <3> HIDE DEF V, F
    <3> QED
      BY <2>3, <3>1, LightWrites
  <2>5. ASSUME NEW e \in Q PROVE Pause(e) \subseteq Out(Q, Q)
    <3>1. [e EXCEPT !.faulty = TRUE] \in Q
      BY <2>2, LightFails
    <3> HIDE DEF Q
    <3> QED
      BY <3>1, LightWrites
  <2>6. S!LightDeinit(d) = {[ok |-> TRUE, dev |-> [o.dev EXCEPT !.init = FALSE]] : o \in Done}
    BY <1>2 DEF S!LightDeinit, S!Finally
  <2>7. \A e \in Q : [e EXCEPT !.init = FALSE] \in LightShut(b, d.took)
    BY DEF LightShut, LightQuiet, LightOn, LightDev
  <2>8. V \subseteq Q /\ F \subseteq Q
    OBVIOUS
  <2> HIDE DEF V, F, Q, Pause
  <2>9. \A o \in Done : o.dev \in Q
    BY <2>4, <2>5, <2>8 DEF Out
  <2> HIDE DEF Done
  <2> QED
    BY <2>6, <2>7, <2>9
<1> QED
  BY <1>1, <1>2

\* getLight() answers OK by the status of the measurement it has asked for.
LEMMA LightReads ==
    ASSUME NEW b, NEW d \in LightReady(b)
    PROVE  S!Light(d) \subseteq Out(LightTaken(b), LightUp(b))
<1> DEFINE U == LightUp(b)
           Z == LightTaken(b)
           x == [d EXCEPT !.measuring = TRUE, !.irq = IF @ = "none" THEN @ ELSE "old"]
           InTime(e) == IF e.irq # "none" THEN {e} ELSE {e, [e EXCEPT !.measuring = FALSE, !.irq = "this"]}
           Take(e) == S!Transfer(e, [e EXCEPT !.took = e.irq, !.irq = "none"])
           Results(e) == UNION {IF o.ok THEN S!ReadResults(o.dev) ELSE {o} : o \in Take(e)}
           Poll(e) == IF e.irq = "none" THEN S!Error(e) ELSE Results(e)
           Polled(e) == UNION {Poll(f) : f \in InTime(e)}
           V == {e \in U : e.irq = "none"}
           W == {e \in U : e.irq \in {"none", "this"}}
<1>1. \A e \in U : [e EXCEPT !.faulty = TRUE] \in U
  BY LightFails DEF LightUp
<1>2. x \in V
  BY DEF LightReady, LightUp, LightOn, LightDev
<1>3. S!SendCommand(d, x) \subseteq Out(V, U)
  <2>1. [d EXCEPT !.faulty = TRUE] \in U /\ [x EXCEPT !.faulty = TRUE] \in U
    BY <1>1, <1>2 DEF LightReady
  <2> HIDE DEF V, U, x
  <2> QED
    BY <1>2, <2>1, LightWrites
<1>4. \A e \in V : InTime(e) \subseteq W
  BY DEF LightUp, LightOn, LightDev
<1>5. ASSUME NEW e \in W, e.irq = "this" PROVE Results(e) \subseteq Out(Z, U)
  <2>1. [e EXCEPT !.took = e.irq, !.irq = "none"] \in Z
    BY <1>5 DEF LightTaken, LightUp, LightOn, LightDev
  <2>2. Take(e) \subseteq Out(Z, U)
    BY <1>1, <2>1, TransferOut
  <2>3. \A f \in Z : S!ReadResults(f) \subseteq Out(Z, U)
    BY <1>1, ReadOut DEF S!ReadResults, LightTaken
  <2> HIDE DEF Z, U, Take
  <2> QED
    BY <2>2, <2>3 DEF Out
<1>6. ASSUME NEW e \in W PROVE Poll(e) \subseteq Out(Z, U)
  <2>1. e.irq = "none" => S!Error(e) \subseteq Out(Z, U)
    BY OkOut
  <2> HIDE DEF Z, U, Results
  <2> QED
    BY <1>5, <2>1
<1>7. S!Light(d) = UNION {IF o.ok THEN Polled(o.dev) ELSE {o} : o \in S!SendCommand(d, x)}
  BY DEF S!Light, S!Then, LightReady, LightUp
<1> SUFFICES S!Light(d) \subseteq Out(Z, U)
  OBVIOUS
<1> HIDE DEF V, W, U, Z, x, InTime, Poll
<1>8. \A e \in V : Polled(e) \subseteq Out(Z, U)
  BY <1>4, <1>6
<1> HIDE DEF Polled
<1> QED
  BY <1>3, <1>7, <1>8 DEF Out

\* Between two calls the chip is shut or a transfer has failed.
LEMMA LightCalled ==
    ASSUME NEW b, NEW X, NEW P, P \subseteq LightUp(b), X \subseteq Out(P, LightUp(b) \cup LightFaulty(b))
    PROVE  \A o \in S!Finally(X, S!LightDeinit) :
              /\ o.ok \in BOOLEAN /\ o.dev \in LightQuiet(b)
              /\ o.ok => \E d \in P : o.dev.took = d.took
<1> DEFINE After(o) == {[ok |-> o.ok, dev |-> p.dev] : p \in S!LightDeinit(o.dev)}
<1>1. ASSUME NEW q \in X, NEW o \in After(q)
      PROVE  /\ o.ok \in BOOLEAN /\ o.dev \in LightQuiet(b)
             /\ o.ok => \E d \in P : o.dev.took = d.took
  <2>1. PICK p \in S!LightDeinit(q.dev) : o = [ok |-> q.ok, dev |-> p.dev]
    OBVIOUS
  <2>2. /\ q.ok \in BOOLEAN /\ (q.ok => q.dev \in P)
        /\ q.dev \in LightUp(b) \cup LightFaulty(b)
    BY DEF Out
  <2>3. p.dev \in LightQuiet(b) /\ p.dev.took = q.dev.took
    BY <2>2, LightStops DEF LightShut
  <2>4. o.ok = q.ok /\ o.dev = p.dev
    BY <2>1
  <2> QED
    BY <2>2, <2>3, <2>4
<1>2. S!Finally(X, S!LightDeinit) = UNION {After(o) : o \in X}
  BY DEF S!Finally
<1> HIDE DEF After
<1> QED
  BY <1>1, <1>2

\* So it is after post(), ...
LEMMA LightPosted ==
    ASSUME NEW b, NEW d \in LightQuiet(b)
    PROVE  \A o \in S!PostOf("light", d) : o.ok \in BOOLEAN /\ o.dev \in LightQuiet(b)
<1>1. S!LightInit(d) \subseteq Out(LightReady(b), LightFaulty(b))
  BY LightStarts DEF LightQuiet
<1>2. S!LightInit(d) \subseteq Out(LightReady(b), LightUp(b) \cup LightFaulty(b))
  BY <1>1, WiderOut
<1>3. S!PostOf("light", d) = S!Finally(S!LightInit(d), S!LightDeinit)
  BY DEF S!PostOf
<1>4. LightReady(b) \subseteq LightUp(b)
  BY DEF LightReady
<1> QED
  BY <1>2, <1>3, <1>4, LightCalled

\* ... and after a reading, which answers OK by the status of its own measurement.
LEMMA LightMeasured ==
    ASSUME NEW b, NEW d \in LightQuiet(b)
    PROVE  \A o \in S!ReadingOf("light", d) :
              o.ok \in BOOLEAN /\ o.dev \in LightQuiet(b) /\ (o.ok => o.dev.took = "this")
<1> DEFINE P == LightTaken(b)
           Q == LightUp(b) \cup LightFaulty(b)
           Try(e) == S!Error(e) \cup S!Light(e)
           Tried == UNION {IF o.ok THEN Try(o.dev) ELSE {o} : o \in S!LightInit(d)}
<1>1. S!LightInit(d) \subseteq Out(LightReady(b), LightFaulty(b))
  BY LightStarts DEF LightQuiet
<1>2. ASSUME NEW e \in LightReady(b) PROVE Try(e) \subseteq Out(P, Q)
  <2>1. S!Light(e) \subseteq Out(P, Q)
    BY LightReads, WiderOut
  <2>2. S!Error(e) \subseteq Out(P, Q)
    BY OkOut DEF LightReady
  <2> QED
    BY <2>1, <2>2
<1>3. S!ReadingOf("light", d) = S!Finally(Tried, S!LightDeinit)
  BY DEF S!ReadingOf, S!Then
<1>4. LightFaulty(b) \subseteq Q /\ P \subseteq LightUp(b) /\ \A e \in P : e.took = "this"
  BY DEF LightTaken
<1> HIDE DEF Try
<1>5. Tried \subseteq Out(P, Q)
  <2> HIDE DEF P, Q
  <2> QED
    BY <1>1, <1>2, <1>4 DEF Out
<1> HIDE DEF Tried
<1>6. \A o \in S!Finally(Tried, S!LightDeinit) :
         /\ o.ok \in BOOLEAN /\ o.dev \in LightQuiet(b)
         /\ o.ok => \E e \in P : o.dev.took = e.took
  <2> HIDE DEF P
  <2> QED
    BY <1>4, <1>5, LightCalled
<1> HIDE DEF P, Q
<1> QED
  BY <1>3, <1>4, <1>6

-----------------------------------------------------------------------------
(* The climate sensor *)
ClimateDev == [init : BOOLEAN, mode : {"sleep", "forced"},
               took : {NULL, "temperature", "humidity", "pressure", "nothing"},
               fitted : BOOLEAN, bus : BOOLEAN, faulty : BOOLEAN]
ClimateOn(b) == {d \in ClimateDev : d.bus = b}
ClimateAsleep(b) == {d \in ClimateOn(b) : d.mode = "sleep"}

\* A failed transfer does not wake the BME280.
LEMMA ClimateFails ==
    ASSUME NEW b, NEW d \in ClimateAsleep(b)
    PROVE  [d EXCEPT !.faulty = TRUE] \in ClimateAsleep(b)
BY DEF ClimateAsleep, ClimateOn, ClimateDev

\* bme280Init() leaves it asleep.
LEMMA ClimateStarts ==
    ASSUME NEW b, NEW d \in ClimateAsleep(b)
    PROVE  S!ClimateInit(d) \subseteq Out(ClimateAsleep(b), ClimateAsleep(b))
<1> DEFINE V == ClimateAsleep(b)
           Set(e) == S!Transfer(e, [e EXCEPT !.mode = "sleep", !.init = TRUE])
           Twice == UNION {IF o.ok THEN S!Read(o.dev) ELSE {o} : o \in S!Read(d)}
           Known == UNION {IF o.ok THEN S!Read(o.dev) ELSE {o} : o \in Twice}
<1>1. CASE d.init
  BY <1>1, OkOut DEF S!ClimateInit
<1>2. CASE ~d.init
  <2>1. \A e \in V : S!Read(e) \subseteq Out(V, V)
    BY ClimateFails, ReadOut
  <2>2. ASSUME NEW e \in V PROVE Set(e) \subseteq Out(V, V)
    <3>1. [e EXCEPT !.mode = "sleep", !.init = TRUE] \in V
      BY DEF ClimateAsleep, ClimateOn, ClimateDev
    <3> QED
      BY <3>1, ClimateFails, TransferOut
  <2>3. S!ClimateInit(d) = UNION {IF o.ok THEN Set(o.dev) ELSE {o} : o \in Known}
    BY <1>2 DEF S!ClimateInit, S!Then
  <2> SUFFICES S!ClimateInit(d) \subseteq Out(V, V)
    OBVIOUS
  <2>4. d \in V
    OBVIOUS
  <2> HIDE DEF V, Set
  <2>5. Twice \subseteq Out(V, V)
    BY <2>1, <2>4 DEF Out
  <2> HIDE DEF Twice
  <2>6. Known \subseteq Out(V, V)
    BY <2>1, <2>5 DEF Out
  <2> HIDE DEF Known
  <2> QED
    BY <2>2, <2>3, <2>6 DEF Out
<1> QED
  BY <1>1, <1>2

\* After post() it sleeps and its driver is not set up.
LEMMA ClimatePosted ==
    ASSUME NEW b, NEW d \in ClimateAsleep(b)
    PROVE  \A o \in S!PostOf("climate", d) : o.ok \in BOOLEAN /\ o.dev \in ClimateAsleep(b) /\ ~o.dev.init
<1> DEFINE After(o) == {[ok |-> o.ok, dev |-> p.dev] : p \in S!ClimateDeinit(o.dev)}
<1>1. S!PostOf("climate", d) = UNION {After(o) : o \in S!ClimateInit(d)}
  BY DEF S!PostOf, S!Finally
<1>2. ASSUME NEW q \in S!ClimateInit(d), NEW o \in After(q)
      PROVE  o.ok \in BOOLEAN /\ o.dev \in ClimateAsleep(b) /\ ~o.dev.init
  <2> DEFINE x == [q.dev EXCEPT !.init = FALSE]
  <2>1. q.ok \in BOOLEAN /\ q.dev \in ClimateAsleep(b)
    BY ClimateStarts DEF Out
  <2>2. x \in ClimateAsleep(b) /\ ~x.init
    BY <2>1 DEF ClimateAsleep, ClimateOn, ClimateDev
  <2>3. o.ok = q.ok /\ o.dev = x
    BY DEF S!ClimateDeinit, S!Ok
  <2> HIDE DEF x
  <2> QED
    BY <2>1, <2>2, <2>3
<1> HIDE DEF After
<1> QED
  BY <1>1, <1>2

\* A measurement leaves it asleep: in forced mode it goes back by itself.
LEMMA ClimateTemperature ==
    ASSUME NEW b, NEW d \in ClimateAsleep(b)
    PROVE  S!Temperature(d) \subseteq Out(ClimateAsleep(b), ClimateAsleep(b))
<1> DEFINE V == ClimateAsleep(b)
           W == ClimateOn(b)
           Measuring(e) == S!Transfer(e, [e EXCEPT !.mode = "forced"])
           Forced == UNION {IF o.ok THEN Measuring(o.dev) ELSE {o} : o \in S!Read(d)}
           Wait(e) == S!Ok([e EXCEPT !.mode = "sleep"]) \cup S!Error([e EXCEPT !.mode = "sleep"])
           Waited == UNION {IF o.ok THEN Wait(o.dev) ELSE {o} : o \in Forced}
           Take(e) == S!Transfer(e, [e EXCEPT !.took = "temperature"])
<1>1. S!Read(d) \subseteq Out(V, V)
  BY ClimateFails, ReadOut
<1>2. ASSUME NEW e \in V PROVE Measuring(e) \subseteq Out(W, V)
  <2>1. [e EXCEPT !.mode = "forced"] \in W
    BY DEF ClimateAsleep, ClimateOn, ClimateDev
  <2> QED
    BY <2>1, ClimateFails, TransferOut
<1>3. ASSUME NEW e \in W PROVE Wait(e) \subseteq Out(V, V)
  <2>1. [e EXCEPT !.mode = "sleep"] \in V
    BY DEF ClimateAsleep, ClimateOn, ClimateDev
  <2> QED
    BY <2>1, OkOut
<1>4. ASSUME NEW e \in V PROVE Take(e) \subseteq Out(V, V)
  <2>1. [e EXCEPT !.took = "temperature"] \in V
    BY DEF ClimateAsleep, ClimateOn, ClimateDev
  <2> QED
    BY <2>1, ClimateFails, TransferOut
<1>5. S!Temperature(d) = UNION {IF o.ok THEN Take(o.dev) ELSE {o} : o \in Waited}
  BY DEF S!Temperature, S!Then, S!SetForcedMode
<1> SUFFICES S!Temperature(d) \subseteq Out(V, V)
  OBVIOUS
<1> HIDE DEF V, W, Measuring, Wait, Take
<1>6. Forced \subseteq Out(W, V)
  BY <1>1, <1>2 DEF Out
<1> HIDE DEF Forced
<1>7. Waited \subseteq Out(V, V)
  BY <1>3, <1>6 DEF Out
<1> HIDE DEF Waited
<1> QED
  BY <1>4, <1>5, <1>7 DEF Out

\* So does every reading, of temperature, humidity or pressure.
LEMMA ClimateMeasured ==
    ASSUME NEW b, NEW d \in ClimateAsleep(b)
    PROVE  \A o \in S!ReadingOf("climate", d) : o.ok \in BOOLEAN /\ o.dev \in ClimateAsleep(b)
<1> DEFINE V == ClimateAsleep(b)
           Humid(e) == S!Transfer(e, [e EXCEPT !.took = "humidity"])
           Press(e) == S!Transfer(e, [e EXCEPT !.took = "pressure"])
           Kept(o) == [o.dev EXCEPT !.took = IF o.ok THEN @ ELSE "nothing"]
           Pressed(e) == {[ok |-> TRUE, dev |-> Kept(o)] : o \in Press(e)} \cup S!Error(e)
           Humidity(e) == UNION {IF o.ok THEN Humid(o.dev) ELSE {o} : o \in S!Temperature(e)}
           Pressure(e) == UNION {IF o.ok THEN Pressed(o.dev) ELSE {o} : o \in S!Temperature(e)}
           Try(e) == S!Error(e) \cup S!GetTemperature(e) \cup S!GetHumidity(e) \cup S!GetPressure(e)
<1>1. ASSUME NEW e \in V
      PROVE  /\ S!Error(e) \subseteq Out(V, V) /\ S!Temperature(e) \subseteq Out(V, V)
             /\ Humid(e) \subseteq Out(V, V) /\ Press(e) \subseteq Out(V, V)
  <2>1. [e EXCEPT !.took = "humidity"] \in V /\ [e EXCEPT !.took = "pressure"] \in V
    BY DEF ClimateAsleep, ClimateOn, ClimateDev
  <2> QED
    BY <2>1, OkOut, ClimateFails, ClimateTemperature, TransferOut
<1>2. ASSUME NEW e \in V PROVE Pressed(e) \subseteq Out(V, V)
  <2>1. ASSUME NEW o \in Press(e) PROVE [ok |-> TRUE, dev |-> Kept(o)] \in Out(V, V)
    <3>1. o.dev \in V
      BY <1>1 DEF Out
    <3>2. Kept(o) \in V
      BY <3>1 DEF ClimateAsleep, ClimateOn, ClimateDev
    <3> HIDE DEF V, Kept
    <3> QED
      BY <3>2 DEF Out
  <2> HIDE DEF V, Kept, Press
  <2> QED
    BY <1>1, <2>1
<1>3. /\ \A e : S!GetTemperature(e) = IF e.init THEN S!Temperature(e) ELSE S!Error(e)
      /\ \A e : S!GetHumidity(e) = IF ~e.init THEN S!Error(e) ELSE Humidity(e)
      /\ \A e : S!GetPressure(e) = IF ~e.init THEN S!Error(e) ELSE Pressure(e)
  BY DEF S!GetTemperature, S!GetHumidity, S!GetPressure, S!Then
<1>4. S!ReadingOf("climate", d) = UNION {IF o.ok THEN Try(o.dev) ELSE {o} : o \in S!ClimateInit(d)}
  BY DEF S!ReadingOf, S!Then
<1>5. S!ClimateInit(d) \subseteq Out(V, V)
  BY ClimateStarts
<1> SUFFICES \A o \in S!ReadingOf("climate", d) : o.ok \in BOOLEAN /\ o.dev \in V
  OBVIOUS
<1> HIDE DEF V, Humid, Press, Pressed
<1>6. \A e \in V : Humidity(e) \subseteq Out(V, V)
  BY <1>1 DEF Out
<1>7. \A e \in V : Pressure(e) \subseteq Out(V, V)
  BY <1>1, <1>2 DEF Out
<1> HIDE DEF Humidity, Pressure
<1>8. \A e \in V : Try(e) \subseteq Out(V, V)
  BY <1>1, <1>3, <1>6, <1>7
<1> HIDE DEF Try
<1> QED
  BY <1>4, <1>5, <1>8 DEF Out

-----------------------------------------------------------------------------
(* The GNSS chip *)
GnssTail == S!Messages \cup {"blank", "other", "old fix"}
GnssDev == [parser : BOOLEAN, pipe : Seq(S!Messages), tail : GnssTail, took : GnssTail \cup {NULL},
            supply : BOOLEAN, stream : Seq(S!Messages),
            fitted : BOOLEAN, bus : BOOLEAN, faulty : BOOLEAN]
GnssOn(b) == {d \in GnssDev : d.bus = b}
GnssOut(b) == Out(GnssOn(b), GnssOn(b))

\* An exchange with the chip leaves a device of the same kind on the same bus.
LEMMA GnssExchanges ==
    ASSUME NEW b, NEW d \in GnssOn(b), NEW e \in GnssOn(b)
    PROVE  S!Exchange(d, e) \subseteq GnssOut(b)
<1>1. [d EXCEPT !.faulty = TRUE] \in GnssOn(b)
  BY DEF GnssOn, GnssDev
<1> QED
  BY <1>1, OkOut, TransferOut DEF S!Exchange, GnssOut

\* So does a request, ...
LEMMA GnssSends ==
    ASSUME NEW b, NEW d \in GnssOn(b), NEW answer \in S!Messages
    PROVE  S!SendUbx(d, answer) \subseteq GnssOut(b)
<1>1. Append(d.stream, answer) \in Seq(S!Messages)
  BY DEF GnssOn, GnssDev
<1>2. [d EXCEPT !.stream = Append(@, answer)] \in GnssOn(b)
  BY <1>1 DEF GnssOn, GnssDev
<1> QED
  BY <1>2, GnssExchanges DEF S!SendUbx

\* ... a message taken from the pipe, ...
LEMMA GnssGets ==
    ASSUME NEW b, NEW d \in GnssOn(b)
    PROVE  \A o \in S!GetMessage(d) : o.ok \in BOOLEAN /\ o.dev \in GnssOn(b) /\ (~o.ok => o \in GnssOut(b))
<1> DEFINE pipe(n) == d.pipe \o SubSeq(d.stream, 1, n)
           Past(n, m) == S!Tails(d, n, m)
           Rest(n, t) == [d EXCEPT !.pipe = Tail(pipe(n)), !.tail = t, !.stream = SubSeq(@, n + 1, Len(@))]
           Taken(n) == IF pipe(n) = <<>> THEN S!Error(d)
                       ELSE {[ok |-> TRUE, m |-> Head(pipe(n)), dev |-> Rest(n, t)] : t \in Past(n, Head(pipe(n)))}
<1>1. S!GetMessage(d) = UNION {Taken(n) : n \in 0 .. Len(d.stream)}
  BY DEF S!GetMessage
<1>2. /\ d.pipe \in Seq(S!Messages) /\ d.stream \in Seq(S!Messages) /\ d.tail \in GnssTail
      /\ Len(d.stream) \in Nat
  BY DEF GnssOn, GnssDev
<1>3. ASSUME NEW n \in 0 .. Len(d.stream)
      PROVE  pipe(n) \in Seq(S!Messages) /\ SubSeq(d.stream, n + 1, Len(d.stream)) \in Seq(S!Messages)
  BY <1>2
<1>4. ASSUME NEW n \in 0 .. Len(d.stream), NEW o \in Taken(n)
      PROVE  o.ok \in BOOLEAN /\ o.dev \in GnssOn(b) /\ (~o.ok => o \in GnssOut(b))
  <2>1. CASE pipe(n) = <<>>
    <3>1. o \in S!Error(d)
      BY <2>1
    <3>2. o \in GnssOut(b)
      BY <3>1, OkOut DEF GnssOut
    <3> QED
      BY <3>2 DEF GnssOut, Out
  <2>2. CASE pipe(n) # <<>>
    <3>1. PICK t \in Past(n, Head(pipe(n))) : o = [ok |-> TRUE, m |-> Head(pipe(n)), dev |-> Rest(n, t)]
      BY <2>2
    <3>2. Head(pipe(n)) \in S!Messages /\ Tail(pipe(n)) \in Seq(S!Messages)
      <4>1. \A s \in Seq(S!Messages) : s # <<>> => Head(s) \in S!Messages /\ Tail(s) \in Seq(S!Messages)
        BY HeadTailProperties
      <4> HIDE DEF pipe
      <4> QED
        BY <1>3, <2>2, <4>1
    <3>3. t \in GnssTail
      BY <1>2, <3>2 DEF S!Tails, GnssTail
    <3>4. Rest(n, t) \in GnssOn(b)
      BY <1>3, <3>2, <3>3 DEF GnssOn, GnssDev
    <3>5. o.ok = TRUE /\ o.dev = Rest(n, t)
      BY <3>1
    <3> QED
      BY <3>4, <3>5
  <2> QED
    BY <2>1, <2>2
<1> HIDE DEF Taken
<1> QED
  BY <1>1, <1>4

\* ... and the start of the parser with its three attempts at most.
LEMMA GnssConfigures ==
    ASSUME NEW b, NEW d \in GnssOn(b)
    PROVE  S!ParserInit(d) \subseteq GnssOut(b)
<1> DEFINE G == GnssOn(b)
           O == GnssOut(b)
           fresh == [d EXCEPT !.pipe = <<>>, !.tail = IF @ = "fix" THEN "old fix" ELSE @]
           Ack(e) == UNION {IF o.ok /\ o.m = "ack" THEN S!Ok(o.dev) ELSE S!Error(o.dev) : o \in S!GetMessage(e)}
           Send(e) == S!SendUbx(e, "ack")
           Configure(e) == UNION {IF o.ok THEN Ack(o.dev) ELSE {o} : o \in Send(e)}
           Again(e) == UNION {IF o.ok THEN {o} ELSE Configure(o.dev) : o \in Configure(e)}
           Attempts(e) == UNION {IF o.ok THEN {o} ELSE Configure(o.dev) : o \in Again(e)}
           Address == S!Exchange(fresh, fresh)
<1>1. fresh \in G
  <2>1. <<>> \in Seq(S!Messages) /\ "old fix" \in GnssTail
    BY DEF GnssTail
  <2> QED
    BY <2>1 DEF GnssOn, GnssDev
<1>2. Address \subseteq O
  BY <1>1, GnssExchanges
<1>3. ASSUME NEW e \in G PROVE Ack(e) \subseteq O
  <2>1. \A o \in S!GetMessage(e) : o.dev \in G
    BY GnssGets
  <2>2. \A f \in G : S!Ok(f) \subseteq O /\ S!Error(f) \subseteq O
    BY OkOut DEF GnssOut
  <2> HIDE DEF G, O
  <2> QED
    BY <2>1, <2>2
<1>4. ASSUME NEW e \in G PROVE Send(e) \subseteq O
  BY GnssSends DEF S!Messages
<1>5. S!ParserInit(d) = UNION {IF o.ok THEN Attempts(o.dev) ELSE {o} : o \in Address}
  BY DEF S!ParserInit, S!Then, S!OrElse, S!CheckAck
<1>6. \A o \in O : o.dev \in G
  BY DEF GnssOut, Out
<1> SUFFICES S!ParserInit(d) \subseteq O
  OBVIOUS
<1> HIDE DEF G, O, Ack, Send, Address
<1>7. \A e \in G : Configure(e) \subseteq O
  BY <1>3, <1>4, <1>6
<1> HIDE DEF Configure
<1>8. \A e \in G : Again(e) \subseteq O
  BY <1>6, <1>7
<1> HIDE DEF Again
<1>9. \A e \in G : Attempts(e) \subseteq O
  BY <1>6, <1>7, <1>8
<1> HIDE DEF Attempts
<1> QED
  BY <1>2, <1>5, <1>6, <1>9

\* 1V8 is on, and zoem8Init() has been called.
LEMMA GnssPowers ==
    ASSUME NEW b, NEW d \in GnssOn(b)
    PROVE  S!SupplyOn(d) \subseteq GnssOn(b) /\ S!Powered(d) \subseteq GnssOut(b)
<1>1. S!SupplyOn(d) \subseteq GnssOn(b)
  <2>1. <<>> \in Seq(S!Messages) /\ <<"nmea">> \in Seq(S!Messages)
    BY DEF S!Messages
  <2>2. \A s \in Seq(S!Messages) : [d EXCEPT !.supply = TRUE, !.stream = s] \in GnssOn(b)
    BY DEF GnssOn, GnssDev
  <2> QED
    BY <2>1, <2>2 DEF S!SupplyOn
<1>2. ASSUME NEW e \in GnssOn(b) PROVE S!GnssInit(e) \subseteq GnssOut(b)
  <2> DEFINE Parse(f) == S!Ok([f EXCEPT !.parser = TRUE])
  <2>1. S!GnssInit(e) = IF e.parser THEN S!Ok(e) ELSE UNION {IF o.ok THEN Parse(o.dev) ELSE {o} : o \in S!ParserInit(e)}
    BY DEF S!GnssInit, S!Then
  <2>2. ASSUME NEW f \in GnssOn(b) PROVE Parse(f) \subseteq GnssOut(b)
    <3>1. [f EXCEPT !.parser = TRUE] \in GnssOn(b)
      BY DEF GnssOn, GnssDev
    <3> QED
      BY <3>1, OkOut DEF GnssOut
  <2>3. S!Ok(e) \subseteq GnssOut(b)
    BY OkOut DEF GnssOut
  <2>4. \A o \in GnssOut(b) : o.dev \in GnssOn(b)
    BY DEF GnssOut, Out
  <2> HIDE DEF Parse
  <2> QED
    BY <2>1, <2>2, <2>3, <2>4, GnssConfigures
<1> QED
  BY <1>1, <1>2 DEF S!Powered

\* What such an outcome is.
LEMMA GnssOutcome ==
    ASSUME NEW b
    PROVE  /\ \A o \in GnssOut(b) : o.ok \in BOOLEAN /\ o.dev \in GnssOn(b)
           /\ \A d \in GnssOn(b) : S!Ok(d) \subseteq GnssOut(b) /\ S!Error(d) \subseteq GnssOut(b)
BY OkOut DEF GnssOut, Out

\* Asking once for the position or the time.
LEMMA GnssAsks ==
    ASSUME NEW b, NEW d \in GnssOn(b)
    PROVE  /\ S!GetPosition(d, "fix") \subseteq GnssOut(b) /\ S!GetPosition(d, "no fix") \subseteq GnssOut(b)
           /\ S!GetTime(d) \subseteq GnssOut(b)
<1> DEFINE G == GnssOn(b)
           O == GnssOut(b)
           Placed(e) == UNION {IF o.ok THEN S!PositionIn(o.m, o.dev) ELSE {o} : o \in S!GetMessage(e)}
           Timed(e) == UNION {IF o.ok THEN S!TimeIn(o.m, o.dev) ELSE {o} : o \in S!GetMessage(e)}
           Place(answer) == UNION {IF o.ok THEN Placed(o.dev) ELSE {o} : o \in S!SendUbx(d, answer)}
           Time == UNION {IF o.ok THEN Timed(o.dev) ELSE {o} : o \in S!SendUbx(d, "time")}
<1>1. ASSUME NEW m, NEW e \in G PROVE S!PositionIn(m, e) \subseteq O /\ S!TimeIn(m, e) \subseteq O
  <2>1. e.tail \in GnssTail
    BY DEF GnssOn, GnssDev
  <2>2. [e EXCEPT !.took = e.tail] \in G
    BY <2>1 DEF GnssOn, GnssDev
  <2> HIDE DEF G, O
  <2>3. /\ S!Ok(e) \subseteq O /\ S!Error(e) \subseteq O
        /\ S!Ok([e EXCEPT !.took = e.tail]) \subseteq O
    BY <2>2, GnssOutcome DEF G, O
  <2> QED
    BY <2>3 DEF S!PositionIn, S!TimeIn
<1>2. \A e \in G : \A o \in S!GetMessage(e) : o.dev \in G /\ (~o.ok => o \in O)
  BY GnssGets
<1>3. /\ S!SendUbx(d, "fix") \subseteq O /\ S!SendUbx(d, "no fix") \subseteq O
      /\ S!SendUbx(d, "time") \subseteq O
  BY GnssSends DEF S!Messages
<1>4. \A o \in O : o.dev \in G
  BY GnssOutcome
<1>5. \A answer : S!GetPosition(d, answer) = IF d.parser THEN Place(answer) ELSE S!Error(d)
  BY DEF S!GetPosition, S!Then
<1>6. S!GetTime(d) = IF d.parser THEN Time ELSE S!Error(d)
  BY DEF S!GetTime, S!Then
<1>7. S!Error(d) \subseteq O
  BY GnssOutcome
<1> SUFFICES S!GetPosition(d, "fix") \subseteq O /\ S!GetPosition(d, "no fix") \subseteq O /\ S!GetTime(d) \subseteq O
  OBVIOUS
<1> HIDE DEF G, O
<1>8. \A e \in G : Placed(e) \subseteq O /\ Timed(e) \subseteq O
  BY <1>1, <1>2
<1> HIDE DEF Placed, Timed
<1>9. Place("fix") \subseteq O /\ Place("no fix") \subseteq O /\ Time \subseteq O
  BY <1>3, <1>4, <1>8
<1> HIDE DEF Place, Time
<1> QED
  BY <1>5, <1>6, <1>7, <1>9

\* A property of 0 that a number hands on to the next holds of all.
LEMMA LeastNumber ==
    ASSUME NEW T, T \subseteq Nat, T # {}
    PROVE  \E x \in T : \A y \in T : ~(y < x)
<1>1. PICK x \in T : \A y \in T : ~(<<y, x>> \in OpToRel(<, Nat))
  BY NatLessThanWellFounded, WFMin
<1> QED
  BY <1>1 DEF OpToRel

LEMMA EveryNumber ==
    ASSUME NEW T, 0 \in T, \A n \in Nat : n \in T => n + 1 \in T
    PROVE  Nat \subseteq T
<1> SUFFICES ASSUME Nat \ T # {} PROVE FALSE
  OBVIOUS
<1>1. PICK x \in Nat \ T : \A y \in Nat \ T : ~(y < x)
  BY LeastNumber
<1>2. x # 0 /\ x - 1 \in Nat /\ x - 1 < x /\ (x - 1) + 1 = x
  BY <1>1
<1> QED
  BY <1>1, <1>2

\* As often as the position is asked for, the device stays a device.
LEMMA GnssPolls ==
    ASSUME NEW b, NEW d \in GnssOn(b), MaxPolls \in Nat
    PROVE  S!PollsOf(d) \subseteq GnssOut(b)
<1> DEFINE O == GnssOut(b)
           Poll(e) == S!GetPosition(e, "fix") \cup S!GetPosition(e, "no fix")
           More(X) == UNION {IF o.ok THEN {o} ELSE Poll(o.dev) : o \in X}
           Def(p, k) == p = [n \in 0 .. k |-> IF n = 0 THEN S!Error(d) ELSE More(p[n - 1])]
           Polls == CHOOSE p : Def(p, MaxPolls)
           Done == {k \in Nat : \E p : Def(p, k)}
<1>1. S!PollsOf(d) = Polls[MaxPolls]
  BY DEF S!PollsOf, S!OrElse
<1> HIDE DEF More
<1>2. Nat \subseteq Done
  <2>1. 0 \in Done
    <3>1. Def([n \in 0 .. 0 |-> S!Error(d)], 0)
      OBVIOUS
    <3> QED
      BY <3>1
  <2>2. ASSUME NEW k \in Nat, k \in Done PROVE k + 1 \in Done
    <3>1. PICK p : Def(p, k)
      BY <2>2
    <3> DEFINE q == [n \in 0 .. k + 1 |-> IF n <= k THEN p[n] ELSE More(p[k])]
               r == [n \in 0 .. k + 1 |-> IF n = 0 THEN S!Error(d) ELSE More(q[n - 1])]
    <3>2. ASSUME NEW n \in 0 .. k + 1 PROVE q[n] = r[n]
      <4>1. CASE n = 0
        BY <3>1, <4>1
      <4>2. CASE n \in 1 .. k
        <5>1. p[n] = More(p[n - 1]) /\ q[n - 1] = p[n - 1]
          BY <3>1, <4>2
        <5> QED
          BY <4>2, <5>1
      <4>3. CASE n = k + 1
        BY <4>3
      <4> QED
        BY <4>1, <4>2, <4>3
    <3>3. q = r
      BY <3>2
    <3>4. Def(q, k + 1)
      BY <3>3
    <3> HIDE DEF Def, q
    <3> QED
      BY <3>4
  <2> HIDE DEF Done
  <2> QED
    BY <2>1, <2>2, EveryNumber
<1>3. Def(Polls, MaxPolls)
  <2>1. \E p : Def(p, MaxPolls)
    BY <1>2
  <2> HIDE DEF Def
  <2> QED
    BY <2>1
<1> HIDE DEF Polls
<1>4. /\ Polls[0] = S!Error(d)
      /\ \A n \in 1 .. MaxPolls : Polls[n] = More(Polls[n - 1])
  BY <1>3
<1>5. ASSUME NEW X, X \subseteq O PROVE More(X) \subseteq O
  <2>1. \A o \in O : o.dev \in GnssOn(b)
    BY GnssOutcome
  <2>2. \A e \in GnssOn(b) : Poll(e) \subseteq O
    BY GnssAsks
  <2> HIDE DEF O, Poll
  <2> QED
    BY <1>5, <2>1, <2>2 DEF More
<1> DEFINE Held == {k \in Nat : k <= MaxPolls => Polls[k] \subseteq O}
<1>6. Nat \subseteq Held
  <2>1. 0 \in Held
    BY <1>4, GnssOutcome
  <2>2. ASSUME NEW k \in Nat, k \in Held PROVE k + 1 \in Held
    <3>1. CASE k + 1 <= MaxPolls
      <4>1. Polls[k] \subseteq O /\ Polls[k + 1] = More(Polls[k])
        BY <1>4, <2>2, <3>1
      <4> QED
        BY <1>5, <4>1
    <3> QED
      BY <3>1
  <2> HIDE DEF Held
  <2> QED
    BY <2>1, <2>2, EveryNumber
<1> QED
  BY <1>1, <1>6

\* zoem8Deinit() comes last in post() and in a reading: no parser is left.
LEMMA GnssCalled ==
    ASSUME NEW b, NEW d \in GnssOn(b), MaxPolls \in Nat
    PROVE  /\ \A o \in S!PostOf("gnss", d) : o.ok \in BOOLEAN /\ o.dev \in GnssOn(b) /\ ~o.dev.parser
           /\ \A o \in S!ReadingOf("gnss", d) : o.ok \in BOOLEAN /\ o.dev \in GnssOn(b) /\ ~o.dev.parser
<1> DEFINE G == GnssOn(b)
           O == GnssOut(b)
           Down(o) == {[ok |-> o.ok, dev |-> p.dev] : p \in S!GnssDeinit(o.dev)}
           TimeAfter(o) == {[ok |-> o.ok, dev |-> p.dev] : p \in S!GetTime(o.dev)}
           First(e) == UNION {TimeAfter(o) : o \in S!Ok(e)}
           Clock(e) == UNION {TimeAfter(o) : o \in First(e)}
           Position(e) == UNION {IF o.ok THEN Clock(o.dev) ELSE {o} : o \in S!PollsOf(e)}
           Placed == UNION {IF o.ok THEN Position(o.dev) ELSE {o} : o \in S!Powered(d)}
<1>1. ASSUME NEW q \in O, NEW o \in Down(q) PROVE o.ok \in BOOLEAN /\ o.dev \in G /\ ~o.dev.parser
  <2> DEFINE x == [q.dev EXCEPT !.parser = FALSE, !.pipe = <<>>]
  <2>1. q.ok \in BOOLEAN /\ q.dev \in G
    BY GnssOutcome
  <2>2. x \in G /\ ~x.parser
    <3>1. <<>> \in Seq(S!Messages)
      OBVIOUS
    <3> QED
      BY <2>1, <3>1 DEF GnssOn, GnssDev
  <2>3. o.ok = q.ok /\ o.dev = x
    BY DEF S!GnssDeinit, S!Ok
  <2> HIDE DEF x
  <2> QED
    BY <2>1, <2>2, <2>3
<1>2. ASSUME NEW o \in O PROVE TimeAfter(o) \subseteq O
  <2>1. o.ok \in BOOLEAN /\ o.dev \in G
    BY GnssOutcome
  <2>2. \A p \in S!GetTime(o.dev) : p.dev \in G
    BY <2>1, GnssAsks, GnssOutcome
  <2> QED
    BY <2>1, <2>2 DEF GnssOut, Out
<1>3. \A e \in G : S!Ok(e) \subseteq O /\ S!PollsOf(e) \subseteq O
  BY GnssOutcome, GnssPolls
<1>4. S!Powered(d) \subseteq O
  BY GnssPowers
<1>5. S!PostOf("gnss", d) = UNION {Down(o) : o \in S!Powered(d)}
  BY DEF S!PostOf, S!Finally
<1>6. S!ReadingOf("gnss", d) = UNION {Down(o) : o \in Placed}
  BY DEF S!ReadingOf, S!Then, S!Finally, S!PositionOf
<1>7. \A o \in O : o.dev \in G
  BY GnssOutcome
<1> SUFFICES /\ \A o \in S!PostOf("gnss", d) : o.ok \in BOOLEAN /\ o.dev \in G /\ ~o.dev.parser
             /\ \A o \in S!ReadingOf("gnss", d) : o.ok \in BOOLEAN /\ o.dev \in G /\ ~o.dev.parser
  OBVIOUS
<1> HIDE DEF G, O, Down, TimeAfter
<1>8. \A e \in G : First(e) \subseteq O
  BY <1>2, <1>3
<1> HIDE DEF First
<1>9. \A e \in G : Clock(e) \subseteq O
  BY <1>2, <1>8
<1> HIDE DEF Clock
<1>10. \A e \in G : Position(e) \subseteq O
  BY <1>3, <1>7, <1>9
<1> HIDE DEF Position
<1>11. Placed \subseteq O
  BY <1>4, <1>7, <1>10
<1> HIDE DEF Placed
<1> QED
  BY <1>1, <1>4, <1>5, <1>6, <1>11

-----------------------------------------------------------------------------
(* The sensors together *)
\* A sensor that post() has not come to yet has its driver's variables as
\* they are after a reset; one that post() says is all right is set up.
Fine(s, d, b, standing) ==
    CASE s = "hall" ->
            /\ d \in HallOn(b) /\ (d.faulty \/ d.mode # "idle")
            /\ standing = "ahead" => ~d.init /\ d.raw = NULL
            /\ standing = "wanted" => d \in HallRight(b)
      [] s = "accel" -> d \in AccelOn(b) /\ (standing = "wanted" => d \in AccelRight(b))
      [] s = "light" -> d \in LightQuiet(b)
      [] s = "climate" -> d \in ClimateAsleep(b)
      [] s = "gnss" -> d \in GnssOn(b) /\ ~d.parser

\* A device is on the bus that it is said to be on.
LEMMA FineOnBus ==
    ASSUME NEW s \in S!Devices, NEW d, NEW b, NEW k, Fine(s, d, b, k)
    PROVE  d.bus = b
BY DEF Fine, HallOn, AccelOn, LightQuiet, LightOn, ClimateAsleep, ClimateOn, GnssOn, S!Devices, S!Watching

\* Bringing the bus up or down changes nothing else.
LEMMA FineBus ==
    ASSUME NEW s \in S!Devices, NEW d, NEW b, NEW c \in BOOLEAN, NEW k, Fine(s, d, b, k)
    PROVE  /\ Fine(s, [d EXCEPT !.bus = c], c, k)
           /\ s = "climate" => [d EXCEPT !.bus = c].init = d.init
           /\ s = "gnss" => [d EXCEPT !.bus = c].supply = d.supply
<1> USE DEF Fine
<1>1. CASE s = "hall"
  BY <1>1 DEF HallOn, HallDev, HallRight
<1>2. CASE s = "accel"
  BY <1>2 DEF AccelOn, AccelDev, AccelRight, AccelSetUp
<1>3. CASE s = "light"
  BY <1>3 DEF LightQuiet, LightOn, LightDev
<1>4. CASE s = "climate"
  BY <1>4 DEF ClimateAsleep, ClimateOn, ClimateDev
<1>5. CASE s = "gnss"
  BY <1>5 DEF GnssOn, GnssDev
<1> QED
  BY <1>1, <1>2, <1>3, <1>4, <1>5 DEF S!Devices, S!Watching

\* After a reset all are ahead again.
LEMMA FineForgotten ==
    ASSUME NEW s \in S!Devices, NEW d, NEW b, NEW k, Fine(s, d, b, k)
    PROVE  /\ Fine(s, S!Forgotten(s, d), FALSE, "ahead")
           /\ s = "climate" => ~S!Forgotten(s, d).init
<1> DEFINE off == [d EXCEPT !.init = FALSE, !.bus = FALSE]
<1>1. CASE s = "hall"
  <2>1. S!Forgotten(s, d) = [off EXCEPT !.range = "20", !.raw = NULL, !.attached = FALSE]
    BY <1>1 DEF S!Forgotten
  <2>2. "20" \in S!Range
    BY DEF S!Range
  <2> QED
    BY <1>1, <2>1, <2>2 DEF Fine, HallOn, HallDev
<1>2. CASE s = "accel"
  <2>1. S!Forgotten(s, d) = [off EXCEPT !.sens = 0, !.attached = FALSE]
    BY <1>2 DEF S!Forgotten
  <2>2. d \in AccelOn(b)
    BY <1>2 DEF Fine
  <2>3. off \in AccelOn(FALSE)
    BY <2>2 DEF AccelOn, AccelDev
  <2>4. S!Forgotten(s, d) \in AccelOn(FALSE)
    <3> HIDE DEF off
    <3>1. [off EXCEPT !.sens = 0] \in AccelOn(FALSE)
      BY <2>3 DEF AccelOn, AccelDev
    <3>2. [[off EXCEPT !.sens = 0] EXCEPT !.attached = FALSE] \in AccelOn(FALSE)
      BY <3>1 DEF AccelOn, AccelDev
    <3> QED
      BY <2>1, <3>2
  <2> QED
    BY <1>2, <2>4 DEF Fine
<1>3. CASE s = "light"
  <2>1. S!Forgotten(s, d) = [off EXCEPT !.took = NULL]
    BY <1>3 DEF S!Forgotten
  <2> QED
    BY <1>3, <2>1 DEF Fine, LightQuiet, LightOn, LightDev
<1>4. CASE s = "climate"
  <2>1. S!Forgotten(s, d) = [off EXCEPT !.took = NULL]
    BY <1>4 DEF S!Forgotten
  <2> QED
    BY <1>4, <2>1 DEF Fine, ClimateAsleep, ClimateOn, ClimateDev
<1>5. CASE s = "gnss"
  <2>1. S!Forgotten(s, d) = [S!SupplyOff(d) EXCEPT !.parser = FALSE, !.pipe = <<>>, !.tail = "blank",
                                                   !.took = NULL, !.bus = FALSE]
    BY <1>5 DEF S!Forgotten
  <2>2. "blank" \in GnssTail /\ <<>> \in Seq(S!Messages)
    BY DEF GnssTail
  <2> QED
    BY <1>5, <2>1, <2>2 DEF Fine, GnssOn, GnssDev, S!SupplyOff
<1> QED
  BY <1>1, <1>2, <1>3, <1>4, <1>5 DEF S!Devices, S!Watching

\* So they are when the program starts for the first time.
LEMMA FineBlank ==
    ASSUME NEW s \in S!Devices, NEW f \in BOOLEAN
    PROVE  /\ Fine(s, [S!Blank[s] EXCEPT !.fitted = f], FALSE, "ahead")
           /\ s = "climate" => ~[S!Blank[s] EXCEPT !.fitted = f].init
<1>1. CASE s = "hall"
  <2>1. S!Blank[s] = S!NoHall
    BY <1>1 DEF S!Blank
  <2>2. "20" \in S!Range
    BY DEF S!Range
  <2>3. S!NoHall \in HallDev /\ ~S!NoHall.init /\ S!NoHall.raw = NULL /\ S!NoHall.mode = "timed" /\ ~S!NoHall.bus
    BY <2>2 DEF HallDev, S!NoHall
  <2>4. [S!Blank[s] EXCEPT !.fitted = f] \in HallOn(FALSE) /\ ~[S!Blank[s] EXCEPT !.fitted = f].init
    BY <2>1, <2>3 DEF HallOn, HallDev
  <2> QED
    BY <1>1, <2>1, <2>3, <2>4 DEF Fine, HallDev
<1>2. CASE s = "accel"
  <2>1. S!Blank[s] = S!NoAccel
    BY <1>2 DEF S!Blank
  <2>2. [i \in 1 .. 2 |-> "reset"] \in AccelSetting /\ [i \in 1 .. 2 |-> FALSE] \in [1 .. 2 -> BOOLEAN]
    BY DEF AccelSetting
  <2>3. S!NoAccel \in AccelDev /\ ~S!NoAccel.init /\ ~S!NoAccel.bus
    BY <2>2 DEF AccelDev, S!NoAccel
  <2>4. [S!Blank[s] EXCEPT !.fitted = f] \in AccelOn(FALSE) /\ ~[S!Blank[s] EXCEPT !.fitted = f].init
    BY <2>1, <2>3 DEF AccelOn, AccelDev
  <2> QED
    BY <1>2, <2>4 DEF Fine
<1>3. CASE s = "light"
  <2>1. S!Blank[s] = S!NoLight
    BY <1>3 DEF S!Blank
  <2>3. S!NoLight \in LightDev /\ ~S!NoLight.init /\ S!NoLight.params = "reset" /\ ~S!NoLight.bus
    BY DEF LightDev, S!NoLight
  <2>4. [S!Blank[s] EXCEPT !.fitted = f] \in LightQuiet(FALSE) /\ ~[S!Blank[s] EXCEPT !.fitted = f].init
    BY <2>1, <2>3 DEF LightQuiet, LightDev, LightOn
  <2> QED
    BY <1>3, <2>4 DEF Fine
<1>4. CASE s = "climate"
  <2>1. S!Blank[s] = S!NoClimate
    BY <1>4 DEF S!Blank
  <2>3. S!NoClimate \in ClimateDev /\ ~S!NoClimate.init /\ S!NoClimate.mode = "sleep" /\ ~S!NoClimate.bus
    BY DEF ClimateDev, S!NoClimate
  <2>4. [S!Blank[s] EXCEPT !.fitted = f] \in ClimateAsleep(FALSE) /\ ~[S!Blank[s] EXCEPT !.fitted = f].init
    BY <2>1, <2>3 DEF ClimateAsleep, ClimateDev, ClimateOn
  <2> QED
    BY <1>4, <2>4 DEF Fine
<1>5. CASE s = "gnss"
  <2>1. S!Blank[s] = S!NoGnss
    BY <1>5 DEF S!Blank
  <2>2. "blank" \in GnssTail /\ <<>> \in Seq(S!Messages)
    BY DEF GnssTail
  <2>3. S!NoGnss \in GnssDev /\ ~S!NoGnss.parser /\ ~S!NoGnss.bus
    BY <2>2 DEF GnssDev, S!NoGnss
  <2>4. [S!Blank[s] EXCEPT !.fitted = f] \in GnssOn(FALSE) /\ ~[S!Blank[s] EXCEPT !.fitted = f].parser
    BY <2>1, <2>3 DEF GnssOn, GnssDev
  <2> QED
    BY <1>5, <2>4 DEF Fine
<1> QED
  BY <1>1, <1>2, <1>3, <1>4, <1>5 DEF S!Devices, S!Watching

\* What post() does with a sensor leaves it fine, set up if the answer was OK.
LEMMA FinePosted ==
    ASSUME NEW s \in S!Devices, NEW d, NEW b, Fine(s, d, b, "ahead"),
           NEW o \in S!PostOf(s, d)
    PROVE  /\ o.ok \in BOOLEAN /\ Fine(s, o.dev, b, IF o.ok THEN "wanted" ELSE "dropped")
           /\ s = "climate" => ~o.dev.init
<1> USE SensorAssumption DEF Fine
<1>1. CASE s = "hall"
  <2>1. o \in Out(HallQuiet(b, HallRange, NULL), HallFaulty(b))
    BY <1>1, HallPosted
  <2>2. \A e \in HallQuiet(b, HallRange, NULL) : e \in HallRight(b)
    BY DEF HallQuiet, HallSteady, HallRight
  <2>3. \A e \in HallRight(b) : e \in HallOn(b) /\ (e.faulty \/ e.mode # "idle")
    BY DEF HallRight
  <2>4. \A e \in HallFaulty(b) : e \in HallOn(b) /\ e.faulty
    BY DEF HallFaulty
  <2> QED
    BY <1>1, <2>1, <2>2, <2>3, <2>4 DEF Out
<1>2. CASE s = "accel"
  <2>1. o \in Out(AccelRight(b), AccelOn(b))
    BY <1>2, AccelPosted
  <2> QED
    BY <1>2, <2>1 DEF Out, AccelRight, AccelSetUp
<1>3. CASE s = "light"
  BY <1>3, LightPosted
<1>4. CASE s = "climate"
  BY <1>4, ClimatePosted
<1>5. CASE s = "gnss"
  BY <1>5, GnssCalled
<1> QED
  BY <1>1, <1>2, <1>3, <1>4, <1>5 DEF S!Devices, S!Watching

\* What a reading answered OK is worth.
Worth(s, d) ==
    /\ s = "hall" => S!HallScaled(d)
    /\ s = "accel" => S!AccelScaled(d)
    /\ s = "light" => d.took = "this"

\* So does a reading; one answered OK is worth what it says.
LEMMA FineMeasured ==
    ASSUME NEW s \in S!Devices, NEW d, NEW b, Fine(s, d, b, "wanted"),
           s = "hall" => d.data \in {NULL, d.comp},
           NEW o \in S!ReadingOf(s, d)
    PROVE  /\ o.ok \in BOOLEAN /\ Fine(s, o.dev, b, "wanted")
           /\ o.ok => Worth(s, o.dev)
<1> USE SensorAssumption DEF Fine, Worth
<1>1. CASE s = "hall"
  <2>1. o \in Out(HallRight(b), HallRight(b))
    BY <1>1, HallMeasured
  <2>2. \A e \in HallRight(b) : e \in HallOn(b) /\ (e.faulty \/ e.mode # "idle") /\ S!HallScaled(e)
    BY DEF HallRight, S!HallScaled
  <2> QED
    BY <1>1, <2>1, <2>2 DEF Out
<1>2. CASE s = "accel"
  <2>1. o \in Out(AccelRight(b), AccelRight(b))
    BY <1>2, AccelMeasured
  <2>2. \A e \in AccelRight(b) : e \in AccelOn(b) /\ S!AccelScaled(e)
    BY DEF AccelRight, AccelSetUp, S!AccelScaled
  <2> QED
    BY <1>2, <2>1, <2>2 DEF Out
<1>3. CASE s = "light"
  BY <1>3, LightMeasured
<1>4. CASE s = "climate"
  BY <1>4, ClimateMeasured
<1>5. CASE s = "gnss"
  BY <1>5, GnssCalled
<1> QED
  BY <1>1, <1>2, <1>3, <1>4, <1>5 DEF S!Devices, S!Watching

\* The chips' own steps, bme280Deinit(), and the supply.
LEMMA FineChips ==
    ASSUME NEW d, NEW b, NEW k
    PROVE  /\ Fine("hall", d, b, k) => Fine("hall", S!HallMeasures(d), b, k)
           /\ Fine("light", d, b, k) => Fine("light", S!LightDone(d), b, k)
<1>1. ASSUME Fine("hall", d, b, k) PROVE Fine("hall", S!HallMeasures(d), b, k)
  BY <1>1 DEF Fine, S!HallMeasures, HallOn, HallDev, HallRight
<1>2. ASSUME Fine("light", d, b, k) PROVE Fine("light", S!LightDone(d), b, k)
  BY <1>2 DEF Fine, S!LightDone, LightQuiet, LightOn, LightDev
<1> QED
  BY <1>1, <1>2

\* bme280Deinit().
LEMMA FineDown ==
    ASSUME NEW d, NEW b, NEW k, Fine("climate", d, b, k), NEW o \in S!ClimateDeinit(d)
    PROVE  Fine("climate", o.dev, b, k) /\ ~o.dev.init
<1>1. o.dev = [d EXCEPT !.init = FALSE]
  BY DEF S!ClimateDeinit, S!Ok
<1> QED
  BY <1>1 DEF Fine, ClimateAsleep, ClimateOn, ClimateDev

\* The supply goes on and off.
LEMMA FineSupply ==
    ASSUME NEW d, NEW b, NEW k, Fine("gnss", d, b, k)
    PROVE  /\ \A e \in S!SupplyOn(d) : Fine("gnss", e, b, k)
           /\ Fine("gnss", S!SupplyOff(d), b, k) /\ ~S!SupplyOff(d).supply
<1>1. \A e \in S!SupplyOn(d) : e.parser = d.parser
  BY DEF Fine, S!SupplyOn, GnssOn, GnssDev
<1>2. S!SupplyOn(d) \subseteq GnssOn(b)
  BY GnssPowers DEF Fine
<1>3. <<>> \in Seq(S!Messages)
  OBVIOUS
<1>4. Fine("gnss", S!SupplyOff(d), b, k) /\ ~S!SupplyOff(d).supply
  BY <1>3 DEF Fine, S!SupplyOff, GnssOn, GnssDev
<1> QED
  BY <1>1, <1>2, <1>4 DEF Fine

-----------------------------------------------------------------------------
(* The sensors in the course of the program *)
Standing(s) ==
    IF phase = "post" /\ \E i \in turn .. 6 : S!PostOrder[i] = s THEN "ahead"
    ELSE IF s \in wanted THEN "wanted" ELSE "dropped"

DevicesInv ==
    /\ DOMAIN dev = S!Devices
    /\ dev["hall"].bus \in BOOLEAN
    /\ \A s \in S!Devices : Fine(s, dev[s], dev["hall"].bus, Standing(s))

\* Asleep or about to be, and before the first wake-up, bus and supply are
\* off; only while the program is awake has the BME280's driver been set up.
AsleepInv ==
    /\ phase \in {"ready", "leaving", "asleep"} => ~dev["hall"].bus /\ ~dev["gnss"].supply
    /\ phase # "awake" => ~dev["climate"].init

CourseInv ==
    /\ phase \in {"post", "ready", "awake", "leaving", "asleep"}
    /\ turn \in 1 .. 7 /\ (phase # "post" => turn = 7)
    /\ modemOk \in BOOLEAN
    /\ wanted \subseteq S!Devices /\ toDo \subseteq wanted /\ (phase = "post" => toDo = {})
    /\ reading \in S!Devices \cup {NULL}
    /\ restarts \in 0 .. MaxRestarts

ReadInv == reading \in S!Devices => Worth(reading, dev[reading])

SensorsInv == CourseInv /\ DevicesInv /\ AsleepInv /\ ReadInv

\* The sensors, and the order in which post() comes by them.
LEMMA DevicesOfNote ==
    /\ "hall" \in S!Devices /\ "accel" \in S!Devices /\ "light" \in S!Devices
    /\ "climate" \in S!Devices /\ "gnss" \in S!Devices
    /\ \A i \in 2 .. 6 : S!PostOrder[i] \in S!Devices
    /\ \A i, j \in 1 .. 6 : S!PostOrder[i] = S!PostOrder[j] => i = j
    /\ S!PostOrder[1] = "modem" /\ \A i \in 2 .. 6 : S!PostOrder[i] # "modem"
    /\ Len(S!PostOrder) = 6
    /\ \A s \in S!Devices : \E i \in 2 .. 6 : S!PostOrder[i] = s
<1>1. /\ S!PostOrder[1] = "modem" /\ S!PostOrder[2] = "climate" /\ S!PostOrder[3] = "light"
      /\ S!PostOrder[4] = "accel" /\ S!PostOrder[5] = "gnss" /\ S!PostOrder[6] = "hall"
      /\ Len(S!PostOrder) = 6
  BY DEF S!PostOrder
<1> QED
  BY <1>1 DEF S!Devices, S!Watching

\* Who sees no reading has nothing to say of one.
LEMMA NoReading == ASSUME reading' = NULL PROVE ReadInv'
BY SensorAssumption DEF ReadInv

\* What there is to show of a step.
LEMMA DevicesChanged ==
    ASSUME NEW c \in BOOLEAN, DOMAIN dev' = S!Devices,
           \A s \in S!Devices : Fine(s, dev'[s], c, Standing(s)')
    PROVE  DevicesInv'
<1>1. dev'["hall"].bus = c
  BY FineOnBus, DevicesOfNote
<1> QED
  BY <1>1 DEF DevicesInv

\* Of a step after which one device at most is another.
LEMMA OneChanged ==
    ASSUME DevicesInv, NEW s \in S!Devices, NEW d, dev' = [dev EXCEPT ![s] = d],
           Fine(s, d, dev["hall"].bus, Standing(s)'),
           \A r \in S!Devices \ {s} : Standing(r)' = Standing(r)
    PROVE  DevicesInv' /\ dev'["hall"].bus = dev["hall"].bus
<1>1. DOMAIN dev' = S!Devices /\ \A r \in S!Devices : dev'[r] = IF r = s THEN d ELSE dev[r]
  BY DEF DevicesInv
<1>2. \A r \in S!Devices : Fine(r, dev'[r], dev["hall"].bus, Standing(r)')
  <2>1. ASSUME NEW r \in S!Devices \ {s}
        PROVE  Fine(r, dev'[r], dev["hall"].bus, Standing(r)')
    <3>1. Fine(r, dev[r], dev["hall"].bus, Standing(r))
      BY DEF DevicesInv
    <3>2. dev'[r] = dev[r]
      BY <1>1
    <3> QED
      BY <3>1, <3>2
  <2> QED
    BY <1>1, <2>1
<1>3. dev["hall"].bus \in BOOLEAN
  BY DEF DevicesInv
<1>4. dev'["hall"].bus = dev["hall"].bus
  BY <1>2, FineOnBus, DevicesOfNote
<1> QED
  BY <1>1, <1>2, <1>3, <1>4, DevicesChanged

\* Of one that brings the bus up or down.
LEMMA BusChanged ==
    ASSUME DevicesInv, NEW c \in BOOLEAN, NEW f, DOMAIN f = S!Devices,
           \A s \in S!Devices : Fine(s, f[s], dev["hall"].bus, Standing(s)),
           dev' = [s \in S!Devices |-> [f[s] EXCEPT !.bus = c]],
           \A s \in S!Devices : Standing(s)' = Standing(s)
    PROVE  /\ DevicesInv' /\ dev'["hall"].bus = c
           /\ dev'["climate"].init = f["climate"].init /\ dev'["gnss"].supply = f["gnss"].supply
<1>1. ASSUME NEW s \in S!Devices PROVE Fine(s, dev'[s], c, Standing(s)')
  <2>1. Fine(s, [f[s] EXCEPT !.bus = c], c, Standing(s))
    BY FineBus
  <2> QED
    BY <2>1
<1>2. dev'["hall"].bus = c
  BY <1>1, FineOnBus, DevicesOfNote
<1>3. dev'["climate"].init = f["climate"].init /\ dev'["gnss"].supply = f["gnss"].supply
  BY FineBus, DevicesOfNote
<1> QED
  BY <1>1, <1>2, <1>3, DevicesChanged

\* A step that is not of post() changes nothing in where the sensors stand.
LEMMA StandingKept ==
    ASSUME wanted' = wanted, turn' = turn, phase' = phase \/ (turn = 7)
    PROVE  \A s \in S!Devices : Standing(s)' = Standing(s)
BY DEF Standing

\* The course of the program is kept by every step.
LEMMA CourseStep ==
    ASSUME SensorsInv, [S!Next]_sensors
    PROVE  CourseInv'
<1> USE DevicesOfNote, QueueAssumption DEF SensorsInv, CourseInv
<1>1. CASE UNCHANGED sensors
  BY <1>1 DEF sensors
<1>2. CASE S!Post
  BY <1>2 DEF S!Post, S!PostSensor
<1>3. CASE S!PostDone
  BY <1>3 DEF S!PostDone
<1>4. CASE S!Restart
  <2>1. restarts' \in 0 .. MaxRestarts /\ reading' = NULL
    BY <1>4 DEF S!Restart
  <2>2. /\ phase' = "post" /\ turn' = 1 /\ modemOk' = FALSE
        /\ wanted' = S!Devices /\ toDo' = {}
    BY <1>4 DEF S!Restart, S!StartOver
  <2>3a. wanted' \subseteq S!Devices /\ toDo' \subseteq wanted'
    BY <2>2
  <2>3b. modemOk' \in BOOLEAN
    BY <2>2
  <2>3. turn' \in 1 .. 7
    BY <2>2
  <2>4. reading' \in S!Devices \cup {NULL}
    BY <2>1
  <2> QED
    BY <2>1, <2>2, <2>3, <2>3a, <2>3b, <2>4
<1>5. CASE S!WakeUp
  BY <1>5 DEF S!WakeUp, S!CallHandler
<1>6. CASE S!NotEnoughEnergy
  BY <1>6 DEF S!NotEnoughEnergy, S!CallHandler
<1>7. CASE S!HandlerBusy
  BY <1>7 DEF S!HandlerBusy
<1>8. CASE S!Report
  BY <1>8 DEF S!Report
<1>9. CASE S!TidyUp
  BY <1>9 DEF S!TidyUp
<1>10. CASE S!ClearFlags
  BY <1>10 DEF S!ClearFlags
<1>11. CASE S!ChipMeasures
  BY <1>11 DEF S!ChipMeasures
<1>12. ASSUME NEW s \in S!Devices, S!Measure(s) PROVE CourseInv'
  BY <1>12 DEF S!Measure
<1>13. ASSUME NEW s \in S!Watching, S!Interrupt(s) PROVE CourseInv'
  BY <1>13 DEF S!Interrupt
<1>14. CASE S!BleRuns
  BY <1>14 DEF S!BleRuns
<1> QED
  BY <1>1, <1>2, <1>3, <1>4, <1>5, <1>6, <1>7, <1>8, <1>9, <1>10, <1>11, <1>12, <1>13, <1>14 DEF S!Next

\* One turn of post().
LEMMA PostStep ==
    ASSUME SensorsInv, S!Post
    PROVE  DevicesInv' /\ AsleepInv'
<1> DEFINE b == dev["hall"].bus
<1>0. PICK s : s = S!PostOrder[turn]
  OBVIOUS
<1>1. turn \in 1 .. 6 /\ turn' = turn + 1 /\ phase = "post" /\ phase' = "post"
  BY DevicesOfNote DEF S!Post, SensorsInv, CourseInv
<1>2. ASSUME NEW r \in S!Devices, r # s, (r \in wanted') = (r \in wanted) PROVE Standing(r)' = Standing(r)
  BY <1>0, <1>1, <1>2, DevicesOfNote DEF Standing
<1>3. DevicesInv /\ ~dev["climate"].init
  BY <1>1 DEF SensorsInv, AsleepInv
<1>4. CASE s = "modem"
  <2>1a. turn = 1
    <3>1. \A i \in 2 .. 6 : S!PostOrder[i] # "modem"
      BY DevicesOfNote
    <3>2. turn \notin 2 .. 6
      BY <1>0, <1>4, <3>1
    <3> QED
      BY <1>1, <3>2
  <2>1. wanted' = wanted
    BY <1>0, <1>4 DEF S!Post
  <2>2. PICK d \in S!SupplyOn(dev["gnss"]) : dev' = [dev EXCEPT !["gnss"] = d]
    BY <1>0, <1>4 DEF S!Post
  <2>3. \A r \in S!Devices : Standing(r)' = Standing(r)
    BY <1>2, <1>4, <2>1, DevicesOfNote
  <2>4. Fine("gnss", dev["gnss"], b, Standing("gnss"))
    BY <1>3, DevicesOfNote DEF DevicesInv
  <2>5. Fine("gnss", d, b, Standing("gnss")')
    BY <2>3, <2>4, FineSupply, DevicesOfNote
  <2>6. DevicesInv'
    BY <1>3, <2>2, <2>3, <2>5, DevicesOfNote, OneChanged
  <2>7. dev'["climate"] = dev["climate"]
    BY <1>3, <2>2, DevicesOfNote DEF DevicesInv
  <2> QED
    BY <1>1, <1>3, <2>6, <2>7 DEF AsleepInv
<1>5. CASE s # "modem"
  <2>1. turn \in 2 .. 6 /\ s \in S!Devices
    BY <1>0, <1>1, <1>5, DevicesOfNote
  <2>2. PICK o \in S!PostOf(s, dev[s]) :
           dev' = [dev EXCEPT ![s] = o.dev] /\ wanted' = IF o.ok THEN wanted ELSE wanted \ {s}
    BY <1>0, <1>5 DEF S!Post, S!PostSensor
  <2>3. \A r \in S!Devices \ {s} : Standing(r)' = Standing(r)
    BY <1>2, <2>2
  <2>4. Standing(s) = "ahead"
    BY <1>0, <1>1, <2>1 DEF Standing
  <2>5. Standing(s)' \in {"wanted", "dropped"} /\ (~o.ok => Standing(s)' = "dropped")
    <3>1. \A i \in turn' .. 6 : S!PostOrder[i] # s
      BY <1>0, <1>1, <2>1, DevicesOfNote
    <3>2. ~o.ok => s \notin wanted'
      BY <2>2
    <3> QED
      BY <3>1, <3>2 DEF Standing
  <2>6. Fine(s, dev[s], b, "ahead")
    BY <1>3, <2>1, <2>4 DEF DevicesInv
  <2>7. /\ Fine(s, o.dev, b, IF o.ok THEN "wanted" ELSE "dropped")
        /\ s = "climate" => ~o.dev.init
    BY <2>1, <2>2, <2>6, FinePosted
  <2>8. Fine(s, o.dev, b, Standing(s)')
    BY <2>1, <2>5, <2>7 DEF Fine, S!Devices, S!Watching
  <2>9. DevicesInv'
    BY <1>3, <2>1, <2>2, <2>3, <2>8, OneChanged
  <2>10. ~dev'["climate"].init
    BY <1>3, <2>1, <2>2, <2>7, DevicesOfNote DEF DevicesInv
  <2> QED
    BY <1>1, <2>9, <2>10 DEF AsleepInv
<1> QED
  BY <1>4, <1>5

\* A sensor is read: of those to be read, all are set up.
LEMMA MeasureStep ==
    ASSUME SensorsInv, NEW s \in S!Devices, S!Measure(s)
    PROVE  DevicesInv' /\ AsleepInv' /\ ReadInv'
<1>1. /\ phase = "awake" /\ s \in wanted /\ (s = "hall" => dev[s].data \in {NULL, dev[s].comp})
      /\ UNCHANGED <<phase, turn, wanted>>
  BY DEF S!Measure, S!Measured, SensorsInv, CourseInv
<1>2. PICK o \in S!ReadingOf(s, dev[s]) :
         dev' = [dev EXCEPT ![s] = o.dev] /\ reading' = IF o.ok THEN s ELSE NULL
  BY DEF S!Measure
<1>3. DevicesInv /\ Standing(s) = "wanted" /\ \A r \in S!Devices : Standing(r)' = Standing(r)
  BY <1>1, StandingKept DEF SensorsInv, Standing
<1>4. Fine(s, dev[s], dev["hall"].bus, "wanted")
  BY <1>3 DEF DevicesInv
<1>5. Fine(s, o.dev, dev["hall"].bus, "wanted") /\ o.ok \in BOOLEAN /\ (o.ok => Worth(s, o.dev))
  BY <1>1, <1>2, <1>4, FineMeasured
<1>6. DevicesInv'
  BY <1>2, <1>3, <1>5, OneChanged
<1>7. AsleepInv'
  BY <1>1 DEF AsleepInv
<1>8. ReadInv'
  <2>1. dev'[s] = o.dev
    BY <1>2, <1>3 DEF DevicesInv
  <2>2. CASE o.ok
    <3>1. reading' = s /\ Worth(s, dev'[s])
      BY <1>2, <1>5, <2>1, <2>2
    <3> QED
      BY <3>1 DEF ReadInv
  <2>3. CASE ~o.ok
    BY <1>2, <2>3, NoReading
  <2> QED
    BY <1>5, <2>2, <2>3
<1> QED
  BY <1>6, <1>7, <1>8

\* The bus comes up for a wake-up, and all goes off before the program sleeps.
LEMMA PowerStep ==
    ASSUME SensorsInv, S!PostDone \/ S!Restart \/ S!WakeUp \/ S!TidyUp
    PROVE  DevicesInv' /\ AsleepInv'
<1> DEFINE b == dev["hall"].bus
           down == [r \in S!Devices |-> IF r = "gnss" THEN S!SupplyOff(dev[r]) ELSE dev[r]]
<1>1. /\ DOMAIN dev = S!Devices /\ b \in BOOLEAN /\ DevicesInv
      /\ \A r \in S!Devices : Fine(r, dev[r], b, Standing(r))
  BY DEF SensorsInv, DevicesInv
<1>2. /\ DOMAIN down = S!Devices /\ ~down["gnss"].supply /\ down["climate"] = dev["climate"]
      /\ \A r \in S!Devices : Fine(r, down[r], b, Standing(r))
  <2>1. Fine("gnss", S!SupplyOff(dev["gnss"]), b, Standing("gnss")) /\ ~S!SupplyOff(dev["gnss"]).supply
    BY <1>1, FineSupply, DevicesOfNote
  <2>2. /\ DOMAIN down = S!Devices /\ down["gnss"] = S!SupplyOff(dev["gnss"])
        /\ \A r \in S!Devices \ {"gnss"} : down[r] = dev[r]
    BY DevicesOfNote
  <2>3. down["climate"] = dev["climate"]
    BY <2>2, DevicesOfNote
  <2> HIDE DEF down
  <2> QED
    BY <1>1, <2>1, <2>2, <2>3
<1>3. S!PowerDown(dev) = [r \in S!Devices |-> [down[r] EXCEPT !.bus = FALSE]]
  BY DEF S!PowerDown, S!BusDeinit
<1>4. CASE S!PostDone
  <2>1. dev' = S!PowerDown(dev) /\ wanted' = wanted /\ turn' = turn /\ turn = 7 /\ phase = "post"
    BY <1>4, DevicesOfNote DEF S!PostDone, SensorsInv, CourseInv
  <2>2. \A r \in S!Devices : Standing(r)' = Standing(r)
    BY <2>1, StandingKept
  <2>3. /\ DevicesInv' /\ dev'["hall"].bus = FALSE
        /\ dev'["climate"].init = down["climate"].init /\ dev'["gnss"].supply = down["gnss"].supply
    <3> HIDE DEF down
    <3> QED
      BY <1>1, <1>2, <1>3, <2>1, <2>2, BusChanged
  <2>4. ~dev["climate"].init
    BY <2>1 DEF SensorsInv, AsleepInv
  <2> HIDE DEF down
  <2> QED
    BY <1>2, <2>3, <2>4 DEF AsleepInv
<1>5. CASE S!TidyUp
  <2> DEFINE p == [r \in S!Devices |-> [down[r] EXCEPT !.bus = FALSE]]
  <2>1. /\ phase = "awake" /\ phase' = "leaving" /\ wanted' = wanted /\ turn' = turn
        /\ \E o \in S!ClimateDeinit(p["climate"]) : dev' = [p EXCEPT !["climate"] = o.dev]
    BY <1>3, <1>5 DEF S!TidyUp
  <2>2. PICK o \in S!ClimateDeinit(p["climate"]) : dev' = [p EXCEPT !["climate"] = o.dev]
    BY <2>1
  <2>3. \A r \in S!Devices : Standing(r)' = Standing(r)
    BY <2>1 DEF Standing
  <2>4. ASSUME NEW r \in S!Devices
        PROVE  Fine(r, p[r], FALSE, Standing(r)) /\ (r = "gnss" => p[r].supply = down[r].supply)
    <3>1. p[r] = [down[r] EXCEPT !.bus = FALSE]
      OBVIOUS
    <3> HIDE DEF down, p
    <3> QED
      BY <1>2, <3>1, FineBus
  <2>5. DOMAIN p = S!Devices
    OBVIOUS
  <2> HIDE DEF down, p
  <2>6. /\ DOMAIN dev' = S!Devices /\ dev'["climate"] = o.dev
        /\ \A r \in S!Devices \ {"climate"} : dev'[r] = p[r]
    BY <2>2, <2>5, DevicesOfNote
  <2>7. Fine("climate", dev'["climate"], FALSE, Standing("climate")) /\ ~dev'["climate"].init
    <3>1. Fine("climate", p["climate"], FALSE, Standing("climate"))
      BY <2>4, DevicesOfNote
    <3>2. Fine("climate", o.dev, FALSE, Standing("climate")) /\ ~o.dev.init
      BY <3>1, FineDown
    <3> QED
      BY <2>6, <3>2
  <2>8. \A r \in S!Devices : Fine(r, dev'[r], FALSE, Standing(r)')
    BY <2>3, <2>4, <2>6, <2>7
  <2>9. DevicesInv' /\ dev'["hall"].bus = FALSE
    BY <2>6, <2>8, FineOnBus, DevicesChanged, DevicesOfNote
  <2>10. ~dev'["gnss"].supply
    BY <1>2, <2>4, <2>6, DevicesOfNote
  <2> QED
    BY <2>1, <2>7, <2>9, <2>10 DEF AsleepInv
<1>6. CASE S!WakeUp
  <2>1. /\ phase # "post" /\ phase' = "awake" /\ wanted' = wanted /\ turn' = turn
        /\ dev' = [r \in S!Devices |-> IF wanted = {} THEN dev[r] ELSE S!BusInit(dev[r])]
    BY <1>6 DEF S!WakeUp, S!CallHandler
  <2>2. \A r \in S!Devices : Standing(r)' = Standing(r)
    BY <2>1 DEF Standing
  <2>3. CASE wanted = {}
    <3>1. DOMAIN dev' = S!Devices /\ \A r \in S!Devices : Fine(r, dev'[r], b, Standing(r)')
      BY <1>1, <2>1, <2>2, <2>3
    <3> HIDE DEF b
    <3>2. DevicesInv'
      BY <1>1, <3>1, DevicesChanged
    <3> QED
      BY <2>1, <3>2 DEF AsleepInv
  <2>4. CASE wanted # {}
    <3>1. dev' = [r \in S!Devices |-> [dev[r] EXCEPT !.bus = TRUE]]
      BY <2>1, <2>4 DEF S!BusInit
    <3>2. DevicesInv'
      BY <1>1, <2>2, <3>1, BusChanged
    <3> QED
      BY <2>1, <3>2 DEF AsleepInv
  <2> QED
    BY <2>3, <2>4
<1>7. CASE S!Restart
  <2>1. /\ phase' = "post" /\ turn' = 1 /\ wanted' = S!Devices
        /\ dev' = [r \in S!Devices |-> S!BusInit([s \in S!Devices |-> S!Forgotten(s, dev[s])][r])]
    BY <1>7 DEF S!Restart, S!StartOver
  <2>2. \A r \in S!Devices : Standing(r)' = "ahead"
    BY <2>1, DevicesOfNote DEF Standing
  <2>3. ASSUME NEW r \in S!Devices
        PROVE  /\ Fine(r, [S!Forgotten(r, dev[r]) EXCEPT !.bus = TRUE], TRUE, "ahead")
               /\ r = "climate" => ~[S!Forgotten(r, dev[r]) EXCEPT !.bus = TRUE].init
    BY <1>1, FineForgotten, FineBus
  <2>4. DOMAIN dev' = S!Devices /\ \A r \in S!Devices : dev'[r] = [S!Forgotten(r, dev[r]) EXCEPT !.bus = TRUE]
    BY <2>1 DEF S!BusInit
  <2>5. DevicesInv'
    BY <2>2, <2>3, <2>4, DevicesChanged
  <2>6. ~dev'["climate"].init
    <3>1. PICK r \in S!Devices : r = "climate"
      BY DevicesOfNote
    <3>2. PICK d : d = [S!Forgotten(r, dev[r]) EXCEPT !.bus = TRUE]
      OBVIOUS
    <3>3. dev'[r] = d /\ ~d.init
      BY <2>3, <2>4, <3>1, <3>2, Zenon
    <3> QED
      BY <3>1, <3>3
  <2>7. AsleepInv'
    BY <2>1, <2>6 DEF AsleepInv
  <2> QED
    BY <2>5, <2>7
<1> QED
  BY <1>4, <1>5, <1>6, <1>7

\* Every step keeps the invariant, ...
LEMMA SensorsStep ==
    ASSUME SensorsInv, [S!Next]_sensors
    PROVE  SensorsInv'
<1> DEFINE b == dev["hall"].bus
<1>1. CourseInv'
  BY CourseStep
<1>2. DevicesInv /\ AsleepInv
  BY DEF SensorsInv
<1>3. CASE UNCHANGED sensors
  <2>1. DevicesInv' /\ AsleepInv' /\ ReadInv'
    BY <1>3 DEF SensorsInv, sensors, DevicesInv, AsleepInv, ReadInv, Standing
  <2> QED
    BY <1>1, <2>1 DEF SensorsInv
<1>4. CASE S!Post
  <2>1. ReadInv'
    BY <1>4, NoReading DEF S!Post
  <2> QED
    BY <1>1, <1>4, <2>1, PostStep DEF SensorsInv
<1>5. CASE S!PostDone \/ S!Restart \/ S!WakeUp \/ S!TidyUp
  <2>1. ReadInv'
    BY <1>5, NoReading DEF S!PostDone, S!Restart, S!WakeUp, S!TidyUp
  <2> QED
    BY <1>1, <1>5, <2>1, PowerStep DEF SensorsInv
<1>6. CASE S!NotEnoughEnergy
  <2>1. reading' = NULL /\ phase \in {"ready", "asleep"} /\ phase' = "leaving" /\ UNCHANGED <<turn, wanted, dev>>
    BY <1>6 DEF S!NotEnoughEnergy, S!CallHandler
  <2>2. DevicesInv'
    BY <1>2, <2>1 DEF DevicesInv, Standing
  <2>3. AsleepInv'
    BY <1>2, <2>1 DEF AsleepInv
  <2> QED
    BY <1>1, <2>1, <2>2, <2>3, NoReading DEF SensorsInv
<1>7. CASE S!ClearFlags
  <2>1. reading' = NULL /\ phase = "leaving" /\ phase' = "asleep" /\ UNCHANGED <<turn, wanted, dev>>
    BY <1>7 DEF S!ClearFlags
  <2>2. DevicesInv'
    BY <1>2, <2>1 DEF DevicesInv, Standing
  <2>3. AsleepInv'
    BY <1>2, <2>1 DEF AsleepInv
  <2> QED
    BY <1>1, <2>1, <2>2, <2>3, NoReading DEF SensorsInv
<1>8. ASSUME S!HandlerBusy \/ S!BleRuns \/ \E s \in S!Watching : S!Interrupt(s) PROVE SensorsInv'
  <2>1. reading' = NULL /\ UNCHANGED <<phase, turn, wanted, dev>>
    BY <1>8 DEF S!HandlerBusy, S!BleRuns, S!Interrupt
  <2>2. DevicesInv'
    BY <1>2, <2>1 DEF DevicesInv, Standing
  <2>3. AsleepInv'
    BY <1>2, <2>1 DEF AsleepInv
  <2> QED
    BY <1>1, <2>1, <2>2, <2>3, NoReading DEF SensorsInv
<1>9. ASSUME S!Report \/ S!ChipMeasures PROVE SensorsInv'
  <2>1. reading' = NULL /\ UNCHANGED <<phase, turn, wanted>>
    BY <1>9 DEF S!Report, S!ChipMeasures
  <2>2. \A r \in S!Devices : Standing(r)' = Standing(r) /\ Fine(r, dev[r], b, Standing(r))
    BY <1>2, <2>1, StandingKept DEF DevicesInv
  <2>3. ASSUME NEW s \in S!Devices, NEW d, dev' = [dev EXCEPT ![s] = d], Fine(s, d, b, Standing(s)),
               s # "climate", s = "gnss" => phase = "awake"
        PROVE  SensorsInv'
    <3>1. DevicesInv' /\ dev'["hall"].bus = b
      BY <1>2, <2>2, <2>3, OneChanged
    <3>2. dev'["climate"] = dev["climate"] /\ (phase # "awake" => dev'["gnss"] = dev["gnss"])
      BY <1>2, <2>3, DevicesOfNote DEF DevicesInv
    <3>3. AsleepInv'
      BY <1>2, <2>1, <3>1, <3>2 DEF AsleepInv
    <3> QED
      BY <1>1, <2>1, <3>1, <3>3, NoReading DEF SensorsInv
  <2>4. CASE S!Report
    <3>1. PICK d \in S!SupplyOn(dev["gnss"]) : dev' = [dev EXCEPT !["gnss"] = d] /\ phase = "awake"
      BY <2>4 DEF S!Report
    <3>2. Fine("gnss", d, b, Standing("gnss"))
      BY <2>2, FineSupply, DevicesOfNote
    <3> QED
      BY <2>3, <3>1, <3>2, DevicesOfNote
  <2>5. CASE S!ChipMeasures
    <3>1. CASE dev' = [dev EXCEPT !["hall"] = S!HallMeasures(dev["hall"])]
      <4>1. Fine("hall", S!HallMeasures(dev["hall"]), b, Standing("hall"))
        BY <2>2, FineChips, DevicesOfNote
      <4> QED
        BY <2>3, <3>1, <4>1, DevicesOfNote
    <3>2. CASE dev' = [dev EXCEPT !["light"] = S!LightDone(dev["light"])]
      <4>1. Fine("light", S!LightDone(dev["light"]), b, Standing("light"))
        BY <2>2, FineChips, DevicesOfNote
      <4> QED
        BY <2>3, <3>2, <4>1, DevicesOfNote
    <3> QED
      BY <2>5, <3>1, <3>2 DEF S!ChipMeasures
  <2> QED
    BY <1>9, <2>4, <2>5
<1>10. ASSUME NEW s \in S!Devices, S!Measure(s) PROVE SensorsInv'
  BY <1>1, <1>10, MeasureStep DEF SensorsInv
<1> QED
  BY <1>3, <1>4, <1>5, <1>6, <1>7, <1>8, <1>9, <1>10 DEF S!Next

\* ... which holds of every behaviour.
LEMMA SensorsInvariant == Spec => []SensorsInv
<1>1. Init => SensorsInv
  <2> SUFFICES ASSUME S!Init PROVE SensorsInv
    BY DEF Init
  <2>1. PICK board \in Boards : dev = [s \in S!Devices |-> S!BusInit([S!Blank[s] EXCEPT !.fitted = s \in board])]
    BY DEF S!Init
  <2>2. /\ phase = "post" /\ turn = 1 /\ modemOk = FALSE /\ wanted = S!Devices
        /\ toDo = {} /\ reading = NULL /\ restarts = 0
    BY DEF S!Init
  <2>3. CourseInv
    <3>1. restarts \in 0 .. MaxRestarts /\ turn \in 1 .. 7
      BY <2>2, QueueAssumption
    <3>2. wanted \subseteq S!Devices /\ toDo \subseteq wanted /\ modemOk \in BOOLEAN
      BY <2>2
    <3>3. reading \in S!Devices \cup {NULL}
      BY <2>2
    <3> QED
      BY <2>2, <3>1, <3>2, <3>3 DEF CourseInv
  <2>4. \A r \in S!Devices : Standing(r) = "ahead"
    BY <2>2, DevicesOfNote DEF Standing
  <2>5. ASSUME NEW r \in S!Devices
        PROVE  /\ Fine(r, dev[r], TRUE, Standing(r))
               /\ r = "climate" => ~dev[r].init
    <3>0. (r \in board) \in BOOLEAN
      OBVIOUS
    <3>1. PICK f \in BOOLEAN : dev[r] = [[S!Blank[r] EXCEPT !.fitted = f] EXCEPT !.bus = TRUE]
      BY <2>1, <3>0 DEF S!BusInit
    <3> DEFINE x == [S!Blank[r] EXCEPT !.fitted = f]
    <3>2. Fine(r, x, FALSE, "ahead") /\ (r = "climate" => ~x.init)
      BY FineBlank
    <3>3. dev[r] = [x EXCEPT !.bus = TRUE]
      BY <3>1
    <3> HIDE DEF x
    <3>4. Fine(r, [x EXCEPT !.bus = TRUE], TRUE, "ahead") /\ (r = "climate" => [x EXCEPT !.bus = TRUE].init = x.init)
      <4>1. TRUE \in BOOLEAN /\ Fine(r, x, FALSE, "ahead")
        BY <3>2
      <4> QED
        BY <4>1, FineBus
    <3> QED
      BY <2>4, <3>2, <3>3, <3>4
  <2>6. DOMAIN dev = S!Devices
    BY <2>1
  <2>7. DevicesInv
    BY <2>5, <2>6, FineOnBus, DevicesOfNote DEF DevicesInv
  <2>8. AsleepInv /\ ReadInv
    BY <2>2, <2>5, SensorAssumption, DevicesOfNote DEF AsleepInv, ReadInv
  <2> QED
    BY <2>3, <2>7, <2>8 DEF SensorsInv
<1>2. SensorsInv /\ [Next]_vars => SensorsInv'
  BY SensorsStep DEF Next, Sensors, Source, Accounts, Ble, Locks, vars
<1> QED
  BY <1>1, <1>2, PTL DEF Spec

\* A reading of the Hall sensor or the accelerometer that is answered OK is
\* scaled with the range it was taken with, and one of the light sensor is of
\* the measurement asked for, whatever transfers have failed before.
THEOREM ReadingsScaled == Spec => []ReadingsRight
<1>1. SensorsInv => ReadingsRight
  BY DevicesOfNote DEF SensorsInv, ReadInv, Worth, ReadingsRight, S!ReadingsRight
<1> QED
  BY <1>1, SensorsInvariant, PTL

\* Whatever transfers fail, the program sleeps with bus and supply off and
\* no parser, and a sensor with which none has failed is in its low state.
THEOREM NothingLeftOn == Spec => []LowPower
<1>1. ASSUME SensorsInv, phase = "asleep"
      PROVE  /\ \A s \in S!Devices : ~dev[s].bus
             /\ ~dev["gnss"].supply /\ ~dev["gnss"].parser
             /\ dev["climate"].mode = "sleep" /\ ~dev["climate"].init
             /\ ~dev["hall"].faulty => dev["hall"].mode # "idle"
             /\ ~dev["light"].faulty => ~dev["light"].init /\ dev["light"].params # "set"
  <2> DEFINE b == dev["hall"].bus
  <2>1. \A s \in S!Devices : Fine(s, dev[s], b, Standing(s))
    BY <1>1 DEF SensorsInv, DevicesInv
  <2>2. ~b /\ ~dev["gnss"].supply /\ ~dev["climate"].init
    BY <1>1 DEF SensorsInv, AsleepInv
  <2>3. \A s \in S!Devices : dev[s].bus = b
    BY <2>1, FineOnBus
  <2>4. /\ ~dev["gnss"].parser /\ dev["climate"].mode = "sleep"
        /\ ~dev["hall"].faulty => dev["hall"].mode # "idle"
        /\ ~dev["light"].faulty => ~dev["light"].init /\ dev["light"].params # "set"
    BY <2>1, DevicesOfNote DEF Fine, LightQuiet, ClimateAsleep
  <2> QED
    BY <2>2, <2>3, <2>4
<1>2. SensorsInv => LowPower
  BY <1>1 DEF LowPower, S!LowPower
<1> QED
  BY <1>2, SensorsInvariant, PTL

-----------------------------------------------------------------------------
(* The Bluetooth devices *)

Device == [peer : Peer, state : {"unknown", "discovered", "not wanted", "wanted"},
           connection : {"disconnected", "connecting", "connected"}, attempts : 0 .. MaxDiscovery,
           found : BOOLEAN, nameChar : BOOLEAN, wantedChar : BOOLEAN, named : BOOLEAN, data : Seq(Nat)]
Radio == [scanning : BOOLEAN, link : {"none", "connecting", "connected"}, peer : Peer \cup {NULL},
          doing : {"nothing", "discovering", "name", "value"}]

BleTyped ==
    /\ bleAt \in {"off", "starting", "running", "waiting"}
    /\ gBleDeviceList \in Seq(Device) /\ Len(gBleDeviceList) <= MaxDevices
    /\ gNextBleDeviceToRead \in 0 .. MaxDevices - 1
    /\ radio \in Radio
    /\ taken \in [Peer -> 0 .. MaxReadings] /\ handed \in [Peer -> 0 .. MaxReadings]

\* An address is in the list once.
OneEach == \A i, j \in B!Places : gBleDeviceList[i].peer = gBleDeviceList[j].peer => i = j

\* What goes on over a link fits the device at its other end: one whose
\* characteristics are being discovered is not wanted yet, one whose name is
\* being read has what is wanted.
DoingFits ==
    /\ radio.doing # "nothing" => radio.link = "connected"
    /\ \A i \in B!Places : gBleDeviceList[i].peer = radio.peer =>
          /\ radio.doing = "discovering" => gBleDeviceList[i].state # "wanted"
          /\ radio.doing = "name" => gBleDeviceList[i].wantedChar

\* A link is to a device of the list; until the stack is there is neither.
LinkFits ==
    /\ bleAt \in {"off", "starting"} => radio = B!NoRadio /\ gBleDeviceList = <<>>
    /\ bleAt = "running" /\ radio.link # "none" =>
          \E i \in B!Places : gBleDeviceList[i].peer = radio.peer

\* Nothing has been stored of what is not in the list, and no more handed on
\* than was stored.
StoreFits ==
    /\ \A p \in Peer : handed[p] <= taken[p]
    /\ \A p \in Peer : (\A i \in B!Places : gBleDeviceList[i].peer # p) => taken[p] = 0

BleInv ==
    /\ BleTyped /\ OneEach /\ DoingFits /\ LinkFits /\ StoreFits
    /\ WantedHasCharacteristic /\ ReadingsAccounted /\ ScanResumes

\* A function on the places of a sequence is a sequence as long.
LEMMA SameLength ==
    ASSUME NEW T, NEW s \in Seq(T), NEW f \in [DOMAIN s -> T]
    PROVE  f \in Seq(T) /\ Len(f) = Len(s) /\ DOMAIN f = DOMAIN s
OBVIOUS

\* What keeps the invariant when only some fields of the devices, and the
\* radio, change.
LEMMA BleFieldsStep ==
    ASSUME BleInv, bleAt = "running", bleAt' = "running", UNCHANGED <<taken, handed>>,
           gNextBleDeviceToRead' \in 0 .. MaxDevices - 1,
           gBleDeviceList' \in [B!Places -> Device], radio' \in Radio,
           \A i \in B!Places : /\ gBleDeviceList'[i].peer = gBleDeviceList[i].peer
                               /\ gBleDeviceList'[i].data = gBleDeviceList[i].data,
           DoingFits', WantedHasCharacteristic', ScanResumes',
           radio'.link # "none" => \E i \in B!Places : gBleDeviceList[i].peer = radio'.peer
    PROVE  BleInv'
<1> USE DEF BleInv, BleTyped, B!Places
<1>1. gBleDeviceList' \in Seq(Device) /\ Len(gBleDeviceList') = Len(gBleDeviceList)
      /\ DOMAIN gBleDeviceList' = DOMAIN gBleDeviceList
  BY SameLength
<1>2. BleTyped'
  BY <1>1
<1>3. OneEach'
  BY <1>1 DEF OneEach
<1>4. LinkFits'
  BY <1>1 DEF LinkFits
<1>5. StoreFits'
  BY <1>1 DEF StoreFits
<1>6. ReadingsAccounted'
  BY <1>1 DEF ReadingsAccounted, B!ReadingsAccounted
<1> QED
  BY <1>2, <1>3, <1>4, <1>5, <1>6

LEMMA ConnectionStep ==
    ASSUME BleInv, B!Connection
    PROVE  BleInv'
<1> DEFINE known == {i \in B!Places : gBleDeviceList[i].peer = radio.peer}
           new(d) == [d EXCEPT !.connection = "connected",
                               !.found = IF d.state = "wanted" THEN @ ELSE FALSE]
<1> USE DEF BleInv, BleTyped
<1>1. /\ bleAt = "running" /\ bleAt' = "running" /\ radio.link = "connecting"
      /\ UNCHANGED <<gNextBleDeviceToRead, taken, handed>>
  BY DEF B!Connection
<1>2. gBleDeviceList' = [i \in B!Places |-> IF i \in known THEN new(gBleDeviceList[i]) ELSE gBleDeviceList[i]]
  BY DEF B!Connection, B!Changed, B!ByAddress
<1>3. PICK doing \in {"nothing", "discovering", "value"} :
         /\ doing = "discovering" => \A i \in known : gBleDeviceList[i].state # "wanted"
         /\ radio' = [radio EXCEPT !.link = "connected", !.doing = doing]
  BY DEF B!Connection, B!ByAddress
<1>4. \A i \in B!Places : gBleDeviceList[i] \in Device
  BY DEF B!Places
<1>5. ASSUME NEW d \in Device
      PROVE  /\ new(d) \in Device /\ new(d).peer = d.peer /\ new(d).data = d.data
             /\ new(d).state = d.state /\ new(d).wantedChar = d.wantedChar
             /\ new(d).connection = "connected"
  BY DEF Device
<1> HIDE DEF new
<1>6. gBleDeviceList' \in [B!Places -> Device]
  BY <1>2, <1>4, <1>5
<1>7. /\ radio' \in Radio /\ radio'.peer = radio.peer /\ radio'.link = "connected"
      /\ radio'.doing = doing /\ radio'.scanning = radio.scanning
  BY <1>3 DEF Radio
<1>8. \A i \in B!Places :
         /\ gBleDeviceList'[i].peer = gBleDeviceList[i].peer
         /\ gBleDeviceList'[i].data = gBleDeviceList[i].data
         /\ gBleDeviceList'[i].state = gBleDeviceList[i].state
         /\ gBleDeviceList'[i].wantedChar = gBleDeviceList[i].wantedChar
         /\ gBleDeviceList'[i].connection = IF i \in known THEN "connected" ELSE gBleDeviceList[i].connection
  BY <1>2, <1>4, <1>5
<1>9. B!Places' = B!Places
  BY <1>6 DEF B!Places
<1>10. DoingFits'
  BY <1>3, <1>7, <1>8, <1>9 DEF DoingFits
<1>11. WantedHasCharacteristic'
  BY <1>8, <1>9 DEF WantedHasCharacteristic, B!WantedHasCharacteristic
<1>12. ScanResumes'
  BY <1>1, <1>7, <1>8, <1>9 DEF ScanResumes, B!ScanResumes
<1>13. \E i \in B!Places : gBleDeviceList[i].peer = radio'.peer
  BY <1>1, <1>7 DEF LinkFits
<1> QED
  BY <1>1, <1>6, <1>7, <1>8, <1>10, <1>11, <1>12, <1>13, BleFieldsStep

LEMMA CharacteristicStep ==
    ASSUME BleInv, B!Characteristic
    PROVE  BleInv'
<1> USE DEF BleInv, BleTyped
<1>1. /\ bleAt = "running" /\ bleAt' = "running" /\ radio.doing = "discovering"
      /\ UNCHANGED <<gNextBleDeviceToRead, radio, taken, handed>>
  BY DEF B!Characteristic
<1>2. PICK copied \in BOOLEAN, kind \in {"name", "wanted", "other"} :
         gBleDeviceList' =
            [i \in B!Places |->
                IF i \in B!ByConnection
                THEN [gBleDeviceList[i] EXCEPT !.found = TRUE,
                                               !.nameChar = IF kind = "name" THEN copied ELSE @,
                                               !.wantedChar = IF kind = "wanted" THEN copied ELSE @]
                ELSE gBleDeviceList[i]]
  BY DEF B!Characteristic, B!Changed
<1> DEFINE new(d) == [d EXCEPT !.found = TRUE,
                               !.nameChar = IF kind = "name" THEN copied ELSE @,
                               !.wantedChar = IF kind = "wanted" THEN copied ELSE @]
<1>3. gBleDeviceList' =
         [i \in B!Places |-> IF i \in B!ByConnection THEN new(gBleDeviceList[i]) ELSE gBleDeviceList[i]]
  BY <1>2
<1>4. \A i \in B!Places : gBleDeviceList[i] \in Device
  BY DEF B!Places
<1>5. ASSUME NEW d \in Device
      PROVE  /\ new(d) \in Device /\ new(d).peer = d.peer /\ new(d).data = d.data
             /\ new(d).state = d.state /\ new(d).connection = d.connection
  BY DEF Device
<1> HIDE DEF new
<1>6. gBleDeviceList' \in [B!Places -> Device]
  BY <1>3, <1>4, <1>5
<1>7. \A i \in B!Places :
         /\ gBleDeviceList'[i].peer = gBleDeviceList[i].peer
         /\ gBleDeviceList'[i].data = gBleDeviceList[i].data
         /\ gBleDeviceList'[i].state = gBleDeviceList[i].state
         /\ gBleDeviceList'[i].connection = gBleDeviceList[i].connection
         /\ gBleDeviceList[i].peer # radio.peer => gBleDeviceList'[i] = gBleDeviceList[i]
  BY <1>3, <1>4, <1>5 DEF B!ByConnection, B!ByAddress
<1>8. B!Places' = B!Places
  BY <1>6 DEF B!Places
<1>9. DoingFits'
  BY <1>1, <1>7, <1>8 DEF DoingFits
<1>10. WantedHasCharacteristic'
  BY <1>1, <1>7, <1>8 DEF DoingFits, WantedHasCharacteristic, B!WantedHasCharacteristic
<1>11. ScanResumes'
  BY <1>1, <1>7, <1>8 DEF ScanResumes, B!ScanResumes
<1> QED
  BY <1>1, <1>6, <1>7, <1>9, <1>10, <1>11, BleFieldsStep DEF LinkFits

LEMMA DiscoveryTerminationStep ==
    ASSUME BleInv, B!DiscoveryTermination
    PROVE  BleInv'
<1> USE DEF BleInv, BleTyped
<1>1. /\ bleAt = "running" /\ bleAt' = "running" /\ radio.doing = "discovering"
      /\ UNCHANGED <<gNextBleDeviceToRead, taken, handed>>
  BY DEF B!DiscoveryTermination
<1>2. gBleDeviceList' =
         [i \in B!Places |-> IF i \in B!ByConnection THEN B!Judged(gBleDeviceList[i]) ELSE gBleDeviceList[i]]
  BY DEF B!DiscoveryTermination, B!Changed
<1>3. PICK doing \in {"nothing", "name"} :
         /\ radio' = [radio EXCEPT !.doing = doing]
         /\ doing = "name" => \E i \in B!ByConnection : B!Judged(gBleDeviceList[i]).state = "discovered"
  BY DEF B!DiscoveryTermination
<1>4. \A i \in B!Places : gBleDeviceList[i] \in Device
  BY DEF B!Places
<1>5. ASSUME NEW d \in Device
      PROVE  /\ B!Judged(d) \in Device /\ B!Judged(d).peer = d.peer /\ B!Judged(d).data = d.data
             /\ B!Judged(d).connection = d.connection /\ B!Judged(d).state # "wanted"
             /\ B!Judged(d).state = "discovered" => B!Judged(d).wantedChar
  BY DEF Device, B!Judged
<1>6. gBleDeviceList' \in [B!Places -> Device]
  BY <1>2, <1>4, <1>5
<1>7. /\ radio' \in Radio /\ radio'.peer = radio.peer /\ radio'.link = radio.link
      /\ radio'.doing = doing /\ radio'.scanning = radio.scanning
  BY <1>3 DEF Radio
<1>8. \A i \in B!Places :
         /\ gBleDeviceList'[i].peer = gBleDeviceList[i].peer
         /\ gBleDeviceList'[i].data = gBleDeviceList[i].data
         /\ gBleDeviceList'[i].connection = gBleDeviceList[i].connection
         /\ gBleDeviceList'[i].state = "wanted" => gBleDeviceList'[i] = gBleDeviceList[i]
         /\ i \in B!ByConnection => gBleDeviceList'[i] = B!Judged(gBleDeviceList[i])
  BY <1>2, <1>4, <1>5
<1>9. B!Places' = B!Places
  BY <1>6 DEF B!Places
<1>10. DoingFits'
  <2>1. ASSUME doing = "name", NEW i \in B!Places, gBleDeviceList[i].peer = radio.peer
        PROVE  gBleDeviceList'[i].wantedChar
    <3>1. PICK j \in B!ByConnection : B!Judged(gBleDeviceList[j]).state = "discovered"
      BY <1>3, <2>1
    <3>2. j \in B!Places /\ gBleDeviceList[j].peer = radio.peer
      BY DEF B!ByConnection, B!ByAddress
    <3>3. i = j
      BY <2>1, <3>2 DEF OneEach
    <3> QED
      BY <1>4, <1>5, <1>8, <3>1, <3>2, <3>3
  <2> QED
    BY <1>1, <1>3, <1>7, <1>8, <1>9, <2>1 DEF DoingFits
<1>11. WantedHasCharacteristic'
  BY <1>8, <1>9 DEF WantedHasCharacteristic, B!WantedHasCharacteristic
<1>12. ScanResumes'
  BY <1>1, <1>7, <1>8, <1>9 DEF ScanResumes, B!ScanResumes
<1> QED
  BY <1>1, <1>6, <1>7, <1>8, <1>10, <1>11, <1>12, BleFieldsStep DEF LinkFits

LEMMA CheckDeviceNameStep ==
    ASSUME BleInv, B!CheckDeviceName
    PROVE  BleInv'
<1> USE DEF BleInv, BleTyped
<1>1. /\ bleAt = "running" /\ bleAt' = "running" /\ radio.doing = "name"
      /\ radio' = [radio EXCEPT !.doing = "nothing"]
      /\ UNCHANGED <<gNextBleDeviceToRead, taken, handed>>
  BY DEF B!CheckDeviceName
<1>2. PICK matches \in BOOLEAN, copied \in BOOLEAN :
         gBleDeviceList' =
            [i \in B!Places |->
                IF i \in B!ByConnection
                THEN IF matches
                     THEN [gBleDeviceList[i] EXCEPT !.state = "wanted", !.named = copied, !.nameChar = FALSE]
                     ELSE [gBleDeviceList[i] EXCEPT !.state = "not wanted"]
                ELSE gBleDeviceList[i]]
  BY DEF B!CheckDeviceName, B!Changed
<1> DEFINE new(d) == IF matches THEN [d EXCEPT !.state = "wanted", !.named = copied, !.nameChar = FALSE]
                                ELSE [d EXCEPT !.state = "not wanted"]
<1>3. gBleDeviceList' =
         [i \in B!Places |-> IF i \in B!ByConnection THEN new(gBleDeviceList[i]) ELSE gBleDeviceList[i]]
  BY <1>2
<1>4. \A i \in B!Places : gBleDeviceList[i] \in Device
  BY DEF B!Places
<1>5. ASSUME NEW d \in Device
      PROVE  /\ new(d) \in Device /\ new(d).peer = d.peer /\ new(d).data = d.data
             /\ new(d).wantedChar = d.wantedChar /\ new(d).connection = d.connection
  BY DEF Device
<1> HIDE DEF new
<1>6. gBleDeviceList' \in [B!Places -> Device]
  BY <1>3, <1>4, <1>5
<1>7. \A i \in B!Places :
         /\ gBleDeviceList'[i].peer = gBleDeviceList[i].peer
         /\ gBleDeviceList'[i].data = gBleDeviceList[i].data
         /\ gBleDeviceList'[i].wantedChar = gBleDeviceList[i].wantedChar
         /\ gBleDeviceList'[i].connection = gBleDeviceList[i].connection
         /\ gBleDeviceList[i].peer # radio.peer => gBleDeviceList'[i] = gBleDeviceList[i]
  BY <1>3, <1>4, <1>5 DEF B!ByConnection, B!ByAddress
<1>8. B!Places' = B!Places
  BY <1>6 DEF B!Places
<1>9. /\ radio' \in Radio /\ radio'.peer = radio.peer /\ radio'.link = radio.link
      /\ radio'.doing = "nothing" /\ radio'.scanning = radio.scanning
  BY <1>1 DEF Radio
<1>10. DoingFits'
  BY <1>9 DEF DoingFits
<1>11. WantedHasCharacteristic'
  BY <1>1, <1>7, <1>8 DEF DoingFits, WantedHasCharacteristic, B!WantedHasCharacteristic
<1>12. ScanResumes'
  BY <1>1, <1>7, <1>8, <1>9 DEF ScanResumes, B!ScanResumes
<1> QED
  BY <1>1, <1>6, <1>7, <1>9, <1>10, <1>11, <1>12, BleFieldsStep DEF LinkFits

\* A link, or the attempt at one, that ends is that of the one device of the
\* list that is not disconnected: the scan goes on.
LEMMA ActOnDisconnectStep ==
    ASSUME BleInv, bleAt = "running", radio.link # "none",
           NEW places, places = {i \in B!Places : gBleDeviceList[i].peer = radio.peer},
           B!ActOnDisconnect(places), UNCHANGED <<bleAt, gNextBleDeviceToRead, taken, handed>>
    PROVE  BleInv'
<1> DEFINE new(d) == [d EXCEPT !.connection = "disconnected",
                               !.state = IF /\ d.connection = "connecting"
                                            /\ d.state \in {"unknown", "discovered"}
                                            /\ d.attempts >= MaxDiscovery
                                         THEN "not wanted" ELSE @]
<1> USE DEF BleInv, BleTyped
<1>1. places # {}
  BY DEF LinkFits
<1>2. gBleDeviceList' =
         [i \in B!Places |-> IF i \in places THEN new(gBleDeviceList[i]) ELSE gBleDeviceList[i]]
  BY DEF B!ActOnDisconnect, B!Changed
<1>3. /\ radio' \in Radio /\ radio'.link = "none" /\ radio'.scanning /\ radio'.doing = "nothing"
  BY <1>1 DEF B!ActOnDisconnect, B!Scanning, B!NoRadio, Radio
<1>4. \A i \in B!Places : gBleDeviceList[i] \in Device
  BY DEF B!Places
<1>5. ASSUME NEW d \in Device
      PROVE  /\ new(d) \in Device /\ new(d).peer = d.peer /\ new(d).data = d.data
             /\ new(d).wantedChar = d.wantedChar /\ new(d).connection = "disconnected"
             /\ new(d).state = "wanted" => d.state = "wanted"
  BY DEF Device
<1> HIDE DEF new
<1>6. gBleDeviceList' \in [B!Places -> Device]
  BY <1>2, <1>4, <1>5
<1>7. \A i \in B!Places :
         /\ gBleDeviceList'[i].peer = gBleDeviceList[i].peer
         /\ gBleDeviceList'[i].data = gBleDeviceList[i].data
         /\ gBleDeviceList'[i].wantedChar = gBleDeviceList[i].wantedChar
         /\ gBleDeviceList'[i].state = "wanted" => gBleDeviceList[i].state = "wanted"
         /\ gBleDeviceList[i].peer = radio.peer => gBleDeviceList'[i].connection = "disconnected"
         /\ gBleDeviceList[i].peer # radio.peer => gBleDeviceList'[i] = gBleDeviceList[i]
  BY <1>2, <1>4, <1>5
<1>8. B!Places' = B!Places
  BY <1>6 DEF B!Places
<1>9. DoingFits'
  BY <1>3 DEF DoingFits
<1>10. WantedHasCharacteristic'
  BY <1>7, <1>8 DEF WantedHasCharacteristic, B!WantedHasCharacteristic
<1>11. ScanResumes'
  BY <1>3, <1>7, <1>8 DEF ScanResumes, B!ScanResumes
<1> QED
  BY <1>3, <1>6, <1>7, <1>9, <1>10, <1>11, BleFieldsStep

LEMMA DisconnectionStep ==
    ASSUME BleInv, B!Disconnection
    PROVE  BleInv'
<1>1. B!ByConnection = {i \in B!Places : gBleDeviceList[i].peer = radio.peer}
  BY DEF BleInv, ScanResumes, B!ScanResumes, B!Disconnection, B!ByConnection, B!ByAddress
<1> QED
  BY <1>1, ActOnDisconnectStep DEF B!Disconnection

LEMMA TimeoutStep ==
    ASSUME BleInv, B!Timeout
    PROVE  BleInv'
<1> DEFINE linked == {i \in B!Places : gBleDeviceList[i].peer = radio.peer}
           first == {i \in B!NotDisconnected : \A j \in B!NotDisconnected : i <= j}
<1>1. B!NotDisconnected = linked
  BY DEF BleInv, ScanResumes, B!ScanResumes, B!Timeout, B!NotDisconnected
<1>2. \A i, j \in linked : i = j
  BY DEF BleInv, OneEach
<1>3. \A i \in B!Places : i \in Nat
  BY DEF BleInv, BleTyped, B!Places
<1>4. first = linked
  BY <1>1, <1>2, <1>3
<1> HIDE DEF linked, first
<1>5. /\ bleAt = "running" /\ radio.link # "none" /\ B!ActOnDisconnect(first)
      /\ UNCHANGED <<bleAt, gNextBleDeviceToRead, taken, handed>>
  BY DEF B!Timeout, first
<1> QED
  BY <1>4, <1>5, ActOnDisconnectStep DEF linked

\* What any list of the devices comes to that is like the one there is, with
\* every device disconnected but one at most, to which there is the link.
LEMMA AttemptStep ==
    ASSUME BleTyped, bleAt = "running", UNCHANGED <<bleAt, taken, handed>>,
           gNextBleDeviceToRead' \in 0 .. MaxDevices - 1,
           \A q \in Peer : handed[q] <= taken[q],
           NEW list \in Seq(Device), Len(list) <= MaxDevices,
           \A i, j \in DOMAIN list : list[i].peer = list[j].peer => i = j,
           \A q \in Peer : (\A i \in DOMAIN list : list[i].peer # q) => taken[q] = 0,
           \A i \in DOMAIN list :
              /\ list[i].connection = "disconnected"
              /\ list[i].state = "wanted" => list[i].wantedChar
              /\ list[i].data = [n \in 1 .. taken[list[i].peer] - handed[list[i].peer] |-> handed[list[i].peer] + n],
           NEW k \in DOMAIN list, NEW tries \in 0 .. MaxDiscovery,
           gBleDeviceList' = [list EXCEPT ![k] = [list[k] EXCEPT !.connection = "connecting", !.attempts = tries]],
           B!ConnectTo(list[k].peer)
    PROVE  BleInv'
<1> DEFINE new == [list[k] EXCEPT !.connection = "connecting", !.attempts = tries]
<1>0. list[k] \in Device
  OBVIOUS
<1>1. /\ new \in Device /\ new.peer = list[k].peer /\ new.data = list[k].data /\ new.state = list[k].state
      /\ new.wantedChar = list[k].wantedChar /\ new.connection = "connecting"
  BY <1>0 DEF Device
<1> HIDE DEF new
<1>2. /\ gBleDeviceList' \in Seq(Device) /\ Len(gBleDeviceList') = Len(list)
      /\ DOMAIN gBleDeviceList' = DOMAIN list /\ B!Places' = DOMAIN list
  BY <1>1 DEF new, B!Places
<1>3. \A i \in DOMAIN list :
         /\ gBleDeviceList'[i].peer = list[i].peer /\ gBleDeviceList'[i].data = list[i].data
         /\ gBleDeviceList'[i].state = list[i].state /\ gBleDeviceList'[i].wantedChar = list[i].wantedChar
         /\ gBleDeviceList'[i].connection = IF i = k THEN "connecting" ELSE list[i].connection
  BY <1>1 DEF new
<1>4. list[k].peer \in Peer
  BY <1>0 DEF Device
<1>5. /\ radio' \in Radio /\ radio'.link = "connecting" /\ radio'.peer = list[k].peer
      /\ radio'.doing = "nothing" /\ radio'.scanning = FALSE
  BY <1>4 DEF B!ConnectTo, B!NoRadio, Radio
<1>6. BleTyped'
  BY <1>2, <1>5 DEF BleTyped
<1>7. OneEach'
  BY <1>2, <1>3 DEF OneEach
<1>8. DoingFits'
  BY <1>5 DEF DoingFits
<1>9. LinkFits'
  BY <1>2, <1>3, <1>5 DEF LinkFits
<1>10. StoreFits'
  BY <1>2, <1>3 DEF StoreFits
<1>11. WantedHasCharacteristic'
  BY <1>2, <1>3 DEF WantedHasCharacteristic, B!WantedHasCharacteristic
<1>12. ReadingsAccounted'
  BY <1>2, <1>3 DEF ReadingsAccounted, B!ReadingsAccounted
<1>13. ScanResumes'
  <2>1. ASSUME NEW i \in DOMAIN list
        PROVE  gBleDeviceList'[i].connection
                 = IF gBleDeviceList'[i].peer = radio'.peer /\ radio'.link # "none"
                   THEN radio'.link ELSE "disconnected"
    <3>1. CASE i = k
      BY <1>3, <1>5, <3>1
    <3>2. CASE i # k
      <4>1. list[i].peer # list[k].peer
        BY <3>2
      <4> QED
        BY <1>3, <1>5, <3>2, <4>1
    <3> QED
      BY <3>1, <3>2
  <2> QED
    BY <1>2, <1>5, <2>1 DEF ScanResumes, B!ScanResumes
<1> QED
  BY <1>6, <1>7, <1>8, <1>9, <1>10, <1>11, <1>12, <1>13 DEF BleInv

LEMMA AdvertisementStep ==
    ASSUME BleInv, NEW p \in Peer, B!Advertisement(p)
    PROVE  BleInv'
<1> DEFINE list == IF B!ByAddress(p) # {} THEN gBleDeviceList ELSE Append(gBleDeviceList, B!NewDevice(p))
           k == CHOOSE i \in DOMAIN list : list[i].peer = p
           tries == IF list[k].attempts < MaxDiscovery THEN list[k].attempts + 1 ELSE MaxDiscovery
<1>1. /\ bleAt = "running" /\ radio.scanning /\ UNCHANGED <<bleAt, gNextBleDeviceToRead, taken, handed>>
      /\ B!ByAddress(p) # {} \/ Len(gBleDeviceList) < MaxDevices
      /\ \/ /\ gBleDeviceList' = [list EXCEPT ![k].connection = "connecting", ![k].attempts = tries]
            /\ B!ConnectTo(p)
         \/ gBleDeviceList' = list /\ UNCHANGED radio
  BY DEF B!Advertisement
<1>2. radio.link = "none" /\ radio.doing = "nothing"
      /\ \A i \in B!Places : gBleDeviceList[i].connection = "disconnected"
  BY <1>1 DEF BleInv, DoingFits, ScanResumes, B!ScanResumes
<1>3. B!NewDevice(p) \in Device
  BY BleAssumption DEF B!NewDevice, Device
<1>4. list \in Seq(Device) /\ Len(list) <= MaxDevices
  <2>1. gBleDeviceList \in Seq(Device) /\ Len(gBleDeviceList) <= MaxDevices
    BY DEF BleInv, BleTyped
  <2>2. /\ Append(gBleDeviceList, B!NewDevice(p)) \in Seq(Device)
        /\ Len(Append(gBleDeviceList, B!NewDevice(p))) = Len(gBleDeviceList) + 1
    BY <1>3, <2>1
  <2>3. MaxDevices \in Nat /\ Len(gBleDeviceList) \in Nat
    BY <2>1, BleAssumption
  <2>4. CASE B!ByAddress(p) # {}
    BY <2>1, <2>4
  <2>5. CASE B!ByAddress(p) = {}
    <3>. DEFINE held == Len(gBleDeviceList)
    <3>a. held < MaxDevices
      BY <1>1, <2>5, Zenon
    <3>1. held + 1 <= MaxDevices
      <4>1. held \in Nat /\ MaxDevices \in Nat
        BY <2>3
      <4> HIDE DEF held
      <4> QED
        BY <3>a, <4>1
    <3>2. list = Append(gBleDeviceList, B!NewDevice(p))
      BY <2>5
    <3> HIDE DEF list
    <3> QED
      BY <2>2, <3>1, <3>2
  <2> QED
    BY <2>4, <2>5
<1>5. CASE B!ByAddress(p) # {}
  <2>1. list = gBleDeviceList
    BY <1>5
  <2>2. \E i \in DOMAIN list : list[i].peer = p
    BY <1>5, <2>1 DEF B!ByAddress, B!Places
  <2>3. k \in DOMAIN list /\ list[k].peer = p
    BY <2>2
  <2>4. list[k] \in Device /\ tries \in 0 .. MaxDiscovery
    <3> HIDE DEF list, k
    <3>1. list[k] \in Device
      BY <1>4, <2>3
    <3>2. list[k].attempts \in 0 .. MaxDiscovery
      BY <3>1 DEF Device
    <3> QED
      BY <3>1, <3>2, BleAssumption
  <2> HIDE DEF list, k, tries
  <2>5. CASE gBleDeviceList' = list /\ UNCHANGED radio
    BY <1>1, <2>1, <2>5 DEF BleInv, BleTyped, OneEach, DoingFits, LinkFits, StoreFits, B!Places,
       WantedHasCharacteristic, B!WantedHasCharacteristic, ReadingsAccounted, B!ReadingsAccounted,
       ScanResumes, B!ScanResumes
  <2>6. CASE /\ gBleDeviceList' = [list EXCEPT ![k].connection = "connecting", ![k].attempts = tries]
             /\ B!ConnectTo(p)
    <3>1. gBleDeviceList' =
             [list EXCEPT ![k] = [list[k] EXCEPT !.connection = "connecting", !.attempts = tries]]
      BY <2>6, <2>3, <2>4, <1>4 DEF Device
    <3>2. gNextBleDeviceToRead' \in 0 .. MaxDevices - 1
      BY <1>1 DEF BleInv, BleTyped
    <3>3. \A i \in DOMAIN list :
            /\ list[i].connection = "disconnected"
            /\ list[i].state = "wanted" => list[i].wantedChar
            /\ list[i].data = [n \in 1 .. taken[list[i].peer] - handed[list[i].peer] |->
                                handed[list[i].peer] + n]
      BY <1>2, <2>1 DEF BleInv, B!Places, WantedHasCharacteristic, B!WantedHasCharacteristic,
         ReadingsAccounted, B!ReadingsAccounted
    <3>4. /\ \A q \in Peer : handed[q] <= taken[q]
          /\ \A q \in Peer : (\A i \in DOMAIN list : list[i].peer # q) => taken[q] = 0
          /\ \A i, j \in DOMAIN list : list[i].peer = list[j].peer => i = j
      BY <2>1 DEF BleInv, StoreFits, OneEach, B!Places
    <3>5. BleTyped
      BY DEF BleInv
    <3> QED
      BY <1>1, <1>4, <2>3, <2>4, <2>6, <3>1, <3>2, <3>3, <3>4, <3>5, AttemptStep
  <2> QED
    BY <1>1, <2>5, <2>6 DEF list, k, tries
<1>6. CASE B!ByAddress(p) = {}
  <2> DEFINE m == Len(gBleDeviceList) + 1
  <2>1. /\ list = Append(gBleDeviceList, B!NewDevice(p)) /\ DOMAIN list = 1 .. m /\ B!Places = 1 .. m - 1
        /\ gBleDeviceList \in Seq(Device) /\ m \in Nat /\ m \in DOMAIN list
    BY <1>3, <1>6 DEF BleInv, BleTyped, B!Places
  <2>2. list[m] = B!NewDevice(p) /\ \A i \in B!Places : list[i] = gBleDeviceList[i]
    BY <1>3, <2>1
  <2>3. /\ list[m].peer = p /\ list[m].connection = "disconnected" /\ list[m].state = "unknown"
        /\ list[m].wantedChar = FALSE /\ list[m].data = <<>> /\ list[m].attempts = 0
    BY <2>2 DEF B!NewDevice
  <2>4. \A i \in B!Places : gBleDeviceList[i].peer # p
    BY <1>6 DEF B!ByAddress
  <2>5. taken[p] = 0 /\ handed[p] = 0
    BY <2>4 DEF BleInv, BleTyped, StoreFits
  <2>6. k = m
    BY <2>1, <2>2, <2>3, <2>4
  <2>7. \A i \in DOMAIN list : i # m => i \in B!Places
    BY <2>1
  <2>8. \A i \in DOMAIN list :
          /\ list[i].connection = "disconnected"
          /\ list[i].state = "wanted" => list[i].wantedChar
    BY <1>2, <2>2, <2>3, <2>7 DEF BleInv, WantedHasCharacteristic, B!WantedHasCharacteristic
  <2>9. \A i \in DOMAIN list :
          list[i].data = [n \in 1 .. taken[list[i].peer] - handed[list[i].peer] |-> handed[list[i].peer] + n]
    <3>1. list[m].data = [n \in 1 .. taken[p] - handed[p] |-> handed[p] + n]
      BY <2>3, <2>5
    <3>2. \A i \in B!Places :
             list[i].data = [n \in 1 .. taken[list[i].peer] - handed[list[i].peer] |-> handed[list[i].peer] + n]
      BY <2>2 DEF BleInv, ReadingsAccounted, B!ReadingsAccounted
    <3> QED
      BY <2>3, <2>7, <3>1, <3>2
  <2>10. \A i, j \in DOMAIN list : list[i].peer = list[j].peer => i = j
    BY <2>2, <2>3, <2>4, <2>7 DEF BleInv, OneEach
  <2>11. /\ \A q \in Peer : handed[q] <= taken[q]
         /\ \A q \in Peer : (\A i \in DOMAIN list : list[i].peer # q) => taken[q] = 0
    BY <2>1, <2>2 DEF BleInv, StoreFits
  <2>12. tries \in 0 .. MaxDiscovery
    <3>1. list[k].attempts = 0
      BY <2>3, <2>6
    <3> HIDE DEF list, k
    <3> QED
      BY <3>1, BleAssumption
  <2>13. BleTyped /\ gNextBleDeviceToRead' \in 0 .. MaxDevices - 1
    BY <1>1 DEF BleInv, BleTyped
  <2> HIDE DEF list, k, tries, m
  <2>14. CASE gBleDeviceList' = list /\ UNCHANGED radio
    <3>1. B!Places' = DOMAIN list
      BY <2>14 DEF B!Places
    <3>2. BleTyped'
      BY <1>1, <1>4, <2>14 DEF BleInv, BleTyped
    <3>3. OneEach'
      BY <2>10, <2>14, <3>1 DEF OneEach
    <3>4. DoingFits' /\ LinkFits'
      BY <1>1, <1>2, <2>14 DEF DoingFits, LinkFits
    <3>5. StoreFits'
      BY <1>1, <2>11, <2>14, <3>1 DEF StoreFits
    <3>6. WantedHasCharacteristic'
      BY <2>8, <2>14, <3>1 DEF WantedHasCharacteristic, B!WantedHasCharacteristic
    <3>7. ReadingsAccounted'
      BY <1>1, <2>9, <2>14, <3>1 DEF ReadingsAccounted, B!ReadingsAccounted
    <3>8. ScanResumes'
      BY <1>1, <1>2, <2>8, <2>14, <3>1 DEF ScanResumes, B!ScanResumes
    <3> QED
      BY <3>2, <3>3, <3>4, <3>5, <3>6, <3>7, <3>8 DEF BleInv
  <2>15. CASE /\ gBleDeviceList' = [list EXCEPT ![k].connection = "connecting", ![k].attempts = tries]
              /\ B!ConnectTo(p)
    <3>1. gBleDeviceList' =
             [list EXCEPT ![k] = [list[k] EXCEPT !.connection = "connecting", !.attempts = tries]]
      BY <2>15, <2>1, <2>6, <1>4 DEF Device
    <3>2. k \in DOMAIN list /\ list[k].peer = p
      BY <2>1, <2>3, <2>6
    <3> QED
      BY <1>1, <1>4, <2>8, <2>9, <2>10, <2>11, <2>12, <2>13, <2>15, <3>1, <3>2, AttemptStep
  <2> QED
    BY <1>1, <2>14, <2>15 DEF list, k, tries
<1> QED
  BY <1>5, <1>6

\* The readings stored and not handed on yet, by their number.
Stored(t, h) == [n \in 1 .. t - h |-> h + n]

LEMMA AccountedIsStored ==
    /\ ReadingsAccounted <=>
          \A i \in B!Places :
             gBleDeviceList[i].data = Stored(taken[gBleDeviceList[i].peer], handed[gBleDeviceList[i].peer])
    /\ ReadingsAccounted' <=>
          \A i \in B!Places' :
             gBleDeviceList'[i].data = Stored(taken'[gBleDeviceList'[i].peer], handed'[gBleDeviceList'[i].peer])
BY DEF ReadingsAccounted, B!ReadingsAccounted, Stored

\* One more is at the end, and some are gone from the front.
LEMMA StoredChanges ==
    ASSUME NEW t \in Nat, NEW h \in Nat, h <= t
    PROVE  /\ Stored(t, h) \in Seq(Nat) /\ Len(Stored(t, h)) = t - h
           /\ Append(Stored(t, h), t + 1) = Stored(t + 1, h)
           /\ \A n \in 0 .. t - h : SubSeq(Stored(t, h), n + 1, t - h) = Stored(t, h + n)
BY DEF Stored

\* One more reading is stored at the end of the device's list, or none.
LEMMA ReadWantedValueStep ==
    ASSUME BleInv, B!ReadWantedValue
    PROVE  BleInv'
<1> USE DEF BleInv, BleTyped
<1>1. /\ bleAt = "running" /\ bleAt' = "running"
      /\ radio' = [radio EXCEPT !.doing = "nothing"]
      /\ UNCHANGED <<gNextBleDeviceToRead, handed>>
  BY DEF B!ReadWantedValue
<1>2. /\ radio' \in Radio /\ radio'.peer = radio.peer /\ radio'.link = radio.link
      /\ radio'.doing = "nothing" /\ radio'.scanning = radio.scanning
  BY <1>1 DEF Radio
<1>3. DoingFits'
  BY <1>2 DEF DoingFits
<1>4. CASE UNCHANGED <<gBleDeviceList, taken>>
  <2>1. B!Places' = B!Places
    BY <1>4 DEF B!Places
  <2>2. ScanResumes'
    BY <1>1, <1>2, <1>4, <2>1 DEF ScanResumes, B!ScanResumes
  <2>3. /\ OneEach' /\ LinkFits' /\ StoreFits'
        /\ WantedHasCharacteristic' /\ ReadingsAccounted'
    BY <1>1, <1>2, <1>4, <2>1 DEF OneEach, LinkFits, StoreFits,
       WantedHasCharacteristic, B!WantedHasCharacteristic, ReadingsAccounted, B!ReadingsAccounted
  <2>4. BleTyped'
    BY <1>1, <1>2, <1>4
  <2> QED
    BY <1>3, <2>2, <2>3, <2>4
<1>5. CASE /\ B!ByConnection # {} /\ taken[radio.peer] < MaxReadings
           /\ taken' = [taken EXCEPT ![radio.peer] = @ + 1]
           /\ gBleDeviceList' =
                 B!Changed(B!ByConnection, LAMBDA d : [d EXCEPT !.data = Append(@, taken[radio.peer] + 1)])
  <2> DEFINE new(d) == [d EXCEPT !.data = Append(@, taken[radio.peer] + 1)]
  <2>1. gBleDeviceList' =
           [i \in B!Places |-> IF i \in B!ByConnection THEN new(gBleDeviceList[i]) ELSE gBleDeviceList[i]]
    BY <1>5 DEF B!Changed
  <2>2. PICK k \in B!Places : k \in B!ByConnection /\ gBleDeviceList[k].peer = radio.peer
    BY <1>5 DEF B!ByConnection, B!ByAddress
  <2>3. \A i \in B!Places : gBleDeviceList[i] \in Device /\ gBleDeviceList[i].peer \in Peer
    <3>1. \A i \in B!Places : gBleDeviceList[i] \in Device
      BY DEF B!Places
    <3> QED
      BY <3>1 DEF Device
  <2>4. \A i \in B!Places : /\ i \in B!ByConnection <=> i = k
                            /\ i # k => gBleDeviceList[i].peer # radio.peer
    BY <2>2 DEF OneEach, B!ByConnection, B!ByAddress
  <2>5. radio.peer \in Peer
    BY <2>2, <2>3
  <2> DEFINE t == taken[radio.peer]
             h == handed[radio.peer]
  <2>6. t \in Nat /\ h \in Nat /\ h <= t /\ t + 1 <= MaxReadings /\ t < MaxReadings
    BY <1>5, <2>5, BleAssumption DEF StoreFits
  <2>7. /\ taken' \in [Peer -> 0 .. MaxReadings] /\ taken'[radio.peer] = t + 1
        /\ \A q \in Peer : q # radio.peer => taken'[q] = taken[q]
    <3> DEFINE more == t + 1
    <3>1. more \in 0 .. MaxReadings /\ taken' = [taken EXCEPT ![radio.peer] = more]
      BY <1>5, <2>6, BleAssumption
    <3> HIDE DEF more
    <3>2. taken' \in [Peer -> 0 .. MaxReadings] /\ taken'[radio.peer] = more
          /\ \A q \in Peer : q # radio.peer => taken'[q] = taken[q]
      BY <2>5, <3>1
    <3> QED
      BY <3>2 DEF more
  <2>8. ASSUME NEW d \in Device
        PROVE  /\ new(d) \in Device /\ new(d).peer = d.peer /\ new(d).state = d.state
               /\ new(d).wantedChar = d.wantedChar /\ new(d).connection = d.connection
               /\ new(d).data = Append(d.data, t + 1)
    <3> HIDE DEF t
    <3>1. d.data \in Seq(Nat) /\ t + 1 \in Nat
      <4>1. d.data \in Seq(Nat)
        BY DEF Device
      <4> QED
        BY <2>6, <4>1
    <3>2. Append(d.data, t + 1) \in Seq(Nat)
      BY <3>1
    <3> DEFINE x == Append(d.data, t + 1)
    <3>3. x \in Seq(Nat) /\ new(d) = [d EXCEPT !.data = x]
      BY <3>2 DEF t
    <3> HIDE DEF x, new
    <3>4. /\ new(d) \in Device /\ new(d).peer = d.peer /\ new(d).state = d.state
          /\ new(d).wantedChar = d.wantedChar /\ new(d).connection = d.connection
          /\ new(d).data = x
      BY <3>3 DEF Device
    <3> QED
      BY <3>4 DEF x
  <2> HIDE DEF new
  <2>9. gBleDeviceList' \in [B!Places -> Device]
    BY <2>1, <2>3, <2>8
  <2>10. gBleDeviceList' \in Seq(Device) /\ Len(gBleDeviceList') = Len(gBleDeviceList)
         /\ B!Places' = B!Places
    BY <2>9, SameLength DEF B!Places
  <2>11. \A i \in B!Places :
           /\ gBleDeviceList'[i].peer = gBleDeviceList[i].peer
           /\ gBleDeviceList'[i].state = gBleDeviceList[i].state
           /\ gBleDeviceList'[i].wantedChar = gBleDeviceList[i].wantedChar
           /\ gBleDeviceList'[i].connection = gBleDeviceList[i].connection
           /\ i # k => gBleDeviceList'[i].data = gBleDeviceList[i].data
    BY <2>1, <2>3, <2>4, <2>8
  <2>12. gBleDeviceList'[k].data = Stored(t + 1, h)
    <3>1. gBleDeviceList'[k].data = Append(gBleDeviceList[k].data, t + 1)
      BY <2>1, <2>2, <2>3, <2>8
    <3>2. gBleDeviceList[k].data = Stored(t, h)
      BY <2>2, AccountedIsStored
    <3> QED
      BY <2>6, <3>1, <3>2, StoredChanges
  <2>13. BleTyped'
    BY <1>1, <1>2, <2>7, <2>10
  <2>14. OneEach' /\ LinkFits'
    BY <1>1, <1>2, <2>10, <2>11 DEF OneEach, LinkFits
  <2>15. StoreFits'
    <3>1. ASSUME NEW q \in Peer PROVE handed'[q] <= taken'[q]
      <4>1. CASE q = radio.peer
        BY <1>1, <2>6, <2>7, <4>1
      <4>2. CASE q # radio.peer
        BY <1>1, <2>7, <4>2 DEF StoreFits
      <4> QED
        BY <4>1, <4>2
    <3>2. \A q \in Peer : (\A i \in B!Places : gBleDeviceList[i].peer # q) => q # radio.peer
      BY <2>2
    <3> QED
      BY <2>7, <2>10, <2>11, <3>1, <3>2 DEF StoreFits
  <2>16. WantedHasCharacteristic'
    BY <2>10, <2>11 DEF WantedHasCharacteristic, B!WantedHasCharacteristic
  <2>17. ScanResumes'
    BY <1>1, <1>2, <2>10, <2>11 DEF ScanResumes, B!ScanResumes
  <2>18. ReadingsAccounted'
    <3>1. ASSUME NEW i \in B!Places
          PROVE  gBleDeviceList'[i].data
                    = Stored(taken'[gBleDeviceList'[i].peer], handed'[gBleDeviceList'[i].peer])
      <4>1. CASE i = k
        BY <1>1, <2>2, <2>7, <2>11, <2>12, <4>1
      <4>2. CASE i # k
        <5>1. taken'[gBleDeviceList[i].peer] = taken[gBleDeviceList[i].peer]
          BY <2>3, <2>4, <2>7, <4>2
        <5>2. gBleDeviceList[i].data
                 = Stored(taken[gBleDeviceList[i].peer], handed[gBleDeviceList[i].peer])
          BY AccountedIsStored
        <5> QED
          BY <1>1, <2>11, <4>2, <5>1, <5>2
      <4> QED
        BY <4>1, <4>2
    <3> QED
      BY <2>10, <3>1, AccountedIsStored
  <2> QED
    BY <1>3, <2>13, <2>14, <2>15, <2>16, <2>17, <2>18
<1> QED
  BY <1>4, <1>5 DEF B!ReadWantedValue

\* What is handed on comes from the front of a device's list, in order.
LEMMA CheckProgressStep ==
    ASSUME BleInv, B!CheckProgress
    PROVE  BleInv'
<1> DEFINE asked(i) == gBleDeviceList[i].state = "wanted" /\ gBleDeviceList[i].named
           stored(i) == Stored(taken[gBleDeviceList[i].peer], handed[gBleDeviceList[i].peer])
<1> USE DEF BleInv, BleTyped
<1>1. /\ bleAt = "running" /\ UNCHANGED <<bleAt, gNextBleDeviceToRead, radio, taken>>
  BY DEF B!CheckProgress
<1>2. PICK n \in [B!Places -> 0 .. MaxReadings] :
         /\ \A i \in B!Places : n[i] <= IF asked(i) THEN Len(gBleDeviceList[i].data) ELSE 0
         /\ gBleDeviceList' =
               [i \in B!Places |-> IF asked(i)
                                  THEN [gBleDeviceList[i] EXCEPT !.data = B!Left(gBleDeviceList[i], n[i])]
                                  ELSE gBleDeviceList[i]]
         /\ handed' = [p \in Peer |-> handed[p] + IF B!ByAddress(p) = {} THEN 0
                                                  ELSE n[CHOOSE i \in B!ByAddress(p) : TRUE]]
  BY DEF B!CheckProgress
<1>3. \A i \in B!Places : gBleDeviceList[i] \in Device
  BY DEF B!Places
<1>4. \A i \in B!Places : gBleDeviceList[i].peer \in Peer
  BY <1>3 DEF Device
<1>5. \A p \in Peer : taken[p] \in Nat /\ handed[p] \in Nat /\ handed[p] <= taken[p] /\ taken[p] <= MaxReadings
  BY BleAssumption DEF StoreFits
<1>6. \A i \in B!Places : n[i] \in Nat
  BY <1>2, BleAssumption
<1>7. ASSUME NEW i \in B!Places
      PROVE  handed'[gBleDeviceList[i].peer] = handed[gBleDeviceList[i].peer] + n[i]
  <2> DEFINE p == gBleDeviceList[i].peer
  <2>1. p \in Peer
    BY <1>4
  <2>2. B!ByAddress(p) = {i}
    BY DEF OneEach, B!ByAddress
  <2>3. (CHOOSE j \in B!ByAddress(p) : TRUE) = i
    BY <2>2
  <2> HIDE DEF p
  <2>4. handed'[p] = handed[p] + n[i]
    BY <1>2, <2>1, <2>2, <2>3
  <2> QED
    BY <2>4 DEF p
<1>8. ASSUME NEW p \in Peer, \A i \in B!Places : gBleDeviceList[i].peer # p
      PROVE  handed'[p] = handed[p]
  <2>1. B!ByAddress(p) = {}
    BY <1>8 DEF B!ByAddress
  <2>2. handed'[p] = handed[p] + 0
    BY <1>2, <2>1
  <2> QED
    BY <1>5, <2>2
<1>9. ASSUME NEW i \in B!Places
      PROVE  /\ gBleDeviceList[i].data = stored(i) /\ stored(i) \in Seq(Nat)
             /\ Len(gBleDeviceList[i].data) = taken[gBleDeviceList[i].peer] - handed[gBleDeviceList[i].peer]
             /\ n[i] <= taken[gBleDeviceList[i].peer] - handed[gBleDeviceList[i].peer]
             /\ ~asked(i) => n[i] = 0
  <2>1. gBleDeviceList[i].data = stored(i)
    BY AccountedIsStored
  <2>2. /\ stored(i) \in Seq(Nat)
        /\ Len(stored(i)) = taken[gBleDeviceList[i].peer] - handed[gBleDeviceList[i].peer]
    BY <1>4, <1>5, StoredChanges
  <2> QED
    BY <1>2, <1>4, <1>5, <1>6, <2>1, <2>2
<1>10. ASSUME NEW i \in B!Places
       PROVE  /\ gBleDeviceList'[i] \in Device
              /\ gBleDeviceList'[i].peer = gBleDeviceList[i].peer
              /\ gBleDeviceList'[i].state = gBleDeviceList[i].state
              /\ gBleDeviceList'[i].wantedChar = gBleDeviceList[i].wantedChar
              /\ gBleDeviceList'[i].connection = gBleDeviceList[i].connection
              /\ gBleDeviceList'[i].data
                    = Stored(taken[gBleDeviceList[i].peer], handed[gBleDeviceList[i].peer] + n[i])
  <2> DEFINE t == taken[gBleDeviceList[i].peer]
             h == handed[gBleDeviceList[i].peer]
             x == Stored(t, h + n[i])
  <2>1. t \in Nat /\ h \in Nat /\ h <= t /\ n[i] \in Nat /\ n[i] <= t - h
    BY <1>4, <1>5, <1>6, <1>9
  <2> HIDE DEF t, h
  <2>2. x \in Seq(Nat)
    <3>1. h + n[i] \in Nat /\ h + n[i] <= t
      BY <2>1
    <3> QED
      BY <2>1, <3>1, StoredChanges
  <2>3. B!Left(gBleDeviceList[i], n[i]) = x
    <3>1. n[i] \in 0 .. t - h
      BY <2>1
    <3>2. SubSeq(Stored(t, h), n[i] + 1, t - h) = x
      BY <2>1, <3>1, StoredChanges
    <3>3. gBleDeviceList[i].data = Stored(t, h) /\ Len(gBleDeviceList[i].data) = t - h
      BY <1>9 DEF t, h
    <3> QED
      BY <3>2, <3>3 DEF B!Left
  <2>4. asked(i) => gBleDeviceList'[i] = [gBleDeviceList[i] EXCEPT !.data = x]
    BY <1>2, <2>3
  <2>5. ~asked(i) => gBleDeviceList'[i] = gBleDeviceList[i] /\ gBleDeviceList[i].data = x
    BY <1>2, <1>9, <2>1 DEF t, h
  <2> HIDE DEF x, asked
  <2>6. /\ gBleDeviceList'[i] \in Device
        /\ gBleDeviceList'[i].peer = gBleDeviceList[i].peer
        /\ gBleDeviceList'[i].state = gBleDeviceList[i].state
        /\ gBleDeviceList'[i].wantedChar = gBleDeviceList[i].wantedChar
        /\ gBleDeviceList'[i].connection = gBleDeviceList[i].connection
        /\ gBleDeviceList'[i].data = x
    <3>1. CASE asked(i)
      BY <1>3, <2>2, <2>4, <3>1 DEF Device
    <3>2. CASE ~asked(i)
      BY <1>3, <2>5, <3>2
    <3> QED
      BY <3>1, <3>2
  <2> QED
    BY <2>6 DEF x, t, h
<1>11. gBleDeviceList' \in Seq(Device) /\ Len(gBleDeviceList') = Len(gBleDeviceList)
       /\ B!Places' = B!Places
  <2>1. gBleDeviceList' \in [B!Places -> Device]
    BY <1>2, <1>10
  <2> QED
    BY <2>1, SameLength DEF B!Places
<1>12. \A p \in Peer : handed'[p] \in Nat /\ handed'[p] <= taken[p]
  <2> TAKE p \in Peer
  <2>1. CASE \E i \in B!Places : gBleDeviceList[i].peer = p
    BY <1>5, <1>6, <1>7, <1>9, <2>1
  <2>2. CASE \A i \in B!Places : gBleDeviceList[i].peer # p
    BY <1>5, <1>8, <2>2
  <2> QED
    BY <2>1, <2>2
<1>13. BleTyped'
  <2>1. \A p \in Peer : handed'[p] \in 0 .. MaxReadings
    BY <1>5, <1>12, BleAssumption
  <2>2. handed' = [p \in Peer |-> handed'[p]]
    BY <1>2
  <2>3. handed' \in [Peer -> 0 .. MaxReadings]
    BY <2>1, <2>2
  <2> QED
    BY <1>1, <1>11, <2>3
<1>14. OneEach' /\ LinkFits' /\ DoingFits'
  <2>1. OneEach'
    BY <1>10, <1>11 DEF OneEach
  <2>2. LinkFits'
    BY <1>1, <1>10, <1>11 DEF LinkFits
  <2>3. DoingFits'
    BY <1>1, <1>10, <1>11 DEF DoingFits
  <2> QED
    BY <2>1, <2>2, <2>3
<1>15. StoreFits'
  BY <1>1, <1>10, <1>11, <1>12 DEF StoreFits
<1>16. WantedHasCharacteristic' /\ ScanResumes'
  BY <1>1, <1>10, <1>11 DEF WantedHasCharacteristic, B!WantedHasCharacteristic, ScanResumes, B!ScanResumes
<1>17. ReadingsAccounted'
  BY <1>1, <1>7, <1>10, <1>11, AccountedIsStored
<1> QED
  BY <1>13, <1>14, <1>15, <1>16, <1>17

LEMMA GetBleReadingsStep ==
    ASSUME BleInv, B!GetBleReadings
    PROVE  BleInv'
<1>1. /\ bleAt = "running" /\ UNCHANGED <<bleAt, taken, handed>>
      /\ gNextBleDeviceToRead' \in 0 .. MaxDevices - 1
  <2>1. Len(gBleDeviceList) \in Nat /\ Len(gBleDeviceList) <= MaxDevices
        /\ gNextBleDeviceToRead \in 0 .. MaxDevices - 1
    BY DEF BleInv, BleTyped
  <2> QED
    BY <2>1, BleAssumption DEF B!GetBleReadings
<1>2. CASE UNCHANGED <<gBleDeviceList, radio>>
  BY <1>1, <1>2 DEF BleInv, BleTyped, OneEach, DoingFits, LinkFits, StoreFits, B!Places,
     WantedHasCharacteristic, B!WantedHasCharacteristic, ReadingsAccounted, B!ReadingsAccounted,
     ScanResumes, B!ScanResumes
<1>3. ASSUME NEW k \in B!Places, radio.link = "none",
             gBleDeviceList' = B!Changed({k}, LAMBDA d : [d EXCEPT !.connection = "connecting"]),
             B!ConnectTo(gBleDeviceList[k].peer)
      PROVE  BleInv'
  <2>1. gBleDeviceList \in Seq(Device) /\ k \in DOMAIN gBleDeviceList /\ gBleDeviceList[k] \in Device
    BY DEF BleInv, BleTyped, B!Places
  <2> DEFINE tries == gBleDeviceList[k].attempts
  <2>2. tries \in 0 .. MaxDiscovery
    BY <2>1 DEF Device
  <2>3. gBleDeviceList' =
           [gBleDeviceList EXCEPT ![k] = [gBleDeviceList[k] EXCEPT !.connection = "connecting"]]
    BY <1>3, <2>1 DEF B!Changed, B!Places
  <2>4. [gBleDeviceList[k] EXCEPT !.connection = "connecting"]
          = [gBleDeviceList[k] EXCEPT !.connection = "connecting", !.attempts = tries]
    BY <2>1 DEF Device
  <2>5. \A i \in DOMAIN gBleDeviceList :
          /\ gBleDeviceList[i].connection = "disconnected"
          /\ gBleDeviceList[i].state = "wanted" => gBleDeviceList[i].wantedChar
          /\ gBleDeviceList[i].data = [n \in 1 .. taken[gBleDeviceList[i].peer] - handed[gBleDeviceList[i].peer] |->
                                       handed[gBleDeviceList[i].peer] + n]
    BY <1>1, <1>3 DEF BleInv, B!Places, WantedHasCharacteristic, B!WantedHasCharacteristic,
       ReadingsAccounted, B!ReadingsAccounted, ScanResumes, B!ScanResumes
  <2>6. /\ \A q \in Peer : handed[q] <= taken[q]
        /\ \A q \in Peer : (\A i \in DOMAIN gBleDeviceList : gBleDeviceList[i].peer # q) => taken[q] = 0
        /\ \A i, j \in DOMAIN gBleDeviceList : gBleDeviceList[i].peer = gBleDeviceList[j].peer => i = j
    BY DEF BleInv, StoreFits, OneEach, B!Places
  <2>7. BleTyped /\ Len(gBleDeviceList) <= MaxDevices
    BY DEF BleInv, BleTyped
  <2> HIDE DEF tries
  <2> QED
    BY <1>1, <1>3, <2>1, <2>2, <2>3, <2>4, <2>5, <2>6, <2>7, AttemptStep
<1> QED
  BY <1>2, <1>3 DEF B!GetBleReadings

LEMMA BleStep ==
    ASSUME BleInv, [B!Next]_ble
    PROVE  BleInv'
<1> USE DEF BleInv, BleTyped
<1>1. CASE UNCHANGED ble
  BY <1>1 DEF ble, OneEach, DoingFits, LinkFits, StoreFits, B!Places,
     WantedHasCharacteristic, B!WantedHasCharacteristic, ReadingsAccounted, B!ReadingsAccounted,
     ScanResumes, B!ScanResumes
<1>2. CASE B!Begin
  BY <1>2, BleAssumption DEF B!Begin, OneEach, DoingFits, LinkFits, StoreFits, B!Places, B!NoRadio,
     WantedHasCharacteristic, B!WantedHasCharacteristic, ReadingsAccounted, B!ReadingsAccounted,
     ScanResumes, B!ScanResumes
<1>3. CASE B!InitComplete
  <2>1. /\ radio' \in Radio /\ radio'.doing = "nothing" /\ radio'.link = "none" /\ gBleDeviceList = <<>>
        /\ bleAt' = "running" => radio'.scanning
    <3>1. radio = B!NoRadio /\ gBleDeviceList = <<>>
      BY <1>3 DEF B!InitComplete, LinkFits
    <3>2. /\ B!NoRadio \in Radio /\ B!NoRadio.doing = "nothing" /\ B!NoRadio.link = "none"
          /\ B!Scanning \in Radio /\ B!Scanning.doing = "nothing" /\ B!Scanning.link = "none"
          /\ B!Scanning.scanning
      BY DEF B!NoRadio, B!Scanning, Radio
    <3>3. \/ radio' = B!Scanning
          \/ radio' = B!NoRadio /\ bleAt' = "waiting"
      BY <1>3, <3>1 DEF B!InitComplete
    <3> QED
      BY <3>1, <3>2, <3>3
  <2>2. /\ gBleDeviceList' = <<>> /\ bleAt' \in {"running", "waiting"}
        /\ UNCHANGED <<gBleDeviceList, gNextBleDeviceToRead, taken, handed>>
    BY <1>3, <2>1 DEF B!InitComplete
  <2>3. B!Places = {} /\ B!Places' = {}
    BY <2>1, <2>2 DEF B!Places
  <2>4. BleTyped'
    BY <2>1, <2>2
  <2>5. OneEach' /\ DoingFits' /\ LinkFits'
    BY <2>1, <2>2, <2>3 DEF OneEach, DoingFits, LinkFits
  <2>6. StoreFits'
    BY <2>2, <2>3 DEF StoreFits
  <2>7. WantedHasCharacteristic' /\ ReadingsAccounted'
    BY <2>3 DEF WantedHasCharacteristic, B!WantedHasCharacteristic, ReadingsAccounted, B!ReadingsAccounted
  <2>8. ScanResumes'
    BY <2>1, <2>2, <2>3 DEF ScanResumes, B!ScanResumes
  <2> QED
    BY <2>4, <2>5, <2>6, <2>7, <2>8
<1>4. CASE B!EndOfRun
  BY <1>4 DEF B!EndOfRun, OneEach, DoingFits, LinkFits, StoreFits, B!Places,
     WantedHasCharacteristic, B!WantedHasCharacteristic, ReadingsAccounted, B!ReadingsAccounted,
     ScanResumes, B!ScanResumes
<1>5. CASE B!Deinit
  <2>1. radio' = B!NoRadio /\ radio' \in Radio /\ radio'.doing = "nothing" /\ gBleDeviceList' = <<>>
        /\ bleAt' = "off" /\ gNextBleDeviceToRead' = gNextBleDeviceToRead
    BY <1>5 DEF B!Deinit, B!NoRadio, Radio
  <2>2. /\ taken' \in [Peer -> 0 .. MaxReadings] /\ handed' \in [Peer -> 0 .. MaxReadings]
        /\ \A p \in Peer : taken'[p] = 0 /\ handed'[p] = 0
    BY <1>5, BleAssumption DEF B!Deinit
  <2> QED
    BY <2>1, <2>2, BleAssumption DEF OneEach, DoingFits, LinkFits, StoreFits, B!Places,
       WantedHasCharacteristic, B!WantedHasCharacteristic, ReadingsAccounted, B!ReadingsAccounted,
       ScanResumes, B!ScanResumes
<1>6. CASE B!Callback
  BY <1>6, ConnectionStep, CharacteristicStep, DiscoveryTerminationStep, CheckDeviceNameStep,
     ReadWantedValueStep, DisconnectionStep, TimeoutStep, GetBleReadingsStep, CheckProgressStep,
     AdvertisementStep DEF B!Callback
<1> QED
  BY <1>1, <1>2, <1>3, <1>4, <1>5, <1>6 DEF B!Next

LEMMA BleInvariant == Spec => []BleInv
<1>1. Init => BleInv
  <2> SUFFICES ASSUME B!Init PROVE BleInv
    BY DEF Init
  <2>1. radio \in Radio /\ radio.doing = "nothing"
    BY DEF B!Init, B!NoRadio, Radio
  <2>2. /\ taken \in [Peer -> 0 .. MaxReadings] /\ handed \in [Peer -> 0 .. MaxReadings]
        /\ \A p \in Peer : taken[p] = 0 /\ handed[p] = 0
    BY BleAssumption DEF B!Init
  <2> QED
    BY <2>1, <2>2, BleAssumption DEF B!Init, BleInv, BleTyped, OneEach, DoingFits, LinkFits, StoreFits,
       B!Places, WantedHasCharacteristic, B!WantedHasCharacteristic, ReadingsAccounted,
       B!ReadingsAccounted, ScanResumes, B!ScanResumes
<1>2. BleInv /\ [Next]_vars => BleInv'
  BY PartSteps, BleStep
<1> QED
  BY <1>1, <1>2, PTL DEF Spec

\* A Bluetooth device that is wanted has what is wanted of it, over links
\* lost half-way through a discovery and copies there was no memory for.
THEOREM WantedIsReadable == Spec => []WantedHasCharacteristic
<1>1. BleInv => WantedHasCharacteristic
  BY DEF BleInv
<1> QED
  BY <1>1, BleInvariant, PTL

\* No Bluetooth reading is lost, repeated or out of order while a run lasts,
\* however many devices and readings there are.
THEOREM ReadingsKept == Spec => []ReadingsAccounted
<1>1. BleInv => ReadingsAccounted
  BY DEF BleInv
<1> QED
  BY <1>1, BleInvariant, PTL

\* The radio is never left idle, and the list knows the link that there is.
THEOREM RadioNeverIdle == Spec => []ScanResumes
<1>1. BleInv => ScanResumes
  BY DEF BleInv
<1> QED
  BY <1>1, BleInvariant, PTL

-----------------------------------------------------------------------------
(* The locks *)

\* What a thread holds: how often it has locked each mutex.
Holding == [L!Mutex -> 0 .. 2]
Free == [m \in L!Mutex |-> 0]
Took(h, m) == [h EXCEPT ![m] = @ + 1]
Gave(h, m) == [h EXCEPT ![m] = @ - 1]

\* The order of the mutexes: what thread t may ask for while it holds h.
MayLock(t, h, m) ==
    \/ h = Free
    \/ h[m] > 0
    \/ t = "main" /\ m = "data" /\ \A n \in L!Mutex : h[n] > 0 => n = "action"
    \/ /\ t = ReportType /\ m \in {"data", "action"}
       /\ \A n \in L!Mutex : h[n] > 0 => n \in {"processor", "modem", "data"}
    \/ t \in MeasureType /\ m = "i2c" /\ \A n \in L!Mutex : h[n] > 0 => n = Driver[t]

\* Thread t may do e while it holds h, and holds k then.
Does(t, e, h, k) ==
    \/ e.do = "lock" /\ e.what \in L!Mutex /\ h[e.what] < 2 /\ MayLock(t, h, e.what) /\ k = Took(h, e.what)
    \/ e.do = "unlock" /\ e.what \in L!Mutex /\ h[e.what] > 0 /\ k = Gave(h, e.what)
    \/ /\ t = "main" /\ h = Free /\ k = Free
       /\ e.do # "join" => e.do = "start" /\ e.what \in L!Thread \ {"main"}

Events == [do : {"lock", "unlock", "start", "join"}, what : L!Mutex \cup L!Thread \cup {NULL}]

\* The course of s from holding h to holding k.
IsCourse(t, s, c) ==
    /\ c \in [0 .. Len(s) -> Holding]
    /\ \A i \in 1 .. Len(s) : Does(t, s[i], c[i - 1], c[i])
Course(t, s, h, k) ==
    s \in Seq(Events) /\ \E c : IsCourse(t, s, c) /\ c[0] = h /\ c[Len(s)] = k

\* Courses of no event, of one, and of one script after another.
LEMMA OneEvent ==
    ASSUME NEW t, NEW do \in {"lock", "unlock", "start", "join"},
           NEW what \in L!Mutex \cup L!Thread \cup {NULL},
           NEW h \in Holding, NEW k \in Holding, Does(t, [do |-> do, what |-> what], h, k)
    PROVE  Course(t, L!Event(do, what), h, k)
<1> DEFINE s == L!Event(do, what)
           c == [i \in 0 .. 1 |-> IF i = 0 THEN h ELSE k]
<1>1. s \in Seq(Events) /\ Len(s) = 1 /\ s[1] = [do |-> do, what |-> what]
  BY DEF L!Event, Events
<1>2. c \in [0 .. 1 -> Holding] /\ c[0] = h /\ c[1] = k
  OBVIOUS
<1> HIDE DEF c, s
<1>3. IsCourse(t, s, c)
  BY <1>1, <1>2 DEF IsCourse
<1> QED
  BY <1>1, <1>2, <1>3 DEF Course

LEMMA NoEvent == ASSUME NEW t, NEW h \in Holding PROVE Course(t, <<>>, h, h)
<1> DEFINE c == [i \in 0 .. 0 |-> h]
<1>1. c \in [0 .. 0 -> Holding] /\ c[0] = h
  OBVIOUS
<1>2. <<>> \in Seq(Events) /\ Len(<<>>) = 0
  OBVIOUS
<1> HIDE DEF c
<1>3. IsCourse(t, <<>>, c)
  BY <1>1, <1>2 DEF IsCourse
<1> QED
  BY <1>1, <1>2, <1>3 DEF Course

LEMMA OneAfterOther ==
    ASSUME NEW t, NEW s, NEW r, NEW h, NEW k, NEW j, Course(t, s, h, k), Course(t, r, k, j)
    PROVE  Course(t, s \o r, h, j)
<1>1. s \in Seq(Events) /\ r \in Seq(Events)
  BY DEF Course
<1>2. PICK c : IsCourse(t, s, c) /\ c[0] = h /\ c[Len(s)] = k
  BY DEF Course
<1>3. PICK d : IsCourse(t, r, d) /\ d[0] = k /\ d[Len(r)] = j
  BY DEF Course
<1>4. PICK n \in Nat, m \in Nat : n = Len(s) /\ m = Len(r)
  <2>1. Len(s) \in Nat /\ Len(r) \in Nat
    BY <1>1
  <2> QED
    BY <2>1
<1>5. PICK q : q = s \o r
  OBVIOUS
<1>6. /\ q \in Seq(Events) /\ Len(q) = n + m
      /\ \A i \in 1 .. n + m : q[i] = IF i <= n THEN s[i] ELSE r[i - n]
  BY <1>1, <1>4, <1>5
<1> DEFINE e == [i \in 0 .. n + m |-> IF i <= n THEN c[i] ELSE d[i - n]]
<1>7. c \in [0 .. n -> Holding] /\ d \in [0 .. m -> Holding]
  BY <1>2, <1>3, <1>4 DEF IsCourse
<1>8. e \in [0 .. n + m -> Holding] /\ e[0] = h
  <2>1. \A i \in 0 .. n + m : e[i] \in Holding
    BY <1>4, <1>7
  <2> QED
    BY <1>2, <1>4, <2>1
<1>9. e[n + m] = j
  BY <1>2, <1>3, <1>4
<1>10. \A i \in 1 .. n + m : Does(t, q[i], e[i - 1], e[i])
  <2> TAKE i \in 1 .. n + m
  <2>1. CASE i <= n
    <3>1. Does(t, s[i], c[i - 1], c[i])
      BY <1>2, <1>4, <2>1 DEF IsCourse
    <3>2. q[i] = s[i] /\ e[i - 1] = c[i - 1] /\ e[i] = c[i]
      BY <1>4, <1>6, <2>1
    <3> QED
      BY <3>1, <3>2
  <2>2. CASE i = n + 1
    <3>0. 1 \in 1 .. m
      BY <1>4, <2>2
    <3>1. Does(t, r[1], d[0], d[1])
      BY <1>3, <1>4, <3>0 DEF IsCourse
    <3>2. q[i] = r[1] /\ e[i - 1] = d[0] /\ e[i] = d[1]
      BY <1>2, <1>3, <1>4, <1>6, <2>2
    <3> QED
      BY <3>1, <3>2
  <2>3. CASE i > n + 1
    <3>0. i - n \in 1 .. m
      BY <1>4, <2>3
    <3>1. Does(t, r[i - n], d[i - n - 1], d[i - n])
      BY <1>3, <1>4, <3>0 DEF IsCourse
    <3>2. q[i] = r[i - n] /\ e[i - 1] = d[i - n - 1] /\ e[i] = d[i - n]
      BY <1>4, <1>6, <2>3
    <3> QED
      BY <3>1, <3>2
  <2> QED
    BY <1>4, <2>1, <2>2, <2>3
<1> HIDE DEF e
<1>11. IsCourse(t, q, e)
  BY <1>6, <1>8, <1>10 DEF IsCourse
<1> QED
  BY <1>5, <1>6, <1>8, <1>9, <1>11 DEF Course

\* A mutex taken and given back around what may be done while it is held.
LEMMA HoldCourse ==
    ASSUME NEW t, NEW m \in L!Mutex, NEW inside, NEW h \in Holding, h[m] < 2, MayLock(t, h, m),
           Course(t, inside, Took(h, m), Took(h, m))
    PROVE  Course(t, L!Hold(m, inside), h, h)
<1>1. Took(h, m) \in Holding /\ Took(h, m)[m] = h[m] + 1 /\ h[m] \in 0 .. 2
  BY DEF Took, Holding
<1>1a. Gave(Took(h, m), m) = h
  <2> SUFFICES ASSUME NEW k, k = Took(h, m) PROVE Gave(k, m) = h
    OBVIOUS
  <2>1. k \in Holding /\ k[m] - 1 = h[m] /\ \A n \in L!Mutex \ {m} : k[n] = h[n]
    BY <1>1 DEF Took, Holding
  <2>2. Gave(k, m) \in [L!Mutex -> Int]
    BY <2>1 DEF Gave, Holding
  <2>3. \A n \in L!Mutex : Gave(k, m)[n] = h[n]
    BY <2>1 DEF Gave, Holding
  <2> QED
    BY <2>2, <2>3 DEF Holding
<1>1b. Took(h, m)[m] > 0
  BY <1>1
<1>2. Course(t, L!Event("lock", m), h, Took(h, m))
  BY <1>1, OneEvent DEF Does
<1>3. Course(t, L!Event("unlock", m), Took(h, m), h)
  BY <1>1, <1>1a, <1>1b, OneEvent DEF Does
<1>4. Course(t, L!Event("lock", m) \o inside, h, Took(h, m))
  BY <1>2, OneAfterOther
<1> QED
  BY <1>3, <1>4, OneAfterOther DEF L!Hold

\* What t may do holding h, and still holds h.
Loops(t, h) == {s \in Seq(Events) : Course(t, s, h, h)}

\* Operations that give back all they take may follow one another.
LEMMA LoopsFollow ==
    ASSUME NEW t, NEW h, NEW s \in Loops(t, h), NEW r \in Loops(t, h)
    PROVE  s \o r \in Loops(t, h)
<1>1. Course(t, s, h, h) /\ Course(t, r, h, h)
  BY DEF Loops
<1>2. Course(t, s \o r, h, h)
  BY <1>1, OneAfterOther
<1> QED
  BY <1>2 DEF Loops, Course

LEMMA TookFacts ==
    ASSUME NEW h \in Holding, NEW m \in L!Mutex, h[m] < 2
    PROVE  /\ Took(h, m) \in Holding /\ Took(h, m)[m] = h[m] + 1
           /\ \A n \in L!Mutex \ {m} : Took(h, m)[n] = h[n]
BY DEF Took, Holding

LEMMA FreeFacts == Free \in Holding /\ \A m \in L!Mutex : Free[m] = 0
BY DEF Free, Holding

LEMMA HeldLoop ==
    ASSUME NEW t, NEW m \in L!Mutex, NEW h \in Holding, h[m] < 2, MayLock(t, h, m),
           NEW inside \in Loops(t, Took(h, m))
    PROVE  L!Hold(m, inside) \in Loops(t, h)
BY HoldCourse DEF Loops, Course

\* The mutex taken first needs no order; one taken within has to be allowed.
LEMMA OuterLoop ==
    ASSUME NEW t, NEW m \in L!Mutex, NEW inside \in Loops(t, Took(Free, m))
    PROVE  L!Hold(m, inside) \in Loops(t, Free)
BY HeldLoop, FreeFacts DEF MayLock

LEMMA InnerLoop ==
    ASSUME NEW t, NEW m \in L!Mutex, NEW h \in Holding, h[m] < 2, MayLock(t, h, m)
    PROVE  L!Hold(m, <<>>) \in Loops(t, h)
<1>1. Course(t, <<>>, Took(h, m), Took(h, m))
  BY TookFacts, NoEvent
<1>2. <<>> \in Loops(t, Took(h, m))
  BY <1>1 DEF Loops, Course
<1> QED
  BY <1>2, HeldLoop

LEMMA OneLoop ==
    ASSUME NEW t, NEW m \in L!Mutex
    PROVE  L!Hold(m, <<>>) \in Loops(t, Free)
<1>1. Free \in Holding /\ Free[m] < 2 /\ MayLock(t, Free, m)
  BY FreeFacts DEF MayLock
<1> QED
  BY <1>1, InnerLoop

\* A driver is none of the other components.
LEMMA MutexNames ==
    /\ {"action", "data", "processor", "modem", "i2c"} \subseteq L!Mutex
    /\ \A t \in MeasureType : /\ Driver[t] \in L!Mutex
                              /\ Driver[t] \notin {"action", "data", "processor", "modem", "i2c"}
BY LockAssumption DEF L!Mutex, L!Drivers

\* A measurement takes the bus within its driver and else one mutex at a time.
LEMMA MeasureCourse ==
    ASSUME NEW t \in MeasureType
    PROVE  L!MeasureScript(t) \in Loops(t, Free)
<1>1. PICK h \in Holding : h = Took(Free, Driver[t])
  BY MutexNames, FreeFacts, TookFacts
<1>2. h["i2c"] = 0 /\ \A n \in L!Mutex : h[n] > 0 => n = Driver[t]
  BY <1>1, MutexNames, FreeFacts, TookFacts
<1>3. L!i2c \in Loops(t, h)
  BY <1>2, InnerLoop, MutexNames DEF L!i2c, MayLock
<1>4. L!UseSensor(t) \in Loops(t, Free)
  BY <1>1, <1>3, OuterLoop, MutexNames DEF L!UseSensor
<1>5. {L!SetOutcome, L!WorkOutCost, L!pDataAlloc, L!HasActionRun} \subseteq Loops(t, Free)
  BY OneLoop, MutexNames DEF L!SetOutcome, L!WorkOutCost, L!pDataAlloc, L!HasActionRun
<1>6. L!UseSensor(t) \o L!SetOutcome \in Loops(t, Free)
  BY <1>4, <1>5, LoopsFollow
<1>7. L!UseSensor(t) \o L!SetOutcome \o L!WorkOutCost \in Loops(t, Free)
  BY <1>5, <1>6, LoopsFollow
<1>8. L!UseSensor(t) \o L!SetOutcome \o L!WorkOutCost \o L!pDataAlloc \in Loops(t, Free)
  BY <1>5, <1>7, LoopsFollow
<1> QED
  BY <1>5, <1>8, LoopsFollow DEF L!MeasureScript

\* dataFree() and pDataNext() while the modem is held.
LEMMA FreeingCourse ==
    ASSUME NEW h \in Holding, h = Took(Free, "modem")
    PROVE  L!dataFree \in Loops(ReportType, h) /\ L!pDataNext \in Loops(ReportType, h)
<1>1. /\ h["modem"] = 1 /\ h["data"] = 0 /\ h["action"] = 0
      /\ \A n \in L!Mutex : h[n] > 0 => n = "modem"
  BY MutexNames, FreeFacts, TookFacts
<1>2. MayLock(ReportType, h, "data")
  BY <1>1 DEF MayLock
<1>3. PICK k \in Holding : k = Took(h, "data")
  BY <1>1, MutexNames, TookFacts
<1>4. k["action"] = 0 /\ \A n \in L!Mutex : k[n] > 0 => n \in {"modem", "data"}
  BY <1>1, <1>3, MutexNames, TookFacts
<1>5. L!Hold("action", <<>>) \in Loops(ReportType, k)
  <2>1. MayLock(ReportType, k, "action")
    BY <1>4 DEF MayLock
  <2> QED
    BY <1>4, <2>1, InnerLoop, MutexNames
<1>6. L!dataFree \in Loops(ReportType, h)
  BY <1>1, <1>2, <1>3, <1>5, HeldLoop, MutexNames DEF L!dataFree
<1>7. L!pDataNext \in Loops(ReportType, h)
  BY <1>1, <1>2, InnerLoop, MutexNames DEF L!pDataNext
<1> QED
  BY <1>6, <1>7

\* The report takes data, and then action, within what it holds.
LEMMA ReportCourse == L!ReportScript \in Loops(ReportType, Free)
<1>1. L!modemSendReports \in Loops(ReportType, Free)
  <2>1. PICK h \in Holding : h = Took(Free, "modem")
    BY MutexNames, FreeFacts, TookFacts
  <2>2. L!dataFree \in Loops(ReportType, h) /\ L!pDataNext \in Loops(ReportType, h)
    BY <2>1, FreeingCourse
  <2>3. L!dataFree \o L!pDataNext \in Loops(ReportType, h)
    BY <2>2, LoopsFollow
  <2>4. L!dataFree \o L!pDataNext \o L!dataFree \in Loops(ReportType, h)
    BY <2>2, <2>3, LoopsFollow
  <2>5. L!dataFree \o L!pDataNext \o L!dataFree \o L!pDataNext \in Loops(ReportType, h)
    BY <2>2, <2>4, LoopsFollow
  <2> QED
    BY <2>1, <2>5, OuterLoop, MutexNames DEF L!modemSendReports
<1>2. L!StoreLog \in Loops(ReportType, Free)
  <2>1. PICK h \in Holding : h = Took(Free, "data") /\ h["data"] = 1
    BY MutexNames, FreeFacts, TookFacts
  <2>2. MayLock(ReportType, h, "data")
    BY <2>1 DEF MayLock
  <2>3. L!pDataAlloc \in Loops(ReportType, h)
    BY <2>1, <2>2, InnerLoop, MutexNames DEF L!pDataAlloc
  <2> QED
    BY <2>1, <2>3, OuterLoop, MutexNames DEF L!StoreLog
<1>3. L!updateTime \in Loops(ReportType, Free)
  <2>1. PICK h \in Holding : h = Took(Free, "processor")
    BY MutexNames, FreeFacts, TookFacts
  <2>2. h["data"] = 0 /\ \A n \in L!Mutex : h[n] > 0 => n = "processor"
    BY <2>1, MutexNames, FreeFacts, TookFacts
  <2>3. L!dataAdjustTime \in Loops(ReportType, h)
    BY <2>2, InnerLoop, MutexNames DEF L!dataAdjustTime, MayLock
  <2> QED
    BY <2>1, <2>3, OuterLoop, MutexNames DEF L!updateTime
<1>4. {L!UseModem, L!pDataAlloc, L!SetOutcome, L!WorkOutCost, L!HasActionRun} \subseteq Loops(ReportType, Free)
  BY OneLoop, MutexNames DEF L!UseModem, L!pDataAlloc, L!SetOutcome, L!WorkOutCost, L!HasActionRun
<1>5. L!UseModem \o L!pDataAlloc \in Loops(ReportType, Free)
  BY <1>4, LoopsFollow
<1>6. L!UseModem \o L!pDataAlloc \o L!StoreLog \in Loops(ReportType, Free)
  BY <1>2, <1>5, LoopsFollow
<1>7. L!UseModem \o L!pDataAlloc \o L!StoreLog \o L!UseModem \in Loops(ReportType, Free)
  BY <1>4, <1>6, LoopsFollow
<1>8. PICK s \in Loops(ReportType, Free) : s = L!UseModem \o L!pDataAlloc \o L!StoreLog \o L!UseModem
  BY <1>7
<1>9. s \o L!updateTime \in Loops(ReportType, Free)
  BY <1>3, LoopsFollow
<1>10. s \o L!updateTime \o L!pDataAlloc \in Loops(ReportType, Free)
  BY <1>4, <1>9, LoopsFollow
<1>11. s \o L!updateTime \o L!pDataAlloc \o L!modemSendReports \in Loops(ReportType, Free)
  BY <1>1, <1>10, LoopsFollow
<1>12. PICK r \in Loops(ReportType, Free) : r = s \o L!updateTime \o L!pDataAlloc \o L!modemSendReports
  BY <1>11
<1>13. r \o L!SetOutcome \in Loops(ReportType, Free)
  BY <1>4, LoopsFollow
<1>14. r \o L!SetOutcome \o L!WorkOutCost \in Loops(ReportType, Free)
  BY <1>4, <1>13, LoopsFollow
<1>15. r \o L!SetOutcome \o L!WorkOutCost \o L!HasActionRun \in Loops(ReportType, Free)
  BY <1>4, <1>14, LoopsFollow
<1> QED
  BY <1>8, <1>12, <1>15 DEF L!ReportScript

\* What is flattened is what the definition folds from the left.
IsFlat(f, q, n) == f = [i \in 1 .. n |-> IF i = 1 THEN q[i] ELSE f[i - 1] \o q[i]]

\* Such a function there is, of any length.
LEMMA FlatExists ==
    ASSUME NEW q, NEW n \in Nat
    PROVE  \E f : IsFlat(f, q, n)
<1> DEFINE Flat == {m \in Nat : \E f : IsFlat(f, q, m)}
<1>1. 0 \in Flat
  <2> DEFINE f == [i \in 1 .. 0 |-> q]
  <2>1. IsFlat(f, q, 0)
    BY DEF IsFlat
  <2> QED
    BY <2>1
<1>2. ASSUME NEW m \in Nat, m \in Flat PROVE m + 1 \in Flat
  <2>1. PICK f : IsFlat(f, q, m)
    BY <1>2
  <2> DEFINE g == [i \in 1 .. m + 1 |-> IF i <= m THEN f[i] ELSE IF i = 1 THEN q[i] ELSE f[m] \o q[i]]
  <2>2. ASSUME NEW i \in 1 .. m + 1 PROVE g[i] = IF i = 1 THEN q[i] ELSE g[i - 1] \o q[i]
    <3>1. CASE i <= m
      <4>1. i \in 1 .. m /\ g[i] = f[i] /\ (i # 1 => g[i - 1] = f[i - 1])
        BY <3>1
      <4>2. f[i] = IF i = 1 THEN q[i] ELSE f[i - 1] \o q[i]
        BY <2>1, <4>1 DEF IsFlat
      <4> QED
        BY <4>1, <4>2
    <3>2. CASE i = m + 1
      <4>1. i # 1 => g[i - 1] = f[m]
        BY <3>2
      <4> QED
        BY <3>2, <4>1
    <3> QED
      BY <3>1, <3>2
  <2>3. IsFlat(g, q, m + 1)
    BY <2>2, Zenon DEF IsFlat
  <2> QED
    BY <2>3
<1> HIDE DEF Flat
<1>3. Nat \subseteq Flat
  BY <1>1, <1>2, EveryNumber
<1> QED
  BY <1>3 DEF Flat

LEMMA FlatAt ==
    ASSUME NEW f, NEW q, NEW n \in Nat, IsFlat(f, q, n), NEW i \in 1 .. n
    PROVE  f[i] = IF i = 1 THEN q[i] ELSE f[i - 1] \o q[i]
BY DEF IsFlat

LEMMA FlatIs ==
    ASSUME NEW q, NEW n \in Nat \ {0}, Len(q) = n
    PROVE  \E f : IsFlat(f, q, n) /\ L!FlattenSeq(q) = f[n]
<1> DEFINE f == CHOOSE g : IsFlat(g, q, n)
<1>1. IsFlat(f, q, n)
  BY FlatExists
<1>2. L!FlattenSeq(q) = f[n]
  BY DEF L!FlattenSeq, IsFlat
<1> QED
  BY <1>1, <1>2

Block(t) == L!i2c \o L!pActionAdd \o L!Event("start", t)

\* The events of Hold(), one by one.
LEMMA HoldShape ==
    ASSUME NEW m \in L!Mutex, NEW inside \in Seq(Events), NEW n \in Nat, n = Len(inside)
    PROVE  /\ Len(L!Hold(m, inside)) = n + 2
           /\ L!Hold(m, inside)[1] = [do |-> "lock", what |-> m]
           /\ \A j \in 2 .. n + 1 : L!Hold(m, inside)[j] = inside[j - 1]
           /\ L!Hold(m, inside)[n + 2] = [do |-> "unlock", what |-> m]
<1>1. PICK e, d : e = [do |-> "lock", what |-> m] /\ d = [do |-> "unlock", what |-> m]
  OBVIOUS
<1>2. e \in Events /\ d \in Events
  BY <1>1 DEF Events
<1>3. PICK s : s = <<e>> \o inside
  OBVIOUS
<1>4. /\ s \in Seq(Events) /\ Len(s) = n + 1
      /\ s[1] = e /\ \A j \in 2 .. n + 1 : s[j] = inside[j - 1]
  BY <1>2, <1>3
<1>5. PICK r : r = s \o <<d>>
  OBVIOUS
<1>6. Len(r) = n + 2 /\ r[n + 2] = d /\ \A j \in 1 .. n + 1 : r[j] = s[j]
  BY <1>2, <1>4, <1>5
<1>7. L!Hold(m, inside) = r
  BY <1>1, <1>3, <1>5 DEF L!Hold, L!Event
<1> QED
  BY <1>1, <1>4, <1>6, <1>7

\* Only locks and unlocks.
Quiet(s) == s \in Seq(Events) /\ \A j \in 1 .. Len(s) : s[j].do \in {"lock", "unlock"}

LEMMA QuietHold ==
    ASSUME NEW m \in L!Mutex, NEW inside, Quiet(inside), L!Hold(m, inside) \in Seq(Events)
    PROVE  Quiet(L!Hold(m, inside))
<1>1. PICK n \in Nat : n = Len(inside)
  <2>1. Len(inside) \in Nat
    BY DEF Quiet
  <2> QED
    BY <2>1
<1>2. PICK r \in Seq(Events) : r = L!Hold(m, inside)
  OBVIOUS
<1>3. /\ Len(r) = n + 2 /\ r[1] = [do |-> "lock", what |-> m] /\ r[n + 2] = [do |-> "unlock", what |-> m]
      /\ \A j \in 2 .. n + 1 : r[j] = inside[j - 1]
  BY <1>1, <1>2, HoldShape DEF Quiet
<1>4. ASSUME NEW j \in 1 .. n + 2 PROVE r[j].do \in {"lock", "unlock"}
  <2>1. CASE j = 1 \/ j = n + 2
    BY <1>3, <2>1
  <2>2. CASE j \in 2 .. n + 1
    <3>1. j - 1 \in 1 .. n /\ r[j] = inside[j - 1]
      BY <1>3, <2>2
    <3> QED
      BY <1>1, <3>1 DEF Quiet
  <2> QED
    BY <2>1, <2>2
<1> QED
  BY <1>2, <1>3, <1>4 DEF Quiet

LEMMA ShortHold ==
    ASSUME NEW m \in L!Mutex
    PROVE  /\ Len(L!Hold(m, <<>>)) = 2
           /\ L!Hold(m, <<>>)[1] = [do |-> "lock", what |-> m]
           /\ L!Hold(m, <<>>)[2] = [do |-> "unlock", what |-> m]
<1>1. PICK e \in Seq(Events) : e = <<>> /\ Len(e) = 0
  <2>1. <<>> \in Seq(Events) /\ Len(<<>>) = 0
    OBVIOUS
  <2> QED
    BY <2>1
<1>2. PICK n \in Nat : n = 0 /\ n + 2 = 2
  OBVIOUS
<1>3. Len(L!Hold(m, e)) = n + 2 /\ L!Hold(m, e)[1] = [do |-> "lock", what |-> m]
      /\ L!Hold(m, e)[n + 2] = [do |-> "unlock", what |-> m]
  BY <1>1, <1>2, HoldShape
<1> QED
  BY <1>1, <1>2, <1>3

\* The main thread takes data within action.
LEMMA ActionAddCourse ==
    L!i2c \in Loops("main", Free) /\ L!i2c \o L!pActionAdd \in Loops("main", Free) /\ Quiet(L!i2c \o L!pActionAdd)
<1>1. PICK h \in Holding : h = Took(Free, "action")
  BY MutexNames, FreeFacts, TookFacts
<1>2. h["data"] = 0 /\ \A n \in L!Mutex : h[n] > 0 => n = "action"
  BY <1>1, MutexNames, FreeFacts, TookFacts
<1>3. MayLock("main", h, "data")
  BY <1>2 DEF MayLock
<1>4. L!Hold("data", <<>>) \in Loops("main", h)
  BY <1>2, <1>3, InnerLoop, MutexNames
<1>5. L!pActionAdd \in Loops("main", Free)
  BY <1>1, <1>4, OuterLoop, MutexNames DEF L!pActionAdd
<1>6. L!i2c \in Loops("main", Free)
  BY OneLoop, MutexNames DEF L!i2c
<1>7. Quiet(<<>>)
  BY DEF Quiet
<1>8. Quiet(L!i2c)
  BY <1>6, <1>7, QuietHold, MutexNames DEF L!i2c, Loops
<1>9. Quiet(L!Hold("data", <<>>))
  BY <1>4, <1>7, QuietHold, MutexNames DEF Loops
<1>10. Quiet(L!pActionAdd)
  BY <1>5, <1>9, QuietHold, MutexNames DEF L!pActionAdd, Loops
<1>11. ASSUME NEW s, NEW r, Quiet(s), Quiet(r) PROVE Quiet(s \o r)
  BY <1>11 DEF Quiet
<1> QED
  BY <1>5, <1>6, <1>8, <1>10, <1>11, LoopsFollow

\* What the main thread does for one entry of the ranked list.
LEMMA BlockCourse ==
    ASSUME NEW t \in MeasureType \cup {ReportType}
    PROVE  /\ Block(t) \in Loops("main", Free)
           /\ Len(Block(t)) > 0
           /\ \A j \in 1 .. Len(Block(t)) :
                 /\ Block(t)[j].do # "join"
                 /\ Block(t)[j].do = "start" => j = Len(Block(t)) /\ Block(t)[j].what = t
<1>1. PICK s \in Loops("main", Free) : s = L!i2c \o L!pActionAdd
  BY ActionAddCourse
<1>2. t \in L!Thread \ {"main"}
  BY LockAssumption DEF L!Thread
<1>3. Course("main", L!Event("start", t), Free, Free)
  BY <1>2, OneEvent, FreeFacts DEF Does
<1>4. Block(t) = s \o <<[do |-> "start", what |-> t]>>
  BY <1>1 DEF Block, L!Event
<1>5. L!Event("start", t) \in Loops("main", Free)
  BY <1>3 DEF Loops, Course
<1>6. Block(t) \in Loops("main", Free)
  BY <1>1, <1>5, LoopsFollow DEF Block
<1>7. \A j \in 1 .. Len(s) : s[j].do \in {"lock", "unlock"}
  BY <1>1, ActionAddCourse DEF Quiet
<1>8. s \in Seq(Events)
  BY DEF Loops
<1> QED
  BY <1>4, <1>6, <1>7, <1>8

\* A report comes last in what processorActionList() returns.
LEMMA RankedFacts ==
    ASSUME NEW l \in L!RankedLists
    PROVE  /\ l \in Seq(MeasureType \cup {ReportType})
           /\ \A k \in 1 .. Len(l) : l[k] = ReportType => k = Len(l)
<1>0. \A Z : L!Cardinality(Z) = Cardinality(Z)
  BY DEF L!Cardinality, Cardinality
<1>1. PICK M \in SUBSET MeasureType :
        l \in L!SetToSeqs(M) \cup {L!Append(z, ReportType) : z \in L!SetToSeqs(M)}
  BY DEF L!RankedLists
<1>2. Cardinality(M) \in Nat
  BY LockAssumption, FS_Subset, FS_CardinalityType
<1>3. \A z \in L!SetToSeqs(M) : z \in Seq(M)
  BY <1>0, <1>2 DEF L!SetToSeqs
<1>4. CASE l \in L!SetToSeqs(M)
  BY <1>3, <1>4, LockAssumption
<1>5. CASE \E z \in L!SetToSeqs(M) : l = L!Append(z, ReportType)
  <2>1. PICK z \in Seq(M) : l = Append(z, ReportType)
    BY <1>3, <1>5
  <2> QED
    BY <2>1, LockAssumption
<1> QED
  BY <1>1, <1>4, <1>5

\* Part of StartAll: the report is started last.
StartsInTurn(s, last) ==
    /\ s \in Loops("main", Free)
    /\ \A j \in 1 .. Len(s) :
          /\ s[j].do # "join"
          /\ s[j].do = "start" /\ s[j].what = ReportType => last = ReportType /\ j = Len(s)

\* When the report is started there is nothing left to add.
LEMMA StartAllCourse ==
    ASSUME NEW l \in L!RankedLists
    PROVE  \E last : StartsInTurn(L!StartAll(l), last)
<1>1. PICK n \in Nat : n = Len(l)
  BY RankedFacts
<1>2. DOMAIN l = 1 .. n /\ \A k \in 1 .. n : l[k] \in MeasureType \cup {ReportType} /\ (l[k] = ReportType => k = n)
  BY <1>1, RankedFacts
<1>3. PICK q : q = [k \in 1 .. n |-> Block(l[k])]
  OBVIOUS
<1>4. L!StartAll(l) = L!FlattenSeq(q)
  BY <1>2, <1>3 DEF L!StartAll, Block
<1>5. Len(q) = n
  BY <1>3
<1>6. CASE n = 0
  <2>1. L!FlattenSeq(q) = <<>>
    BY <1>3, <1>5, <1>6 DEF L!FlattenSeq
  <2>2. <<>> \in Loops("main", Free)
    BY NoEvent, FreeFacts DEF Loops, Course
  <2> QED
    BY <1>4, <2>1, <2>2 DEF StartsInTurn
<1>7. CASE n # 0
  <2>1. PICK f : IsFlat(f, q, n) /\ L!FlattenSeq(q) = f[n]
    BY <1>5, <1>7, FlatIs
  <2> DEFINE Reached == {i \in Nat : i \in 1 .. n => StartsInTurn(f[i], l[i])}
  <2>2. 0 \in Reached
    OBVIOUS
  <2>3. ASSUME NEW i \in Nat, i \in Reached PROVE i + 1 \in Reached
    <3> SUFFICES ASSUME i + 1 \in 1 .. n PROVE StartsInTurn(f[i + 1], l[i + 1])
      OBVIOUS
    <3>1. PICK t \in MeasureType \cup {ReportType} : t = l[i + 1] /\ q[i + 1] = Block(t)
      BY <1>2, <1>3
    <3>2. PICK b \in Loops("main", Free) :
            /\ b = q[i + 1] /\ Len(b) > 0
            /\ \A j \in 1 .. Len(b) :
                  /\ b[j].do # "join"
                  /\ b[j].do = "start" => j = Len(b) /\ b[j].what = t
      BY <3>1, BlockCourse
    <3>3. CASE i = 0
      <4>1. f[i + 1] = b
        BY <2>1, <3>2, <3>3 DEF IsFlat
      <4>2. StartsInTurn(b, t)
        BY <3>2 DEF StartsInTurn
      <4> QED
        BY <3>1, <4>1, <4>2
    <3>4. CASE i # 0
      <4>1. i \in 1 .. n /\ l[i] # ReportType
        BY <1>2, <3>4
      <4>2. PICK s \in Loops("main", Free) : s = f[i] /\ StartsInTurn(s, l[i])
        BY <2>3, <4>1 DEF StartsInTurn
      <4>3. PICK r : r = s \o b
        OBVIOUS
      <4>4. f[i + 1] = r
        <5>1. f[i + 1] = IF i + 1 = 1 THEN q[i + 1] ELSE f[i + 1 - 1] \o q[i + 1]
          BY <2>1, FlatAt
        <5>2. i + 1 # 1 /\ i + 1 - 1 = i
          BY <3>4
        <5>3. f[i + 1] = f[i] \o q[i + 1]
          BY <5>1, <5>2
        <5> QED
          BY <3>2, <4>2, <4>3, <5>3
      <4>5. r \in Loops("main", Free)
        BY <4>3, LoopsFollow
      <4>6. PICK x \in Nat, y \in Nat : x = Len(s) /\ y = Len(b)
        BY DEF Loops
      <4>7. Len(r) = x + y /\ \A j \in 1 .. x + y : r[j] = IF j <= x THEN s[j] ELSE b[j - x]
        BY <4>3, <4>6 DEF Loops
      <4>8. ASSUME NEW j \in 1 .. x + y
            PROVE  /\ r[j].do # "join"
                   /\ r[j].do = "start" /\ r[j].what = ReportType => t = ReportType /\ j = x + y
        <5>1. CASE j <= x
          BY <4>1, <4>2, <4>6, <4>7, <5>1 DEF StartsInTurn
        <5>2. CASE j > x
          <6>1. j - x \in 1 .. y /\ r[j] = b[j - x]
            BY <4>7, <5>2
          <6>2. PICK k \in 1 .. y : k = j - x
            BY <6>1
          <6>3. b[k].do # "join" /\ (b[k].do = "start" => k = y /\ b[k].what = t)
            BY <3>2, <4>6, Zenon
          <6>4. k = y => j = x + y
            BY <4>6, <6>2
          <6> QED
            BY <6>1, <6>2, <6>3, <6>4
        <5> QED
          BY <5>1, <5>2
      <4> QED
        BY <3>1, <4>4, <4>5, <4>7, <4>8 DEF StartsInTurn
    <3> QED
      BY <3>3, <3>4
  <2> HIDE DEF Reached
  <2>4. n \in Reached
    BY <2>2, <2>3, EveryNumber
  <2> QED
    BY <1>4, <1>7, <2>1, <2>4 DEF Reached
<1> QED
  BY <1>6, <1>7

LEMMA Joined ==
    ASSUME NEW s \in Seq(Events), NEW r \in Seq(Events), NEW x \in Nat, NEW y \in Nat,
           x = Len(s), y = Len(r)
    PROVE  /\ Len(s \o r) = x + y
           /\ \A j \in 1 .. x : (s \o r)[j] = s[j]
           /\ \A j \in 1 .. y : (s \o r)[x + j] = r[j]
OBVIOUS

\* The script of the main thread: all threads started, joined, and the bus shut down.
LEMMA MainShape ==
    ASSUME NEW l \in L!RankedLists
    PROVE  \E n \in Nat, s \in Loops("main", Free) :
             /\ n = Len(L!StartAll(l)) /\ s = L!Script("main", l)
             /\ Len(s) = n + 3
             /\ s[n + 1].do = "join"
             /\ s[n + 2] = [do |-> "lock", what |-> "i2c"]
             /\ s[n + 3] = [do |-> "unlock", what |-> "i2c"]
             /\ \A j \in 1 .. n :
                   s[j].do # "join" /\ (s[j].do = "start" /\ s[j].what = ReportType => j = n)
<1>1. PICK a \in Loops("main", Free) : a = L!StartAll(l) /\ \E last : StartsInTurn(a, last)
  BY StartAllCourse DEF StartsInTurn
<1>2. PICK n \in Nat : n = Len(a)
  <2>1. Len(a) \in Nat
    BY DEF Loops
  <2> QED
    BY <2>1
<1>3. PICK b \in Loops("main", Free) :
        /\ b = L!i2c /\ Len(b) = 2
        /\ b[1] = [do |-> "lock", what |-> "i2c"] /\ b[2] = [do |-> "unlock", what |-> "i2c"]
  BY ActionAddCourse, ShortHold, MutexNames DEF L!i2c
<1>4. Course("main", L!Event("join", NULL), Free, Free)
  BY OneEvent, FreeFacts DEF Does
<1>5. PICK e \in Loops("main", Free) : e = L!Event("join", NULL) /\ Len(e) = 1 /\ e[1].do = "join"
  <2>1. L!Event("join", NULL) \in Loops("main", Free)
    BY <1>4 DEF Loops, Course
  <2>2. L!Event("join", NULL) = <<[do |-> "join", what |-> NULL]>>
    BY DEF L!Event
  <2> QED
    BY <2>1, <2>2
<1>6. PICK d \in Loops("main", Free) : d = e \o b
  BY LoopsFollow
<1>7. /\ Len(d) = 3 /\ d[1].do = "join"
      /\ d[2] = [do |-> "lock", what |-> "i2c"] /\ d[3] = [do |-> "unlock", what |-> "i2c"]
  <2>1. e \in Seq(Events) /\ b \in Seq(Events)
    BY DEF Loops
  <2>2. Len(d) = 1 + 2 /\ d[1] = e[1] /\ \A j \in 1 .. 2 : d[1 + j] = b[j]
    BY <1>3, <1>5, <1>6, <2>1, Joined
  <2>3. d[1 + 1] = b[1] /\ d[1 + 2] = b[2]
    BY <2>2
  <2> QED
    BY <1>3, <1>5, <2>2, <2>3
<1>8. PICK s \in Loops("main", Free) : s = a \o d
  BY LoopsFollow
<1>9. /\ Len(s) = n + 3 /\ \A j \in 1 .. n : s[j] = a[j]
      /\ s[n + 1] = d[1] /\ s[n + 2] = d[2] /\ s[n + 3] = d[3]
  <2>1. a \in Seq(Events) /\ d \in Seq(Events)
    BY DEF Loops
  <2>2. PICK y \in Nat : y = 3
    OBVIOUS
  <2>3. /\ Len(s) = n + y /\ \A j \in 1 .. n : s[j] = a[j]
        /\ \A j \in 1 .. y : s[n + j] = d[j]
    <3>1. Len(d) = y /\ Len(a) = n
      BY <1>2, <1>7, <2>2
    <3>2. /\ Len(a \o d) = n + y /\ \A j \in 1 .. n : (a \o d)[j] = a[j]
          /\ \A j \in 1 .. y : (a \o d)[n + j] = d[j]
      BY <2>1, <3>1, Joined
    <3> QED
      BY <1>8, <3>2
  <2> QED
    BY <2>2, <2>3
<1>10. s = L!Script("main", l)
  <2>1. d = L!ShutDown
    BY <1>3, <1>5, <1>6 DEF L!ShutDown
  <2>2. L!Script("main", l) = L!StartAll(l) \o L!ShutDown
    BY LockAssumption DEF L!Script
  <2> QED
    BY <1>1, <1>8, <2>1, <2>2, Zenon
<1>11. \A j \in 1 .. n : s[j].do # "join" /\ (s[j].do = "start" /\ s[j].what = ReportType => j = n)
  BY <1>1, <1>2, <1>9 DEF StartsInTurn
<1> QED
  BY <1>1, <1>2, <1>7, <1>9, <1>10, <1>11

\* Whatever a thread does, it takes the mutexes in their order and ends
\* with none.
LEMMA ScriptCourse ==
    ASSUME NEW t \in L!Thread, NEW l \in L!RankedLists
    PROVE  L!Script(t, l) \in Loops(t, Free)
<1>1. CASE t = "main"
  BY <1>1, MainShape
<1>2. CASE t = ReportType
  BY <1>2, ReportCourse, LockAssumption DEF L!Script
<1>3. CASE t \in MeasureType
  BY <1>3, MeasureCourse, LockAssumption DEF L!Script
<1> QED
  BY <1>1, <1>2, <1>3 DEF L!Thread

-----------------------------------------------------------------------------

\* Thread t has done n events of its script for l, and holds h.
OnCourse(t, l, n, h) ==
    /\ n \in 0 .. Len(L!Script(t, l))
    /\ \E c : /\ IsCourse(t, L!Script(t, l), c)
             /\ c[0] = Free /\ c[Len(L!Script(t, l))] = Free /\ c[n] = h

\* At its start a thread is on its course and holds nothing.
LEMMA NewCourse ==
    ASSUME NEW t \in L!Thread, NEW l \in L!RankedLists
    PROVE  OnCourse(t, l, 0, Free) /\ L!Script(t, l) \in Seq(Events) /\ Len(L!Script(t, l)) \in Nat
<1>1. L!Script(t, l) \in Seq(Events) /\ Course(t, L!Script(t, l), Free, Free)
  BY ScriptCourse DEF Loops
<1> QED
  BY <1>1 DEF OnCourse, Course

\* On its course a thread may do the next event; at either end it holds nothing.
LEMMA CourseFacts ==
    ASSUME NEW t \in L!Thread, NEW l \in L!RankedLists, NEW n, NEW h, OnCourse(t, l, n, h)
    PROVE  /\ h \in Holding
           /\ n \in {0, Len(L!Script(t, l))} => h = Free
           /\ n # Len(L!Script(t, l)) =>
                 /\ n + 1 \in 1 .. Len(L!Script(t, l))
                 /\ \E k \in Holding : Does(t, L!Script(t, l)[n + 1], h, k) /\ OnCourse(t, l, n + 1, k)
<1>1. PICK z \in Nat : z = Len(L!Script(t, l))
  BY NewCourse
<1>2. PICK c : IsCourse(t, L!Script(t, l), c) /\ c[0] = Free /\ c[z] = Free /\ c[n] = h
  BY <1>1 DEF OnCourse
<1>3. n \in 0 .. z
  BY <1>1 DEF OnCourse
<1>4. c \in [0 .. z -> Holding]
  BY <1>1, <1>2 DEF IsCourse
<1>5. CASE n = z
  BY <1>1, <1>2, <1>3, <1>4, <1>5
<1>6. CASE n # z
  <2>1. PICK i \in 1 .. z : i = n + 1 /\ i - 1 = n
    BY <1>3, <1>6
  <2>2. Does(t, L!Script(t, l)[i], c[i - 1], c[i])
    BY <1>1, <1>2 DEF IsCourse
  <2>3. OnCourse(t, l, i, c[i])
    BY <1>1, <1>2 DEF OnCourse
  <2>4. c[i] \in Holding
    BY <1>4
  <2> QED
    BY <1>1, <1>2, <1>3, <1>4, <1>6, <2>1, <2>2, <2>3, <2>4
<1> QED
  BY <1>5, <1>6

\* What a thread holds of the mutexes.
HeldBy(t) == [m \in L!Mutex |-> IF owner[m] = t THEN depth[m] ELSE 0]
End(t) == Len(L!Script(t, ranked))
Starting == Len(L!StartAll(ranked))

\* The inductive invariant of the locks: what every thread holds is what its
\* script holds there, and the report runs only when the main thread adds
\* no more actions.
LocksInv ==
    /\ L!TypeOK
    /\ \A t \in L!Thread : OnCourse(t, ranked, done[t], HeldBy(t))
    /\ \A m \in L!Mutex : owner[m] = NULL <=> depth[m] = 0
    /\ \A t \in L!Thread \ running : done[t] \in {0, End(t)}
    /\ done["main"] > Starting => running = {"main"}
    /\ ReportType \in running => done["main"] >= Starting

\* The main thread and the report are two threads.
LEMMA ThreadNames ==
    "main" \in L!Thread /\ ReportType \in L!Thread /\ ReportType # "main" /\ NULL \notin L!Thread
BY LockAssumption DEF L!Thread

\* What is left of a script is what follows the events done.
LEMMA WhatIsLeft ==
    ASSUME LocksInv, NEW t \in L!Thread
    PROVE  /\ L!Left(t) = <<>> <=> done[t] = End(t)
           /\ done[t] # End(t) => /\ Head(L!Left(t)) = L!Script(t, ranked)[done[t] + 1]
                                 /\ done[t] + 1 \in 1 .. End(t)
<1>1. PICK s \in Seq(Events), z \in Nat : s = L!Script(t, ranked) /\ z = Len(s)
  BY NewCourse DEF LocksInv, L!TypeOK
<1>2. PICK n \in 0 .. z : n = done[t]
  BY <1>1 DEF LocksInv, OnCourse
<1>3. L!Left(t) = SubSeq(s, n + 1, z) /\ End(t) = z
  BY <1>1, <1>2 DEF L!Left, End
<1>4. n = z => SubSeq(s, n + 1, z) = <<>>
  BY <1>1
<1>5. ASSUME n # z PROVE SubSeq(s, n + 1, z) # <<>> /\ Head(SubSeq(s, n + 1, z)) = s[n + 1]
  <2>1. PICK i \in 1 .. z : i = n + 1
    BY <1>5
  <2>2. PICK r : r = SubSeq(s, i, z)
    OBVIOUS
  <2>3. r \in Seq(Events) /\ Len(r) = z - i + 1 /\ r[1] = s[i]
    BY <1>1, <2>2, SubSeqProperties
  <2>4. r # <<>> /\ Head(r) = r[1]
    BY <2>3
  <2> QED
    BY <2>1, <2>2, <2>3, <2>4, Zenon
<1> QED
  BY <1>1, <1>2, <1>3, <1>4, <1>5

\* A thread performs the next event of its script, from what it holds.
LEMMA Performed ==
    ASSUME LocksInv, NEW t \in L!Thread, NEW do, L!Perform(t, do)
    PROVE  /\ t \in running /\ done[t] + 1 \in 1 .. End(t)
           /\ done' = [done EXCEPT ![t] = @ + 1] /\ ranked' = ranked
           /\ L!Script(t, ranked)[done[t] + 1].do = do
           /\ L!Script(t, ranked)[done[t] + 1].what = L!What(t)
           /\ HeldBy(t) \in Holding
           /\ \E k \in Holding : /\ Does(t, L!Script(t, ranked)[done[t] + 1], HeldBy(t), k)
                                /\ OnCourse(t, ranked, done[t] + 1, k)
<1>1. /\ t \in running /\ L!Left(t) # <<>> /\ Head(L!Left(t)).do = do
      /\ done' = [done EXCEPT ![t] = @ + 1] /\ ranked' = ranked
  BY DEF L!Perform
<1>2. done[t] # End(t)
  BY <1>1, WhatIsLeft
<1>3. OnCourse(t, ranked, done[t], HeldBy(t)) /\ ranked \in L!RankedLists
  BY DEF LocksInv, L!TypeOK
<1> QED
  BY <1>1, <1>2, <1>3, WhatIsLeft, CourseFacts DEF L!What, End

\* Where the main thread is when it performs an event.
LEMMA MainPerformed ==
    ASSUME LocksInv, NEW do, L!Perform("main", do)
    PROVE  /\ Starting \in Nat /\ done["main"] \in Nat
           /\ do = "start" =>
                 /\ done["main"] + 1 <= Starting
                 /\ L!What("main") = ReportType => done["main"] + 1 = Starting
           /\ do = "join" => done["main"] = Starting
           /\ do \in {"lock", "unlock"} => done["main"] # Starting
<1>1. PICK n \in Nat, s \in Loops("main", Free) :
             /\ n = Len(L!StartAll(ranked)) /\ s = L!Script("main", ranked)
             /\ Len(s) = n + 3
             /\ s[n + 1].do = "join"
             /\ s[n + 2] = [do |-> "lock", what |-> "i2c"]
             /\ s[n + 3] = [do |-> "unlock", what |-> "i2c"]
             /\ \A j \in 1 .. n :
                   s[j].do # "join" /\ (s[j].do = "start" /\ s[j].what = ReportType => j = n)
  BY MainShape DEF LocksInv, L!TypeOK
<1>2. n = Starting /\ End("main") = n + 3 /\ done["main"] \in Nat
  BY <1>1, ThreadNames DEF Starting, End, LocksInv, L!TypeOK
<1>3. PICK i \in 1 .. n + 3 : i = done["main"] + 1 /\ s[i].do = do /\ s[i].what = L!What("main")
  BY <1>1, <1>2, Performed, ThreadNames
<1>4. i \in 1 .. n \/ i = n + 1 \/ i = n + 2 \/ i = n + 3
  OBVIOUS
<1>5. CASE i \in 1 .. n
  <2>1. do # "join" /\ (do = "start" /\ L!What("main") = ReportType => i = n)
    BY <1>1, <1>3, <1>5
  <2> QED
    BY <1>2, <1>3, <1>5, <2>1
<1>6. CASE i = n + 1
  BY <1>1, <1>2, <1>3, <1>6
<1>7. CASE i = n + 2
  <2>1. do = "lock"
    BY <1>1, <1>3, <1>7
  <2> QED
    BY <1>2, <1>3, <1>7, <2>1
<1>8. CASE i = n + 3
  <2>1. do = "unlock"
    BY <1>1, <1>3, <1>8
  <2> QED
    BY <1>2, <1>3, <1>8, <2>1
<1> QED
  BY <1>4, <1>5, <1>6, <1>7, <1>8

\* The types, of this state and of the next.
LEMMA Typed ==
    ASSUME LocksInv
    PROVE  /\ ranked \in L!RankedLists /\ running \subseteq L!Thread /\ "main" \in running
           /\ done \in [L!Thread -> Nat] /\ owner \in [L!Mutex -> L!Thread \cup {NULL}]
           /\ depth \in [L!Mutex -> 0 .. 2]
BY DEF LocksInv, L!TypeOK

LEMMA TypedNext ==
    ASSUME ranked' \in L!RankedLists, running' \subseteq L!Thread, "main" \in running',
           done' \in [L!Thread -> Nat], owner' \in [L!Mutex -> L!Thread \cup {NULL}],
           depth' \in [L!Mutex -> 0 .. 2]
    PROVE  L!TypeOK'
BY DEF L!TypeOK

\* The conditions on where the threads are, after an event of t's script.
LEMMA PlacesStep ==
    ASSUME LocksInv, NEW t \in L!Thread, NEW do \in {"lock", "unlock"}, L!Perform(t, do), running' = running
    PROVE  /\ done' \in [L!Thread -> Nat]
           /\ \A u \in L!Thread \ running' : done'[u] \in {0, End(u)'}
           /\ (done["main"] > Starting => running = {"main"})'
           /\ (ReportType \in running => done["main"] >= Starting)'
<1>1. /\ t \in running /\ done' = [done EXCEPT ![t] = @ + 1] /\ ranked' = ranked
  BY Performed
<1>2. done' \in [L!Thread -> Nat] /\ \A u \in L!Thread \ {t} : done'[u] = done[u]
  BY <1>1, Typed
<1>3. ASSUME NEW u \in L!Thread \ running' PROVE done'[u] \in {0, End(u)'}
  <2>1. done'[u] = done[u] /\ End(u)' = End(u) /\ u \in L!Thread \ running
    BY <1>1, <1>2 DEF End
  <2> QED
    BY <2>1 DEF LocksInv
<1>4. Starting' = Starting
  BY <1>1 DEF Starting
<1>5. CASE t = "main"
  <2>1. Starting \in Nat /\ done["main"] \in Nat /\ done["main"] # Starting
    BY <1>5, MainPerformed
  <2>2. done'["main"] = done["main"] + 1
    BY <1>1, <1>5, Typed, ThreadNames
  <2>3. /\ done["main"] > Starting => running = {"main"}
        /\ ReportType \in running => done["main"] >= Starting
    BY DEF LocksInv
  <2> QED
    BY <1>2, <1>3, <1>4, <2>1, <2>2, <2>3
<1>6. CASE t # "main"
  <2>1. done'["main"] = done["main"]
    BY <1>2, <1>6, ThreadNames
  <2> QED
    BY <1>2, <1>3, <1>4, <2>1 DEF LocksInv
<1> QED
  BY <1>5, <1>6

\* What the others hold is theirs still.
LEMMA OthersCourse ==
    ASSUME LocksInv, NEW t \in L!Thread, NEW m \in L!Mutex,
           ranked' = ranked, done' = [done EXCEPT ![t] = @ + 1],
           \A n \in L!Mutex \ {m} : owner'[n] = owner[n] /\ depth'[n] = depth[n],
           owner[m] \in {t, NULL}, owner'[m] \in {t, NULL},
           NEW u \in L!Thread \ {t}
    PROVE  OnCourse(u, ranked', done'[u], HeldBy(u)')
<1>1. done'[u] = done[u]
  BY Typed
<1>2. HeldBy(u)' = HeldBy(u)
  BY ThreadNames DEF HeldBy
<1> QED
  BY <1>1, <1>2 DEF LocksInv

\* A lock: the mutex was free or the thread had it already.
LEMMA LockStep ==
    ASSUME LocksInv, NEW t \in L!Thread, L!Lock(t)
    PROVE  LocksInv'
<1>1. PICK m : m = L!What(t)
  OBVIOUS
<1>2. /\ L!Perform(t, "lock") /\ owner[m] \in {NULL, t} /\ running' = running
      /\ owner' = [owner EXCEPT ![m] = t] /\ depth' = [depth EXCEPT ![m] = @ + 1]
  BY <1>1 DEF L!Lock
<1>3. /\ ranked' = ranked /\ done' = [done EXCEPT ![t] = @ + 1] /\ HeldBy(t) \in Holding
  BY <1>2, Performed
<1>4. /\ m \in L!Mutex /\ HeldBy(t)[m] < 2
      /\ OnCourse(t, ranked, done[t] + 1, Took(HeldBy(t), m))
  BY <1>1, <1>2, Performed DEF Does
<1>5. depth[m] = HeldBy(t)[m] /\ HeldBy(t)[m] \in 0 .. 2
  BY <1>2, <1>3, <1>4 DEF HeldBy, LocksInv, Holding
<1>6. owner'[m] = t /\ depth'[m] = depth[m] + 1
      /\ \A n \in L!Mutex \ {m} : owner'[n] = owner[n] /\ depth'[n] = depth[n]
  BY <1>2, <1>4, Typed
<1>7. owner' \in [L!Mutex -> L!Thread \cup {NULL}] /\ depth' \in [L!Mutex -> 0 .. 2]
  BY <1>2, <1>4, <1>5, Typed
<1>8. HeldBy(t)' = Took(HeldBy(t), m)
  <2>1. HeldBy(t)' = [n \in L!Mutex |-> IF owner'[n] = t THEN depth'[n] ELSE 0]
    BY DEF HeldBy
  <2>2. \A n \in L!Mutex : HeldBy(t)[n] = IF owner[n] = t THEN depth[n] ELSE 0
    BY DEF HeldBy
  <2>3. Took(HeldBy(t), m) \in Holding /\ Took(HeldBy(t), m)[m] = HeldBy(t)[m] + 1
        /\ \A n \in L!Mutex \ {m} : Took(HeldBy(t), m)[n] = HeldBy(t)[n]
    BY <1>3, <1>4, TookFacts
  <2> QED
    BY <1>5, <1>6, <2>1, <2>2, <2>3 DEF Holding
<1>9. \A u \in L!Thread : OnCourse(u, ranked', done'[u], HeldBy(u)')
  <2>1. OnCourse(t, ranked', done'[t], HeldBy(t)')
    BY <1>3, <1>4, <1>8, Typed
  <2>2. \A u \in L!Thread \ {t} : OnCourse(u, ranked', done'[u], HeldBy(u)')
    BY <1>2, <1>3, <1>4, <1>6, OthersCourse
  <2> QED
    BY <2>1, <2>2
<1>10. \A n \in L!Mutex : owner'[n] = NULL <=> depth'[n] = 0
  BY <1>5, <1>6, ThreadNames DEF LocksInv
<1> QED
  BY <1>2, <1>3, <1>7, <1>9, <1>10, Typed, TypedNext, PlacesStep DEF LocksInv

\* An unlock: the thread had the mutex, and keeps it if it locked it twice.
LEMMA UnlockStep ==
    ASSUME LocksInv, NEW t \in L!Thread, L!Unlock(t)
    PROVE  LocksInv'
<1>1. PICK m : m = L!What(t)
  OBVIOUS
<1>2. /\ L!Perform(t, "unlock") /\ running' = running
      /\ owner' = [owner EXCEPT ![m] = IF depth[m] = 1 THEN NULL ELSE t]
      /\ depth' = [depth EXCEPT ![m] = @ - 1]
  BY <1>1 DEF L!Unlock
<1>3. /\ ranked' = ranked /\ done' = [done EXCEPT ![t] = @ + 1] /\ HeldBy(t) \in Holding
  BY <1>2, Performed
<1>4. /\ m \in L!Mutex /\ HeldBy(t)[m] > 0
      /\ OnCourse(t, ranked, done[t] + 1, Gave(HeldBy(t), m))
  BY <1>1, <1>2, Performed DEF Does
<1>5. owner[m] = t /\ depth[m] = HeldBy(t)[m] /\ depth[m] \in 1 .. 2
  BY <1>4, Typed DEF HeldBy
<1>6. owner'[m] = (IF depth[m] = 1 THEN NULL ELSE t) /\ depth'[m] = depth[m] - 1
      /\ \A n \in L!Mutex \ {m} : owner'[n] = owner[n] /\ depth'[n] = depth[n]
  BY <1>2, <1>4, Typed
<1>7. owner' \in [L!Mutex -> L!Thread \cup {NULL}] /\ depth' \in [L!Mutex -> 0 .. 2]
  BY <1>2, <1>4, <1>5, Typed
<1>8. HeldBy(t)' = Gave(HeldBy(t), m)
  <2>1. HeldBy(t)' = [n \in L!Mutex |-> IF owner'[n] = t THEN depth'[n] ELSE 0]
    BY DEF HeldBy
  <2>2. \A n \in L!Mutex : HeldBy(t)[n] = IF owner[n] = t THEN depth[n] ELSE 0
    BY DEF HeldBy
  <2>3. Gave(HeldBy(t), m) = [n \in L!Mutex |-> IF n = m THEN HeldBy(t)[m] - 1 ELSE HeldBy(t)[n]]
    BY <1>3, <1>4 DEF Gave, Holding
  <2>4. ASSUME NEW n \in L!Mutex
        PROVE  (IF owner'[n] = t THEN depth'[n] ELSE 0) = (IF n = m THEN HeldBy(t)[m] - 1 ELSE HeldBy(t)[n])
    <3>1. CASE n = m
      BY <1>5, <1>6, <3>1
    <3>2. CASE n # m
      BY <1>6, <2>2, <3>2
    <3> QED
      BY <3>1, <3>2
  <2> QED
    BY <2>1, <2>3, <2>4
<1>9. \A u \in L!Thread : OnCourse(u, ranked', done'[u], HeldBy(u)')
  <2>1. OnCourse(t, ranked', done'[t], HeldBy(t)')
    BY <1>3, <1>4, <1>8, Typed
  <2>2. \A u \in L!Thread \ {t} : OnCourse(u, ranked', done'[u], HeldBy(u)')
    BY <1>3, <1>4, <1>5, <1>6, OthersCourse
  <2> QED
    BY <2>1, <2>2
<1>10. \A n \in L!Mutex : owner'[n] = NULL <=> depth'[n] = 0
  BY <1>5, <1>6, ThreadNames DEF LocksInv
<1> QED
  BY <1>2, <1>3, <1>7, <1>9, <1>10, Typed, TypedNext, PlacesStep DEF LocksInv
\* Between two mutexes the main thread starts threads and waits for them.
LEMMA MainFreeStep ==
    ASSUME LocksInv, NEW do \in {"start", "join"}, L!Perform("main", do), UNCHANGED <<owner, depth>>
    PROVE  /\ \A u \in L!Thread : OnCourse(u, ranked', done'[u], HeldBy(u)')
           /\ done' \in [L!Thread -> Nat] /\ done'["main"] = done["main"] + 1 /\ ranked' = ranked
           /\ \A u \in L!Thread \ {"main"} : done'[u] = done[u]
           /\ do = "start" => L!What("main") \in L!Thread \ {"main"}
<1>1. /\ done' = [done EXCEPT !["main"] = @ + 1] /\ ranked' = ranked
      /\ \E k \in Holding : /\ Does("main", L!Script("main", ranked)[done["main"] + 1], HeldBy("main"), k)
                           /\ OnCourse("main", ranked, done["main"] + 1, k)
      /\ L!Script("main", ranked)[done["main"] + 1].do = do
      /\ L!Script("main", ranked)[done["main"] + 1].what = L!What("main")
  BY Performed, ThreadNames
<1>2. /\ OnCourse("main", ranked, done["main"] + 1, HeldBy("main"))
      /\ do = "start" => L!What("main") \in L!Thread \ {"main"}
  BY <1>1 DEF Does
<1>3. /\ done' \in [L!Thread -> Nat] /\ done'["main"] = done["main"] + 1
      /\ \A u \in L!Thread \ {"main"} : done'[u] = done[u]
  BY <1>1, Typed, ThreadNames
<1>4. \A u : HeldBy(u)' = HeldBy(u)
  BY DEF HeldBy
<1> QED
  BY <1>1, <1>2, <1>3, <1>4 DEF LocksInv

\* A thread is started, the report by the last event of StartAll.
LEMMA StartStep == ASSUME LocksInv, L!Start PROVE LocksInv'
<1>1. /\ L!Perform("main", "start") /\ UNCHANGED <<owner, depth>>
      /\ running' = running \cup {L!What("main")}
  BY DEF L!Start
<1>2. /\ \A u \in L!Thread : OnCourse(u, ranked', done'[u], HeldBy(u)')
      /\ done' \in [L!Thread -> Nat] /\ done'["main"] = done["main"] + 1 /\ ranked' = ranked
      /\ \A u \in L!Thread \ {"main"} : done'[u] = done[u]
      /\ L!What("main") \in L!Thread \ {"main"}
  BY <1>1, MainFreeStep
<1>3. Starting' = Starting /\ \A u : End(u)' = End(u)
  BY <1>2 DEF Starting, End
<1>4. /\ Starting \in Nat /\ done["main"] \in Nat /\ done["main"] + 1 <= Starting
      /\ L!What("main") = ReportType => done["main"] + 1 = Starting
  BY <1>1, MainPerformed
<1>5. L!TypeOK'
  BY <1>1, <1>2, Typed, TypedNext
<1>6. ASSUME NEW u \in L!Thread \ running' PROVE done'[u] \in {0, End(u)'}
  <2>1. u \in L!Thread \ running /\ u # "main"
    BY <1>1, Typed
  <2> QED
    BY <1>2, <1>3, <2>1 DEF LocksInv
<1>7. ReportType \in running => done["main"] >= Starting
  BY DEF LocksInv
<1>8. ~(done'["main"] > Starting) /\ (ReportType \in running' => done'["main"] >= Starting)
  BY <1>1, <1>2, <1>4, <1>7
<1>9. \A n \in L!Mutex : owner'[n] = NULL <=> depth'[n] = 0
  BY <1>1 DEF LocksInv
<1> QED
  BY <1>2, <1>3, <1>5, <1>6, <1>8, <1>9 DEF LocksInv

\* All threads have been seen to end.
LEMMA JoinStep == ASSUME LocksInv, L!Join PROVE LocksInv'
<1>1. /\ L!Perform("main", "join") /\ UNCHANGED <<running, owner, depth>> /\ running = {"main"}
  BY DEF L!Join
<1>2. /\ \A u \in L!Thread : OnCourse(u, ranked', done'[u], HeldBy(u)')
      /\ done' \in [L!Thread -> Nat] /\ ranked' = ranked
      /\ \A u \in L!Thread \ {"main"} : done'[u] = done[u]
  BY <1>1, MainFreeStep
<1>3. \A u : End(u)' = End(u)
  BY <1>2 DEF End
<1>4. L!TypeOK'
  BY <1>1, <1>2, Typed, TypedNext
<1>5. ASSUME NEW u \in L!Thread \ running' PROVE done'[u] \in {0, End(u)'}
  BY <1>1, <1>2, <1>3 DEF LocksInv
<1>6. running' = {"main"} /\ ReportType \notin running'
  BY <1>1, ThreadNames
<1>7. \A n \in L!Mutex : owner'[n] = NULL <=> depth'[n] = 0
  BY <1>1 DEF LocksInv
<1> QED
  BY <1>2, <1>4, <1>5, <1>6, <1>7 DEF LocksInv

\* A thread ends when its script is done.
LEMMA EndStep ==
    ASSUME LocksInv, NEW t \in L!Thread, L!End(t)
    PROVE  LocksInv'
<1>1. /\ t \in running /\ t # "main" /\ L!Left(t) = <<>> /\ running' = running \ {t}
      /\ UNCHANGED <<ranked, done, owner, depth>>
  BY DEF L!End
<1>2. done[t] = End(t)
  BY <1>1, WhatIsLeft
<1>3. L!TypeOK'
  BY <1>1, Typed, TypedNext
<1>4. Starting' = Starting /\ \A u : End(u)' = End(u) /\ HeldBy(u)' = HeldBy(u)
  BY <1>1 DEF Starting, End, HeldBy
<1>5. ASSUME NEW u \in L!Thread \ running' PROVE done'[u] \in {0, End(u)'}
  BY <1>1, <1>2, <1>4 DEF LocksInv
<1>6. \A u \in L!Thread : OnCourse(u, ranked', done'[u], HeldBy(u)')
  BY <1>1, <1>4 DEF LocksInv
<1>7. done'["main"] > Starting' => running' = {"main"}
  BY <1>1, <1>4 DEF LocksInv
<1>8. ReportType \in running' => done'["main"] >= Starting'
  BY <1>1, <1>4 DEF LocksInv
<1>9. \A n \in L!Mutex : owner'[n] = NULL <=> depth'[n] = 0
  BY <1>1 DEF LocksInv
<1> QED
  BY <1>3, <1>5, <1>6, <1>7, <1>8, <1>9 DEF LocksInv

\* At its end the main thread is alone, and no thread holds anything.
LEMMA AtTheEnd ==
    ASSUME LocksInv, L!Left("main") = <<>>
    PROVE  running = {"main"} /\ \A t \in L!Thread : HeldBy(t) = Free
<1>1. done["main"] = End("main")
  BY WhatIsLeft, ThreadNames
<1>2. PICK n \in Nat, s \in Loops("main", Free) :
        n = Len(L!StartAll(ranked)) /\ s = L!Script("main", ranked) /\ Len(s) = n + 3
  BY MainShape, Typed
<1>3. done["main"] = n + 3 /\ Starting = n
  BY <1>1, <1>2 DEF End, Starting
<1>4. done["main"] > Starting
  BY <1>3
<1>5. running = {"main"}
  BY <1>4 DEF LocksInv
<1>6. ASSUME NEW t \in L!Thread PROVE HeldBy(t) = Free
  <2>1. done[t] \in {0, End(t)} /\ OnCourse(t, ranked, done[t], HeldBy(t))
    BY <1>1, <1>5 DEF LocksInv
  <2> QED
    BY <2>1, Typed, CourseFacts DEF End
<1> QED
  BY <1>5, <1>6

\* Every action keeps the invariant.
LEMMA LocksStep == ASSUME LocksInv, [L!Next]_locks PROVE LocksInv'
<1>1. CASE UNCHANGED locks
  <2>1. \A u : HeldBy(u)' = HeldBy(u) /\ End(u)' = End(u)
    BY <1>1 DEF locks, HeldBy, End
  <2>2. Starting' = Starting
    BY <1>1 DEF locks, Starting
  <2> QED
    BY <1>1, <2>1, <2>2 DEF locks, LocksInv, L!TypeOK
<1>2. ASSUME NEW t \in L!Thread, L!Step(t) PROVE LocksInv'
  BY <1>2, LockStep, UnlockStep, EndStep DEF L!Step
<1>3. CASE L!MainStep
  BY <1>2, <1>3, StartStep, JoinStep, ThreadNames DEF L!MainStep
<1>4. CASE L!WakeUp
  <2>1. /\ L!Left("main") = <<>> /\ ranked' \in L!RankedLists /\ done' = [t \in L!Thread |-> 0]
        /\ UNCHANGED <<running, owner, depth>>
    BY <1>4 DEF L!WakeUp
  <2>2. running = {"main"} /\ \A t \in L!Thread : HeldBy(t) = Free /\ HeldBy(t)' = HeldBy(t)
    BY <2>1, AtTheEnd DEF HeldBy
  <2>3. \A t \in L!Thread : OnCourse(t, ranked', done'[t], HeldBy(t)')
    BY <2>1, <2>2, NewCourse
  <2>4. L!TypeOK'
    BY <2>1, Typed, TypedNext
  <2>5. \A t \in L!Thread : done'[t] = 0
    BY <2>1
  <2>6. running' = {"main"} /\ ReportType \notin running'
    BY <2>1, <2>2, ThreadNames
  <2>7. \A n \in L!Mutex : owner'[n] = NULL <=> depth'[n] = 0
    BY <2>1 DEF LocksInv
  <2> QED
    BY <2>3, <2>4, <2>5, <2>6, <2>7 DEF LocksInv
<1> QED
  BY <1>1, <1>2, <1>3, <1>4 DEF L!Next

LEMMA LocksInvariant == Spec => []LocksInv
<1>1. Init => LocksInv
  <2> SUFFICES ASSUME L!Init PROVE LocksInv
    BY DEF Init
  <2>1. /\ ranked \in L!RankedLists /\ running = {"main"} /\ done = [t \in L!Thread |-> 0]
        /\ owner = [m \in L!Mutex |-> NULL] /\ depth = [m \in L!Mutex |-> 0]
    BY DEF L!Init
  <2>2. L!TypeOK
    BY <2>1, ThreadNames DEF L!TypeOK
  <2>3. \A t \in L!Thread : HeldBy(t) = Free
    BY <2>1, ThreadNames DEF HeldBy, Free
  <2>4. \A t \in L!Thread : OnCourse(t, ranked, done[t], HeldBy(t))
    BY <2>1, <2>3, NewCourse
  <2> QED
    BY <2>1, <2>2, <2>4, ThreadNames DEF LocksInv
<1>2. LocksInv /\ [Next]_vars => LocksInv'
  BY PartSteps, LocksStep
<1> QED
  BY <1>1, <1>2, PTL DEF Spec

\* Who waits holds nothing, or waits in the order of the mutexes.
LEMMA Waits ==
    ASSUME LocksInv, NEW t \in L!Thread, L!Waiting(t)
    PROVE  /\ L!What(t) \in L!Mutex /\ owner[L!What(t)] \notin {t, NULL}
           /\ \/ HeldBy(t) = Free
              \/ /\ t = "main" /\ L!What(t) = "data"
                 /\ \A n \in L!Mutex : HeldBy(t)[n] > 0 => n = "action"
              \/ /\ t = ReportType /\ L!What(t) \in {"data", "action"}
                 /\ \A n \in L!Mutex : HeldBy(t)[n] > 0 => n \in {"processor", "modem", "data"}
              \/ /\ t \in MeasureType /\ L!What(t) = "i2c"
                 /\ \A n \in L!Mutex : HeldBy(t)[n] > 0 => n = Driver[t]
<1>1. PICK m : m = L!What(t)
  OBVIOUS
<1>2. /\ L!Left(t) # <<>> /\ Head(L!Left(t)).do = "lock" /\ owner[m] \notin {NULL, t}
      /\ Head(L!Left(t)).what = m
  BY <1>1 DEF L!Waiting, L!What
<1>3. PICK e : /\ e = L!Script(t, ranked)[done[t] + 1] /\ e.do = "lock" /\ e.what = m
  BY <1>2, WhatIsLeft
<1>4. \E k : Does(t, e, HeldBy(t), k)
  <2>1. OnCourse(t, ranked, done[t], HeldBy(t)) /\ done[t] # End(t)
    BY <1>2, WhatIsLeft DEF LocksInv
  <2> QED
    BY <1>3, <2>1, Typed, CourseFacts DEF End
<1>5. m \in L!Mutex /\ MayLock(t, HeldBy(t), m)
  BY <1>3, <1>4 DEF Does
<1>6. ~(HeldBy(t)[m] > 0)
  BY <1>2, <1>5 DEF HeldBy
<1> QED
  BY <1>1, <1>2, <1>5, <1>6 DEF MayLock

\* While the report runs, the main thread waits with nothing in its hands.
LEMMA MainFree ==
    ASSUME LocksInv, ReportType \in running, L!Waiting("main")
    PROVE  HeldBy("main") = Free
<1>1. PICK n \in Nat, s \in Loops("main", Free) :
        /\ n = Len(L!StartAll(ranked)) /\ s = L!Script("main", ranked) /\ s[n + 1].do = "join"
  BY MainShape, Typed
<1>2. Starting = n /\ done["main"] = n
  <2>1. running # {"main"}
    BY ThreadNames
  <2>2. done["main"] \in Nat
    BY Typed, ThreadNames
  <2> QED
    BY <1>1, <2>1, <2>2 DEF LocksInv, Starting
<1>3. Head(L!Left("main")).do = "lock" /\ L!Left("main") # <<>>
  BY DEF L!Waiting
<1> QED
  BY <1>1, <1>2, <1>3, WhatIsLeft, ThreadNames

\* No threads wait for one another in a ring, for any sensors and any ranked
\* list: pActionAdd() and dataFree() take their mutexes in opposite orders,
\* but the report, which frees data, runs only when no more actions are added.
THEOREM NoRingOfThreads == Spec => []L!NoCircularWait
<1>1. ASSUME LocksInv PROVE L!NoCircularWait
  <2> SUFFICES ASSUME NEW R \in SUBSET running, R # {},
                      \A t \in R : L!Waiting(t) /\ owner[L!What(t)] \in R
               PROVE  FALSE
    BY DEF L!NoCircularWait
  <2> USE <1>1
  <2>1. R \subseteq L!Thread
    BY Typed
  <2>2. ASSUME NEW t \in R
        PROVE  \E u \in R : /\ u # t /\ L!What(t) \in L!Mutex /\ HeldBy(u)[L!What(t)] > 0 /\ HeldBy(u) # Free
    <3>1. PICK m \in L!Mutex : m = L!What(t) /\ owner[m] \notin {t, NULL}
      BY <2>1, Waits
    <3>2. PICK u \in R : u = owner[m]
      BY <3>1
    <3>3. depth[m] \in 0 .. 2 /\ depth[m] # 0
      BY <3>1, Typed DEF LocksInv
    <3>4. HeldBy(u)[m] > 0
      BY <3>2, <3>3 DEF HeldBy
    <3> QED
      BY <3>1, <3>2, <3>4, FreeFacts
  <2>3. PICK u \in R : HeldBy(u) # Free
    BY <2>2
  <2>4. PICK v \in R : v # u /\ L!What(u) \in L!Mutex /\ HeldBy(v)[L!What(u)] > 0 /\ HeldBy(v) # Free
    BY <2>2
  <2>5. ReportType \in R => HeldBy("main") = Free \/ "main" \notin R
    BY MainFree
  <2>6. /\ u \in L!Thread /\ v \in L!Thread /\ L!Waiting(u) /\ L!Waiting(v)
    BY <2>1
  <2>7. CASE u \in MeasureType
    <3>1. L!What(u) = "i2c"
      BY <2>3, <2>6, <2>7, Waits, LockAssumption
    <3> QED
      BY <2>4, <2>6, <3>1, Waits, MutexNames
  <2>8. CASE u = "main"
    <3>1. L!What(u) = "data"
      BY <2>3, <2>6, <2>8, Waits, LockAssumption
    <3>2. v = ReportType
      BY <2>4, <2>6, <2>8, <3>1, Waits, MutexNames
    <3> QED
      BY <2>3, <2>5, <2>8, <3>2
  <2>9. CASE u = ReportType
    <3>1. L!What(u) \in {"data", "action"}
      BY <2>3, <2>6, <2>9, Waits, LockAssumption
    <3>2. v # "main"
      BY <2>4, <2>5, <2>9
    <3> QED
      BY <2>4, <2>6, <2>9, <3>1, <3>2, Waits, MutexNames
  <2> QED
    BY <2>6, <2>7, <2>8, <2>9 DEF L!Thread
<1> QED
  BY <1>1, LocksInvariant, PTL

\* A thread that has ended holds no mutex, and none is held in sleep.
THEOREM LocksGivenBack == Spec => []L!NothingLeftHeld
<1>1. ASSUME LocksInv PROVE L!NothingLeftHeld
  <2> USE <1>1
  <2>1. ASSUME NEW m \in L!Mutex, owner[m] # NULL
        PROVE  owner[m] \in L!Thread /\ HeldBy(owner[m])[m] # 0
    BY <2>1, Typed DEF HeldBy, LocksInv
  <2>2. ASSUME NEW m \in L!Mutex, owner[m] # NULL PROVE owner[m] \in running
    <3>1. PICK t \in L!Thread : t = owner[m] /\ HeldBy(t) # Free
      BY <2>1, <2>2, FreeFacts
    <3>2. done[t] \notin {0, End(t)}
      BY <3>1, Typed, CourseFacts DEF LocksInv, End
    <3> QED
      BY <3>1, <3>2 DEF LocksInv
  <2>3. L!Left("main") = <<>> => \A m \in L!Mutex : owner[m] = NULL
    BY <2>1, AtTheEnd, FreeFacts
  <2> QED
    BY <2>2, <2>3 DEF L!NothingLeftHeld
<1> QED
  BY <1>1, LocksInvariant, PTL

-----------------------------------------------------------------------------
(* The types of all the parts *)

\* The invariants of the parts hold the types.
LEMMA SensorTypes == SensorsInv /\ QueueInv => S!TypeOK
<1> SUFFICES ASSUME SensorsInv, QueueInv PROVE S!TypeOK
  OBVIOUS
<1>1. \A s \in S!Devices : Fine(s, dev[s], dev["hall"].bus, Standing(s))
  BY DEF SensorsInv, DevicesInv
<1>2. /\ dev["hall"] \in HallDev /\ dev["accel"] \in AccelDev /\ dev["light"] \in LightDev
      /\ dev["gnss"] \in GnssDev
  BY <1>1, DevicesOfNote DEF Fine, HallOn, AccelOn, LightQuiet, LightOn, GnssOn
<1>3. \A s \in S!Devices : dev[s].bus = dev["hall"].bus
  BY <1>1, FineOnBus
<1>4. dev["hall"].comp \in S!Range \cup {"mixed"} /\ dev["hall"].range \in S!Range
  BY <1>2 DEF HallDev
<1>5. dev["accel"].sens \in 0 .. 3 /\ dev["light"].irq \in {"none", "this", "old"}
  BY <1>2 DEF AccelDev, LightDev
<1>6. dev["gnss"].stream \in Seq(S!Messages)
  BY <1>2 DEF GnssDev
<1> QED
  BY <1>3, <1>4, <1>5, <1>6, DevicesOfNote DEF S!TypeOK, SensorsInv, CourseInv, QueueInv

LEMMA BleTypes == BleInv => B!TypeOK
<1> SUFFICES ASSUME BleInv PROVE B!TypeOK
  OBVIOUS
<1>1. BleTyped
  BY DEF BleInv
<1>2. \A i \in DOMAIN gBleDeviceList : gBleDeviceList[i] \in Device
  BY <1>1 DEF BleTyped
<1>3. /\ radio.link \in {"none", "connecting", "connected"} /\ radio.peer \in Peer \cup {NULL}
      /\ radio.doing \in {"nothing", "discovering", "name", "value"}
  BY <1>1 DEF BleTyped, Radio
<1> QED
  BY <1>1, <1>2, <1>3 DEF B!TypeOK, BleTyped, Device

LEMMA LockTypes == LocksInv => L!TypeOK
BY DEF LocksInv

\* Every variable of every part stays in its type, for any number of
\* devices, sources, readings and threads.
THEOREM PartsTyped == Spec => []TypeOK
<1>1. AccountsInv => A!TypeOK
  BY DEF AccountsInv, ClockInv
<1> QED
  BY <1>1, SensorTypes, BleTypes, LockTypes, SensorsInvariant, QueueInvariant, SourceInvariant,
     AccountsInvariant, BleInvariant, LocksInvariant, PTL DEF TypeOK
=============================================================================
