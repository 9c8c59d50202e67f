-------------------------------- MODULE Board --------------------------------
(***************************************************************************)
(* The parts of the board that share no state in the models: the sensors,  *)
(* the choice of energy source, the accounts of time and energy, the       *)
(* Bluetooth devices and the order of the locks.  A behaviour is one of    *)
(* one part, the subject; the others stay in one of their initial states.  *)
(***************************************************************************)
EXTENDS Integers, Sequences, FiniteSets

CONSTANTS
    Boards, HallRange, AccelScale, QueueSize, MaxPolls, MaxRestarts, \* of Sensors
    DefaultSource, Levels, HistoryLength, RandomEvery,               \* of EnergySource
    Day, MaxTime, MaxStay, MaxSet,                                   \* of Accounts
    Peer, MaxDevices, MaxDiscovery, MaxReadings,                     \* of BleGather
    MeasureType, ReportType, Driver,                                 \* of Locks
    NULL

VARIABLES
    subject,
    phase, turn, modemOk, wanted, dev, flag, queued, leaked, toDo, reading, restarts,
    at, pins, target, gEnergyChoice, gVIn, gVInCount, gNumWakeups, gNumEnergeticWakeups, past,
    awake, now, sleepTime, wakeTime, gLastWakeUpTime, gLastSleepTime, gLastMeasurementTime,
    timer, gSystemActiveEnergyAllocated, anchor, origin, charged, timesSet,
    bleAt, gBleDeviceList, gNextBleDeviceToRead, radio, taken, handed,
    ranked, running, done, owner, depth

sensors == <<phase, turn, modemOk, wanted, dev, flag, queued, leaked, toDo, reading, restarts>>
source == <<at, pins, target, gEnergyChoice, gVIn, gVInCount, gNumWakeups, gNumEnergeticWakeups, past>>
accounts == <<awake, now, sleepTime, wakeTime, gLastWakeUpTime, gLastSleepTime, gLastMeasurementTime,
              timer, gSystemActiveEnergyAllocated, anchor, origin, charged, timesSet>>
ble == <<bleAt, gBleDeviceList, gNextBleDeviceToRead, radio, taken, handed>>
locks == <<ranked, running, done, owner, depth>>
vars == <<subject, sensors, source, accounts, ble, locks>>

S == INSTANCE Sensors
E == INSTANCE EnergySource
A == INSTANCE Accounts
B == INSTANCE BleGather
L == INSTANCE Locks

\* The energy sources are numbered from 1 to 3, and the default is one of them.
ASSUME SourceAssumption ==
    /\ DefaultSource \in E!Sources
    /\ HistoryLength \in Nat \ {0} /\ RandomEvery \in Nat \ {0}
\* Nobody stays awake or asleep for a day, or for as long as would take the
\* processor's energy near the width of its counter.
ASSUME TimeAssumption ==
    /\ Day \in Nat /\ MaxTime \in Nat \ {0} /\ MaxStay \in Nat /\ MaxSet \in Nat
    /\ MaxStay < Day /\ MaxStay < A!Pow64
\* There is room for a call in the queue of wake-ups.
ASSUME QueueAssumption == QueueSize \in Nat \ {0} /\ MaxRestarts \in Nat
\* post() gives the Hall sensor one of its ranges, and nothing read stands
\* for no sensor.
ASSUME SensorAssumption == HallRange \in S!Range /\ MaxPolls \in Nat /\ NULL \notin S!Devices
\* There is room for a Bluetooth device, at least one attempt at it is made,
\* and no address stands for none.
ASSUME BleAssumption ==
    /\ MaxDevices \in Nat \ {0} /\ MaxDiscovery \in Nat \ {0} /\ MaxReadings \in Nat
    /\ NULL \notin Peer
\* The names of threads and of mutexes are names of one thing each.
ASSUME LockAssumption ==
    /\ IsFiniteSet(MeasureType) /\ ReportType \notin MeasureType
    /\ "main" \notin MeasureType \cup {ReportType}
    /\ NULL \notin L!Thread
    /\ L!Drivers \cap {"action", "data", "processor", "modem", "i2c"} = {}

Init ==
    /\ subject \in {"sensors", "source", "accounts", "ble", "locks"}
    /\ S!Init /\ (subject # "sensors" => dev["gnss"].fitted)
    /\ E!Init /\ A!Init /\ B!Init
    /\ L!Init /\ (subject # "locks" => ranked = <<>>)

Sensors == subject = "sensors" /\ S!Next /\ UNCHANGED <<subject, source, accounts, ble, locks>>
Source == subject = "source" /\ E!Next /\ UNCHANGED <<subject, sensors, accounts, ble, locks>>
Accounts == subject = "accounts" /\ A!Next /\ UNCHANGED <<subject, sensors, source, ble, locks>>
Ble == subject = "ble" /\ B!Next /\ UNCHANGED <<subject, sensors, source, accounts, locks>>
Locks == subject = "locks" /\ L!Next /\ UNCHANGED <<subject, sensors, source, accounts, ble>>

Next == Sensors \/ Source \/ Accounts \/ Ble \/ Locks

\* The fairness of Locks; nothing is asked of the other parts.
Fairness ==
    /\ WF_locks(subject = "locks" /\ L!MainStep)
    /\ \A t \in L!Thread \ {"main"} : WF_locks(subject = "locks" /\ L!Step(t))

Spec == Init /\ [][Next]_vars /\ Fairness

-----------------------------------------------------------------------------
\* The type invariant of every part.
TypeOK == S!TypeOK /\ E!TypeOK /\ A!TypeOK /\ B!TypeOK /\ L!TypeOK

\* The properties of the parts, each stated where its part is modelled:
\* readings, low power and interrupts of the sensors ...
ReadingsRight == S!ReadingsRight
LowPower == S!LowPower
InterruptsRearmed == S!InterruptsRearmed
\* ... one energy source at a time ...
OneSourceOn == E!OneSourceOn
\* ... time and energy accounted for ...
DayFigures == A!DayFigures
ChargedOnce == A!ChargedOnce
\* ... what Bluetooth devices give ...
WantedHasCharacteristic == B!WantedHasCharacteristic
ReadingsAccounted == B!ReadingsAccounted
ScanResumes == B!ScanResumes
\* ... and locks that do not stop a wake-up.
LocksSound == subject = "locks" => L!LocksSound

\* What the code says of itself and does not do.
ThresholdSet == S!ThresholdSet
BestOfHistory == E!BestOfHistory
=============================================================================
