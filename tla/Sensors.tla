------------------------------- MODULE Sensors -------------------------------
(***************************************************************************)
(* The sensors in the life of the program: eh_post.cpp sets each of them   *)
(* up and says which are of use; a wake-up (eh_processor.cpp) reads them;  *)
(* the accelerometer and the Hall sensor stay on and wake the program up.  *)
(* A transfer may fail at any time, and the program may start again with   *)
(* the chips as it left them.                                              *)
(***************************************************************************)
EXTENDS Integers, Sequences, HallSensor, Accelerometer, LightSensor, ClimateSensor, Gnss

CONSTANTS Boards,       \* the sets of sensors that boards are fitted with
          HallRange,    \* SI7210_RANGE
          AccelScale,   \* LIS3DH_SENSITIVITY
          QueueSize,    \* events gWakeUpEventQueue has room for, beside the timer's
          MaxPolls,     \* bound: requests for a position in a wake-up
          MaxRestarts   \* bound

Watching == {"accel", "hall"}
Devices == Watching \cup {"climate", "light", "gnss"}

\* The order in which post() comes by them (ActionType).
PostOrder == <<"modem", "climate", "light", "accel", "gnss", "hall">>

VARIABLES
    phase,    \* "post", "ready" (main() calls the handler next), "awake",
              \* "leaving" (gpEventQueue is NULL again) or "asleep"
    turn,     \* where post() has got to
    modemOk,  \* modemIsOk
    wanted,   \* the sensors whose measurement is desirable at all
    dev,      \* the drivers and their chips
    flag,     \* gTwasMe, of each sensor that interrupts
    queued,   \* calls of processorHandleWakeup() in gWakeUpEventQueue
    leaked,   \* regular calls left in it by Bluetooth actions
    toDo,     \* sensors still to be read in this wake-up
    reading,  \* history: the sensor just read, if the answer was OK
    restarts  \* history

vars == <<phase, turn, modemOk, wanted, dev, flag, queued, leaked, toDo, reading, restarts>>

Blank == [climate |-> NoClimate, light |-> NoLight, accel |-> NoAccel, gnss |-> NoGnss, hall |-> NoHall]

TypeOK ==
    /\ phase \in {"post", "ready", "awake", "leaving", "asleep"}
    /\ turn \in 1 .. Len(PostOrder) + 1
    /\ modemOk \in BOOLEAN
    /\ wanted \subseteq Devices /\ toDo \subseteq wanted
    /\ flag \in [Watching -> BOOLEAN]
    /\ queued \in 0 .. QueueSize /\ leaked \in 0 .. QueueSize
    /\ reading \in Devices \cup {NULL}
    /\ restarts \in 0 .. MaxRestarts
    /\ \A s \in Devices : dev[s].bus = dev["hall"].bus
    /\ dev["hall"].comp \in Range \cup {"mixed"} /\ dev["hall"].range \in Range
    /\ dev["accel"].sens \in 0 .. 3
    /\ dev["light"].irq \in {"none", "this", "old"}
    /\ \A m \in {dev["gnss"].stream[i] : i \in DOMAIN dev["gnss"].stream} : m \in Messages

-----------------------------------------------------------------------------
\* setHwState() and post() up to the first sensor.
StartOver(devices) ==
    /\ phase' = "post" /\ turn' = 1 /\ modemOk' = FALSE
    /\ wanted' = Devices
    /\ dev' = [s \in Devices |-> BusInit(devices[s])]
    /\ flag' = [s \in Watching |-> FALSE]
    /\ queued' = 0 /\ leaked' = 0 /\ toDo' = {}

Init ==
    \E board \in Boards :
        /\ phase = "post" /\ turn = 1 /\ modemOk = FALSE
        /\ wanted = Devices
        /\ dev = [s \in Devices |-> BusInit([Blank[s] EXCEPT !.fitted = s \in board])]
        /\ flag = [s \in Watching |-> FALSE]
        /\ queued = 0 /\ leaked = 0 /\ toDo = {} /\ reading = NULL /\ restarts = 0

\* What post() does with a sensor.
Powered(d) == UNION {GnssInit(e) : e \in SupplyOn(d)}
PostOf(s, d) ==
    CASE s = "climate" -> Finally(ClimateInit(d), ClimateDeinit)
      [] s = "light" -> Finally(LightInit(d), LightDeinit)
      [] s = "gnss" -> Finally(Powered(d), GnssDeinit)
      [] s = "accel" ->
            LET Watch(e) == Then(AccelSetThreshold(e, 1, "asked", "asked"),
                                 LAMBDA f : AccelSetEnable(f, 1, TRUE))
            IN Then(Then(AccelInit(d), LAMBDA e : AccelSetSensitivity(e, AccelScale)), Watch)
      [] s = "hall" ->
            Then(Then(HallInit(d), LAMBDA e : HallSetRange(e, HallRange)), HallSetInterrupt)

\* lis3dhInit() and si7210Init() clear the flag of a sensor not initialised.
FlagAfterInit(s) == [w \in Watching |-> flag[w] /\ ~(w = s /\ ~dev[s].init)]

\* Mutant: a sensor that fails keeps its place in the list of actions.
PostSensorKept(s) ==
    \E o \in PostOf(s, dev[s]) :
        /\ dev' = [dev EXCEPT ![s] = o.dev]
        /\ wanted' = wanted
        /\ flag' = FlagAfterInit(s)

PostSensor(s) ==
    \E o \in PostOf(s, dev[s]) :
        /\ dev' = [dev EXCEPT ![s] = o.dev]
        /\ wanted' = IF o.ok THEN wanted ELSE wanted \ {s}
        /\ flag' = FlagAfterInit(s)

\* One turn of post()'s loop, with bestEffort.  The modem is in Modem.tla;
\* here it works or it does not, and puts the 1V8 supply on.
Post ==
    /\ phase = "post" /\ turn <= Len(PostOrder)
    /\ turn' = turn + 1
    /\ LET s == PostOrder[turn]
       IN IF s = "modem"
          THEN /\ modemOk' \in BOOLEAN
               /\ restarts = MaxRestarts => modemOk' \* the bound
               /\ \E d \in SupplyOn(dev["gnss"]) : dev' = [dev EXCEPT !["gnss"] = d]
               /\ UNCHANGED <<wanted, flag>>
          ELSE PostSensor(s) /\ UNCHANGED modemOk
    /\ reading' = NULL
    /\ UNCHANGED <<phase, queued, leaked, toDo, restarts>>

PowerDown(devices) ==
    [s \in Devices |-> BusDeinit(IF s = "gnss" THEN SupplyOff(devices[s]) ELSE devices[s])]

\* The end of post(), and processorInit().
PostDone ==
    /\ phase = "post" /\ turn > Len(PostOrder) /\ modemOk
    /\ phase' = "ready"
    /\ dev' = PowerDown(dev)
    /\ reading' = NULL
    /\ UNCHANGED <<turn, modemOk, wanted, flag, queued, leaked, toDo, restarts>>

\* What does not survive a reset: the drivers' variables.
Forgotten(s, d) ==
    LET off == [d EXCEPT !.init = FALSE, !.bus = FALSE]
    IN CASE s = "hall" -> [off EXCEPT !.range = "20", !.raw = NULL, !.attached = FALSE]
         [] s = "accel" -> [off EXCEPT !.sens = 0, !.attached = FALSE]
         [] s = "light" -> [off EXCEPT !.took = NULL]
         [] s = "climate" -> [off EXCEPT !.took = NULL]
         [] s = "gnss" -> [SupplyOff(d) EXCEPT !.parser = FALSE, !.pipe = <<>>, !.tail = "blank",
                                                !.took = NULL, !.bus = FALSE]

\* post() has failed and main() resets the chip, or the watchdog or a fatal
\* error does.
Restart ==
    /\ \/ phase = "post" /\ turn > Len(PostOrder) /\ ~modemOk
       \/ phase = "awake"
    /\ restarts < MaxRestarts
    /\ restarts' = restarts + 1
    /\ StartOver([s \in Devices |-> Forgotten(s, dev[s])])
    /\ reading' = NULL

-----------------------------------------------------------------------------
\* The interrupt of a sensor that watches: interruptCallback().
HallWatches(d) == d.attached /\ d.mode = "timed"
Interrupt(s) ==
    /\ IF s = "accel" THEN AccelWatches(dev[s]) ELSE HallWatches(dev[s])
    /\ ~flag[s]
    /\ flag' = [flag EXCEPT ![s] = TRUE]
    /\ queued' = IF queued + leaked < QueueSize THEN queued + 1 ELSE queued \* call() gives up
    /\ reading' = NULL
    /\ UNCHANGED <<phase, turn, modemOk, wanted, dev, leaked, toDo, restarts>>

\* processorHandleWakeup(), called by main(), by an interrupt's event or by
\* the timer; with enough energy it brings the bus up and has a list of
\* measurements.
CallHandler ==
    \/ phase = "ready" /\ UNCHANGED queued
    \/ phase = "asleep" /\ queued > 0 /\ queued' = queued - 1
    \/ phase = "asleep" /\ UNCHANGED queued

WakeUp ==
    /\ CallHandler
    /\ phase' = "awake"
    /\ toDo' = wanted
    /\ dev' = [s \in Devices |-> IF wanted = {} THEN dev[s] ELSE BusInit(dev[s])]
    /\ reading' = NULL
    /\ UNCHANGED <<turn, modemOk, wanted, flag, leaked, restarts>>

NotEnoughEnergy ==
    /\ CallHandler
    /\ phase' = "leaving"
    /\ reading' = NULL
    /\ UNCHANGED <<turn, modemOk, wanted, dev, flag, leaked, toDo, restarts>>

\* doMeasureX(): a device's three measurements are any of three calls; the
\* action may be told to stop between its init and its reading.
PollsOf(d) ==
    LET Poll(e) == GetPosition(e, "fix") \cup GetPosition(e, "no fix")
        Polls[n \in 0 .. MaxPolls] == IF n = 0 THEN Error(d) ELSE OrElse(Polls[n - 1], Poll)
    IN Polls[MaxPolls]
PositionOf(d) ==
    LET Clock(e) == Finally(Finally(Ok(e), GetTime), GetTime)
    IN Then(PollsOf(d), Clock)
ReadingOf(s, d) ==
    CASE s = "climate" ->
            Then(ClimateInit(d),
                 LAMBDA e : Error(e) \cup GetTemperature(e) \cup GetHumidity(e) \cup GetPressure(e))
      [] s = "light" -> Finally(Then(LightInit(d), LAMBDA e : Error(e) \cup Light(e)), LightDeinit)
      [] s = "gnss" -> Finally(Then(Powered(d), PositionOf), GnssDeinit)
      [] s = "accel" -> Then(AccelInit(d), Acceleration)
      [] s = "hall" -> Then(HallInit(d), FieldStrength)

\* The chip's timer is much shorter than what the program does between
\* setting the range and reading: no measurement is left from before.
Measured(s) == s = "hall" => dev[s].data \in {NULL, dev[s].comp}

Measure(s) ==
    /\ phase = "awake" /\ s \in toDo /\ Measured(s)
    /\ \E o \in ReadingOf(s, dev[s]) :
          /\ dev' = [dev EXCEPT ![s] = o.dev]
          /\ reading' = IF o.ok THEN s ELSE NULL
    /\ toDo' = toDo \ {s} /\ flag' = FlagAfterInit(s)
    /\ UNCHANGED <<phase, turn, modemOk, wanted, queued, leaked, restarts>>

\* The report's modem puts the 1V8 supply on too.
Report ==
    /\ phase = "awake" /\ ~dev["gnss"].supply
    /\ \E d \in SupplyOn(dev["gnss"]) : dev' = [dev EXCEPT !["gnss"] = d]
    /\ reading' = NULL
    /\ UNCHANGED <<phase, turn, modemOk, wanted, flag, queued, leaked, toDo, restarts>>

\* The threads are gone: 1V8 off, bme280Deinit(), i2cDeinit(), and
\* gpEventQueue back to NULL.
TidyUp ==
    /\ phase = "awake"
    /\ phase' = "leaving"
    /\ LET down == PowerDown(dev)
       IN \E o \in ClimateDeinit(down["climate"]) : dev' = [down EXCEPT !["climate"] = o.dev]
    /\ toDo' = {} /\ reading' = NULL
    /\ UNCHANGED <<turn, modemOk, wanted, flag, queued, leaked, restarts>>

\* Mutant: the Hall sensor's flag is not cleared.
ClearFlagsButOne ==
    /\ phase = "leaving"
    /\ phase' = "asleep"
    /\ flag' = [flag EXCEPT !["accel"] = FALSE]
    /\ reading' = NULL
    /\ UNCHANGED <<turn, modemOk, wanted, dev, queued, leaked, toDo, restarts>>

\* A Bluetooth action dispatches the queue too, in its own thread; a handler
\* called so finds gpEventQueue set and returns.
HandlerBusy ==
    /\ phase = "awake" /\ queued > 0
    /\ queued' = queued - 1
    /\ reading' = NULL
    /\ UNCHANGED <<phase, turn, modemOk, wanted, dev, flag, leaked, toDo, restarts>>

\* A Bluetooth action has run: getBleReadingsCallback() stays in the queue,
\* where bleInitComplete() put it to be called for ever (call_every()).  The
\* stack's own events are dispatched as they come.
BleRuns ==
    /\ phase = "awake" /\ queued + leaked < QueueSize
    /\ leaked' = leaked + 1
    /\ reading' = NULL
    /\ UNCHANGED <<phase, turn, modemOk, wanted, dev, flag, queued, toDo, restarts>>

\* The last two calls of processorHandleWakeup().
ClearFlags ==
    /\ phase = "leaving"
    /\ phase' = "asleep"
    /\ flag' = [s \in Watching |-> FALSE]
    /\ reading' = NULL
    /\ UNCHANGED <<turn, modemOk, wanted, dev, queued, leaked, toDo, restarts>>

\* The chips' own steps.
ChipMeasures ==
    /\ \/ /\ dev["hall"].mode = "timed" /\ dev["hall"].fitted
          /\ dev' = [dev EXCEPT !["hall"] = HallMeasures(@)]
       \/ /\ dev["light"].measuring
          /\ dev' = [dev EXCEPT !["light"] = LightDone(@)]
    /\ reading' = NULL
    /\ UNCHANGED <<phase, turn, modemOk, wanted, flag, queued, leaked, toDo, restarts>>

Next ==
    \/ Post \/ PostDone \/ Restart
    \/ WakeUp \/ NotEnoughEnergy \/ HandlerBusy \/ BleRuns \/ Report \/ TidyUp \/ ClearFlags
    \/ ChipMeasures
    \/ \E s \in Devices : Measure(s)
    \/ \E s \in Watching : Interrupt(s)

Spec == Init /\ [][Next]_vars

-----------------------------------------------------------------------------
\* What a sensor that was set up in pieces, by a driver that failed half-way,
\* reads is never reported: a Hall or acceleration reading answered OK is
\* scaled with the range it was taken with, whatever failed before it and
\* whatever range the chip was in when the program started; a light reading
\* is of the measurement that getLight() asked for, though an earlier one
\* that timed out may complete while it waits.
ReadingsRight ==
    /\ reading = "hall" => HallScaled(dev["hall"])
    /\ reading = "accel" => AccelScaled(dev["accel"])
    /\ reading = "light" => dev["light"].took = "this"

\* Asleep, with no transfer failed, nothing is left running that has a
\* lower state: bus and 1V8 off, Hall sensor on its timer, no light
\* measurement armed, no parser.
LowPower ==
    phase = "asleep" =>
        /\ \A s \in Devices : ~dev[s].bus
        /\ ~dev["gnss"].supply /\ ~dev["gnss"].parser
        /\ dev["climate"].mode = "sleep" /\ ~dev["climate"].init
        /\ ~dev["hall"].faulty => dev["hall"].mode # "idle"
        /\ ~dev["light"].faulty => ~dev["light"].init /\ dev["light"].params # "set"

\* An interrupt is never used up for nothing: while the program sleeps, a
\* sensor's flag, which keeps its interrupts from having any effect, is
\* down or there is a wake-up in the queue that will take it down; unless
\* the calls left by Bluetooth actions fill the queue, when it stays up until
\* the timer's wake-up.
InterruptsRearmed ==
    phase = "asleep" => \A s \in Watching : flag[s] => queued > 0 \/ leaked = QueueSize

\* The accelerometer that post() says is all right watches at the threshold
\* that post() gave it.
ThresholdSet == phase = "asleep" /\ "accel" \in wanted => dev["accel"].threshold[1] = "asked"
=============================================================================
