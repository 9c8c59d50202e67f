--------------------------- MODULE Accelerometer ---------------------------
(***************************************************************************)
(* act_lis3dh.cpp.  The sensitivity decides what a count of the chip is    *)
(* worth, in a reading and in the threshold of either interrupt; the       *)
(* driver keeps the one it believes in, in gSensitivity.                   *)
(***************************************************************************)
EXTENDS Integers, I2cBus, TLC

\* gInitialised, gSensitivity and the handler given to gInterrupt; then the
\* chip: its power mode, its full scale, and for each interrupt pin the
\* threshold and duration ("reset": as they are at power-on) and whether it
\* is enabled.
NoAccel == [init |-> FALSE, sens |-> 0, attached |-> FALSE, mode |-> "down", scale |-> 0,
            threshold |-> [i \in 1 .. 2 |-> "reset"], duration |-> [i \in 1 .. 2 |-> "reset"],
            enabled |-> [i \in 1 .. 2 |-> FALSE],
            fitted |-> TRUE, bus |-> FALSE, faulty |-> FALSE]

\* lis3dhInit(): identity, pull-up, power mode.
AccelInit(d) ==
    IF d.init THEN Ok(d)
    ELSE LET Run(e) == Transfer(e, [e EXCEPT !.mode = "low", !.init = TRUE])
         IN Then(Then(Read([d EXCEPT !.attached = FALSE]), Read), Run)

\* lis3dhDeinit(): the answer is not looked at.
AccelDeinit(d) ==
    IF ~d.init THEN Ok(d)
    ELSE {[ok |-> TRUE, dev |-> [o.dev EXCEPT !.init = FALSE]] : o \in Transfer(d, [d EXCEPT !.mode = "down"])}

\* _setInterruptThreshold(): the threshold is worked out and its register
\* addressed, then the address is moved on to the next one, the duration's,
\* which is the only one written.
SetThreshold(d, i, threshold, duration) == Transfer(d, [d EXCEPT !.duration[i] = duration])

\* lis3dhSetInterruptThreshold()
AccelSetThreshold(d, i, threshold, duration) ==
    IF d.init THEN SetThreshold(d, i, threshold, duration) ELSE Error(d)

\* _getInterruptThreshold()
GetThreshold(d) == Then(Read(d), Read)

\* lis3dhSetSensitivity(): both thresholds are put back in the new scale.
AccelSetSensitivity(d, s) ==
    IF ~d.init \/ s \notin 0 .. 3 THEN Error(d)
    ELSE LET Put(e) == Transfer(e, [e EXCEPT !.scale = s, !.sens = s])
             Restore(e) == Then(SetThreshold(e, 1, d.threshold[1], d.duration[1]),
                                LAMBDA f : SetThreshold(f, 2, d.threshold[2], d.duration[2]))
         IN Then(Then(Then(Then(GetThreshold(d), GetThreshold), Read), Put), Restore)

\* lis3dhSetInterruptEnable(): five registers, and last of all the handler.
AccelSetEnable(d, i, on) ==
    IF ~d.init \/ i \notin 1 .. 2 THEN Error(d)
    ELSE LET Route(e) == Then(Then(Read(e), Read), Read)
             Enable(e) == Transfer(e, [e EXCEPT !.enabled[i] = on, !.attached = on])
         IN Then(Then(Then(Read(d), Route), Route), Enable)

\* getAcceleration(): the counts are scaled with gSensitivity.
Acceleration(d) == IF d.init THEN Read(d) ELSE Error(d)
AccelScaled(d) == d.sens = d.scale

\* An interrupt can come.
AccelWatches(d) == d.attached /\ d.mode = "low" /\ \E i \in 1 .. 2 : d.enabled[i]
=============================================================================
