----------------------------- MODULE HallSensor -----------------------------
(***************************************************************************)
(* act_si7210.cpp.  The chip measures on its own while its timer is on,    *)
(* and compares with a threshold.  What a measurement and the threshold    *)
(* are worth depends on the range, which is set by six compensation        *)
(* parameters; the driver keeps the range it believes in, in gRange.       *)
(* Field strengths are left out: a measurement is the range it has been    *)
(* taken with ("mixed": some parameters of each).                          *)
(***************************************************************************)
EXTENDS I2cBus, TLC

Range == {"20", "200"} \* Si7210FieldStrengthRange

\* gInitialised, gRange, gRawFieldStrength and the handler given to
\* gInterrupt; then the chip: its mode ("idle", "timed", with the measurement
\* timer on, or "off"), the range of the parameters, a measurement not read
\* yet, the range the threshold has been coded for.
NoHall == [init |-> FALSE, range |-> "20", raw |-> NULL, attached |-> FALSE,
           mode |-> "timed", comp |-> "20", data |-> NULL, code |-> NULL,
           fitted |-> TRUE, bus |-> FALSE, faulty |-> FALSE]

\* wakeUp() and sleep()
WakeChip(d) == Transfer(d, [d EXCEPT !.mode = "idle"])
Sleep(d, timerOn) ==
    Then(Read(d), LAMBDA e : Transfer(e, [e EXCEPT !.mode = IF timerOn THEN "timed" ELSE "off"]))
SleepTimed(d) == Sleep(d, TRUE)
SleepOff(d) == Sleep(d, FALSE)

\* copyCompensationParameters(): it may stop after some of the six.
CopyCompensation(d, r) ==
    Then(Read(d) \cup Error([d EXCEPT !.faulty = TRUE, !.comp = IF @ = r THEN r ELSE "mixed"]),
         LAMBDA e : Ok([e EXCEPT !.comp = r]))

\* _getInterrupt() and _setInterrupt(): both go by gRange.
GetInterrupt(d) == Then(Read(d), Read)
CodeInterrupt(d) ==
    Then(Transfer(d, [d EXCEPT !.code = "mixed"]), LAMBDA e : Transfer(e, [e EXCEPT !.code = e.range]))

\* si7210Init()
HallInit(d) ==
    IF d.init THEN Ok(d)
    ELSE LET Ready(e) == Then(CopyCompensation([e EXCEPT !.range = "20"], "20"),
                              LAMBDA f : Then(SleepTimed(f), LAMBDA g : Ok([g EXCEPT !.init = TRUE])))
             Identify(e) == Then(Read(e), Ready)
         IN Rescue(Then(WakeChip(d), Identify), SleepOff)

\* si7210SetRange(): the threshold is coded again while gRange is still the
\* old one.
HallSetRange(d, r) ==
    IF ~d.init THEN Error(d)
    ELSE LET Change(e) == IF r = d.range THEN Ok(e)
                          ELSE Then(GetInterrupt(e),
                                    LAMBDA f : Then(CopyCompensation(f, r), CodeInterrupt))
             Do(e) == Finally(Change(e), SleepTimed)
         IN Then(Then(WakeChip(d), Do), LAMBDA e : Ok([e EXCEPT !.range = r]))

\* Mutant: the chip is put back to sleep only if all has gone well.
HallSetInterruptAwake(d) ==
    IF ~d.init THEN Error(d)
    ELSE Then(WakeChip(d), LAMBDA e : Then(CodeInterrupt(e), LAMBDA f : Ok([f EXCEPT !.attached = TRUE])))

\* si7210SetInterrupt()
HallSetInterrupt(d) ==
    IF ~d.init THEN Error(d)
    ELSE LET Do(e) == Then(CodeInterrupt(e), LAMBDA f : Ok([f EXCEPT !.attached = TRUE]))
         IN Finally(Then(WakeChip(d), Do), SleepTimed)

\* getFieldStrength(): with nothing new in the chip the last reading will do.
FieldStrength(d) ==
    IF ~d.init THEN Error(d)
    ELSE LET Take(e) == IF e.data = NULL THEN Ok(e)
                        ELSE Transfer(e, [e EXCEPT !.raw = e.data, !.data = NULL])
             Do(e) == Finally(Then(Read(e), Take), SleepTimed)
         IN Then(WakeChip(d), Do)

\* The measurement is scaled with gRange.
HallScaled(d) == d.raw \in {NULL, d.range}

\* The chip measures.
HallMeasures(d) == [d EXCEPT !.data = d.comp]
=============================================================================
