--------------------------- MODULE ClimateSensor ---------------------------
(***************************************************************************)
(* act_bme280.cpp: humidity, pressure and temperature from one chip.       *)
(* Humidity and pressure read the temperature first, to compensate.        *)
(***************************************************************************)
EXTENDS I2cBus, TLC

\* gInitialised; the chip's mode; took: what the last answer stood on.
NoClimate == [init |-> FALSE, mode |-> "sleep", took |-> NULL,
              fitted |-> TRUE, bus |-> FALSE, faulty |-> FALSE]

\* bme280Init(): identity, set up, trimming values, sleep.
ClimateInit(d) ==
    IF d.init THEN Ok(d)
    ELSE Then(Then(Then(Read(d), Read), Read),
              LAMBDA e : Transfer(e, [e EXCEPT !.mode = "sleep", !.init = TRUE]))

\* bme280Deinit()
ClimateDeinit(d) == Ok([d EXCEPT !.init = FALSE])

\* setForcedMode() and _getTemperature(): the chip sleeps again once it has
\* measured; it may not be done in time.
SetForcedMode(d) == Then(Read(d), LAMBDA e : Transfer(e, [e EXCEPT !.mode = "forced"]))
Temperature(d) ==
    LET Wait(e) == Ok([e EXCEPT !.mode = "sleep"]) \cup Error([e EXCEPT !.mode = "sleep"])
        Take(e) == Transfer(e, [e EXCEPT !.took = "temperature"])
    IN Then(Then(SetForcedMode(d), Wait), Take)

\* getTemperature()
GetTemperature(d) == IF d.init THEN Temperature(d) ELSE Error(d)

\* getHumidity()
GetHumidity(d) ==
    IF ~d.init THEN Error(d)
    ELSE Then(Temperature(d), LAMBDA e : Transfer(e, [e EXCEPT !.took = "humidity"]))

\* getPressure(): a failure to read the pressure leaves the answer as it is,
\* OK from the temperature, and the value not set; one to compensate it is
\* ACTION_DRIVER_ERROR_CALCULATION.
GetPressure(d) ==
    IF ~d.init THEN Error(d)
    ELSE LET Take(e) == Transfer(e, [e EXCEPT !.took = "pressure"])
         IN Then(Temperature(d), LAMBDA e : {[ok |-> TRUE, dev |-> [o.dev EXCEPT !.took = IF o.ok THEN @ ELSE "nothing"]] : o \in Take(e)}
                                            \cup Error(e))
=============================================================================
