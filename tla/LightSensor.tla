---------------------------- MODULE LightSensor ----------------------------
(***************************************************************************)
(* act_si1133.cpp.  A measurement is asked for with a command and found    *)
(* done in the interrupt status, which reading clears.  One that comes too *)
(* late for the call that asked for it leaves its status in the chip.      *)
(***************************************************************************)
EXTENDS I2cBus, TLC

\* gInitialised; the chip's parameters ("reset", "set", or "shut": channels
\* paused), whether it is measuring, its interrupt status ("this": of the
\* measurement last asked for); took: the status getLight() answered by.
NoLight == [init |-> FALSE, params |-> "reset", measuring |-> FALSE, irq |-> "none",
            took |-> NULL,
            fitted |-> TRUE, bus |-> FALSE, faulty |-> FALSE]

\* setParameter() and sendCommand(): both wait for the chip to sleep, write,
\* and wait for the response counter to move on.
SetParameter(d, params) ==
    Then(Then(Read(d), LAMBDA e : Transfer(e, [e EXCEPT !.params = params])), Read)
SendCommand(d, e) == Then(Then(Read(d), LAMBDA f : Transfer(f, e)), Read)

\* si1133Init(): CMD_RESET, the parameters, REG_IRQ_ENABLE.
LightInit(d) ==
    IF d.init THEN Ok(d)
    ELSE LET Reset(e) == Transfer(e, [e EXCEPT !.params = "reset", !.measuring = FALSE, !.irq = "none"])
             Program(e) == SetParameter(e, "set")
             Enable(e) == Transfer(e, [e EXCEPT !.init = TRUE])
         IN Then(Then(Reset(d), Program), Enable)

\* si1133Deinit(): no answer is looked at.
LightDeinit(d) ==
    IF ~d.init THEN Ok(d)
    ELSE LET Pause(e) == SendCommand(e, e)
         IN {[ok |-> TRUE, dev |-> [o.dev EXCEPT !.init = FALSE]] : o \in Finally(SetParameter(d, "shut"), Pause)}

\* readResults(): one transfer.
ReadResults(d) == Read(d)

\* getLight(): it waits for the status until a transfer fails or time is up.
Light(d) ==
    IF ~d.init THEN Error(d)
    ELSE LET Force == SendCommand(d, [d EXCEPT !.measuring = TRUE, !.irq = IF @ = "none" THEN @ ELSE "old"])
             InTime(e) == IF e.irq # "none" THEN {e}
                          ELSE {e, [e EXCEPT !.measuring = FALSE, !.irq = "this"]}
             Poll(e) == IF e.irq = "none" THEN Error(e)
                        ELSE Then(Transfer(e, [e EXCEPT !.took = e.irq, !.irq = "none"]), ReadResults)
         IN Then(Force, LAMBDA e : UNION {Poll(f) : f \in InTime(e)})

\* The chip is done, and nobody waits for it.
LightDone(d) == [d EXCEPT !.measuring = FALSE, !.irq = "old"]
=============================================================================
