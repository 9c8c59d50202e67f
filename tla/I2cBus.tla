------------------------------- MODULE I2cBus -------------------------------
(***************************************************************************)
(* eh_i2c.cpp, and how the drivers are built on it.  A device is a record: *)
(* its driver's variables, its registers, and                              *)
(*   fitted   whether there is such a device on the board,                 *)
(*   bus      whether the bus has been set up (gpI2c is not NULL),         *)
(*   faulty   history: whether a transfer to it has failed.                *)
(* A driver's function runs with the driver's mutex held and is one step.  *)
(* Where it ends depends on which of its transfers fail, so it is the set  *)
(* of its outcomes: an answer (ACTION_DRIVER_OK or not) and the device.    *)
(***************************************************************************)
CONSTANTS NULL \* no reading

Ok(d) == {[ok |-> TRUE, dev |-> d]}
Error(d) == {[ok |-> FALSE, dev |-> d]}

\* i2cSendReceive(): the transfer takes the device from d to e, or it fails
\* and leaves it as it was.
Transfer(d, e) == Error([d EXCEPT !.faulty = TRUE])
                    \cup IF d.bus /\ d.fitted THEN Ok(e) ELSE {}

Read(d) == Transfer(d, d)

\* i2cInit() and i2cDeinit(), as the device sees them.
BusInit(d) == [d EXCEPT !.bus = TRUE]
BusDeinit(d) == [d EXCEPT !.bus = FALSE]

\* What follows only if all has gone well, ...
Then(outcomes, Op(_)) == UNION {IF o.ok THEN Op(o.dev) ELSE {o} : o \in outcomes}

\* ... only if it has not, the answer staying as it is, ...
Rescue(outcomes, Op(_)) ==
    UNION {IF o.ok THEN {o} ELSE {[ok |-> FALSE, dev |-> p.dev] : p \in Op(o.dev)} : o \in outcomes}

\* ... or in any case, its own answer not looked at.
Finally(outcomes, Op(_)) ==
    UNION {{[ok |-> o.ok, dev |-> p.dev] : p \in Op(o.dev)} : o \in outcomes}
=============================================================================
