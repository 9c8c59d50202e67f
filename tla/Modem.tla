-------------------------------- MODULE Modem --------------------------------
(***************************************************************************)
(* The life of the modem: act_modem.cpp's modemInit(), modemConnect() and  *)
(* modemDeinit() as reporting() (eh_processor.cpp) and post() call them,   *)
(* on top of the two drivers.  The board carries a SARA-R4 or a SARA-N2;   *)
(* which, the code finds out the first time the driver's init() works.     *)
(* The reporting thread may be told to stop at any time; the module may    *)
(* stop answering at any time, for good or for one command.  What is done  *)
(* over the connection is in Reporting and in the socket modules.          *)
(***************************************************************************)
EXTENDS Integers

CONSTANTS
    AtTries, Passes, SimTries, ReadTries, \* the drivers' limits
    MaxReportFailures, \* MAX_NUM_REPORT_FAILURES
    NULL

\* A build: CELLULAR_R4_RAT is not -1, CELLULAR_N211_OFF_WHEN_NOT_IN_USE,
\* FORCE_N2_MODEM.  modemInterfaceOff() has its body (TARGET_UBLOX_EVK_NINA_B1).
Build == [rat : BOOLEAN, off : BOOLEAN, force : BOOLEAN]

ASSUME FailureLimit == MaxReportFailures \in Nat \ {0}
ASSUME DriverLimits == {AtTries, Passes, SimTries, ReadTries} \subseteq Nat \ {0}

VARIABLES
    build,           \* the build's configuration: never changes
    fitted, power, object, at, tries, count, saved, keepGoing, speed, uart,
    pInterface,      \* gpInterface: the driver handed out, by its type
    initialisedOnce, \* gInitialisedOnce
    useN2,           \* gUseN2xxModem
    pc,              \* who is at what: post() or reporting()
    outcome,         \* state of the reporting action
    failures,        \* gReportNumFailures
    modemOff         \* gModemOff

board == <<build, fitted, saved, keepGoing>>
known == <<initialisedOnce, useN2>>
report == <<outcome, failures, modemOff>>
driver == <<object, at, tries, count, uart>>
vars == <<board, driver, power, speed, pInterface, known, pc, report>>

R4 == INSTANCE CellularBase
N2 == INSTANCE CellularBaseN2xx

Init ==
    /\ build \in Build
    /\ fitted \in {"R4", "N2"}
    /\ saved \in R4!Saved
    /\ power = FALSE /\ speed = "slow"
    /\ object = NULL /\ at = "none" /\ tries = 0 /\ count = 0 /\ uart = "slow"
    /\ pInterface = NULL /\ initialisedOnce = FALSE /\ useN2 = FALSE
    /\ keepGoing = TRUE
    /\ pc = "post"
    /\ outcome = "none" /\ failures = 0 /\ modemOff = TRUE

-----------------------------------------------------------------------------
(* modemInit() *)

\* pGetSaraR4() and pGetSaraN2() up to init(); the object of an attempt that
\* failed has been deleted, the power it put on has not been taken off.
Construct(type) ==
    /\ object' = IF type = "N2" THEN N2!Constructed ELSE R4!Constructed
    /\ at' = "power_up" /\ tries' = 0 /\ count' = 0 /\ uart' = "slow"

\* With a driver there already, modemInit() has nothing to do.  The R4 is
\* tried first: an N2 module does not answer it.
InitModem ==
    /\ pc \in {"post", "reporting"} /\ at = "none"
    /\ IF pInterface # NULL
       THEN at' = "ready" /\ UNCHANGED <<object, tries, count, uart, known>>
       ELSE /\ initialisedOnce' = (initialisedOnce \/ build.force)
            /\ useN2' = (useN2 \/ build.force)
            /\ Construct(IF initialisedOnce' /\ useN2' THEN "N2" ELSE "R4")
    /\ UNCHANGED <<board, power, speed, pInterface, pc, report>>

\* Mutant: the flag is set when the N2 driver is tried, not when it has worked.
TryOtherFlagged ==
    /\ at = "failed" /\ object.type = "R4" /\ ~initialisedOnce
    /\ Construct("N2")
    /\ useN2' = TRUE
    /\ UNCHANGED <<board, power, speed, pInterface, initialisedOnce, pc, report>>

TryOther ==
    /\ at = "failed" /\ object.type = "R4" /\ ~initialisedOnce
    /\ Construct("N2")
    /\ UNCHANGED <<board, power, speed, pInterface, known, pc, report>>

\* The driver is handed out.
InitDone ==
    /\ pc \in {"post", "reporting"} /\ at = "ready"
    /\ pInterface' = object.type
    /\ initialisedOnce' = TRUE
    /\ useN2' = (useN2 \/ object.type = "N2")
    /\ at' = "none"
    /\ pc' = IF pc = "post" THEN "posted" ELSE "initialised"
    /\ UNCHANGED <<board, object, tries, count, uart, power, speed, report>>

\* The driver is deleted, modemInterfaceOff() called.
InitFailed ==
    /\ at = "failed" /\ (object.type = "N2" \/ initialisedOnce)
    /\ object' = NULL /\ at' = "none"
    /\ power' = FALSE
    /\ outcome' = IF pc = "reporting" THEN "failed" ELSE outcome
    /\ pc' = IF pc = "post" THEN "posted" ELSE "down"
    /\ UNCHANGED <<board, tries, count, uart, speed, pInterface, known, failures, modemOff>>

\* A step of the driver at work.
DriverStep ==
    /\ \/ /\ object # NULL /\ object.type = "R4"
          /\ R4!Step
          /\ speed' = IF power THEN speed ELSE "slow"
          /\ UNCHANGED uart
       \/ /\ object # NULL /\ object.type = "N2"
          /\ N2!Step
          /\ UNCHANGED <<count, saved>>
    /\ UNCHANGED <<pInterface, known, pc, report>>

-----------------------------------------------------------------------------
(* reporting() *)

\* A wake-up comes to its report.
Report ==
    /\ pc = "idle"
    /\ pc' = "reporting" /\ outcome' = "none" /\ keepGoing' = TRUE
    /\ UNCHANGED <<build, fitted, saved, driver, power, speed, pInterface, known, failures, modemOff>>

\* The thread is terminated.
Terminate ==
    /\ pc \notin {"idle", "post"} /\ keepGoing
    /\ keepGoing' = FALSE
    /\ UNCHANGED <<build, fitted, saved, driver, power, speed, pInterface, known, pc, report>>

\* modemConnect(): connect() finds the driver initialised and registers.
Connect ==
    /\ pc = "initialised"
    /\ IF keepGoing THEN pc' = "connecting" /\ at' = "register"
                    ELSE pc' = "down" /\ UNCHANGED at
    /\ UNCHANGED <<board, object, tries, count, uart, power, speed, pInterface, known, report>>

\* connect() returns.  What follows ends well, badly, or is cut short.
Connected ==
    /\ pc = "connecting" /\ at \in {"registered", "unregistered"}
    /\ at' = "none" /\ pc' = "down"
    /\ outcome' \in CASE at = "unregistered" -> {"failed"}
                     [] at = "registered" /\ keepGoing -> {"none", "completed", "failed"}
                     [] OTHER -> {"none"}
    /\ UNCHANGED <<board, object, tries, count, uart, power, speed, pInterface, known,
                   failures, modemOff>>

\* The end of post(): the modem is shut down, if it has been found.
\* modemDeinit() does nothing without a driver.
Shut ==
    IF pInterface # NULL THEN pc' = "deinit" /\ at' = "disconnect"
                         ELSE pc' = "idle" /\ at' = "none"

PostDone ==
    /\ pc = "posted"
    /\ Shut
    /\ UNCHANGED <<board, object, tries, count, uart, power, speed, pInterface, known, report>>

\* The failures counted so far; more than the limit are as good as the limit.
FailuresNow ==
    IF outcome = "failed" /\ failures < MaxReportFailures THEN failures + 1 ELSE failures

\* An R4 is shut down after each report, an N2 in a build that says so.
ShutEachTime == ~useN2 \/ build.off

\* Mutant: that the modem has been given its rest is not noted.
WindDownUnnoted ==
    /\ pc = "down"
    /\ modemOff' = ShutEachTime
    /\ IF ShutEachTime
       THEN failures' = FailuresNow /\ Shut
       ELSE IF FailuresNow >= MaxReportFailures
       THEN failures' = 0 /\ Shut
       ELSE failures' = FailuresNow /\ pc' = "idle" /\ at' = "none"
    /\ UNCHANGED <<board, object, tries, count, uart, power, speed, pInterface, known, outcome>>

\* The end of reporting(): otherwise the modem stays up unless too many
\* reports have failed.
WindDown ==
    /\ pc = "down"
    /\ modemOff' = (ShutEachTime \/ FailuresNow >= MaxReportFailures)
    /\ IF ShutEachTime
       THEN failures' = FailuresNow /\ Shut
       ELSE IF FailuresNow >= MaxReportFailures
       THEN failures' = 0 /\ Shut
       ELSE failures' = FailuresNow /\ pc' = "idle" /\ at' = "none"
    /\ UNCHANGED <<board, object, tries, count, uart, power, speed, pInterface, known, outcome>>

\* modemDeinit() after the driver's disconnect() and deinit().
Deinitialised ==
    /\ pc = "deinit" /\ at = "deinitialised"
    /\ object' = NULL /\ at' = "none"
    /\ power' = FALSE
    /\ pInterface' = NULL
    /\ pc' = "idle"
    /\ UNCHANGED <<board, tries, count, uart, speed, known, report>>

Proceed == InitModem \/ TryOther \/ InitDone \/ InitFailed \/ DriverStep
           \/ Connect \/ Connected \/ PostDone \/ WindDown \/ Deinitialised

Next == Proceed \/ Report \/ Terminate

\* Threads run and exchanges time out; the main thread terminates a report
\* whose time is up.
Spec == Init /\ [][Next]_vars /\ WF_vars(Proceed) /\ WF_vars(Terminate)

-----------------------------------------------------------------------------
Object == [type : {"R4", "N2"}, initialised : BOOLEAN, registered : SUBSET R4!Domain,
           timeout : {"default", "short"}]

ASSUME NullAssumption == NULL \notin Object \cup {"R4", "N2"}

TypeOK ==
    /\ build \in Build /\ fitted \in {"R4", "N2"} /\ saved \in R4!Saved
    /\ power \in BOOLEAN /\ keepGoing \in BOOLEAN
    /\ speed \in {"slow", "fast"} /\ uart \in {"slow", "fast"}
    /\ object \in Object \cup {NULL}
    /\ tries \in 0 .. AtTries + SimTries + ReadTries /\ count \in 0 .. Passes
    /\ at \in {"none", "power_up", "setup", "mno", "rat", "band", "sim", "speed", "ready",
               "failed", "register", "searching", "registered", "unregistered",
               "disconnect", "deinit", "deinitialised"} \cup DOMAIN R4!Following
    /\ pInterface \in {"R4", "N2", NULL}
    /\ initialisedOnce \in BOOLEAN /\ useN2 \in BOOLEAN
    /\ pc \in {"idle", "post", "posted", "reporting", "initialised", "connecting", "down",
               "deinit"}
    /\ outcome \in {"none", "completed", "failed"}
    /\ failures \in 0 .. MaxReportFailures /\ modemOff \in BOOLEAN

\* "Flag to indicate that we have been initialised at least once (and
\* therefore figured out what modem is attached)" (act_modem.cpp): once set
\* nothing ever corrects gUseN2xxModem, so it must be right, however many
\* attempts have failed before.
ModemFiguredOut ==
    initialisedOnce /\ ~build.force => useN2 = (fitted = "N2")

\* "Make sure power is really off" (modemInterfaceOff()): between reports a
\* modem without a driver has no power, whichever way it was left; and
\* gModemOff, from which the energy of the next report is worked out, says
\* whether that is so.
OffWhenDone ==
    pc = "idle" => /\ power = (pInterface # NULL)
                   /\ modemOff = (pInterface = NULL)

\* A driver is only ever started on a module at the rate its own UART starts
\* with: the rate an attempt has set before its OK was lost does not survive.
RatesMeet ==
    at = "power_up" /\ tries = 0 /\ object.type = "N2" /\ power => speed = uart

\* "Check the MNO Profile" (pre_init()): a SARA-R4 that has been initialised
\* runs under the profile wanted, though reading or setting it may have
\* failed, and setting anything else comes after it.
ProfileAsWanted ==
    object # NULL /\ object.type = "R4" /\ object.initialised => saved.mno

\* What the program believes of the module, or has told it to be, is so.
ModemAsBelieved == ModemFiguredOut /\ RatesMeet /\ ProfileAsWanted

\* nwk_registration() puts the time-out of AT exchanges back on every way
\* out of its loop (registered, module silent, told to stop): no object is
\* left with the short one, which would cut off later, longer exchanges.
\* Where it is changed and put back around a single AT command, as in
\* power_up(), the model does not follow it.
TimeoutPutBack ==
    object # NULL /\ at # "searching" => object.timeout = "default"

\* "the thing has gone on too long" (keep_going_callback): a report comes to
\* its end, with the modem shut down or left as it should be, however long
\* the network search or the module's silence.
ReportEnds == pc # "idle" ~> pc = "idle"
=============================================================================
