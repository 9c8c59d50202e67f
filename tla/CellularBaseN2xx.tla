-------------------------- MODULE CellularBaseN2xx --------------------------
(***************************************************************************)
(* The driver's half of a SARA-N2: UbloxCellularBaseN2xx.cpp, from         *)
(* power_up() to deinit(), in the manner of CellularBase.  The module      *)
(* starts at 9600 baud whenever it gets power, and so does the UART of     *)
(* each driver object; both are put up to the final rate by AT+NATSPEED,   *)
(* the UART only when the OK has arrived.  With the two at different       *)
(* speeds no exchange works.                                               *)
(***************************************************************************)
EXTENDS Integers

CONSTANTS
    AtTries,    \* attempts at AT in power_up() (10)
    ReadTries   \* attempts at the IMEI (3)

VARIABLES
    build,      \* "off": the modem is shut down after use, and then runs above 9600
    fitted, power, object, at, tries, keepGoing, \* as in CellularBase
    speed,      \* the module's: "slow" or "fast"
    uart        \* the driver's

driverVars == <<build, fitted, power, object, at, tries, keepGoing, speed, uart>>

\* The constructor and baseClassInit().
Constructed == [type |-> "N2", initialised |-> FALSE, registered |-> {}, timeout |-> "default"]

Talking == power /\ fitted = "N2" /\ speed = uart
Exchange == IF Talking THEN BOOLEAN ELSE {FALSE}

\* is_registered_eps(), and what CEREG_URC() may have made of it.
IsRegistered == object.registered # {}
Heard == IF Talking THEN {{}, {"eps"}} ELSE {object.registered}

Goto(place) == at' = place /\ tries' = 0
Retry(limit) ==
    IF tries + 1 < limit THEN at' = at /\ tries' = tries + 1 ELSE Goto("failed")

\* A module that is given power boots at its own rate.
Powered == power' = TRUE /\ speed' = IF power THEN speed ELSE "slow"

-----------------------------------------------------------------------------
\* The power is put on and AT tried.
PowerUp ==
    /\ at = "power_up"
    /\ Powered
    /\ \/ Retry(AtTries)
       \/ fitted = "N2" /\ speed' = uart /\ Goto("speed")
    /\ UNCHANGED <<build, fitted, object, uart, keepGoing>>

\* AT+NATSPEED: the module may change its rate though its OK is lost.
SetSpeed ==
    /\ at = "speed"
    /\ Goto("setup")
    /\ IF build.off
       THEN \/ speed' = "fast" /\ uart' \in {"slow", "fast"}
            \/ UNCHANGED <<speed, uart>>
       ELSE UNCHANGED <<speed, uart>>
    /\ UNCHANGED <<build, fitted, power, object, keepGoing>>

\* AT+CMEE=1 decides about power_up().
SetUp ==
    /\ at = "setup"
    /\ \E ok \in Exchange : Goto(IF ok THEN "identity" ELSE "failed")
    /\ UNCHANGED <<build, fitted, power, object, speed, uart, keepGoing>>

\* The rest of init(): identity and information once, the IMEI a few times.
\* device_init() cannot fail and there is no SIM to initialise.
Following == [identity |-> "imei", imei |-> "ready"]

ReadIdentity ==
    /\ at \in DOMAIN Following
    /\ \E ok \in Exchange :
         \/ /\ ok
            /\ Goto(Following[at])
            /\ object' = [object EXCEPT !.initialised = at = "imei"]
         \/ /\ ~ok
            /\ Retry(IF at = "imei" THEN ReadTries ELSE 1)
            /\ UNCHANGED object
    /\ UNCHANGED <<build, fitted, power, speed, uart, keepGoing>>

-----------------------------------------------------------------------------
\* nwk_registration(): nothing is done if the result code cannot be enabled;
\* otherwise the module is asked even when the driver thinks it knows.
Register ==
    /\ at = "register"
    /\ \/ Goto("unregistered") /\ UNCHANGED object
       \/ /\ Talking
          /\ \E heard \in Heard :
               /\ object' = [object EXCEPT !.registered = heard,
                                           !.timeout = IF heard = {} THEN "short" ELSE @]
               /\ Goto(IF heard = {} THEN "searching" ELSE "registered")
    /\ UNCHANGED <<build, fitted, power, speed, uart, keepGoing>>

Leave(place, heard) ==
    /\ Goto(place)
    /\ object' = [object EXCEPT !.registered = heard, !.timeout = "default"]

\* A turn of the loop: +CEREG? is asked before the status is looked at.
Search ==
    /\ at = "searching"
    /\ \/ ~keepGoing /\ Leave("unregistered", object.registered)
       \/ /\ keepGoing
          /\ \E alive \in Exchange, heard \in Heard :
               CASE heard # {} -> Leave("registered", heard)
                 [] heard = {} /\ ~alive -> Leave("unregistered", heard)
                 [] OTHER -> Goto("searching") /\ UNCHANGED object
    /\ UNCHANGED <<build, fitted, power, speed, uart, keepGoing>>

-----------------------------------------------------------------------------
\* disconnect(): nwk_deregistration(), which waits for power saving with a
\* short timeout of its own and puts it back.
Disconnect ==
    /\ at = "disconnect"
    /\ \E ok \in Exchange, heard \in Heard :
         object' = [object EXCEPT !.registered = IF ok THEN {} ELSE heard]
    /\ Goto("deinit")
    /\ UNCHANGED <<build, fitted, power, speed, uart, keepGoing>>

\* deinit(): power_down() is hard only.
Deinit ==
    /\ at = "deinit"
    /\ power' = FALSE
    /\ object' = [object EXCEPT !.registered = {}, !.initialised = FALSE]
    /\ Goto("deinitialised")
    /\ UNCHANGED <<build, fitted, speed, uart, keepGoing>>

Step == PowerUp \/ SetSpeed \/ SetUp \/ ReadIdentity \/ Register \/ Search
        \/ Disconnect \/ Deinit
=============================================================================
