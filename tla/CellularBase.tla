---------------------------- MODULE CellularBase ----------------------------
(***************************************************************************)
(* The driver's half of a SARA-R4: UbloxCellularBase.cpp, from power_up()  *)
(* to deinit().  An exchange with the module (a command sent and its       *)
(* answer awaited) may succeed when the module has power and is the one    *)
(* this driver speaks to; it may always fail.  The AT commands, what the   *)
(* module answers beyond OK, and the waits are left out; every retry, and  *)
(* every early return, is kept.                                            *)
(*                                                                         *)
(* "at" is the place in the driver; "ready" and "failed" are init()'s two  *)
(* returns, "registered" and "unregistered" nwk_registration()'s.          *)
(***************************************************************************)
EXTENDS Integers

CONSTANTS
    AtTries,    \* attempts at AT in power_up() (10)
    Passes,     \* limit of pre_init()'s count (4)
    SimTries,   \* attempts at AT+CPIN? (10)
    ReadTries   \* attempts at the IMSI and at the IMEI (3)

VARIABLES
    build,      \* the configuration of the build: "rat", whether CELLULAR_R4_RAT
                \* is one (not -1)
    fitted,     \* the module on the board: "R4" or "N2"
    power,      \* gEnableCdc
    object,     \* the driver object: which it is, _modem_initialised, the
                \* domains it takes for registered, its AT timeout
    at, tries, count,
    saved,      \* what the module's memory holds as wanted: MNO profile,
                \* RAT, band mask
    keepGoing   \* what the caller's keep_going_callback says

driverVars == <<build, fitted, power, object, at, tries, count, saved, keepGoing>>

\* set_nwk_reg_status_csd(), .._psd() and .._eps()
Domain == {"csd", "psd", "eps"}
Saved == [mno : BOOLEAN, rat : BOOLEAN, band : BOOLEAN]

\* The constructor and baseClassInit().
Constructed == [type |-> "R4", initialised |-> FALSE, registered |-> {}, timeout |-> "default"]

\* The outcomes an exchange can have.
Exchange == IF power /\ fitted = "R4" THEN BOOLEAN ELSE {FALSE}

\* is_registered_psd() || is_registered_csd() || is_registered_eps(),
\* whatever the URCs have made of the three since.
IsRegistered == object.registered # {}
Heard == IF TRUE \in Exchange THEN SUBSET Domain ELSE {object.registered}

Goto(place) == at' = place /\ tries' = 0

\* The next turn of a loop of at most "limit".
Retry(limit) ==
    IF tries + 1 < limit THEN at' = at /\ tries' = tries + 1 ELSE Goto("failed")

-----------------------------------------------------------------------------
(* init() *)

\* A turn of power_up()'s loop: the power line is wriggled on every fifth.
PowerUp ==
    /\ at = "power_up"
    /\ power' = (power \/ tries % 5 = 0)
    /\ \/ Retry(AtTries)
       \/ fitted = "R4" /\ power' /\ Goto("setup")
    /\ UNCHANGED <<build, fitted, object, count, saved, keepGoing>>

\* AT+IPR, whose failure is ignored, and the rest, whose failure is not.
SetUp ==
    /\ at = "setup"
    /\ \E ok \in Exchange : Goto(IF ok THEN "mno" ELSE "failed")
    /\ UNCHANGED <<build, fitted, power, object, count, saved, keepGoing>>

\* Mutant: one pass too many.
AnotherPassTooMany ==
    /\ count' = count + 1
    /\ Goto(IF count' <= Passes THEN "power_up" ELSE "failed")

\* Mutant: only a change that worked is counted.
AnotherPassIfSet ==
    /\ count' = IF saved' = saved THEN count ELSE count + 1
    /\ Goto(IF count' < Passes THEN "power_up" ELSE "failed")

\* set_modem_reboot(), and round pre_init()'s loop again.
AnotherPass ==
    /\ count' = count + 1
    /\ Goto(IF count' < Passes THEN "power_up" ELSE "failed")

\* A setting is written.  The module may have taken it though its OK is
\* lost; what a new MNO profile does to the other two is the module's affair.
Write(become) == saved' = saved \/ (TRUE \in Exchange /\ saved' \in become)

\* get_mno_profile() is -1, which nobody wants, when it cannot be read.
CheckMno ==
    /\ at = "mno"
    /\ \E read \in Exchange :
         IF read /\ saved.mno
         THEN Goto(IF build.rat THEN "rat" ELSE "sim") /\ UNCHANGED <<count, saved>>
         ELSE Write({s \in Saved : s.mno}) /\ AnotherPass
    /\ UNCHANGED <<build, fitted, power, object, keepGoing>>

\* get_rat() looks for numbers in its buffer whether anything was read into
\* it or not: left unread, it holds anything.
CheckRat ==
    /\ at = "rat"
    /\ \E read \in Exchange, leftover \in BOOLEAN :
         IF (read /\ saved.rat) \/ (~read /\ leftover)
         THEN Goto("band") /\ UNCHANGED <<count, saved>>
         ELSE Write({[saved EXCEPT !.rat = TRUE]}) /\ AnotherPass
    /\ UNCHANGED <<build, fitted, power, object, keepGoing>>

\* get_band_mask() gives a mask only for a RAT it has read.
CheckBand ==
    /\ at = "band"
    /\ \E read \in Exchange :
         IF read /\ saved.band
         THEN Goto("sim") /\ UNCHANGED <<count, saved>>
         ELSE Write({[saved EXCEPT !.band = TRUE]}) /\ AnotherPass
    /\ UNCHANGED <<build, fitted, power, object, keepGoing>>

\* initialise_sim_card(): silence is worth another try, an answer that is
\* neither READY nor a PIN that fits is not.
InitialiseSim ==
    /\ at = "sim"
    /\ \/ Retry(SimTries)
       \/ TRUE \in Exchange /\ \E place \in {"identity", "failed"} : Goto(place)
    /\ UNCHANGED <<build, fitted, power, object, count, saved, keepGoing>>

\* The rest of init(): identity (nothing to initialise on a SARA-R4), ICCID
\* and MEID once each, IMSI and IMEI a few times.
Following == [identity |-> "iccid", iccid |-> "imsi", imsi |-> "imei",
              imei |-> "meid", meid |-> "ready"]

ReadIdentity ==
    /\ at \in DOMAIN Following
    /\ \E ok \in Exchange :
         \/ /\ ok
            /\ Goto(Following[at])
            /\ object' = [object EXCEPT !.initialised = at = "meid"]
         \/ /\ ~ok
            /\ Retry(IF at \in {"imsi", "imei"} THEN ReadTries ELSE 1)
            /\ UNCHANGED object
    /\ UNCHANGED <<build, fitted, power, count, saved, keepGoing>>

-----------------------------------------------------------------------------
(* nwk_registration() *)

\* Entered from connect(): a driver that believes itself registered does not
\* ask.  Otherwise the result codes are enabled, automatic selection set and
\* the status queried; none of it need work.
Register ==
    /\ at = "register"
    /\ IF IsRegistered
       THEN Goto("registered") /\ UNCHANGED object
       ELSE /\ Goto("searching")
            /\ \E heard \in Heard :
                 object' = [object EXCEPT !.registered = heard, !.timeout = "short"]
    /\ UNCHANGED <<build, fitted, power, count, saved, keepGoing>>

\* Mutant: a return in the loop forgets the timeout.
LeaveAtOnce(place, heard) ==
    /\ Goto(place)
    /\ object' = [object EXCEPT !.registered = heard]

\* The loop is left, the timeout put back; the RAT is asked for.
Leave(place, heard) ==
    /\ Goto(place)
    /\ object' = [object EXCEPT !.registered = heard, !.timeout = "default"]

\* A turn of the loop: the answer to +CEREG? comes after the status has been
\* looked at, and shows that the module lives.
Search ==
    /\ at = "searching"
    /\ \/ ~keepGoing /\ Leave("unregistered", object.registered)
       \/ /\ keepGoing
          /\ \E alive \in Exchange, heard \in Heard :
               CASE IsRegistered -> Leave("registered", heard)
                 [] ~IsRegistered /\ ~alive -> Leave("unregistered", heard)
                 [] OTHER -> /\ Goto("searching")
                             /\ object' = [object EXCEPT !.registered = heard]
    /\ UNCHANGED <<build, fitted, power, count, saved, keepGoing>>

-----------------------------------------------------------------------------
\* disconnect(): the context is put down, then nwk_deregistration(), if the
\* module has an address.
Disconnect ==
    /\ at = "disconnect"
    /\ \E ok \in Exchange, heard \in Heard :
         object' = [object EXCEPT !.registered = IF ok THEN {} ELSE heard]
    /\ Goto("deinit")
    /\ UNCHANGED <<build, fitted, power, count, saved, keepGoing>>

\* deinit(): power_down(), softly if it was initialised and hard at any rate.
Deinit ==
    /\ at = "deinit"
    /\ power' = FALSE
    /\ object' = [object EXCEPT !.registered = {}, !.initialised = FALSE]
    /\ Goto("deinitialised")
    /\ UNCHANGED <<build, fitted, count, saved, keepGoing>>

Step == PowerUp \/ SetUp \/ CheckMno \/ CheckRat \/ CheckBand \/ InitialiseSim
        \/ ReadIdentity \/ Register \/ Search \/ Disconnect \/ Deinit
=============================================================================
