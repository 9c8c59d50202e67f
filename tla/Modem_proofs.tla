---------------------------- MODULE Modem_proofs ----------------------------
(***************************************************************************)
(* What the program believes of the modem is so, the modem is off when it  *)
(* should be and the AT timeout is put back, whatever the drivers' limits, *)
(* the build, the module fitted and what its memory holds.                 *)
(***************************************************************************)
EXTENDS Modem, TLAPS

\* The places in a driver that modemInit(), modemConnect() and modemDeinit()
\* come by.
Settling == {"mno", "rat", "band"}
Identity == {"identity", "iccid", "imsi", "imei", "meid"}
InInit == {"power_up", "setup", "sim", "speed", "ready", "failed"} \cup Settling \cup Identity
InConnect == {"register", "searching", "registered", "unregistered"}
InDeinit == {"disconnect", "deinit", "deinitialised"}

\* Who is at what fits the place in the driver.
PlacesFit ==
    /\ pc \in {"idle", "posted", "initialised", "down"} => at = "none"
    /\ pc \in {"post", "reporting"} => at \in InInit \cup {"none"}
    /\ pc = "connecting" => at \in InConnect
    /\ pc = "deinit" => at \in InDeinit
    /\ at \in {"power_up", "speed", "setup"} \cup Settling => count < Passes

\* There is a driver wherever one is used, and it is the one handed out.
DriverThere ==
    /\ at # "none" => object # NULL
    /\ pInterface # NULL => object # NULL /\ object.type = pInterface
    /\ pc \in {"initialised", "connecting", "deinit"} => pInterface # NULL
    /\ pc \in {"post", "reporting"} /\ pInterface # NULL => at \in {"none", "ready"}

\* Only the driver of the module fitted comes beyond power_up(), and what has
\* been noted of the module is so.
FittedNoted ==
    /\ at \notin {"none", "power_up", "failed"} => object.type = fitted
    /\ pInterface # NULL => pInterface = fitted
    /\ useN2 => initialisedOnce /\ (build.force \/ fitted = "N2")
    /\ ModemFiguredOut

\* A module in use has power, and one without a driver has not.
PowerFits ==
    /\ pInterface = NULL /\ at = "none" => ~power
    /\ at \notin {"none", "power_up", "failed", "deinitialised"} => power
    /\ pInterface # NULL /\ at # "deinitialised" => power

\* No R4 driver leaves a module that runs fast behind.
SpeedKnown ==
    /\ object # NULL /\ object.type = "R4" /\ power => speed = "slow"
    /\ RatesMeet

\* Past the check of the MNO profile, the profile is the one wanted.
ProfileKept ==
    /\ at \in {"rat", "band", "sim"} \cup Identity /\ object.type = "R4" => saved.mno
    /\ ProfileAsWanted

\* The inductive invariant.
ModemInv ==
    /\ TypeOK
    /\ PlacesFit /\ DriverThere /\ FittedNoted /\ PowerFits /\ SpeedKnown /\ ProfileKept
    /\ TimeoutPutBack

LEMMA InitHolds == Init => ModemInv
<1> SUFFICES ASSUME Init PROVE ModemInv
  OBVIOUS
<1>1. TypeOK
  <2>1. build \in Build /\ fitted \in {"R4", "N2"} /\ saved \in R4!Saved
     BY DEF Init
  <2>2. tries \in 0 .. AtTries + SimTries + ReadTries /\ count \in 0 .. Passes
     BY DriverLimits DEF Init
  <2>3. failures \in 0 .. MaxReportFailures
     BY FailureLimit DEF Init
  <2> QED
     BY <2>1, <2>2, <2>3 DEF Init, TypeOK
<1>2. PlacesFit /\ DriverThere /\ PowerFits
  BY DEF Init, PlacesFit, DriverThere, PowerFits, InInit, Settling
<1>3. FittedNoted /\ SpeedKnown /\ ProfileKept /\ TimeoutPutBack
  BY DEF Init, FittedNoted, ModemFiguredOut, SpeedKnown, RatesMeet, ProfileKept, ProfileAsWanted,
         TimeoutPutBack, Identity
<1> QED
  BY <1>1, <1>2, <1>3 DEF ModemInv

\* Every step of act_modem.cpp and of reporting() keeps the invariant: first
\* the types, ...
LEMMA ProgramTypes ==
    ASSUME ModemInv,
           InitModem \/ TryOther \/ InitDone \/ InitFailed \/ Connect \/ Connected
           \/ PostDone \/ WindDown \/ Deinitialised \/ Report \/ Terminate
    PROVE  TypeOK'
<1> USE DriverLimits, NullAssumption, FailureLimit
    DEF ModemInv, TypeOK, board, known, report, driver
<1>0. ASSUME NEW type \in {"R4", "N2"}, Construct(type)
      PROVE  object' \in Object /\ at' = "power_up" /\ tries' = 0 /\ count' = 0 /\ uart' = "slow"
  BY <1>0 DEF Construct, R4!Constructed, N2!Constructed, Object, R4!Domain
<1>1. CASE InitModem
  <2>1. CASE pInterface # NULL
    BY <1>1, <2>1 DEF InitModem
  <2>2. CASE pInterface = NULL
    <3>1. PICK type \in {"R4", "N2"} : Construct(type)
      BY <1>1, <2>2 DEF InitModem
    <3>2. initialisedOnce' \in BOOLEAN /\ useN2' \in BOOLEAN
      BY <1>1, <2>2 DEF InitModem
    <3> QED
      BY <1>1, <2>2, <3>1, <3>2, <1>0 DEF InitModem
  <2> QED
    BY <2>1, <2>2
<1>2. CASE TryOther
  BY <1>2, <1>0 DEF TryOther
<1>3. CASE InitDone
  BY <1>3 DEF InitDone, DriverThere, Object
<1>4. CASE InitFailed
  BY <1>4 DEF InitFailed
<1>5. CASE Connect
  BY <1>5 DEF Connect
<1>6. CASE Connected
  BY <1>6 DEF Connected
<1>7. CASE PostDone
  BY <1>7 DEF PostDone, Shut
<1>8. CASE WindDown
  BY <1>8 DEF WindDown, Shut, FailuresNow, ShutEachTime
<1>9. CASE Deinitialised
  BY <1>9 DEF Deinitialised
<1>10. CASE Report
  BY <1>10 DEF Report, R4!Saved
<1>11. CASE Terminate
  <2>1. keepGoing' = FALSE /\ UNCHANGED <<power, object, at, tries, count, speed, uart>>
    BY <1>11 DEF Terminate
  <2>2. UNCHANGED <<build, fitted, saved, pInterface, initialisedOnce, useN2, pc>>
    BY <1>11 DEF Terminate
  <2>3. UNCHANGED <<outcome, failures, modemOff>>
    BY <1>11 DEF Terminate
  <2>4. keepGoing' \in BOOLEAN /\ saved' \in R4!Saved /\ build' \in Build
    BY <2>1, <2>2
  <2>5. object' \in Object \cup {NULL} /\ pInterface' \in {"R4", "N2", NULL}
    BY <2>1, <2>2
  <2> QED
    BY <2>1, <2>2, <2>3, <2>4, <2>5
<1> QED
  BY <1>1, <1>2, <1>3, <1>4, <1>5, <1>6, <1>7, <1>8, <1>9, <1>10, <1>11

\* ... then the rest of it.
LEMMA ProgramStep ==
    ASSUME ModemInv,
           InitModem \/ TryOther \/ InitDone \/ InitFailed \/ Connect \/ Connected
           \/ PostDone \/ WindDown \/ Deinitialised \/ Report \/ Terminate
    PROVE  ModemInv'
<1> USE NullAssumption
    DEF PlacesFit, DriverThere, FittedNoted, PowerFits, SpeedKnown,
        ProfileKept, TimeoutPutBack, ModemFiguredOut, RatesMeet, ProfileAsWanted,
        InInit, InConnect, InDeinit, Settling, Identity, board, known, report, driver
<1>a. TypeOK /\ TypeOK' /\ 0 < Passes
  BY ProgramTypes, DriverLimits DEF ModemInv
<1>b. /\ build.force \in BOOLEAN /\ useN2 \in BOOLEAN /\ initialisedOnce \in BOOLEAN
      /\ fitted \in {"R4", "N2"} /\ (object # NULL => object.type \in {"R4", "N2"})
      /\ pc \in {"idle", "post", "posted", "reporting", "initialised", "connecting", "down",
                 "deinit"}
  BY <1>a DEF TypeOK, Build, Object
<1>c. SUFFICES (/\ PlacesFit /\ DriverThere /\ FittedNoted /\ PowerFits /\ SpeedKnown
                /\ ProfileKept /\ TimeoutPutBack)'
  BY <1>a DEF ModemInv
<1>0. ASSUME NEW type \in {"R4", "N2"}, Construct(type)
      PROVE  /\ object' # NULL /\ object'.type = type
             /\ object'.initialised = FALSE /\ object'.timeout = "default"
             /\ at' = "power_up" /\ tries' = 0 /\ count' = 0 /\ uart' = "slow"
  <2>1. object' = [type |-> type, initialised |-> FALSE, registered |-> {}, timeout |-> "default"]
    BY <1>0 DEF Construct, R4!Constructed, N2!Constructed
  <2>2. object' \in Object
    BY <2>1 DEF Object, R4!Domain
  <2> QED
    BY <1>0, <2>1, <2>2 DEF Construct
<1>1. CASE InitModem
  <2>1. CASE pInterface # NULL
    BY <1>1, <2>1, <1>b DEF InitModem, ModemInv
  <2>2. CASE pInterface = NULL
    <3>1. PICK type \in {"R4", "N2"} : Construct(type)
      BY <1>1, <2>2 DEF InitModem
    <3>a. /\ initialisedOnce' = (initialisedOnce \/ build.force)
          /\ useN2' = (useN2 \/ build.force)
          /\ pc \in {"post", "reporting"} /\ at = "none"
          /\ UNCHANGED <<build, fitted, power, speed, saved, pInterface, pc>>
      BY <1>1, <2>2 DEF InitModem
    <3>2. (PlacesFit /\ DriverThere)'
      BY <2>2, <3>1, <3>a, <1>0, <1>a, <1>b DEF ModemInv
    <3>3. (FittedNoted /\ PowerFits)'
      BY <2>2, <3>1, <3>a, <1>0, <1>b DEF ModemInv
    <3>4. (SpeedKnown /\ ProfileKept /\ TimeoutPutBack)'
      BY <2>2, <3>1, <3>a, <1>0, <1>b DEF ModemInv
    <3> QED
      BY <3>2, <3>3, <3>4
  <2> QED
    BY <2>1, <2>2
<1>2. CASE TryOther
  <2>1. (PlacesFit /\ DriverThere)'
    BY <1>2, <1>0, <1>a, <1>b DEF TryOther, ModemInv
  <2>2. (FittedNoted /\ PowerFits)'
    BY <1>2, <1>0, <1>b DEF TryOther, ModemInv
  <2>3. (SpeedKnown /\ ProfileKept /\ TimeoutPutBack)'
    BY <1>2, <1>0, <1>b DEF TryOther, ModemInv
  <2> QED
    BY <2>1, <2>2, <2>3
<1>3. CASE InitDone
  BY <1>3, <1>b DEF InitDone, ModemInv, Object
<1>4. CASE InitFailed
  <2>1. (PlacesFit /\ DriverThere)'
    BY <1>4, <1>b DEF InitFailed, ModemInv
  <2>2. (FittedNoted /\ PowerFits)'
    BY <1>4, <1>b DEF InitFailed, ModemInv
  <2>3. (SpeedKnown /\ ProfileKept /\ TimeoutPutBack)'
    BY <1>4, <1>b DEF InitFailed, ModemInv
  <2> QED
    BY <2>1, <2>2, <2>3
<1>5. CASE Connect
  BY <1>5, <1>b DEF Connect, ModemInv
<1>6. CASE Connected
  BY <1>6, <1>b DEF Connected, ModemInv
<1>7. CASE PostDone
  BY <1>7, <1>b DEF PostDone, Shut, ModemInv
<1>8. CASE WindDown
  BY <1>8, <1>b DEF WindDown, Shut, FailuresNow, ShutEachTime, ModemInv
<1>9. CASE Deinitialised
  BY <1>9, <1>b DEF Deinitialised, ModemInv
<1>10. CASE Report
  BY <1>10, <1>b DEF Report, ModemInv
<1>11. CASE Terminate
  BY <1>11, <1>b DEF Terminate, ModemInv
<1> QED
  BY <1>1, <1>2, <1>3, <1>4, <1>5, <1>6, <1>7, <1>8, <1>9, <1>10, <1>11

\* What a driver may make of its variables.
DriverTypes ==
    /\ object \in Object /\ saved \in R4!Saved /\ power \in BOOLEAN
    /\ tries \in 0 .. AtTries + SimTries + ReadTries /\ count \in 0 .. Passes
    /\ at \in InInit \cup InConnect \cup InDeinit
    /\ speed \in {"slow", "fast"} /\ uart \in {"slow", "fast"}

LEMMA DriverTyped ==
    ASSUME TypeOK, DriverTypes',
           UNCHANGED <<build, fitted, keepGoing, pInterface, known, pc, report>>
    PROVE  TypeOK'
<1>1. at' \in {"none", "power_up", "setup", "mno", "rat", "band", "sim", "speed", "ready",
               "failed", "register", "searching", "registered", "unregistered",
               "disconnect", "deinit", "deinitialised"} \cup DOMAIN R4!Following
  BY DEF DriverTypes, InInit, InConnect, InDeinit, Settling, Identity, R4!Following
<1>2. build' \in Build /\ fitted' \in {"R4", "N2"} /\ saved' \in R4!Saved
  BY DEF DriverTypes, TypeOK
<1> QED
  BY <1>1, <1>2 DEF TypeOK, DriverTypes, known, report

\* A step of either driver leaves its variables of their types.
LEMMA R4Types ==
    ASSUME ModemInv, object # NULL, R4!Step, at # "none",
           speed' = IF power THEN speed ELSE "slow", UNCHANGED uart
    PROVE  DriverTypes' /\ UNCHANGED <<build, fitted, keepGoing>>
<1>0. AtTries \in Nat \ {0} /\ Passes \in Nat \ {0} /\ SimTries \in Nat \ {0} /\ ReadTries \in Nat \ {0}
  BY DriverLimits
<1>1. /\ object \in Object /\ saved \in R4!Saved /\ power \in BOOLEAN
      /\ tries \in 0 .. AtTries + SimTries + ReadTries /\ count \in 0 .. Passes
      /\ at \in {"power_up", "speed", "setup"} \cup Settling => count < Passes
      /\ speed' \in {"slow", "fast"} /\ uart' \in {"slow", "fast"}
  BY DEF ModemInv, TypeOK, PlacesFit
<1>2. tries' \in 0 .. AtTries + SimTries + ReadTries
  <2>1. ASSUME NEW limit \in {AtTries, SimTries, ReadTries, 1}, R4!Retry(limit)
        PROVE  tries' \in 0 .. AtTries + SimTries + ReadTries
    BY <2>1, <1>0, <1>1 DEF R4!Retry, R4!Goto
  <2>2. tries' = 0 \/ tries' = tries \/ \E limit \in {AtTries, SimTries, ReadTries, 1} : R4!Retry(limit)
    BY DEF R4!Step, R4!PowerUp, R4!SetUp, R4!CheckMno, R4!CheckRat, R4!CheckBand,
       R4!InitialiseSim, R4!ReadIdentity, R4!Register, R4!Search, R4!Disconnect, R4!Deinit,
       R4!Goto, R4!AnotherPass, R4!Leave
  <2> QED
    BY <2>1, <2>2, <1>0, <1>1
<1>3. count' \in 0 .. Passes
  <2>1. count' = count \/ (at \in Settling /\ count' = count + 1)
    BY DEF R4!Step, R4!PowerUp, R4!SetUp, R4!CheckMno, R4!CheckRat, R4!CheckBand,
       R4!InitialiseSim, R4!ReadIdentity, R4!Register, R4!Search, R4!Disconnect, R4!Deinit,
       R4!AnotherPass, Settling
  <2> QED
    BY <2>1, <1>0, <1>1
<1>4. saved' \in R4!Saved
  BY <1>1 DEF R4!Step, R4!PowerUp, R4!SetUp, R4!CheckMno, R4!CheckRat, R4!CheckBand,
     R4!InitialiseSim, R4!ReadIdentity, R4!Register, R4!Search, R4!Disconnect, R4!Deinit,
     R4!Write, R4!Saved
<1>5. power' \in BOOLEAN
  BY <1>1 DEF R4!Step, R4!PowerUp, R4!SetUp, R4!CheckMno, R4!CheckRat, R4!CheckBand,
     R4!InitialiseSim, R4!ReadIdentity, R4!Register, R4!Search, R4!Disconnect, R4!Deinit
<1>6. object' \in Object
  BY <1>1 DEF R4!Step, R4!PowerUp, R4!SetUp, R4!CheckMno, R4!CheckRat, R4!CheckBand,
     R4!InitialiseSim, R4!ReadIdentity, R4!Register, R4!Search, R4!Disconnect, R4!Deinit,
     R4!Leave, R4!Heard, R4!Exchange, Object
<1>7. at' \in InInit \cup InConnect \cup InDeinit
  <2>1. \A limit : R4!Retry(limit) => at' \in {at, "failed"}
    BY DEF R4!Retry, R4!Goto
  <2>2. at \in DOMAIN R4!Following => R4!Following[at] \in Identity \cup {"ready"}
    BY DEF R4!Following, Identity
  <2>3. at \in InInit \cup InConnect \cup InDeinit
    BY DEF R4!Step, R4!PowerUp, R4!SetUp, R4!CheckMno, R4!CheckRat, R4!CheckBand,
       R4!InitialiseSim, R4!ReadIdentity, R4!Register, R4!Search, R4!Disconnect, R4!Deinit,
       InInit, InConnect, InDeinit, Settling, Identity, R4!Following
  <2>4. at' \in {at, "failed", "setup", "mno", "power_up"} \cup Settling \cup Identity
                \cup {"sim", "ready"} \cup InConnect \cup InDeinit
    BY <2>1, <2>2 DEF R4!Step, R4!PowerUp, R4!SetUp, R4!CheckMno, R4!CheckRat, R4!CheckBand,
       R4!InitialiseSim, R4!ReadIdentity, R4!Register, R4!Search, R4!Disconnect, R4!Deinit,
       R4!Goto, R4!AnotherPass, R4!Leave, InConnect, InDeinit, Settling, Identity
  <2> QED
    BY <2>3, <2>4 DEF InInit, Settling
<1>8. UNCHANGED <<build, fitted, keepGoing>>
  BY DEF R4!Step, R4!PowerUp, R4!SetUp, R4!CheckMno, R4!CheckRat, R4!CheckBand,
     R4!InitialiseSim, R4!ReadIdentity, R4!Register, R4!Search, R4!Disconnect, R4!Deinit
<1> QED
  BY <1>1, <1>2, <1>3, <1>4, <1>5, <1>6, <1>7, <1>8 DEF DriverTypes

LEMMA N2Types ==
    ASSUME ModemInv, object # NULL, N2!Step, UNCHANGED <<count, saved>>
    PROVE  DriverTypes' /\ UNCHANGED <<build, fitted, keepGoing>>
<1>0. AtTries \in Nat \ {0} /\ ReadTries \in Nat \ {0} /\ SimTries \in Nat
  BY DriverLimits
<1>1. /\ object \in Object /\ saved \in R4!Saved /\ power \in BOOLEAN
      /\ tries \in 0 .. AtTries + SimTries + ReadTries /\ count \in 0 .. Passes
      /\ speed \in {"slow", "fast"} /\ uart \in {"slow", "fast"}
  BY DEF ModemInv, TypeOK
<1>2. tries' \in 0 .. AtTries + SimTries + ReadTries
  <2>1. ASSUME NEW limit \in {AtTries, ReadTries, 1}, N2!Retry(limit)
        PROVE  tries' \in 0 .. AtTries + SimTries + ReadTries
    BY <2>1, <1>0, <1>1 DEF N2!Retry, N2!Goto
  <2>2. tries' = 0 \/ \E limit \in {AtTries, ReadTries, 1} : N2!Retry(limit)
    BY DEF N2!Step, N2!PowerUp, N2!SetSpeed, N2!SetUp, N2!ReadIdentity, N2!Register, N2!Search,
       N2!Disconnect, N2!Deinit, N2!Goto, N2!Leave
  <2> QED
    BY <2>1, <2>2, <1>0
<1>3. power' \in BOOLEAN /\ speed' \in {"slow", "fast"} /\ uart' \in {"slow", "fast"}
  BY <1>1 DEF N2!Step, N2!PowerUp, N2!SetSpeed, N2!SetUp, N2!ReadIdentity, N2!Register,
     N2!Search, N2!Disconnect, N2!Deinit, N2!Powered
<1>4. object' \in Object
  <2>0. \A heard \in N2!Heard, t \in {"default", "short"} :
          [object EXCEPT !.registered = heard, !.timeout = t] \in Object
    BY <1>1 DEF N2!Heard, Object, R4!Domain
  <2>1. CASE N2!Register
    <3>1. object' = object \/ \E heard \in N2!Heard, t \in {"short", object.timeout} :
            object' = [object EXCEPT !.registered = heard, !.timeout = t]
      BY <2>1 DEF N2!Register
    <3> QED
      BY <3>1, <2>0, <1>1 DEF Object
  <2>2. CASE N2!Search
    <3>1. object' = object \/ \E heard \in N2!Heard \cup {object.registered} :
            object' = [object EXCEPT !.registered = heard, !.timeout = "default"]
      BY <2>2 DEF N2!Search, N2!Leave
    <3> QED
      BY <3>1, <2>0, <1>1 DEF Object
  <2>3. CASE N2!Disconnect
    BY <1>1, <2>3 DEF N2!Disconnect, N2!Heard, Object, R4!Domain
  <2>4. CASE N2!Deinit \/ N2!ReadIdentity
    BY <1>1, <2>4 DEF N2!Deinit, N2!ReadIdentity, Object
  <2> QED
    BY <1>1, <2>1, <2>2, <2>3, <2>4 DEF N2!Step, N2!PowerUp, N2!SetSpeed, N2!SetUp
<1>5. at' \in InInit \cup InConnect \cup InDeinit
  <2>1. \A limit : N2!Retry(limit) => at' \in {at, "failed"}
    BY DEF N2!Retry, N2!Goto
  <2>2. at \in DOMAIN N2!Following => at \in Identity /\ N2!Following[at] \in Identity \cup {"ready"}
    BY DEF N2!Following, Identity
  <2>3. at' \in {"power_up", "failed", "setup", "speed", "ready"} \cup Identity
                \cup InConnect \cup InDeinit
    BY <2>1, <2>2 DEF N2!Step, N2!PowerUp, N2!SetSpeed, N2!SetUp, N2!ReadIdentity, N2!Register,
       N2!Search, N2!Disconnect, N2!Deinit, N2!Goto, N2!Leave, InConnect, InDeinit, Identity
  <2> QED
    BY <2>3 DEF InInit
<1>6. UNCHANGED <<build, fitted, keepGoing>>
  BY DEF N2!Step, N2!PowerUp, N2!SetSpeed, N2!SetUp, N2!ReadIdentity, N2!Register, N2!Search,
     N2!Disconnect, N2!Deinit
<1> QED
  BY <1>1, <1>2, <1>3, <1>4, <1>5, <1>6 DEF DriverTypes

\* A step of the SARA-R4's driver keeps the rest of the invariant.
LEMMA R4Step ==
    ASSUME ModemInv, TypeOK', object' \in Object, object # NULL, object.type = "R4", R4!Step,
           speed' = IF power THEN speed ELSE "slow",
           UNCHANGED <<uart, pInterface, known, pc, report>>
    PROVE  ModemInv'
<1> USE NullAssumption
    DEF PlacesFit, DriverThere, FittedNoted, PowerFits, SpeedKnown, ProfileKept, TimeoutPutBack,
        ModemFiguredOut, RatesMeet, ProfileAsWanted, InInit, InConnect, InDeinit, Settling,
        Identity, known, report
<1>a. /\ object \in Object /\ object' \in Object /\ object' # NULL
      /\ power \in BOOLEAN /\ count \in Nat /\ tries \in Nat /\ saved \in R4!Saved
      /\ pc \in {"idle", "post", "posted", "reporting", "initialised", "connecting", "down",
                 "deinit"}
  BY DEF ModemInv, TypeOK
<1>c. object'.type = "R4"
  BY <1>a DEF Object, R4!Step, R4!PowerUp, R4!SetUp, R4!CheckMno, R4!CheckRat, R4!CheckBand,
     R4!InitialiseSim, R4!ReadIdentity, R4!Register, R4!Search, R4!Disconnect, R4!Deinit,
     R4!Leave
<1>b. SUFFICES (/\ PlacesFit /\ DriverThere /\ FittedNoted /\ PowerFits /\ SpeedKnown
                /\ ProfileKept /\ TimeoutPutBack)'
  BY DEF ModemInv
<1>1. CASE R4!PowerUp
  BY <1>a, <1>c, <1>1 DEF ModemInv, R4!PowerUp, R4!Retry, R4!Goto
<1>2. CASE R4!SetUp
  BY <1>a, <1>c, <1>2 DEF ModemInv, R4!SetUp, R4!Goto
<1>3. CASE R4!CheckMno \/ R4!CheckRat \/ R4!CheckBand
  <2>1. /\ at \in Settling /\ UNCHANGED <<build, fitted, power, object, keepGoing>>
        /\ saved.mno => saved'.mno
        /\ at # "mno" => saved.mno
    <3>1. CASE R4!CheckMno
      BY <3>1 DEF R4!CheckMno, R4!Write, R4!Saved
    <3>2. CASE R4!CheckRat
      BY <3>2, <1>a DEF ModemInv, R4!CheckRat, R4!Write, R4!Saved
    <3>3. CASE R4!CheckBand
      BY <3>3, <1>a DEF ModemInv, R4!CheckBand, R4!Write, R4!Saved
    <3> QED
      BY <1>3, <3>1, <3>2, <3>3
  <2>2. \/ at' \in {"rat", "band", "sim"} /\ saved'.mno /\ count' = count
        \/ at' = "power_up" /\ count' < Passes /\ power
        \/ at' = "failed"
    BY <1>3 DEF ModemInv, R4!CheckMno, R4!CheckRat, R4!CheckBand, R4!Goto, R4!AnotherPass
  <2> QED
    BY <1>a, <1>c, <2>1, <2>2 DEF ModemInv
<1>6. CASE R4!InitialiseSim
  BY <1>a, <1>c, <1>6 DEF ModemInv, R4!InitialiseSim, R4!Retry, R4!Goto
<1>7. CASE R4!ReadIdentity
  BY <1>a, <1>c, <1>7 DEF ModemInv, R4!ReadIdentity, R4!Retry, R4!Goto, R4!Following, Object
<1>8. CASE R4!Register
  BY <1>a, <1>c, <1>8 DEF ModemInv, R4!Register, R4!Goto, Object
<1>9. CASE R4!Search
  BY <1>a, <1>c, <1>9 DEF ModemInv, R4!Search, R4!Leave, R4!Goto, Object
<1>10. CASE R4!Disconnect
  BY <1>a, <1>c, <1>10 DEF ModemInv, R4!Disconnect, R4!Goto, Object
<1>11. CASE R4!Deinit
  BY <1>a, <1>c, <1>11 DEF ModemInv, R4!Deinit, R4!Goto, Object
<1> QED
  BY <1>1, <1>2, <1>3, <1>6, <1>7, <1>8, <1>9, <1>10, <1>11 DEF R4!Step

\* The same of the SARA-N2's.
LEMMA N2Step ==
    ASSUME ModemInv, TypeOK', object' \in Object, object # NULL, object.type = "N2", N2!Step,
           UNCHANGED <<count, saved, pInterface, known, pc, report>>
    PROVE  ModemInv'
<1> USE NullAssumption
    DEF PlacesFit, DriverThere, FittedNoted, PowerFits, SpeedKnown, ProfileKept, TimeoutPutBack,
        ModemFiguredOut, RatesMeet, ProfileAsWanted, InInit, InConnect, InDeinit, Settling,
        Identity, known, report
<1>a. /\ object \in Object /\ object' \in Object /\ object' # NULL
      /\ power \in BOOLEAN /\ count \in Nat /\ tries \in Nat
      /\ pc \in {"idle", "post", "posted", "reporting", "initialised", "connecting", "down",
                 "deinit"}
  BY DEF ModemInv, TypeOK
<1>b. SUFFICES (/\ PlacesFit /\ DriverThere /\ FittedNoted /\ PowerFits /\ SpeedKnown
                /\ ProfileKept /\ TimeoutPutBack)'
  BY DEF ModemInv
<1>c. object'.type = "N2"
  BY <1>a DEF Object, N2!Step, N2!PowerUp, N2!SetSpeed, N2!SetUp, N2!ReadIdentity, N2!Register,
     N2!Search, N2!Disconnect, N2!Deinit, N2!Leave
<1>1. CASE N2!PowerUp
  BY <1>a, <1>c, <1>1 DEF ModemInv, N2!PowerUp, N2!Powered, N2!Retry, N2!Goto
<1>2. CASE N2!SetSpeed
  BY <1>a, <1>c, <1>2 DEF ModemInv, N2!SetSpeed, N2!Goto
<1>3. CASE N2!SetUp
  BY <1>a, <1>c, <1>3 DEF ModemInv, N2!SetUp, N2!Goto
<1>4. CASE N2!ReadIdentity
  BY <1>a, <1>c, <1>4 DEF ModemInv, N2!ReadIdentity, N2!Retry, N2!Goto, N2!Following, Object
<1>5. CASE N2!Register
  BY <1>a, <1>c, <1>5 DEF ModemInv, N2!Register, N2!Goto, Object
<1>6. CASE N2!Search
  BY <1>a, <1>c, <1>6 DEF ModemInv, N2!Search, N2!Leave, N2!Goto, Object
<1>7. CASE N2!Disconnect
  BY <1>a, <1>c, <1>7 DEF ModemInv, N2!Disconnect, N2!Goto, Object
<1>8. CASE N2!Deinit
  BY <1>a, <1>c, <1>8 DEF ModemInv, N2!Deinit, N2!Goto, Object
<1> QED
  BY <1>1, <1>2, <1>3, <1>4, <1>5, <1>6, <1>7, <1>8 DEF N2!Step

LEMMA DriverKeeps == ModemInv /\ DriverStep => ModemInv'
<1> SUFFICES ASSUME ModemInv, DriverStep PROVE ModemInv'
  OBVIOUS
<1>0. TypeOK /\ UNCHANGED <<pInterface, known, pc, report>>
  BY DEF ModemInv, DriverStep
<1>1. CASE /\ object # NULL /\ object.type = "R4" /\ R4!Step
           /\ speed' = IF power THEN speed ELSE "slow"
           /\ UNCHANGED uart
  <2>1. at # "none"
    BY <1>1 DEF R4!Step, R4!PowerUp, R4!SetUp, R4!CheckMno, R4!CheckRat, R4!CheckBand,
       R4!InitialiseSim, R4!ReadIdentity, R4!Register, R4!Search, R4!Disconnect, R4!Deinit,
       R4!Following
  <2>2. DriverTypes' /\ UNCHANGED <<build, fitted, keepGoing>>
    BY <1>1, <2>1, R4Types
  <2>3. TypeOK' /\ object' \in Object
    BY <1>0, <2>2, DriverTyped DEF DriverTypes
  <2> QED
    BY <1>0, <1>1, <2>3, R4Step
<1>2. CASE /\ object # NULL /\ object.type = "N2" /\ N2!Step
           /\ UNCHANGED <<count, saved>>
  <2>1. DriverTypes' /\ UNCHANGED <<build, fitted, keepGoing>>
    BY <1>2, N2Types
  <2>2. TypeOK' /\ object' \in Object
    BY <1>0, <2>1, DriverTyped DEF DriverTypes
  <2> QED
    BY <1>0, <1>2, <2>2, N2Step
<1> QED
  BY <1>1, <1>2 DEF DriverStep

\* The invariant is inductive.
THEOREM ModemStep == ModemInv /\ [Next]_vars => ModemInv'
<1> SUFFICES ASSUME ModemInv, [Next]_vars PROVE ModemInv'
  OBVIOUS
<1>1. CASE UNCHANGED vars
  BY <1>1 DEF vars, board, driver, known, report, ModemInv, TypeOK, PlacesFit, DriverThere,
     FittedNoted, PowerFits, SpeedKnown, ProfileKept, TimeoutPutBack, ModemFiguredOut, RatesMeet,
     ProfileAsWanted, R4!Saved
<1>2. CASE Next
  BY <1>2, ProgramStep, DriverKeeps DEF Next, Proceed
<1> QED
  BY <1>1, <1>2

LEMMA ModemInvariant == Spec => []ModemInv
BY InitHolds, ModemStep, PTL DEF Spec

\* The variables are of their types, whatever the limits.
THEOREM TypeCorrect == Spec => []TypeOK
<1>1. ModemInv => TypeOK
  BY DEF ModemInv
<1> QED
  BY <1>1, ModemInvariant, PTL

\* Once the program has noted which modem is fitted it is right, no N2 driver
\* starts at the wrong rate, and an R4 that has been initialised has the MNO
\* profile wanted: whatever attempts, passes and reports have failed before.
THEOREM BelievedIsSo == Spec => []ModemAsBelieved
<1>1. ModemInv => ModemAsBelieved
  BY DEF ModemInv, FittedNoted, SpeedKnown, ProfileKept, ModemAsBelieved
<1> QED
  BY <1>1, ModemInvariant, PTL

\* Wherever the loops with a short AT timeout are left, it is put back.
THEOREM TimeoutIsPutBack == Spec => []TimeoutPutBack
<1>1. ModemInv => TimeoutPutBack
  BY DEF ModemInv
<1> QED
  BY <1>1, ModemInvariant, PTL

-----------------------------------------------------------------------------
\* gModemOff is set when the modem has been shut down; that it is set only
\* then takes a limit of one failure, the default: with more, an N2 build
\* that leaves its modem on takes a driver that did not come up for one that
\* stays on.
OffFits ==
    /\ pc \in {"post", "posted", "deinit"} => modemOff
    /\ pc = "down" /\ pInterface = NULL => outcome = "failed"
    /\ pc = "idle" /\ modemOff => pInterface = NULL
    /\ pc = "idle" /\ pInterface = NULL /\ MaxReportFailures = 1 => modemOff

LEMMA OffStep == ModemInv /\ OffFits /\ [Next]_vars => OffFits'
<1> SUFFICES ASSUME ModemInv, OffFits, [Next]_vars PROVE OffFits'
  OBVIOUS
<1> USE DEF OffFits, board, driver, known, report
<1>0. /\ PlacesFit /\ DriverThere /\ modemOff \in BOOLEAN /\ failures \in 0 .. MaxReportFailures
      /\ useN2 \in BOOLEAN /\ build.off \in BOOLEAN
      /\ pc \in {"idle", "post", "posted", "reporting", "initialised", "connecting", "down",
                 "deinit"}
  BY DEF ModemInv, TypeOK, Build
<1>1. CASE UNCHANGED vars
  BY <1>1 DEF vars
<1>2. CASE InitModem \/ TryOther \/ DriverStep
  BY <1>2 DEF InitModem, TryOther, DriverStep
<1>3. CASE InitDone
  BY <1>3, <1>0, NullAssumption DEF InitDone, DriverThere, ModemInv, TypeOK, Object
<1>4. CASE InitFailed
  BY <1>4, <1>0 DEF InitFailed, PlacesFit, InConnect, InDeinit
<1>5. CASE Connect
  BY <1>5, <1>0 DEF Connect, DriverThere
<1>6. CASE Connected
  BY <1>6, <1>0 DEF Connected, DriverThere
<1>7. CASE PostDone
  BY <1>7, <1>0 DEF PostDone, Shut
<1>8. CASE WindDown
  <2>1. CASE ShutEachTime
    BY <1>8, <2>1, <1>0 DEF WindDown, Shut
  <2>2. CASE ~ShutEachTime /\ FailuresNow >= MaxReportFailures
    BY <1>8, <2>2, <1>0 DEF WindDown, Shut
  <2>3. CASE ~ShutEachTime /\ ~(FailuresNow >= MaxReportFailures)
    <3>1. pInterface # NULL \/ MaxReportFailures # 1
      BY <1>8, <2>3, <1>0 DEF WindDown, FailuresNow
    <3> QED
      BY <1>8, <2>3, <3>1, <1>0 DEF WindDown, ShutEachTime
  <2> QED
    BY <2>1, <2>2, <2>3
<1>9. CASE Deinitialised
  BY <1>9, <1>0 DEF Deinitialised
<1>10. CASE Report \/ Terminate
  BY <1>10, <1>0 DEF Report, Terminate
<1> QED
  BY <1>1, <1>2, <1>3, <1>4, <1>5, <1>6, <1>7, <1>8, <1>9, <1>10 DEF Next, Proceed

\* Between reports the modem has power exactly when there is a driver for it,
\* and gModemOff says so, with the default limit of one failed report.
THEOREM ModemOffWhenDone ==
    ASSUME MaxReportFailures = 1
    PROVE  Spec => []OffWhenDone
<1>1. Init => OffFits
  BY DEF Init, OffFits
<1>2. ModemInv /\ OffFits => OffWhenDone
  BY DEF ModemInv, TypeOK, PlacesFit, PowerFits, OffFits, OffWhenDone
<1> QED
  BY <1>1, <1>2, ModemInvariant, OffStep, PTL DEF Spec

\* Whatever the limit: the power is off when there is no driver, and a modem
\* that gModemOff says is off has none.
ShutIsOff ==
    pc = "idle" => power = (pInterface # NULL) /\ (modemOff => pInterface = NULL)

THEOREM ShutMeansOff == Spec => []ShutIsOff
<1>1. Init => OffFits
  BY DEF Init, OffFits
<1>2. ModemInv /\ OffFits => ShutIsOff
  BY DEF ModemInv, TypeOK, PlacesFit, PowerFits, OffFits, ShutIsOff
<1> QED
  BY <1>1, <1>2, ModemInvariant, OffStep, PTL DEF Spec
=============================================================================
