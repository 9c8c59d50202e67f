---------------------------- MODULE EnergySource ----------------------------
(***************************************************************************)
(* The choice of energy source: act_energy_source.cpp and the parts of     *)
(* eh_processor.cpp that choose.  A wake-up that has energy measures what  *)
(* the source in use yields and takes the best one known, or one not tried *)
(* yet; a wake-up that has not falls back on the history of the choices.   *)
(***************************************************************************)
EXTENDS Integers, Sequences, FiniteSets

CONSTANTS DefaultSource,  \* ENERGY_SOURCE_DEFAULT
          Levels,         \* what a source may yield, in mV on average
          HistoryLength,  \* ARRAY_SIZE(gEnergyChoice)
          RandomEvery     \* energetic wake-ups from one random choice to the next

Sources == 1 .. 3 \* ENERGY_SOURCES_MAX_NUM

VARIABLES
    at,            \* "start", "asleep", "awake", or in setEnergySource():
                   \* "off", about to switch off, then "on", about to switch on
    pins,          \* gEnableEnergySource1 to 3
    target,        \* the source being set
    gEnergyChoice, \* the choices: source, and whether it has been good
    gVIn,
    gVInCount,
    gNumWakeups,   \* counted up to the length of the history
    gNumEnergeticWakeups,  \* modulo RandomEvery
    past           \* history: the choices as they were made, newest first

vars == <<at, pins, target, gEnergyChoice, gVIn, gVInCount, gNumWakeups, gNumEnergeticWakeups, past>>

Choice == [source : Sources \cup {0}, good : BOOLEAN]
Unset == [source |-> 0, good |-> FALSE]
Chosen(s) == [source |-> s, good |-> FALSE]

TypeOK ==
    /\ at \in {"start", "off", "on", "asleep", "awake"}
    /\ pins \in [Sources -> BOOLEAN]
    /\ target \in Sources
    /\ gEnergyChoice \in [1 .. HistoryLength -> Choice]
    /\ gVIn \in [Sources -> Levels \cup {0}]
    /\ gVInCount \in 0 .. 3
    /\ gNumWakeups \in 0 .. HistoryLength
    /\ gNumEnergeticWakeups \in 0 .. RandomEvery - 1
    /\ past \in Seq(Choice) /\ Len(past) <= HistoryLength

\* getEnergySource(): 0 when none is on.
GetEnergySource ==
    IF \E s \in Sources : pins[s] THEN CHOOSE s \in Sources : pins[s] /\ \A r \in 1 .. s - 1 : ~pins[r] ELSE 0

\* main() and processorInit().
Begin ==
    /\ at' = "off" /\ target' = DefaultSource
    /\ pins' = [s \in Sources |-> FALSE]
    /\ gEnergyChoice' = [i \in 1 .. HistoryLength |-> IF i = 1 THEN Chosen(DefaultSource) ELSE Unset]
    /\ gVIn' = [s \in Sources |-> 0] /\ gVInCount' = 0
    /\ gNumWakeups' = 0 /\ gNumEnergeticWakeups' = 0
    /\ past' = <<>>

Init ==
    /\ at = "start" /\ target = DefaultSource
    /\ pins = [s \in Sources |-> FALSE]
    /\ gEnergyChoice = [i \in 1 .. HistoryLength |-> Unset]
    /\ gVIn = [s \in Sources |-> 0] /\ gVInCount = 0
    /\ gNumWakeups = 0 /\ gNumEnergeticWakeups = 0
    /\ past = <<>>

Start == at = "start" /\ Begin

\* A reset, at any time: the pins go low with it.
Restart == at # "start" /\ Begin

\* Mutant: the source is switched on before the others are off.
SwitchOffLast ==
    /\ at = "off" /\ at' = "on"
    /\ pins' = [s \in Sources |-> pins[s] \/ s = target]
    /\ UNCHANGED <<target, gEnergyChoice, gVIn, gVInCount, gNumWakeups, gNumEnergeticWakeups, past>>

\* setEnergySource(): all the others off, a millisecond, then on; then
\* CHOOSE_ENERGY_SOURCE.
SwitchOff ==
    /\ at = "off" /\ at' = "on"
    /\ pins' = [s \in Sources |-> pins[s] /\ s = target]
    /\ UNCHANGED <<target, gEnergyChoice, gVIn, gVInCount, gNumWakeups, gNumEnergeticWakeups, past>>

SwitchOn ==
    /\ at = "on" /\ at' = "asleep"
    /\ pins' = [s \in Sources |-> s = target]
    /\ gEnergyChoice' = [gEnergyChoice EXCEPT ![1] = Chosen(target)]
    /\ past' = SubSeq(<<Chosen(target)>> \o past, 1,
                      IF Len(past) < HistoryLength THEN Len(past) + 1 ELSE HistoryLength)
    /\ UNCHANGED <<target, gVIn, gVInCount, gNumWakeups, gNumEnergeticWakeups>>

\* processorBestRecentEnergySource(): how often each has been good in the
\* entries made so far; the default unless another has been more often.
TimesGood(history, s) == Cardinality({i \in DOMAIN history : history[i] = [source |-> s, good |-> TRUE]})
BestRecent(wakeups) ==
    LET recent == SubSeq(gEnergyChoice, 1, wakeups)
        Better(best, s) == IF TimesGood(recent, s) > TimesGood(recent, best) THEN s ELSE best
    IN Better(Better(Better(DefaultSource, 1), 2), 3)

\* processorAgeEnergySource(): from the first on, each entry is copied to
\* the next.
Aged(choices) == [i \in DOMAIN choices |-> choices[1]]

CountWakeUp == IF gNumWakeups < HistoryLength THEN gNumWakeups + 1 ELSE HistoryLength

\* processorHandleWakeup(), voltageIsBearable() or not.
WakeUp ==
    /\ at = "asleep" /\ at' = "awake"
    /\ gNumWakeups' = CountWakeUp
    /\ gNumEnergeticWakeups' = (gNumEnergeticWakeups + 1) % RandomEvery
    /\ UNCHANGED <<pins, target, gEnergyChoice, gVIn, gVInCount, past>>

NotEnoughEnergy ==
    /\ at = "asleep" /\ at' = "off"
    /\ gNumWakeups' = CountWakeUp
    /\ target' = BestRecent(CountWakeUp)
    /\ gEnergyChoice' = Aged(gEnergyChoice)
    /\ UNCHANGED <<pins, gVIn, gVInCount, gNumEnergeticWakeups, past>>

\* What to use next, once VIn has been averaged: the best of those measured,
\* every tenth time another one; before that the next in turn.
Highest(vIn) ==
    LET Better(best, s) == IF vIn[s] > vIn[best] THEN s ELSE best
    IN Better(Better(Better(GetEnergySource, 1), 2), 3)

\* Mutant: the next in turn without the step back to the first.
NextChoicesUnwrapped(vIn, count) ==
    IF count < 3 THEN {GetEnergySource + 1}
    ELSE IF gNumEnergeticWakeups = 0 THEN Sources \ {Highest(vIn)}
    ELSE {Highest(vIn)}

NextChoices(vIn, count) ==
    IF count < 3 THEN {(GetEnergySource % 3) + 1}
    ELSE IF gNumEnergeticWakeups = 0 THEN Sources \ {Highest(vIn)}
    ELSE {Highest(vIn)}

\* The end of a wake-up with energy; the voltage has gone bad or not.
ChooseNext ==
    /\ at = "awake" /\ at' = "off"
    /\ \E level \in Levels, good \in BOOLEAN :
          LET marked(h) == [h EXCEPT ![1].good = @ \/ good]
          IN /\ gVIn' = [gVIn EXCEPT ![GetEnergySource] = level]
             /\ gVInCount' = IF gVInCount < 3 THEN gVInCount + 1 ELSE 3
             /\ gEnergyChoice' = Aged(marked(gEnergyChoice))
             /\ past' = marked(past)
    /\ target' \in NextChoices(gVIn', gVInCount')
    /\ UNCHANGED <<pins, gNumWakeups, gNumEnergeticWakeups>>

Next == Start \/ Restart \/ SwitchOff \/ SwitchOn \/ WakeUp \/ NotEnoughEnergy \/ ChooseNext

Spec == Init /\ [][Next]_vars

-----------------------------------------------------------------------------
\* Never are two sources on at once, whenever the program is stopped or
\* reset, and one is on whenever a wake-up uses its number as an index.
OneSourceOn ==
    /\ \A r, s \in Sources : pins[r] /\ pins[s] => r = s
    /\ at \in {"asleep", "awake"} => GetEnergySource \in Sources

\* A wake-up without energy takes the source that has been good most often
\* in the choices remembered.
BestOfHistory ==
    [][NotEnoughEnergy =>
         \A s \in Sources : TimesGood(past, s) <= TimesGood(past, target')]_vars
=============================================================================
