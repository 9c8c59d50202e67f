----------------------------- MODULE MCWakeups -----------------------------
(* Two measurements, both reports and a measurement that is off.  The      *)
(* histories: an empty action list, lists with an unused entry, and full   *)
(* ones in which types differ in number, in cost, in variability, in time  *)
(* or not at all.  Two intervals make a fix old, one the time.             *)
EXTENDS Wakeups

MCTypeOrder == <<"report", "time", "humidity", "light", "position">>
MCDesirability == [t \in ToSet(MCTypeOrder) |-> CASE t = "humidity" -> 2 [] t = "light" -> 0 [] OTHER -> 1]
MCDamper == [t \in ToSet(MCTypeOrder) |-> 1]

Unused == [type |-> NULL, state |-> "NULL", cost |-> 0, time |-> 0, value |-> NULL]
Ran(t, cost, time, value) ==
    [type |-> t, state |-> "COMPLETED", cost |-> cost, time |-> time, value |-> value]
Failed(t, cost, time) ==
    [type |-> t, state |-> "TRIED_AND_FAILED", cost |-> cost, time |-> time, value |-> NULL]

MCHistories ==
    {<<Unused, Unused, Unused>>,
     <<Ran("humidity", 1, 1, 3), Unused, Ran("report", 1, 2, NULL)>>,
     <<Ran("humidity", 1, 1, 3), Failed("position", 3, 2), Ran("time", 2, 3, NULL)>>,
     <<Ran("light", 1, 1, 3), Ran("position", 1, 2, 3), Ran("humidity", 1, 2, 3)>>}
    \cup {<<Ran("humidity", 2, 1, 3), x, y>> :
            x \in {Ran(t, c, 3 - c, 0) : t \in {"humidity", "position", "report"}, c \in {1, 2}},
            y \in {Ran("humidity", 2, 3, 9), Ran("position", 2, 3, 5)}}

\* What an action at address 0 may look like: type 0, or the rarest or the
\* most frequent of all.
MCNullKeys == {<<0, 0, 0, 0, 0>>, <<1, 2, -1, 0, 2>>, <<9, 9, 0, 0, 9>>}
MCRooms == {{}, {"humidity"}, {"humidity", "position"}}
=============================================================================
