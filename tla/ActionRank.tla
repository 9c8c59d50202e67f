----------------------------- MODULE ActionRank -----------------------------
(***************************************************************************)
(* The ranking of eh_action.cpp: actionRankTypes() turns the action list   *)
(* into a list of action types, actionRankMoveType(), actionRankDelType()  *)
(* and actionEnergyNWH() are what processorActionList() makes of it.       *)
(*                                                                         *)
(* An entry of the list is what ActionList keeps of it and what is ranked  *)
(* by.  Entries in use are copied to the front of gpRankedList; behind     *)
(* them it holds NULL pointers, which ranker() follows all the same.  What *)
(* they are ranked as, memory at address 0, is a parameter of the ranking. *)
(***************************************************************************)
EXTENDS Integers, FiniteSets, Sequences, SequencesExt, FiniteSetsExt

CONSTANTS
    TypeOrder,     \* the action types in the order of their enum
    Desirability,  \* of each type; 0 is "off"
    Damper,        \* gVariabilityDamper
    NULL

ActionType == ToSet(TypeOrder)

ASSUME OrderAssumption ==
    TypeOrder \in Seq(ActionType) /\ IsInjective(TypeOrder) /\ NULL \notin ActionType
ASSUME DesirabilityAssumption ==
    Desirability \in [ActionType -> Nat] /\ Damper \in [ActionType -> Nat \ {0}]

Entry == [type : ActionType \cup {NULL},
          state : {"NULL", "REQUESTED", "COMPLETED", "TRIED_AND_FAILED", "ABORTED"},
          cost : Nat, time : Nat, value : Int \cup {NULL}]

\* The elements of a sequence that are in a set, in their order.
Only(s, S) ==
    LET kept[n \in 0 .. Len(s)] ==
            IF n = 0 THEN <<>>
            ELSE IF s[n] \in S THEN Append(kept[n - 1], s[n]) ELSE kept[n - 1]
    IN  kept[Len(s)]

Total(numbers) ==
    LET sum[n \in 0 .. Len(numbers)] == IF n = 0 THEN 0 ELSE sum[n - 1] + numbers[n]
    IN  sum[Len(numbers)]

\* The entries that are ranked, oldest place first.
Used(list) == Only(list, {e \in ToSet(list) : e.state \in {"REQUESTED", "COMPLETED"}})

\* gOccurrence
Occurrence(list, t) ==
    LET used == Used(list)
    IN  Cardinality({i \in DOMAIN used : used[i].type = t})

\* What was measured, in the order of the entries.
Values(list, t) ==
    LET with == Only(Used(list), {e \in ToSet(list) : e.type = t /\ e.value # NULL})
    IN  [i \in DOMAIN with |-> with[i].value]

\* abs(dataDifference())
Difference(a, b) == IF a < b THEN b - a ELSE a - b

\* gPeakVariability
Peak(list, t) ==
    LET v == Values(list, t)
    IN  Max({0} \cup {Difference(v[i], v[i + 1]) \div Damper[t] : i \in 1 .. Len(v) - 1})

\* Mutant: the most frequent type first.
KeyFrequent(list, e) ==
    <<-Occurrence(list, e.type), e.cost, -Desirability[e.type], -Peak(list, e.type), e.time>>

\* What condition() compares, the lesser first.
Key(list, e) ==
    <<Occurrence(list, e.type), e.cost, -Desirability[e.type], -Peak(list, e.type), e.time>>

Less(k, l) == \E i \in DOMAIN k : k[i] < l[i] /\ \A j \in 1 .. i - 1 : k[j] = l[j]

\* ranker(): exchanging neighbours leaves what ranks the same in its order.
Sorted(keys) ==
    LET before(i, j) == Less(keys[i], keys[j]) \/ (i < j /\ ~Less(keys[j], keys[i]))
    IN  [n \in DOMAIN keys |->
            CHOOSE i \in DOMAIN keys :
                Cardinality({j \in DOMAIN keys : before(j, i) /\ j # i}) = n - 1]

\* gpRankedList: types, or NULL where no action is left to be pointed at.
RankedList(list, nullKey) ==
    LET used == Used(list)
        keys == [i \in DOMAIN list |->
                    IF i <= Len(used) THEN Key(list, used[i]) ELSE nullKey]
        order == Sorted(keys)
    IN  [n \in DOMAIN list |->
            IF order[n] <= Len(used) THEN used[order[n]].type ELSE NULL]

\* The types ranked by the actions that come before any NULL.
FromActions(ranked) ==
    LET types[n \in 0 .. Len(ranked)] ==
            IF n = 0 THEN <<>>
            ELSE LET before == types[n - 1]
                     t == ranked[n]
                 IN  IF \/ \E m \in 1 .. n : ranked[m] = NULL
                        \/ t \in ToSet(before)
                        \/ Desirability[t] = 0
                     THEN before
                     ELSE Append(before, t)
    IN  types[Len(ranked)]

\* The rest, most desirable first.
Missing(types) ==
    LET rest == Only(TypeOrder, {t \in ActionType : Desirability[t] > 0} \ ToSet(types))
        order == Sorted([i \in DOMAIN rest |-> <<-Desirability[rest[i]]>>])
    IN  [n \in DOMAIN rest |-> rest[order[n]]]

\* actionRankTypes()
RankTypes(list, nullKey) ==
    LET types == FromActions(RankedList(list, nullKey))
    IN  types \o Missing(types)

\* actionRankDelType()
DelType(types, t) == Only(types, ActionType \ {t})

\* actionRankMoveType() to the end
MoveToEnd(types, t) ==
    IF t \in ToSet(types) THEN Append(DelType(types, t), t) ELSE types

\* actionEnergyNWH()
EnergyNWH(list, t) ==
    LET run == Only(list, {e \in ToSet(list) : /\ e.type = t
                                               /\ e.state \in {"COMPLETED", "TRIED_AND_FAILED"}})
    IN  IF run = <<>> THEN 0 ELSE Total([i \in DOMAIN run |-> run[i].cost]) \div Len(run)

=============================================================================
