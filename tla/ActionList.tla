----------------------------- MODULE ActionList -----------------------------
(***************************************************************************)
(* The action list of eh_action.cpp: gActionList[], the entries in which   *)
(* the processor records each action it starts, its outcome and the data   *)
(* item it last produced.  Every operation holds the action mutex and is   *)
(* one step; the callers, which keep pointers to entries, are elsewhere.   *)
(***************************************************************************)
EXTENDS Integers

CONSTANTS
    NumActions,  \* MAX_NUM_ACTIONS
    ActionType,
    NULL

Slot == 1 .. NumActions
State == {"NULL", "REQUESTED", "COMPLETED", "TRIED_AND_FAILED", "ABORTED"}

\* "data" is the type of action that made the item at pData: NULL if none.
Entry == [type : ActionType \cup {NULL}, state : State,
          data : ActionType \cup {NULL}]

VARIABLE entry

\* actionInit()
Init == entry = [s \in Slot |-> [type |-> NULL, state |-> "NULL", data |-> NULL]]

First(S) == CHOOSE s \in S : \A r \in S : s <= r

\* The entries pActionAdd() looks for first, and those it falls back to.
Disused == {s \in Slot : entry[s].state \in {"NULL", "ABORTED", "TRIED_AND_FAILED"}}
Finished == {s \in Slot : entry[s].state = "COMPLETED"}

\* Where pActionAdd() puts an action: NULL if every entry is requested.
Chosen ==
    CASE Disused # {} -> First(Disused)
      [] Disused = {} /\ Finished # {} -> First(Finished)
      [] OTHER -> NULL

\* pActionAdd(): the entry is overwritten and its data item unhooked.
Add(t) ==
    /\ Chosen # NULL
    /\ entry' = [entry EXCEPT ![Chosen] =
                    [type |-> t, state |-> "REQUESTED", data |-> NULL]]

\* actionCompleted(), actionTriedAndFailed(), actionAborted()
Mark(s, state) == entry' = [entry EXCEPT ![s].state = state]

\* hasActionRun()
HasRun(s) == entry[s].state \in {"COMPLETED", "TRIED_AND_FAILED"}

\* actionCount() counts these.
Outstanding == {s \in Slot : entry[s].state = "REQUESTED"}

\* The entries actionRankTypes() ranks.
Ranked == {s \in Slot : entry[s].state \in {"REQUESTED", "COMPLETED"}}

=============================================================================
