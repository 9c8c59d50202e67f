----------------------------- MODULE DataHooks -----------------------------
(***************************************************************************)
(* The pointers between items and actions, followed from the items.        *)
(*                                                                         *)
(* An action keeps a pointer to the last item it made; an item keeps one   *)
(* to the action that made it.  The reading of a Bluetooth action is       *)
(* several items (checkBleProgress(), eh_processor.cpp), of which all but  *)
(* the last point at an action that does not point back: for those the     *)
(* code promises nothing, and a history variable sets them apart.          *)
(***************************************************************************)
EXTENDS DataStore

VARIABLE plural  \* entries with an item on the list that was not their last

\* The items that point at an entry.
Naming(c) == {b \in InUse : node[b].action = c}

\* An entry given an item while it had one is plural until the last of its
\* items has gone or been unhooked.
Noted ==
    plural' = {c \in Action :
                  /\ Naming(c)' # {}
                  /\ c \in plural \/ (hook[c] # NULL /\ hook'[c] \notin {NULL, hook[c]})}

HookInit == Init /\ plural = {}

HookNext == Next /\ Noted

HookSpec == HookInit /\ [][HookNext]_<<vars, plural>>

\* An item that points at an action is the one that action points at: so
\* freeing it (dataFree(), eh_data.cpp) clears its own action's pointer and
\* never that of the reading made since its entry was reused, and encoding it
\* (encodeDataItem(), eh_codec.cpp) reports the energy of its own action.
\* Not promised, and not true, of the several items of one Bluetooth action.
HooksBothWays ==
    \A c \in Action \ plural : \A b \in InUse :
        node[b].action = c => hook[c] = b

=============================================================================
