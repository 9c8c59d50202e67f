------------------------------ MODULE AtSockets ------------------------------
(***************************************************************************)
(* The sockets of the two AT interfaces (UbloxATCellularInterface.cpp and  *)
(* UbloxATCellularInterfaceN2xx.cpp): the thread that sends reports opens, *)
(* reads and closes a socket and deletes the driver, while the driver's    *)
(* event thread reads the same serial line for unsolicited result codes.   *)
(* Both hold the AT lock while they read, each with a timeout of its own.  *)
(*                                                                         *)
(* The line carries result codes and answers in the order in which the     *)
(* module has sent them.  Whoever reads handles the codes it meets; an     *)
(* answer that comes after its reader has given up is met by another one.  *)
(* A command or its answer may be lost.  The data of a datagram is left    *)
(* out, its length kept.                                                   *)
(***************************************************************************)
EXTENDS Integers, Sequences, FiniteSets, FiniteSetsExt

CONSTANTS
    Kinds,       \* the modules to consider: "R4", "N2"
    NumSockets,  \* slots of _sockets, and handles the module has
    Size,        \* lengths of a datagram
    Asked,       \* bytes asked for at once: the lesser of the size of the
                 \* application's buffer and MAX_READ_SIZE
    MaxQueued,   \* bound: datagrams waiting in the module for one socket
    MaxPending,  \* bound: bytes announced of a socket when a datagram comes in
    MaxLine,     \* bound: messages on the line; a result code makes as many of
                 \* them, an answer one more
    Modulus,     \* the width of nsapi_size_t, scaled down
    NULL

ASSUME SizeAssumption ==
    Size \subseteq Nat \ {0} /\ Asked \in Nat \ {0} /\ Modulus \in Nat \ {0}
ASSUME SocketAssumption == NumSockets \in Nat \ {0}
\* What can be announced of a socket fits nsapi_size_t.
ASSUME WidthAssumption ==
    /\ MaxQueued \in Nat /\ MaxPending \in Nat /\ MaxLine \in Nat
    /\ \E longest \in 0 .. Modulus - 1 :
         /\ \A n \in Size : n <= longest
         /\ longest * MaxQueued < Modulus /\ MaxPending + longest * MaxLine < Modulus

VARIABLES
    kind,     \* which module and driver
    slots,    \* _sockets
    module,   \* the module's sockets, by its own handles
    line,     \* messages from module to driver
    owner,    \* who holds the AT lock
    timeout,  \* the AT timeout: "default", "short" (1 s) or "poll" (10 ms)
    app,      \* the application's thread
    event,    \* the event thread
    running,  \* _run_event_thread
    wrong     \* history: "close" once a close has gone unanswered, "size" once a
              \* read has returned a length nobody has set, "lock" once a read
              \* has returned with the AT lock still held

vars == <<kind, slots, module, line, owner, timeout, app, event, running, wrong>>

UNUSED == -1
Slot == 1 .. NumSockets
Handle == 0 .. NumSockets - 1

ASSUME NullAssumption == NULL \notin Slot /\ NULL \notin {"app", "event"}

Free == [handle |-> UNUSED, pending |-> 0]
Closed == [open |-> FALSE, queue |-> <<>>]
Idle == [at |-> "idle", slot |-> NULL, expired |-> FALSE, kept |-> "default"]

Init ==
    /\ kind \in Kinds
    /\ slots = [s \in Slot |-> Free]
    /\ module = [h \in Handle |-> Closed]
    /\ line = <<>>
    /\ owner = NULL /\ timeout = "default"
    /\ app = Idle
    /\ event = [at |-> "polling", kept |-> "default"]
    /\ running = TRUE
    /\ wrong = {}

Total(queue) ==
    LET sum[i \in 0 .. Len(queue)] == IF i = 0 THEN 0 ELSE sum[i - 1] + queue[i]
    IN  sum[Len(queue)]

-----------------------------------------------------------------------------
(* The module and the line *)

\* A datagram comes in: an R4 says how much is waiting, an N2 how much has come.
Arrive(h, n) ==
    /\ module[h].open /\ Len(module[h].queue) < MaxQueued /\ Len(line) < MaxLine
    /\ \A s \in Slot : slots[s].pending <= MaxPending
    /\ module' = [module EXCEPT ![h].queue = Append(@, n)]
    /\ line' = Append(line, [is |-> "data", handle |-> h,
                             n |-> IF kind = "R4" THEN Total(module'[h].queue) ELSE n])
    /\ UNCHANGED <<kind, slots, owner, timeout, app, event, running, wrong>>

\* A socket is closed from the other side, or the network takes the context
\* down: on an R4 with a result code.  UUPSDD_URC() takes its number for a
\* socket ("+UUPSDD: <socket>"), and so does the model.
Deactivate(h) ==
    /\ kind = "R4" /\ module[h].open /\ Len(line) < MaxLine
    /\ module' = [module EXCEPT ![h] = Closed]
    /\ line' = Append(line, [is |-> "gone", handle |-> h, n |-> 0])
    /\ UNCHANGED <<kind, slots, owner, timeout, app, event, running, wrong>>

\* find_socket()
Found(h) == {s \in Slot : slots[s].handle = h}
FindSocket(h) == Min(Found(h))

\* UUSORF_URC() and UUSORD_URC() are told all there is, NSONMI_URC() of one
\* more datagram.
Announced(pending, n) == (IF kind = "R4" THEN n ELSE pending + n) % Modulus

\* What a result code does to the sockets: data announced, or, UUSOCL_URC()
\* and UUPSDD_URC(), the socket cleared.
SlotsAfter(urc) ==
    CASE Found(urc.handle) = {} -> slots
      [] Found(urc.handle) # {} /\ urc.is = "data" ->
            [slots EXCEPT ![FindSocket(urc.handle)].pending = Announced(@, urc.n)]
      [] OTHER -> [slots EXCEPT ![FindSocket(urc.handle)] = Free]

IsUrc(m) == m.is \in {"data", "gone"}
Waiting == line # <<>>

\* The first message is a result code, and is handled.
HandleUrc ==
    /\ Waiting /\ IsUrc(Head(line))
    /\ slots' = SlotsAfter(Head(line))
    /\ line' = Tail(line)

\* The first message is an answer nobody waits for.
Discard(wanted) ==
    /\ Waiting /\ ~IsUrc(Head(line)) /\ Head(line).is \notin wanted
    /\ line' = Tail(line)
    /\ UNCHANGED slots

\* A command is sent: it may be lost, and so may its answer; done, it leaves
\* the module's sockets like that.
Command(done, answer) ==
    \/ UNCHANGED <<module, line>>
    \/ module' = done /\ line' \in {line} \cup (IF Len(line) <= MaxLine THEN {Append(line, answer)} ELSE {})

-----------------------------------------------------------------------------
(* The application's thread *)

CanLock(who) == owner \in {NULL, who}
Lock(who) == CanLock(who) /\ owner' = who

\* The mutex counts: the application releases what it has locked, and no
\* more.
AppUnlock == owner' = IF "lock" \in wrong THEN owner ELSE NULL
OnlyApp == UNCHANGED <<kind, event, running>>

Goto(place) == app' = [app EXCEPT !.at = place]

\* socket_open(): the module gives the lowest handle it has free.
Open ==
    /\ app.at = "idle" /\ running /\ Found(UNUSED) # {}
    /\ Lock("app")
    /\ LET unused == {h \in Handle : ~module[h].open}
       IN  IF unused = {} THEN UNCHANGED <<module, line>>
           ELSE Command([module EXCEPT ![Min(unused)].open = TRUE],
                        [is |-> "opened", handle |-> Min(unused), n |-> 0])
    /\ Goto("opening")
    /\ UNCHANGED <<slots, timeout, wrong>> /\ OnlyApp

\* The answer comes: a free slot gets the handle.
Opened ==
    /\ app.at = "opening" /\ Waiting /\ Head(line).is = "opened"
    /\ slots' = [slots EXCEPT ![FindSocket(UNUSED)] = [Free EXCEPT !.handle = Head(line).handle]]
    /\ app' = [app EXCEPT !.at = "open", !.slot = FindSocket(UNUSED)]
    /\ line' = Tail(line)
    /\ AppUnlock
    /\ UNCHANGED <<module, timeout, wrong>> /\ OnlyApp

NotOpened ==
    /\ app.at = "opening"
    /\ Goto("idle") /\ AppUnlock
    /\ UNCHANGED <<slots, module, line, timeout, wrong>> /\ OnlyApp

\* socket_sendto(), of a datagram that fits in one write.
Send ==
    /\ app.at = "open" /\ running
    /\ Lock("app")
    /\ IF slots[app.slot].handle = UNUSED THEN UNCHANGED <<module, line>>
       ELSE Command(module, [is |-> "sent", handle |-> 0, n |-> 0])
    /\ Goto("sending")
    /\ UNCHANGED <<slots, timeout, wrong>> /\ OnlyApp

\* Its answer comes, or does not.
Sent ==
    /\ app.at = "sending"
    /\ \/ UNCHANGED line
       \/ Waiting /\ Head(line).is = "sent" /\ line' = Tail(line)
    /\ Goto("open") /\ AppUnlock
    /\ UNCHANGED <<slots, module, timeout, wrong>> /\ OnlyApp

\* socket_recvfrom() is called; its timer starts.
Receive ==
    /\ app.at = "open" /\ running
    /\ app' = [app EXCEPT !.at = "turn"]
    /\ UNCHANGED <<slots, module, line, owner, timeout, wrong>> /\ OnlyApp

\* SOCKET_TIMEOUT has gone by.
Expire ==
    /\ app.at \in {"turn", "listening", "reading"} /\ ~app.expired
    /\ app' = [app EXCEPT !.expired = TRUE]
    /\ UNCHANGED <<slots, module, line, owner, timeout, wrong>> /\ OnlyApp

Pending == slots[app.slot].pending

\* A turn of the loop begins: the lock is taken and the timeout changed.
\* With data announced, some is asked for; the module gives of the first
\* datagram what fits.
Turn ==
    /\ app.at = "turn"
    /\ Lock("app") /\ timeout' = "short"
    /\ LET h == slots[app.slot].handle
           queue == IF h = UNUSED THEN <<>> ELSE module[h].queue
           given == IF queue = <<>> THEN 0 ELSE Min({Asked, Head(queue)})
           rest == IF queue = <<>> THEN <<>>
                   ELSE IF given = Head(queue) THEN Tail(queue)
                   ELSE <<Head(queue) - given>> \o Tail(queue)
       IN  IF Pending > 0
           THEN /\ app' = [app EXCEPT !.at = "reading", !.kept = timeout]
                /\ Command([module EXCEPT ![h].queue = rest],
                           [is |-> "read", handle |-> 0, n |-> given])
           ELSE /\ app' = [app EXCEPT !.at = IF app.expired THEN "returning" ELSE "listening",
                                      !.kept = timeout]
                /\ UNCHANGED <<module, line>>
    /\ UNCHANGED <<slots, wrong>> /\ OnlyApp

\* Mutant: only the lock is given back.
EndTurnShort(place) ==
    /\ UNCHANGED timeout
    /\ AppUnlock
    /\ app' = IF place = "open" THEN [Idle EXCEPT !.at = "open", !.slot = app.slot]
              ELSE [app EXCEPT !.at = place]

\* The end of a turn: the timeout is put back and the lock released.  A turn
\* that has read anything is the last one: it has been given less than it
\* asked for, or the most there can be, or the buffer is full.
EndTurn(place) ==
    /\ timeout' = app.kept
    /\ AppUnlock
    /\ app' = IF place = "open" THEN [Idle EXCEPT !.at = "open", !.slot = app.slot]
              ELSE [app EXCEPT !.at = place]

\* What remains pending once the module has said that it gives n bytes.
PendingLeftR4(n) == IF n > Pending THEN 0 ELSE Pending - n

\* Mutant: pending is signed.
PendingLeftSigned(n) == Pending - n

PendingLeftN2(n) == (Pending - n) % Modulus

PendingLeft(n) == IF kind = "R4" THEN PendingLeftR4(n) ELSE PendingLeftN2(n)

\* +USORF: the module says how much it gives.
ReadR4 ==
    /\ kind = "R4" /\ app.at = "reading"
    /\ Waiting /\ Head(line).is = "read"
    /\ line' = Tail(line)
    /\ slots' = [slots EXCEPT ![app.slot].pending = PendingLeft(Head(line).n)]
    /\ EndTurn("open")
    /\ UNCHANGED <<module, wrong>> /\ OnlyApp

\* +NSORF: with nothing to read there is just an OK, and the size returned
\* is what the variable happened to hold, which may be more than was asked
\* for.  (What a memcpy() of so many bytes does is not modelled.)
ReadN2 ==
    /\ kind = "N2" /\ app.at = "reading"
    /\ Waiting /\ Head(line).is = "read"
    /\ line' = Tail(line)
    /\ \E size \in IF Head(line).n = 0 THEN {-1} \cup 0 .. Modulus - 1 ELSE {Head(line).n} :
         /\ wrong' = wrong \cup IF size > Head(line).n THEN {"size"} ELSE {}
         /\ slots' = IF size < 0 THEN slots
                     ELSE [slots EXCEPT ![app.slot].pending = PendingLeft(size)]
    /\ EndTurn("open")
    /\ UNCHANGED module /\ OnlyApp

\* No answer, or not all of it: an R4's driver has already reduced what is
\* pending when the data does not follow.
NotRead ==
    /\ app.at = "reading"
    /\ \/ UNCHANGED <<slots, line>>
       \/ /\ kind = "R4" /\ Waiting /\ Head(line).is = "read"
          /\ slots' = [slots EXCEPT ![app.slot].pending = PendingLeft(Head(line).n)]
          /\ line' = Tail(line)
    /\ EndTurn("open")
    /\ UNCHANGED <<module, wrong>> /\ OnlyApp

\* socket_recvfrom() of an N2 finds no memory for the data and returns from
\* the middle of its turn.
OutOfMemory ==
    /\ kind = "N2"
    /\ app.at = "turn" /\ Pending > 0
    /\ Lock("app") /\ timeout' = "short"
    /\ app' = [app EXCEPT !.at = "open", !.kept = timeout]
    /\ wrong' = wrong \cup {"lock"}
    /\ UNCHANGED <<slots, module, line>> /\ OnlyApp

\* Result codes come while the application waits for its answer or for them.
Heed ==
    /\ app.at \in {"opening", "sending", "reading", "listening", "closing"}
    /\ \/ HandleUrc
       \/ Discard(CASE app.at = "opening" -> {"opened"}
                    [] app.at = "sending" -> {"sent"}
                    [] app.at = "reading" -> {"read"}
                    [] app.at = "closing" -> {"opened", "sent", "read", "closed"}
                    [] OTHER -> {})
    /\ UNCHANGED <<module, owner, timeout, app, wrong>> /\ OnlyApp

\* Mutant: the AT timeout is for ever.
ListenedAnswered ==
    /\ app.at = "listening" /\ Waiting
    /\ EndTurn("turn")
    /\ UNCHANGED <<slots, module, line, wrong>> /\ OnlyApp

\* A second of listening is over.
Listened ==
    /\ app.at = "listening"
    /\ EndTurn("turn")
    /\ UNCHANGED <<slots, module, line, wrong>> /\ OnlyApp

\* The time has gone by with nothing pending: what has been read is
\* returned, or that it would block.
Return ==
    /\ app.at = "returning"
    /\ EndTurn("open")
    /\ UNCHANGED <<slots, module, line, wrong>> /\ OnlyApp

\* socket_close()
Close ==
    /\ app.at = "open"
    /\ Lock("app")
    /\ LET h == slots[app.slot].handle
       IN  IF h = UNUSED THEN UNCHANGED <<module, line>>
           ELSE Command([module EXCEPT ![h] = Closed], [is |-> "closed", handle |-> 0, n |-> 0])
    /\ Goto("closing")
    /\ UNCHANGED <<slots, timeout, wrong>> /\ OnlyApp

\* Mutant: the slot forgets what is pending, and not its handle.
CloseDoneKeeping ==
    /\ app.at = "closing" /\ Waiting /\ ~IsUrc(Head(line))
    /\ slots' = [slots EXCEPT ![app.slot].pending = 0]
    /\ line' = Tail(line)
    /\ app' = Idle
    /\ AppUnlock
    /\ wrong' = wrong \cup IF Head(line).is = "closed" THEN {} ELSE {"close"}
    /\ UNCHANGED <<module, timeout>> /\ OnlyApp

\* An OK comes, whichever answer it ends: the slot is cleared.
CloseDone ==
    /\ app.at = "closing" /\ Waiting /\ ~IsUrc(Head(line))
    /\ slots' = [slots EXCEPT ![app.slot] = Free]
    /\ line' = Tail(line)
    /\ app' = Idle
    /\ AppUnlock
    /\ wrong' = wrong \cup IF Head(line).is = "closed" THEN {} ELSE {"close"}
    /\ UNCHANGED <<module, timeout>> /\ OnlyApp

\* No OK comes: the slot keeps its handle, the application forgets the slot.
NotClosed ==
    /\ app.at = "closing"
    /\ app' = Idle
    /\ AppUnlock
    /\ wrong' = wrong \cup {"close"}
    /\ UNCHANGED <<slots, module, line, timeout>> /\ OnlyApp

\* The driver is deleted: its destructor stops the event thread ...
Delete ==
    /\ app.at = "idle" /\ running
    /\ running' = FALSE
    /\ Goto("joining")
    /\ UNCHANGED <<kind, slots, module, line, owner, timeout, event, wrong>>

\* ... and joins it.  A new driver starts with a module that has been off.
Joined ==
    /\ app.at = "joining" /\ event.at = "ended"
    /\ slots' = [s \in Slot |-> Free]
    /\ module' = [h \in Handle |-> Closed]
    /\ line' = <<>> /\ owner' = NULL /\ timeout' = "default"
    /\ app' = Idle
    /\ event' = [at |-> "polling", kept |-> "default"]
    /\ running' = TRUE /\ wrong' = {}
    /\ UNCHANGED kind

-----------------------------------------------------------------------------
(* handle_event() *)

OnlyEvent == UNCHANGED <<kind, module, app, running, wrong>>

\* poll() finds characters.
Poll ==
    /\ event.at = "polling" /\ Waiting
    /\ event' = [event EXCEPT !.at = "locking"]
    /\ UNCHANGED <<slots, line, owner, timeout>> /\ OnlyEvent

\* poll() has found nothing for a second, or the thread has been round:
\* while (_run_event_thread).
EventEnd ==
    /\ event.at = "polling" /\ ~running
    /\ event' = [event EXCEPT !.at = "ended"]
    /\ UNCHANGED <<slots, line, owner, timeout>> /\ OnlyEvent

EventLock ==
    /\ event.at = "locking" /\ owner = NULL
    /\ owner' = "event" /\ timeout' = "poll"
    /\ event' = [at |-> "reading", kept |-> timeout]
    /\ UNCHANGED <<slots, line>> /\ OnlyEvent

EventRead ==
    /\ event.at = "reading"
    /\ HandleUrc \/ Discard({})
    /\ UNCHANGED <<owner, timeout, event>> /\ OnlyEvent

\* Ten milliseconds without a character.
EventUnlock ==
    /\ event.at = "reading" /\ ~Waiting
    /\ owner' = NULL /\ timeout' = event.kept
    /\ event' = [at |-> "polling", kept |-> "default"]
    /\ UNCHANGED <<slots, line>> /\ OnlyEvent

-----------------------------------------------------------------------------
AppStep == Opened \/ NotOpened \/ Sent \/ Expire \/ ReadR4 \/ ReadN2 \/ NotRead \/ Return
           \/ CloseDone \/ NotClosed \/ Joined
EventStep == Poll \/ EventEnd \/ EventRead \/ EventUnlock

Next ==
    \/ \E h \in Handle : Deactivate(h) \/ \E n \in Size : Arrive(h, n)
    \/ Open \/ Send \/ Receive \/ Close \/ Delete
    \/ Turn \/ OutOfMemory \/ Heed \/ Listened \/ AppStep
    \/ EventLock \/ EventStep

\* Both threads run, and the mutex is not always given to the same one.  A
\* wait for an answer or for result codes ends when its timeout says so.
Spec ==
    /\ Init /\ [][Next]_vars
    /\ WF_vars(AppStep) /\ WF_vars(Listened) /\ WF_vars(EventStep)
    /\ SF_vars(Turn) /\ SF_vars(EventLock)

-----------------------------------------------------------------------------
Message == [is : {"data", "gone", "opened", "sent", "read", "closed"}, handle : Handle, n : Nat]

TypeOK ==
    /\ kind \in Kinds
    /\ slots \in [Slot -> [handle : Handle \cup {UNUSED}, pending : 0 .. Modulus - 1]]
    /\ module \in [Handle -> [open : BOOLEAN, queue : Seq(Nat \ {0})]]
    /\ line \in Seq(Message)
    /\ owner \in {"app", "event", NULL}
    /\ timeout \in {"default", "short", "poll"}
    /\ app \in [at : {"idle", "opening", "open", "sending", "turn", "reading", "listening",
                      "returning", "closing", "joining"},
                slot : Slot \cup {NULL}, expired : BOOLEAN,
                kept : {"default", "short", "poll"}]
    /\ event \in [at : {"polling", "locking", "reading", "ended"},
                  kept : {"default", "short", "poll"}]
    /\ running \in BOOLEAN /\ wrong \subseteq {"close", "size", "lock"}

\* "Helper to make sure that lock unlock pair is always balanced" (LOCK(),
\* UNLOCK()), and "the AT interface should be locked before this is called"
\* (at_set_timeout()): the application holds the lock only inside a call, and
\* whenever the lock is free the timeout is the driver's own, though two
\* threads save and restore it; unless memory has run out.
LeftAsFound ==
    /\ owner = "app" /\ "lock" \notin wrong => app.at \notin {"idle", "open", "turn", "joining"}
    /\ owner = NULL => timeout = "default"

\* "Find or create a socket from the list" (find_socket()): a handle of the
\* module belongs to one slot, or the announcements for a new socket go to a
\* dead one; so long as every close has been answered.
OneSlotPerHandle ==
    "close" \notin wrong => \A h \in Handle : Cardinality(Found(h)) <= 1

\* No announcement is lost between the two readers: a socket of which the
\* module holds data, with nothing more to say on the line, has some
\* pending, or it would not be asked for until the next datagram.
NothingForgotten ==
    /\ app.slot # NULL /\ app.at = "open" /\ wrong = {} /\ slots[app.slot].handle # UNUSED
    /\ line = <<>> /\ module[slots[app.slot].handle].queue # <<>>
    => slots[app.slot].pending > 0

\* The slots stay true of the module's sockets, though two readers change
\* them from one line.
SlotsSound == OneSlotPerHandle /\ NothingForgotten

\* "Let the event thread shut down tidily" (the destructors): the driver can
\* be deleted, so long as nobody has left the AT lock held.
Deleted == app.at = "joining" /\ "lock" \notin wrong ~> app.at # "joining"

\* SOCKET_TIMEOUT: a read returns, whatever the module says or does not say.
ReadReturns == app.at \in {"turn", "listening", "reading", "returning"} ~> app.at = "open"

\* What the application waits for comes: a read's return, a deletion's end.
CallsEnd == ReadReturns /\ Deleted
=============================================================================
