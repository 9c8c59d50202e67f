# Verification of the Infinite IoT energy-harvesting firmware

TLA+ models, TLC runs and TLAPS proofs about the firmware under `src/source/`:
a device that wakes every few minutes on harvested energy, measures, queues
what it measured in a small buffer, reports it over a cellular modem and sleeps
again.  Paths below are relative to `src/source/`.

## 1. The system

| Component | Source | State | Operations |
|---|---|---|---|
| Ring allocator | `eh_data.cpp` 38-261 | buffer, `gpBufferFirstFull`, `gpBufferNextEmpty`, `gpBufferPreviousNext` | `pMemoryAlloc()`, `memoryFree()` |
| Data queue | `eh_data.cpp` | `gpDataList`, `gpNextData`, `gDataSizeUsed`, `pAction` of each item | `pDataAlloc()`, `dataFree()`, `pDataSort()`, `pDataFirst()`, `pDataNext()`, `dataAdjustTime()` |
| Action list | `eh_action.cpp` | `gActionList[]` and `pData` of each entry | `pActionAdd()`, `actionCompleted()`, `actionTriedAndFailed()`, `actionAborted()`, `hasActionRun()`, `actionCount()` |
| Ranking | `eh_action.cpp` | `gpRankedList[]`, `gRankedTypes[]`, occurrence, variability | `actionRankTypes()`, `actionRankMoveType()`, `actionRankDelType()`, ... |
| Processor | `eh_processor.cpp` | `gpActionThreadList[]`, counters of position fixes, times | `processorHandleWakeup()`, `doAction()`, `doMeasure...()`, `reporting()` |
| Energy source | `eh_processor.cpp`, `actions/act_energy_source.cpp` | the three enable pins, `gEnergyChoice[]`, `gVIn[]` | `setEnergySource()`, `getEnergySource()`, the choice at the end of a wake-up |
| Codec | `eh_codec.cpp` | `gpData`, `gReportIndex` | `codecPrepareData()`, `codecEncodeData()`, `codecAckDataIndex()` |
| Modem | `actions/act_modem.cpp` | `gpInterface`, `gUseN2xxModem`, `gInitialisedOnce` | `modemInit()`, `modemConnect()`, `modemSendReports()`, `modemDeinit()` |
| Cellular drivers | `actions/ublox-cellular-base*`, `actions/ublox-at-cellular-interface*` | registration status, AT time-out, socket slots, the event thread | `power_up()`, `init()`, `nwk_registration()`, `socket_...()`, result codes |
| I2C, sensor drivers | `eh_i2c.cpp`, `actions/act_*.cpp` | `gInitialised`, range, interrupt flag; the chips' registers | init, deinit, read, set range / threshold / interrupt |
| BLE | `actions/ble/ble_data_gather.cpp` | `gBleDeviceList[]`, readings of each device | callbacks of the stack, `bleRun()`, `pBleGetFirstDataItem()` |
| Statistics | `eh_statistics.cpp` | daily and total counters | wake-up, sleep, add, change of time |
| Main, POST, watchdog | `main.cpp`, `eh_post.cpp`, `eh_watchdog.cpp` | the event queue | start-up, `post()`, reset |

How they interact.  The event queue of `main()` calls
`processorHandleWakeup()`: on a timer, and when the interrupt of a sensor asks
for it.  It ranks the action types, and starts one RTOS
thread per type (`doAction()`), at most `MAX_NUM_SIMULTANEOUS_ACTIONS` at a
time, each with a pointer to an entry of the action list.  A measuring thread
uses a driver, marks its entry and calls `pDataAlloc()`, which ties the item
and the entry together by a pointer each way.  The reporting thread drives the
modem: `modemSendReports()` has the codec encode the queue, item by item,
freeing as it goes, and acks that come back free the items that wait for them.
The main thread waits for the threads, signals those that have not ended when
power or time runs out, waits for them again and goes to sleep.  Nothing is
persisted by the program: after a reset it starts from nothing, but the chips,
the modem and its memory are as it left them.

Each component guards its operations with a mutex of its own, but callers keep
pointers from one operation to the next.  That is where the hard behaviour is:

* the ring reclaims in order what is freed out of order, and wraps;
* an entry or an item can be reused while somebody holds a pointer to it;
* a cursor into the queue is kept while other threads add to the queue;
* the action mutex and the data mutex are taken in both orders;
* threads end by themselves, on a signal, or cannot be started;
* acks are lost, duplicated and reordered; the report index wraps;
* two threads read one AT line, and result codes arrive in the middle of an
  exchange;
* any command to the modem may have its effect and its answer be lost; which
  modem is fitted, and at which rate it talks, is found out by trying;
* any transfer to a sensor may fail, in the middle of a sequence that sets it
  up; a reset leaves the chip in the middle too;
* the clock is set while times are being measured;
* Bluetooth links are lost at any point of a discovery.

`PROJECT.json` lists these hazards one by one, at their lines, with the
properties that cover them.

What makes each component correct, in short: blocks never overlap and freed
space is always reclaimed (ring); the list can be followed both ways and holds
just what is allocated (queue); an entry is never left outstanding and its data
is of its type (actions); every wake-up ends and no thread outlives it
(processor); everything queued is sent, nothing that waits for an ack goes
before it (reports); what is believed of the modem is true, and it is off
when it should be (modem); the lock and the time-out are as they were found,
and slots agree with the module (sockets); no reading is scaled with the wrong
range, interrupts are re-armed, everything that can sleep does (sensors); one
source is on (energy); every second is counted once (statistics); no reading is
lost and the scan goes on (BLE); no threads wait in a ring (locks).

## 2. Modules

| Module | Models | Used by |
|---|---|---|
| `DataRing` | the allocator, word by word | `DataStore`, `MCDataRing` |
| `DataStore` | the data queue in the ring (`INSTANCE DataRing`) | `Reporting`, `MCDataStore` |
| `DataHooks` | the pointers between items and actions, with the history that tells which the code keeps both ways | `MCDataStore` |
| `DataQueue` | what the data queue promises: a bounded queue of items with a cursor, no memory | `MCDataStore` (refinement) |
| `ActionList` | the entries of the action list | `Processor` |
| `Processor` | a wake-up: main thread and action threads | `MCProcessor` |
| `Reporting` | codec, modem and link on the data queue (`INSTANCE DataStore`) | `MCReporting` |
| `ActionRank` | ranking of action types, as operators on an action list | `Wakeups` |
| `Wakeups` | choice of actions and position back-off from wake-up to wake-up | `MCWakeups` |
| `CellularBase`, `CellularBaseN2xx` | the SARA-R4 and the SARA-N2 driver, command by command | `Modem` |
| `Modem` | `act_modem.cpp` and the report around it, with either driver at work | `MCModem` |
| `AtSockets` | sockets, result codes and the two threads of the AT interfaces | `MCSockets` |
| `I2cBus` | a transfer, and how operations are put together from transfers | the sensor modules |
| `HallSensor`, `Accelerometer`, `LightSensor`, `ClimateSensor`, `Gnss` | one driver and its chip each | `Sensors` |
| `Sensors` | post(), wake-ups, interrupts and resets with those five | `Board` |
| `EnergySource` | the choice of the energy source | `Board` |
| `Accounts` | time and energy accounted for | `Board` |
| `BleGather` | Bluetooth gathering | `Board` |
| `Locks` | which thread takes which mutex when | `Board` |
| `Board` | the last five side by side | `MCBoard` |
| `..._proofs` | theorems about `DataRing`, `DataStore`, `Reporting`, `Wakeups`, `Modem`, `Processor`, `AtSockets` and `Board` | |

Each `MC` module gives a module's constants small values; it states nothing of its own.

**DataRing.**  Memory is a function from words to what each would be read as,
both as a header (`header`) and as a pointer (`next`): a block put on top of
another destroys what it covers, as in C.  `Alloc` is `pMemoryAlloc()` with the
write of the item, `Free` is `memoryFree()`.  The loop of `memoryFree()` is
`Passed`, the least set of blocks closed under following the trailing words over flagged
blocks, so no recursion is needed and the module can be proved about.
`dataAllocCheck()` changes nothing and is `Place(t) # NULL`.  The build without
an internal buffer (plain `malloc()`) is left out: `main()` always hands
`dataInit()` a buffer.

**DataStore.**  One action per operation, since each holds the data mutex
throughout.  The list is not a sequence but the nodes in memory; `Queue` walks
them.  `Free` follows the pointer exchanges of `dataFree()`.  `Sort` makes any
number of the exchanges of `sort()`, whose guard timer may stop it anywhere.
Flags and time of an item are one integer, `key`, as `conditionFlags()` compares
them lexicographically.  What an item contains is left out; where the contents
of a new item could be read as a node through a stale cursor the pointer is
`Junk`.  `Forget` scrubs the words of a freed item once nothing can read them,
only to keep the number of states down.  `DataHooks` adds the history `plural`: the entries with an
item on the list that was not their last.  Only a Bluetooth action makes several, and of those the code
keeps only the last in `pData`.

**ActionList / Processor.**  An entry remembers its type, state and the type of
the action that made its data.  `Chosen` is the search of `pActionAdd()`.
The main thread is a program counter (`starting`, `waiting`, `terminating`,
`asleep`); a turn of the start loop is one of `StartThread`, `StartRefused`
(`Thread::start()` fails), `NoMemory` (no memory for the `Thread`) and `NoRoom`,
and every turn goes on to the next task slot and reaps ended threads, as the
code does.  A thread is a program counter too; its steps end wherever it
takes or gives up a mutex that others contend for.  The order of marking an
entry and hooking data to it is that of the code (`Read`, then `Store`; a Bluetooth action, of the
types `Ble`, stores its readings as they come, `StoreBle`, and is then complete).  Which failures record
an outcome differs from type to type, so `InitDriver`, `Signalled` and `Read` leave it open where types differ.
The ranked list is any sequence of different types with a reporting type last:
`RankedLists` is what `processorActionList()` can return.  Voltage and run time
are free to give out at any time.  `StopWaiting` may therefore come at once.

**Reporting.**  Each call the reporting thread makes to `eh_data.cpp` is a step.
`NewReport`/`Encode`/`Following`/`EndReport` are `codecEncodeData()`, with
`dataFree()` and `pDataNext()` apart since the mutex is released in between.
How many items fit a report is left open (at least one: the code asserts it).
`air` is the set of acks under way; `Sent` may lose a report or its ack, `Receive`
may leave the ack to arrive again.  `Reading` is a measuring thread that stores its
reading before or (at most `MaxOthers`) during the report; the index of the new item is any number, as
`pDataAlloc()` leaves what the memory held.  `AckOther` is the
turn of the loop of `codecAckDataIndex()` that changes nothing.  Four histories, kept for one session, say what the code's own
fields cannot: `heldIn`, the report that an item was put in; `due`, what the codec has still to come to; `late`, what was
stored once it had come to the end; and `crossed`, that something was stored between a `dataFree()` and the `pDataNext()`
after it, the moment of `reporting_wild`.
An item encoded into a report that then fails to be sent is lost: this is by
design (`eh_codec.h` 139-141), so there is no property about it.

**Locks.**  A thread is the sequence of `lock`, `unlock`, `start` and `join`
events of a wake-up, put together from one definition per function; mutexes are
recursive (`depth`).

**ActionRank.**  `RankTypes(list, nullKey)` is `actionRankTypes()`: the entries in
use are ranked by `Key`, the list of what `condition()` compares, by a stable sort
(`ranker()` exchanges neighbours only), types are taken from the front, and those
without an action are put behind, most desirable first.  `gpRankedList` has a place
for every entry of the action list, and behind the entries in use it holds NULL.
`ranker()` follows these pointers like any other, so where they end up
depends on what is at address 0; that is the parameter `nullKey`, and the properties
are to hold whatever it is.  The types are taken up to the first NULL
(`FromActions`), so in a list that is not full none, some or all of the history
counts, depending on that memory.

**Wakeups.**  A wake-up is `Rank` (up to `actionRankTypes()`), then
`Choose` or `Moved` (the rest of `processorActionList()`), then one of the ways
`doMeasurePosition()` ends: `NotTried`, `SkipTurn`, `NoDriver`, `GotFix`, `NoFix`.  Each step of the
selection is an operator on the list of types (`OneReport`, `WorthReporting`,
`PositionDue`, `WithRoom`, `Affordable`), in the order of the code.  The action list
a wake-up begins with is any of a set of histories rather than the outcome of the wake-up before,
which `Processor` has; energy, room and reason are inputs.  Times are
counted in wake-up intervals and up to the limit they are compared
with; `skipped` is kept up to `MaxSkips`, which is exact as it is only compared with
`required`, and that is never more (proved).  `sinceTry` and `triedSince` record history for the properties.

**CellularBase, CellularBaseN2xx, Modem.**  A driver is a place (`at`) and a count
of tries; each exchange with the module is a choice among the outcomes it can
have: none but failure if the module is not powered, is of the other type or is
at another rate, and either otherwise.  A command may have had its effect though its
OK is lost (`Write`, `SetSpeed`).  `pre_init()`'s loop is `CheckMno`, `CheckRat`, `CheckBand`, `AnotherPass`;
`init()` goes on through `Following`; `nwk_registration()` is `Register`, `Search`,
`Leave`.  `Modem` adds what survives from report to report (`gpInterface`,
`gInitialisedOnce`, `gUseN2xxModem`, failures), the two drivers tried one after the
other, and the shutdown in `post()` and in `reporting()`.  The module's power,
rate and saved settings are variables of their own, so that what the program believes can be
compared with what is.  `keepGoing` is the terminated thread, at any time.

**AtSockets.**  `line` is what the module has said and nobody has read; both the
application's thread (waiting for an answer) and the event thread (`handle_event()`)
take from its head, and either handles a result code it meets.  `owner` is
the AT lock, `timeout` the AT time-out that each saves, changes and puts back.
`kind` says which of the two drivers it is: they differ in what an announcement says
(all there is; one more datagram), in what a read subtracts, and in how a
read can go wrong.  `wrong` records what the code is known to do badly
(section 6), so that the properties can say what holds up to then.

**I2cBus and the drivers.**  A driver's operation is not an action but a set of outcomes:
`{[ok, dev]}` for a given device, put together with `Then` (stop at the first failure),
`Finally` and `Rescue`.  `Transfer` fails at any time, and always if the bus is down
or the chip not fitted, and then leaves the chip as it was; so every prefix of a
sequence of transfers is among the outcomes.  `dev` holds the
driver's variables and the chip's registers as far as they matter: the Hall
sensor's range is the compensation parameters it has been given,
a measurement is the range it has been taken with; a light measurement is
"this" one or an "old" one; the GNSS chip's stream and the driver's buffer
are sequences of messages, with what the buffer holds beyond the message.

**Sensors.**  One action per turn of `post()`'s loop, per measurement, per interrupt,
and per part of `processorHandleWakeup()` around them.  The drivers hold their mutex throughout,
so an operation is one step.  The wake-up is called by the timer, by an event of the queue
(bounded by `QueueSize`), or by a dispatching Bluetooth action (`HandlerBusy`).  Each Bluetooth action leaves a
regular call behind in the queue (`BleRuns`, `leaked`), which takes up room.  `Restart` is
any reset: variables are gone, chips stay.

**EnergySource.**  The three pins, switched off first and on a step later; history,
averages and choice as in the code, including `Aged`, which copies the first entry
over all others.  `past` is the history as it should be.

**Accounts.**  Time passes in `Tick`; `UpdateTime` moves every noted time by the difference.
`anchor`, `origin` and `charged` record from when and how much has been counted.  `timer` is
what the processor has used since the wake-up began, in units of a second.

**BleGather.**  The list of devices is a sequence, one action per callback; `radio`
is the Nordic stack: told to scan, one link at most, one procedure under way.  The answer of
`startScan()` is not looked at; a scan that did not start is one without advertisements.
Any callback may be the next, including a disconnection nobody asked for.

**Board.**  These parts meet only through the processor, none
reads another's variables, and none takes two steps of another's into account: `subject` picks the one
that runs, so that one run covers them without multiplying their states.  Its constants
are theirs, with the assumptions the code gives: sources are numbered, nobody is awake or
asleep for a whole day, there is room in the queue and for a Bluetooth device, and no two
threads or mutexes have one name.

## 3. Runs

Twelve runs; eight must pass and four show a disagreement between the code and what
its own comments, assertions or tests say.

| Run | Instance | Distinct states | Shows |
|---|---|---|---|
| `data_ring` | 10 words; blocks of 2, 3 and 5 | 7 469 | `BlocksIntact`, `BlocksDisjoint`, `ChainSound`, `InUseUntouched` |
| `data_store` | 6 words; items of 2 and 3; 2 keys; 1 action | 20 336 | `StoreSound` (list sound both ways, bytes accounted), `HooksBothWays`; implements `DataQueue` |
| `processor` | 2 slots, 2 entries, 2 measurements (one of them Bluetooth) and a report, 1 failure to start | 196 027 | `ThreadsSound`, every wake-up ends (`SleepsAgain`) |
| `reporting` | up to 2 items, with and without ack, one of them stored during the report; lost, late, duplicate acks; index wraps at 5 | 102 716 | `ReportSound`, `KeptUntilAcked`, `SendingEnds` |
| `wakeups` | 5 types of which one is off, 3 entries, 16 histories, 3 readings of address 0 | 81 804 | `RankingSound`, `ChoiceSound`, `BackOffSound` |
| `modem` | every build, either module, the code's own limits; 1 failed report | 66 096 | `ModemAsBelieved`, `OffWhenDone`, `TimeoutPutBack`, `ReportEnds` |
| `sockets` | both drivers, 2 slots, a datagram longer than what is asked for | 618 564 | `LeftAsFound`, `SlotsSound`, `CallsEnd` |
| `board` | boards with one sensor and with two; 3 sources; 2 midnights; 3 Bluetooth devices for 2 places; 2 measurements and a report for the locks | 535 963 | `ReadingsRight`, `LowPower`, `InterruptsRearmed`, `OneSourceOn`, `DayFigures`, `ChargedOnce`, `WantedHasCharacteristic`, `ReadingsAccounted`, `ScanResumes`, `LocksSound` |
| `processor_compare` | violation | | a reading hooked to an entry reused for another type |
| `reporting_wild` | violation | | the codec follows a pointer out of the contents of an item |
| `board_threshold` | violation | | the accelerometer's threshold is never written |
| `board_history` | violation | | the history of energy sources is its newest entry over and over |

Each run also checks its module's `TypeOK`.  The properties named `...Sound` are
conjunctions of named parts, each with its comment in the module.

Why the bounds are enough.  *Ring:* with ten words and three sizes every branch of
`pMemoryAlloc()` is taken, including a block that ends exactly at the end, one
that fills the gap exactly, a full ring and a refusal at the end, at the start
and in the gap.  *Store:* three items are the fewest with a middle, a head and
a tail, and three exchanges sort them; wrapping and both refusals occur.  One action can
make several items, and be reused with its item still queued, which are the cases
`HooksBothWays` is about.  *Processor:* three types on two slots and two
entries: the slots wrap round, a completed entry is reused in the same wake-up, and over
several wake-ups every history of entry states is met.  A failure to start
takes one entry away, which leaves one.  *Reporting:* the index wraps while acks are
under way; two items are what one session can leave unacknowledged for the next
and still send more.  *Wakeups:* the
histories are an empty list, lists with an unused entry and full ones in which types differ in
number, in cost, in variability, in time only, or not at all; energy is enough for
some actions or for all.  Back-off: one failure without, then 1, 2 and `MaxSkips` = 3 skips, so that
the doubling meets its limit where it does not divide it.  *Modem:* `AtTries`, `Passes`, `SimTries` and
`ReadTries` are the code's; one failed report is enough for the shutdown after
failures and the retry after it.  *Sockets:* two slots are needed for a handle to be given twice; a datagram
of three bytes read two at a time leaves one; the queue and the line hold one
beyond what is being handled; `Modulus` is the width of the unsigned
`pending`, small so that it could wrap.  *Sensors:* a board with one sensor fitted and a board with the two that interrupt: chips do not
influence each other except through the bus, the queue and the list of actions; one
reset may fall anywhere; two events fill the queue.
*Energy:* a history of three entries and a random choice every third wake-up (15 and 10 in the
code) are exceeded by the number of wake-ups.  *Accounts:* a day of four seconds and a clock to ten give two
midnights; the clock is set twice, forward by any amount or back by one.
*BLE:* more devices than places, two attempts, two readings.  *Locks:* two users
of one driver, and every kind of mutex contended for.

Bounds in guards: `MaxExtra` (acks beyond those needed), `MaxOthers` (readings stored during a
report), `MaxFailures` (threads that cannot be started), `IndexLimit`
(`INT_MAX + 1`, small so that it wraps), `AckEvery` (10 in the code), `MaxQueued`, `MaxPending` and
`MaxLine` (what the module holds and has said), `MaxPolls` (polls for a position),
`MaxRestarts`, `MaxTime`, `MaxStay` and `MaxSet` (clock), `MaxReadings` (per Bluetooth device).
`data_ring` runs with deadlock unchecked: an empty ring whose next empty word is so
near the end that it refuses every type has no step.  So does `sockets`: a deleted
driver, or one that waits for the lock a failed read has kept, has none.  All other
runs check it.

`ReportSound` and `KeptUntilAcked` except sessions in which a reading was stored between a `dataFree()` and the
`pDataNext()` after it (`crossed`): from there on the codec's cursor may be anything, as `reporting_wild`
shows.  At every other moment a reading may come.  `KeptUntilAcked` excepts in addition an item stored once the codec had come
to the end of the queue (`late`): `codecAckDataIndex()` then goes on past all that was sent and compares the index of an item that
no report has held, which is whatever the memory held.

`SendingEnds` has the exception `AckStuck`, a state in which
`codecAckDataIndex()` stands at an item that it neither frees nor passes; the run
shows that this and `crossed` are the only ways for sending not to end.

`HooksBothWays` excepts the several items of one Bluetooth action (`plural`, section 6).
`InterruptsRearmed` excepts a queue filled by what Bluetooth actions have left in it.

The properties of `sockets` hold until something recorded in `wrong` has happened:
"close", a close whose answer was lost; "size", a read that returned a length
nobody had set; "lock", a read that returned with the lock held.

`LowPower` excepts a chip of which a transfer has failed (`faulty`): what it is left
doing is the chip's affair, and the code has no second try.

### Findings

* `dataFree()` compares `gpNextData` after `*ppThis` has already become the next
  item, so the cursor stays at freed memory (`eh_data.cpp` 518-522).  On its
  own harmless; with a reading stored before the next `pDataNext()` it makes
  the codec read a pointer from other data (`reporting_wild`).
* A completed entry may be reused while its thread still uses its pointer
  (`eh_action.cpp` 402-407): its reading is hooked to another type of action
  (`processor_compare`), and the thread may abort the action that now has the entry.
* `_setInterruptThreshold()` of the LIS3DH works out the threshold, moves the register
  address on and writes only the duration (`act_lis3dh.cpp` 272-300, `board_threshold`).
* `processorAgeEnergySource()` copies forwards from the first entry
  (`eh_processor.cpp` 1353-1359, `board_history`).

### Fairness

`Processor`: weak fairness of the main thread, whose loops never block, and of
each action thread: drivers and modem calls return (they have timeouts) and the
RTOS schedules threads of one priority round robin.  `Reporting`: weak fairness
of the reporting thread, and strong fairness of `TimeOut`: both waits for acks
are loops on a timer, which runs whatever arrives.  No fairness is assumed of
the link.  `Modem`: weak fairness of the thread that reports, as every exchange
has a time-out, and of `Terminate`: a search for a network may go on until the
main thread, whose run time is limited, ends it.  `AtSockets`: weak fairness of each thread's
steps that wait for nobody but a timer; strong fairness of the two that take
the lock while the other thread comes and goes (the mutex of the RTOS is
given to those that wait in turn).  Nothing is assumed of the module.  `Locks`
(in `Board`): weak fairness of each thread, that is, a thread goes on
when it is not waiting for a mutex.  The other parts of `Board` have safety properties only.

## 4. Proofs

What is proved holds for every value of the constants under the named assumptions of the
modules, which only say what the code's own types and limits say (a size is positive, `NULL`
is not one of the things it stands in for, the interval is no longer than the limit, there are as
many report numbers as the buffer has words, what can wait for a socket fits its counter).  TLC
evaluates them in every run.

No invariant worth proving was inductive as it stands.  What each has to be
strengthened by is, for a reader of the code, the interesting part of the proof:

**DataRing** (`BlocksDisjoint`, `BlocksIntact`, `ChainSound`, `InUseUntouched`).  That a new
block lands in free space depends on
`firstFull` and `nextEmpty` delimiting what is in use, which depends on
reclaiming having followed the chain rightly, which depends on the trailing
words not having been overwritten.  The inductive invariant `IInv` is their
conjunction with `RingShape`: every block lies between `firstFull` and
`nextEmpty` on the ring, and `previousNext` is the trailing word of the newest.  The
distance of a word from `firstFull` round the ring (`Age`) turns both layouts, wrapped
or not, into one order; `Passed(b)` is then shown to be the blocks older than the
oldest block left in use (`PassedFacts`).  `AllocIInv` goes by where the block
is placed, `FreeIInv` by what is passed.

**DataStore** (`StoreSound`, `HooksBothWays`, and that it implements the bounded queue).  Every theorem about
`DataRing` holds of the queue's memory, whose steps are the allocator's: the queue's
invariant `StoreInv` starts from it.  It adds `Chained`: there *is* a sequence of addresses, without repetition,
whose elements are the items in use and whose neighbours are each other's `pNextItem` and `pPreviousItem`.
Three facts about such a sequence, one each for a new item at the
end, an item unlinked, and two neighbours exchanged, carry it through
`pDataAlloc()`, `dataFree()` and the exchanges of `sort()`; `WalkFindsList` shows that following the
pointers, as the code does, finds that sequence and ends.
An item made over the memory of a freed one must not disturb the list: that is where the ring's `InUseUntouched` is
used.  `HooksBothWays` needs nothing but that an entry which is not plural has one item on the list that names it at most,
and that this is the item it names.  `gDataSizeUsed` is shown equal to the sum over the items, so it can
neither wrap below 0 nor drift.

That the list implements the bounded queue (`QueueSpec`) needs the order as well, which the sets of `StoreInv` do not see:
`AllocatedTo`, `WithoutPlace` and `PlacesExchanged` say what becomes of every place of the list.  An exchange of `sort()`
keeps whatever was in order in order (`ExchangeKeepsOrder`), so any number of them does, and that is why a
sort that the guard timer stops is still one to the callers.  That a new item never takes more than there is
follows from the ring: blocks that share no word cover as many words as they are counted for (`CoveredWords`).

**Reporting** (`KeptUntilAcked`, `ReportSound`).  Every step of the sending thread is an operation of the queue or
leaves it alone (`StoreSteps`), so `StoreInv` holds here too.  Both are about what the codec's places mean while other
threads store, at any time but between a `dataFree()` and its `pDataNext()`.
`Placed` says where the codec is: there is a place in the list before which everything waits
for an ack and from which everything is due, and it is the codec's pointer or, between `dataFree()` and `pDataNext()`,
what the node under the cursor, freed or not, leads on to; the search for what an ack is about never passes it.  `CursorPlaced` says that the cursor, which the codec does not own, is
where the codec's pointer is.  `Numbered` counts: every report takes an item or more of what was due, so there are fewer than
the buffer has words, and fewer than there are numbers.

**Processor** (`ThreadsSound`).  An entry left outstanding is explained by a thread that could not be
started, of which there are at most `MaxFailures`, or is held by a live thread: `OutstandingFits`.
`TodoFits` says that in what is yet to be started a report comes last, and no type comes twice or again,
without which `NoAddDuringReport` is not kept, and `MainFits` that there are threads only
while the wake-up lasts, with the bus up.

**Modem** (`ModemAsBelieved`, `TimeoutPutBack`, `OffWhenDone`).  `ModemInv` adds what every place of a driver and
of `act_modem.cpp` may rely on: which driver exists (`DriverThere`), what power is on (`PowerFits`),
at what rate they talk (`SpeedKnown`) and when a profile noted as saved has been saved (`ProfileKept`).
`ModemOffWhenDone` assumes `MaxReportFailures = 1`, the default of the code; the attempt to
prove it for every limit failed, and showed why (section 6).  What holds for every limit
is `ShutMeansOff`.

**AtSockets** (`LeftAsFound`, `SlotsSound`).  `Locked` says who owns
the lock at each place of either thread and what each has saved of the time-out.  For handles,
`Alternates` describes the line: between two announcements that the module has opened a handle there is
one that it has closed it, a slot keeps a handle only while no close of it is on
its way, and an answer to a close comes last.  A slot cannot then be found by a
handle given away again.

`NothingForgotten`, the second half of `SlotsSound`, is about an empty line, and says nothing of how one gets there.
`Covered` does: for the application's socket there is, at each place of the line, a number that will at least be pending
when the line up to there has been read, and the last of them is no less than what the module
holds (`Chain`).  An announcement on the line raises it to all there is (R4) or by
what has come (N2), the answer to a read lowers it by what the module has given; a socket that is being
opened is counted from its answer on, with nothing.  Reading the head of the line drops the first of the
numbers (`ChainShrinks`), a step of the module adds one (`ChainGrows`).  Two things could spoil it, and
both are excluded by what else is in `Counted`.  An answer must not be taken off another socket than it was
given of: while the application has no socket, no answer to a read is on the line and no slot is used
(`Alone`, `Quiet`), which needs the answer to the close (`ClosedIsLast` of `Alternates`).
And `pending` must not wrap, upwards (`Room`, from `WidthAssumption`) or, on an N2, where
the subtraction is unchecked, downwards: that the module gives no more than has been announced is `Covered` again.
`WidthAssumption` bounds what the model's own bounds let wait for a socket; `nsapi_size_t` has 32 bits.

**Wakeups** (`RankingSound`, `ChoiceSound`, `BackOffSound`).  The ranking is a chain of functions on
sequences, and the proof a chain of lemmas, one for each.  `SortedFacts`: whatever the keys, exchanging neighbours
until none is out of order leaves every action in one place, because the keys and the places they had
make a total order of which `PlacesInOrder` counts the predecessors.  `FromActionsFacts`: a type is taken at
its first place, before any NULL.  `MissingFacts`: the rest is there once, so that `RankTypes` is all the types that are not
off, once, whatever memory at address 0 looks like.  `RanksByOccurrenceAndCost` is then what
`eh_action.h` promises, for a list without unused entries.
Of the filters of `processorActionList()` each keeps the order, so nothing is doubled and a report stays last
(`EmbedKeeps`), and adds nothing to what is needed (`ChoosableCost`); `AffordableFacts` says what the last of them, the
energy, lets through.  The invariant `ChoiceInv` only has to remember that the list ranked was one of `Histories`.
For the back-off, `sinceTry <= MaxSkips` is not inductive: an attempt that is
skipped for want of energy counts in `skipped`, not in `sinceTry`.  `BackOffInv`
adds that `required <= MaxSkips`, that while skips are required `sinceTry <=
skipped`, and that nothing is required after a
move until a position is tried.  That twice `required` does not exceed `MaxSkips` while twice the time
is below the limit is the lemma `Doubling`, about integer division; that the failures are counted no further than
needed (`ClockInv`) rests on its like, `Division`.

**Board** (`DayFigures`, `ChargedOnce`, `OneSourceOn`, `InterruptsRearmed`, `ReadingsRight`, `LowPower`,
`WantedHasCharacteristic`, `ReadingsAccounted`, `ScanResumes`).  A step of one part leaves the others' variables alone (`PartSteps`), so
each part has an invariant of its own: `AccountsInv` (the noted times are
not after the present, however the clock is set), `SourceInv` (at most one pin is on
at any step of the switching), `QueueInv` (an interrupt used up while asleep means that
a call is in the queue, or no room for one) and `BleInv`, by far the longest: what the list of devices
says of the device that is connected, and of the reading under way, in every state
of the radio (`DoingFits`, `LinkFits`, `StoreFits`).

Of the sensors, every operation of a driver is a set of outcomes, so its lemma says in which set of devices it ends when it
answers OK and in which when a transfer has failed on the way (`Out(P, Q)`), and the lemmas are put together as the operations
are.  The Hall sensor shows why more than `ReadingsRight` is needed: its scale is that of the compensation
parameters, and a failure part of the way through `si7210SetRange()` leaves those of two ranges mixed, or
the new ones with the old `gRange`, in a driver that counts as initialised.  What saves it is `post()`: such a
sensor is struck off what is wanted.  `Fine` therefore says of each device what is true of it whatever
has failed, what is true while `post()` has not come to it since the last reset (`"ahead"`), and what is true if it was found in order
(`"wanted"`); `SensorsInv` is that, with what the bus and the supply are at each phase.

Of the locks, `NoRingOfThreads` and `LocksGivenBack` are the two safety parts of `LocksSound`, for any number of measurements,
any drivers and any ranked list.  What a thread holds is a function of where it is in its script, so the proof
gives each script its course: what is held before each event, with every lock within `MayLock`, the order of the
mutexes.  Courses are put together as the scripts are (`OneAfterOther`, `HoldCourse`, `LoopsFollow`; for the list that the main
thread works through, which is flattened by recursion, `FlatIs` and `EveryNumber`).  The invariant `LocksInv` says that each thread
holds what its course says there, that a thread that is not running is at one end of its script, that once the threads
are joined the main thread is alone, and that the report runs only when the main thread adds no more actions.  Whoever
waits and holds something then is the main thread (action, waits for data), the report (processor, modem or
data, waits for data or action) or a measurement (its driver, waits for the bus), and nobody who holds what such
a thread waits for can wait in turn: between the main thread and the report, which take data and action in opposite orders,
because they do not do so at the same time.  The order in which the report is ranked is what this rests on (`RankedFacts`).

`PartsTyped` puts the invariants of the parts together as the `TypeOK` of `Board`.

Recursion.  Sums, walks and filters are functions defined by recursion on a number (`Total`, `Walk`,
`Only`, `FromActions`, `Affordable`, the fold of `WordsOf`).  The library's induction theorems cannot be
instantiated by the installed provers, so the proofs argue by the least counterexample
instead: `LeastNumber` states that a non-empty set of numbers has a least
element, and follows from `NatLessThanWellFounded` and `WFMin` of the library.  With it one
shows first that the function exists (`SumsExist`), then what it computes.  `EveryNumber` is the induction rule it
gives for a set in place of a predicate; that asking for the position any number of times leaves
the GNSS receiver a receiver (`GnssPolls`) rests on it.

Model-checked only:

* liveness under fairness (`SleepsAgain`, `ReportEnds`, `SendingEnds`, `CallsEnd`, of `LocksSound` that every wake-up ends) and what rests on
  `ENABLED`, which are out of the prover's reach.

## 5. Not modelled

Of the cellular drivers: TCP, DNS, authentication, power saving and CSCON settings, the
AT text.  Of `act_modem.cpp`: `modemGetTime()` beyond its setting of the clock
(`Accounts`) and the energy figures.  Of the sensors: register layouts, compensation arithmetic,
the settings of the LIS3DH's interrupt beyond its threshold, `si7210Deinit()`, which nothing calls.  Statistics other than times
per day, which are single additions.  Voltages answer as they like.
Where the cellular drivers shorten the AT time-out for one or two commands and put it back (`power_up()`, `AT+COPS?`) the
model does not follow it: `TimeoutPutBack` is about the loop of `nwk_registration()`.  That a `+UUPSDD` ends
a socket is modelled as the comment of the code has it (`UbloxATCellularInterface.cpp` 222), whose number is a profile's in the AT manual.
Start-up logging, watchdog registers, LEDs, the JSON text, the contents of items.
See the components of `PROJECT.json` for each.

## 6. Known disagreements without a run

Met while translating; the models do as the code does.

* `MAX_NUM_REPORT_FAILURES` above its default of 1 (`eh_config.h` 454-457): a report that
  fails in `modemInit()` leaves no driver and the power off, and unless the limit is reached
  `gModemOff` stays false (`eh_processor.cpp` 509, 527-533), so energy is charged for the sleep
  of a modem that is off.  `OffWhenDone` holds for the default only.
* An empty ring is never wrapped: with nothing stored `pMemoryAlloc()` looks only between the next empty word
  and the end (`eh_data.cpp` 144-154), so an item that fits the buffer may be refused for ever,
  where `pDataAlloc()` asserts at 463 that it is not (`RefusedOnlyWhenUsed` of `DataStore` does not hold).
* `codecAckDataIndex()` does not advance past an item it does not free, and tests
  `CODEC_FLAG_NEEDS_ACK` (4) where items carry `DATA_FLAG_REQUIRES_ACK` (2)
  (`eh_codec.cpp` 816-822): with one reading stored during the report it loops for ever (`AcksEnd` of `Reporting` does not hold).
* A failed `Thread::start()` or `new Thread` leaves its entry requested
  (`eh_processor.cpp` 1500-1515); once all entries are, the loop around it, which has no limit in time, never ends.
  `SleepsAgain` is checked with fewer failures than entries.
* The position is left out of a wake-up when the last fix is *older* than
  `LOCATION_FIX_MAX_AGE_SECONDS` and the device has not moved (`eh_processor.cpp`
  1160-1166); the comment above says "and the fix is recent".
* `ranker()` follows the NULL pointers of `gpRankedList` (see `ActionRank` above): until
  the action list has been filled once, history may have no influence
  on the ranking at all.  `RanksAsDocumented` is therefore stated for full lists.
* `pActionAdd()` takes the first completed entry and not the oldest
  (`eh_action.cpp` 402-407), so once the list is full the same few entries are reused
  and the rest of the history that is ranked by never changes.
* A duplicated ack is counted twice (`act_modem.cpp` 888), so the wait for acks may end early;
  nothing is lost by it (`KeptUntilAcked`).
* Of the several items of one Bluetooth action all but the last keep a pointer to an entry that does not point back.  When
  the entry is reused, freeing such an item sets the new owner's `pData` to NULL (`eh_data.cpp` 493-495) and encoding
  it reports the new owner's energy (`eh_codec.cpp` 508).  `HooksBothWays` excepts them.
* `pDataAlloc()` does not set an item's index (`eh_data.cpp` 442-457): an ack may free an item that was never sent, if it was
  stored when the codec had come to the end of the queue.  `KeptUntilAcked` excepts such items.
* `activeEnergyUsedNWH()` keeps the amount last allocated and not the total
  (`eh_processor.cpp` 357-358), so from the third measurement of a wake-up energy "yet to be allocated" is allocated again.  `ChargedOnce` is therefore about the sensors' own time only.
* The time of the last Bluetooth measurement is not moved with the clock, unlike those
  of the other sensors (`eh_processor.cpp` 312-318).
* `getPosition()` takes any UBX message for a position, and the rest of a
  buffer for the end of a short one (`act_zoem8.cpp` 413-418).
* `getPressure()` answers OK although a read failed (`act_bme280.cpp` 331).
* A registration that was refused while another kind of status still
  says registered is not noticed (`UbloxCellularBase.cpp` 956), as the answer to `+CEREG?` is handled after
  the status has been looked at.
* A close whose OK is lost leaves its slot with a handle the module gives away
  again (`UbloxATCellularInterface.cpp` 489).
* The SARA-N2 driver's `socket_recvfrom()` returns for want of memory with the lock held and the short
  time-out set (`UbloxATCellularInterfaceN2xx.cpp` 449), and `receivefrom()` returns an unset size after a bare OK, which may be
  any number and is copied with as it is (456).
* `bleInit()`'s parameter hides the global device name prefix, which stays NULL
  (`ble_data_gather.cpp` 1207), and the regular read is queued again at
  each run and never cancelled (1191), so that the queue of wake-ups, which it shares, fills up.
* `startScan()` may fail without anybody asking (`ble_data_gather.cpp` 1024, 1187), and `clearBleDeviceList()`
  of an empty list reads the address before the first (592-593).

## 7. Plan

Modelled and checked: everything listed in section 2; proved: every safety property
of the passing runs, and the refinement of `DataQueue` by `DataStore`.  Nothing is left of the plan.
