------------------------------ MODULE BleGather ------------------------------
(***************************************************************************)
(* Readings from Bluetooth devices: ble_data_gather.cpp, and the action    *)
(* that runs it, doMeasureBle() and checkBleProgress() of eh_processor.cpp.*)
(* Everything is a callback, called by the action's thread while it        *)
(* dispatches the event queue; the radio, with one link at most, goes on   *)
(* in the meantime: a link may end between any two callbacks.              *)
(***************************************************************************)
EXTENDS Integers, Sequences

CONSTANTS
    Peer,           \* the addresses about, of either type
    MaxDevices,     \* MAX_NUM_BLE_DEVICES
    MaxDiscovery,   \* BLE_MAX_DISCOVERY_ATTEMPTS
    MaxReadings,    \* bound: readings from a device in a run
    NULL

VARIABLES
    bleAt,   \* "off", "starting" (bleRun(), until bleInitComplete()), "running"
             \* (the queue is dispatched) or "waiting" (for the rest of the time)
    gBleDeviceList,
    gNextBleDeviceToRead,
    radio,   \* the stack: whether a scan has been asked for (the code does
             \* not look at startScan()'s answer, and a scan that did not start
             \* is one in which no advertisement comes), its link, what it does
             \* there
    taken,   \* history: readings of each device that were stored in this run
    handed   \* history: those passed on by checkBleProgress()

bleVars == <<bleAt, gBleDeviceList, gNextBleDeviceToRead, radio, taken, handed>>

NoRadio == [scanning |-> FALSE, link |-> "none", peer |-> NULL, doing |-> "nothing"]
Scanning == [NoRadio EXCEPT !.scanning = TRUE]

\* pAddBleDeviceToList(): attempts up to where they are compared, readings
\* by their number.
NewDevice(p) ==
    [peer |-> p, state |-> "unknown", connection |-> "disconnected", attempts |-> 0, found |-> FALSE,
     nameChar |-> FALSE, wantedChar |-> FALSE, named |-> FALSE, data |-> <<>>]

TypeOK ==
    /\ bleAt \in {"off", "starting", "running", "waiting"}
    /\ Len(gBleDeviceList) <= MaxDevices
    /\ \A d \in {gBleDeviceList[i] : i \in DOMAIN gBleDeviceList} :
          /\ d.peer \in Peer
          /\ d.state \in {"unknown", "discovered", "not wanted", "wanted"}
          /\ d.connection \in {"disconnected", "connecting", "connected"}
          /\ d.attempts \in 0 .. MaxDiscovery
    /\ gNextBleDeviceToRead \in 0 .. MaxDevices - 1
    /\ radio.link \in {"none", "connecting", "connected"}
    /\ radio.peer \in Peer \cup {NULL}
    /\ radio.doing \in {"nothing", "discovering", "name", "value"}
    /\ taken \in [Peer -> 0 .. MaxReadings] /\ handed \in [Peer -> 0 .. MaxReadings]

Init ==
    /\ bleAt = "off"
    /\ gBleDeviceList = <<>> /\ gNextBleDeviceToRead = 0
    /\ radio = NoRadio
    /\ taken = [p \in Peer |-> 0] /\ handed = [p \in Peer |-> 0]

\* The pFind...InList() functions, as the places they find.
Places == DOMAIN gBleDeviceList
ByAddress(p) == {i \in Places : gBleDeviceList[i].peer = p}
ByConnection == {i \in ByAddress(radio.peer) : gBleDeviceList[i].connection = "connected"}
NotDisconnected == {i \in Places : gBleDeviceList[i].connection # "disconnected"}

\* The list with the devices at some places changed.
Changed(places, Op(_)) ==
    [i \in Places |-> IF i \in places THEN Op(gBleDeviceList[i]) ELSE gBleDeviceList[i]]

-----------------------------------------------------------------------------
\* bleInit(), and bleRun() up to the dispatching.
Begin ==
    /\ bleAt = "off" /\ bleAt' = "starting"
    /\ gBleDeviceList' = <<>> /\ gNextBleDeviceToRead' = 0
    /\ UNCHANGED <<radio, taken, handed>>

\* bleInitComplete(): after an error nothing more is called.
InitComplete ==
    /\ bleAt = "starting"
    /\ \/ bleAt' = "running" /\ radio' = Scanning
       \/ bleAt' = "waiting" /\ UNCHANGED radio
    /\ UNCHANGED <<gBleDeviceList, gNextBleDeviceToRead, taken, handed>>

\* connect() ends the scan; it fails if there is a link, or for other reasons.
ConnectTo(p) == radio' = [NoRadio EXCEPT !.link = "connecting", !.peer = p]

\* advertisementCallback(), for a discoverable device.
Advertisement(p) ==
    /\ bleAt = "running" /\ radio.scanning
    /\ ByAddress(p) # {} \/ Len(gBleDeviceList) < MaxDevices
    /\ LET list == IF ByAddress(p) # {} THEN gBleDeviceList ELSE Append(gBleDeviceList, NewDevice(p))
           at == CHOOSE i \in DOMAIN list : list[i].peer = p
           tries == IF list[at].attempts < MaxDiscovery THEN list[at].attempts + 1 ELSE MaxDiscovery
       IN \/ /\ list[at].state = "unknown"
             /\ gBleDeviceList' = [list EXCEPT ![at].connection = "connecting", ![at].attempts = tries]
             /\ ConnectTo(p)
          \/ gBleDeviceList' = list /\ UNCHANGED radio
    /\ UNCHANGED <<bleAt, gNextBleDeviceToRead, taken, handed>>

\* connectionCallback(): what it starts may fail to start, the link stays.
Connection ==
    /\ bleAt = "running" /\ radio.link = "connecting"
    /\ LET known == ByAddress(radio.peer)
           wanted == {i \in known : gBleDeviceList[i].state = "wanted"}
           starts == IF known = {} THEN "nothing" ELSE IF wanted = {} THEN "discovering" ELSE "value"
       IN /\ gBleDeviceList' =
                Changed(known, LAMBDA d : [d EXCEPT !.connection = "connected",
                                                    !.found = IF d.state = "wanted" THEN @ ELSE FALSE])
          /\ \E doing \in {starts, "nothing"} : radio' = [radio EXCEPT !.link = "connected", !.doing = doing]
    /\ UNCHANGED <<bleAt, gNextBleDeviceToRead, taken, handed>>

\* characteristicDiscoveryCallback(): the copy is NULL if there is no memory.
Characteristic ==
    /\ bleAt = "running" /\ radio.doing = "discovering"
    /\ \E copied \in BOOLEAN, kind \in {"name", "wanted", "other"} :
          gBleDeviceList' =
              Changed(ByConnection,
                      LAMBDA d : [d EXCEPT !.found = TRUE,
                                           !.nameChar = IF kind = "name" THEN copied ELSE @,
                                           !.wantedChar = IF kind = "wanted" THEN copied ELSE @])
    /\ UNCHANGED <<bleAt, gNextBleDeviceToRead, radio, taken, handed>>

\* Mutant: the name is read whether or not the device has what is wanted.
JudgedByName(d) ==
    IF ~d.found THEN [d EXCEPT !.state = "not wanted"]
    ELSE IF d.nameChar THEN [d EXCEPT !.state = "discovered"]
    ELSE [d EXCEPT !.state = "not wanted", !.wantedChar = FALSE]

\* What discoveryTerminationCallback() makes of a device.
Judged(d) ==
    IF ~d.found THEN [d EXCEPT !.state = "not wanted"]
    ELSE IF d.nameChar /\ d.wantedChar THEN [d EXCEPT !.state = "discovered"]
    ELSE [d EXCEPT !.state = "not wanted", !.nameChar = FALSE, !.wantedChar = FALSE]

\* It asks for the name, if the device is of use, and for the link to be
\* cut: either may come first (Disconnection).
DiscoveryTermination ==
    /\ bleAt = "running" /\ radio.doing = "discovering"
    /\ gBleDeviceList' = Changed(ByConnection, Judged)
    /\ LET reads == \E i \in ByConnection : Judged(gBleDeviceList[i]).state = "discovered"
       IN \E doing \in {"nothing"} \cup IF reads THEN {"name"} ELSE {} :
             radio' = [radio EXCEPT !.doing = doing]
    /\ UNCHANGED <<bleAt, gNextBleDeviceToRead, taken, handed>>

\* checkDeviceNameCallback(): bleInit()'s parameter hides the global prefix,
\* which stays NULL; whether a name begins with what is at address 0 is not
\* defined.  There may be no memory for the name.
CheckDeviceName ==
    /\ bleAt = "running" /\ radio.doing = "name"
    /\ \E matches, copied \in BOOLEAN :
          gBleDeviceList' =
              Changed(ByConnection,
                      LAMBDA d : IF matches
                                 THEN [d EXCEPT !.state = "wanted", !.named = copied, !.nameChar = FALSE]
                                 ELSE [d EXCEPT !.state = "not wanted"])
    /\ radio' = [radio EXCEPT !.doing = "nothing"]
    /\ UNCHANGED <<bleAt, gNextBleDeviceToRead, taken, handed>>

\* readWantedValueCallback() and addBleData(): nothing read, no memory, or
\* one more reading at the end of the device's list.
ReadWantedValue ==
    /\ bleAt = "running" /\ radio.doing = "value"
    /\ \/ /\ ByConnection # {}
          /\ taken[radio.peer] < MaxReadings
          /\ taken' = [taken EXCEPT ![radio.peer] = @ + 1]
          /\ gBleDeviceList' =
                Changed(ByConnection, LAMBDA d : [d EXCEPT !.data = Append(@, taken[radio.peer] + 1)])
       \/ UNCHANGED <<gBleDeviceList, taken>>
    /\ radio' = [radio EXCEPT !.doing = "nothing"]
    /\ UNCHANGED <<bleAt, gNextBleDeviceToRead, handed>>

\* actOnDisconnect(), for the device found if there is one.
ActOnDisconnect(places) ==
    /\ gBleDeviceList' =
          Changed(places,
                  LAMBDA d : [d EXCEPT !.connection = "disconnected",
                                       !.state = IF /\ d.connection = "connecting"
                                                    /\ d.state \in {"unknown", "discovered"}
                                                    /\ d.attempts >= MaxDiscovery
                                                 THEN "not wanted" ELSE @])
    /\ radio' = IF places # {} THEN Scanning ELSE NoRadio

\* disconnectionCallback(): asked for or not.
Disconnection ==
    /\ bleAt = "running" /\ radio.link = "connected"
    /\ ActOnDisconnect(ByConnection)
    /\ UNCHANGED <<bleAt, gNextBleDeviceToRead, taken, handed>>

\* Mutant: the device is looked for by its connection.
TimeoutByConnection ==
    /\ bleAt = "running" /\ radio.link = "connecting"
    /\ ActOnDisconnect(ByConnection)
    /\ UNCHANGED <<bleAt, gNextBleDeviceToRead, taken, handed>>

\* timeoutCallback(): the first device that is not disconnected.
Timeout ==
    /\ bleAt = "running" /\ radio.link = "connecting"
    /\ ActOnDisconnect({i \in NotDisconnected : \A j \in NotDisconnected : i <= j})
    /\ UNCHANGED <<bleAt, gNextBleDeviceToRead, taken, handed>>

\* getBleReadingsCallback(): in turn from the next, the first wanted device
\* for which connect() succeeds; with a link it fails for all of them.
GetBleReadings ==
    /\ bleAt = "running"
    /\ \/ \E i \in Places :
             /\ radio.link = "none" /\ gBleDeviceList[i].state = "wanted"
             /\ gBleDeviceList' = Changed({i}, LAMBDA d : [d EXCEPT !.connection = "connecting"])
             /\ ConnectTo(gBleDeviceList[i].peer)
       \/ UNCHANGED <<gBleDeviceList, radio>>
    /\ gNextBleDeviceToRead' =
          IF gNextBleDeviceToRead + 1 >= Len(gBleDeviceList) THEN 0 ELSE gNextBleDeviceToRead + 1
    /\ UNCHANGED <<bleAt, taken, handed>>

-----------------------------------------------------------------------------
\* Mutant: an item goes although there was no memory for its copy.
LeftAnyway(d, n) == SubSeq(d.data, n + 2, Len(d.data))

\* What pBleGetFirstDataItem(.., true), called until it answers NULL, leaves
\* after n items; NULL may be for want of memory.
Left(d, n) == SubSeq(d.data, n + 1, Len(d.data))

\* checkBleProgress(): only devices with a name can be asked for.
CheckProgress ==
    /\ bleAt = "running"
    /\ \E n \in [Places -> 0 .. MaxReadings] :
          /\ \A i \in Places :
                n[i] <= IF gBleDeviceList[i].state = "wanted" /\ gBleDeviceList[i].named
                        THEN Len(gBleDeviceList[i].data) ELSE 0
          /\ gBleDeviceList' =
                [i \in Places |-> IF gBleDeviceList[i].state = "wanted" /\ gBleDeviceList[i].named
                                  THEN [gBleDeviceList[i] EXCEPT !.data = Left(gBleDeviceList[i], n[i])]
                                  ELSE gBleDeviceList[i]]
          /\ handed' = [p \in Peer |-> handed[p] + IF ByAddress(p) = {} THEN 0
                                                   ELSE n[CHOOSE i \in ByAddress(p) : TRUE]]
    /\ UNCHANGED <<bleAt, gNextBleDeviceToRead, radio, taken>>

\* The end of bleRun()'s dispatching; what is left of the time is waited
\* for, or until the action is told to stop.
EndOfRun ==
    /\ bleAt = "running" /\ bleAt' = "waiting"
    /\ UNCHANGED <<gBleDeviceList, gNextBleDeviceToRead, radio, taken, handed>>

\* bleDeinit(): the list goes, with the readings not asked for.  With no
\* device left clearBleDeviceList() reads the address before the first; the
\* list stays empty, whatever that is.
Deinit ==
    /\ bleAt = "waiting" /\ bleAt' = "off"
    /\ gBleDeviceList' = <<>> /\ radio' = NoRadio
    /\ taken' = [p \in Peer |-> 0] /\ handed' = [p \in Peer |-> 0]
    /\ UNCHANGED gNextBleDeviceToRead

Callback ==
    \/ Connection \/ Characteristic \/ DiscoveryTermination \/ CheckDeviceName
    \/ ReadWantedValue \/ Disconnection \/ Timeout \/ GetBleReadings \/ CheckProgress
    \/ \E p \in Peer : Advertisement(p)

Next == Begin \/ InitComplete \/ Callback \/ EndOfRun \/ Deinit

Spec == Init /\ [][Next]_bleVars

-----------------------------------------------------------------------------
\* MBED_ASSERT(pBleDevice->pWantedCharacteristic != NULL): a device that is
\* wanted has what is wanted of it, over links lost half-way through a
\* discovery and copies there was no memory for.
WantedHasCharacteristic ==
    \A i \in Places : gBleDeviceList[i].state = "wanted" => gBleDeviceList[i].wantedChar

\* No reading is lost, repeated or out of order while the run lasts: what was
\* stored of a device is what was handed on, then what is in its list,
\* though a copy may fail half-way through the list.
ReadingsAccounted ==
    \A i \in Places :
        LET d == gBleDeviceList[i]
        IN d.data = [n \in 1 .. taken[d.peer] - handed[d.peer] |-> handed[d.peer] + n]

\* The radio is never left with nothing to do: without a link it has been
\* told to scan, however the last link, or the attempt at one, came to its
\* end, and the list knows the link that there is.  That it does scan is for
\* the stack: nobody asks it.
ScanResumes ==
    bleAt = "running" =>
        /\ radio.link = "none" <=> radio.scanning
        /\ \A i \in Places :
              gBleDeviceList[i].connection
                = IF gBleDeviceList[i].peer = radio.peer /\ radio.link # "none" THEN radio.link ELSE "disconnected"
=============================================================================
