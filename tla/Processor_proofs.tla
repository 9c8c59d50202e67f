-------------------------- MODULE Processor_proofs --------------------------
(***************************************************************************)
(* Threads and entries of the action list are those that the wake-up       *)
(* accounts for, for any number of slots, entries and action types, and    *)
(* any number of threads that could not be started.                        *)
(***************************************************************************)
EXTENDS Processor, FiniteSetTheorems, WellFoundedInduction, TLAPS

\* A set of numbers that is not empty has a least one.
LEMMA LeastNumber ==
    ASSUME NEW T \in SUBSET Nat, T # {}
    PROVE  \E x \in T : \A y \in T : x <= y
<1> DEFINE R == {ss \in Nat \X Nat : ss[1] < ss[2]}
<1>1. IsWellFoundedOn(R, Nat)
  BY NatLessThanWellFounded DEF OpToRel
<1>2. \A x, y \in Nat : <<y, x>> \in R <=> y < x
  OBVIOUS
<1> HIDE DEF R
<1>3. PICK x \in T : \A y \in T : ~ (<<y, x>> \in R)
  BY <1>1, WFMin
<1>4. ASSUME NEW y \in T PROVE x <= y
  <2>1. x \in Nat /\ y \in Nat /\ ~ (y < x)
    BY <1>2, <1>3
  <2> QED
    BY <2>1
<1> QED
  BY <1>4

-----------------------------------------------------------------------------
(* The action list *)

Entries == entry \in [Actions!Slot -> Actions!Entry]

\* pActionAdd() takes an entry of the list, and none that is requested.
LEMMA ChosenIsFree ==
    ASSUME Entries, Actions!Chosen # NULL
    PROVE  Actions!Chosen \in Actions!Slot \ Actions!Outstanding
<1>1. ASSUME NEW S \in SUBSET Actions!Slot, S # {} PROVE Actions!First(S) \in S
  <2>1. S \in SUBSET Nat
    BY TaskAssumption DEF Actions!Slot
  <2>2. \E s \in S : \A r \in S : s <= r
    BY <1>1, <2>1, LeastNumber
  <2> QED
    BY <2>2 DEF Actions!First
<1>2. CASE Actions!Disused # {}
  <2>1. Actions!Disused \subseteq Actions!Slot \ Actions!Outstanding
    BY DEF Actions!Disused, Actions!Outstanding
  <2> QED
    BY <1>1, <1>2, <2>1 DEF Actions!Chosen
<1>3. CASE Actions!Disused = {} /\ Actions!Finished # {}
  <2>1. Actions!Finished \subseteq Actions!Slot \ Actions!Outstanding
    BY DEF Actions!Finished, Actions!Outstanding
  <2> QED
    BY <1>1, <1>3, <2>1 DEF Actions!Chosen
<1> QED
  BY <1>2, <1>3 DEF Actions!Chosen

LEMMA AddFacts ==
    ASSUME Entries, NEW t \in ActionType, Actions!Add(t)
    PROVE  /\ Entries' /\ Actions!Chosen \in Actions!Slot
           /\ Actions!Outstanding' = Actions!Outstanding \cup {Actions!Chosen}
<1>1. Actions!Chosen \in Actions!Slot
  BY ChosenIsFree DEF Actions!Add
<1> DEFINE s == Actions!Chosen
           new == [type |-> t, state |-> "REQUESTED", data |-> NULL]
<1>2. new \in Actions!Entry /\ new.state = "REQUESTED"
  BY DEF Actions!Entry, Actions!State
<1>3. entry' = [entry EXCEPT ![s] = new]
  BY DEF Actions!Add
<1> HIDE DEF s, new
<1>4. s \in Actions!Slot
  BY <1>1 DEF s
<1>5. Entries'
  BY <1>2, <1>3, <1>4 DEF Entries
<1>6. Actions!Outstanding' = Actions!Outstanding \cup {s}
  BY <1>2, <1>3, <1>4 DEF Entries, Actions!Outstanding
<1> QED
  BY <1>1, <1>5, <1>6 DEF s

\* An outcome is recorded: the entry is not outstanding any more.
LEMMA MarkFacts ==
    ASSUME Entries, NEW s \in Actions!Slot, NEW state \in Actions!State \ {"REQUESTED"}, Actions!Mark(s, state)
    PROVE  /\ Entries'
           /\ Actions!Outstanding' = Actions!Outstanding \ {s}
<1> DEFINE new == [entry[s] EXCEPT !.state = state]
<1>1. entry[s] \in Actions!Entry
  BY DEF Entries
<1>2. new \in Actions!Entry /\ new.state = state
  BY <1>1 DEF Actions!Entry
<1>3. entry' = [entry EXCEPT ![s] = new]
  BY DEF Actions!Mark
<1> HIDE DEF new
<1> QED
  BY <1>2, <1>3 DEF Entries, Actions!Outstanding

-----------------------------------------------------------------------------
(* What the main thread has still to start *)

ReportLast(l) == \A i \in DOMAIN l : l[i] \in Report => i = Len(l)
AllDifferent(l) == \A i, j \in DOMAIN l : i # j => l[i] # l[j]

LEMMA RankedFacts ==
    ASSUME NEW l \in RankedLists
    PROVE  l \in Seq(ActionType) /\ ReportLast(l) /\ AllDifferent(l)
<1>1. ASSUME NEW M \in SUBSET Measure, NEW m \in SetToSeqs(M)
      PROVE  /\ m \in Seq(M) /\ AllDifferent(m)
             /\ \A i \in DOMAIN m : m[i] \in Measure
  <2>1. Cardinality(M) \in Nat
    BY TypeAssumption, FS_Subset, FS_CardinalityType
  <2>2. m \in [1 .. Cardinality(M) -> M] /\ \A i, j \in 1 .. Cardinality(M) : i # j => m[i] # m[j]
    BY DEF SetToSeqs
  <2> QED
    BY <2>1, <2>2 DEF AllDifferent
<1>2. ASSUME NEW m \in Measurements
      PROVE  /\ m \in Seq(ActionType) /\ AllDifferent(m)
             /\ \A i \in DOMAIN m : m[i] \in Measure
  <2>1. PICK M \in SUBSET Measure : m \in SetToSeqs(M)
    BY DEF Measurements
  <2>2. m \in Seq(M) /\ AllDifferent(m) /\ \A i \in DOMAIN m : m[i] \in Measure
    BY <1>1, <2>1
  <2> QED
    BY <2>2 DEF ActionType
<1>3. CASE l \in Measurements
  BY <1>2, <1>3, TypeAssumption DEF ReportLast
<1>4. CASE \E m \in Measurements, r \in Report : l = m \o <<r>>
  <2>1. PICK m \in Measurements, r \in Report : l = m \o <<r>>
    BY <1>4
  <2>2. m \in Seq(ActionType) /\ AllDifferent(m) /\ \A i \in DOMAIN m : m[i] \in Measure
    BY <1>2
  <2>3. m \in Seq(ActionType) /\ r \in ActionType
    BY <2>2 DEF ActionType
  <2>4. /\ l \in Seq(ActionType) /\ Len(l) = Len(m) + 1 /\ DOMAIN l = 1 .. Len(m) + 1
        /\ l[Len(m) + 1] = r /\ \A i \in 1 .. Len(m) : l[i] = m[i]
    BY <2>1, <2>3
  <2>5. DOMAIN m = 1 .. Len(m) /\ Len(m) \in Nat
    BY <2>3
  <2>6. \A i \in DOMAIN l : i # Len(m) + 1 => i \in DOMAIN m /\ l[i] = m[i] /\ l[i] \in Measure
    BY <2>2, <2>4, <2>5
  <2>7. ReportLast(l)
    BY <2>4, <2>6, TypeAssumption DEF ReportLast
  <2>8. AllDifferent(l)
    BY <2>2, <2>4, <2>6, TypeAssumption DEF AllDifferent
  <2> QED
    BY <2>4, <2>7, <2>8
<1>5. ASSUME l \notin Measurements PROVE \E m \in Measurements, r \in Report : l = m \o <<r>>
  <2>1. l \in UNION {{m \o <<r>> : m \in Measurements} : r \in Report}
    BY <1>5 DEF RankedLists
  <2> QED
    BY <2>1
<1> QED
  BY <1>3, <1>4, <1>5

\* One type is taken off the front.
LEMMA TailFacts ==
    ASSUME NEW l \in Seq(ActionType), l # <<>>, ReportLast(l), AllDifferent(l)
    PROVE  /\ Head(l) \in ActionType /\ Tail(l) \in Seq(ActionType)
           /\ ReportLast(Tail(l)) /\ AllDifferent(Tail(l))
           /\ Head(l) \in Report => Tail(l) = <<>>
           /\ \A i \in DOMAIN Tail(l) : Tail(l)[i] # Head(l) /\ \E j \in DOMAIN l : Tail(l)[i] = l[j]
<1>1. /\ Len(l) \in Nat /\ Len(l) > 0 /\ Head(l) = l[1] /\ Tail(l) \in Seq(ActionType)
      /\ Len(Tail(l)) = Len(l) - 1 /\ DOMAIN l = 1 .. Len(l) /\ DOMAIN Tail(l) = 1 .. Len(l) - 1
      /\ \A i \in 1 .. Len(l) - 1 : Tail(l)[i] = l[i + 1]
  OBVIOUS
<1>2. 1 \in DOMAIN l /\ l[1] \in ActionType /\ \A i \in DOMAIN Tail(l) : i + 1 \in DOMAIN l /\ i + 1 # 1
  BY <1>1
<1>3. ReportLast(Tail(l))
  BY <1>1, <1>2 DEF ReportLast
<1>4. AllDifferent(Tail(l))
  BY <1>1, <1>2 DEF AllDifferent
<1>5. Head(l) \in Report => Tail(l) = <<>>
  BY <1>1, <1>2 DEF ReportLast
<1>6. \A i \in DOMAIN Tail(l) : Tail(l)[i] # Head(l) /\ \E j \in DOMAIN l : Tail(l)[i] = l[j]
  BY <1>1, <1>2 DEF AllDifferent
<1> QED
  BY <1>1, <1>2, <1>3, <1>4, <1>5, <1>6

-----------------------------------------------------------------------------
(* The inductive invariant *)

\* The slots of the threads that are still at work: each of them sees to it
\* that its entry does not stay requested.
Held == {thread[k].slot : k \in Running}

\* What is outstanding is held by a thread, or is what was left of one that
\* could not be started.
OutstandingFits ==
    \E refused \in SUBSET Actions!Slot :
        Cardinality(refused) <= failures /\ Actions!Outstanding \subseteq refused \cup Held

\* What is still to be started is none of what has been.
TodoFits ==
    /\ ReportLast(todo) /\ AllDifferent(todo)
    /\ \A k \in Live : \A i \in DOMAIN todo : todo[i] # thread[k].want

\* There are threads only while the wake-up lasts, with the bus up.
MainFits ==
    /\ main # "starting" => todo = <<>>
    /\ main = "asleep" => Live = {}
    /\ Live # {} => i2c

ProcessorInv ==
    /\ TypeOK /\ MainFits /\ TodoFits /\ OutstandingFits
    /\ NoAddDuringReport /\ StartedOnce

LEMMA InvIsSound == ProcessorInv => ThreadsSound
<1> SUFFICES ASSUME ProcessorInv PROVE ThreadsSound
  OBVIOUS
<1>1. OutstandingExplained
  <2> SUFFICES ASSUME main = "asleep" PROVE Cardinality(Actions!Outstanding) <= failures
    BY DEF OutstandingExplained
  <2>1. Held = {}
    BY DEF ProcessorInv, MainFits, Held, Running
  <2>2. PICK refused \in SUBSET Actions!Slot :
           Cardinality(refused) <= failures /\ Actions!Outstanding \subseteq refused
    BY <2>1 DEF ProcessorInv, OutstandingFits
  <2>3. IsFiniteSet(refused)
    <3>1. IsFiniteSet(Actions!Slot)
      <4>1. 1 \in Int /\ NumActions \in Int
        BY TaskAssumption
      <4> QED
        BY <4>1, FS_Interval DEF Actions!Slot
    <3> QED
      BY <3>1, FS_Subset
  <2>4. /\ Cardinality(Actions!Outstanding) <= Cardinality(refused)
        /\ Cardinality(Actions!Outstanding) \in Nat /\ Cardinality(refused) \in Nat
    BY <2>2, <2>3, FS_Subset, FS_CardinalityType
  <2> QED
    BY <2>2, <2>4, FailAssumption DEF ProcessorInv, TypeOK
<1>2. NoStragglers
  BY DEF ProcessorInv, MainFits, NoStragglers
<1> QED
  BY <1>1, <1>2 DEF ThreadsSound, ProcessorInv

\* Threads that have ended are taken off the list; nothing else changes.
LEMMA ReapedFacts ==
    ASSUME NEW th \in [Task -> {NULL} \cup Thread]
    PROVE  /\ Reaped(th) \in [Task -> {NULL} \cup Thread]
           /\ \A k \in Task : Reaped(th)[k] # NULL <=> th[k] # NULL /\ th[k].at # "ended"
           /\ \A k \in Task : Reaped(th)[k] # NULL => Reaped(th)[k] = th[k]
BY DEF Reaped

-----------------------------------------------------------------------------
(* Threads *)

\* What a thread does to the invariant: it stays what it was started for,
\* requests nothing, and does not end as long as its entry is requested.
LEMMA ThreadKeeps ==
    ASSUME ProcessorInv, NEW k \in Running, NEW new \in Thread, OnlyThreads,
           thread' = [thread EXCEPT ![k] = new],
           new.slot = thread[k].slot, new.want = thread[k].want,
           Entries', Actions!Outstanding' \subseteq Actions!Outstanding,
           new.at = "ended" => thread[k].slot \notin Actions!Outstanding'
    PROVE  ProcessorInv'
<1> USE NullAssumption DEF ProcessorInv
<1>1. k \in Task /\ k \in Live /\ thread[k] \in Thread /\ thread[k].at # "ended"
  BY DEF Running, Ended, Live, TypeOK
<1>2. thread' \in [Task -> {NULL} \cup Thread] /\ thread'[k] = new
      /\ \A l \in Task : l # k => thread'[l] = thread[l]
  BY <1>1 DEF TypeOK
<1>3. Live' = Live
  BY <1>1, <1>2 DEF Live
<1>4. UNCHANGED <<main, todo, taskIndex, i2c, failures>>
  BY DEF OnlyThreads
<1>5. \A l \in Live : thread'[l].want = thread[l].want /\ thread'[l].slot = thread[l].slot
  BY <1>1, <1>2 DEF Live
<1>6. Running' = IF new.at = "ended" THEN Running \ {k} ELSE Running
  BY <1>1, <1>2, <1>3 DEF Running, Ended, Live
<1>7. TypeOK'
  BY <1>2, <1>4 DEF TypeOK, Entries
<1>8. MainFits'
  BY <1>3, <1>4 DEF MainFits
<1>9. TodoFits'
  BY <1>3, <1>4, <1>5 DEF TodoFits
<1>10. NoAddDuringReport' /\ StartedOnce'
  <2>1. NoAddDuringReport'
    BY <1>4, <1>5, <1>6 DEF NoAddDuringReport, Running
  <2>2. StartedOnce'
    BY <1>3, <1>5 DEF StartedOnce
  <2> QED
    BY <2>1, <2>2
<1>11. OutstandingFits'
  <2>1. PICK refused \in SUBSET Actions!Slot :
           Cardinality(refused) <= failures /\ Actions!Outstanding \subseteq refused \cup Held
    BY DEF OutstandingFits
  <2>2. Actions!Outstanding' \subseteq refused \cup Held'
    <3> SUFFICES ASSUME NEW s \in Actions!Outstanding', s \notin refused PROVE s \in Held'
      OBVIOUS
    <3>1. s \in Held
      BY <2>1
    <3>2. PICK l \in Running : thread[l].slot = s
      BY <3>1 DEF Held
    <3>3. l \in Running' /\ thread'[l].slot = s
      BY <1>5, <1>6, <3>2 DEF Running
    <3> QED
      BY <3>3 DEF Held
  <2> QED
    BY <1>4, <2>1, <2>2 DEF OutstandingFits, Actions!Slot
<1> QED
  BY <1>7, <1>8, <1>9, <1>10, <1>11

LEMMA ThreadStepKeeps ==
    ASSUME ProcessorInv, NEW k \in Task, ThreadStep(k)
    PROVE  ProcessorInv'
<1> USE NullAssumption
<1>1. k \in Running /\ thread[k] \in Thread /\ thread[k].slot \in Actions!Slot /\ Entries
      /\ thread[k].want \in ActionType
  <2>1. k \in Live /\ thread[k].at # "ended"
    BY DEF ThreadStep, Signalled, Choose, InitDriver, StoreBle, Read, Store, Connect, Send, Finish, Abort, At
  <2>2. thread[k] \in Thread
    BY <2>1 DEF ProcessorInv, TypeOK, Live
  <2> QED
    BY <2>1, <2>2 DEF Running, Ended, ProcessorInv, TypeOK, Entries, Thread
<1> DEFINE old == thread[k]
<1>2. ASSUME NEW place \in {"initialised", "read", "connected", "finishing", "ended", "aborting"},
             NEW ran \in BOOLEAN, thread' = [thread EXCEPT ![k] = [old EXCEPT !.at = place, !.ran = ran]],
             OnlyThreads, Entries', Actions!Outstanding' \subseteq Actions!Outstanding,
             place = "ended" => old.slot \notin Actions!Outstanding'
      PROVE  ProcessorInv'
  <2> DEFINE new == [old EXCEPT !.at = place, !.ran = ran]
  <2>1. new \in Thread /\ new.slot = old.slot /\ new.want = old.want /\ new.at = place
    BY <1>1 DEF Thread
  <2> HIDE DEF new
  <2>2. thread' = [thread EXCEPT ![k] = new]
    BY <1>2 DEF new
  <2> QED
    BY <1>1, <1>2, <2>1, <2>2, ThreadKeeps
<1>3. ASSUME NEW place \in {"initialised", "read", "connected", "finishing", "ended", "aborting"}, Goto(k, place)
      PROVE  thread' = [thread EXCEPT ![k] = [old EXCEPT !.at = place, !.ran = old.ran]]
  BY <1>1, <1>3 DEF Goto, Thread
<1>4. old.ran \in BOOLEAN
  BY <1>1 DEF Thread
<1>5. UNCHANGED entry => Entries' /\ Actions!Outstanding' = Actions!Outstanding
  BY <1>1 DEF Entries, Actions!Outstanding
<1>15. ASSUME Fail(k), OnlyThreads
       PROVE  ProcessorInv'
  <2>1. Entries' /\ Actions!Outstanding' \subseteq Actions!Outstanding
    BY <1>1, <1>15, MarkFacts DEF Fail, Actions!State
  <2>2. thread' = [thread EXCEPT ![k] = [old EXCEPT !.at = "finishing", !.ran = TRUE]]
    BY <1>15 DEF Fail
  <2> QED
    BY <1>2, <1>15, <2>1, <2>2
<1>6. CASE Signalled(k)
  <2>1. CASE Fail(k)
    BY <1>6, <1>15, <2>1 DEF Signalled
  <2>2. CASE UNCHANGED entry /\ thread' = [thread EXCEPT ![k].at = "finishing", ![k].signal = FALSE]
    <3> DEFINE new == [old EXCEPT !.at = "finishing", !.signal = FALSE]
    <3>1. new \in Thread /\ new.slot = old.slot /\ new.want = old.want /\ new.at = "finishing"
      BY <1>1 DEF Thread
    <3>2. thread' = [thread EXCEPT ![k] = new] /\ OnlyThreads /\ UNCHANGED entry
      BY <1>6, <2>2 DEF Signalled
    <3> QED
      BY <1>1, <1>5, <3>1, <3>2, ThreadKeeps
  <2> QED
    BY <1>6, <2>1, <2>2 DEF Signalled
<1>7. CASE Choose(k)
  <2> DEFINE type == entry[old.slot].type
             new == [old EXCEPT !.at = "chosen", !.doing = type]
  <2>1. type \in ActionType \cup {NULL}
    BY <1>1 DEF Entries, Actions!Entry
  <2>2. new \in Thread /\ new.slot = old.slot /\ new.want = old.want /\ new.at = "chosen"
    <3> HIDE DEF type
    <3> QED
      BY <1>1, <2>1 DEF Thread
  <2>3. thread' = [thread EXCEPT ![k] = new] /\ OnlyThreads /\ UNCHANGED entry
    BY <1>7 DEF Choose
  <2> QED
    BY <1>1, <1>5, <2>2, <2>3, ThreadKeeps
<1>8. CASE InitDriver(k)
  BY <1>2, <1>3, <1>4, <1>5, <1>8, <1>15 DEF InitDriver
<1>16. ASSUME entry' = [entry EXCEPT ![old.slot].data = old.doing]
       PROVE  Entries' /\ Actions!Outstanding' = Actions!Outstanding
  <2> DEFINE new == [entry[old.slot] EXCEPT !.data = old.doing]
  <2>1. new \in Actions!Entry /\ new.state = entry[old.slot].state
    BY <1>1 DEF Entries, Thread, Actions!Entry
  <2>2. entry' = [entry EXCEPT ![old.slot] = new]
    BY <1>16
  <2> HIDE DEF new
  <2> QED
    BY <1>1, <2>1, <2>2 DEF Entries, Actions!Outstanding
<1>17. CASE StoreBle(k)
  <2>1. thread' = [thread EXCEPT ![k] = old]
    BY <1>1, <1>17 DEF StoreBle, ProcessorInv, TypeOK
  <2>2. old.at # "ended"
    BY <1>1 DEF Running, Ended
  <2> QED
    BY <1>1, <1>16, <1>17, <2>1, <2>2, ThreadKeeps DEF StoreBle
<1>9. CASE Read(k)
  <2>1. CASE Fail(k)
    BY <1>9, <1>15, <2>1 DEF Read
  <2>2. CASE /\ Actions!Mark(old.slot, "COMPLETED")
             /\ thread' = [thread EXCEPT ![k].at = IF old.doing \in Ble THEN "finishing" ELSE "read",
                                         ![k].ran = TRUE]
    <3>1. Entries' /\ Actions!Outstanding' \subseteq Actions!Outstanding
      BY <1>1, <2>2, MarkFacts DEF Actions!State
    <3>2. PICK place \in {"read", "finishing"} :
             thread' = [thread EXCEPT ![k] = [old EXCEPT !.at = place, !.ran = TRUE]]
      BY <2>2
    <3>3. OnlyThreads
      BY <1>9 DEF Read
    <3> QED
      BY <1>2, <3>1, <3>2, <3>3
  <2> QED
    BY <1>9, <2>1, <2>2 DEF Read
<1>10. CASE Store(k)
  <2>1. CASE UNCHANGED entry
    BY <1>2, <1>3, <1>4, <1>5, <1>10, <2>1 DEF Store
  <2>2. CASE entry' = [entry EXCEPT ![old.slot].data = old.doing]
    BY <1>2, <1>3, <1>4, <1>10, <1>16, <2>2 DEF Store
  <2> QED
    BY <1>10, <2>1, <2>2 DEF Store
<1>11. CASE Connect(k)
  <2>1. CASE Goto(k, "connected") /\ UNCHANGED entry
    BY <1>2, <1>3, <1>4, <1>5, <1>11, <2>1 DEF Connect
  <2>2. CASE Fail(k)
    BY <1>11, <1>15, <2>2 DEF Connect
  <2> QED
    BY <1>11, <2>1, <2>2 DEF Connect
<1>12. CASE Send(k)
  <2>1. PICK good \in BOOLEAN, stored \in BOOLEAN, sent \in SUBSET Actions!Slot :
           LET hooked == IF stored THEN [entry EXCEPT ![old.slot].data = old.doing] ELSE entry
           IN  entry' = [r \in Actions!Slot |->
                  [hooked[r] EXCEPT !.data = IF r \in sent THEN NULL ELSE @,
                                    !.state = IF r # old.slot THEN @
                                              ELSE IF good THEN "COMPLETED" ELSE "TRIED_AND_FAILED"]]
    BY <1>12 DEF Send
  <2> DEFINE hooked == IF stored THEN [entry EXCEPT ![old.slot].data = old.doing] ELSE entry
             new(r) == [hooked[r] EXCEPT !.data = IF r \in sent THEN NULL ELSE @,
                                         !.state = IF r # old.slot THEN @
                                                   ELSE IF good THEN "COMPLETED" ELSE "TRIED_AND_FAILED"]
  <2>2. entry' = [r \in Actions!Slot |-> new(r)]
    BY <2>1
  <2>3. \A r \in Actions!Slot : hooked[r] \in Actions!Entry /\ hooked[r].state = entry[r].state
    <3>1. CASE ~stored
      BY <1>1, <3>1 DEF Entries
    <3>2. CASE stored
      <4> DEFINE item == [entry[old.slot] EXCEPT !.data = old.doing]
      <4>1. item \in Actions!Entry /\ item.state = entry[old.slot].state
        BY <1>1 DEF Entries, Thread, Actions!Entry
      <4>2. hooked = [entry EXCEPT ![old.slot] = item]
        BY <3>2
      <4> HIDE DEF item, hooked
      <4> QED
        BY <1>1, <4>1, <4>2 DEF Entries
    <3> QED
      BY <3>1, <3>2
  <2> HIDE DEF hooked
  <2>4. \A r \in Actions!Slot : new(r) \in Actions!Entry /\ (new(r).state = "REQUESTED" => entry[r].state = "REQUESTED")
    <3> TAKE r \in Actions!Slot
    <3> DEFINE e == hooked[r]
               data == IF r \in sent THEN NULL ELSE e.data
               state == IF r # old.slot THEN e.state ELSE IF good THEN "COMPLETED" ELSE "TRIED_AND_FAILED"
    <3>1. e \in Actions!Entry /\ e.state = entry[r].state
      BY <2>3
    <3>2. new(r) = [e EXCEPT !.data = data, !.state = state]
      OBVIOUS
    <3>3. data \in ActionType \cup {NULL} /\ state \in Actions!State
          /\ (state = "REQUESTED" => entry[r].state = "REQUESTED")
      <4> HIDE DEF e
      <4> QED
        BY <3>1 DEF Actions!Entry, Actions!State
    <3> HIDE DEF e, data, state, new
    <3> QED
      BY <3>1, <3>2, <3>3 DEF Actions!Entry
  <2> HIDE DEF new
  <2>5. Entries' /\ Actions!Outstanding' \subseteq Actions!Outstanding
    BY <2>2, <2>4 DEF Entries, Actions!Outstanding
  <2>6. thread' = [thread EXCEPT ![k] = [old EXCEPT !.at = "finishing", !.ran = TRUE]] /\ OnlyThreads
    BY <1>12 DEF Send
  <2> QED
    BY <1>2, <2>5, <2>6
<1>13. CASE Finish(k)
  <2>1. Actions!HasRun(old.slot) => old.slot \notin Actions!Outstanding
    BY DEF Actions!HasRun, Actions!Outstanding
  <2> QED
    BY <1>2, <1>3, <1>4, <1>5, <1>13, <2>1 DEF Finish
<1>14. CASE Abort(k)
  <2>1. Entries' /\ Actions!Outstanding' = Actions!Outstanding \ {old.slot}
    BY <1>1, <1>14, MarkFacts DEF Abort, Actions!State
  <2> QED
    BY <1>2, <1>3, <1>4, <1>14, <2>1 DEF Abort
<1> QED
  BY <1>6, <1>7, <1>8, <1>9, <1>10, <1>11, <1>12, <1>13, <1>14, <1>17 DEF ThreadStep

-----------------------------------------------------------------------------
(* The main thread *)

\* One turn of the start loop: a thread is started, or not, and then what
\* has ended is taken off the list.
LEMMA StartThreadKeeps ==
    ASSUME ProcessorInv, StartThread
    PROVE  ProcessorInv'
<1> USE NullAssumption DEF ProcessorInv
<1> DEFINE t == Head(todo)
           s == Actions!Chosen
           new == Started(s, t)
           th == [thread EXCEPT ![taskIndex] = new]
<1>1. /\ main = "starting" /\ main' = "starting" /\ todo # <<>> /\ i2c' = TRUE
      /\ taskIndex' = (taskIndex + 1) % NumTasks /\ failures' = failures
      /\ thread[taskIndex] = NULL /\ Actions!Add(t) /\ thread' = Reaped(th) /\ todo' = Tail(todo)
  BY DEF StartThread, StartTurn
<1>2. /\ t \in ActionType /\ todo' \in Seq(ActionType) /\ ReportLast(todo') /\ AllDifferent(todo')
      /\ t \in Report => todo' = <<>>
      /\ \A i \in DOMAIN todo' : todo'[i] # t /\ \E j \in DOMAIN todo : todo'[i] = todo[j]
  BY <1>1, TailFacts DEF TypeOK, TodoFits
<1>3. Entries' /\ s \in Actions!Slot /\ Actions!Outstanding' = Actions!Outstanding \cup {s}
  BY <1>1, <1>2, AddFacts DEF TypeOK, Entries
<1>4. new \in Thread /\ new.slot = s /\ new.want = t /\ new.at = "started"
  <2> HIDE DEF s, t
  <2> QED
    BY <1>2, <1>3 DEF Started, Thread
<1>5. taskIndex \in Task /\ taskIndex' \in Task
  BY <1>1, TaskAssumption DEF TypeOK, Task
<1> HIDE DEF new
<1>6. /\ th \in [Task -> {NULL} \cup Thread] /\ th[taskIndex] = new
      /\ \A k \in Task : k # taskIndex => th[k] = thread[k]
  BY <1>4, <1>5 DEF TypeOK
<1> HIDE DEF th, s, t
<1>7. /\ thread' \in [Task -> {NULL} \cup Thread]
      /\ \A k \in Task : thread'[k] # NULL <=> th[k] # NULL /\ th[k].at # "ended"
      /\ \A k \in Task : thread'[k] # NULL => thread'[k] = th[k]
  BY <1>1, <1>6, ReapedFacts
<1>8. \A k \in Live' : IF k = taskIndex THEN thread'[k] = new ELSE k \in Running /\ thread'[k] = thread[k]
  BY <1>6, <1>7 DEF Live, Running, Ended
<1>9. \A k \in Running : k \in Running' /\ k # taskIndex /\ thread'[k] = thread[k]
  BY <1>1, <1>6, <1>7 DEF Live, Running, Ended
<1>10. taskIndex \in Running' /\ thread'[taskIndex] = new
  BY <1>4, <1>5, <1>6, <1>7 DEF Live, Running, Ended
<1>11. TypeOK'
  BY <1>1, <1>2, <1>3, <1>5, <1>7 DEF TypeOK, Entries
<1>12. MainFits'
  BY <1>1 DEF MainFits
<1>13. TodoFits'
  BY <1>2, <1>4, <1>8 DEF TodoFits, Running
<1>14. NoAddDuringReport'
  BY <1>1, <1>2, <1>4, <1>8 DEF NoAddDuringReport, Running
<1>15. StartedOnce'
  <2>1. \A k \in Running : thread[k].want # t
    BY <1>1 DEF TodoFits, TypeOK, Running, t
  <2> QED
    BY <1>4, <1>8, <2>1 DEF StartedOnce, Running
<1>16. OutstandingFits'
  <2>1. PICK refused \in SUBSET Actions!Slot :
           Cardinality(refused) <= failures /\ Actions!Outstanding \subseteq refused \cup Held
    BY DEF OutstandingFits
  <2>2. Held \subseteq Held' /\ s \in Held'
    BY <1>4, <1>9, <1>10 DEF Held
  <2>3. Actions!Outstanding' \subseteq refused \cup Held'
    BY <1>3, <2>1, <2>2
  <2> QED
    BY <1>1, <2>1, <2>3 DEF OutstandingFits, Actions!Slot
<1> QED
  BY <1>11, <1>12, <1>13, <1>14, <1>15, <1>16

\* What has ended is taken off the list, and no thread is added.
LEMMA ReapKeeps ==
    ASSUME ProcessorInv, thread' = Reaped(thread), main' \in {"asleep", "starting", "waiting", "terminating"},
           taskIndex' \in Task, i2c' \in BOOLEAN, failures' \in 0 .. MaxFailures,
           todo' \in Seq(ActionType), ReportLast(todo'), AllDifferent(todo'),
           \A i \in DOMAIN todo' : \E j \in DOMAIN todo : todo'[i] = todo[j],
           todo = <<>> => todo' = <<>>,
           main' # "starting" => todo' = <<>>, main' = "asleep" => Running = {}, Running # {} => i2c',
           Entries', failures <= failures',
           \/ UNCHANGED entry
           \/ \E s \in Actions!Slot : Actions!Outstanding' = Actions!Outstanding \cup {s} /\ failures < failures'
    PROVE  ProcessorInv'
<1> USE NullAssumption DEF ProcessorInv
<1>1. /\ thread' \in [Task -> {NULL} \cup Thread]
      /\ Live' = Running /\ Running' = Running /\ \A k \in Running : thread'[k] = thread[k]
  BY ReapedFacts DEF TypeOK, Live, Running, Ended
<1>2. Held' = Held
  BY <1>1 DEF Held
<1>3. TypeOK'
  BY <1>1 DEF TypeOK, Entries
<1>4. MainFits'
  BY <1>1 DEF MainFits
<1>5. TodoFits'
  BY <1>1 DEF TodoFits, Running
<1>6. NoAddDuringReport' /\ StartedOnce'
  BY <1>1 DEF NoAddDuringReport, StartedOnce, Running
<1>7. OutstandingFits'
  <2>1. PICK refused \in SUBSET Actions!Slot :
           Cardinality(refused) <= failures /\ Actions!Outstanding \subseteq refused \cup Held
    BY DEF OutstandingFits
  <2>2. IsFiniteSet(refused) /\ Cardinality(refused) \in Nat
    <3>1. 1 \in Int /\ NumActions \in Int
      BY TaskAssumption
    <3>2. IsFiniteSet(Actions!Slot)
      BY <3>1, FS_Interval DEF Actions!Slot
    <3> QED
      BY <3>2, FS_Subset, FS_CardinalityType
  <2>3. failures \in Nat /\ failures' \in Nat
    BY FailAssumption DEF TypeOK
  <2>4. CASE UNCHANGED entry
    <3>1. Actions!Outstanding' = Actions!Outstanding /\ Cardinality(refused) <= failures'
      BY <2>1, <2>2, <2>3, <2>4 DEF Actions!Outstanding
    <3> QED
      BY <1>2, <2>1, <3>1 DEF OutstandingFits, Actions!Slot
  <2>5. ASSUME NEW s \in Actions!Slot, Actions!Outstanding' = Actions!Outstanding \cup {s}, failures < failures'
        PROVE  OutstandingFits'
    <3>1. Cardinality(refused \cup {s}) <= failures'
      <4>1. Cardinality(refused \cup {s}) = IF s \in refused THEN Cardinality(refused) ELSE Cardinality(refused) + 1
        BY <2>2, FS_AddElement
      <4> QED
        BY <2>1, <2>2, <2>3, <2>5, <4>1
    <3>2. Actions!Outstanding' \subseteq (refused \cup {s}) \cup Held'
      BY <1>2, <2>1, <2>5
    <3>3. refused \cup {s} \in SUBSET Actions!Slot
      OBVIOUS
    <3> QED
      BY <3>1, <3>2, <3>3 DEF OutstandingFits, Actions!Slot
  <2> QED
    BY <2>4, <2>5
<1> QED
  BY <1>3, <1>4, <1>5, <1>6, <1>7

LEMMA MainStepKeeps ==
    ASSUME ProcessorInv, MainStep
    PROVE  ProcessorInv'
<1> USE NullAssumption, TaskAssumption, FailAssumption
<1>1. /\ TypeOK /\ MainFits /\ TodoFits /\ taskIndex \in Task
      /\ (taskIndex + 1) % NumTasks \in Task /\ failures \in 0 .. MaxFailures /\ todo \in Seq(ActionType)
  BY DEF ProcessorInv, TypeOK, Task
<1>2. UNCHANGED entry => Entries'
  BY <1>1 DEF TypeOK, Entries
<1>3. /\ ReportLast(todo) /\ AllDifferent(todo)
      /\ ReportLast(<<>>) /\ AllDifferent(<<>>) /\ DOMAIN <<>> = {} /\ <<>> \in Seq(ActionType)
  BY <1>1 DEF TodoFits, ReportLast, AllDifferent
<1>4. Running \subseteq Live
  BY DEF Running
<1>5. CASE WakeUp
  <2>1. /\ todo' \in Seq(ActionType) /\ ReportLast(todo') /\ AllDifferent(todo') /\ main' = "starting"
        /\ Live = {} /\ UNCHANGED <<entry, taskIndex, thread, i2c, failures>>
    BY <1>1, <1>5, RankedFacts DEF WakeUp, MainFits
  <2>2. Live' = {} /\ Running = {} /\ Running' = {} /\ Held' = Held
    BY <2>1 DEF Live, Running, Ended, Held
  <2>3. TypeOK' /\ MainFits' /\ TodoFits' /\ NoAddDuringReport' /\ StartedOnce'
    BY <1>1, <2>1, <2>2 DEF TypeOK, MainFits, TodoFits, NoAddDuringReport, StartedOnce
  <2>4. OutstandingFits'
    BY <2>1, <2>2 DEF ProcessorInv, OutstandingFits, Actions!Outstanding, Actions!Slot
  <2> QED
    BY <2>3, <2>4 DEF ProcessorInv
<1>6. CASE StartThread
  BY <1>6, StartThreadKeeps
<1>7. CASE NoRoom
  BY <1>1, <1>2, <1>3, <1>4, <1>7, ReapKeeps DEF NoRoom, StartTurn
<1>8. CASE PowerGone \/ AllStarted
  <2>1. StopStarting
    BY <1>8 DEF PowerGone, AllStarted
  <2>2. 0 \in Task
    BY DEF Task
  <2> QED
    BY <1>1, <1>2, <1>3, <1>4, <2>1, <2>2, ReapKeeps DEF StopStarting, MainFits, TypeOK
<1>9. CASE Sleep
  <2>1. /\ main' = "asleep" /\ Running = {} /\ thread' = Reaped(thread) /\ i2c' = FALSE /\ todo = <<>>
        /\ UNCHANGED <<entry, todo, taskIndex, failures>>
    BY <1>1, <1>9 DEF Sleep, MainFits
  <2>2. todo' = <<>> /\ ReportLast(todo') /\ AllDifferent(todo') /\ todo' \in Seq(ActionType)
        /\ \A i \in DOMAIN todo' : \E j \in DOMAIN todo : todo'[i] = todo[j]
    BY <1>3, <2>1
  <2>3. Entries' /\ taskIndex' \in Task /\ failures' \in 0 .. MaxFailures /\ failures <= failures'
    BY <1>1, <1>2, <2>1
  <2> QED
    BY <2>1, <2>2, <2>3, ReapKeeps
<1>10. CASE StartRefused \/ NoMemory
  <2>1. /\ Failure /\ todo # <<>> /\ main = "starting" /\ main' = "starting" /\ i2c' = TRUE
        /\ taskIndex' = (taskIndex + 1) % NumTasks /\ thread' = Reaped(thread)
        /\ failures' = failures + 1 /\ failures < MaxFailures /\ Actions!Add(Head(todo))
        /\ todo' = Tail(todo) \/ todo' = todo
    BY <1>10 DEF StartRefused, NoMemory, Failure, StartTurn
  <2>2. /\ Head(todo) \in ActionType /\ todo' \in Seq(ActionType) /\ ReportLast(todo') /\ AllDifferent(todo')
        /\ \A i \in DOMAIN todo' : \E j \in DOMAIN todo : todo'[i] = todo[j]
    BY <1>1, <1>3, <2>1, TailFacts
  <2>3. Entries' /\ Actions!Chosen \in Actions!Slot
        /\ Actions!Outstanding' = Actions!Outstanding \cup {Actions!Chosen}
    BY <1>1, <2>1, <2>2, AddFacts DEF TypeOK, Entries
  <2>4. failures' \in 0 .. MaxFailures /\ failures < failures'
    BY <1>1, <2>1
  <2> QED
    BY <1>1, <2>1, <2>2, <2>3, <2>4, ReapKeeps
<1>11. CASE StopWaiting
  <2> DEFINE new(k) == [thread[k] EXCEPT !.signal = TRUE]
  <2>1. /\ main' = "terminating" /\ main = "waiting" /\ UNCHANGED <<entry, todo, taskIndex, i2c, failures>>
        /\ thread' = [k \in Task |-> IF thread[k] = NULL THEN NULL ELSE new(k)]
    BY <1>11 DEF StopWaiting
  <2>2. \A k \in Live : new(k) \in Thread /\ new(k).at = thread[k].at /\ new(k).want = thread[k].want
                        /\ new(k).slot = thread[k].slot
    BY <1>1 DEF TypeOK, Live, Thread
  <2> HIDE DEF new
  <2>3. /\ thread' \in [Task -> {NULL} \cup Thread] /\ Live' = Live
        /\ \A k \in Live : thread'[k] = new(k)
    BY <1>1, <2>1, <2>2 DEF Live
  <2>4. Running' = Running /\ Held' = Held
    <3>1. Running' = Running
      BY <2>2, <2>3 DEF Running, Ended
    <3> QED
      BY <2>2, <2>3, <3>1, <1>4 DEF Held
  <2>5. TypeOK' /\ MainFits' /\ TodoFits' /\ NoAddDuringReport' /\ StartedOnce'
    <3>1. TypeOK' /\ MainFits'
      BY <1>1, <2>1, <2>3 DEF TypeOK, MainFits
    <3>2. TodoFits' /\ StartedOnce'
      BY <1>1, <2>1, <2>2, <2>3 DEF TodoFits, ProcessorInv, StartedOnce
    <3>3. NoAddDuringReport'
      BY <2>1, <2>2, <2>3, <2>4, <1>4 DEF ProcessorInv, NoAddDuringReport
    <3> QED
      BY <3>1, <3>2, <3>3
  <2>6. OutstandingFits'
    BY <2>1, <2>4 DEF ProcessorInv, OutstandingFits, Actions!Outstanding, Actions!Slot
  <2> QED
    BY <2>5, <2>6 DEF ProcessorInv
<1> QED
  BY <1>5, <1>6, <1>7, <1>8, <1>9, <1>10, <1>11 DEF MainStep

LEMMA ProcessorStep == ProcessorInv /\ [Next]_vars => ProcessorInv'
<1> SUFFICES ASSUME ProcessorInv, [Next]_vars PROVE ProcessorInv'
  OBVIOUS
<1>1. CASE UNCHANGED vars
  <2>1. Live' = Live /\ Running' = Running /\ Held' = Held
    BY <1>1 DEF vars, Live, Running, Ended, Held
  <2>2. TypeOK' /\ MainFits' /\ TodoFits' /\ NoAddDuringReport' /\ StartedOnce'
    BY <1>1, <2>1 DEF vars, ProcessorInv, TypeOK, MainFits, TodoFits, NoAddDuringReport, StartedOnce
  <2>3. OutstandingFits'
    BY <1>1, <2>1 DEF vars, ProcessorInv, OutstandingFits, Actions!Outstanding, Actions!Slot
  <2> QED
    BY <2>2, <2>3 DEF ProcessorInv
<1> QED
  BY <1>1, MainStepKeeps, ThreadStepKeeps DEF Next

LEMMA ProcessorInvariant == Spec => []ProcessorInv
<1>1. Init => ProcessorInv
  <2> SUFFICES ASSUME Init PROVE ProcessorInv
    OBVIOUS
  <2>1. Live = {} /\ Running = {} /\ Actions!Outstanding = {} /\ todo = <<>>
    BY DEF Init, Live, Running, Actions!Init, Actions!Outstanding
  <2>2. entry \in [Actions!Slot -> Actions!Entry]
    BY DEF Init, Actions!Init, Actions!Entry, Actions!State
  <2>3. TypeOK
    <3>1. taskIndex \in Task /\ failures \in 0 .. MaxFailures
      BY TaskAssumption, FailAssumption DEF Init, Task
    <3>2. thread \in [Task -> {NULL} \cup Thread] /\ todo \in Seq(ActionType)
      BY DEF Init
    <3> QED
      BY <2>2, <3>1, <3>2 DEF Init, TypeOK
  <2>4. MainFits /\ TodoFits /\ NoAddDuringReport /\ StartedOnce
    BY <2>1 DEF Init, MainFits, TodoFits, NoAddDuringReport, StartedOnce, ReportLast, AllDifferent
  <2>5. OutstandingFits
    BY <2>1, FS_EmptySet DEF Init, OutstandingFits
  <2> QED
    BY <2>3, <2>4, <2>5 DEF ProcessorInv
<1> QED
  BY <1>1, ProcessorStep, PTL DEF Spec

-----------------------------------------------------------------------------
\* The processor's variables keep their types, for any number of slots and
\* entries.
THEOREM TypeCorrect == Spec => []TypeOK
<1>1. ProcessorInv => TypeOK
  BY DEF ProcessorInv
<1> QED
  BY <1>1, ProcessorInvariant, PTL

\* No entry is left requested but those of threads that could not be
\* started; no thread outlives its wake-up or finds the bus down; none is
\* added while the report's runs, and no type is started twice.
THEOREM ThreadsAreSound == Spec => []ThreadsSound
<1> QED
  BY InvIsSound, ProcessorInvariant, PTL
=============================================================================
