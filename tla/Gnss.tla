-------------------------------- MODULE Gnss --------------------------------
(***************************************************************************)
(* act_zoem8.cpp.  The chip answers on a stream, in its own time; what has *)
(* come is read into a pipe, and one message is taken from the pipe at a   *)
(* time.  Nothing ties a message to the request it answers but its place.  *)
(***************************************************************************)
EXTENDS Integers, Sequences, I2cBus, TLC

\* ZOEM8's answers: those of interest to the driver, and the NMEA sentences
\* it sends of itself until it is told not to.
Messages == {"nmea", "ack", "fix", "no fix", "time"}

\* gpGnssParser, its pipe, and what gMsgBuffer holds past its first bytes;
\* took: what the position answered OK was read from.  Then the chip: the
\* 1V8 supply, and what it has to say.
NoGnss == [parser |-> FALSE, pipe |-> <<>>, tail |-> "blank", took |-> NULL,
           supply |-> FALSE, stream |-> <<>>,
           fitted |-> TRUE, bus |-> FALSE, faulty |-> FALSE]

\* PIN_ENABLE_1V8.  A chip that starts may talk NMEA.
SupplyOn(d) ==
    IF d.supply THEN {d}
    ELSE {[d EXCEPT !.supply = TRUE, !.stream = s] : s \in {<<>>} \cup IF d.fitted THEN {<<"nmea">>} ELSE {}}
SupplyOff(d) == [d EXCEPT !.supply = FALSE, !.stream = <<>>]

Exchange(d, e) == IF d.supply THEN Transfer(d, e) ELSE Error(d)

\* sendUbx(): the chip will answer.
SendUbx(d, answer) == Exchange(d, [d EXCEPT !.stream = Append(@, answer)])

\* XGnssParser::_get() and getMessage(): some of what the chip has to say
\* is there in time.  The bytes past the end of a short message are those
\* that were there, or part of what has been read with it.
Tails(d, n, m) == IF m \in {"ack", "nmea"} THEN {IF n <= 1 THEN d.tail ELSE "other"} ELSE {m}
GetMessage(d) ==
    LET Taken(n) ==
            LET pipe == d.pipe \o SubSeq(d.stream, 1, n)
                Past(m) == Tails(d, n, m)
                Rest(m, t) == [d EXCEPT !.pipe = Tail(pipe), !.tail = t,
                                        !.stream = SubSeq(@, n + 1, Len(@))]
            IN IF pipe = <<>> THEN Error(d)
               ELSE {[ok |-> TRUE, m |-> Head(pipe), dev |-> Rest(Head(pipe), t)] : t \in Past(Head(pipe))}
    IN UNION {Taken(n) : n \in 0 .. Len(d.stream)}

\* checkUbxAck()
CheckAck(d) == UNION {IF o.ok /\ o.m = "ack" THEN Ok(o.dev) ELSE Error(o.dev) : o \in GetMessage(d)}

OrElse(outcomes, Op(_)) == UNION {IF o.ok THEN {o} ELSE Op(o.dev) : o \in outcomes}

\* XGnssParser::init(): the chip is addressed five times at most, and told
\* to talk UBX only, three times at most, until it acks.
ParserInit(d) ==
    LET Fresh == [d EXCEPT !.pipe = <<>>, !.tail = IF @ = "fix" THEN "old fix" ELSE @]
        Address(e) == Exchange(e, e)
        Configure(e) == Then(SendUbx(e, "ack"), CheckAck)
        Attempts(e) == OrElse(OrElse(Configure(e), Configure), Configure)
    IN Then(Address(Fresh), Attempts)

\* zoem8Init()
GnssInit(d) ==
    IF d.parser THEN Ok(d)
    ELSE Then(ParserInit(d), LAMBDA e : Ok([e EXCEPT !.parser = TRUE]))

\* zoem8Deinit(): the pipe goes with the parser.
GnssDeinit(d) == Ok([d EXCEPT !.parser = FALSE, !.pipe = <<>>])

\* getPosition(): the first UBX message there is, if it has a bit set where
\* a NAV-PVT message says that there is a fix.
PositionIn(m, d) ==
    IF m = "nmea" THEN Error(d)
    ELSE (IF d.tail \in {"fix", "old fix", "other", "time"} THEN Ok([d EXCEPT !.took = d.tail]) ELSE {})
         \cup IF d.tail \in {"no fix", "blank", "other", "time"} THEN Error(d) ELSE {}
GetPosition(d, answer) ==
    LET Taken(e) == UNION {IF o.ok THEN PositionIn(o.m, o.dev) ELSE {o} : o \in GetMessage(e)}
    IN IF d.parser THEN Then(SendUbx(d, answer), Taken) ELSE Error(d)

\* getTime(): likewise, with a NAV-TIMEUTC message in mind.
TimeIn(m, d) == IF m = "nmea" THEN Error(d) ELSE Ok(d) \cup Error(d)
GetTime(d) ==
    LET Taken(e) == UNION {IF o.ok THEN TimeIn(o.m, o.dev) ELSE {o} : o \in GetMessage(e)}
    IN IF d.parser THEN Then(SendUbx(d, "time"), Taken) ELSE Error(d)
=============================================================================
