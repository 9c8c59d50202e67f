------------------------------- MODULE MCBoard -------------------------------
(* Small instances of the parts of the board. *)
EXTENDS Board

\* Boards with one sensor, and with the two that share the bus and the queue
\* of wake-ups.
MCBoards == {{"hall"}, {"accel"}, {"light"}, {"climate"}, {"gnss"}, {"hall", "accel"}}

\* Two levels of energy; a history shorter than the number of wake-ups.
MCLevels == {1, 2}

\* One device more than the list holds.
MCPeer == {"p1", "p2", "p3"}

\* Two measurements by one sensor (the BME280) and a report: contention for
\* every kind of mutex.
MCMeasure == {"humidity", "temperature"}
MCDriver == [t \in MCMeasure |-> "bme280"]
=============================================================================
