---------------------------- MODULE MCIntraMesh ----------------------------
(***************************************************************************)
(* The peers, searches and ids of the runs.  Two servers and one search:   *)
(* answers, the timer and closes race.  One server and two searches, for   *)
(* different ids or for the same one: queries and requests queue up.       *)
(***************************************************************************)
EXTENDS IntraMeshService

CONSTANTS p1, p2, x1, x2, x3, i1, i2

MCIdOf == [x \in Searches |-> IF x = x2 THEN i2 ELSE i1]

TwoServers == [peers |-> {p1, p2}, clients |-> {x1}, faults |-> 1]

OneServer(c, n) == [peers |-> {p1}, clients |-> c, faults |-> n]

AllScenarios == {TwoServers, OneServer({x1, x2}, 2), OneServer({x1, x3}, 1)}

RaceOfServers == {TwoServers}

PeerFails == {OneServer({x1}, 2)}
=============================================================================
