---------------------------- MODULE MCGroupSetup -----------------------------
(* Instances of GroupSetup: p3 has the key of the leader, p1 has a second       *)
(* command.  A DKG from scratch of two or three nodes, where p2 may have another *)
(* secret, or a resharing from the group of the leader and p1.                 *)
EXTENDS GroupSetup

CONSTANTS l, p1, p2, p3

MCKey(n) == IF n = p3 THEN l ELSE n
MCCommands(n) == IF n = p1 THEN 2 ELSE 1
MCCases == {<<{}, {}, 2>>, <<{}, {p2}, 2>>, <<{l, p1}, {}, 2>>, <<{}, {}, 3>>}
==============================================================================
