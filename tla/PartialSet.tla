----------------------------- MODULE PartialSet ------------------------------
(***************************************************************************)
(* What the aggregator expects of its partial cache: a set of partial      *)
(* signatures.  Append adds a partial, FlushRounds forgets the rounds up   *)
(* to a given one, and nothing else adds or removes a partial.  Module     *)
(* PartialCache is shown to implement this in every step but an append     *)
(* that has to evict; module BeaconNetwork uses the set.                   *)
(***************************************************************************)
EXTENDS Naturals

CONSTANTS
    Packet,  \* the partials: records with fields round, prev, idx
    Rounds   \* the round numbers

VARIABLE held

Init == held = {}

Add(p) == held' = held \cup {p}

Forget(round) == held' = {p \in held : p.round > round}

Next ==
    \/ \E p \in Packet : Add(p)
    \/ \E round \in Rounds : Forget(round)

Spec == Init /\ [][Next]_held
=============================================================================
