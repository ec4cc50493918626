---------------------------- MODULE RandomChain ------------------------------
(***************************************************************************)
(* What the beacon network promises to those who read the nodes' stores:   *)
(* every node holds a prefix of one chain of beacons.  A store starts at   *)
(* the genesis beacon and only grows, by the one beacon that can follow    *)
(* its last one: the next round, signing the last signature.               *)
(***************************************************************************)
EXTENDS Integers, Sequences

CONSTANTS
    Holder,      \* the nodes whose stores are read
    GenesisSig,  \* the genesis seed, the signature of round 0
    Sig(_, _)    \* the network's signature of a round and a previous signature

VARIABLE store   \* store[n][r] is the beacon of round r at node n

LastSig(s) == IF s = << >> THEN GenesisSig ELSE s[Len(s)].sig

Successor(s) ==
    [round |-> Len(s) + 1,
     prev  |-> LastSig(s),
     sig   |-> Sig(Len(s) + 1, LastSig(s))]

Init == store = [n \in Holder |-> << >>]

Extend(n) == store' = [store EXCEPT ![n] = Append(@, Successor(@))]

Next == \E n \in Holder : Extend(n)

Spec == Init /\ [][Next]_store
=============================================================================
