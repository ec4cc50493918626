------------------------------- MODULE MCNode --------------------------------
(* The parts of a node beside its beacon loop: the partial cache, the DKG      *)
(* board, the store's callbacks with the streams they feed, the database, and *)
(* the switch to the shares of a resharing.                                  *)
(* They are checked one at a time: focus names the one that moves, the others *)
(* stay in an initial state.                                                 *)
EXTENDS MCPartialCache, EchoBroadcast, CallbackStore, BoltStore, Transition

CONSTANTS a, b, f, forged, da, db1, df1, df2, bad

MCSignedBy(p) == CASE p = da -> a [] p = db1 -> b [] p \in {df1, df2} -> f [] OTHER -> forged
MCKind(p) == "deal"

\* The honest nodes, each with its bundle, are interchangeable, and so are the
\* bundles of f: a starts first, and df1 is taken first.
InOrder ==
    /\ board[b] # "none" => board[a] # "none"
    /\ (\E n \in HonestBoard : df2 \in hashes[n]) => \E n \in HonestBoard : df1 \in hashes[n]

MCKindOf(s) == CASE s = "peer" -> "sync" [] s = "user" -> "public" [] OTHER -> "proxy"
MCAddrOf(s) == s
MCMixes == {{"peer"}, {"user"}, {"proxy"}}

\* One node leaves and one joins, or the nodes only get new shares.
MCResharings ==
    {<<{"n1", "n2"}, {"n2", "n3"}, 1>>} \cup {<<{"n1", "n2"}, {"n1", "n2"}, s>> : s \in 0 .. 1}
MCIndexIn(n, g) == CASE n = "n1" -> 0 [] n = "n3" -> 1 [] OTHER -> IF "n1" \in g THEN 1 ELSE 0

VARIABLE focus

Init ==
    /\ focus \in {"cache", "board", "callbacks", "database", "transition"}
    /\ CacheInit /\ EchoInit /\ BoltInit
    /\ CBInit /\ (focus # "callbacks" => mix = {"peer"})
    /\ TransInit /\ (focus # "transition" => "n1" \notin newGrp)

CacheStep ==
    /\ focus = "cache" /\ CacheNext
    /\ UNCHANGED <<focus, echoVars, cbVars, boltVars, transVars>>

BoardStep ==
    /\ focus = "board" /\ EchoNext /\ InOrder'
    /\ UNCHANGED <<focus, cache, cbVars, boltVars, transVars>>

CallbackStep ==
    /\ focus = "callbacks" /\ CBNext
    /\ UNCHANGED <<focus, cache, echoVars, boltVars, transVars>>

DatabaseStep ==
    /\ focus = "database" /\ BoltNext
    /\ UNCHANGED <<focus, cache, echoVars, cbVars, transVars>>

TransitionStep ==
    /\ focus = "transition" /\ TransNext
    /\ UNCHANGED <<focus, cache, echoVars, cbVars, boltVars>>

Next ==
    \/ CacheStep \/ BoardStep \/ CallbackStep \/ DatabaseStep \/ TransitionStep

Spec == Init /\ [][Next]_<<focus, cache, echoVars, cbVars, boltVars, transVars>>
==============================================================================
