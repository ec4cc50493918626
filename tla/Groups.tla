------------------------------- MODULE Groups -------------------------------
(***************************************************************************)
(* Group descriptions (key/group.go) and their two encodings, the wire     *)
(* format and the TOML file, as pure operators.  The genesis seed, which   *)
(* anchors the chain, is computed lazily: the first of TOML, ToProto,      *)
(* Equal and NewChainInfo to need it hashes the group as it is then.       *)
(* A digest is the tuple of what is hashed; periods are milliseconds, as a *)
(* time.Duration keeps fractions that the wire format does not.            *)
(***************************************************************************)
EXTENDS Integers, Sequences, FiniteSets, SequencesExt, FiniteSetsExt

MinimumThreshold(n) == (n \div 2) + 1

\* copyAndSort: the identities sorted by key, indexed by their position.
NewGroup(list, thr, genesis, period, catchup) ==
    LET sorted == SortSeq(list, LAMBDA x, y : x < y)
    IN  [nodes |-> [i \in DOMAIN sorted |-> [key |-> sorted[i], index |-> i - 1]],
         thr |-> thr, period |-> period, catchup |-> catchup,
         genesis |-> genesis, seed |-> <<>>, transition |-> 0, dist |-> <<>>]

\* Group.Hash: nodes in index order, threshold, genesis, transition and key.
Digest(g) ==
    <<SortSeq(g.nodes, LAMBDA x, y : x.index < y.index), g.thr, g.genesis,
      g.transition, g.dist>>

\* GetGenesisSeed, as the group it leaves behind: the seed is cached.
WithSeed(g) == IF g.seed # <<>> THEN g ELSE [g EXCEPT !.seed = <<Digest(g)>>]

\* Duration.Seconds cut to an integer (the periods are far below 2^32 s).
Seconds(ms) == ms \div 1000

\* The wire format counts in whole seconds.
ToProto(g) ==
    [nodes |-> g.nodes, thr |-> g.thr, period |-> Seconds(g.period),
     catchup |-> Seconds(g.catchup), genesis |-> g.genesis,
     transition |-> g.transition, seed |-> WithSeed(g).seed, dist |-> g.dist]

\* The conditions GroupFromProto puts on a packet.
ProtoValid(p) ==
    /\ p.thr >= MinimumThreshold(Len(p.nodes))
    /\ p.genesis # 0 /\ p.period # 0
    /\ p.dist = <<>> \/ Len(p.dist) = p.thr

GroupFromProto(p) ==
    [p EXCEPT !.period = p.period * 1000, !.catchup = p.catchup * 1000]

\* The file format writes durations in full.
TOML(g) == WithSeed(g)

TOMLValid(t) ==
    t.thr \in MinimumThreshold(Len(t.nodes)) .. Len(t.nodes)

FromTOML(t) == t

\* Group.Equal leaves out the catchup period and the genesis time.
GroupEqual(g, h) ==
    /\ g.thr = h.thr /\ g.period = h.period /\ Len(g.nodes) = Len(h.nodes)
    /\ WithSeed(g).seed = WithSeed(h).seed
    /\ g.transition = h.transition /\ g.nodes = h.nodes /\ g.dist = h.dist

\* NewChainInfo and Info.Hash: period, genesis, public key and genesis seed.
ChainHash(g) ==
    <<Seconds(g.period), g.genesis, Head(g.dist), WithSeed(g).seed>>
=============================================================================
