------------------------------ MODULE GroupFile ------------------------------
(***************************************************************************)
(* The life of a group description: the leader builds it from the keys it  *)
(* collected and pushes it over the wire, every node filters it and adds   *)
(* the distributed key after the DKG, writes it to a TOML file and reads   *)
(* it back after a restart, hands it to a newcomer, and a resharing        *)
(* replaces it by the next one.                                            *)
(***************************************************************************)
EXTENDS Groups

CONSTANTS
    NodeKey,        \* the public keys, numbers ordered as their encodings are
    First,      \* the nodes of the first group, whose leader is its smallest
    GroupPeriods,    \* beacon and catchup periods the packets ask for, in ms
    MaxReshare  \* bound: resharings

ASSUME GroupFileAssumption ==
    /\ NodeKey \subseteq Nat /\ IsFiniteSet(NodeKey)
    /\ First \subseteq NodeKey /\ First # {}
    /\ GroupPeriods \subseteq Nat /\ MaxReshare \in Nat

VARIABLES
    grp,      \* grp[k]: <<group>> that node k works with, or <<>>
    file,     \* file[k]: <<TOML group>> on k's disk, or <<>>
    targetGroup,   \* targetGroup[k]: <<group>> of the DKG that k takes part in, or <<>>
    wire,     \* <<group packet>> the leader pushes, or <<>>
    qual,     \* the indexes the running DKG qualifies
    reshares,    \* number of groups created so far
    first,    \* history: <<digest of the first group>>
    refused   \* a group was refused: FALSE until it happens

gfVars == <<grp, file, targetGroup, wire, qual, reshares, first, refused>>

LeadKey == Min(First)
Members(g) == {g.nodes[i].key : i \in DOMAIN g.nodes}
Idle == wire = <<>>

\* The public polynomial of group e: its constant term is the chain's key,
\* which a resharing keeps, and the other coefficients are new.
Coefficients(e, thr) == [i \in 1 .. thr |-> IF i = 1 THEN 0 ELSE 10 * e + i]

GFInit ==
    /\ grp = [k \in NodeKey |-> <<>>]
    /\ file = [k \in NodeKey |-> <<>>]
    /\ targetGroup = [k \in NodeKey |-> <<>>]
    /\ wire = <<>> /\ qual = {} /\ reshares = 0 /\ first = <<>> /\ refused = FALSE

\* Mutant: the leader does not print the group, so no seed is cached.
PushUnprinted(g) ==
    /\ targetGroup' = [targetGroup EXCEPT ![LeadKey] = <<g>>]
    /\ wire' = <<ToProto(g)>>
    /\ qual' \in {q \in SUBSET {g.nodes[i].index : i \in DOMAIN g.nodes} :
                  Cardinality(q) >= g.thr /\ 0 \in q}
    /\ reshares' = reshares + 1
    /\ UNCHANGED <<grp, file, refused>>

\* What every new group goes through at the leader: it is printed, which
\* caches the seed, becomes the leader's target, and is pushed.
Push(g) ==
    LET printed == TOML(g)
    IN  /\ targetGroup' = [targetGroup EXCEPT ![LeadKey] = <<printed>>]
        /\ wire' = <<ToProto(printed)>>
        /\ \E q \in SUBSET {g.nodes[i].index : i \in DOMAIN g.nodes} :
              /\ Cardinality(q) >= g.thr
              /\ \E i \in DOMAIN g.nodes :
                    g.nodes[i].key = LeadKey /\ g.nodes[i].index \in q
              /\ qual' = q
        /\ reshares' = reshares + 1
        /\ UNCHANGED <<grp, file, refused>>

\* createAndSend of a fresh DKG; the keys came in any order.
CreateGroup ==
    /\ Idle /\ reshares = 0
    /\ \E list \in SetToSeqs(First), thr \in 1 .. Cardinality(First),
          period \in GroupPeriods, catchup \in GroupPeriods :
          /\ thr >= MinimumThreshold(Cardinality(First)) /\ Seconds(period) # 0
          /\ LET g == NewGroup(list, thr, 1000, Seconds(period) * 1000,
                               Seconds(catchup) * 1000)
             IN  Push(g) /\ first' = WithSeed(g).seed

\* createAndSend of a resharing: genesis, period and seed of the old group;
\* ReceivedKey took the keys that came with the hash of the leader's old group.
CreateReshare ==
    /\ Idle /\ reshares \in 1 .. MaxReshare /\ grp[LeadKey] # <<>>
    /\ \E members \in SUBSET NodeKey, thr \in 1 .. Cardinality(NodeKey) :
          /\ LeadKey \in members
          /\ \A k \in members : grp[k] # <<>> /\ Digest(Head(grp[k])) = Digest(Head(grp[LeadKey]))
          /\ thr \in MinimumThreshold(Cardinality(members)) .. Cardinality(members)
          /\ LET o == Head(grp[LeadKey])
                 list == SetToSeq(members)
                 g == NewGroup(list, thr, o.genesis, Seconds(o.period) * 1000,
                               Seconds(o.catchup) * 1000)
             IN  Push([g EXCEPT !.transition = 1000 + reshares, !.seed = WithSeed(o).seed])
    /\ UNCHANGED first

\* validateGroupTransition, on a node that has the old group.
TransitionValid(o, g) ==
    /\ o.genesis = g.genesis /\ o.period = g.period
    /\ WithSeed(o).seed = WithSeed(g).seed

\* A participant receives the pushed packet: WaitDKGInfo and the checks of
\* setupAutomaticDKG and setupAutomaticResharing.
ReceivePush(k) ==
    /\ ~Idle /\ targetGroup[k] = <<>> /\ k \in Members(Head(wire))
    /\ file[k] # <<>> => grp[k] # <<>>
    /\ \A g \in ToSet(grp[k]) : g.transition # Head(wire).transition
    /\ LET p == Head(wire)
           g == GroupFromProto(p)
       IN  IF ProtoValid(p) /\ (grp[k] = <<>> \/ TransitionValid(Head(grp[k]), g))
           THEN targetGroup' = [targetGroup EXCEPT ![k] = <<g>>] /\ UNCHANGED refused
           ELSE refused' = TRUE /\ UNCHANGED targetGroup
    /\ UNCHANGED <<grp, file, wire, qual, reshares, first>>

\* WaitDKG: keep the qualified nodes, add the distributed key, save the group.
GroupAfterDKG(k) ==
    /\ targetGroup[k] # <<>>
    /\ LET t == Head(targetGroup[k])
           g == [t EXCEPT !.nodes = SelectSeq(t.nodes, LAMBDA n : n.index \in qual),
                          !.dist = Coefficients(reshares, t.thr)]
       IN  /\ k \in Members(g)
           /\ grp' = [grp EXCEPT ![k] = <<WithSeed(g)>>]
           /\ file' = [file EXCEPT ![k] = <<TOML(g)>>]
    /\ targetGroup' = [targetGroup EXCEPT ![k] = <<>>]
    /\ UNCHANGED <<wire, qual, reshares, first, refused>>

\* Every member has finished and the push is over; a member that is not
\* qualified drops its target.
SetupOver ==
    /\ ~Idle
    /\ \A k \in Members(Head(wire)) :
          \/ \E g \in ToSet(grp[k]) : g.transition = Head(wire).transition
          \/ \E n \in ToSet(Head(wire).nodes) : n.key = k /\ n.index \notin qual
    /\ wire' = <<>>
    /\ targetGroup' = [k \in NodeKey |-> <<>>]
    /\ UNCHANGED <<grp, file, qual, reshares, first, refused>>

\* The daemon of k stops between two setups.
StopDaemon(k) ==
    /\ file[k] # <<>> /\ targetGroup[k] = <<>> /\ grp[k] # <<>>
    /\ grp' = [grp EXCEPT ![k] = <<>>]
    /\ UNCHANGED <<file, targetGroup, wire, qual, reshares, first, refused>>

\* LoadDrand: the node starts again from its file.
Restart(k) ==
    /\ file[k] # <<>> /\ grp[k] = <<>>
    /\ IF TOMLValid(Head(file[k]))
       THEN grp' = [grp EXCEPT ![k] = <<FromTOML(Head(file[k]))>>] /\ UNCHANGED refused
       ELSE refused' = TRUE /\ UNCHANGED grp
    /\ UNCHANGED <<file, targetGroup, wire, qual, reshares, first>>

\* A newcomer's operator asks node k for its group (GroupFile), which the
\* client converts and saves; InitReshare of the newcomer reads it as the
\* old group (groupOut, extractGroup).
FetchGroup(k, n) ==
    /\ Idle /\ grp[k] # <<>> /\ file[n] = <<>>
    /\ \A g \in ToSet(grp[n]) : g.transition # Head(grp[k]).transition
    /\ LET p == ToProto(Head(grp[k]))
           t == TOML(GroupFromProto(p))
       IN  IF ProtoValid(p) /\ TOMLValid(t)
           THEN grp' = [grp EXCEPT ![n] = <<FromTOML(t)>>] /\ UNCHANGED refused
           ELSE refused' = TRUE /\ UNCHANGED grp
    /\ UNCHANGED <<file, targetGroup, wire, qual, reshares, first>>

GFNext ==
    \/ CreateGroup \/ CreateReshare \/ SetupOver
    \/ \E k \in NodeKey : ReceivePush(k) \/ GroupAfterDKG(k) \/ StopDaemon(k) \/ Restart(k)
    \/ \E k, n \in NodeKey : FetchGroup(k, n)

GFSpec == GFInit /\ [][GFNext]_gfVars

\* Every node's group, in memory and on disk, carries the digest of the very
\* first group as genesis seed: caching it at printing time (createAndSend),
\* carrying it on the wire and in the file, and copying it at a resharing
\* leave no moment at which GetGenesisSeed hashes a later group.
OneSeed ==
    \A k \in NodeKey : \A g \in ToSet(grp[k]) \cup ToSet(file[k]) \cup ToSet(targetGroup[k]) :
        WithSeed(g).seed = first

\* Info.Hash "is consistent throughout the entirety of a chain, regardless of
\* the network composition" (chain/info.go): nodes of different groups, before
\* and after restarts and resharings, compute one chain hash.
OneChain ==
    \A k, n \in NodeKey : \A g \in ToSet(grp[k]), h \in ToSet(grp[n]) :
        ChainHash(g) = ChainHash(h)

\* Two nodes with the groups of one transition have equal groups with equal hashes,
\* wherever each got its own (push, file, or another node): the leader accepts
\* a resharing signal only with the hash of its own old group.
OneGroup ==
    \A k, n \in NodeKey : \A g \in ToSet(grp[k]) \cup ToSet(file[k]), h \in ToSet(grp[n]) :
        g.transition = h.transition => Digest(g) = Digest(h) /\ GroupEqual(g, h)

\* No node refuses a group that an honest leader made: the conditions of
\* GroupFromProto, FromTOML and validateGroupTransition hold of every group
\* that createAndSend builds, also once the unqualified nodes are gone.
NothingRefused == ~refused

(***************************************************************************)
(* Wherever a node has its group from, all nodes have the same one, and    *)
(* the same chain.                                                         *)
(***************************************************************************)
NodesAgreeOnGroup ==
    /\ OneSeed
    /\ OneChain
    /\ OneGroup
    /\ NothingRefused
=============================================================================
