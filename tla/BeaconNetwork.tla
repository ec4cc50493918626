--------------------------- MODULE BeaconNetwork -----------------------------
(***************************************************************************)
(* The randomness generation of drand: a group of nodes that produce one   *)
(* threshold signature per period, each signing the previous one           *)
(* (chain/beacon: node.go, chain.go, ticker.go, store.go, sync.go).        *)
(*                                                                         *)
(* A node is several goroutines.  The ticker puts the round in a channel   *)
(* of length one.  The loop of Handler.run signs upon the last beacon of   *)
(* the store and broadcasts the partial signature.  The aggregator         *)
(* collects partials, recovers the beacon of a round from Threshold of     *)
(* them and appends it to the store; it knows the last beacon from its own *)
(* variable, which the callbacks of the store also write, out of order     *)
(* when several workers run them.  The syncer copies beacons of other      *)
(* nodes.  Nodes crash and restart from their store, messages are delayed, *)
(* reordered and lost, and the faulty nodes send what they want.           *)
(*                                                                         *)
(* A clock is the number of the round it is in (module ChainTime), 0       *)
(* before the genesis.                                                     *)
(***************************************************************************)
EXTENDS Integers, Sequences, FiniteSets

CONSTANTS
    Node,          \* the members of the group, which are also the share indices
    Faulty,        \* those that do not follow the protocol
    Threshold,     \* group.Threshold
    Signature,     \* the byte strings used as signatures
    NoSig,         \* the empty one
    GenesisSig,    \* the genesis seed
    Sig(_, _),     \* the signature of a round and a previous signature that
                   \* Threshold partials recover to
    FaultyPartial, \* the partials the faulty nodes may send
    FaultyBeacon,  \* beacons without a valid signature that they may stream
    Limit,         \* partialCacheStoreLimit
    Workers,       \* the number of workers that run the store's callbacks
    MaxClock,      \* bound: the clocks stop at this round
    MaxRound,      \* bound: no round is signed beyond this one
    MaxCrashes,    \* bound: number of crashes
    MaxLosses      \* bound: number of lost messages

Honest == Node \ Faulty

Beacon == [round : 0 .. MaxRound, prev : Signature, sig : Signature]
Partial == [round : 1 .. MaxRound, prev : Signature, idx : Node]

Genesis == [round |-> 0, prev |-> NoSig, sig |-> GenesisSig]

(* Fewer nodes than the threshold are faulty, so no set of faulty nodes    *)
(* recovers a signature.                                                   *)
ASSUME NetworkAssumption ==
    /\ Faulty \subseteq Node
    /\ Threshold \in Nat
    /\ \A F \in SUBSET Faulty : Cardinality(F) \in Nat /\ Cardinality(F) < Threshold
    /\ Limit \in Nat /\ Workers \in Nat
    /\ MaxClock \in Nat /\ MaxRound \in Nat /\ MaxCrashes \in Nat /\ MaxLosses \in Nat

(* The scheme signs any message, and each with one signature only.         *)
ASSUME SignatureAssumption ==
    /\ NoSig \in Signature
    /\ GenesisSig \in Signature
    /\ \A r \in 1 .. MaxRound, s \in Signature : Sig(r, s) \in Signature
    /\ \A p \in FaultyPartial : p \in Partial /\ p.idx \in Faulty
    /\ \A b \in FaultyBeacon : b \in Beacon /\ b.sig # Sig(b.round, b.prev)

VARIABLES
    clock,      \* the round each clock is in
    up,         \* whether the node is running
    tick,       \* chanTick: the tick the run loop has not received yet
    current,    \* the last tick the run loop received
    store,      \* the beacons of rounds 1, 2, ... in the database
    lastBeacon, \* the aggregator's view of the last beacon
    cache,      \* the partials the aggregator holds (module PartialSet)
    aggPut,     \* the beacon the aggregator stored and has not queued yet
    syncPut,    \* the beacon the syncer stored and has not queued yet
    storedAgg,  \* callbacks that have not told the aggregator of a beacon yet
    catchup,    \* catchupBeacons: a beacon the run loop has not received yet
    sleeping,   \* the catchup broadcasts waiting for the catchup period
    follow,     \* the round Follow syncs up to, or NotFollowing
    msgs,       \* partials on their way to a node
    signed,     \* history: the partials the honest nodes ever signed
    crashes,    \* crashes so far
    losses      \* lost messages so far

volatile == <<tick, current, lastBeacon, cache, aggPut, syncPut, storedAgg, catchup,
              sleeping, follow>>
vars == <<clock, up, volatile, store, msgs, signed, crashes, losses>>

NotFollowing == -1

(* The types; a node never signs or stores a round 0.                      *)
TypeOK ==
    /\ clock \in [Honest -> 0 .. MaxClock]
    /\ up \in [Honest -> BOOLEAN]
    /\ tick \in [Honest -> Seq(1 .. MaxClock)]
    /\ current \in [Honest -> 0 .. MaxClock]
    /\ store \in [Honest -> Seq(Beacon)]
    /\ lastBeacon \in [Honest -> Beacon]
    /\ cache \in [Honest -> SUBSET Partial]
    /\ aggPut \in [Honest -> Seq(Beacon)]
    /\ syncPut \in [Honest -> Seq(Beacon)]
    /\ storedAgg \in [Honest -> Seq(Beacon)]
    /\ catchup \in [Honest -> Seq(Beacon)]
    /\ sleeping \in [Honest -> SUBSET [current : 1 .. MaxClock, upon : Beacon]]
    /\ follow \in [Honest -> Nat \cup {NotFollowing}]
    /\ msgs \subseteq [to : Honest, p : Partial]
    /\ signed \subseteq Partial
    /\ crashes \in 0 .. MaxCrashes
    /\ losses \in 0 .. MaxLosses

Init ==
    /\ clock = [n \in Honest |-> 0]
    /\ up = [n \in Honest |-> TRUE]
    /\ tick = [n \in Honest |-> << >>]
    /\ current = [n \in Honest |-> 0]
    /\ store = [n \in Honest |-> << >>]
    /\ lastBeacon = [n \in Honest |-> Genesis]
    /\ cache = [n \in Honest |-> {}]
    /\ aggPut = [n \in Honest |-> << >>]
    /\ syncPut = [n \in Honest |-> << >>]
    /\ storedAgg = [n \in Honest |-> << >>]
    /\ catchup = [n \in Honest |-> << >>]
    /\ sleeping = [n \in Honest |-> {}]
    /\ follow = [n \in Honest |-> NotFollowing]
    /\ msgs = {}
    /\ signed = {}
    /\ crashes = 0
    /\ losses = 0
-----------------------------------------------------------------------------
(***************************************************************************)
(* The store.                                                              *)
(***************************************************************************)
Last(n) == IF store[n] = << >> THEN Genesis ELSE store[n][Len(store[n])]

(* appendStore.Put accepts only the next round, and only when it signs the *)
(* last signature.                                                         *)
Appendable(n, b) == b.round = Last(n).round + 1 /\ b.prev = Last(n).sig

(* callbackStore.Put stores the beacon and then, outside of the lock of    *)
(* appendStore, queues the callback that tells the aggregator.  The        *)
(* aggregator and the syncer both call it.                                 *)
Put(n, b) ==
    /\ Appendable(n, b)
    /\ store' = [store EXCEPT ![n] = Append(@, b)]

Queue(n, b) == storedAgg' = [storedAgg EXCEPT ![n] = Append(@, b)]

(* Mutant of Verified: the beacons of a peer are taken on trust.           *)
VerifiedNever(b) == TRUE

(* VerifyBeacon                                                            *)
Verified(b) == b.sig = Sig(b.round, b.prev)

(***************************************************************************)
(* The run loop.                                                           *)
(***************************************************************************)
(* Mutant of NextPartial: the current round is not signed again.           *)
NextPartialAhead(n, c, upon) ==
    [round |-> upon.round + 1, prev |-> upon.sig, idx |-> n]

(* The node signs the round after the beacon given, or again the round it  *)
(* is in.                                                                  *)
NextPartial(n, c, upon) ==
    IF c = upon.round
    THEN [round |-> c, prev |-> upon.prev, idx |-> n]
    ELSE [round |-> upon.round + 1, prev |-> upon.sig, idx |-> n]

(* The partial goes to the own aggregator and to every other node.         *)
broadcastNextPartial(n, c, upon) ==
    LET p == NextPartial(n, c, upon)
    IN  /\ p.round <= MaxRound
        /\ signed' = signed \cup {p}
        /\ msgs' = msgs \cup [to : Honest, p : {p}]

(* Follow refuses to run twice at a time.                                  *)
Following(n, upTo) ==
    IF follow[n] = NotFollowing THEN [follow EXCEPT ![n] = upTo] ELSE follow

(* The clock enters the next round and the ticker puts it in the channel   *)
(* of the run loop, unless the loop has not taken the last tick yet.  The  *)
(* clocks of two nodes are never more than one round apart.                *)
Tick(n) ==
    /\ clock[n] < MaxClock
    /\ \A m \in Honest : clock[n] <= clock[m]
    /\ clock' = [clock EXCEPT ![n] = @ + 1]
    /\ tick' = IF up[n] /\ tick[n] = << >>
               THEN [tick EXCEPT ![n] = <<clock[n] + 1>>]
               ELSE tick
    /\ UNCHANGED <<up, current, store, lastBeacon, cache, aggPut, syncPut, storedAgg, catchup,
                   sleeping, follow, msgs, signed, crashes, losses>>

RunTick(n) ==
    /\ up[n]
    /\ tick[n] # << >>
    /\ LET c == Head(tick[n])
       IN  /\ current' = [current EXCEPT ![n] = c]
           /\ broadcastNextPartial(n, c, Last(n))
           /\ follow' = IF Last(n).round + 1 < c THEN Following(n, c) ELSE follow
    /\ tick' = [tick EXCEPT ![n] = Tail(@)]
    /\ UNCHANGED <<clock, up, store, lastBeacon, cache, aggPut, syncPut, storedAgg, catchup,
                   sleeping, crashes, losses>>

(* A beacon was just aggregated: when it is late, the next partial goes    *)
(* out after the catchup period.                                           *)
RunCatchup(n) ==
    /\ up[n]
    /\ catchup[n] # << >>
    /\ LET b == Head(catchup[n])
       IN  sleeping' = IF b.round < current[n]
                       THEN [sleeping EXCEPT ![n] =
                               @ \cup {[current |-> current[n], upon |-> b]}]
                       ELSE sleeping
    /\ catchup' = [catchup EXCEPT ![n] = Tail(@)]
    /\ UNCHANGED <<clock, up, tick, current, store, lastBeacon, cache, aggPut, syncPut,
                   storedAgg, follow, msgs, signed, crashes, losses>>

CatchupBroadcast(n) ==
    /\ \E s \in sleeping[n] :
          /\ broadcastNextPartial(n, s.current, s.upon)
          /\ sleeping' = [sleeping EXCEPT ![n] = @ \ {s}]
    /\ UNCHANGED <<clock, up, tick, current, store, lastBeacon, cache, aggPut, syncPut,
                   storedAgg, catchup, follow, crashes, losses>>

(***************************************************************************)
(* The aggregator.                                                         *)
(***************************************************************************)
(* The indices that signed the same message as p, among the partials S.    *)
Signers(S, p) == {i \in Node : [p EXCEPT !.idx = i] \in S}

Recovered(p) == [round |-> p.round, prev |-> p.prev, sig |-> Sig(p.round, p.prev)]

(* ProcessPartialBeacon accepts rounds up to the next one of its clock;    *)
(* the own partials do not pass through it.                                *)
InTime(n, p) == p.idx = n \/ p.round <= clock[n] + 1

shouldStore(n, p) ==
    /\ p.round > lastBeacon[n].round
    /\ p.round <= lastBeacon[n].round + Limit + 1

FlushRounds(S, round) == {p \in S : p.round > round}

(* A faulty node may send what it wants at any time, and send it again.    *)
Receive(n, p) ==
    /\ up[n]
    /\ aggPut[n] = << >>
    /\ [to |-> n, p |-> p] \in msgs \/ p \in FaultyPartial
    /\ msgs' = msgs \ {[to |-> n, p |-> p]}
    /\ UNCHANGED <<clock, up, tick, current, syncPut, storedAgg, catchup, sleeping,
                   signed, crashes, losses>>

DiscardPartial(n, p) ==
    /\ Receive(n, p)
    /\ ~InTime(n, p) \/ ~shouldStore(n, p)
    /\ UNCHANGED <<store, lastBeacon, cache, aggPut, follow>>

CollectPartial(n, p) ==
    /\ Receive(n, p)
    /\ InTime(n, p) /\ shouldStore(n, p)
    /\ Cardinality(Signers(cache[n] \cup {p}, p)) < Threshold
    /\ cache' = [cache EXCEPT ![n] = @ \cup {p}]
    /\ UNCHANGED <<store, lastBeacon, aggPut, follow>>

(* Mutant of Completes: one partial too few.                               *)
CompletesEarly(n, p) ==
    /\ InTime(n, p) /\ shouldStore(n, p)
    /\ Cardinality(Signers(cache[n] \cup {p}, p)) >= Threshold - 1
    /\ cache' = [cache EXCEPT ![n] = FlushRounds(@, p.round)]

(* The partial completes the signature of its round.                       *)
Completes(n, p) ==
    /\ InTime(n, p) /\ shouldStore(n, p)
    /\ Cardinality(Signers(cache[n] \cup {p}, p)) >= Threshold
    /\ cache' = [cache EXCEPT ![n] = FlushRounds(@, p.round)]

(* tryAppend stores the beacon ...                                         *)
AppendBeacon(n, p) ==
    LET b == Recovered(p)
    IN  /\ Receive(n, p)
        /\ Completes(n, p)
        /\ lastBeacon[n].round + 1 = b.round
        /\ Put(n, b)
        /\ aggPut' = [aggPut EXCEPT ![n] = <<b>>]
        /\ UNCHANGED <<lastBeacon, follow>>

(* ... and tells the run loop, unless a beacon is already waiting there.   *)
BeaconAppended(n) ==
    /\ aggPut[n] # << >>
    /\ LET b == Head(aggPut[n])
       IN  /\ Queue(n, b)
           /\ lastBeacon' = [lastBeacon EXCEPT ![n] = b]
           /\ catchup' = IF catchup[n] = << >>
                         THEN [catchup EXCEPT ![n] = <<b>>]
                         ELSE catchup
    /\ aggPut' = [aggPut EXCEPT ![n] = << >>]
    /\ UNCHANGED <<clock, up, tick, current, store, cache, syncPut, sleeping, follow,
                   msgs, signed, crashes, losses>>

(* Mutant of DropBeacon: the dropped beacon becomes the last one.          *)
DropBeaconKept(n, p) ==
    LET b == Recovered(p)
    IN  /\ Receive(n, p)
        /\ Completes(n, p)
        /\ ~(lastBeacon[n].round + 1 = b.round /\ Appendable(n, b))
        /\ lastBeacon' = [lastBeacon EXCEPT ![n] = b]
        /\ UNCHANGED <<store, aggPut, follow>>

(* The beacon cannot be appended: it is dropped, with its partials, and    *)
(* when the aggregator believes to be late it syncs.                       *)
DropBeacon(n, p) ==
    LET b == Recovered(p)
    IN  /\ Receive(n, p)
        /\ Completes(n, p)
        /\ ~(lastBeacon[n].round + 1 = b.round /\ Appendable(n, b))
        /\ follow' = IF b.round > lastBeacon[n].round + 1
                     THEN Following(n, b.round) ELSE follow
        /\ UNCHANGED <<store, lastBeacon, aggPut>>

(* A worker runs the callback of a stored beacon and the aggregator takes  *)
(* it for the last one.  The workers hold the first jobs of the queue and  *)
(* may finish them in any order.                                           *)
BeaconStored(n) ==
    /\ aggPut[n] = << >>
    /\ \E i \in DOMAIN storedAgg[n] :
          /\ i <= Workers
          /\ lastBeacon' = [lastBeacon EXCEPT ![n] = storedAgg[n][i]]
          /\ cache' = [cache EXCEPT ![n] = FlushRounds(@, storedAgg[n][i].round)]
          /\ storedAgg' = [storedAgg EXCEPT ![n] =
                SubSeq(@, 1, i - 1) \o SubSeq(@, i + 1, Len(@))]
    /\ UNCHANGED <<clock, up, tick, current, store, aggPut, syncPut, catchup, sleeping,
                   follow, msgs, signed, crashes, losses>>

(***************************************************************************)
(* The syncer.  An honest peer streams its store from the round after the  *)
(* last one of the follower; a faulty one anything, but no valid signature *)
(* that Threshold nodes have not signed.                                   *)
(***************************************************************************)
Streamed(n) ==
    {store[m][Len(store[n]) + 1] :
        m \in {k \in Honest : up[k] /\ Len(store[k]) > Len(store[n])}}

Known ==
    LET all == signed \cup FaultyPartial
    IN  {Recovered(p) : p \in {q \in all : Cardinality(Signers(all, q)) >= Threshold}}

Offered(n) == Streamed(n) \cup (IF Faulty = {} THEN {} ELSE Known \cup FaultyBeacon)

SyncBeacon(n) ==
    /\ follow[n] # NotFollowing
    /\ syncPut[n] = << >>
    /\ \E b \in Offered(n) :
          /\ Verified(b)
          /\ Put(n, b)
          /\ syncPut' = [syncPut EXCEPT ![n] = <<b>>]
    /\ UNCHANGED <<clock, up, tick, current, lastBeacon, cache, aggPut, storedAgg,
                   catchup, sleeping, follow, msgs, signed, crashes, losses>>

BeaconSynced(n) ==
    /\ syncPut[n] # << >>
    /\ LET b == Head(syncPut[n])
       IN  /\ Queue(n, b)
           /\ follow' = IF b.round = follow[n]
                        THEN [follow EXCEPT ![n] = NotFollowing] ELSE follow
    /\ syncPut' = [syncPut EXCEPT ![n] = << >>]
    /\ UNCHANGED <<clock, up, tick, current, store, lastBeacon, cache, aggPut, catchup,
                   sleeping, msgs, signed, crashes, losses>>

(* Follow has tried all the nodes.                                         *)
SyncEnd(n) ==
    /\ follow[n] # NotFollowing
    /\ syncPut[n] = << >>
    /\ follow' = [follow EXCEPT ![n] = NotFollowing]
    /\ UNCHANGED <<clock, up, tick, current, store, lastBeacon, cache, aggPut, syncPut,
                   storedAgg, catchup, sleeping, msgs, signed, crashes, losses>>
-----------------------------------------------------------------------------
(***************************************************************************)
(* The environment.                                                        *)
(***************************************************************************)
(* A message is lost; one to a node that is down may always be.            *)
Lose(m) ==
    /\ m.p.idx # m.to
    /\ msgs' = msgs \ {m}
    /\ \/ ~up[m.to] /\ UNCHANGED losses
       \/ losses < MaxLosses /\ losses' = losses + 1
    /\ UNCHANGED <<clock, up, volatile, store, signed, crashes>>

(* Mutant of Crash: the last beacon had not reached the disk.              *)
CrashLosesBeacon(n) ==
    /\ up[n]
    /\ crashes < MaxCrashes
    /\ crashes' = crashes + 1
    /\ up' = [up EXCEPT ![n] = FALSE]
    /\ tick' = [tick EXCEPT ![n] = << >>]
    /\ current' = [current EXCEPT ![n] = 0]
    /\ lastBeacon' = [lastBeacon EXCEPT ![n] = Genesis]
    /\ cache' = [cache EXCEPT ![n] = {}]
    /\ aggPut' = [aggPut EXCEPT ![n] = << >>]
    /\ syncPut' = [syncPut EXCEPT ![n] = << >>]
    /\ storedAgg' = [storedAgg EXCEPT ![n] = << >>]
    /\ catchup' = [catchup EXCEPT ![n] = << >>]
    /\ sleeping' = [sleeping EXCEPT ![n] = {}]
    /\ follow' = [follow EXCEPT ![n] = NotFollowing]
    /\ msgs' = {m \in msgs : ~(m.to = n /\ m.p.idx = n)}
    /\ store' = [store EXCEPT ![n] = IF @ = << >> THEN @ ELSE SubSeq(@, 1, Len(@) - 1)]
    /\ UNCHANGED <<clock, signed, losses>>

(* What the process had in memory is gone, its own partials included.      *)
Crash(n) ==
    /\ up[n]
    /\ crashes < MaxCrashes
    /\ crashes' = crashes + 1
    /\ up' = [up EXCEPT ![n] = FALSE]
    /\ tick' = [tick EXCEPT ![n] = << >>]
    /\ current' = [current EXCEPT ![n] = 0]
    /\ lastBeacon' = [lastBeacon EXCEPT ![n] = Genesis]
    /\ cache' = [cache EXCEPT ![n] = {}]
    /\ aggPut' = [aggPut EXCEPT ![n] = << >>]
    /\ syncPut' = [syncPut EXCEPT ![n] = << >>]
    /\ storedAgg' = [storedAgg EXCEPT ![n] = << >>]
    /\ catchup' = [catchup EXCEPT ![n] = << >>]
    /\ sleeping' = [sleeping EXCEPT ![n] = {}]
    /\ follow' = [follow EXCEPT ![n] = NotFollowing]
    /\ msgs' = {m \in msgs : ~(m.to = n /\ m.p.idx = n)}
    /\ UNCHANGED <<clock, store, signed, losses>>

(* NewHandler and Catchup: the aggregator loads the last beacon of the     *)
(* store and the node follows the chain up to the next round.              *)
Restart(n) ==
    /\ ~up[n]
    /\ up' = [up EXCEPT ![n] = TRUE]
    /\ lastBeacon' = [lastBeacon EXCEPT ![n] = Last(n)]
    /\ follow' = [follow EXCEPT ![n] = clock[n] + 1]
    /\ UNCHANGED <<clock, tick, current, store, cache, aggPut, syncPut, storedAgg, catchup, sleeping,
                   msgs, signed, crashes, losses>>

ReceivePartial(n, p) ==
    \/ DiscardPartial(n, p)
    \/ CollectPartial(n, p)
    \/ AppendBeacon(n, p)
    \/ DropBeacon(n, p)

NodeStep(n) ==
    \/ Tick(n)
    \/ RunTick(n)
    \/ RunCatchup(n)
    \/ CatchupBroadcast(n)
    \/ \E p \in {m.p : m \in msgs} \cup FaultyPartial : ReceivePartial(n, p)
    \/ BeaconAppended(n)
    \/ BeaconStored(n)
    \/ BeaconSynced(n)
    \/ SyncBeacon(n)
    \/ SyncEnd(n)
    \/ Crash(n)
    \/ Restart(n)

Next ==
    \/ \E n \in Honest : NodeStep(n)
    \/ \E m \in msgs : Lose(m)

Spec == Init /\ [][Next]_vars
-----------------------------------------------------------------------------
(* Timeliness: the run loop of a node takes a tick before any clock leaves *)
(* the round of that tick.                                                 *)
TimelyTicks ==
    \A n \in Honest : clock'[n] # clock[n] =>
        \A m \in Honest : tick[m] = << >> \/ clock[m] > clock[n]

TimelySpec == Init /\ [][Next /\ TimelyTicks]_vars

(* The goroutines of a node, and the delivery of messages to it.           *)
Work(n) ==
    \/ RunTick(n)
    \/ RunCatchup(n)
    \/ CatchupBroadcast(n)
    \/ \E m \in msgs : ReceivePartial(n, m.p)
    \/ BeaconAppended(n)
    \/ BeaconStored(n)
    \/ BeaconSynced(n)
    \/ Restart(n)

(* The ticks go on after the bound of the clocks, where the network stays  *)
(* in its last round and the work of a tick ends before the next.          *)
TickAgain ==
    /\ msgs = {}
    /\ \A n \in Honest :
          /\ up[n]
          /\ clock[n] = MaxClock
          /\ tick[n] = << >> /\ catchup[n] = << >> /\ sleeping[n] = {}
          /\ aggPut[n] = << >> /\ syncPut[n] = << >> /\ storedAgg[n] = << >>
    /\ tick' = [n \in Honest |-> <<MaxClock>>]
    /\ UNCHANGED <<clock, up, current, store, lastBeacon, cache, aggPut, syncPut, storedAgg, catchup,
                   sleeping, follow, msgs, signed, crashes, losses>>

(* A node that is up works, messages that are not lost arrive, a crashed   *)
(* node restarts, and of the attempts to sync with nodes that have the     *)
(* next beacon some succeed: the streams are assumed not to stall.         *)
Fairness ==
    /\ \A n \in Honest : WF_vars(Tick(n)) /\ WF_vars(Work(n)) /\ SF_vars(SyncBeacon(n))
    /\ WF_vars(TickAgain)

LiveSpec ==
    /\ Init
    /\ [][(Next /\ TimelyTicks) \/ TickAgain]_vars
    /\ Fairness

(* The honest nodes agree: their stores hold the same beacon for every     *)
(* round that both have, whatever the faulty nodes signed and whichever of *)
(* aggregation, catchup and sync put it there.                             *)
Agreement ==
    \A m, n \in Honest :
        \A r \in DOMAIN store[m] \cap DOMAIN store[n] : store[m][r] = store[n][r]

(* Nothing is produced ahead of time: there is no beacon of a round before *)
(* the clock of some honest node has entered the round.                    *)
NoEarlyBeacon ==
    \A n \in Honest : \A r \in DOMAIN store[n] : \E m \in Honest : r <= clock[m]

(* No honest node signs a round that its clock has not entered.            *)
NoEarlyPartial ==
    \A p \in signed : p.round <= clock[p.idx]

(* The aggregator's view of the last beacon may be late, but it is always  *)
(* a beacon of the store.                                                  *)
ViewIsStored ==
    \A n \in Honest : LET b == lastBeacon[n] IN
        b # Genesis => b.round \in DOMAIN store[n] /\ b = store[n][b.round]

(* The network makes progress: in spite of crashes and lost messages every *)
(* honest node stores the beacon of the round its clock is in, or catches  *)
(* up to it.                                                               *)
Progress ==
    \A n \in Honest : \A r \in 1 .. MaxClock : clock[n] = r ~> Len(store[n]) >= r

Chain == INSTANCE RandomChain WITH Holder <- Honest

(* The stores evolve as prefixes of one chain.                             *)
ImplementsRandomChain == Chain!Spec
=============================================================================
