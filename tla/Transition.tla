----------------------------- MODULE Transition ------------------------------
(***************************************************************************)
(* A network crosses from its old group to its new one after a resharing   *)
(* (transition in core/drand.go; chain/beacon/node.go, chain.go, crypto.go *)
(* and sync.go).  A node that stays switches its share when the last round *)
(* of the old group is stored, a node that leaves stops just before the    *)
(* new group starts, a node that joins follows the chain until then.  Both *)
(* sharings are of one key, so the chain goes on; but only partials made   *)
(* with shares of one sharing add up to a beacon.                          *)
(*                                                                         *)
(* A beacon is its round.  All clocks agree, ticks and callbacks are taken *)
(* within their round, and the aggregator knows at once what is stored:    *)
(* module BeaconNetwork looks at clocks that differ, late ticks, crashes,  *)
(* losses and a stale view.  Partials may be late for the last round of    *)
(* the old group; from the transition on messages, catch-ups and syncs are *)
(* done within their round.  The DKG ends at each node at any moment when  *)
(* no partial is under way, at the latest in the round of the transition.  *)
(* A sync is modelled by its outcome: beacons come one by one from a peer  *)
(* that has them (module CallbackStore has the streams that serve it).     *)
(***************************************************************************)
EXTENDS Integers, FiniteSets

CONSTANTS
    Peer,           \* the nodes of both groups
    Resharings,     \* the triples <<old group, new group, last beacon of the old group when
                    \* the clocks enter round TRound - 1>> that are looked at
    OldThr, NewThr, \* the thresholds of the two
    IndexIn(_, _),  \* IndexIn(n, g): index of n's share in group g
    TRound,         \* first round of the new group
    LastClock       \* bound: last round of the clock

ASSUME ReshareAssumption ==
    /\ TRound \in Nat \ {0} /\ LastClock \in Nat
    /\ \A r \in Resharings : r[1] \subseteq Peer /\ r[2] \subseteq Peer /\ r[3] \in 0 .. TRound - 1
    /\ \A n \in Peer, g \in SUBSET Peer : IndexIn(n, g) \in Nat

VARIABLES
    oldGrp, newGrp, \* the two groups
    tClock,         \* round of the clocks
    mode,           \* mode[n]: "out", "up" or "stopped"
    reshared,       \* reshared[n]: its DKG ended "not yet", "in time" or "late"
    share,          \* share[n]: sharing its share, polynomial and group belong to
    lastR,          \* lastR[n]: last round stored
    ticked,         \* nodes with a tick to take
    toSign,         \* toSign[n]: rounds the catchup goroutines are about to sign
    partials,       \* partials[n]: the cache, records [round, idx, grp]
    mail,           \* partials on their way; ok: the receiver has verified it already
    hook,           \* nodes with the callback "transition"
    called,         \* nodes whose callback was called for the target round or later
    followTo,       \* followTo[n]: round Follow goes up to, 0: not following
    strays,         \* history: nodes that signed for the new group with an old share
    excused         \* history: nodes that could not switch or stop in time

transVars == <<oldGrp, newGrp, tClock, mode, reshared, share, lastR, ticked, toSign, partials,
               mail, hook, called, followTo, strays, excused>>
groups == <<oldGrp, newGrp>>

Members(g) == IF g = "old" THEN oldGrp ELSE newGrp
Thr(g) == IF g = "old" THEN OldThr ELSE NewThr
Staying == oldGrp \cap newGrp
Up(n) == mode[n] = "up"

TransInit ==
    /\ \E r \in Resharings :
          /\ oldGrp = r[1] /\ newGrp = r[2]
          /\ lastR = [n \in Peer |-> IF n \in r[1] THEN r[3] ELSE 0]
    /\ tClock = TRound - 1
    /\ mode = [n \in Peer |-> IF n \in oldGrp THEN "up" ELSE "out"]
    /\ reshared = [n \in Peer |-> "not yet"]
    /\ share = [n \in Peer |-> "old"]
    /\ ticked = oldGrp /\ toSign = [n \in Peer |-> {}]
    /\ partials = [n \in Peer |-> {}] /\ mail = {}
    /\ hook = {} /\ called = {} /\ followTo = [n \in Peer |-> 0]
    /\ strays = {} /\ excused = {}

\* Mutant: a leaving node is stopped at the transition, not before it.
TimeToStopLate == TRound

\* timeToStop in transition: the last second of this round.
TimeToStop == TRound - 1

\* targetRound in TransitionNewGroup.
TargetRound == TRound - 1

\* The clocks enter the next round.  StopAt has stopped the leaving nodes;
\* the loop of a joining node has its first tick at the transition.
NextClock ==
    /\ tClock < LastClock /\ ticked = {} /\ called = {}
    /\ tClock >= TRound => mail = {} /\ \A n \in Peer : toSign[n] = {} /\ followTo[n] = 0
    /\ tClock = TRound => \A n \in oldGrp \cup newGrp : reshared[n] # "not yet"
    /\ tClock = TimeToStop => \A n \in Peer \ newGrp : reshared[n] = "in time" => ~Up(n)
    /\ tClock' = tClock + 1
    /\ ticked' = {n \in Peer : Up(n) /\ (n \in oldGrp \/ tClock' >= TRound)}
    /\ excused' = IF tClock' # TRound THEN excused ELSE excused \cup
                     {n \in oldGrp : \/ reshared[n] = "not yet"
                                     \/ n \in Staying /\ lastR[n] < TRound - 1}
    /\ UNCHANGED <<groups, mode, reshared, share, lastR, toSign, partials, mail, hook, called,
                   followTo, strays>>

\* The DKG ends at n: runResharing calls transition.
DKGEnds(n) ==
    /\ reshared[n] = "not yet" /\ n \in oldGrp \cup newGrp /\ mail = {}
    /\ reshared' = [reshared EXCEPT ![n] = IF tClock <= TimeToStop THEN "in time" ELSE "late"]

\* A node that stays registers the callback, whatever is stored already.
TransitionNewGroup(n) ==
    /\ n \in Staying /\ DKGEnds(n)
    /\ hook' = hook \cup {n}
    /\ excused' = IF lastR[n] >= TRound - 1 THEN excused \cup {n} ELSE excused
    /\ UNCHANGED <<groups, tClock, mode, share, lastR, ticked, toSign, partials, mail, called,
                   followTo, strays>>

\* A node that joins creates its handler and follows the old group.
JoinTransition(n) ==
    /\ n \in newGrp \ oldGrp /\ DKGEnds(n)
    /\ mode' = [mode EXCEPT ![n] = "up"] /\ share' = [share EXCEPT ![n] = "new"]
    /\ followTo' = [followTo EXCEPT ![n] = TRound - 1]
    /\ UNCHANGED <<groups, tClock, lastR, ticked, toSign, partials, mail, hook, called, strays,
                   excused>>

\* A node that leaves calls StopAt, which refuses a time that has passed.
LeaveTransition(n) ==
    /\ n \in oldGrp \ newGrp /\ DKGEnds(n)
    /\ UNCHANGED <<groups, tClock, mode, share, lastR, ticked, toSign, partials, mail, hook, called,
                   followTo, strays, excused>>

\* StopAt wakes up: Stop ends the loop and the aggregator and closes the store;
\* a catchup goroutine still signs and sends.
StopAt(n) ==
    /\ n \in Peer \ newGrp /\ reshared[n] = "in time" /\ Up(n) /\ tClock = TimeToStop
    /\ mode' = [mode EXCEPT ![n] = "stopped"]
    /\ ticked' = ticked \ {n}
    /\ mail' = {p \in mail : p.to # n}
    /\ followTo' = [followTo EXCEPT ![n] = 0]
    /\ UNCHANGED <<groups, tClock, reshared, share, lastR, toSign, partials, hook, called, strays,
                   excused>>

\* broadcastNextPartial: n signs round r, takes the partial itself and sends it
\* to its group, which is read after the share: SetInfo may come in between.  A
\* partial of a round its receiver has stored would be ignored whenever it comes,
\* and is left out.
Broadcast(n, r) ==
    /\ \E g \in {share[n]} \cup {x \in {"new"} : n \in called} :
          mail' = mail \cup
             {[to |-> m, round |-> r, idx |-> IndexIn(n, Members(share[n])), grp |-> share[n],
               ok |-> m = n] : m \in {x \in Members(g) \cup {n} : Up(x) /\ lastR[x] < r}}
    /\ strays' = IF r >= TRound /\ share[n] = "old" THEN strays \cup {n} ELSE strays

\* Mutant: a node that finds itself behind does not sync.
RunTickNoSync(n) ==
    /\ n \in ticked
    /\ ticked' = ticked \ {n}
    /\ Broadcast(n, IF lastR[n] = tClock THEN tClock ELSE lastR[n] + 1)
    /\ UNCHANGED <<groups, tClock, mode, reshared, share, lastR, toSign, partials, hook, called,
                   followTo, excused>>

\* run takes a tick; Follow refuses when it is following already.
RunTick(n) ==
    /\ n \in ticked
    /\ ticked' = ticked \ {n}
    /\ Broadcast(n, IF lastR[n] = tClock THEN tClock ELSE lastR[n] + 1)
    /\ followTo' = IF lastR[n] + 1 < tClock /\ followTo[n] = 0 THEN [followTo EXCEPT ![n] = tClock]
                   ELSE followTo
    /\ UNCHANGED <<groups, tClock, mode, reshared, share, lastR, toSign, partials, hook, called,
                   excused>>

\* The goroutine that run starts for an appended beacon has slept.
CatchupSign(n, r) ==
    /\ r \in toSign[n]
    /\ toSign' = [toSign EXCEPT ![n] = @ \ {r}]
    /\ Broadcast(n, r)
    /\ UNCHANGED <<groups, tClock, mode, reshared, share, lastR, ticked, partials, hook, called,
                   followTo, excused>>

\* current.round in run.
CurrentOf(n) ==
    IF n \notin oldGrp /\ (tClock < TRound \/ (tClock = TRound /\ reshared[n] = "late")) THEN 0
    ELSE IF n \in ticked THEN tClock - 1 ELSE tClock

\* Put of round r at n: the callbacks are called, the cache keeps what is left,
\* and partials of round r or before that are still to come are ignored.
Stores(n, r, cached) ==
    /\ lastR' = [lastR EXCEPT ![n] = r]
    /\ partials' = [partials EXCEPT ![n] = {q \in cached : q.round > r}]
    /\ mail' = {p \in mail : ~(p.to = n /\ p.round <= r)}
    /\ called' = IF n \in hook /\ r >= TargetRound THEN called \cup {n} ELSE called

\* ProcessPartialBeacon refuses a partial that does not verify.
Refuse(n, p) ==
    /\ p.to = n /\ ~p.ok /\ p.grp # share[n]
    /\ mail' = mail \ {p}
    /\ UNCHANGED <<groups, tClock, mode, reshared, share, lastR, ticked, toSign, partials, hook,
                   called, followTo, strays, excused>>

\* The aggregator takes a partial.  The first partial of an index is the one
\* that is kept.  Recover needs a threshold of partials of n's own sharing; when
\* the cache holds others too, it depends on the library whether it succeeds.
Aggregate(n, p) ==
    LET new == [round |-> p.round, idx |-> p.idx, grp |-> p.grp]
        seen == \E q \in partials[n] : q.round = p.round /\ q.idx = p.idx
        all == IF seen THEN partials[n] ELSE partials[n] \cup {new}
        here == {q \in all : q.round = p.round}
        good == {q \in here : q.grp = share[n]}
        enough == Cardinality(good) >= Thr(share[n])
    IN  /\ p.to = n /\ (p.ok \/ p.grp = share[n])
        /\ UNCHANGED <<groups, tClock, mode, reshared, share, ticked, hook, strays, excused>>
        /\ \/ /\ ~(enough /\ good = here)
              /\ partials' = [partials EXCEPT ![n] = all]
              /\ mail' = mail \ {p}
              /\ UNCHANGED <<lastR, called, toSign, followTo>>
           \/ /\ enough /\ p.round = lastR[n] + 1
              /\ Stores(n, p.round, all)
              /\ toSign' = IF p.round < CurrentOf(n)
                           THEN [toSign EXCEPT ![n] = @ \cup {p.round + 1}] ELSE toSign
              /\ UNCHANGED followTo
           \/ /\ enough /\ p.round > lastR[n] + 1
              /\ partials' = [partials EXCEPT ![n] = {q \in all : q.round > p.round}]
              /\ mail' = mail \ {p}
              /\ followTo' = IF followTo[n] = 0 THEN [followTo EXCEPT ![n] = p.round] ELSE followTo
              /\ UNCHANGED <<lastR, called, toSign>>

\* The callback runs: SetInfo and RemoveCallback.  A partial of the old sharing
\* that is in n's channel by now has been verified; the others will be refused.
SwitchShare(n) ==
    /\ n \in called
    /\ called' = called \ {n} /\ hook' = hook \ {n}
    /\ share' = [share EXCEPT ![n] = "new"]
    /\ \E before \in SUBSET {p \in mail : p.to = n /\ ~p.ok /\ p.grp = "old"} :
          mail' = (mail \ before) \cup {[p EXCEPT !.ok = TRUE] : p \in before}
    /\ UNCHANGED <<groups, tClock, mode, reshared, lastR, ticked, toSign, partials, followTo,
                   strays, excused>>

\* The peers Follow asks: the old group while joining, the group of n later.
Sources(n) == (IF followTo[n] = TRound - 1 /\ n \notin oldGrp THEN oldGrp ELSE Members(share[n])) \ {n}

\* tryNode stores the next beacon of a peer.
SyncStep(n) ==
    /\ followTo[n] # 0 /\ Up(n)
    /\ \E m \in Sources(n) : Up(m) /\ lastR[m] > lastR[n]
    /\ Stores(n, lastR[n] + 1, partials[n])
    /\ followTo' = IF lastR[n] + 1 = followTo[n] THEN [followTo EXCEPT ![n] = 0] ELSE followTo
    /\ UNCHANGED <<groups, tClock, mode, reshared, share, ticked, toSign, hook, strays,
                   excused>>

\* Follow has tried every peer and none has more.
FollowEnds(n) ==
    /\ followTo[n] # 0
    /\ \A m \in Sources(n) : ~(Up(m) /\ lastR[m] > lastR[n])
    /\ followTo' = [followTo EXCEPT ![n] = 0]
    /\ UNCHANGED <<groups, tClock, mode, reshared, share, lastR, ticked, toSign, partials, mail,
                   hook, called, strays, excused>>

TransNext ==
    \/ NextClock
    \/ \E n \in Peer :
          \/ TransitionNewGroup(n) \/ JoinTransition(n) \/ LeaveTransition(n) \/ StopAt(n)
          \/ RunTick(n) \/ SwitchShare(n) \/ SyncStep(n) \/ FollowEnds(n)
          \/ \E r \in toSign[n] : CatchupSign(n, r)
          \/ \E p \in mail : Refuse(n, p) \/ Aggregate(n, p)

TransSpec == TransInit /\ [][TransNext]_transVars
------------------------------------------------------------------------------
(***************************************************************************)
(* A node that stays signs with its new share only once it has stored the  *)
(* last round of the old group (the callback of TransitionNewGroup), so    *)
(* that round can still be made by the old group.                          *)
(***************************************************************************)
SwitchAfterLast == \A n \in Staying : share[n] = "new" => lastR[n] >= TRound - 1

(***************************************************************************)
(* Old shares retire: a partial on a round of the new group is made with   *)
(* an old share only by a node whose DKG ended too late (after it stored   *)
(* the last old round, or after the time to stop) or whose last old round  *)
(* came only after the transition time.  In particular a node that leaves  *)
(* in time never signs for the new group (transition, StopAt, run).        *)
(***************************************************************************)
OldShareRetires ==
    strays \subseteq excused

\* Nothing is left to be done after the last tick.
Quiet ==
    /\ tClock = LastClock /\ ticked = {} /\ mail = {} /\ called = {}
    /\ \A n \in Peer : toSign[n] = {} /\ followTo[n] = 0
    /\ \A n \in oldGrp \cup newGrp : reshared[n] # "not yet"

\* Nodes of the new group that can put a beacon together from new partials: no
\* old partial has an index of the round they work on.
Clean == {n \in newGrp : share[n] = "new" /\ \A q \in partials[n] : q.grp = "new"}

(***************************************************************************)
(* The chain crosses the transition: when all is quiet the new group has   *)
(* made a beacon.  There are two ways to fail, both begin with a node that *)
(* stays and came too late.  It registered the callback after it had       *)
(* stored the round that should call it, and without it the new shares are *)
(* fewer than the new threshold; or it signed for the new group with its   *)
(* old share, and that partial holds an index in every cache, where only a *)
(* stored beacon would remove it (roundCache.append, FlushRounds).         *)
(***************************************************************************)
ChainCrosses ==
    Quiet => \/ \E n \in newGrp : lastR[n] >= TRound
             \/ /\ Cardinality({n \in newGrp : share[n] = "new"}) < NewThr
                /\ \E n \in Staying : n \in excused /\ share[n] = "old"
             \/ Clean = {} /\ strays \cap Staying # {}

(***************************************************************************)
(* Each share is used for the rounds of its own group, but for the nodes   *)
(* that came too late.                                                     *)
(***************************************************************************)
SharesInTurn ==
    /\ SwitchAfterLast
    /\ OldShareRetires
==============================================================================
