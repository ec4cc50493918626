--------------------------- MODULE WatchAggregator ---------------------------
(***************************************************************************)
(* The aggregator of a client's watchers (client/aggregator.go).  All      *)
(* subscribers share one watch of the underlying client, whose results the *)
(* goroutine distribute hands out.  Without subscribers a passive client   *)
(* may be watched instead; an automatic watch is kept up by a loop.        *)
(***************************************************************************)
EXTENDS Integers

CONSTANTS
    MaxSubs,     \* bound: subscribers, numbered in the order they come
    AutoModes    \* subset of {"full", "passive", "none"}

ASSUME AggAssumption == MaxSubs \in Nat

Sub == 1 .. MaxSubs
NoSub == 0

VARIABLES
    autoMode,    \* the configuration: autoWatch, passiveClient or neither
    auto,        \* where the loop of startAutoWatch is
    autoSub,     \* the subscriber it reads
    subs,        \* c.subscribers, a list that keeps the order in which they came
    subCtx,      \* subCtx[s]: "new", "live" or "done"
    subClosed,   \* the subscribers whose channel is closed
    dist,        \* dist[s]: the distribute goroutine that the watch of s started
    aCtx,        \* aCtx[s]: the subscriber whose context it waits for
    got,         \* got[s]: what its select returned
    ended,       \* the distributions whose watch of the client has ended
    passiveOn,   \* c.cancelPassive is set
    sink         \* the sink of the passive watch: "none", "on", "cancelled", "closed"

aggVars == <<autoMode, auto, autoSub, subs, subCtx, subClosed, dist, aCtx, got, ended, passiveOn, sink>>

AggInit ==
    /\ autoMode \in AutoModes
    /\ auto = IF autoMode = "none" THEN "off" ELSE "start"
    /\ autoSub = NoSub
    /\ subs = {}
    /\ subCtx = [s \in Sub |-> "new"]
    /\ subClosed = {}
    /\ dist = [s \in Sub |-> "none"]
    /\ aCtx = [s \in Sub |-> NoSub]
    /\ got = [s \in Sub |-> "none"]
    /\ ended = {}
    /\ passiveOn = FALSE
    /\ sink = "none"

\* Watch with the next free number.
Subscribe(s) ==
    /\ subCtx[s] = "new" /\ \A t \in 1 .. s - 1 : subCtx[t] # "new"
    /\ subCtx' = [subCtx EXCEPT ![s] = "live"]
    /\ subs' = subs \cup {s}
    /\ \/ /\ subs = {}
          /\ dist' = [dist EXCEPT ![s] = "top"]
          /\ passiveOn' = FALSE
          /\ sink' = IF passiveOn /\ sink = "on" THEN "cancelled" ELSE sink
       \/ /\ subs # {}
          /\ UNCHANGED <<dist, passiveOn, sink>>
    /\ UNCHANGED <<autoMode, subClosed, aCtx, got, ended>>

AggWatch(s) == Subscribe(s) /\ UNCHANGED <<auto, autoSub>>

\* The context of a subscriber ends.
AggLeave(s) ==
    /\ subCtx[s] = "live"
    /\ subCtx' = [subCtx EXCEPT ![s] = "done"]
    /\ UNCHANGED <<autoMode, auto, autoSub, subs, subClosed, dist, aCtx, got, ended, passiveOn, sink>>

\* c.subscribers[0]
First(s) == \A t \in subs : s <= t

\* distribute: the first critical section.
DistTop(d) ==
    /\ dist[d] = "top"
    /\ \/ /\ subs = {}
          /\ dist' = [dist EXCEPT ![d] = "over"]
          /\ UNCHANGED aCtx
       \/ /\ subs # {}
          /\ dist' = [dist EXCEPT ![d] = "select"]
          /\ \E s \in subs : First(s) /\ aCtx' = [aCtx EXCEPT ![d] = s]
    /\ UNCHANGED <<autoMode, auto, autoSub, subs, subCtx, subClosed, got, ended, passiveOn, sink>>

\* The select: a result, the end of the watch, or of the first context.
DistSelect(d) ==
    /\ dist[d] = "select"
    /\ dist' = [dist EXCEPT ![d] = "lock"]
    /\ \/ got' = [got EXCEPT ![d] = "result"] /\ UNCHANGED ended
       \/ got' = [got EXCEPT ![d] = "end"] /\ ended' = ended \cup {d}
       \/ subCtx[aCtx[d]] = "done" /\ got' = [got EXCEPT ![d] = "left"] /\ UNCHANGED ended
    /\ UNCHANGED <<autoMode, auto, autoSub, subs, subCtx, subClosed, aCtx, passiveOn, sink>>

\* Mutant: only the subscribers that left are closed when the watch ends.
DistDeliverKeeps(d) ==
    LET keep == {s \in subs : subCtx[s] = "live"}
    IN /\ dist[d] = "lock"
       /\ subs' = keep
       /\ subClosed' = subClosed \cup (subs \ keep)
       /\ dist' = [dist EXCEPT ![d] = IF got[d] = "result" THEN "top" ELSE "over"]
       /\ got' = [got EXCEPT ![d] = "none"]
       /\ aCtx' = [aCtx EXCEPT ![d] = NoSub]
       /\ UNCHANGED <<autoMode, auto, autoSub, subCtx, ended, passiveOn, sink>>

\* The second critical section.  A result is sent without waiting, so what is in
\* the channels does not matter here.
DistDeliver(d) ==
    LET keep == {s \in subs : got[d] = "result" /\ subCtx[s] = "live"}
    IN /\ dist[d] = "lock"
       /\ subs' = keep
       /\ subClosed' = subClosed \cup (subs \ keep)
       /\ dist' = [dist EXCEPT ![d] = IF got[d] = "result" THEN "top" ELSE "over"]
       /\ got' = [got EXCEPT ![d] = "none"]
       /\ aCtx' = [aCtx EXCEPT ![d] = NoSub]
       /\ UNCHANGED <<autoMode, auto, autoSub, subCtx, ended, passiveOn, sink>>

\* startAutoWatch: the watch it starts, the passive one only without subscribers.
AutoWatch ==
    /\ auto = "start"
    /\ \/ /\ autoMode = "full"
          /\ \E s \in Sub : Subscribe(s) /\ auto' = "full" /\ autoSub' = s
       \/ /\ autoMode = "passive"
          /\ \/ passiveOn /\ auto' = "nil" /\ UNCHANGED <<passiveOn, sink>>
             \/ ~passiveOn /\ subs = {} /\ auto' = "passive" /\ passiveOn' = TRUE /\ sink' = "on"
             \/ ~passiveOn /\ subs # {} /\ auto' = "retry" /\ UNCHANGED <<passiveOn, sink>>
          /\ UNCHANGED <<autoMode, autoSub, subs, subCtx, subClosed, dist, aCtx, got, ended>>

\* The passive client ends its watch, by itself or because it is cancelled.
PassiveEnds ==
    /\ sink \in {"on", "cancelled"}
    /\ sink' = "closed"
    /\ UNCHANGED <<autoMode, auto, autoSub, subs, subCtx, subClosed, dist, aCtx, got, ended, passiveOn>>

\* The loop sees the end of its watch, and waits before the next one.
AutoEnded ==
    /\ \/ auto = "passive" /\ sink = "closed" /\ sink' = "none"
       \/ auto = "full" /\ autoSub \in subClosed /\ UNCHANGED sink
    /\ auto' = "retry"
    /\ UNCHANGED <<autoMode, autoSub, subs, subCtx, subClosed, dist, aCtx, got, ended, passiveOn>>

AutoRetry ==
    /\ auto = "retry"
    /\ auto' = "start"
    /\ UNCHANGED <<autoMode, autoSub, subs, subCtx, subClosed, dist, aCtx, got, ended, passiveOn, sink>>

AggNext ==
    \/ \E s \in Sub :
          AggWatch(s) \/ AggLeave(s) \/ DistTop(s) \/ DistSelect(s) \/ DistDeliver(s)
    \/ AutoWatch \/ PassiveEnds \/ AutoEnded \/ AutoRetry

AggSpec == AggInit /\ [][AggNext]_aggVars
------------------------------------------------------------------------------
Distributing == {d \in Sub : dist[d] \in {"top", "select", "lock"}}

\* A subscriber that waits for results is in the list with an open channel, and
\* some distribute goroutine will look at the list again: nobody waits for ever
\* while Watch and distribute hand the list over (Watch, distribute).
SubscribersServed ==
    /\ subs = {s \in Sub : subCtx[s] # "new"} \ subClosed
    /\ subs # {} => Distributing # {}

\* The channel of a subscriber that is still interested is only closed when a
\* watch ended or a subscriber that came before it has left: nothing later ends
\* it (distribute closes every channel when the first context is done).
ClosedByEarlier ==
    \A s \in subClosed : subCtx[s] = "live" =>
        ended # {} \/ (\E t \in 1 .. s - 1 : subCtx[t] = "done")

\* The passive client is not watched for its own sake while there are
\* subscribers: Watch takes over from it, and the loop only starts it on an
\* empty list (Watch, passiveWatch).
PassiveYields == passiveOn \/ sink = "on" => subs = {}

(***************************************************************************)
(* Whoever watches is served, and the passive client gives way (Watch,     *)
(* distribute, passiveWatch).                                              *)
(***************************************************************************)
WatchersServed ==
    /\ SubscribersServed
    /\ ClosedByEarlier
    /\ PassiveYields
==============================================================================
