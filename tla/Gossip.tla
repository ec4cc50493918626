-------------------------------- MODULE Gossip -------------------------------
(***************************************************************************)
(* Randomness over pubsub: relay nodes that publish what their client      *)
(* watches (lp2p/relaynode.go), the validator of the topic                 *)
(* (lp2p/client/validator.go) and the gossip client with its watches       *)
(* (lp2p/client/client.go).  Pubsub may lose, repeat and reorder messages, *)
(* and carries some that do not verify.  A message is a round and whether  *)
(* its signature is the group's.                                           *)
(***************************************************************************)
EXTENDS Integers, Sequences, FiniteSets

CONSTANTS
    Relay,       \* relay nodes
    GWatch,      \* watches of the gossip client
    LastDue,     \* bound: last round that becomes due
    SubQueue,    \* length of the queue of a pubsub subscription
    Invalid      \* rounds of published messages that do not verify

VARIABLES
    gDue,       \* last round whose time has come
    relay,      \* relay[n]: "watching", "asleep", "stopped"
    topic,      \* messages published
    gCache,     \* rounds in the cache
    gQueue,     \* accepted messages not read yet
    gLoop,      \* the goroutine of the client: "on", "closing", "off"
    gLatest,    \* c.latest
    listed,     \* c.subs.M: watches whose channel is listed
    inner,      \* inner[s]: innerCh, "open" or "closed"
    gw,         \* gw[s]: "none", "select", "forward", "drain", "gone"
    gctx,       \* gctx[s]: the context of the watch has ended
    holding,    \* holding[s]: round being forwarded
    seen,       \* seen[s]: last round its user got
    gPanic      \* a channel was closed twice

relayVars == <<gDue, relay, topic>>
subVars == <<listed, inner, gw, gctx, holding, seen>>
gossipVars == <<relayVars, gCache, gQueue, gLoop, gLatest, subVars, gPanic>>

GossipInit ==
    /\ gDue = 1 /\ topic = {}
    /\ relay = [n \in Relay |-> "watching"]
    /\ gCache = {} /\ gQueue = <<>> /\ gLoop = "on" /\ gLatest = 0
    /\ listed = {}
    /\ inner = [s \in GWatch |-> "open"]
    /\ gw = [s \in GWatch |-> "none"]
    /\ gctx = [s \in GWatch |-> FALSE]
    /\ holding = [s \in GWatch |-> 0]
    /\ seen = [s \in GWatch |-> 0]
    /\ gPanic = FALSE

GossipDue ==
    /\ gDue < LastDue
    /\ gDue' = gDue + 1
    /\ UNCHANGED <<relay, topic, gCache, gQueue, gLoop, gLatest, subVars, gPanic>>

------------------------------------------------------------------------------
(* GossipRelayNode.background: publish, watch again after a second when    *)
(* the watch ends, stop.                                                   *)

RelayPublish(n, r) ==
    /\ relay[n] = "watching" /\ r <= gDue
    /\ topic' = topic \cup {[round |-> r, ok |-> TRUE]}
    /\ UNCHANGED <<gDue, relay, gCache, gQueue, gLoop, gLatest, subVars, gPanic>>

RelayStep(n, from, to) ==
    /\ relay[n] = from
    /\ relay' = [relay EXCEPT ![n] = to]
    /\ UNCHANGED <<gDue, topic, gCache, gQueue, gLoop, gLatest, subVars, gPanic>>

RelayLoses(n) == RelayStep(n, "watching", "asleep")
RelayWatch(n) == RelayStep(n, "asleep", "watching")
RelayShutdown(n) == RelayStep(n, "watching", "stopped")

------------------------------------------------------------------------------
(* The validator and the client.                                           *)

Accepts(m) == m.round <= gDue /\ m.round \notin gCache /\ m.ok

\* A message arrives and passes the validator; pubsub drops it when the queue of
\* the subscription is full.
Arrive(m) ==
    /\ gLoop # "off" /\ Accepts(m) /\ Len(gQueue) < SubQueue
    /\ gQueue' = Append(gQueue, m)
    /\ UNCHANGED <<relayVars, gCache, gLoop, gLatest, subVars, gPanic>>

\* Other users of the cache add to it and push out old rounds.
CacheChange(r) ==
    /\ r <= gDue
    /\ gCache' = IF r \in gCache THEN gCache \ {r} ELSE gCache \cup {r}
    /\ UNCHANGED <<relayVars, gQueue, gLoop, gLatest, subVars, gPanic>>

\* Mutant: results are forwarded as they come.
NewerAlways(r) == TRUE

Newer(r) == r > gLatest

\* The loop of NewWithPubsub: watches that are not ready to receive miss it.
GossipRead ==
    /\ gLoop = "on" /\ gQueue # <<>>
    /\ gQueue' = Tail(gQueue)
    /\ LET r == Head(gQueue).round
           take == {s \in listed : gw[s] = "select" /\ Newer(r)}
       IN /\ gLatest' = IF Newer(r) THEN r ELSE gLatest
          /\ gw' = [s \in GWatch |-> IF s \in take THEN "forward" ELSE gw[s]]
          /\ holding' = [s \in GWatch |-> IF s \in take THEN r ELSE holding[s]]
    /\ UNCHANGED <<relayVars, gCache, gLoop, listed, inner, gctx, seen, gPanic>>

CloseClient ==
    /\ gLoop = "on"
    /\ gLoop' = "closing"
    /\ UNCHANGED <<relayVars, gCache, gQueue, gLatest, subVars, gPanic>>

LoopCloses ==
    /\ gLoop = "closing"
    /\ gLoop' = "off" /\ gQueue' = <<>>
    /\ inner' = [s \in GWatch |-> IF s \in listed THEN "closed" ELSE inner[s]]
    /\ listed' = {}
    /\ UNCHANGED <<relayVars, gCache, gLatest, gw, gctx, holding, seen, gPanic>>

\* Watch and Sub.
GossipWatch(s) ==
    /\ gw[s] = "none"
    /\ gw' = [gw EXCEPT ![s] = "select"]
    /\ listed' = listed \cup {s}
    /\ UNCHANGED <<relayVars, gCache, gQueue, gLoop, gLatest, inner, gctx, holding, seen, gPanic>>

\* The result goes to the cache, and to the user if they are receiving.
Forward(s, taken) ==
    /\ gw[s] = "forward"
    /\ gw' = [gw EXCEPT ![s] = "select"]
    /\ gCache' = gCache \cup {holding[s]}
    /\ seen' = [seen EXCEPT ![s] = IF taken THEN holding[s] ELSE @]
    /\ UNCHANGED <<relayVars, gQueue, gLoop, gLatest, listed, inner, gctx, holding, gPanic>>

EndWatchContext(s) ==
    /\ gw[s] \in {"select", "forward"} /\ ~gctx[s]
    /\ gctx' = [gctx EXCEPT ![s] = TRUE]
    /\ UNCHANGED <<relayVars, gCache, gQueue, gLoop, gLatest, listed, inner, gw, holding, seen, gPanic>>

\* ctx.Done was chosen: the channel is unlisted and closed.
Unsubscribe(s) ==
    /\ gw[s] = "select" /\ gctx[s]
    /\ gw' = [gw EXCEPT ![s] = "gone"]
    /\ listed' = listed \ {s}
    /\ inner' = [inner EXCEPT ![s] = "closed"]
    /\ gPanic' = (gPanic \/ inner[s] = "closed")
    /\ UNCHANGED <<relayVars, gCache, gQueue, gLoop, gLatest, gctx, holding, seen>>

InnerClosed(s) ==
    /\ gw[s] = "select" /\ inner[s] = "closed"
    /\ gw' = [gw EXCEPT ![s] = "gone"]
    /\ UNCHANGED <<relayVars, gCache, gQueue, gLoop, gLatest, listed, inner, gctx, holding, seen, gPanic>>

GossipNext ==
    \/ GossipDue \/ GossipRead \/ CloseClient \/ LoopCloses
    \/ \E n \in Relay :
          \/ \E r \in 1 .. LastDue : RelayPublish(n, r)
          \/ RelayLoses(n) \/ RelayWatch(n) \/ RelayShutdown(n)
    \/ \E m \in topic \cup {[round |-> r, ok |-> FALSE] : r \in Invalid} : Arrive(m)
    \/ \E r \in 1 .. LastDue : CacheChange(r)
    \/ \E s \in GWatch :
          \/ GossipWatch(s) \/ EndWatchContext(s) \/ Unsubscribe(s) \/ InnerClosed(s)
          \/ \E taken \in BOOLEAN : Forward(s, taken)

GossipSpec == GossipInit /\ [][GossipNext]_gossipVars
------------------------------------------------------------------------------
\* However messages are repeated and reordered, and whatever the cache drops in
\* between, a watch hands its user later and later rounds, each one published by
\* a relay and not before its time.
WatchGoesForward ==
    [][\A s \in GWatch : seen'[s] # seen[s] =>
          /\ seen'[s] > seen[s]
          /\ seen'[s] <= gDue
          /\ [round |-> seen'[s], ok |-> TRUE] \in topic]_gossipVars

\* A listed channel is open, so the loop never sends on a closed one; a channel is
\* closed twice only if the client was closed and the watch's context ended too.
ChannelsSafe ==
    /\ \A s \in listed : inner[s] = "open" /\ gw[s] \in {"select", "forward"}
    /\ gPanic => gLoop = "off" /\ \E s \in GWatch : gctx[s]
==============================================================================
