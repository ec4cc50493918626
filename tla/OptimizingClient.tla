-------------------------- MODULE OptimizingClient ---------------------------
(***************************************************************************)
(* The client that prefers the fastest of several clients                  *)
(* (client/optimizing.go).  Get asks them in the order of their last round *)
(* trip times until one answers; a speed test asks all.  Watch keeps       *)
(* Concurrency of them watched, replaces those whose watch ends, and now   *)
(* and then gives up the slowest for the fastest.  Passive clients are     *)
(* watched from the start and never cancelled.  Times are logical: a       *)
(* request starts, and a watched round is due, at the next value of the    *)
(* clock.                                                                  *)
(***************************************************************************)
EXTENDS Integers, Sequences, SequencesExt, FiniteSets

CONSTANTS
    Source,        \* the clients
    Passive,       \* those marked passive
    Concurrency,   \* requestConcurrency
    Trips,         \* the round trip times that are told apart
    MaxCalls,      \* bound: calls to Get and speed tests
    MaxWatches,    \* bound: watches of the sources that have not ended
    MaxAsked,      \* bound: requests
    MaxResults     \* bound: results of watches

Never == 1 + CHOOSE t \in Trips : \A u \in Trips : u <= t    \* math.MaxInt64
Call == 1 .. MaxCalls
WatchId == 1 .. MaxWatches

VARIABLES
    stat,       \* stat[c]: last round trip time and its start
    order,      \* oc.stats: the clients, fastest first
    optClock,   \* the clock
    call,       \* call[g]: "idle", "get", "test"; ended: "got", "failed", "tested", "cancelled"
    todo,       \* todo[g]: clients the call has not asked yet
    asked,      \* asked[g]: requests under way, <<client, start>>
    sample,     \* sample[g]: the stats the call has gathered
    won,        \* won[g]: a client has answered
    reported,   \* all stats that updateStats was called with
    watching,   \* the watch: "idle", "passive", "on", "over" (its result channel is closed)
    ctxDone,    \* the context of the watch has ended
    stream,     \* stream[w]: "none", "open", "cancelled", "ending"
    source,     \* source[w]: whose watch it is
    active,     \* ws.active: the watches kept up
    protected,  \* ws.protected
    failed,     \* ws.failed
    closingCh,  \* closingClients, of length one
    cycled,     \* closeSlowest has cancelled a watch
    panicked    \* a result was sent on the closed channel

statVars == <<stat, order, optClock, reported>>
getVars == <<call, todo, asked, sample, won>>
watchVars == <<watching, ctxDone, stream, source, active, protected, failed, closingCh, cycled, panicked>>
optVars == <<statVars, getVars, watchVars>>

OptInit ==
    /\ stat = [c \in Source |-> IF c \in Passive THEN [rtt |-> Never, start |-> MaxAsked + MaxResults + 1]
                                                 ELSE [rtt |-> 0, start |-> 0]]
    /\ order \in SetToSeqs(Source)
    /\ optClock = 0 /\ reported = {}
    /\ call = [g \in Call |-> "idle"]
    /\ todo = [g \in Call |-> <<>>]
    /\ asked = [g \in Call |-> {}]
    /\ sample = [g \in Call |-> {}]
    /\ won = [g \in Call |-> FALSE]
    /\ watching = "idle" /\ ctxDone = FALSE
    /\ stream = [w \in WatchId |-> "none"]
    /\ source = [w \in WatchId |-> CHOOSE c \in Source : TRUE]
    /\ active = {} /\ protected = {} /\ failed = {}
    /\ closingCh = <<>> /\ cycled = FALSE /\ panicked = FALSE

Tick(limit) == optClock < limit /\ optClock' = optClock + 1

\* Mutant: the sample that is reported last.
NewestReported(c, samples) ==
    LET own == {s \in samples : s.client = c}
    IN IF own = {} THEN stat[c]
       ELSE LET s == CHOOSE s \in own : TRUE IN [rtt |-> s.rtt, start |-> s.start]

\* updateStats: newer samples replace older ones, then a sort that need not be
\* stable.
Newest(c, samples) ==
    LET own == {s \in samples : s.client = c /\ s.start > stat[c].start}
    IN IF own = {} THEN stat[c]
       ELSE LET s == CHOOSE s \in own : \A t \in own : t.start <= s.start
            IN [rtt |-> s.rtt, start |-> s.start]
UpdateStats(samples) ==
    /\ stat' = [c \in Source |-> Newest(c, samples)]
    /\ order' \in {s \in SetToSeqs(Source) : \A i, j \in 1 .. Len(s) : i < j => stat'[s[i]].rtt <= stat'[s[j]].rtt}
    /\ reported' = reported \cup samples

------------------------------------------------------------------------------
(* Get, raceGet, parallelGet and testSpeed.                                *)

StartCall(g, kind) ==
    /\ call[g] = "idle" /\ \A h \in 1 .. g - 1 : call[h] # "idle"
    /\ call' = [call EXCEPT ![g] = kind]
    /\ todo' = [todo EXCEPT ![g] = IF kind = "get" THEN order
                                   ELSE SelectSeq(order, LAMBDA c : c \notin Passive)]
    /\ UNCHANGED <<asked, sample, won, statVars, watchVars>>

Ask(g) ==
    /\ call[g] \in {"get", "test"} /\ ~won[g]
    /\ todo[g] # <<>> /\ Cardinality(asked[g]) < Concurrency
    /\ Tick(MaxAsked)
    /\ asked' = [asked EXCEPT ![g] = @ \cup {<<Head(todo[g]), optClock + 1>>}]
    /\ todo' = [todo EXCEPT ![g] = Tail(@)]
    /\ UNCHANGED <<call, sample, won, stat, order, reported, watchVars>>

\* A request ends with an answer, an error, or its timeout, which leaves no stat.
\* Passive clients have no Get.
Answered(g, q) ==
    /\ call[g] \in {"get", "test"} /\ ~won[g] /\ q \in asked[g]
    /\ asked' = [asked EXCEPT ![g] = @ \ {q}]
    /\ \/ /\ q[1] \notin Passive
          /\ \E t \in Trips : sample' = [sample EXCEPT ![g] = @ \cup {[client |-> q[1], rtt |-> t, start |-> q[2]]}]
          /\ won' = [won EXCEPT ![g] = call[g] = "get"]
       \/ /\ sample' = [sample EXCEPT ![g] = @ \cup {[client |-> q[1], rtt |-> Never, start |-> q[2]]}]
          /\ UNCHANGED won
       \/ /\ q[1] \notin Passive
          /\ UNCHANGED <<sample, won>>
    /\ UNCHANGED <<call, todo, statVars, watchVars>>

\* The race is won, everyone was asked, or the context or the client is closed.
EndCall(g) ==
    /\ call[g] \in {"get", "test"}
    /\ call' = [call EXCEPT ![g] = IF won[g] THEN "got"
                                   ELSE IF todo[g] # <<>> \/ asked[g] # {} THEN "cancelled"
                                   ELSE IF call[g] = "get" THEN "failed" ELSE "tested"]
    /\ UpdateStats(sample[g])
    /\ UNCHANGED <<todo, asked, sample, won, optClock, watchVars>>

------------------------------------------------------------------------------
(* Watch, dispatchWatchingClients and watchNext.                           *)

Sources(ws) == {source[w] : w \in ws}

\* tryRepopulate after done or closeSlowest left the watches "kept", the failed
\* clients "down" and the protected "safe": some back-offs are over, then the
\* fastest clients that are not in use are watched.
TryRepopulate(kept, down, safe, cancelled) ==
    \E still \in SUBSET down :
        LET eligible == SelectSeq(order, LAMBDA c : c \notin Sources(kept) \cup still \cup safe)
            wanted == Concurrency - Cardinality(kept)
            next == {eligible[i] : i \in 1 .. IF wanted < Len(eligible) THEN wanted ELSE Len(eligible)}
            free == {w \in WatchId \ kept : stream[w] = "none"}
            new == {w \in free : Cardinality({v \in free : v <= w}) <= Cardinality(next)}
        IN /\ Cardinality(new) = Cardinality(next)
           /\ failed' = still
           /\ active' = kept \cup new
           /\ \E f \in [new -> next] :
                 /\ \A i, j \in new : f[i] = f[j] => i = j
                 /\ source' = [w \in WatchId |-> IF w \in new THEN f[w] ELSE source[w]]
           /\ stream' = [w \in WatchId |-> IF w \in new THEN "open"
                                           ELSE IF w \in cancelled /\ stream[w] = "open" THEN "cancelled"
                                           ELSE stream[w]]

OptWatch ==
    /\ watching = "idle"
    /\ watching' = "passive"
    /\ \E f \in [1 .. Cardinality(Passive) -> Passive] :
          /\ \A c \in Passive : \E w \in DOMAIN f : f[w] = c
          /\ source' = [w \in WatchId |-> IF w \in DOMAIN f THEN f[w] ELSE source[w]]
          /\ stream' = [w \in WatchId |-> IF w \in DOMAIN f THEN "open" ELSE "none"]
    /\ protected' = Passive
    /\ UNCHANGED <<ctxDone, active, failed, closingCh, cycled, panicked, statVars, getVars>>

\* No client tells the chain's parameters: the result channel is closed at once.
WatchWithoutInfo ==
    /\ watching = "idle"
    /\ watching' = "over"
    /\ UNCHANGED <<ctxDone, stream, source, active, protected, failed, closingCh, cycled, panicked, statVars, getVars>>

DispatchStart ==
    /\ watching = "passive"
    /\ watching' = "on"
    /\ TryRepopulate({}, {}, protected, {})
    /\ UNCHANGED <<ctxDone, protected, closingCh, cycled, panicked, statVars, getVars>>

\* watchNext: a result of the stream, which a cancelled one may still have.
OptWatchResult(w) ==
    /\ stream[w] \in {"open", "cancelled"}
    /\ \/ /\ watching # "over"
          /\ Tick(MaxResults)
          /\ \E t \in Trips : UpdateStats({[client |-> source[w], rtt |-> t, start |-> optClock + 1]})
          /\ UNCHANGED panicked
       \/ /\ watching = "over"
          /\ panicked' = TRUE
          /\ UNCHANGED statVars
    /\ UNCHANGED <<watching, ctxDone, stream, source, active, protected, failed, closingCh, cycled, getVars>>

WatchEnds(w) ==
    /\ stream[w] \in {"open", "cancelled"}
    /\ stream' = [stream EXCEPT ![w] = "ending"]
    /\ UNCHANGED <<watching, ctxDone, source, active, protected, failed, closingCh, cycled, panicked, statVars, getVars>>

WatchClosing(w) ==
    /\ stream[w] = "ending" /\ closingCh = <<>>
    /\ closingCh' = <<source[w]>>
    /\ stream' = [stream EXCEPT ![w] = "none"]
    /\ UNCHANGED <<watching, ctxDone, source, active, protected, failed, cycled, panicked, statVars, getVars>>

\* hasActive and hasProtected
NothingLeft(kept, safe) == kept = {} /\ safe = {}

\* A closing client: done, and the end of the watch when nothing is left.
ReplaceClosed ==
    /\ watching = "on" /\ closingCh # <<>>
    /\ LET c == closingCh[1]
           mine == {w \in active : source[w] = c}
           safe == IF mine = {} THEN protected \ {c} ELSE protected
           down == IF mine = {} THEN failed ELSE failed \cup {c}
       IN /\ protected' = safe
          /\ \/ ~ctxDone /\ TryRepopulate(active \ mine, down, safe, mine)
             \/ /\ ctxDone
                /\ active' = active \ mine /\ failed' = down
                /\ stream' = [w \in WatchId |-> IF w \in mine /\ stream[w] = "open" THEN "cancelled" ELSE stream[w]]
                /\ UNCHANGED source
    /\ closingCh' = <<>>
    /\ watching' = IF NothingLeft(active', protected') THEN "over" ELSE "on"
    /\ UNCHANGED <<ctxDone, cycled, panicked, statVars, getVars>>

\* Mutant: the slowest watch is forgotten, not cancelled.
CycleForgets ==
    /\ watching = "on"
    /\ order[1] \notin Sources(active) \cup protected
    /\ LET rank(w) == CHOOSE i \in 1 .. Len(order) : order[i] = source[w]
           slowest == {w \in active : \A v \in active : rank(v) <= rank(w)}
       IN TryRepopulate(active \ slowest, failed, protected, {})
    /\ UNCHANGED <<watching, ctxDone, protected, closingCh, cycled, panicked, statVars, getVars>>

\* The ticker: the slowest watch makes place for the fastest client.
CycleFastest ==
    /\ watching = "on"
    /\ order[1] \notin Sources(active) \cup protected
    /\ LET rank(w) == CHOOSE i \in 1 .. Len(order) : order[i] = source[w]
           slowest == {w \in active : \A v \in active : rank(v) <= rank(w)}
       IN /\ TryRepopulate(active \ slowest, failed, protected, slowest)
          /\ cycled' = (cycled \/ slowest # {})
    /\ UNCHANGED <<watching, ctxDone, protected, closingCh, panicked, statVars, getVars>>

EndContext ==
    /\ watching \in {"passive", "on"} /\ ~ctxDone
    /\ ctxDone' = TRUE
    /\ UNCHANGED <<watching, stream, source, active, protected, failed, closingCh, cycled, panicked, statVars, getVars>>

CancelActive ==
    /\ watching = "on" /\ ctxDone
    /\ stream' = [w \in WatchId |-> IF w \in active /\ stream[w] = "open" THEN "cancelled" ELSE stream[w]]
    /\ UNCHANGED <<watching, ctxDone, source, active, protected, failed, closingCh, cycled, panicked, statVars, getVars>>

OptGetNext ==
    \E g \in Call :
        \/ StartCall(g, "get") \/ StartCall(g, "test") \/ Ask(g) \/ EndCall(g)
        \/ \E q \in asked[g] : Answered(g, q)

OptWatchNext ==
    \/ \E w \in WatchId : OptWatchResult(w) \/ WatchEnds(w) \/ WatchClosing(w)
    \/ OptWatch \/ WatchWithoutInfo \/ DispatchStart \/ ReplaceClosed \/ CycleFastest \/ EndContext \/ CancelActive

OptSpec == OptInit /\ [][OptGetNext \/ OptWatchNext]_optVars
------------------------------------------------------------------------------
\* However calls, speed tests and watches overlap and report late, the stat of a
\* client is its newest sample, the list is sorted by it, and passive clients
\* stay last (updateStats, MarkPassive).
StatsAreNewest ==
    /\ \A s \in reported : s.client \notin Passive /\ s.start > 0 =>
          /\ s.start <= stat[s.client].start
          /\ stat[s.client] \in {[rtt |-> t.rtt, start |-> t.start] : t \in {u \in reported : u.client = s.client}}
    /\ reported # {} => \A i, j \in 1 .. Len(order) : i < j => stat[order[i]].rtt <= stat[order[j]].rtt
    /\ \A c \in Passive : stat[c].rtt = Never

\* A Get that was not cancelled fails only after every client was asked and none
\* answered (raceGet goes on after errors and timeouts).
GetAsksEveryone ==
    \A g \in Call : call[g] = "failed" =>
        /\ todo[g] = <<>> /\ asked[g] = {}
        /\ \A s \in sample[g] : s.rtt = Never

\* A watch of a source that nobody has cancelled is one that the dispatcher keeps
\* in its lists, so none is left open unattended, whatever order the ends of
\* watches are seen in (done, closeSlowest, tryRepopulate).
OpenWatchIsKept ==
    watching \in {"on", "over"} =>
        \A w \in WatchId : stream[w] = "open" => w \in active \/ source[w] \in protected

\* The result channel is closed only when no watch can send on it any more,
\* unless closeSlowest had cancelled one that has not ended yet.
ClosedWhenQuiet ==
    /\ panicked => cycled
    /\ watching = "over" /\ ~cycled => \A w \in WatchId : stream[w] \in {"none", "ending"}

(***************************************************************************)
(* The dispatcher of a watch knows every watch that is open, and closes    *)
(* its results after the last one (done, closeSlowest, tryRepopulate).     *)
(***************************************************************************)
WatchesAccounted ==
    /\ OpenWatchIsKept
    /\ ClosedWhenQuiet

(***************************************************************************)
(* A race takes the clients in the order of their newest samples and       *)
(* leaves none out (updateStats, raceGet).                                 *)
(***************************************************************************)
RacesAreFair ==
    /\ StatsAreNewest
    /\ GetAsksEveryone
==============================================================================
