----------------------------- MODULE CallbackStore ---------------------------
(***************************************************************************)
(* The store that tells callbacks about new beacons                        *)
(* (chain/beacon/store.go) with the streams that register on it: the       *)
(* server side of a sync (chain/beacon/sync.go), the public stream         *)
(* (core/drand_public.go) and the in-process proxy of it                   *)
(* (core/drand_proxy.go).  Beacons are put by the aggregator and by the    *)
(* syncer; a pool of workers runs the callbacks from a bounded queue.      *)
(***************************************************************************)
EXTENDS Integers, Sequences, FiniteSets

CONSTANTS
    Putter,       \* goroutines that store beacons
    Worker,       \* runWorkers
    Stream,       \* calls to SyncChain, PublicRandStream and the proxy's Watch
    KindOf(_),    \* "sync", "public" or "proxy"
    AddrOf(_),    \* remote address, the name of its callback
    Mixes,        \* the sets of streams that are explored together
    QueueLen,     \* CallbackWorkerQueue
    LastRound     \* bound: rounds stored

ASSUME CallbackAssumption ==
    /\ "chainstore" \notin Stream /\ Mixes \subseteq SUBSET Stream
    /\ LastRound \in Nat /\ QueueLen \in Nat /\ Worker # {}

VARIABLES
    stored,     \* rounds in the store
    put,        \* put[p]: "idle", "stored", "sending"
    putRound,   \* putRound[p]: the round it puts
    todo,       \* todo[p]: callbacks it has not queued yet
    cbLock,     \* who holds the mutex: a putter or "free"
    callbacks,  \* the streams registered, at most one per address
    jobs,       \* newJob: <<callback, round>>
    work,       \* work[w]: "idle", "run", "remove", "done", "stopped"
    job,        \* job[w]: the job it runs
    told,       \* rounds the aggregation loop was told of ("chainstore")
    stream,     \* stream[s]: "none", "cursor", "register", "live", "ending", "over"
    from, snap, \* first round asked for; last round the cursor sees
    sent,       \* sent[s]: rounds the stream has sent
    again,      \* again[s]: rounds it has sent more than once
    broken,     \* broken[s]: its peer is gone
    doneCh,     \* doneCh[s]: done, of length one, is full
    outgoing,   \* outgoing[s]: the proxy's channel, "open", "closed", "panic"
    mix,        \* the streams of this behaviour
    regAt,      \* regAt[s]: rounds stored when it registered
    storeClosed \* Close was called

putVars == <<stored, put, putRound, todo>>
workVars == <<work, job, told>>
streamVars == <<stream, from, snap, regAt, mix>>
sendVars == <<sent, again, outgoing>>
cbVars == <<putVars, cbLock, callbacks, jobs, workVars, streamVars, sendVars, broken, doneCh, storeClosed>>

CBInit ==
    /\ stored = 1 /\ mix \in Mixes
    /\ put = [p \in Putter |-> "idle"] /\ putRound = [p \in Putter |-> 0] /\ todo = [p \in Putter |-> {}]
    /\ cbLock = "free" /\ callbacks = {} /\ jobs = <<>>
    /\ work = [w \in Worker |-> "idle"] /\ job = [w \in Worker |-> <<>>] /\ told = {1}
    /\ stream = [s \in Stream |-> "none"]
    /\ from = [s \in Stream |-> 0] /\ snap = [s \in Stream |-> 0] /\ regAt = [s \in Stream |-> 0]
    /\ sent = [s \in Stream |-> {}] /\ again = [s \in Stream |-> {}]
    /\ broken = [s \in Stream |-> FALSE] /\ doneCh = [s \in Stream |-> FALSE]
    /\ outgoing = [s \in Stream |-> "open"]
    /\ storeClosed = FALSE

------------------------------------------------------------------------------
(* Put: the append store first, then one job per callback under the lock.  *)

PutStore(p) ==
    /\ put[p] = "idle" /\ stored < LastRound /\ ~storeClosed
    /\ stored' = stored + 1
    /\ put' = [put EXCEPT ![p] = "stored"]
    /\ putRound' = [putRound EXCEPT ![p] = stored + 1]
    /\ UNCHANGED <<todo, cbLock, callbacks, jobs, workVars, streamVars, sendVars, broken, doneCh, storeClosed>>

\* Mutant: Put tells only the streams.
PutLockStreams(p) ==
    /\ put[p] = "stored" /\ cbLock = "free"
    /\ cbLock' = p
    /\ put' = [put EXCEPT ![p] = "sending"]
    /\ todo' = [todo EXCEPT ![p] = callbacks]
    /\ UNCHANGED <<stored, putRound, callbacks, jobs, workVars, streamVars, sendVars, broken, doneCh, storeClosed>>

PutLock(p) ==
    /\ put[p] = "stored" /\ cbLock = "free"
    /\ cbLock' = p
    /\ put' = [put EXCEPT ![p] = "sending"]
    /\ todo' = [todo EXCEPT ![p] = callbacks \cup {"chainstore"}]
    /\ UNCHANGED <<stored, putRound, callbacks, jobs, workVars, streamVars, sendVars, broken, doneCh, storeClosed>>

PutJob(p, cb) ==
    /\ put[p] = "sending" /\ cb \in todo[p] /\ Len(jobs) < QueueLen
    /\ jobs' = Append(jobs, <<cb, putRound[p]>>)
    /\ todo' = [todo EXCEPT ![p] = @ \ {cb}]
    /\ UNCHANGED <<stored, put, putRound, cbLock, callbacks, workVars, streamVars, sendVars, broken, doneCh, storeClosed>>

PutEnds(p) ==
    /\ put[p] = "sending" /\ todo[p] = {}
    /\ put' = [put EXCEPT ![p] = "idle"]
    /\ cbLock' = "free"
    /\ UNCHANGED <<stored, putRound, todo, callbacks, jobs, workVars, streamVars, sendVars, broken, doneCh, storeClosed>>

CloseStore ==
    /\ ~storeClosed
    /\ storeClosed' = TRUE
    /\ UNCHANGED <<putVars, cbLock, callbacks, jobs, workVars, streamVars, sendVars, broken, doneCh>>

------------------------------------------------------------------------------
(* runWorker and the callbacks.                                            *)

WorkerTake(w) ==
    /\ work[w] = "idle" /\ jobs # <<>>
    /\ work' = [work EXCEPT ![w] = "run"]
    /\ job' = [job EXCEPT ![w] = Head(jobs)]
    /\ jobs' = Tail(jobs)
    /\ UNCHANGED <<putVars, cbLock, callbacks, told, streamVars, sendVars, broken, doneCh, storeClosed>>

WorkerStop(w) ==
    /\ work[w] = "idle" /\ storeClosed
    /\ work' = [work EXCEPT ![w] = "stopped"]
    /\ UNCHANGED <<putVars, cbLock, callbacks, jobs, job, told, streamVars, sendVars, broken, doneCh, storeClosed>>

TellAggregator(w) ==
    /\ work[w] = "run" /\ job[w][1] = "chainstore"
    /\ told' = told \cup {job[w][2]}
    /\ work' = [work EXCEPT ![w] = "idle"] /\ job' = [job EXCEPT ![w] = <<>>]
    /\ UNCHANGED <<putVars, cbLock, callbacks, jobs, streamVars, sendVars, broken, doneCh, storeClosed>>

Deliver(s, r) ==
    /\ sent' = [sent EXCEPT ![s] = @ \cup {r}]
    /\ again' = [again EXCEPT ![s] = @ \cup ({r} \cap sent[s])]

\* Mutants of SendWorks: any stream may drop a round; a callback removes itself
\* after it has sent a round.
SendOrDrop(w) ==
    /\ work[w] = "run" /\ job[w][1] \in Stream /\ ~broken[job[w][1]]
    /\ Deliver(job[w][1], job[w][2]) \/ UNCHANGED <<sent, again>>
    /\ work' = [work EXCEPT ![w] = "idle"] /\ job' = [job EXCEPT ![w] = <<>>]
    /\ UNCHANGED <<putVars, cbLock, callbacks, jobs, told, streamVars, outgoing, broken, doneCh, storeClosed>>

SendOnce(w) ==
    /\ work[w] = "run" /\ job[w][1] \in Stream /\ ~broken[job[w][1]]
    /\ Deliver(job[w][1], job[w][2])
    /\ work' = [work EXCEPT ![w] = "remove"]
    /\ UNCHANGED <<putVars, cbLock, callbacks, jobs, job, told, streamVars, outgoing, broken, doneCh, storeClosed>>

\* stream.Send works; the proxy's drops what its user is not ready for.
SendWorks(w) ==
    /\ work[w] = "run" /\ job[w][1] \in Stream /\ ~broken[job[w][1]]
    /\ \/ Deliver(job[w][1], job[w][2])
       \/ KindOf(job[w][1]) = "proxy" /\ UNCHANGED <<sent, again>>
    /\ work' = [work EXCEPT ![w] = "idle"] /\ job' = [job EXCEPT ![w] = <<>>]
    /\ UNCHANGED <<putVars, cbLock, callbacks, jobs, told, streamVars, outgoing, broken, doneCh, storeClosed>>

\* It fails: the public stream's callback removes itself; the proxy closes its
\* channel, or panics if it did so before.
SendFails(w) ==
    /\ work[w] = "run" /\ job[w][1] \in Stream /\ broken[job[w][1]]
    /\ LET s == job[w][1]
       IN /\ work' = [work EXCEPT ![w] = IF KindOf(s) = "sync" THEN "done" ELSE "remove"]
          /\ outgoing' = [outgoing EXCEPT ![s] = IF KindOf(s) # "proxy" THEN @
                                                 ELSE IF @ = "open" THEN "closed" ELSE "panic"]
    /\ UNCHANGED <<putVars, cbLock, callbacks, jobs, job, told, streamVars, sent, again, broken, doneCh, storeClosed>>

\* The callbacks left when the one of an address is removed.
Without(a) == {t \in callbacks : AddrOf(t) # a}

WorkerRemove(w) ==
    /\ work[w] = "remove" /\ cbLock = "free"
    /\ callbacks' = Without(AddrOf(job[w][1]))
    /\ work' = [work EXCEPT ![w] = "done"]
    /\ UNCHANGED <<putVars, cbLock, jobs, job, told, streamVars, sendVars, broken, doneCh, storeClosed>>

WorkerDone(w) ==
    /\ work[w] = "done" /\ ~doneCh[job[w][1]]
    /\ doneCh' = [doneCh EXCEPT ![job[w][1]] = TRUE]
    /\ work' = [work EXCEPT ![w] = "idle"] /\ job' = [job EXCEPT ![w] = <<>>]
    /\ UNCHANGED <<putVars, cbLock, callbacks, jobs, told, streamVars, sendVars, broken, storeClosed>>

------------------------------------------------------------------------------
(* SyncChain and PublicRandStream.                                         *)

\* A sync from a round that is not stored is refused, a public stream from one
\* starts with what is new.
StreamStart(s, r) ==
    /\ stream[s] = "none" /\ s \in mix
    /\ IF KindOf(s) = "sync" THEN r \in 1 .. stored ELSE r \in 0 .. LastRound
    /\ KindOf(s) = "proxy" => r = 0
    /\ stream' = [stream EXCEPT ![s] = IF r \in 1 .. stored THEN "cursor" ELSE "register"]
    /\ from' = [from EXCEPT ![s] = r]
    /\ snap' = [snap EXCEPT ![s] = stored]
    /\ UNCHANGED <<putVars, cbLock, callbacks, jobs, workVars, regAt, mix, sendVars, broken, doneCh, storeClosed>>

\* The cursor: all rounds of its snapshot, or the end at the first failed Send.
StreamCursor(s) ==
    /\ stream[s] = "cursor"
    /\ \/ /\ ~broken[s]
          /\ sent' = [sent EXCEPT ![s] = from[s] .. snap[s]]
          /\ stream' = [stream EXCEPT ![s] = "register"]
       \/ /\ broken[s]
          /\ stream' = [stream EXCEPT ![s] = "over"]
          /\ UNCHANGED sent
    /\ UNCHANGED <<putVars, cbLock, callbacks, jobs, workVars, from, snap, regAt, mix, again, outgoing, broken, doneCh, storeClosed>>

StreamRegister(s) ==
    /\ stream[s] = "register" /\ cbLock = "free"
    /\ callbacks' = Without(AddrOf(s)) \cup {s}
    /\ stream' = [stream EXCEPT ![s] = "live"]
    /\ regAt' = [regAt EXCEPT ![s] = stored]
    /\ UNCHANGED <<putVars, cbLock, jobs, workVars, from, snap, mix, sendVars, broken, doneCh, storeClosed>>

PeerGone(s) ==
    /\ stream[s] \in {"cursor", "register", "live"} /\ ~broken[s]
    /\ broken' = [broken EXCEPT ![s] = TRUE]
    /\ UNCHANGED <<putVars, cbLock, callbacks, jobs, workVars, streamVars, sendVars, doneCh, storeClosed>>

\* The public stream ends only when a callback says so; a sync also with its
\* context, and then removes the callback of its address.
StreamEnds(s) ==
    /\ stream[s] = "live"
    /\ doneCh[s] \/ (KindOf(s) = "sync" /\ broken[s])
    /\ stream' = [stream EXCEPT ![s] = IF KindOf(s) = "sync" THEN "ending" ELSE "over"]
    /\ doneCh' = [doneCh EXCEPT ![s] = FALSE]
    /\ UNCHANGED <<putVars, cbLock, callbacks, jobs, workVars, from, snap, regAt, mix, sendVars, broken, storeClosed>>

StreamRemove(s) ==
    /\ stream[s] = "ending" /\ cbLock = "free"
    /\ callbacks' = Without(AddrOf(s))
    /\ stream' = [stream EXCEPT ![s] = "over"]
    /\ UNCHANGED <<putVars, cbLock, jobs, workVars, from, snap, regAt, mix, sendVars, broken, doneCh, storeClosed>>

CBNext ==
    \/ \E p \in Putter : PutStore(p) \/ PutLock(p) \/ PutEnds(p) \/ \E cb \in Stream \cup {"chainstore"} : PutJob(p, cb)
    \/ CloseStore
    \/ \E w \in Worker :
          \/ WorkerTake(w) \/ WorkerStop(w) \/ TellAggregator(w) \/ SendWorks(w) \/ SendFails(w)
          \/ WorkerRemove(w) \/ WorkerDone(w)
    \/ \E s \in Stream :
          \/ \E r \in 0 .. LastRound : StreamStart(s, r)
          \/ StreamCursor(s) \/ StreamRegister(s) \/ PeerGone(s) \/ StreamEnds(s) \/ StreamRemove(s)

CBSpec == CBInit /\ [][CBNext]_cbVars
------------------------------------------------------------------------------
\* Where the job of a callback for a round can be: not queued yet, queued, or with
\* a worker.
OnItsWay(cb, r) ==
    \/ \E p \in Putter : putRound[p] = r /\ (put[p] = "stored" \/ (put[p] = "sending" /\ cb \in todo[p]))
    \/ \E i \in 1 .. Len(jobs) : jobs[i] = <<cb, r>>
    \/ \E w \in Worker : work[w] = "run" /\ job[w] = <<cb, r>>

\* Whatever the streams do, the aggregation loop is told of every stored round or
\* will be: no round is lost between Put and the callback of the chain store.
StoredIsAnnounced ==
    \A r \in 1 .. stored : r \in told \/ OnItsWay("chainstore", r)

\* A stream sends a round twice only if its cursor saw it before the Put that
\* stored it came to the callbacks.
TwiceAtHandover ==
    \A s \in Stream : again[s] \subseteq 1 .. snap[s]

Alone(s) == \A t \in Stream \ {s} : AddrOf(t) = AddrOf(s) => stream[t] = "none"

\* A live stream whose address nobody else uses stays registered while its peer is
\* there, and misses no round but those stored between its cursor and its
\* registration.
LiveStreamComplete ==
    \A s \in Stream : stream[s] = "live" /\ ~broken[s] /\ Alone(s) =>
        /\ s \in callbacks
        /\ KindOf(s) # "proxy" =>
              \A r \in (IF from[s] = 0 THEN snap[s] + 1 ELSE from[s]) .. stored :
                 r \in sent[s] \cup (snap[s] + 1 .. regAt[s]) \/ r < from[s] \/ OnItsWay(s, r)

\* While the peers of the streams stay, a Put that waits for room in the queue
\* with the lock in its hands is waiting for a worker that can go on.
PutNotStuck ==
    \A p \in Putter : put[p] = "sending" /\ Len(jobs) = QueueLen =>
        \/ \E w \in Worker : work[w] \in {"idle", "run"}
        \/ \E s \in Stream : broken[s]
        \/ storeClosed

(***************************************************************************)
(* What a live stream sends is whole: nothing is missing and nothing is    *)
(* sent twice but around the hand-over from cursor to callback             *)
(* (SyncChain).                                                            *)
(***************************************************************************)
StreamsAreWhole ==
    /\ LiveStreamComplete
    /\ TwiceAtHandover
==============================================================================
