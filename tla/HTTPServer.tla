------------------------------ MODULE HTTPServer -----------------------------
(***************************************************************************)
(* The HTTP handler of the public API (http/server.go).  One goroutine     *)
(* watches the chain; a request for the round that comes next waits in a   *)
(* list that the watcher serves, others ask the client.  The first request *)
(* starts the watcher while it holds pendingLk.                            *)
(***************************************************************************)
EXTENDS Integers, FiniteSets

CONSTANTS
    Req,        \* requests
    MaxDue,     \* bound: last round that becomes due
    MaxReset    \* bound: times the stream of randomness ends

VARIABLES
    due,          \* the last round whose time has come
    starting,     \* start(): "no", "locked", "spawned", "receiving", "done"
    watcher,      \* Watch: "off", "open", "signal", "receive", "stopped"
    latestRound,  \* h.latestRound
    pending,      \* h.pending: requests whose channel is listed
    waiter,       \* waiter[q]: what is in the channel, -1 nothing, 0 empty data
    knowsInfo,    \* h.chainInfo is set
    req,          \* req[q]: where the request is
    want,         \* want[q]: the round it asks for, 0 for Health
    answer,       \* answer[q]: -1 none yet, 0 empty data, a round, or an HTTP status negated
    resets,       \* times the stream has ended
    lostWait      \* lostWait[q]: the stream ended while the request was waiting

httpVars == <<due, starting, watcher, latestRound, pending, waiter, knowsInfo, req, want, answer, resets, lostWait>>

HTTPInit ==
    /\ due = 1
    /\ starting = "no" /\ watcher = "off"
    /\ latestRound = 0 /\ pending = {}
    /\ waiter = [q \in Req |-> -1]
    /\ knowsInfo = FALSE
    /\ req = [q \in Req |-> "idle"]
    /\ want = [q \in Req |-> 0]
    /\ answer = [q \in Req |-> -1]
    /\ resets = 0 /\ lostWait = [q \in Req |-> FALSE]

Respond(q, a) ==
    /\ req' = [req EXCEPT ![q] = "answered"]
    /\ answer' = [answer EXCEPT ![q] = a]

Go(q, pc) ==
    /\ req' = [req EXCEPT ![q] = pc]
    /\ UNCHANGED answer

RoundDue ==
    /\ due < MaxDue
    /\ due' = due + 1
    /\ UNCHANGED <<starting, watcher, latestRound, pending, waiter, knowsInfo, req, want, answer, resets, lostWait>>

\* getChainInfo asks the client until it answers once.
GetChainInfo(known) ==
    \/ known /\ knowsInfo' = TRUE
    \/ ~known /\ ~knowsInfo /\ UNCHANGED knowsInfo

\* PublicRand up to getRand.
PublicRand(q, n) ==
    /\ req[q] = "idle"
    /\ want' = [want EXCEPT ![q] = n]
    /\ \/ /\ GetChainInfo(FALSE)
          /\ Respond(q, -500)
       \/ /\ GetChainInfo(TRUE)
          /\ \/ n > due + 1 /\ Respond(q, -404)
             \/ n <= due + 1 /\ Go(q, "start")
    /\ UNCHANGED <<due, starting, watcher, latestRound, pending, waiter, resets, lostWait>>

\* Health starts the watcher as well, then compares what it has seen with the
\* clock.
HealthAsked(q) ==
    /\ req[q] = "idle"
    /\ Go(q, "start")
    /\ UNCHANGED <<due, starting, watcher, latestRound, pending, waiter, knowsInfo, want, resets, lostWait>>

Health(q) ==
    /\ req[q] = "first" /\ want[q] = 0
    /\ \/ GetChainInfo(FALSE) /\ Respond(q, -503)
       \/ GetChainInfo(TRUE) /\ Respond(q, IF due \in {latestRound, latestRound + 1} THEN -200 ELSE -503)
    /\ UNCHANGED <<due, starting, watcher, latestRound, pending, waiter, want, resets, lostWait>>

\* LatestRand and ChainInfo do not touch the list; both ask for the parameters.
LatestRand(q) ==
    /\ req[q] = "idle"
    /\ \/ \E r \in 1 .. due : want' = [want EXCEPT ![q] = r] /\ Respond(q, r) /\ knowsInfo' \in {knowsInfo, TRUE}
       \/ Respond(q, -500) /\ UNCHANGED <<want, knowsInfo>>
    /\ UNCHANGED <<due, starting, watcher, latestRound, pending, waiter, resets, lostWait>>

ChainInfo(q) ==
    /\ req[q] = "idle"
    /\ \/ GetChainInfo(FALSE) /\ Respond(q, -204)
       \/ GetChainInfo(TRUE) /\ Respond(q, -200)
    /\ UNCHANGED <<due, starting, watcher, latestRound, pending, waiter, want, resets, lostWait>>

\* startOnce.Do(h.start): the first request runs it, the others wait for it.
StartOnce(q) ==
    /\ req[q] = "start"
    /\ \/ starting = "no" /\ starting' = "locked" /\ Go(q, "starter")
       \/ starting = "done" /\ Go(q, "first") /\ UNCHANGED starting
    /\ UNCHANGED <<due, watcher, latestRound, pending, waiter, knowsInfo, want, resets, lostWait>>

StartWatch ==
    /\ starting = "locked"
    /\ starting' = "spawned" /\ watcher' = "open"
    /\ UNCHANGED <<due, latestRound, pending, waiter, knowsInfo, req, want, answer, resets, lostWait>>

StartReceives ==
    /\ starting = "spawned"
    /\ starting' = "receiving"
    /\ UNCHANGED <<due, watcher, latestRound, pending, waiter, knowsInfo, req, want, answer, resets, lostWait>>

WatchOpen ==
    /\ watcher = "open"
    /\ watcher' = "signal"
    /\ UNCHANGED <<due, starting, latestRound, pending, waiter, knowsInfo, req, want, answer, resets, lostWait>>

\* The signal is dropped unless start is receiving it already.
WatchSignal ==
    /\ watcher = "signal"
    /\ watcher' = "receive"
    /\ \/ /\ starting = "receiving"
          /\ starting' = "done"
          /\ req' = [q \in Req |-> IF req[q] = "starter" THEN "first" ELSE req[q]]
       \/ /\ starting # "receiving"
          /\ UNCHANGED <<starting, req>>
    /\ UNCHANGED <<due, latestRound, pending, waiter, knowsInfo, want, answer, resets, lostWait>>

\* One result: the waiting requests get it, or nothing if a round was missed.
WatchResult(r) ==
    /\ watcher = "receive" /\ starting = "done" /\ r <= due
    /\ LET b == IF latestRound + 1 # r /\ latestRound # 0 THEN 0 ELSE r
       IN waiter' = [q \in Req |-> IF q \in pending THEN b ELSE waiter[q]]
    /\ latestRound' = r
    /\ pending' = {}
    /\ watcher' \in {"receive", "stopped"}
    /\ UNCHANGED <<due, starting, knowsInfo, req, want, answer, resets, lostWait>>

WatchLost ==
    /\ watcher = "receive" /\ starting = "done" /\ resets < MaxReset
    /\ latestRound' = 0
    /\ watcher' = "open"
    /\ resets' = resets + 1
    /\ lostWait' = [q \in Req |-> lostWait[q] \/ q \in pending]
    /\ UNCHANGED <<due, starting, pending, waiter, knowsInfo, req, want, answer>>

ComesNext(q) == latestRound + 1 = want[q] /\ latestRound # 0

\* getRand looks once under the read lock, again under the write lock.
LookFirst(q) ==
    /\ req[q] = "first" /\ want[q] > 0
    /\ Go(q, IF ComesNext(q) THEN "second" ELSE "due")
    /\ UNCHANGED <<due, starting, watcher, latestRound, pending, waiter, knowsInfo, want, resets, lostWait>>

LookAgain(q) ==
    /\ req[q] = "second"
    /\ Go(q, IF ComesNext(q) THEN "waiting" ELSE "due")
    /\ pending' = IF ComesNext(q) THEN pending \cup {q} ELSE pending
    /\ UNCHANGED <<due, starting, watcher, latestRound, waiter, knowsInfo, want, resets, lostWait>>

Woken(q) ==
    /\ req[q] = "waiting" /\ waiter[q] # -1
    /\ Respond(q, waiter[q])
    /\ UNCHANGED <<due, starting, watcher, latestRound, pending, waiter, knowsInfo, want, resets, lostWait>>

\* Mutant: the request stays in the list.
GivenUpListed(q) ==
    /\ req[q] = "waiting"
    /\ Respond(q, -500)
    /\ UNCHANGED <<due, starting, watcher, latestRound, pending, waiter, knowsInfo, want, resets, lostWait>>

GivenUp(q) ==
    /\ req[q] = "waiting"
    /\ Respond(q, -500)
    /\ pending' = pending \ {q}
    /\ UNCHANGED <<due, starting, watcher, latestRound, waiter, knowsInfo, want, resets, lostWait>>

\* The rest of getRand: a round that is not due is not asked for.
AskClient(q) ==
    /\ req[q] = "due"
    /\ \/ want[q] > due /\ Respond(q, -404)
       \/ want[q] <= due /\ (Respond(q, want[q]) \/ Respond(q, -500))
    /\ UNCHANGED <<due, starting, watcher, latestRound, pending, waiter, knowsInfo, want, resets, lostWait>>

HTTPNext ==
    \/ RoundDue \/ StartWatch \/ StartReceives \/ WatchOpen \/ WatchSignal \/ WatchLost
    \/ \E r \in 1 .. MaxDue : WatchResult(r)
    \/ \E q \in Req :
          \/ \E n \in 1 .. MaxDue + 1 : PublicRand(q, n)
          \/ HealthAsked(q) \/ Health(q) \/ LatestRand(q) \/ ChainInfo(q) \/ StartOnce(q) \/ LookFirst(q) \/ LookAgain(q)
          \/ Woken(q) \/ GivenUp(q) \/ AskClient(q)

HTTPSpec == HTTPInit /\ [][HTTPNext]_httpVars
------------------------------------------------------------------------------
\* Exactly the waiting requests that nothing was sent to are listed: none misses
\* its wake-up, and the watcher never sends on the channel of a request that has
\* given up and closed it (getRand, Watch).
ListedWhileWaiting ==
    \A q \in Req : q \in pending <=> req[q] = "waiting" /\ waiter[q] = -1

\* A request is answered with its own round, unless the stream ended while it was
\* waiting; and never with a round before its time.
AnswersItsRound ==
    \A q \in Req : req[q] = "answered" /\ answer[q] > 0 =>
        /\ answer[q] <= due
        /\ answer[q] = want[q] \/ lostWait[q]
==============================================================================
