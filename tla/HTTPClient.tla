------------------------------ MODULE HTTPClient -----------------------------
(***************************************************************************)
(* The HTTP clients made for a list of endpoints (client/http/http.go) and *)
(* the polling watch of one of them (client/poll.go).  An endpoint is      *)
(* down, or serves a chain, named by the hash of its parameters.           *)
(***************************************************************************)
EXTENDS Integers, Sequences, SequencesExt

CONSTANTS
    URLs,       \* the list given to ForURLs
    Hashes,     \* hashes of chain parameters
    AnyHash,    \* no chain hash was given
    Down,       \* an endpoint that gives no usable parameters
    PollPeriod, \* seconds per round; genesis is at time 0
    MaxTime     \* bound: seconds

VARIABLES
    endpoint,  \* endpoint[u]
    chainHash, \* argument of ForURLs
    urlInfo,   \* info, once some endpoint has told it
    clients,   \* clients made: [url, info]
    skipped,   \* endpoints to come back to
    left,      \* endpoints not tried yet
    now,       \* seconds
    poll,      \* the poll: "off", "get", "first", "next", "put", "boundary", "tick", "closed"
    asking,    \* the round asked for
    nextAt,    \* when the boundary or the next tick is
    polled,    \* ch, of length one
    lastPolled,\* last round put in ch
    synced     \* the first asynchronous get was made

urlVars == <<endpoint, chainHash, urlInfo, clients, skipped, left>>
pollVars == <<now, poll, asking, nextAt, polled, lastPolled, synced>>
hcVars == <<urlVars, pollVars>>

HCInit ==
    /\ endpoint \in [Range(URLs) -> Hashes \cup {Down}]
    /\ chainHash \in Hashes \cup {AnyHash}
    /\ urlInfo = Down /\ clients = <<>> /\ skipped = <<>> /\ left = URLs
    /\ now = 0 /\ poll = "off" /\ asking = 0 /\ nextAt = 0
    /\ polled = <<>> /\ lastPolled = 0 /\ synced = FALSE

\* Mutant: the hash is not compared.
FetchAnyInfo(u) == endpoint[u]

\* FetchChainInfo: what New gets from an endpoint, Down for any error.
FetchChainInfo(u) ==
    IF chainHash \in {AnyHash, endpoint[u]} THEN endpoint[u] ELSE Down

\* ForURLs, one endpoint at a time, then the skipped ones.
TryURL ==
    /\ left # <<>>
    /\ LET u == Head(left)
           info == IF urlInfo = Down THEN FetchChainInfo(u) ELSE urlInfo
       IN /\ urlInfo' = info
          /\ clients' = IF info = Down THEN clients ELSE Append(clients, [url |-> u, info |-> info])
          /\ skipped' = IF info = Down THEN Append(skipped, u) ELSE skipped
    /\ left' = Tail(left)
    /\ UNCHANGED <<endpoint, chainHash, pollVars>>

TrySkipped ==
    /\ left = <<>> /\ urlInfo # Down /\ skipped # <<>>
    /\ clients' = Append(clients, [url |-> Head(skipped), info |-> urlInfo])
    /\ skipped' = Tail(skipped)
    /\ UNCHANGED <<endpoint, chainHash, urlInfo, left, pollVars>>

------------------------------------------------------------------------------
RoundAt(t) == t \div PollPeriod + 1        \* chain.CurrentRound
NextTime(t) == (t \div PollPeriod + 1) * PollPeriod    \* chain.NextRound

Second ==
    /\ clients # <<>> /\ now < MaxTime
    /\ now' = now + 1
    /\ UNCHANGED <<urlVars, poll, asking, nextAt, polled, lastPolled, synced>>

\* Watch: the synchronous get.
PollStart ==
    /\ poll = "off" /\ clients # <<>> /\ left = <<>>
    /\ poll' = "get" /\ asking' = RoundAt(now)
    /\ UNCHANGED <<urlVars, now, nextAt, polled, lastPolled, synced>>

FirstGet(ok) ==
    /\ poll = "get"
    /\ poll' = IF ok THEN "boundary" ELSE "closed"
    /\ polled' = IF ok THEN <<asking>> ELSE <<>>
    /\ lastPolled' = IF ok THEN asking ELSE 0
    /\ nextAt' = NextTime(now)
    /\ UNCHANGED <<urlVars, now, asking, synced>>

\* The round boundary, then every tick of the period: a get of the round that is
\* current when it is made.
PollGet(at, pc) ==
    /\ poll = at /\ now >= nextAt
    /\ poll' = pc
    /\ asking' = RoundAt(now)
    /\ UNCHANGED <<urlVars, now, nextAt, polled, lastPolled, synced>>

AtBoundary == PollGet("boundary", "first")
AtTick == PollGet("tick", "next")

\* The ticker is made after the first get; one that is late has ticked already.
GetEnds(ok) ==
    /\ poll \in {"first", "next"}
    /\ poll' = IF ok THEN "put" ELSE "tick"
    /\ nextAt' = IF poll = "first" THEN now + PollPeriod ELSE nextAt + PollPeriod
    /\ synced' = TRUE
    /\ UNCHANGED <<urlVars, now, asking, polled, lastPolled>>

PollPut ==
    /\ poll = "put" /\ polled = <<>>
    /\ polled' = <<asking>> /\ lastPolled' = asking
    /\ poll' = "tick"
    /\ UNCHANGED <<urlVars, now, asking, nextAt, synced>>

\* The forwarding loop of httpClient.Watch hands it to the user.
PollTake ==
    /\ polled # <<>>
    /\ polled' = <<>>
    /\ UNCHANGED <<urlVars, now, poll, asking, nextAt, lastPolled, synced>>

\* Close of the client, or the end of the context.
PollCancel ==
    /\ poll \in {"boundary", "tick"}
    /\ poll' = "closed"
    /\ UNCHANGED <<urlVars, now, asking, nextAt, polled, lastPolled, synced>>

HCNext ==
    \/ TryURL \/ TrySkipped \/ Second \/ PollStart \/ AtBoundary \/ AtTick \/ PollPut \/ PollTake \/ PollCancel
    \/ \E ok \in BOOLEAN : FirstGet(ok) \/ GetEnds(ok)

HCSpec == HCInit /\ [][HCNext]_hcVars
------------------------------------------------------------------------------
\* When every endpoint was tried, each one has a client exactly if some endpoint
\* serves the wanted chain, whichever answers first, and all of them verify
\* against that chain's parameters (ForURLs).
OneChainForURLs ==
    left = <<>> /\ (skipped = <<>> \/ urlInfo = Down) =>
        /\ \A i, j \in 1 .. Len(clients) : clients[i].info = clients[j].info /\ (clients[i].url = clients[j].url => i = j)
        /\ \A i \in 1 .. Len(clients) : chainHash \in {AnyHash, clients[i].info}
        /\ {clients[i].url : i \in 1 .. Len(clients)} =
              IF \E u \in Range(URLs) : FetchChainInfo(u) # Down THEN Range(URLs) ELSE {}

\* A poll never hands out an older round than before, and the first asynchronous
\* one asks for a later round than the synchronous one (PollingWatcher waits for
\* the boundary).
PollGoesForward ==
    /\ poll \in {"first", "next", "put"} => asking >= lastPolled
    /\ poll = "first" => asking > lastPolled
    /\ polled # <<>> => polled[1] <= RoundAt(now)

(***************************************************************************)
(* Who reads over HTTP reads one chain, and reads it forward (ForURLs,     *)
(* PollingWatcher).                                                        *)
(***************************************************************************)
OneChainForward ==
    /\ OneChainForURLs
    /\ PollGoesForward
==============================================================================
