----------------------------- MODULE ClientConfig ----------------------------
(***************************************************************************)
(* How a client is put together (client/client.go): options are applied    *)
(* one after the other, an inconsistent one fails, and makeClient builds   *)
(* the stack of verifiers, optimizer, cache, aggregator and metrics,       *)
(* asking the given clients for the chain's parameters when it needs them. *)
(* A chain's parameters are named by their hash.                           *)
(***************************************************************************)
EXTENDS Integers, FiniteSets

CONSTANTS
    Chain,        \* hashes of chain parameters
    Nil,          \* not set
    Contact,      \* the clients that From can be given
    CacheSizes,   \* sizes given to WithCacheSize
    MaxOptions    \* bound: options

VARIABLES
    cfg,       \* the clientConfig
    applied,   \* number of options applied
    building,  \* "options", "check", "watcher", "stack", "metrics", "made", "error"
    told,      \* told[c]: what a client answers when asked for the parameters
    stack      \* the client made: its sources, their checkpoint, the passive one, ...

cfgVars == <<cfg, applied, building, told, stack>>

NoStack == [verifiers |-> {}, from |-> Nil, passive |-> FALSE, cached |-> FALSE, metrics |-> FALSE]

CfgInit ==
    /\ cfg = [clients |-> {}, watcher |-> FALSE, chainHash |-> Nil, chainInfo |-> Nil, previous |-> 0,
              insecure |-> FALSE, cacheSize |-> 32, prometheus |-> FALSE]
    /\ applied = 0 /\ building = "options"
    /\ told \in [Contact -> Chain \cup {Nil}]
    /\ stack = NoStack

\* New: an option changes the configuration, or its check fails.
Option(ok, next) ==
    /\ building = "options" /\ applied < MaxOptions
    /\ applied' = applied + 1
    /\ cfg' = IF ok THEN next ELSE cfg
    /\ building' = IF ok THEN "options" ELSE "error"
    /\ UNCHANGED <<told, stack>>

\* Mutant: the option does not look at what is configured.
WithChainInfoAny(i) == Option(TRUE, [cfg EXCEPT !.chainInfo = i])

From(cs) == Option(TRUE, [cfg EXCEPT !.clients = cs])
Insecurely == Option(TRUE, [cfg EXCEPT !.insecure = TRUE])
WithCacheSize(n) == Option(TRUE, [cfg EXCEPT !.cacheSize = n])
WithWatcher == Option(TRUE, [cfg EXCEPT !.watcher = TRUE])
WithPrometheus == Option(TRUE, [cfg EXCEPT !.prometheus = TRUE])
WithChainHash(h) == Option(cfg.chainInfo \in {Nil, h}, [cfg EXCEPT !.chainHash = h])
WithChainInfo(i) == Option(cfg.chainHash \in {Nil, i}, [cfg EXCEPT !.chainInfo = i])
WithVerifiedResult(r) == Option(cfg.previous <= r, [cfg EXCEPT !.previous = r])

\* makeClient: a root of trust, a point of contact and a cache of that size.
CheckConfig ==
    /\ building = "options"
    /\ building' = IF \/ ~cfg.insecure /\ cfg.chainHash = Nil /\ cfg.chainInfo = Nil
                      \/ cfg.clients = {} /\ ~cfg.watcher
                      \/ cfg.cacheSize < 0
                   THEN "error" ELSE IF cfg.watcher THEN "watcher" ELSE "stack"
    /\ UNCHANGED <<cfg, applied, told, stack>>

\* tryPopulateInfo: the first client that answers, in any order the clients were
\* given; no answer from any of them is an error, having nobody to ask is not.
TryPopulateInfo(clients, then) ==
    \/ /\ cfg.chainInfo # Nil \/ clients = {}
       /\ building' = then
       /\ UNCHANGED cfg
    \/ /\ cfg.chainInfo = Nil
       /\ \E c \in clients : told[c] # Nil /\ cfg' = [cfg EXCEPT !.chainInfo = told[c]]
       /\ building' = then
    \/ /\ cfg.chainInfo = Nil /\ clients # {} /\ \A c \in clients : told[c] = Nil
       /\ building' = "error"
       /\ UNCHANGED cfg

\* makeWatcherClient.
MakeWatcher ==
    /\ building = "watcher"
    /\ TryPopulateInfo(cfg.clients, "stack")
    /\ UNCHANGED <<applied, told, stack>>

\* The rest of makeClient and makeOptimizingClient: every source, the watcher
\* included, is verified from the checkpoint; the verified watcher is passive.
MakeStack ==
    /\ building = "stack"
    /\ stack' = [verifiers |-> cfg.clients \cup IF cfg.watcher THEN {"watcher"} ELSE {},
                 from |-> cfg.previous, passive |-> cfg.watcher,
                 cached |-> cfg.cacheSize > 0, metrics |-> FALSE]
    /\ building' = IF cfg.prometheus THEN "metrics" ELSE "made"
    /\ UNCHANGED <<cfg, applied, told>>

\* attachMetrics: the stack itself is asked; a watcher answers with the
\* configured parameters.
AttachMetrics ==
    /\ building = "metrics"
    /\ TryPopulateInfo(cfg.clients, "made")
    /\ stack' = [stack EXCEPT !.metrics = building' = "made"]
    /\ UNCHANGED <<applied, told>>

CfgNext ==
    \/ \E cs \in SUBSET Contact : From(cs)
    \/ Insecurely \/ WithWatcher \/ WithPrometheus
    \/ \E n \in CacheSizes : WithCacheSize(n)
    \/ \E h \in Chain : WithChainHash(h) \/ WithChainInfo(h)
    \/ \E r \in 1 .. 2 : WithVerifiedResult(r)
    \/ CheckConfig \/ MakeWatcher \/ MakeStack \/ AttachMetrics

CfgSpec == CfgInit /\ [][CfgNext]_cfgVars
------------------------------------------------------------------------------
\* Whatever the order of the options, a configured hash and configured parameters
\* name the same chain, and a client is made only with a root of trust or when
\* told to do without one.
TrustIsConsistent ==
    /\ building = "options" => cfg.chainHash = Nil \/ cfg.chainInfo = Nil \/ cfg.chainHash = cfg.chainInfo
    /\ building = "made" => cfg.insecure \/ cfg.chainHash # Nil \/ cfg.chainInfo # Nil

\* No sequence of options moves the checkpoint back to an earlier round, and the
\* verifiers of a finished client start from the last one given.
CheckpointKept ==
    [][cfg'.previous >= cfg.previous /\ (building' = "made" => stack'.from = cfg'.previous)]_cfgVars

\* "WatcherCtor creates a Watcher once chain info is known": so it does when
\* there is any other client to ask.
WatcherKnowsChain ==
    building \in {"stack", "metrics", "made"} /\ cfg.watcher /\ cfg.clients # {} => cfg.chainInfo # Nil

(***************************************************************************)
(* A client that could be made is made for one chain, known to all its     *)
(* parts (makeClient and the options).                                     *)
(***************************************************************************)
ConfigIsSound ==
    /\ TrustIsConsistent
    /\ WatcherKnowsChain
==============================================================================
