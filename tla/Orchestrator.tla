---------------------------- MODULE Orchestrator ----------------------------
(***************************************************************************)
(* The integration harness of demo/: the regression script starts a        *)
(* network, runs a DKG and a resharing by one goroutine per node           *)
(* (demo/lib/orchestrator.go), upgrades a node, and reports.  A node's     *)
(* command panics when it fails; each goroutine recovers, sends the panic  *)
(* to a channel of capacity 1, and counts itself off a wait group.         *)
(***************************************************************************)
EXTENDS Integers, FiniteSets

CONSTANTS OldNode,  \* the nodes of the first network
          NewNode,  \* the nodes that join in the resharing
          LeadNode, \* nodes[0], the leader of both setups
          Upgraded  \* the node that testUpgrade restarts

VARIABLES
    script,   \* "startup", "again1", "reshare", "again2", "upgrade",
              \* "restarted", "report" or "crashed"
    main,     \* the script's goroutine: "idle", "wait", "group" or "select"
    setup,    \* the setup: "dkg" or "reshare"
    w,        \* w[n]: the goroutine of node n
    wg,       \* count of the wait group
    panicCh,  \* number of panics in the channel
    groupCh,  \* number of groups in the channel
    failed,   \* history: nodes whose command panicked in this setup
    lost,     \* history: those of them when the setup was taken as a success
    up,       \* nodes that run
    reshareNodes, \* the orchestrator's list, empty before a resharing
    errs,     \* tests that failed
    compared  \* history: nodes whose beacons testUpgrade compared

orchVars == <<script, main, setup, w, wg, panicCh, groupCh, failed, lost, up,
              reshareNodes, errs, compared>>

AllNode == OldNode \cup NewNode

OrchInit ==
    /\ script = "startup" /\ main = "idle" /\ setup = "dkg"
    /\ w = [n \in AllNode |-> "none"] /\ wg = 0 /\ panicCh = 0 /\ groupCh = 0
    /\ failed = {} /\ lost = {} /\ up = {} /\ reshareNodes = {}
    /\ errs = {} /\ compared = {}

Launch(kind, nodes) ==
    /\ setup' = kind /\ main' = "wait" /\ wg' = Cardinality(nodes)
    /\ w' = [n \in AllNode |-> IF n \in nodes THEN "run" ELSE "none"]
    /\ panicCh' = 0 /\ groupCh' = 0 /\ failed' = {} /\ lost' = {}

\* StartCurrentNodes, which waits until every node answers, and RunDKG.
OrchRunDKG ==
    /\ main = "idle" /\ script \in {"startup", "again1", "again2"}
    /\ up' = OldNode
    /\ Launch("dkg", OldNode)
    /\ UNCHANGED <<script, reshareNodes, errs, compared>>

\* StartNewNodes, CreateResharingGroup(0, thr), which keeps all old nodes, and
\* RunResharing.
RunResharing ==
    /\ main = "idle" /\ script = "reshare"
    /\ up' = up \cup NewNode /\ reshareNodes' = AllNode
    /\ Launch("reshare", AllNode)
    /\ UNCHANGED <<script, errs, compared>>

Step(n, s) == w' = [w EXCEPT ![n] = s]
Others == <<script, main, setup, lost, up, reshareNodes, errs, compared>>

\* The share command of node n returns, or exits with an error.
CommandReturns(n) ==
    /\ w[n] = "run"
    /\ \/ Step(n, "ok") /\ UNCHANGED failed
       \/ Step(n, "panic") /\ failed' = failed \cup {n}
    /\ UNCHANGED <<wg, panicCh, groupCh, Others>>

LeadsReshare(n) == setup = "reshare" /\ n = LeadNode

\* A goroutine that has its result counts itself off.
CountOff(n) ==
    /\ w[n] = "ok" /\ wg' = wg - 1
    /\ Step(n, IF LeadsReshare(n) THEN "group" ELSE "end")
    /\ UNCHANGED <<panicCh, groupCh, failed, Others>>

SendGroup(n) ==
    /\ w[n] = "group" /\ groupCh = 0
    /\ groupCh' = 1 /\ Step(n, "end")
    /\ UNCHANGED <<wg, panicCh, failed, Others>>

\* The recovery: RunDKG sends the panic before it counts itself off, the
\* followers of RunResharing after it, and the leader of RunResharing never
\* counts itself off.  The send waits while the channel is full.
SendPanic(n) ==
    /\ w[n] = IF setup = "dkg" \/ LeadsReshare(n) THEN "panic" ELSE "counted"
    /\ panicCh = 0 /\ panicCh' = 1
    /\ Step(n, IF setup = "dkg" THEN "sent" ELSE "end")
    /\ UNCHANGED <<wg, groupCh, failed, Others>>

\* Mutant: RunDKG recovers without sending the panic.
CountOffSilent(n) ==
    /\ w[n] = "panic" /\ ~LeadsReshare(n)
    /\ wg' = wg - 1 /\ Step(n, IF setup = "dkg" THEN "end" ELSE "counted")
    /\ UNCHANGED <<panicCh, groupCh, failed, Others>>

CountOffFailed(n) ==
    /\ w[n] = IF setup = "dkg" THEN "sent" ELSE "panic"
    /\ ~LeadsReshare(n)
    /\ wg' = wg - 1 /\ Step(n, IF setup = "dkg" THEN "end" ELSE "counted")
    /\ UNCHANGED <<panicCh, groupCh, failed, Others>>

\* wg.Wait returns; RunResharing also takes the group.
WaitReturns ==
    /\ main = "wait" /\ wg = 0
    /\ main' = IF setup = "reshare" THEN "group" ELSE "select"
    /\ UNCHANGED <<script, setup, w, wg, panicCh, groupCh, failed, lost, up,
                   reshareNodes, errs, compared>>

TakeGroup ==
    /\ main = "group" /\ groupCh = 1
    /\ groupCh' = 0 /\ main' = "select"
    /\ UNCHANGED <<script, setup, w, wg, panicCh, failed, lost, up, reshareNodes,
                   errs, compared>>

NextTest == IF script \in {"startup", "again1"} THEN "reshare" ELSE "upgrade"

\* No panic in the channel: the checks of keys and beacons follow.
TestPasses ==
    /\ main = "select" /\ panicCh = 0
    /\ lost' = failed /\ main' = "idle" /\ script' = NextTest
    /\ UNCHANGED <<setup, w, wg, panicCh, groupCh, failed, up, reshareNodes, errs, compared>>

\* A panic in the channel, or one in the checks.  The tests recover and the
\* script goes on with a new orchestrator; the second attempt is not guarded.
TestFails ==
    /\ main = "select"
    /\ main' = "idle" /\ up' = {} /\ reshareNodes' = {} /\ lost' = {}
    /\ IF script \in {"again1", "again2"} THEN script' = "crashed" /\ UNCHANGED errs
       ELSE /\ errs' = errs \cup {script}
            /\ script' = IF script = "startup" THEN "again1" ELSE "again2"
    /\ UNCHANGED <<setup, w, wg, panicCh, groupCh, failed, compared>>

\* testUpgrade: stop the node, CheckNewBeacon of the others, start it again,
\* CheckNewBeacon of all.  A check panics when a node does not answer or two
\* differ; with no node to ask it has nothing to compare and passes.
CheckNewBeacon(nodes, next) ==
    \/ /\ compared' = compared \cup nodes /\ script' = next /\ UNCHANGED errs
    \/ /\ nodes # {} /\ compared' = compared \cup nodes
       /\ errs' = errs \cup {"upgrade"} /\ script' = "report"

UpgradeStops ==
    /\ script = "upgrade" /\ main = "idle"
    /\ up' = up \ {Upgraded}
    /\ CheckNewBeacon(reshareNodes \ {Upgraded}, "restarted")
    /\ UNCHANGED <<main, setup, w, wg, panicCh, groupCh, failed, lost, reshareNodes>>

UpgradeStarts ==
    /\ script = "restarted"
    /\ up' = up \cup {Upgraded}
    /\ CheckNewBeacon(reshareNodes, "report")
    /\ UNCHANGED <<main, setup, w, wg, panicCh, groupCh, failed, lost, reshareNodes>>

OrchNext ==
    \/ OrchRunDKG \/ RunResharing \/ WaitReturns \/ TakeGroup \/ TestPasses \/ TestFails
    \/ \E n \in AllNode :
          \/ CommandReturns(n) \/ CountOff(n) \/ SendGroup(n)
          \/ SendPanic(n) \/ CountOffFailed(n)
    \/ UpgradeStops \/ UpgradeStarts

OrchSpec == OrchInit /\ [][OrchNext]_orchVars

\* A DKG in which a node's command failed never passes, and a resharing only
\* when the failed node is a follower, whose goroutine counts itself off before
\* it sends the panic: the select may come in between and miss it.
FailureReported ==
    /\ setup = "dkg" => lost = {}
    /\ LeadNode \notin lost

AtRest(n) ==
    \/ w[n] \in {"none", "end"}
    \/ w[n] = "panic" /\ (setup = "dkg" \/ LeadsReshare(n)) /\ panicCh = 1
    \/ w[n] = "counted" /\ panicCh = 1

\* The script waits for a setup for ever in two cases only: two commands of a
\* DKG failed, so that the second panic finds the channel full before its
\* goroutine counts itself off, or the leader of a resharing failed, which
\* never counts itself off.
HangsOnlyThen ==
    (/\ main \in {"wait", "group"} /\ \A n \in AllNode : AtRest(n)
     /\ ~(main = "wait" /\ wg = 0) /\ ~(main = "group" /\ groupCh = 1))
        => \/ setup = "dkg" /\ Cardinality(failed) >= 2
           \/ setup = "reshare" /\ LeadNode \in failed

\* A report without an upgrade error means that the beacons of the whole new
\* network were compared - unless the resharing test failed before: the new
\* orchestrator has no reshareNodes, and the upgrade checks compare nothing.
UpgradeWasChecked ==
    script = "report" /\ "upgrade" \notin errs =>
        compared = AllNode \/ "reshare" \in errs

(***************************************************************************)
(* The regression script reports what happened: it neither passes a        *)
(* failure nor hangs nor skips its checks, but in the cases named here.    *)
(***************************************************************************)
VerdictIsTrue ==
    /\ FailureReported
    /\ HangsOnlyThen
    /\ UpgradeWasChecked
=============================================================================
