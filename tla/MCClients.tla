------------------------------ MODULE MCClients ------------------------------
(* The layers of the client library, the gRPC connections and streams below    *)
(* them, and the HTTP server and the relays above them.  They are checked one   *)
(* at a time: focus names the one that moves, the others stay in an initial     *)
(* state.                                                                     *)
EXTENDS WatchAggregator, OptimizingClient, MCVerifyingClient, ClientConfig,
        HTTPClient, Streams, Connections, HTTPServer, Gossip, S3Relay

CONSTANTS c1, c2, pas

MCCacheSizes == {-1, 0, 8}
MCURLs == <<"u1", "u2", "u3">>

VARIABLE focus

\* c1 and c2 are interchangeable.
Init ==
    /\ focus \in {"aggregate", "get", "watch", "verify", "configure", "http",
                 "stream", "connect", "serve", "gossip", "s3"}
    /\ AggInit /\ (focus # "aggregate" => autoMode = "none")
    /\ OptInit /\ order[1] # c2
    /\ focus \notin {"get", "watch"} => order = <<c1, c2, pas>>
    /\ VerInit /\ (focus # "verify" => strict /\ pot = NoTrust)
    /\ CfgInit /\ (focus # "configure" => \A c \in Contact : told[c] = Nil)
    /\ HCInit
    /\ focus # "http" => chainHash = AnyHash /\ \A u \in DOMAIN endpoint : endpoint[u] = Down
    /\ StreamInit /\ (focus # "stream" => kind = "rand")
    /\ ConnInit /\ HTTPInit /\ GossipInit /\ S3Init

AggregateStep ==
    /\ focus = "aggregate" /\ AggNext
    /\ UNCHANGED <<focus, optVars, verVars, cfgVars, hcVars, streamVars,
                  connVars, httpVars, gossipVars, s3Vars>>

GetStep ==
    /\ focus = "get" /\ OptGetNext
    /\ UNCHANGED <<focus, aggVars, verVars, cfgVars, hcVars, streamVars,
                  connVars, httpVars, gossipVars, s3Vars>>

WatchStep ==
    /\ focus = "watch" /\ OptWatchNext
    /\ UNCHANGED <<focus, aggVars, verVars, cfgVars, hcVars, streamVars,
                  connVars, httpVars, gossipVars, s3Vars>>

VerifyStep ==
    /\ focus = "verify" /\ VerNext
    /\ UNCHANGED <<focus, aggVars, optVars, cfgVars, hcVars, streamVars,
                  connVars, httpVars, gossipVars, s3Vars>>

ConfigureStep ==
    /\ focus = "configure" /\ CfgNext
    /\ UNCHANGED <<focus, aggVars, optVars, verVars, hcVars, streamVars,
                  connVars, httpVars, gossipVars, s3Vars>>

HttpStep ==
    /\ focus = "http" /\ HCNext
    /\ UNCHANGED <<focus, aggVars, optVars, verVars, cfgVars, streamVars,
                  connVars, httpVars, gossipVars, s3Vars>>

StreamStep ==
    /\ focus = "stream" /\ StreamNext
    /\ UNCHANGED <<focus, aggVars, optVars, verVars, cfgVars, hcVars,
                  connVars, httpVars, gossipVars, s3Vars>>

ConnectStep ==
    /\ focus = "connect" /\ ConnNext
    /\ UNCHANGED <<focus, aggVars, optVars, verVars, cfgVars, hcVars,
                  streamVars, httpVars, gossipVars, s3Vars>>

ServeStep ==
    /\ focus = "serve" /\ HTTPNext
    /\ UNCHANGED <<focus, aggVars, optVars, verVars, cfgVars, hcVars,
                  streamVars, connVars, gossipVars, s3Vars>>

GossipStep ==
    /\ focus = "gossip" /\ GossipNext
    /\ UNCHANGED <<focus, aggVars, optVars, verVars, cfgVars, hcVars,
                  streamVars, connVars, httpVars, s3Vars>>

S3Step ==
    /\ focus = "s3" /\ S3Next
    /\ UNCHANGED <<focus, aggVars, optVars, verVars, cfgVars, hcVars,
                  streamVars, connVars, httpVars, gossipVars>>

Next ==
    \/ AggregateStep \/ GetStep \/ WatchStep \/ VerifyStep \/ ConfigureStep
       \/ HttpStep \/ StreamStep \/ ConnectStep \/ ServeStep \/ GossipStep \/
       S3Step

Spec == Init /\ [][Next]_<<focus, aggVars, optVars, verVars, cfgVars, hcVars, streamVars, connVars, httpVars, gossipVars, s3Vars>>
==============================================================================
