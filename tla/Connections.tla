---------------------------- MODULE Connections -----------------------------
(***************************************************************************)
(* The gRPC client of a node (net/client_grpc.go): one connection per      *)
(* address, kept in a map under the client's lock, and the calls made on   *)
(* it.  A connection is [id, tls]; id 0 is the nil connection that a       *)
(* failed grpc.Dial returns, which conn() puts in the map all the same.    *)
(* Stop may come while calls are under way.                                *)
(***************************************************************************)
EXTENDS Naturals, FiniteSets

CONSTANTS Addr,     \* peers' addresses
          Caller,   \* goroutines that make a call
          Methods,  \* kinds of call
          Timed,    \* those that get a deadline (getTimeoutContext)
          MaxConns  \* bound on the number of dials

VARIABLES conns,    \* conns[a]: the set with the connection kept for a, or {}
          dials,    \* number of dials so far
          open,     \* ids of connections that are open
          rpc,      \* rpc[k]: the call of k
          badDial,  \* history: addresses whose dial failed
          dead      \* a panic ended the process

connVars == <<conns, dials, open, rpc, badDial, dead>>

NoCall == [at |-> "idle", addr |-> "none", method |-> "none",
           tls |-> FALSE, conn |-> [id |-> 0, tls |-> FALSE]]

ConnInit ==
    /\ conns = [a \in Addr |-> {}] /\ dials = 0 /\ open = {}
    /\ rpc = [k \in Caller |-> NoCall] /\ badDial = {} /\ dead = FALSE

\* A call to a peer: the wrapper of the method asks conn() for the connection,
\* which dials when the map has no entry; whatever Dial returns is kept.  An
\* error of Dial ends the call.
Conn(k, a, tls, method) ==
    /\ rpc[k].at = "idle"
    /\ IF conns[a] # {}
       THEN /\ \E c \in conns[a] :
                  rpc' = [rpc EXCEPT ![k] = [at |-> "has", addr |-> a, method |-> method,
                                             tls |-> tls, conn |-> c]]
            /\ UNCHANGED <<conns, dials, open, badDial>>
       ELSE /\ dials < MaxConns /\ dials' = dials + 1
            /\ \/ LET c == [id |-> dials + 1, tls |-> tls] IN
                  /\ conns' = [conns EXCEPT ![a] = {c}] /\ open' = open \cup {c.id}
                  /\ rpc' = [rpc EXCEPT ![k] = [at |-> "has", addr |-> a, tls |-> tls,
                                                method |-> method, conn |-> c]]
                  /\ UNCHANGED badDial
               \/ /\ conns' = [conns EXCEPT ![a] = {[id |-> 0, tls |-> tls]}]
                  /\ badDial' = badDial \cup {a}
                  /\ UNCHANGED <<open, rpc>>
    /\ UNCHANGED dead

\* The generated stub invokes the method on the connection: a nil connection
\* panics, a closed one is an error at once.
Invoke(k) ==
    /\ rpc[k].at = "has"
    /\ dead' = (rpc[k].conn.id = 0)
    /\ rpc' = IF rpc[k].conn.id \in open THEN [rpc EXCEPT ![k].at = "sent"]
              ELSE [rpc EXCEPT ![k] = NoCall]
    /\ UNCHANGED <<conns, dials, open, badDial>>

\* The answer, an error of the peer, or the end of the caller's own context.
CallAnswered(k) ==
    /\ rpc[k].at = "sent"
    /\ rpc' = [rpc EXCEPT ![k] = NoCall]
    /\ UNCHANGED <<conns, dials, open, badDial, dead>>

\* The deadline passes without an answer.
CallTimesOut(k) ==
    /\ rpc[k].at = "sent" /\ rpc[k].method \in Timed
    /\ rpc' = [rpc EXCEPT ![k] = NoCall]
    /\ UNCHANGED <<conns, dials, open, badDial, dead>>

Kept == UNION {conns[a] : a \in Addr}

\* Mutant: Stop leaves the calls running.
StopKeepsCalls ==
    /\ open' = open \ {c.id : c \in Kept}
    /\ conns' = [a \in Addr |-> {}]
    /\ UNCHANGED <<rpc, dead, dials, badDial>>

\* Stop closes every connection of the map, which ends their calls, and empties
\* it; Close of a nil connection panics.
StopClient ==
    /\ IF \E c \in Kept : c.id = 0
       THEN dead' = TRUE /\ UNCHANGED <<open, conns, rpc>>
       ELSE /\ open' = open \ {c.id : c \in Kept}
            /\ conns' = [a \in Addr |-> {}]
            /\ rpc' = [k \in Caller |-> IF rpc[k].at = "sent" THEN NoCall ELSE rpc[k]]
            /\ UNCHANGED dead
    /\ UNCHANGED <<dials, badDial>>

ConnNext ==
    /\ ~dead
    /\ \/ \E k \in Caller, a \in Addr, tls \in BOOLEAN, m \in Methods : Conn(k, a, tls, m)
       \/ \E k \in Caller : Invoke(k) \/ CallAnswered(k) \/ CallTimesOut(k)
       \/ StopClient

ConnSpec == ConnInit /\ [][ConnNext]_connVars

\* No connection leaks and none is shared: the open ones are exactly those the
\* map keeps, each for one address, so that Stop closes them all.
OpenIsKept ==
    /\ open = {c.id : c \in Kept} \ {0}
    /\ \A a, b \in Addr : a # b => (conns[a] \cap conns[b]) \subseteq
                                      {[id |-> 0, tls |-> t] : t \in BOOLEAN}

\* The client panics only after a dial that failed, however long ago: the nil
\* connection it left in the map is handed out without error, or closed by Stop.
PanicAfterBadDial ==
    /\ dead => badDial # {}
    /\ \A k \in Caller : rpc[k].at = "has" /\ rpc[k].conn.id = 0 => rpc[k].addr \in badDial

\* A call that was sent runs on the connection kept for its address: calls to a
\* peer are never spread over two connections, whatever Stop does in between.
SentOnKept ==
    \A k \in Caller : rpc[k].at = "sent" => rpc[k].conn \in conns[rpc[k].addr]
=============================================================================
