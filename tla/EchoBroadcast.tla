---------------------------- MODULE EchoBroadcast ----------------------------
(***************************************************************************)
(* The broadcast of the bundles of a distributed key generation            *)
(* (core/broadcast.go, with the daemon's BroadcastDKG).  A node sends its  *)
(* own bundles to every peer, one after the other, and echoes each new     *)
(* bundle of another node once, through one bounded queue per peer.  Every *)
(* bundle is passed to the key generation on a channel with room for one   *)
(* bundle of each kind from each node; the handler that finds it full      *)
(* waits, with the locks of the board and of the daemon (echoLock).  Calls *)
(* end after a minute at the latest, so a sender always goes on.           *)
(***************************************************************************)
EXTENDS Integers, Sequences, FiniteSets

CONSTANTS
    Board,         \* the nodes of the key generation
    HonestBoard,   \* those that run this code
    Bundle,        \* the bundles that may be sent
    SignedBy(_),   \* whose signature a bundle has, ForgedBy if it is not valid
    ForgedBy,
    Kind(_),       \* deal, response or justification
    QueueSize,     \* senderQueueSize
    MaxOdd         \* bound: calls that fail, and calls by nodes that do not run this code

ASSUME BoardAssumption == HonestBoard \subseteq Board /\ ForgedBy \notin Board

Kinds == {Kind(p) : p \in Bundle}
Peers(n) == HonestBoard \ {n}
NoBundle == <<>>

VARIABLES
    board,      \* board[n]: "none" before the key generation, "on", "over", "stopped"
    made,       \* made[n]: own bundles that are on the channel
    hashes,     \* hashes[n]: bundles seen
    dkgCh,      \* dkgCh[n][k]: length of the channel to the key generation
    passed,     \* passed[n][p]: how often p was put on it
    newCh,      \* newCh[n][m]: queue of the sender of n for m
    direct,     \* direct[n][p]: peers that broadcastDirect still has to call
    echoLock,   \* echoLock[n]: the bundle whose handler waits at n
    missed,     \* missed[n]: bundles a call to n failed with, or a queue dropped
    odd         \* number of such calls so far

echoVars == <<board, made, hashes, dkgCh, passed, newCh, direct, echoLock, missed, odd>>

EchoInit ==
    /\ board = [n \in HonestBoard |-> "none"]
    /\ made = [n \in HonestBoard |-> {}]
    /\ hashes = [n \in HonestBoard |-> {}]
    /\ dkgCh = [n \in HonestBoard |-> [k \in Kinds |-> 0]]
    /\ passed = [n \in HonestBoard |-> [p \in Bundle |-> 0]]
    /\ newCh = [n \in HonestBoard |-> [m \in Peers(n) |-> <<>>]]
    /\ direct = [n \in HonestBoard |-> [p \in Bundle |-> {}]]
    /\ echoLock = [n \in HonestBoard |-> NoBundle]
    /\ missed = [n \in HonestBoard |-> {}]
    /\ odd = 0

\* Mutant: the channel has no room for the own bundle.
RoomForOthers(n, p) == dkgCh[n][Kind(p)] < Cardinality(Board) - 1

Verified(p) == SignedBy(p) # ForgedBy
Running(n) == board[n] \in {"on", "over"}
Room(n, p) == dkgCh[n][Kind(p)] < Cardinality(Board)
Pass(n, p) ==
    /\ dkgCh' = [dkgCh EXCEPT ![n][Kind(p)] = @ + 1]
    /\ passed' = [passed EXCEPT ![n][p] = @ + 1]

\* newEchoBroadcast, when the node starts its key generation.
NewBoard(n) ==
    /\ board[n] = "none"
    /\ board' = [board EXCEPT ![n] = "on"]
    /\ UNCHANGED <<made, hashes, dkgCh, passed, newCh, direct, echoLock, missed, odd>>

\* PushDeals, PushResponses, PushJustifications: the channel, then the lock.
PushBundle(n, p) ==
    /\ board[n] = "on" /\ SignedBy(p) = n /\ p \notin made[n]
    /\ Room(n, p)
    /\ Pass(n, p)
    /\ made' = [made EXCEPT ![n] = @ \cup {p}]
    /\ UNCHANGED <<board, hashes, newCh, direct, echoLock, missed, odd>>

SendOutOwn(n, p) ==
    /\ p \in made[n] \ hashes[n]
    /\ echoLock[n] = NoBundle
    /\ hashes' = [hashes EXCEPT ![n] = @ \cup {p}]
    /\ direct' = [direct EXCEPT ![n][p] = Peers(n)]
    /\ UNCHANGED <<board, made, dkgCh, passed, newCh, echoLock, missed, odd>>

\* sendPacket on each queue: full queues drop the packet.
Full(n) == {m \in Peers(n) : Len(newCh[n][m]) >= QueueSize}
\* Mutant: a queue that is in use takes nothing more.
EnqueuedWhenIdle(n, p) == [m \in Peers(n) |-> IF newCh[n][m] # <<>> THEN newCh[n][m] ELSE <<p>>]

Enqueued(n, p) == [m \in Peers(n) |-> IF m \in Full(n) THEN newCh[n][m] ELSE Append(newCh[n][m], p)]

\* BroadcastDKG at n; "queues" are the queues after the caller has taken p.
BroadcastDKG(n, p, queues) ==
    /\ echoLock[n] = NoBundle
    /\ \/ /\ p \in hashes[n] \/ ~Verified(p)
          /\ newCh' = queues
          /\ UNCHANGED <<hashes, dkgCh, passed, echoLock, missed>>
       \/ /\ p \notin hashes[n] /\ Verified(p)
          /\ hashes' = [hashes EXCEPT ![n] = @ \cup {p}]
          /\ newCh' = [queues EXCEPT ![n] = Enqueued(n, p)]
          /\ missed' = [m \in HonestBoard |-> missed[m] \cup {q \in {p} : m \in Full(n)}]
          /\ \/ Room(n, p) /\ Pass(n, p) /\ UNCHANGED echoLock
             \/ /\ ~Room(n, p)
                /\ echoLock' = [echoLock EXCEPT ![n] = p]
                /\ UNCHANGED <<dkgCh, passed>>

\* The same at a node that has no board.
NoBoard(n, p, queues) ==
    /\ missed' = [missed EXCEPT ![n] = @ \cup {p}]
    /\ newCh' = queues
    /\ UNCHANGED <<hashes, dkgCh, passed, echoLock>>

Handle(n, p, queues) ==
    \/ Running(n) /\ BroadcastDKG(n, p, queues)
    \/ ~Running(n) /\ NoBoard(n, p, queues)

\* broadcastDirect calls the next peer.
SendDirect(m, p, n) ==
    /\ n \in direct[m][p]
    /\ direct' = [direct EXCEPT ![m][p] = @ \ {n}]
    /\ Handle(n, p, newCh)
    /\ UNCHANGED <<board, made, odd>>

\* The loop of a sender.
SendQueued(m, n) ==
    /\ newCh[m][n] # <<>>
    /\ Handle(n, Head(newCh[m][n]), [newCh EXCEPT ![m][n] = Tail(@)])
    /\ UNCHANGED <<board, made, direct, odd>>

\* A call fails, or takes more than a minute, and is not repeated.
LoseDirect(m, p, n) ==
    /\ n \in direct[m][p] /\ odd < MaxOdd
    /\ direct' = [direct EXCEPT ![m][p] = @ \ {n}]
    /\ missed' = [missed EXCEPT ![n] = @ \cup {p}]
    /\ odd' = odd + 1
    /\ UNCHANGED <<board, made, hashes, dkgCh, passed, newCh, echoLock>>

LoseQueued(m, n) ==
    /\ newCh[m][n] # <<>> /\ odd < MaxOdd
    /\ newCh' = [newCh EXCEPT ![m][n] = Tail(@)]
    /\ missed' = [missed EXCEPT ![n] = @ \cup {Head(newCh[m][n])}]
    /\ odd' = odd + 1
    /\ UNCHANGED <<board, made, hashes, dkgCh, passed, direct, echoLock>>

\* A node that does not run this code calls n with a bundle it has.
OtherCall(n, p) ==
    /\ Board # HonestBoard /\ Running(n) /\ p \notin hashes[n]
    /\ SignedBy(p) \in HonestBoard => p \in hashes[SignedBy(p)]
    /\ odd < MaxOdd /\ odd' = odd + 1
    /\ BroadcastDKG(n, p, newCh)
    /\ UNCHANGED <<board, made, direct>>

\* passToApplication that waited.
PassWaiting(n) ==
    /\ echoLock[n] # NoBundle
    /\ Room(n, echoLock[n])
    /\ Pass(n, echoLock[n])
    /\ echoLock' = [echoLock EXCEPT ![n] = NoBundle]
    /\ UNCHANGED <<board, made, hashes, newCh, direct, missed, odd>>

\* The key generation takes a bundle, until it is over.
ReadBundle(n, k) ==
    /\ board[n] = "on" /\ dkgCh[n][k] > 0
    /\ dkgCh' = [dkgCh EXCEPT ![n][k] = @ - 1]
    /\ UNCHANGED <<board, made, hashes, passed, newCh, direct, echoLock, missed, odd>>

DKGOver(n) ==
    /\ board[n] = "on"
    /\ board' = [board EXCEPT ![n] = "over"]
    /\ UNCHANGED <<made, hashes, dkgCh, passed, newCh, direct, echoLock, missed, odd>>

\* WaitDKG stops the board, under the lock; the senders empty their queues.
StopBoard(n) ==
    /\ board[n] = "over" /\ echoLock[n] = NoBundle
    /\ board' = [board EXCEPT ![n] = "stopped"]
    /\ UNCHANGED <<made, hashes, dkgCh, passed, newCh, direct, echoLock, missed, odd>>

EchoNext ==
    \E n \in HonestBoard :
        \/ NewBoard(n) \/ DKGOver(n) \/ StopBoard(n) \/ PassWaiting(n)
        \/ \E k \in Kinds : ReadBundle(n, k)
        \/ \E p \in Bundle : PushBundle(n, p) \/ SendOutOwn(n, p) \/ OtherCall(n, p)
        \/ \E m \in Peers(n) :
              \/ SendQueued(n, m) \/ LoseQueued(n, m)
              \/ \E p \in Bundle : SendDirect(n, p, m) \/ LoseDirect(n, p, m)

EchoSpec == EchoInit /\ [][EchoNext]_echoVars
------------------------------------------------------------------------------
\* A bundle is passed to the key generation of a node at most once, by whatever
\* paths it arrives, and only with a valid signature (BroadcastDKG).
PassedOnce ==
    \A n \in HonestBoard, p \in Bundle :
        passed[n][p] <= IF SignedBy(p) # ForgedBy THEN 1 ELSE 0

\* A handler waits with the locks of the board and of the daemon only when some
\* node signed two bundles of one kind: the channels have room for one bundle of
\* each node (newEchoBroadcast, passToApplication).
WaitsOnlyForEquivocation ==
    \A n \in HonestBoard : echoLock[n] # NoBundle =>
        \E p, q \in hashes[n] \cup made[n] : p # q /\ SignedBy(p) = SignedBy(q) /\ Kind(p) = Kind(q)

\* A bundle that an honest node has taken is never forgotten on its way to
\* another honest node: that node has it, or the bundle is still to be sent to
\* it, or a call failed or a queue was full (sendout registers the hash once, so
\* nothing would send the bundle again).
EchoReaches ==
    \A n \in HonestBoard : \A m \in Peers(n) : \A p \in hashes[n] :
        \/ p \in hashes[m] \cup missed[m]
        \/ m \in direct[n][p]
        \/ \E i \in DOMAIN newCh[n][m] : newCh[n][m][i] = p
==============================================================================
