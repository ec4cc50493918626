---------------------------- MODULE ReshareProofs -----------------------------
(***************************************************************************)
(* The board of the distributed key generation, and the switch of the      *)
(* nodes to the shares of a resharing. For any nodes, bundles, groups,     *)
(* thresholds and transition round.                                        *)
(***************************************************************************)
EXTENDS EchoBroadcast, Transition, TLAPS
-----------------------------------------------------------------------------
(* The board of the key generation (module EchoBroadcast).                 *)

\* What is at the head, and what is left without it.
LEMMA SeqHeadTail ==
    ASSUME NEW S, NEW s \in Seq(S), s # << >>
    PROVE  /\ Head(s) \in S /\ Tail(s) \in Seq(S) /\ Len(Tail(s)) = Len(s) - 1
           /\ \A i \in 1 .. Len(Tail(s)) : Tail(s)[i] = s[i + 1]
OBVIOUS

\* What is appended comes last.
LEMMA SeqAppend ==
    ASSUME NEW S, NEW s \in Seq(S), NEW e \in S
    PROVE  /\ Append(s, e) \in Seq(S) /\ Append(s, e) # << >>
           /\ Len(Append(s, e)) = Len(s) + 1
           /\ \A i \in 1 .. Len(s) : Append(s, e)[i] = s[i]
           /\ Append(s, e)[Len(s) + 1] = e
OBVIOUS

\* A sequence over a set is one over a larger set.
LEMMA SeqWider ==
    ASSUME NEW S, NEW T, NEW s \in Seq(S), S \subseteq T
    PROVE  s \in Seq(T)
OBVIOUS

\* The types of what the argument is about.
EchoTypes ==
    /\ made \in [HonestBoard -> SUBSET Bundle] /\ hashes \in [HonestBoard -> SUBSET Bundle]
    /\ passed \in [HonestBoard -> [Bundle -> Nat]]
    /\ direct \in [HonestBoard -> [Bundle -> SUBSET HonestBoard]]
    /\ echoLock \in [HonestBoard -> Bundle \cup {NoBundle}]
    /\ missed \in [HonestBoard -> SUBSET Bundle]

\* Only bundles a node has registered are in its queues and direct calls.
QueuesRegistered ==
    /\ newCh = [n \in HonestBoard |-> newCh[n]]
    /\ \A n \in HonestBoard : newCh[n] \in [Peers(n) -> Seq(hashes[n])]
    /\ \A n \in HonestBoard, p \in Bundle : direct[n][p] # {} => p \in hashes[n]

\* A bundle of a node that runs this code is registered by its signer before
\* anybody else can have it.
SignerKnows(p) == SignedBy(p) \in HonestBoard => p \in hashes[SignedBy(p)]

\* What a node has registered verifies, is known to its signer, and is its own only
\* when it made it.
Registered ==
    \A n \in HonestBoard :
        /\ \A p \in hashes[n] : Verified(p) /\ SignerKnows(p) /\ (SignedBy(p) = n => p \in made[n])
        /\ \A p \in made[n] : SignedBy(p) = n

\* What was passed is registered or an own bundle, and the bundle that a handler
\* waits with has not been passed.
PassedRegistered ==
    \A n \in HonestBoard :
        /\ \A p \in Bundle : passed[n][p] <= 1 /\ (p \notin hashes[n] \cup made[n] => passed[n][p] = 0)
        /\ echoLock[n] # NoBundle => echoLock[n] \in hashes[n] /\ passed[n][echoLock[n]] = 0
                                     /\ echoLock[n] \notin made[n]

\* The inductive invariant.
EchoInv == EchoTypes /\ QueuesRegistered /\ Registered /\ PassedRegistered

\* No bundle has been made.
LEMMA EchoInitInv == EchoInit => EchoInv
<1> SUFFICES ASSUME EchoInit
             PROVE  EchoInv
  OBVIOUS
<1>1. EchoTypes
  BY DEF EchoInit, EchoTypes
<1>2. \A n \in HonestBoard : newCh[n] = [m \in Peers(n) |-> <<>>] /\ hashes[n] = {}
  BY DEF EchoInit
<1>3. <<>> \in Seq({})
  OBVIOUS
<1>4. QueuesRegistered
  BY <1>2, <1>3 DEF EchoInit, QueuesRegistered
<1>5. Registered /\ PassedRegistered
  BY DEF EchoInit, Registered, PassedRegistered
<1> QED
  BY <1>1, <1>4, <1>5 DEF EchoInv

(* Steps that touch neither what is registered nor what is passed on, and  *)
(* send nothing new.                                                       *)
LEMMA QuietStep ==
    ASSUME EchoInv, UNCHANGED <<made, hashes, passed, echoLock>>, EchoTypes',
           newCh' = [n \in HonestBoard |-> newCh'[n]],
           \A n \in HonestBoard : newCh'[n] \in [Peers(n) -> Seq(hashes[n])],
           \A n \in HonestBoard, p \in Bundle : direct'[n][p] \subseteq direct[n][p]
    PROVE  EchoInv'
<1>1. QueuesRegistered'
  BY DEF EchoInv, QueuesRegistered
<1>2. Registered' /\ PassedRegistered'
  BY DEF EchoInv, Registered, PassedRegistered, SignerKnows
<1> QED
  BY <1>1, <1>2 DEF EchoInv

\* What a handler that passes a bundle on changes.
LEMMA OnePassed ==
    ASSUME passed \in [HonestBoard -> [Bundle -> Nat]], NEW n \in HonestBoard, NEW p \in Bundle,
           passed' = [passed EXCEPT ![n][p] = @ + 1]
    PROVE  /\ passed' \in [HonestBoard -> [Bundle -> Nat]] /\ passed'[n][p] = passed[n][p] + 1
           /\ \A q \in Bundle \ {p} : passed'[n][q] = passed[n][q]
           /\ \A m \in HonestBoard \ {n} : passed'[m] = passed[m]
<1> DEFINE row == [passed[n] EXCEPT ![p] = passed[n][p] + 1]
<1>1. passed' = [passed EXCEPT ![n] = row]
  OBVIOUS
<1>2. row \in [Bundle -> Nat] /\ row[p] = passed[n][p] + 1 /\ \A q \in Bundle \ {p} : row[q] = passed[n][q]
  OBVIOUS
<1> HIDE DEF row
<1> QED
  BY <1>1, <1>2

\* A queue of registered bundles stays one when more are registered.
LEMMA SeqGrows ==
    ASSUME NEW S, NEW T, S \subseteq T, NEW s \in Seq(S)
    PROVE  s \in Seq(T)
  BY SeqWider

(* A bundle that is new to n: it is not one of its own.                    *)
LEMMA NewIsForeign ==
    ASSUME EchoInv, NEW n \in HonestBoard, NEW p \in Bundle, SignerKnows(p), p \notin hashes[n]
    PROVE  SignedBy(p) # n /\ p \notin made[n] /\ passed[n][p] = 0
<1>1. SignedBy(p) # n
  BY DEF SignerKnows
<1>2. p \notin made[n]
  BY <1>1 DEF EchoInv, Registered
<1> QED
  BY <1>1, <1>2 DEF EchoInv, PassedRegistered

(* The handler of a bundle that some node has taken before.                *)
LEMMA BroadcastKeepsInv ==
    ASSUME EchoInv, NEW n \in HonestBoard, NEW p \in Bundle, SignerKnows(p),
           NEW queues, queues = [m \in HonestBoard |-> queues[m]],
           \A m \in HonestBoard : queues[m] \in [Peers(m) -> Seq(hashes[m])],
           queues[n] = newCh[n],
           BroadcastDKG(n, p, queues), made' = made,
           direct' \in [HonestBoard -> [Bundle -> SUBSET HonestBoard]],
           \A m \in HonestBoard, q \in Bundle : direct'[m][q] \subseteq direct[m][q]
    PROVE  EchoInv'
<1>0. EchoTypes /\ QueuesRegistered /\ Registered /\ PassedRegistered
  BY DEF EchoInv
<1>1. CASE p \in hashes[n] \/ ~Verified(p)
  <2>1. newCh' = queues /\ UNCHANGED <<hashes, passed, echoLock, missed>>
    BY <1>1 DEF BroadcastDKG
  <2>2. EchoTypes'
    BY <1>0, <2>1 DEF EchoTypes
  <2> QED
    BY <2>1, <2>2, QuietStep
<1>2. CASE p \notin hashes[n] /\ Verified(p)
  <2>1. /\ hashes' = [hashes EXCEPT ![n] = @ \cup {p}]
        /\ newCh' = [queues EXCEPT ![n] = Enqueued(n, p)]
        /\ missed' = [m \in HonestBoard |-> missed[m] \cup {q \in {p} : m \in Full(n)}]
        /\ echoLock[n] = NoBundle
        /\ \/ Room(n, p) /\ Pass(n, p) /\ UNCHANGED echoLock
           \/ echoLock' = [echoLock EXCEPT ![n] = p] /\ UNCHANGED passed
    BY <1>2, Zenon DEF BroadcastDKG
  <2>2. SignedBy(p) # n /\ p \notin made[n] /\ passed[n][p] = 0
    BY <1>2, NewIsForeign
  <2>3. /\ hashes \in [HonestBoard -> SUBSET Bundle] /\ made \in [HonestBoard -> SUBSET Bundle]
        /\ passed \in [HonestBoard -> [Bundle -> Nat]]
        /\ echoLock \in [HonestBoard -> Bundle \cup {NoBundle}]
        /\ missed \in [HonestBoard -> SUBSET Bundle]
    BY <1>0 DEF EchoTypes
  <2>4. hashes'[n] = hashes[n] \cup {p} /\ \A m \in HonestBoard \ {n} : hashes'[m] = hashes[m]
    BY <2>1, <2>3
  <2>5. \/ passed' = [passed EXCEPT ![n][p] = @ + 1] /\ UNCHANGED echoLock
        \/ echoLock' = [echoLock EXCEPT ![n] = p] /\ UNCHANGED passed
    BY <2>1 DEF Pass
  <2>6. EchoTypes'
    <3>1. hashes' \in [HonestBoard -> SUBSET Bundle] /\ missed' \in [HonestBoard -> SUBSET Bundle]
      BY <2>1, <2>3
    <3>2. passed' \in [HonestBoard -> [Bundle -> Nat]]
      BY <2>3, <2>5, OnePassed, Zenon
    <3>3. echoLock' \in [HonestBoard -> Bundle \cup {NoBundle}]
      BY <2>3, <2>5, Zenon
    <3> QED
      BY <2>3, <3>1, <3>2, <3>3 DEF EchoTypes
  <2>7. QueuesRegistered'
    <3>1. newCh' = [m \in HonestBoard |-> newCh'[m]]
      BY <2>1
    <3>2. \A m \in HonestBoard \ {n} : newCh'[m] = queues[m] /\ newCh'[n] = Enqueued(n, p)
      BY <2>1
    <3>3. newCh'[n] = Enqueued(n, p)
      BY <2>1
    <3>4. newCh[n] \in [Peers(n) -> Seq(hashes[n])]
      OBVIOUS
    <3>5. \A m \in Peers(n) : newCh[n][m] \in Seq(hashes'[n])
      BY <2>4, <3>4, SeqGrows
    <3>6. Enqueued(n, p) \in [Peers(n) -> Seq(hashes'[n])]
      BY <2>4, <3>5 DEF Enqueued
    <3>7. \A m \in HonestBoard : newCh'[m] \in [Peers(m) -> Seq(hashes'[m])]
      BY <2>4, <3>2, <3>3, <3>6, Zenon
    <3>8. \A m \in HonestBoard, q \in Bundle : direct'[m][q] # {} => q \in hashes'[m]
      BY <1>0, <2>4, Zenon DEF QueuesRegistered
    <3> QED
      BY <3>1, <3>7, <3>8 DEF QueuesRegistered
  <2>8. Registered'
    <3> SUFFICES ASSUME NEW m \in HonestBoard
                 PROVE  /\ \A q \in hashes'[m] : Verified(q) /\ SignerKnows(q)'
                                                 /\ (SignedBy(q) = m => q \in made'[m])
                        /\ \A q \in made'[m] : SignedBy(q) = m
      BY DEF Registered, Verified
    <3>1. SignerKnows(p)' /\ \A q : SignerKnows(q) => SignerKnows(q)'
      BY <2>4, Zenon DEF SignerKnows
    <3>2. CASE m = n
      BY <1>0, <1>2, <2>2, <2>4, <3>1, <3>2 DEF Registered
    <3>3. CASE m # n
      BY <1>0, <2>4, <3>1, <3>3 DEF Registered
    <3> QED
      BY <3>2, <3>3
  <2>9. PassedRegistered'
    <3> SUFFICES ASSUME NEW m \in HonestBoard
                 PROVE  /\ \A q \in Bundle : passed'[m][q] <= 1
                                             /\ (q \notin hashes'[m] \cup made'[m] => passed'[m][q] = 0)
                        /\ echoLock'[m] # NoBundle => echoLock'[m] \in hashes'[m]
                              /\ passed'[m][echoLock'[m]] = 0 /\ echoLock'[m] \notin made'[m]
      BY DEF PassedRegistered
    <3>0. /\ \A q \in Bundle : passed[m][q] <= 1 /\ (q \notin hashes[m] \cup made[m] => passed[m][q] = 0)
          /\ echoLock[m] # NoBundle => echoLock[m] \in hashes[m] /\ passed[m][echoLock[m]] = 0
                                       /\ echoLock[m] \notin made[m]
      BY <1>0 DEF PassedRegistered
    <3>1. CASE m # n
      <4>1. passed'[m] = passed[m] /\ echoLock'[m] = echoLock[m] /\ hashes'[m] = hashes[m]
        BY <2>3, <2>4, <2>5, <3>1
      <4> QED
        BY <3>0, <4>1
    <3>2. CASE m = n /\ passed' = [passed EXCEPT ![n][p] = @ + 1] /\ UNCHANGED echoLock
      <4>1. passed'[n][p] = 1 /\ \A q \in Bundle \ {p} : passed'[n][q] = passed[n][q]
        BY <2>2, <2>3, <3>2
      <4>2. echoLock'[m] = NoBundle
        BY <2>1, <3>2
      <4> QED
        BY <2>4, <3>0, <3>2, <4>1, <4>2
    <3>3. CASE m = n /\ echoLock' = [echoLock EXCEPT ![n] = p] /\ UNCHANGED passed
      <4>1. echoLock'[m] = p
        BY <2>3, <3>3
      <4> QED
        BY <2>2, <2>4, <3>0, <3>3, <4>1
    <3> QED
      BY <2>5, <3>1, <3>2, <3>3
  <2> QED
    BY <2>6, <2>7, <2>8, <2>9 DEF EchoInv
<1> QED
  BY <1>1, <1>2

\* The handler of a bundle, of BroadcastDKG or without a board, keeps the invariant.
LEMMA HandleKeepsInv ==
    ASSUME EchoInv, NEW n \in HonestBoard, NEW p \in Bundle, SignerKnows(p),
           NEW queues, queues = [m \in HonestBoard |-> queues[m]],
           \A m \in HonestBoard : queues[m] \in [Peers(m) -> Seq(hashes[m])],
           queues[n] = newCh[n],
           Handle(n, p, queues), made' = made,
           direct' \in [HonestBoard -> [Bundle -> SUBSET HonestBoard]],
           \A m \in HonestBoard, q \in Bundle : direct'[m][q] \subseteq direct[m][q]
    PROVE  EchoInv'
<1>1. CASE BroadcastDKG(n, p, queues)
  BY <1>1, BroadcastKeepsInv
<1>2. CASE NoBoard(n, p, queues)
  <2>1. newCh' = queues /\ UNCHANGED <<hashes, passed, echoLock>>
        /\ missed' = [missed EXCEPT ![n] = @ \cup {p}]
    BY <1>2 DEF NoBoard
  <2>2. EchoTypes'
    BY <2>1 DEF EchoInv, EchoTypes
  <2> QED
    BY <2>1, <2>2, QuietStep
<1> QED
  BY <1>1, <1>2 DEF Handle

(* The signer of every bundle in a queue or a direct call knows it.        *)
LEMMA InFlightKnown ==
    ASSUME EchoInv, NEW m \in HonestBoard, NEW p \in hashes[m]
    PROVE  p \in Bundle /\ SignerKnows(p)
  BY DEF EchoInv, EchoTypes, Registered

\* Head and tail of a queue.
LEMMA HeadAndTail ==
    ASSUME NEW S, NEW s \in Seq(S), s # <<>>
    PROVE  Head(s) \in S /\ Tail(s) \in Seq(S)
  BY SeqHeadTail

\* What a dispatcher that takes a bundle from a queue leaves.
LEMMA QueueTaken ==
    ASSUME EchoInv, NEW m \in HonestBoard, NEW n \in Peers(m), newCh[m][n] # <<>>,
           NEW queues, queues = [newCh EXCEPT ![m][n] = Tail(@)]
    PROVE  /\ queues = [k \in HonestBoard |-> queues[k]]
           /\ \A k \in HonestBoard : queues[k] \in [Peers(k) -> Seq(hashes[k])]
           /\ queues[n] = newCh[n] /\ n \in HonestBoard
           /\ Head(newCh[m][n]) \in hashes[m]
<1> DEFINE row == [newCh[m] EXCEPT ![n] = Tail(newCh[m][n])]
<1>1. newCh = [k \in HonestBoard |-> newCh[k]] /\ \A k \in HonestBoard : newCh[k] \in [Peers(k) -> Seq(hashes[k])]
  BY DEF EchoInv, QueuesRegistered
<1>2. newCh[m][n] \in Seq(hashes[m]) /\ n \in HonestBoard /\ n # m
  BY <1>1, Zenon DEF Peers
<1>3. Tail(newCh[m][n]) \in Seq(hashes[m]) /\ Head(newCh[m][n]) \in hashes[m]
  BY <1>2, HeadAndTail, Zenon
<1>4. queues = [newCh EXCEPT ![m] = row]
  BY <1>1
<1>5. row \in [Peers(m) -> Seq(hashes[m])]
  BY <1>1, <1>3
<1> HIDE DEF row
<1>6. queues = [k \in HonestBoard |-> queues[k]]
  BY <1>1, <1>4, Zenon
<1>7. queues[m] = row /\ \A k \in HonestBoard \ {m} : queues[k] = newCh[k]
  BY <1>1, <1>4
<1> QED
  BY <1>1, <1>2, <1>3, <1>5, <1>6, <1>7, Zenon

\* What a direct call that arrives leaves.
LEMMA DirectTaken ==
    ASSUME EchoInv, NEW m \in HonestBoard, NEW p \in Bundle, NEW n \in HonestBoard,
           direct' = [direct EXCEPT ![m][p] = @ \ {n}]
    PROVE  /\ direct' \in [HonestBoard -> [Bundle -> SUBSET HonestBoard]]
           /\ \A k \in HonestBoard, q \in Bundle : direct'[k][q] \subseteq direct[k][q]
           /\ \A k \in HonestBoard, q \in Bundle : direct[k][q] \subseteq direct'[k][q] \cup
                                                     {x \in {n} : k = m /\ q = p}
<1> DEFINE row == [direct[m] EXCEPT ![p] = direct[m][p] \ {n}]
<1>1. direct \in [HonestBoard -> [Bundle -> SUBSET HonestBoard]]
  BY DEF EchoInv, EchoTypes
<1>2. direct' = [direct EXCEPT ![m] = row]
  BY <1>1
<1>3. row \in [Bundle -> SUBSET HonestBoard] /\ row[p] = direct[m][p] \ {n}
      /\ \A q \in Bundle \ {p} : row[q] = direct[m][q]
  BY <1>1
<1> HIDE DEF row
<1>4. direct'[m] = row /\ \A k \in HonestBoard \ {m} : direct'[k] = direct[k]
  BY <1>1, <1>2
<1> QED
  BY <1>1, <1>2, <1>3, <1>4

\* Every step keeps the invariant.
LEMMA EchoStepInv == EchoInv /\ [EchoNext]_echoVars => EchoInv'
<1> SUFFICES ASSUME EchoInv, [EchoNext]_echoVars
             PROVE  EchoInv'
  OBVIOUS
<1>0. /\ EchoTypes /\ QueuesRegistered /\ Registered /\ PassedRegistered
      /\ newCh = [n \in HonestBoard |-> newCh[n]]
      /\ \A n \in HonestBoard : newCh[n] \in [Peers(n) -> Seq(hashes[n])]
      /\ direct \in [HonestBoard -> [Bundle -> SUBSET HonestBoard]]
      /\ hashes \in [HonestBoard -> SUBSET Bundle] /\ made \in [HonestBoard -> SUBSET Bundle]
      /\ missed \in [HonestBoard -> SUBSET Bundle]
      /\ passed \in [HonestBoard -> [Bundle -> Nat]]
      /\ echoLock \in [HonestBoard -> Bundle \cup {NoBundle}]
  BY DEF EchoInv, EchoTypes, QueuesRegistered
<1>1. CASE UNCHANGED <<made, hashes, passed, newCh, direct, echoLock, missed>>
  <2>1. EchoTypes'
    BY <1>0, <1>1 DEF EchoTypes
  <2>2. \A n \in HonestBoard, p \in Bundle : direct'[n][p] \subseteq direct[n][p]
    BY <1>1
  <2> QED
    BY <1>0, <1>1, <2>1, <2>2, QuietStep
<1>2. ASSUME NEW n \in HonestBoard, NewBoard(n) \/ DKGOver(n) \/ StopBoard(n)
      PROVE  EchoInv'
  BY <1>1, <1>2 DEF NewBoard, DKGOver, StopBoard
<1>3. ASSUME NEW n \in HonestBoard, NEW k \in Kinds, ReadBundle(n, k)
      PROVE  EchoInv'
  BY <1>1, <1>3 DEF ReadBundle
<1>4. ASSUME NEW n \in HonestBoard, PassWaiting(n)
      PROVE  EchoInv'
  <2> DEFINE p == echoLock[n]
  <2>1. /\ p # NoBundle /\ passed' = [passed EXCEPT ![n][p] = @ + 1]
        /\ echoLock' = [echoLock EXCEPT ![n] = NoBundle]
        /\ UNCHANGED <<made, hashes, newCh, direct, missed>>
    BY <1>4 DEF PassWaiting, Pass
  <2>2. p \in Bundle /\ p \in hashes[n] /\ passed[n][p] = 0
    BY <1>0, <2>1 DEF PassedRegistered
  <2> HIDE DEF p
  <2>3. /\ passed' \in [HonestBoard -> [Bundle -> Nat]] /\ passed'[n][p] = 1
        /\ \A q \in Bundle \ {p} : passed'[n][q] = passed[n][q]
        /\ \A m \in HonestBoard \ {n} : passed'[m] = passed[m]
    BY <1>0, <2>1, <2>2, OnePassed
  <2>4. EchoTypes'
    BY <1>0, <2>1, <2>3 DEF EchoTypes
  <2>5. QueuesRegistered' /\ Registered'
    BY <1>0, <2>1 DEF QueuesRegistered, Registered, SignerKnows
  <2>6. echoLock'[n] = NoBundle /\ \A m \in HonestBoard \ {n} : echoLock'[m] = echoLock[m]
    BY <1>0, <2>1
  <2>7. PassedRegistered'
    BY <1>0, <2>1, <2>2, <2>3, <2>6 DEF PassedRegistered
  <2> QED
    BY <2>4, <2>5, <2>7 DEF EchoInv
<1>5. ASSUME NEW n \in HonestBoard, NEW p \in Bundle, PushBundle(n, p)
      PROVE  EchoInv'
  <2>1. /\ SignedBy(p) = n /\ p \notin made[n]
        /\ passed' = [passed EXCEPT ![n][p] = @ + 1] /\ made' = [made EXCEPT ![n] = @ \cup {p}]
        /\ UNCHANGED <<hashes, newCh, direct, echoLock, missed>>
    BY <1>5 DEF PushBundle, Pass
  <2>2. p \notin hashes[n] /\ passed[n][p] = 0
    BY <1>0, <2>1 DEF Registered, PassedRegistered
  <2>3. /\ passed' \in [HonestBoard -> [Bundle -> Nat]] /\ passed'[n][p] = 1
        /\ \A q \in Bundle \ {p} : passed'[n][q] = passed[n][q]
        /\ \A m \in HonestBoard \ {n} : passed'[m] = passed[m]
    BY <1>0, <2>1, <2>2, OnePassed
  <2>4. /\ made' \in [HonestBoard -> SUBSET Bundle] /\ made'[n] = made[n] \cup {p}
        /\ \A m \in HonestBoard \ {n} : made'[m] = made[m]
    BY <1>0, <2>1, Zenon
  <2>5. EchoTypes'
    BY <1>0, <2>1, <2>3, <2>4 DEF EchoTypes
  <2>6. QueuesRegistered'
    BY <1>0, <2>1 DEF QueuesRegistered
  <2>7. Registered'
    BY <1>0, <2>1, <2>4 DEF Registered, SignerKnows
  <2>8. PassedRegistered'
    BY <1>0, <2>1, <2>2, <2>3, <2>4 DEF PassedRegistered
  <2> QED
    BY <2>5, <2>6, <2>7, <2>8 DEF EchoInv
<1>6. ASSUME NEW n \in HonestBoard, NEW p \in Bundle, SendOutOwn(n, p)
      PROVE  EchoInv'
  <2>1. /\ p \in made[n] \ hashes[n] /\ echoLock[n] = NoBundle
        /\ hashes' = [hashes EXCEPT ![n] = @ \cup {p}]
        /\ direct' = [direct EXCEPT ![n][p] = Peers(n)]
        /\ UNCHANGED <<made, passed, newCh, echoLock, missed>>
    BY <1>6 DEF SendOutOwn
  <2>2. SignedBy(p) = n /\ Verified(p)
    BY <1>0, <2>1, BoardAssumption DEF Registered, Verified
  <2>3. /\ hashes' \in [HonestBoard -> SUBSET Bundle] /\ hashes'[n] = hashes[n] \cup {p}
        /\ \A m \in HonestBoard \ {n} : hashes'[m] = hashes[m]
    BY <1>0, <2>1
  <2> DEFINE row == [direct[n] EXCEPT ![p] = Peers(n)]
  <2>4. direct' = [direct EXCEPT ![n] = row] /\ row \in [Bundle -> SUBSET HonestBoard]
        /\ \A q \in Bundle \ {p} : row[q] = direct[n][q]
    BY <1>0, <2>1 DEF Peers
  <2> HIDE DEF row
  <2>5. direct' \in [HonestBoard -> [Bundle -> SUBSET HonestBoard]] /\ direct'[n] = row
        /\ \A m \in HonestBoard \ {n} : direct'[m] = direct[m]
    BY <1>0, <2>4
  <2>6. EchoTypes'
    BY <1>0, <2>1, <2>3, <2>5, Zenon DEF EchoTypes
  <2>7. QueuesRegistered'
    <3>1. \A m \in HonestBoard : \A k \in Peers(m) : newCh[m][k] \in Seq(hashes'[m])
      <4> SUFFICES ASSUME NEW m \in HonestBoard, NEW k \in Peers(m)
                   PROVE  newCh[m][k] \in Seq(hashes'[m])
        OBVIOUS
      <4>1. hashes[m] \subseteq hashes'[m]
        BY <2>3
      <4>2. newCh[m][k] \in Seq(hashes[m])
        BY <1>0
      <4> QED
        BY <4>1, <4>2, SeqGrows
    <3>2. \A m \in HonestBoard : newCh[m] \in [Peers(m) -> Seq(hashes'[m])]
      BY <1>0, <3>1
    <3>3. \A m \in HonestBoard, q \in Bundle : direct'[m][q] # {} => q \in hashes'[m]
      BY <1>0, <2>3, <2>4, <2>5 DEF QueuesRegistered
    <3> QED
      BY <1>0, <2>1, <3>2, <3>3 DEF QueuesRegistered
  <2>8. Registered'
    <3>1. SignerKnows(p)' /\ \A q : SignerKnows(q) => SignerKnows(q)'
      BY <2>2, <2>3 DEF SignerKnows
    <3>2. \A m \in HonestBoard : \A q \in hashes'[m] :
              Verified(q) /\ SignerKnows(q)' /\ (SignedBy(q) = m => q \in made[m])
      BY <1>0, <2>1, <2>2, <2>3, <3>1, Zenon DEF Registered
    <3> QED
      BY <1>0, <2>1, <3>2 DEF Registered, Verified
  <2>9. PassedRegistered'
    BY <1>0, <2>1, <2>3 DEF PassedRegistered
  <2> QED
    BY <2>6, <2>7, <2>8, <2>9 DEF EchoInv
<1>7. ASSUME NEW n \in HonestBoard, NEW p \in Bundle, OtherCall(n, p)
      PROVE  EchoInv'
  <2>1. /\ SignerKnows(p) /\ BroadcastDKG(n, p, newCh) /\ UNCHANGED <<made, direct>>
    BY <1>7 DEF OtherCall, SignerKnows
  <2>2. \A m \in HonestBoard, q \in Bundle : direct'[m][q] \subseteq direct[m][q]
    BY <2>1
  <2>3. direct' \in [HonestBoard -> [Bundle -> SUBSET HonestBoard]]
    BY <1>0, <2>1
  <2> QED
    BY <1>0, <2>1, <2>2, <2>3, BroadcastKeepsInv, Zenon
<1>8. ASSUME NEW m \in HonestBoard, NEW n \in Peers(m), SendQueued(m, n)
      PROVE  EchoInv'
  <2> DEFINE queues == [newCh EXCEPT ![m][n] = Tail(@)]
             p == Head(newCh[m][n])
  <2>1. /\ newCh[m][n] # <<>> /\ Handle(n, p, queues) /\ UNCHANGED <<made, direct>>
    BY <1>8 DEF SendQueued
  <2>2. /\ queues = [k \in HonestBoard |-> queues[k]]
        /\ \A k \in HonestBoard : queues[k] \in [Peers(k) -> Seq(hashes[k])]
        /\ queues[n] = newCh[n] /\ n \in HonestBoard
        /\ p \in hashes[m]
    BY <2>1, QueueTaken, Zenon
  <2>3. p \in Bundle /\ SignerKnows(p)
    BY <2>2, InFlightKnown
  <2>4. \A k \in HonestBoard, q \in Bundle : direct'[k][q] \subseteq direct[k][q]
    BY <2>1
  <2>5. direct' \in [HonestBoard -> [Bundle -> SUBSET HonestBoard]]
    BY <1>0, <2>1
  <2> HIDE DEF queues, p
  <2> QED
    BY <2>1, <2>2, <2>3, <2>4, <2>5, HandleKeepsInv, Zenon
<1>9. ASSUME NEW m \in HonestBoard, NEW n \in Peers(m), LoseQueued(m, n)
      PROVE  EchoInv'
  <2> DEFINE queues == [newCh EXCEPT ![m][n] = Tail(@)]
             p == Head(newCh[m][n])
  <2>1. /\ newCh[m][n] # <<>> /\ newCh' = queues /\ missed' = [missed EXCEPT ![n] = @ \cup {p}]
        /\ UNCHANGED <<made, hashes, passed, direct, echoLock>>
    BY <1>9 DEF LoseQueued
  <2>2. /\ queues = [k \in HonestBoard |-> queues[k]]
        /\ \A k \in HonestBoard : queues[k] \in [Peers(k) -> Seq(hashes[k])]
        /\ queues[n] = newCh[n] /\ n \in HonestBoard
        /\ p \in hashes[m]
    BY <2>1, QueueTaken, Zenon
  <2>3. p \in Bundle
    BY <2>2, InFlightKnown, Zenon
  <2> HIDE DEF queues, p
  <2>4. EchoTypes'
    BY <1>0, <2>1, <2>2, <2>3, Zenon DEF EchoTypes
  <2>5. \A k \in HonestBoard, q \in Bundle : direct'[k][q] \subseteq direct[k][q]
    BY <2>1
  <2> QED
    BY <2>1, <2>2, <2>4, <2>5, QuietStep, Zenon
<1>10. ASSUME NEW m \in HonestBoard, NEW n \in Peers(m), NEW p \in Bundle,
              SendDirect(m, p, n) \/ LoseDirect(m, p, n)
      PROVE  EchoInv'
  <2>1. /\ n \in direct[m][p] /\ direct' = [direct EXCEPT ![m][p] = @ \ {n}] /\ made' = made
        /\ n \in HonestBoard
    BY <1>10 DEF SendDirect, LoseDirect, Peers
  <2>2. /\ direct' \in [HonestBoard -> [Bundle -> SUBSET HonestBoard]]
        /\ \A k \in HonestBoard, q \in Bundle : direct'[k][q] \subseteq direct[k][q]
    BY <2>1, DirectTaken, Zenon
  <2>3. p \in hashes[m]
    BY <1>0, <2>1 DEF QueuesRegistered
  <2>4. SignerKnows(p)
    BY <2>3, InFlightKnown
  <2>5. CASE SendDirect(m, p, n)
    <3>1. Handle(n, p, newCh)
      BY <2>5, Zenon DEF SendDirect
    <3> QED
      BY <1>0, <2>1, <2>2, <2>4, <3>1, HandleKeepsInv, Zenon
  <2>6. CASE LoseDirect(m, p, n)
    <3>1. missed' = [missed EXCEPT ![n] = @ \cup {p}] /\ UNCHANGED <<hashes, passed, newCh, echoLock>>
      BY <2>6, Zenon DEF LoseDirect
    <3>2. EchoTypes'
      BY <1>0, <2>1, <2>2, <3>1 DEF EchoTypes
    <3> QED
      BY <1>0, <2>1, <2>2, <3>1, <3>2, QuietStep, Zenon
  <2> QED
    BY <1>10, <2>5, <2>6
<1> QED
  BY <1>1, <1>2, <1>3, <1>4, <1>5, <1>6, <1>7, <1>8, <1>9, <1>10 DEF EchoNext, echoVars

(* By whatever paths a bundle arrives, it is passed to the key generation  *)
(* once at most, and never without a valid signature (BroadcastDKG).       *)
THEOREM BundlePassedOnce == EchoSpec => []PassedOnce
<1>1. EchoInv => PassedOnce
  <2> SUFFICES ASSUME EchoInv, NEW n \in HonestBoard, NEW p \in Bundle
               PROVE  passed[n][p] <= IF SignedBy(p) # ForgedBy THEN 1 ELSE 0
    BY DEF PassedOnce
  <2>1. passed[n][p] <= 1 /\ (p \notin hashes[n] \cup made[n] => passed[n][p] = 0)
    BY DEF EchoInv, PassedRegistered
  <2>2. p \in hashes[n] \cup made[n] => SignedBy(p) # ForgedBy
    BY BoardAssumption DEF EchoInv, Registered, Verified
  <2> QED
    BY <2>1, <2>2
<1> QED
  BY EchoInitInv, EchoStepInv, <1>1, PTL DEF EchoSpec

\* The bundle waits in the queue.
InQueue(queue, p) == \E i \in DOMAIN queue : queue[i] = p

\* Taking the head of a queue keeps the others.
LEMMA TailKeeps ==
    ASSUME NEW S, NEW s \in Seq(S), s # <<>>, NEW p, InQueue(s, p)
    PROVE  p = Head(s) \/ InQueue(Tail(s), p)
<1>1. PICK i \in DOMAIN s : s[i] = p
  BY DEF InQueue
<1>2. i \in 1 .. Len(s) /\ Len(s) \in Nat
  OBVIOUS
<1>3. CASE i = 1
  BY <1>1, <1>3
<1>4. CASE i # 1
  <2>1. i - 1 \in 1 .. Len(Tail(s)) /\ Tail(s)[i - 1] = s[i]
    BY <1>2, <1>4
  <2>2. DOMAIN Tail(s) = 1 .. Len(Tail(s))
    OBVIOUS
  <2> QED
    BY <1>1, <2>1, <2>2 DEF InQueue
<1> QED
  BY <1>3, <1>4

\* Appending to a queue adds the bundle and keeps the others.
LEMMA AppendKeeps ==
    ASSUME NEW S, NEW s \in Seq(S), NEW p \in S
    PROVE  InQueue(Append(s, p), p) /\ \A q : InQueue(s, q) => InQueue(Append(s, p), q)
<1> DEFINE t == Append(s, p)
<1>1. Len(s) \in Nat /\ DOMAIN s = 1 .. Len(s) /\ DOMAIN t = 1 .. Len(s) + 1
  BY SeqAppend
<1>2. t[Len(s) + 1] = p /\ \A i \in 1 .. Len(s) : t[i] = s[i]
  BY SeqAppend
<1> HIDE DEF t
<1>3. Len(s) + 1 \in DOMAIN t /\ DOMAIN s \subseteq DOMAIN t
  BY <1>1
<1>4. InQueue(t, p)
  BY <1>2, <1>3 DEF InQueue
<1>5. \A q : InQueue(s, q) => InQueue(t, q)
  BY <1>1, <1>2, <1>3 DEF InQueue
<1> QED
  BY <1>4, <1>5 DEF t

\* Where a bundle p of n is on its way to m.
OnItsWay(n, m, p) ==
    p \in hashes[m] \cup missed[m] \/ m \in direct[n][p] \/ InQueue(newCh[n][m], p)

(* A step under which nothing on its way gets lost, and what is new starts *)
(* on its way.                                                             *)
LEMMA ReachesKept ==
    ASSUME EchoReaches,
           \A n \in HonestBoard : \A m \in Peers(n) : \A p \in hashes[n] :
               OnItsWay(n, m, p) => OnItsWay(n, m, p)',
           \A n \in HonestBoard : \A m \in Peers(n) : \A p \in hashes'[n] \ hashes[n] :
               OnItsWay(n, m, p)'
    PROVE  EchoReaches'
<1> SUFFICES ASSUME NEW n \in HonestBoard, NEW m \in Peers(n), NEW p \in hashes'[n]
             PROVE  OnItsWay(n, m, p)'
  BY DEF EchoReaches, OnItsWay, Peers, InQueue
<1>1. CASE p \in hashes[n]
  <2>1. OnItsWay(n, m, p)
    BY <1>1 DEF EchoReaches, OnItsWay, InQueue
  <2> QED
    BY <1>1, <2>1
<1>2. CASE p \notin hashes[n]
  BY <1>2
<1> QED
  BY <1>1, <1>2, Zenon

\* A handler registers or misses its bundle, and sends a new one to every peer with
\* room.
LEMMA HandlerReaches ==
    ASSUME EchoInv, NEW n \in HonestBoard, NEW p \in Bundle,
           NEW queues, queues = [m \in HonestBoard |-> queues[m]],
           queues[n] = newCh[n], BroadcastDKG(n, p, queues) \/ NoBoard(n, p, queues)
    PROVE  /\ Verified(p) => p \in hashes'[n] \cup missed'[n]
           /\ \A m \in HonestBoard : hashes[m] \subseteq hashes'[m] /\ missed[m] \subseteq missed'[m]
           /\ \A k \in HonestBoard : \A m \in Peers(k) : \A q :
                 InQueue(queues[k][m], q) => InQueue(newCh'[k][m], q)
           /\ \A k \in HonestBoard : \A q \in hashes'[k] \ hashes[k] : \A m \in Peers(k) :
                 q \in missed'[m] \/ InQueue(newCh'[k][m], q)
<1>0. /\ hashes \in [HonestBoard -> SUBSET Bundle] /\ missed \in [HonestBoard -> SUBSET Bundle]
      /\ newCh[n] \in [Peers(n) -> Seq(hashes[n])]
  BY DEF EchoInv, EchoTypes, QueuesRegistered
<1>1. CASE newCh' = queues /\ UNCHANGED hashes
  <2>1. \A m \in HonestBoard : missed[m] \subseteq missed'[m]
    BY <1>0, <1>1 DEF BroadcastDKG, NoBoard
  <2>2. Verified(p) => p \in hashes'[n] \cup missed'[n]
    BY <1>0, <1>1 DEF BroadcastDKG, NoBoard
  <2> QED
    BY <1>1, <2>1, <2>2
<1>2. CASE /\ hashes' = [hashes EXCEPT ![n] = @ \cup {p}]
           /\ newCh' = [queues EXCEPT ![n] = Enqueued(n, p)]
           /\ missed' = [m \in HonestBoard |-> missed[m] \cup {q \in {p} : m \in Full(n)}]
  <2>1. /\ hashes'[n] = hashes[n] \cup {p} /\ \A m \in HonestBoard \ {n} : hashes'[m] = hashes[m]
        /\ \A m \in HonestBoard : missed[m] \subseteq missed'[m]
        /\ \A m \in HonestBoard : m \in Full(n) => p \in missed'[m]
    BY <1>0, <1>2
  <2>2. newCh'[n] = Enqueued(n, p) /\ \A k \in HonestBoard \ {n} : newCh'[k] = queues[k]
    BY <1>2
  <2>3. ASSUME NEW m \in Peers(n)
        PROVE  /\ m \in Full(n) \/ InQueue(newCh'[n][m], p)
               /\ \A q : InQueue(newCh[n][m], q) => InQueue(newCh'[n][m], q)
    <3>1. CASE m \in Full(n)
      <4>1. newCh'[n][m] = newCh[n][m]
        BY <2>2, <3>1 DEF Enqueued
      <4> QED
        BY <3>1, <4>1
    <3>2. CASE m \notin Full(n)
      <4>1. newCh'[n][m] = Append(newCh[n][m], p)
        BY <2>2, <3>2 DEF Enqueued
      <4>2. newCh[n][m] \in Seq(hashes[n])
        BY <1>0
      <4>3. newCh[n][m] \in Seq(Bundle) /\ p \in Bundle
        BY <1>0, <4>2, SeqGrows
      <4> QED
        BY <4>1, <4>3, AppendKeeps
    <3> QED
      BY <3>1, <3>2
  <2>4. \A m \in Peers(n) : m \in HonestBoard
    BY DEF Peers
  <2>5. \A k \in HonestBoard : \A m \in Peers(k) : \A q :
           InQueue(queues[k][m], q) => InQueue(newCh'[k][m], q)
    BY <2>2, <2>3
  <2>6. \A k \in HonestBoard : \A q \in hashes'[k] \ hashes[k] : \A m \in Peers(k) :
           q \in missed'[m] \/ InQueue(newCh'[k][m], q)
    BY <2>1, <2>3, <2>4
  <2>7. \A m \in HonestBoard : hashes[m] \subseteq hashes'[m]
    BY <2>1
  <2> QED
    BY <2>1, <2>5, <2>6, <2>7
<1> QED
  BY <1>1, <1>2, Zenon DEF BroadcastDKG, NoBoard

\* Every step keeps that.
LEMMA ReachesStep == EchoInv /\ EchoReaches /\ [EchoNext]_echoVars => EchoReaches'
<1> SUFFICES ASSUME EchoInv, EchoReaches, [EchoNext]_echoVars
             PROVE  EchoReaches'
  OBVIOUS
<1>0. /\ newCh = [n \in HonestBoard |-> newCh[n]]
      /\ \A n \in HonestBoard : newCh[n] \in [Peers(n) -> Seq(hashes[n])]
      /\ direct \in [HonestBoard -> [Bundle -> SUBSET HonestBoard]]
      /\ hashes \in [HonestBoard -> SUBSET Bundle]
      /\ missed \in [HonestBoard -> SUBSET Bundle]
      /\ \A n \in HonestBoard : \A p \in hashes[n] : Verified(p)
      /\ \A n \in HonestBoard : Peers(n) \subseteq HonestBoard
  BY Zenon DEF EchoInv, EchoTypes, QueuesRegistered, Registered, Peers
<1>1. CASE UNCHANGED <<hashes, newCh, direct, missed>>
  BY <1>1 DEF EchoReaches
<1>2. ASSUME NEW n \in HonestBoard, NewBoard(n) \/ DKGOver(n) \/ StopBoard(n) \/ PassWaiting(n)
      PROVE  EchoReaches'
  BY <1>1, <1>2 DEF NewBoard, DKGOver, StopBoard, PassWaiting
<1>3. ASSUME NEW n \in HonestBoard, NEW k \in Kinds, ReadBundle(n, k)
      PROVE  EchoReaches'
  BY <1>1, <1>3 DEF ReadBundle
<1>4. ASSUME NEW n \in HonestBoard, NEW p \in Bundle, PushBundle(n, p)
      PROVE  EchoReaches'
  BY <1>1, <1>4, Zenon DEF PushBundle
<1>5. ASSUME NEW n \in HonestBoard, NEW p \in Bundle, SendOutOwn(n, p)
      PROVE  EchoReaches'
  <2>1. /\ hashes' = [hashes EXCEPT ![n] = @ \cup {p}] /\ UNCHANGED <<newCh, missed>>
        /\ direct' = [direct EXCEPT ![n][p] = Peers(n)]
    BY <1>5 DEF SendOutOwn
  <2> DEFINE row == [direct[n] EXCEPT ![p] = Peers(n)]
  <2>2. direct' = [direct EXCEPT ![n] = row] /\ row[p] = Peers(n)
        /\ \A q \in Bundle \ {p} : row[q] = direct[n][q]
    BY <1>0, <2>1
  <2> HIDE DEF row
  <2>3. direct'[n] = row /\ \A m \in HonestBoard \ {n} : direct'[m] = direct[m]
    BY <1>0, <2>2
  <2>4. hashes'[n] = hashes[n] \cup {p} /\ \A m \in HonestBoard \ {n} : hashes'[m] = hashes[m]
    BY <1>0, <2>1
  <2>5. \A k \in HonestBoard : \A m \in Peers(k) : \A q \in Bundle :
           m \in direct[k][q] => m \in direct'[k][q]
    BY <2>2, <2>3
  <2>6. \A m \in HonestBoard : hashes[m] \subseteq hashes'[m]
    BY <2>4
  <2>7. \A k \in HonestBoard : \A m \in Peers(k) : \A q \in hashes[k] :
           OnItsWay(k, m, q) => OnItsWay(k, m, q)'
    <3> SUFFICES ASSUME NEW k \in HonestBoard, NEW m \in Peers(k), NEW q \in hashes[k]
                 PROVE  OnItsWay(k, m, q) => OnItsWay(k, m, q)'
      OBVIOUS
    <3>1. q \in Bundle /\ m \in HonestBoard
      BY <1>0, Zenon
    <3> QED
      BY <2>1, <2>5, <2>6, <3>1, Zenon DEF OnItsWay
  <2>8. \A k \in HonestBoard : \A m \in Peers(k) : \A q \in hashes'[k] \ hashes[k] :
           OnItsWay(k, m, q)'
    BY <2>2, <2>3, <2>4 DEF OnItsWay
  <2> QED
    BY <2>7, <2>8, ReachesKept
<1>6. ASSUME NEW n \in HonestBoard, NEW p \in Bundle, OtherCall(n, p)
      PROVE  EchoReaches'
  <2>1. BroadcastDKG(n, p, newCh) /\ direct' = direct
    BY <1>6 DEF OtherCall
  <2>2. /\ \A m \in HonestBoard : hashes[m] \subseteq hashes'[m] /\ missed[m] \subseteq missed'[m]
        /\ \A k \in HonestBoard : \A m \in Peers(k) : \A q :
              InQueue(newCh[k][m], q) => InQueue(newCh'[k][m], q)
        /\ \A k \in HonestBoard : \A q \in hashes'[k] \ hashes[k] : \A m \in Peers(k) :
              q \in missed'[m] \/ InQueue(newCh'[k][m], q)
    BY <1>0, <2>1, HandlerReaches, Zenon
  <2>3. \A k \in HonestBoard : \A m \in Peers(k) : \A q \in hashes[k] :
           OnItsWay(k, m, q) => OnItsWay(k, m, q)'
    <3> SUFFICES ASSUME NEW k \in HonestBoard, NEW m \in Peers(k), NEW q \in hashes[k]
                 PROVE  OnItsWay(k, m, q) => OnItsWay(k, m, q)'
      OBVIOUS
    <3>1. m \in HonestBoard
      BY <1>0, Zenon
    <3> QED
      BY <2>1, <2>2, <3>1, Zenon DEF OnItsWay
  <2>4. \A k \in HonestBoard : \A m \in Peers(k) : \A q \in hashes'[k] \ hashes[k] :
           OnItsWay(k, m, q)'
    BY <2>2 DEF OnItsWay
  <2> QED
    BY <2>3, <2>4, ReachesKept
<1>7. ASSUME NEW m \in HonestBoard, NEW n \in Peers(m), SendQueued(m, n) \/ LoseQueued(m, n)
      PROVE  EchoReaches'
  <2> DEFINE queues == [newCh EXCEPT ![m][n] = Tail(@)]
             p == Head(newCh[m][n])
  <2>1. newCh[m][n] # <<>> /\ direct' = direct
    BY <1>7 DEF SendQueued, LoseQueued
  <2>2. /\ queues = [k \in HonestBoard |-> queues[k]]
        /\ \A k \in HonestBoard : queues[k] \in [Peers(k) -> Seq(hashes[k])]
        /\ queues[n] = newCh[n] /\ n \in HonestBoard
        /\ p \in hashes[m]
    BY <2>1, QueueTaken, Zenon
  <2>3. p \in Bundle /\ Verified(p)
    BY <1>0, <2>2, Zenon
  <2>4. \A k \in HonestBoard : \A j \in Peers(k) : \A q :
           InQueue(newCh[k][j], q) => InQueue(queues[k][j], q) \/ (k = m /\ j = n /\ q = p)
    <3> SUFFICES ASSUME NEW k \in HonestBoard, NEW j \in Peers(k), NEW q, InQueue(newCh[k][j], q)
                 PROVE  InQueue(queues[k][j], q) \/ (k = m /\ j = n /\ q = p)
      OBVIOUS
    <3>1. CASE k = m /\ j = n
      <4>1. queues[k][j] = Tail(newCh[m][n]) /\ newCh[m][n] \in Seq(hashes[m])
        BY <1>0, <3>1
      <4> QED
        BY <2>1, <3>1, <4>1, TailKeeps, Zenon
    <3>2. CASE ~ (k = m /\ j = n)
      <4>1. queues[k][j] = newCh[k][j]
        BY <1>0, <3>2, Zenon
      <4> QED
        BY <4>1
    <3> QED
      BY <3>1, <3>2, Zenon
  <2>5. CASE SendQueued(m, n)
    <3>1. BroadcastDKG(n, p, queues) \/ NoBoard(n, p, queues)
      BY <2>5 DEF SendQueued, Handle
    <3> HIDE DEF queues, p
    <3>2. /\ p \in hashes'[n] \cup missed'[n]
          /\ \A k \in HonestBoard : hashes[k] \subseteq hashes'[k] /\ missed[k] \subseteq missed'[k]
          /\ \A k \in HonestBoard : \A j \in Peers(k) : \A q :
                InQueue(queues[k][j], q) => InQueue(newCh'[k][j], q)
          /\ \A k \in HonestBoard : \A q \in hashes'[k] \ hashes[k] : \A j \in Peers(k) :
                q \in missed'[j] \/ InQueue(newCh'[k][j], q)
      BY <2>2, <2>3, <3>1, HandlerReaches, Zenon
    <3>3. \A k \in HonestBoard : \A j \in Peers(k) : \A q \in hashes[k] :
             OnItsWay(k, j, q) => OnItsWay(k, j, q)'
      <4> SUFFICES ASSUME NEW k \in HonestBoard, NEW j \in Peers(k), NEW q \in hashes[k]
                   PROVE  OnItsWay(k, j, q) => OnItsWay(k, j, q)'
        OBVIOUS
      <4>1. j \in HonestBoard
        BY <1>0, Zenon
      <4> QED
        BY <2>1, <2>4, <3>2, <4>1, Zenon DEF OnItsWay
    <3>4. \A k \in HonestBoard : \A j \in Peers(k) : \A q \in hashes'[k] \ hashes[k] :
             OnItsWay(k, j, q)'
      BY <3>2, Zenon DEF OnItsWay
    <3> QED
      BY <3>3, <3>4, ReachesKept, Zenon
  <2>6. CASE LoseQueued(m, n)
    <3>1. newCh' = queues /\ missed' = [missed EXCEPT ![n] = @ \cup {p}] /\ hashes' = hashes
      BY <2>6, Zenon DEF LoseQueued
    <3> HIDE DEF queues, p
    <3>2. p \in missed'[n] /\ \A k \in HonestBoard : missed[k] \subseteq missed'[k]
      BY <1>0, <2>2, <3>1, Zenon
    <3>3. \A k \in HonestBoard : \A j \in Peers(k) : \A q \in hashes[k] :
             OnItsWay(k, j, q) => OnItsWay(k, j, q)'
      <4> SUFFICES ASSUME NEW k \in HonestBoard, NEW j \in Peers(k), NEW q \in hashes[k]
                   PROVE  OnItsWay(k, j, q) => OnItsWay(k, j, q)'
        OBVIOUS
      <4>1. j \in HonestBoard
        BY <1>0
      <4> QED
        BY <2>1, <2>4, <3>1, <3>2, <4>1, Zenon DEF OnItsWay
    <3>4. \A k \in HonestBoard : hashes'[k] \ hashes[k] = {}
      BY <3>1
    <3> QED
      BY <3>3, <3>4, ReachesKept, Zenon
  <2> QED
    BY <1>7, <2>5, <2>6, Zenon
<1>8. ASSUME NEW m \in HonestBoard, NEW n \in Peers(m), NEW p \in Bundle,
             SendDirect(m, p, n) \/ LoseDirect(m, p, n)
      PROVE  EchoReaches'
  <2>1. n \in direct[m][p] /\ direct' = [direct EXCEPT ![m][p] = @ \ {n}] /\ n \in HonestBoard
    BY <1>0, <1>8, Zenon DEF SendDirect, LoseDirect
  <2>2. \A k \in HonestBoard, q \in Bundle : direct[k][q] \subseteq direct'[k][q] \cup
                                                {x \in {n} : k = m /\ q = p}
    BY <2>1, DirectTaken
  <2>3. p \in hashes[m] /\ Verified(p)
    BY <1>0, <2>1, Zenon DEF EchoInv, QueuesRegistered
  <2>4. CASE SendDirect(m, p, n)
    <3>1. BroadcastDKG(n, p, newCh) \/ NoBoard(n, p, newCh)
      BY <2>4 DEF SendDirect, Handle
    <3>2. /\ p \in hashes'[n] \cup missed'[n]
          /\ \A k \in HonestBoard : hashes[k] \subseteq hashes'[k] /\ missed[k] \subseteq missed'[k]
          /\ \A k \in HonestBoard : \A j \in Peers(k) : \A q :
                InQueue(newCh[k][j], q) => InQueue(newCh'[k][j], q)
          /\ \A k \in HonestBoard : \A q \in hashes'[k] \ hashes[k] : \A j \in Peers(k) :
                q \in missed'[j] \/ InQueue(newCh'[k][j], q)
      BY <1>0, <2>1, <2>3, <3>1, HandlerReaches, Zenon
    <3>3. \A k \in HonestBoard : \A j \in Peers(k) : \A q \in hashes[k] :
             OnItsWay(k, j, q) => OnItsWay(k, j, q)'
      <4> SUFFICES ASSUME NEW k \in HonestBoard, NEW j \in Peers(k), NEW q \in hashes[k]
                   PROVE  OnItsWay(k, j, q) => OnItsWay(k, j, q)'
        BY Zenon
      <4>1. j \in HonestBoard /\ q \in Bundle
        BY <1>0, Zenon
      <4>2. j \in direct[k][q] => j \in direct'[k][q] \/ (j = n /\ q = p)
        BY <2>2, <4>1, Zenon
      <4> QED
        BY <3>2, <4>1, <4>2, Zenon DEF OnItsWay
    <3>4. \A k \in HonestBoard : \A j \in Peers(k) : \A q \in hashes'[k] \ hashes[k] :
             OnItsWay(k, j, q)'
      BY <3>2, Zenon DEF OnItsWay
    <3> QED
      BY <3>3, <3>4, ReachesKept, Zenon
  <2>5. CASE LoseDirect(m, p, n)
    <3>1. newCh' = newCh /\ missed' = [missed EXCEPT ![n] = @ \cup {p}] /\ hashes' = hashes
      BY <2>5, Zenon DEF LoseDirect
    <3>2. p \in missed'[n] /\ \A k \in HonestBoard : missed[k] \subseteq missed'[k]
      BY <1>0, <2>1, <3>1, Zenon
    <3>3. \A k \in HonestBoard : \A j \in Peers(k) : \A q \in hashes[k] :
             OnItsWay(k, j, q) => OnItsWay(k, j, q)'
      BY <1>0, <2>2, <3>1, <3>2, Zenon DEF OnItsWay
    <3>4. \A k \in HonestBoard : hashes'[k] \ hashes[k] = {}
      BY <3>1
    <3> QED
      BY <3>3, <3>4, ReachesKept, Zenon
  <2> QED
    BY <1>8, <2>4, <2>5, Zenon
<1> QED
  BY <1>1, <1>2, <1>3, <1>4, <1>5, <1>6, <1>7, <1>8, Zenon DEF EchoNext, echoVars

(* A bundle that a node has registered reaches every other honest node, or *)
(* is on its way there, unless a call failed or a queue was full.          *)
THEOREM NoBundleForgotten == EchoSpec => []EchoReaches
<1>1. EchoInit => EchoReaches
  BY DEF EchoInit, EchoReaches
<1> QED
  BY EchoInitInv, EchoStepInv, ReachesStep, <1>1, PTL DEF EchoSpec

-----------------------------------------------------------------------------
(* The switch to the shares of a resharing (module Transition).            *)

\* The partials that may be on their way.
Messages == [to : Peer, round : Nat, idx : Nat, grp : {"old", "new"}, ok : BOOLEAN]

\* The types of what the argument is about.
TransTypes ==
    /\ oldGrp \in SUBSET Peer /\ newGrp \in SUBSET Peer
    /\ tClock \in Nat
    /\ mode \in [Peer -> {"out", "up", "stopped"}]
    /\ reshared \in [Peer -> {"not yet", "in time", "late"}]
    /\ share \in [Peer -> {"old", "new"}]
    /\ lastR \in [Peer -> Nat]
    /\ ticked \in SUBSET Peer /\ called \in SUBSET Peer
    /\ toSign \in [Peer -> SUBSET Nat]
    /\ mail \in SUBSET Messages

\* No node works on a round the clocks have not entered.
InTheirTime ==
    /\ tClock >= TRound - 1
    /\ \A n \in Peer : lastR[n] <= tClock
    /\ \A n \in Peer : \A r \in toSign[n] : r <= tClock
    /\ \A p \in mail : p.round <= tClock

\* Only nodes that run take ticks and partials; a catchup goroutine that outlives
\* its node signs for the old group.
OnlyTheRunning ==
    /\ \A p \in mail : Up(p.to)
    /\ \A n \in ticked : Up(n)
    /\ \A n \in Peer : mode[n] = "out" => toSign[n] = {}
    /\ \A n \in Peer : mode[n] = "stopped" => \A r \in toSign[n] : r < TRound
    /\ \A n \in Peer : Up(n) => n \in oldGrp \/ share[n] = "new"

\* The callback is called once the last old round is stored, and not before.
CalledAfterLast ==
    /\ \A n \in called : lastR[n] >= TRound - 1
    /\ \A n \in Staying \ excused :
          \/ share[n] = "new"
          \/ /\ reshared[n] # "not yet" => n \in hook
             /\ n \in hook /\ lastR[n] >= TRound - 1 => n \in called

\* A DKG that ended before the transition did not end late, and after the transition
\* every node of the old group has switched, has stopped or is excused.
DoneInTime ==
    /\ \A n \in Peer : reshared[n] = "late" => tClock >= TRound
    /\ tClock >= TRound => \A n \in oldGrp \ excused : 
          IF n \in newGrp THEN share[n] = "new" ELSE ~Up(n)

\* The inductive invariant.
TransInv ==
    /\ TransTypes /\ InTheirTime /\ OnlyTheRunning /\ CalledAfterLast /\ DoneInTime
    /\ SwitchAfterLast /\ OldShareRetires

\* Nobody has switched and nothing is on its way.
LEMMA TransInitInv == TransInit => TransInv
<1> SUFFICES ASSUME TransInit PROVE TransInv
  OBVIOUS
<1>1. PICK r \in Resharings : /\ oldGrp = r[1] /\ newGrp = r[2]
                              /\ lastR = [n \in Peer |-> IF n \in r[1] THEN r[3] ELSE 0]
  BY Zenon DEF TransInit
<1>2. r[1] \subseteq Peer /\ r[2] \subseteq Peer /\ r[3] \in 0 .. TRound - 1 /\ TRound \in Nat \ {0}
  BY ReshareAssumption, Zenon
<1>3. lastR \in [Peer -> Nat] /\ \A n \in Peer : lastR[n] <= TRound - 1
  BY <1>1, <1>2
<1>4. tClock = TRound - 1 /\ ticked = oldGrp
  BY Zenon DEF TransInit
<1>5. oldGrp \subseteq Peer /\ newGrp \subseteq Peer
  BY <1>1, <1>2, Zenon
<1>a. mode = [n \in Peer |-> IF n \in oldGrp THEN "up" ELSE "out"]
  BY Zenon DEF TransInit
<1>b. mode \in [Peer -> {"out", "up", "stopped"}] /\ \A n \in oldGrp : Up(n)
  BY <1>a, <1>5, Zenon DEF Up
<1>c. \A n \in Peer : mode[n] # "stopped" /\ (Up(n) => n \in oldGrp)
  BY <1>a DEF Up
<1>d. /\ reshared \in [Peer -> {"not yet", "in time", "late"}]
      /\ \A n \in Peer : reshared[n] = "not yet"
  BY Zenon DEF TransInit
<1>e. share \in [Peer -> {"old", "new"}] /\ \A n \in Peer : share[n] = "old"
  BY Zenon DEF TransInit
<1>f. toSign \in [Peer -> SUBSET Nat] /\ \A n \in Peer : toSign[n] = {}
  BY Zenon DEF TransInit
<1>g. \A p \in mail : FALSE
  BY Zenon DEF TransInit
<1>k. called \in SUBSET Peer
  BY Zenon DEF TransInit
<1>h. (\A n \in hook : FALSE) /\ (\A n \in called : FALSE) /\ (\A n \in strays : FALSE)
  BY Zenon DEF TransInit
<1>i. tClock \in Nat /\ ~(tClock >= TRound) /\ tClock >= TRound - 1
  BY <1>2, <1>4
<1>j. mail \in SUBSET Messages
  BY <1>g, Zenon
<1>6. TransTypes
  BY <1>3, <1>4, <1>5, <1>b, <1>d, <1>e, <1>f, <1>i, <1>j, <1>k, Zenon DEF TransTypes
<1>7. InTheirTime
  BY <1>3, <1>4, <1>f, <1>g, <1>i, Zenon DEF InTheirTime
<1>8. OnlyTheRunning
  BY <1>4, <1>5, <1>b, <1>c, <1>f, <1>g, Zenon DEF OnlyTheRunning
<1>9. CalledAfterLast
  BY <1>5, <1>d, <1>h, Zenon DEF CalledAfterLast, Staying
<1>10. DoneInTime
  BY <1>d, <1>i, Zenon DEF DoneInTime
<1>11. SwitchAfterLast /\ OldShareRetires
  BY <1>5, <1>e, <1>h DEF SwitchAfterLast, OldShareRetires, Staying
<1> QED
  BY <1>6, <1>7, <1>8, <1>9, <1>10, <1>11, Zenon DEF TransInv

\* What broadcastNextPartial sends is addressed to running nodes.
LEMMA BroadcastSends ==
  ASSUME TransTypes, NEW n \in Peer, NEW r \in Nat, Broadcast(n, r)
  PROVE  /\ mail' \in SUBSET Messages
         /\ \A p \in mail' : p \in mail \/ (p.round = r /\ Up(p.to))
<1>1. PICK g \in {share[n]} \cup {x \in {"new"} : n \in called} :
          mail' = mail \cup
             {[to |-> m, round |-> r, idx |-> IndexIn(n, Members(share[n])), grp |-> share[n],
               ok |-> m = n] : m \in {x \in Members(g) \cup {n} : Up(x) /\ lastR[x] < r}}
  BY Zenon DEF Broadcast
<1>2. share[n] \in {"old", "new"} /\ oldGrp \in SUBSET Peer /\ newGrp \in SUBSET Peer
  BY Zenon DEF TransTypes
<1>3. Members(g) \in SUBSET Peer /\ Members(share[n]) \in SUBSET Peer
  BY <1>2, Zenon DEF Members
<1> DEFINE i == IndexIn(n, Members(share[n]))
<1>4. i \in Nat
  BY <1>3, ReshareAssumption, Zenon
<1>5. mail \in SUBSET Messages
  BY Zenon DEF TransTypes
<1> DEFINE To == {x \in Members(g) \cup {n} : Up(x) /\ lastR[x] < r}
<1>6. To \in SUBSET Peer /\ \A x \in To : Up(x)
  BY <1>3, Zenon
<1>7. mail' = mail \cup {[to |-> m, round |-> r, idx |-> i, grp |-> share[n], ok |-> m = n] : m \in To}
  BY <1>1, Zenon
<1> HIDE DEF i, To
<1>8. ASSUME NEW p \in mail', p \notin mail
      PROVE  /\ p \in Messages
             /\ p.round = r /\ Up(p.to)
  <2>1. PICK m \in To : p = [to |-> m, round |-> r, idx |-> i, grp |-> share[n], ok |-> m = n]
    BY <1>7, <1>8, Zenon
  <2>2. p.round = r /\ p.to = m
    BY <2>1
  <2>3. (m = n) \in BOOLEAN
    BY Zenon
  <2>4. p \in Messages
    BY <2>1, <2>3, <1>2, <1>4, <1>6, Zenon DEF Messages
  <2>5. Up(p.to)
    BY <2>2, <1>6, Zenon
  <2> QED
    BY <2>2, <2>4, <2>5, Zenon
<1>9. \A p \in mail' : p \in mail \/ (p \in Messages /\ p.round = r /\ Up(p.to))
  BY <1>8
<1> QED
  BY <1>5, <1>9, Zenon

\* Put of a round at n keeps every fact but the callback's.
LEMMA StoresKeeps ==
  ASSUME TransTypes, NEW n \in Peer, NEW r \in Nat, NEW c, Stores(n, r, c), r = lastR[n] + 1
  PROVE  /\ lastR' \in [Peer -> Nat]
         /\ \A m \in Peer : lastR'[m] >= lastR[m]
         /\ \A m \in Peer : lastR'[m] = lastR[m] \/ (m = n /\ lastR'[m] = r)
         /\ \A p \in mail' : p \in mail
         /\ \A m \in called' : m \in called \/ (m = n /\ r >= TRound - 1)
         /\ \A m \in called : m \in called'
         /\ n \in hook /\ r >= TRound - 1 => n \in called'
<1>1. lastR' = [lastR EXCEPT ![n] = r] /\ lastR \in [Peer -> Nat]
  BY Zenon DEF Stores, TransTypes
<1>2. lastR' \in [Peer -> Nat] /\ lastR'[n] = r /\ \A m \in Peer : m # n => lastR'[m] = lastR[m]
  BY <1>1
<1>3. \A m \in Peer : lastR[m] \in Nat
  BY <1>1
<1>4. r >= lastR[n]
  BY <1>3
<1>5. \A m \in Peer : lastR'[m] >= lastR[m]
  BY <1>2, <1>3, <1>4
<1>6. \A p \in mail' : p \in mail
  BY Zenon DEF Stores
<1>7. called' = IF n \in hook /\ r >= TRound - 1 THEN called \cup {n} ELSE called
  BY Zenon DEF Stores, TargetRound
<1>8. /\ \A m \in called' : m \in called \/ (m = n /\ r >= TRound - 1)
      /\ \A m \in called : m \in called'
      /\ n \in hook /\ r >= TRound - 1 => n \in called'
  BY <1>7
<1> QED
  BY <1>2, <1>5, <1>6, <1>8, Zenon

\* Steps that only lose messages, of what the argument is about.
LEMMA LosingKeeps ==
  ASSUME TransInv, \A p \in mail' : p \in mail,
         UNCHANGED <<oldGrp, newGrp, tClock, mode, reshared, share, lastR, ticked, toSign, hook, called,
                     strays, excused>>
  PROVE  TransInv'
<1>1. /\ oldGrp' = oldGrp /\ newGrp' = newGrp /\ tClock' = tClock /\ mode' = mode
      /\ reshared' = reshared /\ share' = share /\ lastR' = lastR /\ ticked' = ticked
      /\ toSign' = toSign /\ hook' = hook /\ called' = called /\ strays' = strays
      /\ excused' = excused
  BY Zenon
<1>2. \A n : Up(n)' <=> Up(n)
  BY <1>1, Zenon DEF Up
<1>3. Staying' = Staying
  BY <1>1, Zenon DEF Staying
<1>4. TransTypes'
  <2>1. mail' \in SUBSET Messages
    BY Zenon DEF TransInv, TransTypes
  <2>2. Messages' = Messages
    BY Zenon DEF Messages
  <2> QED
    BY <1>1, <2>1, <2>2, Zenon DEF TransInv, TransTypes
<1>5. InTheirTime'
  BY <1>1, Zenon DEF TransInv, InTheirTime
<1>6. OnlyTheRunning'
  BY <1>1, <1>2, Zenon DEF TransInv, OnlyTheRunning
<1>7. CalledAfterLast'
  BY <1>1, <1>3, Zenon DEF TransInv, CalledAfterLast
<1>8. DoneInTime'
  BY <1>1, <1>2, Zenon DEF TransInv, DoneInTime
<1>9. SwitchAfterLast' /\ OldShareRetires'
  BY <1>1, <1>3, Zenon DEF TransInv, SwitchAfterLast, OldShareRetires
<1> QED
  BY <1>4, <1>5, <1>6, <1>7, <1>8, <1>9, Zenon DEF TransInv

\* Steps that store the next beacon at a running node, and may start a catchup
\* goroutine for the one after it.
LEMMA StoringKeeps ==
  ASSUME TransInv, NEW n \in Peer, NEW c, Stores(n, lastR[n] + 1, c), Up(n),
         lastR[n] + 1 <= tClock,
         \/ toSign' = toSign
         \/ /\ lastR[n] + 2 <= tClock
            /\ toSign' = [toSign EXCEPT ![n] = @ \cup {lastR[n] + 2}],
         UNCHANGED <<oldGrp, newGrp, tClock, mode, reshared, share, ticked, hook, strays, excused>>
  PROVE  TransInv'
<1>0. TransTypes /\ TRound \in Nat \ {0}
  BY ReshareAssumption, Zenon DEF TransInv
<1>1. /\ oldGrp' = oldGrp /\ newGrp' = newGrp /\ tClock' = tClock /\ mode' = mode
      /\ reshared' = reshared /\ share' = share /\ ticked' = ticked
      /\ hook' = hook /\ strays' = strays /\ excused' = excused
  BY Zenon
<1>2. \A m : Up(m)' <=> Up(m)
  BY <1>1, Zenon DEF Up
<1>3. Staying' = Staying /\ \A m \in Staying : m \in Peer
  BY <1>0, <1>1, Zenon DEF Staying, TransTypes
<1>n. tClock \in Nat /\ \A m \in Peer : lastR[m] \in Nat
  BY <1>0, Zenon DEF TransTypes
<1>r. lastR[n] + 1 \in Nat
  BY <1>n
<1>4. /\ lastR' \in [Peer -> Nat]
      /\ \A m \in Peer : lastR'[m] >= lastR[m]
      /\ \A m \in Peer : lastR'[m] = lastR[m] \/ (m = n /\ lastR'[m] = lastR[n] + 1)
      /\ \A p \in mail' : p \in mail
      /\ \A m \in called' : m \in called \/ (m = n /\ lastR[n] + 1 >= TRound - 1)
      /\ \A m \in called : m \in called'
      /\ n \in hook /\ lastR[n] + 1 >= TRound - 1 => n \in called'
  <2> DEFINE r == lastR[n] + 1
  <2>1. r \in Nat /\ r = lastR[n] + 1 /\ Stores(n, r, c)
    BY <1>r
  <2> HIDE DEF r
  <2> QED
    BY <1>0, <2>1, StoresKeeps, Zenon
<1>p. \A m \in Peer : lastR'[m] \in Nat
  BY <1>4, Zenon
<1>u. lastR'[n] = lastR[n] + 1
  BY Zenon DEF Stores, TransInv, TransTypes
<1>5. /\ toSign' \in [Peer -> SUBSET Nat]
      /\ \A m \in Peer : \A r \in toSign'[m] : r \in toSign[m] \/ (m = n /\ r <= tClock)
  <2>1. toSign \in [Peer -> SUBSET Nat]
    BY <1>0, Zenon DEF TransTypes
  <2>2. CASE toSign' = toSign
    BY <2>1, <2>2, Zenon
  <2>3. CASE /\ lastR[n] + 2 <= tClock
             /\ toSign' = [toSign EXCEPT ![n] = @ \cup {lastR[n] + 2}]
    <3> DEFINE r == lastR[n] + 2
    <3>1. r \in Nat /\ r <= tClock /\ toSign' = [toSign EXCEPT ![n] = toSign[n] \cup {r}]
      BY <1>n, <2>3
    <3> HIDE DEF r
    <3>2. toSign[n] \cup {r} \in SUBSET Nat
      BY <2>1, <3>1
    <3>3. /\ toSign' \in [Peer -> SUBSET Nat] /\ toSign'[n] = toSign[n] \cup {r}
          /\ \A m \in Peer : m # n => toSign'[m] = toSign[m]
      BY <2>1, <3>1, <3>2, Zenon
    <3> QED
      BY <3>1, <3>3, Zenon
  <2> QED
    BY <2>2, <2>3, Zenon
<1>6. TransTypes'
  <2>1. mail' \in SUBSET Messages /\ Messages' = Messages
    BY <1>4, Zenon DEF TransInv, TransTypes, Messages
  <2> QED
    BY <1>0, <1>1, <1>4, <1>5, <2>1, Zenon DEF TransTypes
<1>7. InTheirTime'
  <2>1. \A m \in Peer : lastR'[m] <= tClock
    BY <1>4, Zenon DEF TransInv, InTheirTime
  <2>2. \A m \in Peer : \A r \in toSign'[m] : r <= tClock
    BY <1>5, Zenon DEF TransInv, InTheirTime
  <2> QED
    BY <1>1, <1>4, <2>1, <2>2, Zenon DEF TransInv, InTheirTime
<1>8. OnlyTheRunning'
  <2>1. mode[n] # "out" /\ mode[n] # "stopped"
    BY DEF Up
  <2>2. \A m \in Peer : m # n => \A r \in toSign'[m] : r \in toSign[m]
    BY <1>5, Zenon
  <2>3. \A m \in Peer : mode[m] = "out" => toSign'[m] = {}
    BY <2>1, <2>2, Zenon DEF TransInv, OnlyTheRunning
  <2>4. \A m \in Peer : mode[m] = "stopped" => \A r \in toSign'[m] : r < TRound
    BY <2>1, <2>2, Zenon DEF TransInv, OnlyTheRunning
  <2> QED
    BY <1>1, <1>2, <1>4, <2>3, <2>4, Zenon DEF TransInv, OnlyTheRunning
<1>9. CalledAfterLast'
  <2>1. ASSUME NEW m \in called' PROVE lastR'[m] >= TRound - 1
    <3>1. CASE m \in called
      <4>1. lastR[m] >= TRound - 1 /\ m \in Peer
        BY <3>1, <1>0, Zenon DEF TransInv, CalledAfterLast, TransTypes
      <4> QED
        BY <4>1, <1>0, <1>n, <1>p, <1>4
    <3>2. CASE m = n /\ lastR[n] + 1 >= TRound - 1
      BY <3>2, <1>n, <1>u, Zenon
    <3> QED
      BY <2>1, <3>1, <3>2, <1>4, Zenon
  <2>2. ASSUME NEW m \in Staying \ excused, share[m] # "new"
        PROVE  /\ reshared[m] # "not yet" => m \in hook
               /\ m \in hook /\ lastR'[m] >= TRound - 1 => m \in called'
    <3>1. /\ reshared[m] # "not yet" => m \in hook
          /\ m \in hook /\ lastR[m] >= TRound - 1 => m \in called
      BY <2>2, Zenon DEF TransInv, CalledAfterLast
    <3>2. CASE lastR'[m] = lastR[m]
      BY <3>1, <3>2, <1>4, Zenon
    <3>3. CASE m = n /\ lastR'[m] = lastR[n] + 1
      BY <3>1, <3>3, <1>4, Zenon
    <3> QED
      BY <3>2, <3>3, <1>3, <1>4, <2>2, Zenon
  <2> QED
    BY <1>1, <1>3, <2>1, <2>2, Zenon DEF CalledAfterLast
<1>10. DoneInTime'
  BY <1>1, <1>2, Zenon DEF TransInv, DoneInTime
<1>11. SwitchAfterLast' /\ OldShareRetires'
  <2>1. ASSUME NEW m \in Staying, share[m] = "new" PROVE lastR'[m] >= TRound - 1
    <3>1. lastR[m] >= TRound - 1 /\ m \in Peer
      BY <2>1, <1>3, Zenon DEF TransInv, SwitchAfterLast
    <3> QED
      BY <3>1, <1>0, <1>n, <1>p, <1>4
  <2> QED
    BY <1>1, <1>3, <2>1, Zenon DEF TransInv, SwitchAfterLast, OldShareRetires
<1> QED
  BY <1>6, <1>7, <1>8, <1>9, <1>10, <1>11, Zenon DEF TransInv

\* Steps that sign a round: at a running node the current round at most, at a
\* stopped one a round of the old group.
LEMMA SigningKeeps ==
  ASSUME TransInv, NEW n \in Peer, NEW r \in Nat, Broadcast(n, r), r <= tClock,
         Up(n) \/ r < TRound,
         \A m \in ticked' : m \in ticked,
         toSign' \in [Peer -> SUBSET Nat],
         \A m \in Peer : \A q \in toSign'[m] : q \in toSign[m],
         UNCHANGED <<oldGrp, newGrp, tClock, mode, reshared, share, lastR, hook, called, excused>>
  PROVE  TransInv'
<1>0. TransTypes /\ TRound \in Nat \ {0}
  BY ReshareAssumption, Zenon DEF TransInv
<1>1. /\ oldGrp' = oldGrp /\ newGrp' = newGrp /\ tClock' = tClock /\ mode' = mode
      /\ reshared' = reshared /\ share' = share /\ lastR' = lastR
      /\ hook' = hook /\ called' = called /\ excused' = excused
  BY Zenon
<1>2. \A m : Up(m)' <=> Up(m)
  BY <1>1, Zenon DEF Up
<1>3. Staying' = Staying
  BY <1>1, Zenon DEF Staying
<1>4. mail' \in SUBSET Messages /\ \A p \in mail' : p \in mail \/ (p.round = r /\ Up(p.to))
  BY <1>0, BroadcastSends, Zenon
<1>5. TransTypes'
  <2>1. Messages' = Messages
    BY Zenon DEF Messages
  <2>2. ticked' \in SUBSET Peer
    BY <1>0, Zenon DEF TransTypes
  <2> QED
    BY <1>0, <1>1, <1>4, <2>1, <2>2, Zenon DEF TransTypes
<1>6. InTheirTime'
  <2>1. \A p \in mail' : p.round <= tClock
    BY <1>4, Zenon DEF TransInv, InTheirTime
  <2> QED
    BY <1>1, <2>1, Zenon DEF TransInv, InTheirTime
<1>7. OnlyTheRunning'
  <2>1. \A p \in mail' : Up(p.to)
    BY <1>4, Zenon DEF TransInv, OnlyTheRunning
  <2>2. \A m \in Peer : mode[m] = "out" => toSign'[m] = {}
    BY Zenon DEF TransInv, OnlyTheRunning
  <2>3. \A m \in Peer : mode[m] = "stopped" => \A q \in toSign'[m] : q < TRound
    BY Zenon DEF TransInv, OnlyTheRunning
  <2> QED
    BY <1>1, <1>2, <2>1, <2>2, <2>3, Zenon DEF TransInv, OnlyTheRunning
<1>8. CalledAfterLast'
  BY <1>1, <1>3, Zenon DEF TransInv, CalledAfterLast
<1>9. DoneInTime'
  BY <1>1, <1>2, Zenon DEF TransInv, DoneInTime
<1>10. SwitchAfterLast'
  BY <1>1, <1>3, Zenon DEF TransInv, SwitchAfterLast
<1>11. OldShareRetires'
  <2>1. ASSUME r >= TRound, share[n] = "old" PROVE n \in excused
    <3>1. tClock \in Nat
      BY <1>0, Zenon DEF TransTypes
    <3>2. tClock >= TRound /\ ~(r < TRound)
      BY <2>1, <3>1, <1>0
    <3>3. Up(n) /\ share[n] # "new"
      BY <2>1, <3>2
    <3>4. n \in oldGrp
      BY <3>3, Zenon DEF TransInv, OnlyTheRunning
    <3> QED
      BY <3>2, <3>3, <3>4, Zenon DEF TransInv, DoneInTime
  <2>2. strays' = IF r >= TRound /\ share[n] = "old" THEN strays \cup {n} ELSE strays
    BY Zenon DEF Broadcast
  <2>3. strays' \subseteq excused
    BY <2>1, <2>2, Zenon DEF TransInv, OldShareRetires
  <2> QED
    BY <1>1, <2>3, Zenon DEF OldShareRetires
<1> QED
  BY <1>5, <1>6, <1>7, <1>8, <1>9, <1>10, <1>11, Zenon DEF TransInv

\* A step changes the state of one node, or the clocks.
LEMMA TransStep == TransInv /\ [TransNext]_transVars => TransInv'
<1> SUFFICES ASSUME TransInv, [TransNext]_transVars PROVE TransInv'
  OBVIOUS
<1>0. /\ TransTypes /\ InTheirTime /\ OnlyTheRunning /\ CalledAfterLast /\ DoneInTime
      /\ SwitchAfterLast /\ OldShareRetires /\ TRound \in Nat \ {0}
  BY ReshareAssumption, Zenon DEF TransInv
<1>t. /\ oldGrp \in SUBSET Peer /\ newGrp \in SUBSET Peer
      /\ tClock \in Nat
      /\ mode \in [Peer -> {"out", "up", "stopped"}]
      /\ reshared \in [Peer -> {"not yet", "in time", "late"}]
      /\ share \in [Peer -> {"old", "new"}]
      /\ lastR \in [Peer -> Nat]
      /\ ticked \in SUBSET Peer /\ called \in SUBSET Peer
      /\ toSign \in [Peer -> SUBSET Nat]
      /\ mail \in SUBSET Messages
  BY <1>0, Zenon DEF TransTypes
<1>i. /\ tClock >= TRound - 1
      /\ \A n \in Peer : lastR[n] <= tClock
      /\ \A n \in Peer : \A r \in toSign[n] : r <= tClock
      /\ \A p \in mail : p.round <= tClock
  BY <1>0, Zenon DEF InTheirTime
<1>u. /\ \A p \in mail : Up(p.to)
      /\ \A n \in ticked : Up(n)
      /\ \A n \in Peer : mode[n] = "out" => toSign[n] = {}
      /\ \A n \in Peer : mode[n] = "stopped" => \A r \in toSign[n] : r < TRound
      /\ \A n \in Peer : Up(n) => n \in oldGrp \/ share[n] = "new"
  BY <1>0, Zenon DEF OnlyTheRunning
<1>c. /\ \A n \in called : lastR[n] >= TRound - 1
      /\ \A n \in Staying \ excused :
          \/ share[n] = "new"
          \/ /\ reshared[n] # "not yet" => n \in hook
             /\ n \in hook /\ lastR[n] >= TRound - 1 => n \in called
  BY <1>0, Zenon DEF CalledAfterLast
<1>d. /\ \A n \in Peer : reshared[n] = "late" => tClock >= TRound
      /\ tClock >= TRound => \A n \in oldGrp \ excused :
          IF n \in newGrp THEN share[n] = "new" ELSE ~Up(n)
  BY <1>0, Zenon DEF DoneInTime
<1>s. \A n \in Staying : share[n] = "new" => lastR[n] >= TRound - 1
  BY <1>0, Zenon DEF SwitchAfterLast
<1>n. TRound \in Nat \ {0} /\ tClock \in Nat /\ \A n \in Peer : lastR[n] \in Nat
  BY <1>0, <1>t, Zenon
<1>e. /\ \A n \in Peer : reshared[n] \in {"not yet", "in time", "late"}
      /\ \A n \in Peer : share[n] \in {"old", "new"}
      /\ \A n \in Peer : mode[n] \in {"out", "up", "stopped"}
      /\ oldGrp \subseteq Peer /\ newGrp \subseteq Peer
  BY <1>t, Zenon
<1>j. tClock >= TRound - 1
  BY <1>i, Zenon
<1>1. CASE NextClock
  <2>1. /\ tClock' = tClock + 1
        /\ ticked' = {n \in Peer : Up(n) /\ (n \in oldGrp \/ tClock' >= TRound)}
        /\ called = {} /\ called' = called
    BY <1>1, Zenon DEF NextClock
  <2>2. /\ oldGrp' = oldGrp /\ newGrp' = newGrp /\ mode' = mode /\ reshared' = reshared
        /\ share' = share /\ lastR' = lastR /\ toSign' = toSign /\ mail' = mail /\ hook' = hook
        /\ strays' = strays
    BY <1>1, Zenon DEF NextClock, groups
  <2>3. excused' = IF tClock' # TRound THEN excused ELSE excused \cup
                     {n \in oldGrp : \/ reshared[n] = "not yet"
                                     \/ n \in Staying /\ lastR[n] < TRound - 1}
    BY <1>1, Zenon DEF NextClock
  <2>4. excused \subseteq excused'
    BY <2>3, Zenon
  <2>5. ticked' \in SUBSET Peer /\ \A n \in ticked' : Up(n)
    BY <2>1, Zenon
  <2>6. tClock' \in Nat /\ tClock' >= TRound - 1 /\ \A x \in Nat : x <= tClock => x <= tClock'
    BY <1>n, <1>j, <2>1
  <2>7. TransTypes'
    BY <1>t, <2>1, <2>2, <2>5, <2>6, Zenon DEF TransTypes, Messages
  <2>8. \A p \in mail : p.round \in Nat
    <3>1. mail \in SUBSET Messages
      BY <1>t, Zenon
    <3> QED
      BY <3>1 DEF Messages
  <2>9. \A n \in Peer : \A r \in toSign[n] : r \in Nat
    BY <1>t, Zenon
  <2>10. InTheirTime'
    BY <1>i, <1>n, <2>2, <2>6, <2>8, <2>9, Zenon DEF InTheirTime
  <2>11. \A n : Up(n)' <=> Up(n)
    BY <2>2, Zenon DEF Up
  <2>12. OnlyTheRunning'
    BY <1>u, <2>2, <2>5, <2>11, Zenon DEF OnlyTheRunning
  <2>13. Staying' = Staying
    BY <2>2, Zenon DEF Staying
  <2>14. CalledAfterLast'
    BY <1>c, <2>1, <2>2, <2>4, <2>13, Zenon DEF CalledAfterLast
  <2>15. \A n \in Peer : reshared'[n] = "late" => tClock' >= TRound
    BY <1>d, <1>n, <2>1, <2>2
  <2>16. ASSUME tClock' >= TRound, NEW n \in oldGrp \ excused'
         PROVE  IF n \in newGrp THEN share[n] = "new" ELSE ~Up(n)
    <3>1. CASE tClock >= TRound
      BY <3>1, <1>d, <2>4, <2>16, Zenon
    <3>2. CASE ~(tClock >= TRound)
      <4>1. tClock' = TRound /\ tClock = TRound - 1
        BY <3>2, <1>n, <1>j, <2>1, <2>16
      <4>2. n \notin excused /\ reshared[n] # "not yet" /\ (n \in newGrp => ~(lastR[n] < TRound - 1))
        BY <4>1, <2>3, <2>16, Zenon DEF Staying
      <4>3. reshared[n] = "in time"
        BY <3>2, <4>2, <1>d, <1>e, <2>16, Zenon
      <4>4. n \notin newGrp => ~Up(n)
        BY <1>1, <4>1, <4>3, <1>t, Zenon DEF NextClock, TimeToStop
      <4>5. ASSUME n \in newGrp PROVE share[n] = "new"
        <5>1. n \in Staying \ excused
          BY <4>2, <4>5, <2>16, Zenon DEF Staying
        <5>a. lastR[n] \in Nat /\ TRound \in Nat
          BY <4>5, <1>n, <1>e, Zenon
        <5>b. ~(lastR[n] < TRound - 1)
          BY <4>2, <4>5, Zenon
        <5>2. lastR[n] >= TRound - 1
          BY <5>a, <5>b
        <5>3. n \notin called
          BY <2>1, Zenon
        <5> QED
          BY <1>c, <4>2, <5>1, <5>2, <5>3, Zenon
      <4> QED
        BY <4>4, <4>5, Zenon
    <3> QED
      BY <3>1, <3>2, Zenon
  <2>17. DoneInTime'
    BY <2>2, <2>11, <2>15, <2>16, Zenon DEF DoneInTime
  <2>18. SwitchAfterLast' /\ OldShareRetires'
    BY <1>0, <2>2, <2>4, <2>13, Zenon DEF SwitchAfterLast, OldShareRetires
  <2> QED
    BY <2>7, <2>10, <2>12, <2>14, <2>17, <2>18, Zenon DEF TransInv
<1>2. ASSUME NEW n \in Peer, TransitionNewGroup(n) PROVE TransInv'
  <2>1. /\ oldGrp' = oldGrp /\ newGrp' = newGrp /\ tClock' = tClock /\ mode' = mode
        /\ share' = share /\ lastR' = lastR /\ ticked' = ticked /\ toSign' = toSign /\ mail' = mail
        /\ called' = called /\ strays' = strays
    BY <1>2, Zenon DEF TransitionNewGroup, groups
  <2>2. /\ reshared' = [reshared EXCEPT ![n] = IF tClock <= TRound - 1 THEN "in time" ELSE "late"]
        /\ hook' = hook \cup {n} /\ n \in Staying
        /\ excused' = IF lastR[n] >= TRound - 1 THEN excused \cup {n} ELSE excused
    BY <1>2, Zenon DEF TransitionNewGroup, DKGEnds, TimeToStop
  <2>3. /\ reshared' \in [Peer -> {"not yet", "in time", "late"}]
        /\ \A m \in Peer : m # n => reshared'[m] = reshared[m]
        /\ reshared'[n] = "late" => ~(tClock <= TRound - 1)
    <3>1. reshared \in [Peer -> {"not yet", "in time", "late"}]
      BY <1>t, Zenon
    <3> QED
      BY <3>1, <2>2, Zenon
  <2>4. \A m : Up(m)' <=> Up(m)
    BY <2>1, Zenon DEF Up
  <2>5. Staying' = Staying /\ \A m \in Staying : m \in Peer
    BY <1>e, <2>1, Zenon DEF Staying
  <2>6. excused \subseteq excused'
    BY <2>2, Zenon
  <2>7. TransTypes'
    BY <1>t, <2>1, <2>3, Zenon DEF TransTypes, Messages
  <2>8. InTheirTime'
    BY <1>0, <2>1, Zenon DEF InTheirTime
  <2>9. OnlyTheRunning'
    BY <1>0, <2>1, <2>4, Zenon DEF OnlyTheRunning
  <2>10. CalledAfterLast'
    <3>1. ASSUME NEW m \in Staying \ excused', share[m] # "new"
          PROVE  /\ reshared'[m] # "not yet" => m \in hook'
                 /\ m \in hook' /\ lastR[m] >= TRound - 1 => m \in called
      <4>1. CASE m = n
        BY <4>1, <3>1, <2>2, Zenon
      <4>2. CASE m # n
        BY <4>2, <3>1, <2>2, <2>3, <2>5, <2>6, <1>c, Zenon
      <4> QED
        BY <4>1, <4>2, Zenon
    <3> QED
      BY <1>c, <2>1, <2>5, <3>1, Zenon DEF CalledAfterLast
  <2>11. DoneInTime'
    <3>1. ~(tClock <= TRound - 1) => tClock >= TRound
      BY <1>n
    <3>2. \A m \in Peer : reshared'[m] = "late" => tClock >= TRound
      BY <3>1, <2>3, <1>d, Zenon
    <3> QED
      BY <3>2, <1>d, <2>1, <2>4, <2>6, Zenon DEF DoneInTime
  <2>12. SwitchAfterLast' /\ OldShareRetires'
    BY <1>0, <2>1, <2>5, <2>6, Zenon DEF SwitchAfterLast, OldShareRetires
  <2> QED
    BY <2>7, <2>8, <2>9, <2>10, <2>11, <2>12, Zenon DEF TransInv
<1>3. ASSUME NEW n \in Peer, JoinTransition(n) PROVE TransInv'
  <2>1. /\ oldGrp' = oldGrp /\ newGrp' = newGrp /\ tClock' = tClock
        /\ lastR' = lastR /\ ticked' = ticked /\ toSign' = toSign /\ mail' = mail /\ hook' = hook
        /\ called' = called /\ strays' = strays /\ excused' = excused
    BY <1>3, Zenon DEF JoinTransition, groups
  <2>2. /\ reshared' = [reshared EXCEPT ![n] = IF tClock <= TRound - 1 THEN "in time" ELSE "late"]
        /\ mode' = [mode EXCEPT ![n] = "up"] /\ share' = [share EXCEPT ![n] = "new"]
        /\ n \in newGrp /\ n \notin oldGrp
    BY <1>3, Zenon DEF JoinTransition, DKGEnds, TimeToStop
  <2>3. /\ reshared' \in [Peer -> {"not yet", "in time", "late"}]
        /\ \A m \in Peer : m # n => reshared'[m] = reshared[m]
        /\ reshared'[n] = "late" => ~(tClock <= TRound - 1)
    <3>1. reshared \in [Peer -> {"not yet", "in time", "late"}]
      BY <1>t, Zenon
    <3> QED
      BY <3>1, <2>2, Zenon
  <2>4. /\ mode' \in [Peer -> {"out", "up", "stopped"}] /\ mode'[n] = "up"
        /\ \A m \in Peer : m # n => mode'[m] = mode[m]
    BY <1>t, <2>2, Zenon
  <2>5. /\ share' \in [Peer -> {"old", "new"}] /\ share'[n] = "new"
        /\ \A m \in Peer : m # n => share'[m] = share[m]
    BY <1>t, <2>2, Zenon
  <2>6. /\ \A m \in Peer : m # n => (Up(m)' <=> Up(m))
        /\ \A m \in Peer : Up(m) => Up(m)'
    BY <2>4, Zenon DEF Up
  <2>7. /\ Staying' = Staying /\ \A m \in Staying : m \in Peer /\ m # n
    BY <1>e, <2>1, <2>2, Zenon DEF Staying
  <2>8. TransTypes'
    BY <1>t, <2>1, <2>3, <2>4, <2>5, Zenon DEF TransTypes, Messages
  <2>9. InTheirTime'
    BY <1>0, <2>1, Zenon DEF InTheirTime
  <2>10. OnlyTheRunning'
    <3>1. \A p \in mail : Up(p.to) /\ p.to \in Peer
      <4>1. mail \in SUBSET Messages
        BY <1>t, Zenon
      <4>2. \A p \in mail : p.to \in Peer
        BY <4>1 DEF Messages
      <4> QED
        BY <4>2, <1>u, Zenon
    <3>2. \A p \in mail' : Up(p.to)'
      BY <3>1, <2>1, <2>6, Zenon
    <3>3. \A m \in ticked' : Up(m)'
      BY <1>t, <1>u, <2>1, <2>6, Zenon
    <3>4. ASSUME NEW m \in Peer
          PROVE  /\ mode'[m] = "out" => toSign[m] = {}
                 /\ mode'[m] = "stopped" => \A r \in toSign[m] : r < TRound
                 /\ Up(m)' => m \in oldGrp \/ share'[m] = "new"
      <4>1. CASE m = n
        <5>1. mode'[m] # "out" /\ mode'[m] # "stopped"
          BY <4>1, <2>4
        <5> QED
          BY <5>1, <4>1, <2>5, Zenon
      <4>2. CASE m # n
        BY <4>2, <1>u, <2>4, <2>5, <2>6, Zenon
      <4> QED
        BY <4>1, <4>2, Zenon
    <3> QED
      BY <2>1, <3>2, <3>3, <3>4, Zenon DEF OnlyTheRunning
  <2>11. CalledAfterLast'
    BY <1>c, <2>1, <2>3, <2>5, <2>7, Zenon DEF CalledAfterLast
  <2>12. DoneInTime'
    <3>1. ~(tClock <= TRound - 1) => tClock >= TRound
      BY <1>n
    <3>2. \A m \in Peer : reshared'[m] = "late" => tClock >= TRound
      BY <3>1, <2>3, <1>d, Zenon
    <3>3. \A m \in oldGrp : m \in Peer /\ m # n
      BY <1>e, <2>2, Zenon
    <3> QED
      BY <3>2, <3>3, <1>d, <2>1, <2>5, <2>6, Zenon DEF DoneInTime
  <2>13. SwitchAfterLast' /\ OldShareRetires'
    BY <1>0, <2>1, <2>5, <2>7, Zenon DEF SwitchAfterLast, OldShareRetires
  <2> QED
    BY <2>8, <2>9, <2>10, <2>11, <2>12, <2>13, Zenon DEF TransInv
<1>4. ASSUME NEW n \in Peer, LeaveTransition(n) PROVE TransInv'
  <2>1. /\ oldGrp' = oldGrp /\ newGrp' = newGrp /\ tClock' = tClock /\ mode' = mode
        /\ share' = share /\ lastR' = lastR /\ ticked' = ticked /\ toSign' = toSign /\ mail' = mail
        /\ hook' = hook /\ called' = called /\ strays' = strays /\ excused' = excused
    BY <1>4, Zenon DEF LeaveTransition, groups
  <2>2. /\ reshared' = [reshared EXCEPT ![n] = IF tClock <= TRound - 1 THEN "in time" ELSE "late"]
        /\ n \notin newGrp
    BY <1>4, Zenon DEF LeaveTransition, DKGEnds, TimeToStop
  <2>3. /\ reshared' \in [Peer -> {"not yet", "in time", "late"}]
        /\ \A m \in Peer : m # n => reshared'[m] = reshared[m]
        /\ reshared'[n] = "late" => ~(tClock <= TRound - 1)
    <3>1. reshared \in [Peer -> {"not yet", "in time", "late"}]
      BY <1>t, Zenon
    <3> QED
      BY <3>1, <2>2, Zenon
  <2>4. \A m : Up(m)' <=> Up(m)
    BY <2>1, Zenon DEF Up
  <2>5. Staying' = Staying /\ \A m \in Staying : m \in Peer /\ m # n
    BY <1>e, <2>1, <2>2, Zenon DEF Staying
  <2>6. TransTypes'
    BY <1>t, <2>1, <2>3, Zenon DEF TransTypes, Messages
  <2>7. InTheirTime'
    BY <1>0, <2>1, Zenon DEF InTheirTime
  <2>8. OnlyTheRunning'
    BY <1>0, <2>1, <2>4, Zenon DEF OnlyTheRunning
  <2>9. CalledAfterLast'
    BY <1>c, <2>1, <2>3, <2>5, Zenon DEF CalledAfterLast
  <2>10. DoneInTime'
    <3>1. ~(tClock <= TRound - 1) => tClock >= TRound
      BY <1>n
    <3>2. \A m \in Peer : reshared'[m] = "late" => tClock >= TRound
      BY <3>1, <2>3, <1>d, Zenon
    <3> QED
      BY <3>2, <1>d, <2>1, <2>4, Zenon DEF DoneInTime
  <2>11. SwitchAfterLast' /\ OldShareRetires'
    BY <1>0, <2>1, <2>5, Zenon DEF SwitchAfterLast, OldShareRetires
  <2> QED
    BY <2>6, <2>7, <2>8, <2>9, <2>10, <2>11, Zenon DEF TransInv
<1>5. ASSUME NEW n \in Peer, StopAt(n) PROVE TransInv'
  <2>1. /\ oldGrp' = oldGrp /\ newGrp' = newGrp /\ tClock' = tClock /\ reshared' = reshared
        /\ share' = share /\ lastR' = lastR /\ toSign' = toSign
        /\ hook' = hook /\ called' = called /\ strays' = strays /\ excused' = excused
    BY <1>5, Zenon DEF StopAt, groups
  <2>2. /\ mode' = [mode EXCEPT ![n] = "stopped"] /\ ticked' = ticked \ {n}
        /\ mail' = {p \in mail : p.to # n} /\ tClock = TRound - 1
    BY <1>5, Zenon DEF StopAt, TimeToStop
  <2>3. /\ mode' \in [Peer -> {"out", "up", "stopped"}] /\ mode'[n] = "stopped"
        /\ \A m \in Peer : m # n => mode'[m] = mode[m]
    BY <1>t, <2>2, Zenon
  <2>4. "stopped" # "up" /\ "stopped" # "out"
    OBVIOUS
  <2>5. \A m \in Peer : IF m = n THEN ~Up(m)' ELSE Up(m)' <=> Up(m)
    BY <2>3, <2>4, Zenon DEF Up
  <2>6. ~(tClock >= TRound) /\ \A r \in Nat : r <= tClock => r < TRound
    BY <1>n, <2>2
  <2>7. TransTypes'
    BY <1>t, <2>1, <2>2, <2>3, Zenon DEF TransTypes, Messages
  <2>8. InTheirTime'
    BY <1>i, <2>1, <2>2, Zenon DEF InTheirTime
  <2>9. \A p \in mail : p.to \in Peer
    <3>1. mail \in SUBSET Messages
      BY <1>t, Zenon
    <3> QED
      BY <3>1 DEF Messages
  <2>10. OnlyTheRunning'
    <3>1. \A p \in mail' : Up(p.to)'
      BY <1>u, <2>2, <2>5, <2>9, Zenon
    <3>2. \A m \in ticked' : Up(m)'
      BY <1>t, <1>u, <2>2, <2>5, Zenon
    <3>3. ASSUME NEW m \in Peer
          PROVE  /\ mode'[m] = "out" => toSign[m] = {}
                 /\ mode'[m] = "stopped" => \A r \in toSign[m] : r < TRound
                 /\ Up(m)' => m \in oldGrp \/ share[m] = "new"
      <4>1. CASE m = n
        <5>1. \A r \in toSign[m] : r \in Nat /\ r <= tClock
          BY <1>t, <1>i, Zenon
        <5> QED
          BY <5>1, <4>1, <2>3, <2>4, <2>5, <2>6, Zenon
      <4>2. CASE m # n
        BY <4>2, <1>u, <2>3, <2>5, Zenon
      <4> QED
        BY <4>1, <4>2, Zenon
    <3> QED
      BY <2>1, <3>1, <3>2, <3>3, Zenon DEF OnlyTheRunning
  <2>11. Staying' = Staying
    BY <2>1, Zenon DEF Staying
  <2>12. CalledAfterLast'
    BY <1>c, <2>1, <2>11, Zenon DEF CalledAfterLast
  <2>13. DoneInTime'
    BY <1>d, <2>1, <2>6, Zenon DEF DoneInTime
  <2>14. SwitchAfterLast' /\ OldShareRetires'
    BY <1>0, <2>1, <2>11, Zenon DEF SwitchAfterLast, OldShareRetires
  <2> QED
    BY <2>7, <2>8, <2>10, <2>12, <2>13, <2>14, Zenon DEF TransInv
<1>6. ASSUME NEW n \in Peer, RunTick(n) PROVE TransInv'
  <2> DEFINE r == IF lastR[n] = tClock THEN tClock ELSE lastR[n] + 1
  <2>1. lastR[n] \in Nat /\ lastR[n] <= tClock /\ tClock \in Nat
    BY <1>i, <1>n, Zenon
  <2>2. r \in Nat /\ r <= tClock
    BY <2>1
  <2>3. Broadcast(n, r) /\ Up(n)
    BY <1>6, <1>u, Zenon DEF RunTick
  <2> HIDE DEF r
  <2>4. /\ UNCHANGED <<oldGrp, newGrp, tClock, mode, reshared, share, lastR, hook, called, excused>>
        /\ toSign' = toSign /\ \A m \in ticked' : m \in ticked
    BY <1>6, Zenon DEF RunTick, groups
  <2>5. toSign' \in [Peer -> SUBSET Nat] /\ \A m \in Peer : \A q \in toSign'[m] : q \in toSign[m]
    BY <2>4, <1>t, Zenon
  <2> QED
    BY <2>2, <2>3, <2>4, <2>5, SigningKeeps, Zenon
<1>7. ASSUME NEW n \in Peer, NEW r \in toSign[n], CatchupSign(n, r) PROVE TransInv'
  <2>1. r \in Nat /\ r <= tClock
    BY <1>t, <1>i, Zenon
  <2>2. Up(n) \/ r < TRound
    BY <1>u, <1>e, Zenon DEF Up
  <2>3. Broadcast(n, r)
    BY <1>7, Zenon DEF CatchupSign
  <2>4. /\ UNCHANGED <<oldGrp, newGrp, tClock, mode, reshared, share, lastR, hook, called, excused>>
        /\ \A m \in ticked' : m \in ticked
    BY <1>7, Zenon DEF CatchupSign, groups
  <2>5. toSign' = [toSign EXCEPT ![n] = toSign[n] \ {r}] /\ toSign[n] \ {r} \in SUBSET Nat
    BY <1>7, <1>t, Zenon DEF CatchupSign
  <2>6. /\ toSign' \in [Peer -> SUBSET Nat] /\ toSign'[n] = toSign[n] \ {r}
        /\ \A m \in Peer : m # n => toSign'[m] = toSign[m]
    BY <2>5, <1>t, Zenon
  <2>7. \A m \in Peer : \A q \in toSign'[m] : q \in toSign[m]
    BY <2>6, Zenon
  <2> QED
    BY <2>1, <2>2, <2>3, <2>4, <2>6, <2>7, SigningKeeps, Zenon
<1>8. ASSUME NEW n \in Peer, NEW p \in mail, Refuse(n, p) PROVE TransInv'
  <2>1. /\ UNCHANGED <<oldGrp, newGrp, tClock, mode, reshared, share, lastR, ticked, toSign, hook,
                       called, strays, excused>>
        /\ \A q \in mail' : q \in mail
    BY <1>8, Zenon DEF Refuse, groups
  <2> QED
    BY <2>1, LosingKeeps, Zenon
<1>9. ASSUME NEW n \in Peer, NEW p \in mail, Aggregate(n, p) PROVE TransInv'
  <2>1. /\ UNCHANGED <<oldGrp, newGrp, tClock, mode, reshared, share, ticked, hook, strays, excused>>
        /\ p.to = n
    BY <1>9, Zenon DEF Aggregate, groups
  <2>2. \/ UNCHANGED <<lastR, called, toSign>> /\ \A q \in mail' : q \in mail
        \/ /\ p.round = lastR[n] + 1 /\ \E c : Stores(n, p.round, c)
           /\ toSign' = IF p.round < CurrentOf(n)
                        THEN [toSign EXCEPT ![n] = @ \cup {p.round + 1}] ELSE toSign
    BY <1>9, Zenon DEF Aggregate
  <2>3. CASE UNCHANGED <<lastR, called, toSign>> /\ \A q \in mail' : q \in mail
    BY <2>1, <2>3, LosingKeeps, Zenon
  <2>4. CASE /\ p.round = lastR[n] + 1 /\ \E c : Stores(n, p.round, c)
             /\ toSign' = IF p.round < CurrentOf(n)
                          THEN [toSign EXCEPT ![n] = @ \cup {p.round + 1}] ELSE toSign
    <3>1. PICK c : Stores(n, lastR[n] + 1, c)
      BY <2>4, Zenon
    <3>2. Up(n) /\ lastR[n] + 1 <= tClock
      BY <2>1, <2>4, <1>i, <1>u, Zenon
    <3>3. lastR[n] \in Nat /\ tClock \in Nat
      BY <1>n, Zenon
    <3>4. CurrentOf(n) = 0 \/ CurrentOf(n) = tClock - 1 \/ CurrentOf(n) = tClock
      BY Zenon DEF CurrentOf
    <3>5. lastR[n] + 1 < CurrentOf(n) => lastR[n] + 2 <= tClock
      BY <3>3, <3>4
    <3>6. (lastR[n] + 1) + 1 = lastR[n] + 2
      BY <3>3
    <3>7. \/ toSign' = toSign
          \/ /\ lastR[n] + 2 <= tClock
             /\ toSign' = [toSign EXCEPT ![n] = @ \cup {lastR[n] + 2}]
      BY <2>4, <3>5, <3>6, Zenon
    <3> QED
      BY <2>1, <3>1, <3>2, <3>7, StoringKeeps, Zenon
  <2> QED
    BY <2>2, <2>3, <2>4, Zenon
<1>10. ASSUME NEW n \in Peer, SwitchShare(n) PROVE TransInv'
  <2>1. /\ oldGrp' = oldGrp /\ newGrp' = newGrp /\ tClock' = tClock /\ mode' = mode
        /\ reshared' = reshared /\ lastR' = lastR /\ ticked' = ticked /\ toSign' = toSign
        /\ strays' = strays /\ excused' = excused
    BY <1>10, Zenon DEF SwitchShare, groups
  <2>2. /\ n \in called /\ called' = called \ {n} /\ hook' = hook \ {n}
        /\ share' = [share EXCEPT ![n] = "new"]
    BY <1>10, Zenon DEF SwitchShare
  <2>3. /\ share' \in [Peer -> {"old", "new"}] /\ share'[n] = "new"
        /\ \A m \in Peer : m # n => share'[m] = share[m]
    BY <1>t, <2>2, Zenon
  <2>4. \A q \in mail' : q \in mail \/ \E p \in mail : q = [p EXCEPT !.ok = TRUE]
    BY <1>10, Zenon DEF SwitchShare
  <2>5. ASSUME NEW q \in mail'
        PROVE  q \in Messages /\ \E p \in mail : q.to = p.to /\ q.round = p.round
    <3>1. CASE q \in mail
      BY <3>1, <1>t, Zenon
    <3>2. ASSUME NEW p \in mail, q = [p EXCEPT !.ok = TRUE]
          PROVE  q \in Messages /\ q.to = p.to /\ q.round = p.round
      <4>1. p \in Messages
        BY <1>t, Zenon
      <4> QED
        BY <3>2, <4>1, Zenon DEF Messages
    <3> QED
      BY <2>4, <2>5, <3>1, <3>2, Zenon
  <2>6. \A m : Up(m)' <=> Up(m)
    BY <2>1, Zenon DEF Up
  <2>7. Staying' = Staying /\ \A m \in Staying : m \in Peer
    BY <1>e, <2>1, Zenon DEF Staying
  <2>8. TransTypes'
    <3>1. mail' \in SUBSET Messages /\ Messages' = Messages
      BY <2>5, Zenon DEF Messages
    <3> QED
      BY <1>t, <2>1, <2>2, <2>3, <3>1, Zenon DEF TransTypes
  <2>9. InTheirTime'
    <3>1. \A q \in mail' : q.round <= tClock
      BY <1>i, <2>5, Zenon
    <3> QED
      BY <1>i, <2>1, <3>1, Zenon DEF InTheirTime
  <2>10. OnlyTheRunning'
    <3>1. \A q \in mail' : Up(q.to)
      BY <1>u, <2>5, Zenon
    <3> QED
      BY <1>u, <2>1, <2>3, <2>6, <3>1, Zenon DEF OnlyTheRunning
  <2>11. CalledAfterLast'
    <3>1. \A m \in called' : lastR[m] >= TRound - 1
      BY <1>c, <2>2, Zenon
    <3>2. ASSUME NEW m \in Staying \ excused, share'[m] # "new"
          PROVE  /\ reshared[m] # "not yet" => m \in hook'
                 /\ m \in hook' /\ lastR[m] >= TRound - 1 => m \in called'
      <4>1. m # n /\ share[m] # "new"
        BY <3>2, <2>3, <2>7, Zenon
      <4> QED
        BY <4>1, <1>c, <2>2, Zenon
    <3> QED
      BY <2>1, <2>7, <3>1, <3>2, Zenon DEF CalledAfterLast
  <2>12. DoneInTime'
    <3>1. \A m \in Peer : share[m] = "new" => share'[m] = "new"
      BY <2>3, Zenon
    <3> QED
      BY <1>d, <1>e, <2>1, <2>6, <3>1, Zenon DEF DoneInTime
  <2>13. SwitchAfterLast' /\ OldShareRetires'
    <3>1. \A m \in Staying : share'[m] = "new" => lastR[m] >= TRound - 1
      BY <1>c, <1>s, <2>2, <2>3, <2>7, Zenon
    <3> QED
      BY <1>0, <2>1, <2>7, <3>1, Zenon DEF SwitchAfterLast, OldShareRetires
  <2> QED
    BY <2>8, <2>9, <2>10, <2>11, <2>12, <2>13, Zenon DEF TransInv
<1>11. ASSUME NEW n \in Peer, SyncStep(n) PROVE TransInv'
  <2>1. /\ UNCHANGED <<oldGrp, newGrp, tClock, mode, reshared, share, ticked, hook, strays, excused>>
        /\ toSign' = toSign /\ Up(n) /\ Stores(n, lastR[n] + 1, partials[n])
    BY <1>11, Zenon DEF SyncStep, groups
  <2>2. PICK m \in Sources(n) : lastR[m] > lastR[n]
    BY <1>11, Zenon DEF SyncStep
  <2>3. m \in Peer
    BY <1>e, <2>2, Zenon DEF Sources, Members
  <2>4. lastR[m] \in Nat /\ lastR[n] \in Nat /\ tClock \in Nat /\ lastR[m] <= tClock
    BY <1>n, <1>i, <2>3, Zenon
  <2>5. lastR[n] + 1 <= tClock
    BY <2>2, <2>4
  <2> QED
    BY <2>1, <2>5, StoringKeeps, Zenon
<1>12. ASSUME NEW n \in Peer, FollowEnds(n) PROVE TransInv'
  <2>1. /\ UNCHANGED <<oldGrp, newGrp, tClock, mode, reshared, share, lastR, ticked, toSign, hook,
                       called, strays, excused>>
        /\ \A q \in mail' : q \in mail
    BY <1>12, Zenon DEF FollowEnds, groups
  <2> QED
    BY <2>1, LosingKeeps, Zenon
<1>13. ASSUME UNCHANGED transVars PROVE TransInv'
  <2>1. /\ UNCHANGED <<oldGrp, newGrp, tClock, mode, reshared, share, lastR, ticked, toSign, hook,
                       called, strays, excused>>
        /\ \A q \in mail' : q \in mail
    BY <1>13, Zenon DEF transVars
  <2> QED
    BY <2>1, LosingKeeps, Zenon
<1> QED
  BY <1>1, <1>2, <1>3, <1>4, <1>5, <1>6, <1>7, <1>8, <1>9, <1>10, <1>11, <1>12, <1>13, Zenon
  DEF TransNext

(* Each share is used for the rounds of its own group: a node that stays   *)
(* switches to its new share only once it has stored the last round of the *)
(* old group, and a partial on a round of the new group is made with an    *)
(* old share only by a node whose DKG or whose chain came too late         *)
(* (TransitionNewGroup, transition, StopAt), for any groups, thresholds    *)
(* and transition round.                                                   *)
THEOREM SharesUsedInTurn == TransSpec => []SharesInTurn
<1>1. TransInv => SharesInTurn
  BY Zenon DEF TransInv, SharesInTurn
<1> QED
  BY TransInitInv, TransStep, <1>1, PTL DEF TransSpec
===============================================================================
