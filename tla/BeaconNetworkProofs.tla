------------------------ MODULE BeaconNetworkProofs --------------------------
(***************************************************************************)
(* Proofs about the beacon network, for any group, any threshold above the *)
(* number of faulty nodes, any bounds and any signature scheme that gives  *)
(* each message one signature.                                             *)
(***************************************************************************)
EXTENDS BeaconNetwork, TLAPS

\* A sequence is a function on the positions up to its length.
LEMMA SeqIsFunction ==
    ASSUME NEW S, NEW s \in Seq(S)
    PROVE  Len(s) \in Nat /\ s \in [1 .. Len(s) -> S] /\ DOMAIN s = 1 .. Len(s)
OBVIOUS

\* Its elements are in the set it is over.
LEMMA SeqElement ==
    ASSUME NEW S, NEW s \in Seq(S), NEW i \in 1 .. Len(s)
    PROVE  s[i] \in S
OBVIOUS

\* Only the empty sequence has length 0.
LEMMA SeqEmpty ==
    ASSUME NEW S
    PROVE  /\ << >> \in Seq(S) /\ Len(<< >>) = 0
           /\ \A s \in Seq(S) : s # << >> => Len(s) \in Nat \ {0}
OBVIOUS

\* What is at the head, and what is left without it.
LEMMA SeqHeadTail ==
    ASSUME NEW S, NEW s \in Seq(S), s # << >>
    PROVE  /\ Head(s) \in S /\ Tail(s) \in Seq(S) /\ Len(Tail(s)) = Len(s) - 1
           /\ \A i \in 1 .. Len(Tail(s)) : Tail(s)[i] = s[i + 1]
OBVIOUS

\* What is appended comes last.
LEMMA SeqAppend ==
    ASSUME NEW S, NEW s \in Seq(S), NEW e \in S
    PROVE  /\ Append(s, e) \in Seq(S) /\ Append(s, e) # << >>
           /\ Len(Append(s, e)) = Len(s) + 1
           /\ \A i \in 1 .. Len(s) : Append(s, e)[i] = s[i]
           /\ Append(s, e)[Len(s) + 1] = e
OBVIOUS

\* One sequence after another.
LEMMA SeqConcat ==
    ASSUME NEW S, NEW s \in Seq(S), NEW t \in Seq(S)
    PROVE  /\ s \o t \in Seq(S) /\ Len(s \o t) = Len(s) + Len(t)
           /\ \A i \in 1 .. Len(s) + Len(t) :
                 (s \o t)[i] = IF i <= Len(s) THEN s[i] ELSE t[i - Len(s)]
OBVIOUS

\* A part of a sequence.
LEMMA SeqPart ==
    ASSUME NEW S, NEW s, NEW m \in Int, NEW n \in Int, \A i \in m .. n : s[i] \in S
    PROVE  /\ SubSeq(s, m, n) \in Seq(S)
           /\ Len(SubSeq(s, m, n)) = IF m <= n THEN n - m + 1 ELSE 0
           /\ \A i \in 1 .. n - m + 1 : SubSeq(s, m, n)[i] = s[m + i - 1]
OBVIOUS

(* The operators of the model have the types they are used with.           *)
LEMMA GenesisType == Genesis \in Beacon
  BY NetworkAssumption, SignatureAssumption DEF Genesis, Beacon

\* Last returns a beacon.
LEMMA LastType ==
    ASSUME TypeOK, NEW n \in Honest
    PROVE  Last(n) \in Beacon
  <1>1. store[n] \in Seq(Beacon)
    BY DEF TypeOK
  <1>2. CASE store[n] = << >>
    BY <1>2, GenesisType DEF Last
  <1>3. CASE store[n] # << >>
    <2>1. Len(store[n]) \in 1 .. Len(store[n])
      BY <1>1, <1>3, SeqEmpty
    <2> QED
      BY <1>1, <1>3, <2>1, SeqElement DEF Last
  <1> QED
    BY <1>2, <1>3

\* A partial recovers to a beacon that verifies.
LEMMA RecoveredType ==
    ASSUME NEW p \in Partial
    PROVE  Recovered(p) \in Beacon /\ Recovered(p).round # 0 /\ Verified(Recovered(p))
  BY NetworkAssumption, SignatureAssumption DEF Recovered, Partial, Beacon, Verified

\* What a peer offers in a sync are beacons.
LEMMA OfferedType ==
    ASSUME TypeOK, NEW n \in Honest, NEW b \in Offered(n)
    PROVE  b \in Beacon
  <1>1. CASE b \in Streamed(n)
    <2>1. PICK m \in Honest : /\ Len(store[m]) > Len(store[n])
                              /\ b = store[m][Len(store[n]) + 1]
      BY <1>1 DEF Streamed
    <2>2. store[m] \in Seq(Beacon) /\ store[n] \in Seq(Beacon)
      BY DEF TypeOK
    <2>3. Len(store[n]) + 1 \in 1 .. Len(store[m])
      BY <2>1, <2>2, SeqIsFunction
    <2> QED
      BY <2>1, <2>2, <2>3, SeqElement
  <1>2. CASE b \in Known
    <2>1. PICK p \in signed \cup FaultyPartial : b = Recovered(p)
      BY <1>2 DEF Known
    <2>2. p \in Partial
      BY SignatureAssumption DEF TypeOK
    <2> QED
      BY <2>1, <2>2, RecoveredType
  <1>3. CASE b \in FaultyBeacon
    BY <1>3, SignatureAssumption
  <1> QED
    BY <1>1, <1>2, <1>3 DEF Offered

\* The partial of a beacon is a partial.
LEMMA NextPartialType ==
    ASSUME NEW n \in Honest, NEW c \in 1 .. MaxClock, NEW upon \in Beacon,
           NextPartial(n, c, upon).round <= MaxRound
    PROVE  NextPartial(n, c, upon) \in Partial
  BY NetworkAssumption DEF NextPartial, Beacon, Partial, Honest

\* A broadcast adds partials to the network.
LEMMA BroadcastType ==
    ASSUME TypeOK, NEW n \in Honest, NEW c \in 1 .. MaxClock, NEW upon \in Beacon,
           broadcastNextPartial(n, c, upon)
    PROVE  signed' \subseteq Partial /\ msgs' \subseteq [to : Honest, p : Partial]
  BY NextPartialType DEF broadcastNextPartial, TypeOK

\* A node follows to a round or not at all.
LEMMA FollowingType ==
    ASSUME TypeOK, NEW n \in Honest, NEW r \in Nat
    PROVE  Following(n, r) \in [Honest -> Nat \cup {NotFollowing}]
  BY DEF TypeOK, Following

\* Taking an element out of a sequence leaves a sequence.
LEMMA RemoveType ==
    ASSUME NEW S, NEW s \in Seq(S), NEW i \in DOMAIN s
    PROVE  s[i] \in S /\ SubSeq(s, 1, i - 1) \o SubSeq(s, i + 1, Len(s)) \in Seq(S)
  <1>1. Len(s) \in Nat /\ DOMAIN s = 1 .. Len(s) /\ \A j \in 1 .. Len(s) : s[j] \in S
    BY SeqIsFunction, SeqElement
  <1>2. SubSeq(s, 1, i - 1) \in Seq(S)
    <2>1. \A j \in 1 .. i - 1 : s[j] \in S
      BY <1>1
    <2> QED
      BY <1>1, <2>1, SeqPart
  <1>3. SubSeq(s, i + 1, Len(s)) \in Seq(S)
    <2>1. \A j \in i + 1 .. Len(s) : s[j] \in S
      BY <1>1
    <2> QED
      BY <1>1, <2>1, SeqPart
  <1> QED
    BY <1>1, <1>2, <1>3, SeqConcat

(* Every action preserves the types.                                       *)
LEMMA TypeInit == Init => TypeOK
  <1> SUFFICES ASSUME Init
               PROVE  TypeOK
    OBVIOUS
  <1>1. 0 \in 0 .. MaxClock /\ 0 \in 0 .. MaxCrashes /\ 0 \in 0 .. MaxLosses
    BY NetworkAssumption
  <1>2. \A S : << >> \in Seq(S)
    OBVIOUS
  <1> QED
    BY <1>1, <1>2, GenesisType, Zenon DEF Init, TypeOK

\* Every step keeps the types.
LEMMA TypeStep == TypeOK /\ [Next]_vars => TypeOK'
  <1> SUFFICES ASSUME TypeOK, [Next]_vars
               PROVE  TypeOK'
    OBVIOUS
  <1>0. CASE UNCHANGED vars
    BY <1>0, Zenon DEF TypeOK, vars, volatile
  <1>1. ASSUME NEW n \in Honest, Tick(n)
        PROVE  TypeOK'
    <2>0. /\ clock \in [Honest -> 0 .. MaxClock] /\ clock[n] < MaxClock
          /\ clock' = [clock EXCEPT ![n] = @ + 1]
      BY <1>1, Zenon DEF Tick, TypeOK
    <2>1. clock[n] + 1 \in 1 .. MaxClock
      BY <2>0, NetworkAssumption
    <2>2. clock' \in [Honest -> 0 .. MaxClock]
      BY <2>0, <2>1
    <2>3. tick' \in [Honest -> Seq(1 .. MaxClock)]
      <3>1. <<clock[n] + 1>> \in Seq(1 .. MaxClock)
        BY <2>1
      <3>2. tick' = [tick EXCEPT ![n] = <<clock[n] + 1>>] \/ tick' = tick
        BY <1>1 DEF Tick
      <3>3. tick \in [Honest -> Seq(1 .. MaxClock)]
        BY DEF TypeOK
      <3> QED
        BY <3>1, <3>2, <3>3, Zenon
    <2>4. UNCHANGED <<up, current, store, lastBeacon, cache, aggPut, syncPut, storedAgg,
                      catchup, sleeping, follow, msgs, signed, crashes, losses>>
      BY <1>1 DEF Tick
    <2> QED
      BY <2>2, <2>3, <2>4, Zenon DEF TypeOK
  <1>2. ASSUME NEW n \in Honest, RunTick(n)
        PROVE  TypeOK'
    <2>1. Head(tick[n]) \in 1 .. MaxClock /\ Tail(tick[n]) \in Seq(1 .. MaxClock)
      BY <1>2, SeqHeadTail, Zenon DEF RunTick, TypeOK
    <2>2. broadcastNextPartial(n, Head(tick[n]), Last(n))
      BY <1>2 DEF RunTick
    <2>3. signed' \subseteq Partial /\ msgs' \subseteq [to : Honest, p : Partial]
      BY <2>1, <2>2, LastType, BroadcastType
    <2>4. follow' \in [Honest -> Nat \cup {NotFollowing}]
      <3>1. follow' = Following(n, Head(tick[n])) \/ follow' = follow
        BY <1>2 DEF RunTick
      <3>2. Head(tick[n]) \in Nat
        BY <2>1, NetworkAssumption
      <3>3. Following(n, Head(tick[n])) \in [Honest -> Nat \cup {NotFollowing}]
        BY <3>2, FollowingType
      <3> QED
        BY <3>1, <3>3, Zenon DEF TypeOK
    <2>5. /\ current' = [current EXCEPT ![n] = Head(tick[n])]
          /\ tick' = [tick EXCEPT ![n] = Tail(@)]
          /\ UNCHANGED <<clock, up, store, lastBeacon, cache, aggPut, syncPut, storedAgg,
                         catchup, sleeping, crashes, losses>>
      BY <1>2 DEF RunTick
    <2>6. current' \in [Honest -> 0 .. MaxClock] /\ tick' \in [Honest -> Seq(1 .. MaxClock)]
      <3>1. current \in [Honest -> 0 .. MaxClock] /\ tick \in [Honest -> Seq(1 .. MaxClock)]
        BY Zenon DEF TypeOK
      <3>2. Head(tick[n]) \in 0 .. MaxClock
        BY <2>1
      <3> QED
        BY <2>1, <2>5, <3>1, <3>2, Zenon
    <2> QED
      BY <2>3, <2>4, <2>5, <2>6, Zenon DEF TypeOK
  <1>3. ASSUME NEW n \in Honest, RunCatchup(n)
        PROVE  TypeOK'
    <2>1. Head(catchup[n]) \in Beacon /\ Tail(catchup[n]) \in Seq(Beacon)
      BY <1>3, SeqHeadTail DEF RunCatchup, TypeOK
    <2>2. sleeping' \in [Honest -> SUBSET [current : 1 .. MaxClock, upon : Beacon]]
      <3>1. CASE Head(catchup[n]).round < current[n]
        <4>1. current[n] \in 0 .. MaxClock
          BY Zenon DEF TypeOK
        <4>2. Head(catchup[n]).round \in 0 .. MaxRound
          BY <2>1 DEF Beacon
        <4>3. current[n] \in 1 .. MaxClock
          BY <3>1, <4>1, <4>2, NetworkAssumption
        <4>4. sleeping' = [sleeping EXCEPT ![n] =
                 @ \cup {[current |-> current[n], upon |-> Head(catchup[n])]}]
          BY <1>3, <3>1, Zenon DEF RunCatchup
        <4>5. sleeping \in [Honest -> SUBSET [current : 1 .. MaxClock, upon : Beacon]]
          BY Zenon DEF TypeOK
        <4>6. [current |-> current[n], upon |-> Head(catchup[n])]
                 \in [current : 1 .. MaxClock, upon : Beacon]
          BY <2>1, <4>3, Zenon
        <4> QED
          BY <4>4, <4>5, <4>6, Zenon
      <3>2. CASE ~(Head(catchup[n]).round < current[n])
        BY <1>3, <3>2 DEF RunCatchup, TypeOK
      <3> QED
        BY <3>1, <3>2
    <2> QED
      BY <1>3, <2>1, <2>2, Zenon DEF RunCatchup, TypeOK
  <1>4. ASSUME NEW n \in Honest, CatchupBroadcast(n)
        PROVE  TypeOK'
    <2>1. PICK s \in sleeping[n] :
             /\ broadcastNextPartial(n, s.current, s.upon)
             /\ sleeping' = [sleeping EXCEPT ![n] = @ \ {s}]
      BY <1>4, Zenon DEF CatchupBroadcast
    <2>2. s.current \in 1 .. MaxClock /\ s.upon \in Beacon
      BY DEF TypeOK
    <2>3. signed' \subseteq Partial /\ msgs' \subseteq [to : Honest, p : Partial]
      BY <2>1, <2>2, BroadcastType
    <2> QED
      BY <1>4, <2>1, <2>3, Zenon DEF CatchupBroadcast, TypeOK
  <1>5. ASSUME NEW n \in Honest, NEW p \in {m.p : m \in msgs} \cup FaultyPartial,
               ReceivePartial(n, p)
        PROVE  TypeOK'
    <2>1. p \in Partial
      BY SignatureAssumption DEF TypeOK
    <2>2. CASE DiscardPartial(n, p)
      BY <2>2, Zenon DEF DiscardPartial, Receive, TypeOK
    <2>3. CASE CollectPartial(n, p)
      BY <2>1, <2>3, Zenon DEF CollectPartial, Receive, TypeOK
    <2>4. CASE AppendBeacon(n, p)
      <3>1. store' = [store EXCEPT ![n] = Append(@, Recovered(p))]
        BY <2>4 DEF AppendBeacon, Put
      <3>2. store' \in [Honest -> Seq(Beacon)]
        BY <2>1, <3>1, RecoveredType DEF TypeOK
      <3>3. aggPut' \in [Honest -> Seq(Beacon)]
        BY <2>1, <2>4, RecoveredType DEF AppendBeacon, TypeOK
      <3> QED
        BY <2>4, <3>2, <3>3, Zenon DEF AppendBeacon, Receive, Completes, FlushRounds, TypeOK
    <2>5. CASE DropBeacon(n, p)
      <3>1. Recovered(p).round \in Nat
        BY <2>1, NetworkAssumption DEF Recovered, Partial
      <3>2. follow' \in [Honest -> Nat \cup {NotFollowing}]
        BY <2>5, <3>1, FollowingType, Zenon DEF DropBeacon, TypeOK
      <3> QED
        BY <2>5, <3>2, Zenon DEF DropBeacon, Receive, Completes, FlushRounds, TypeOK
    <2> QED
      BY <1>5, <2>2, <2>3, <2>4, <2>5 DEF ReceivePartial
  <1>6. ASSUME NEW n \in Honest, BeaconAppended(n)
        PROVE  TypeOK'
    <2>1. Head(aggPut[n]) \in Beacon
      BY <1>6, SeqHeadTail DEF BeaconAppended, TypeOK
    <2>2. storedAgg' \in [Honest -> Seq(Beacon)]
      <3>1. /\ storedAgg \in [Honest -> Seq(Beacon)]
            /\ storedAgg' = [storedAgg EXCEPT ![n] = Append(@, Head(aggPut[n]))]
        BY <1>6, Zenon DEF BeaconAppended, Queue, TypeOK
      <3> QED
        BY <2>1, <3>1
    <2>3. catchup' \in [Honest -> Seq(Beacon)]
      <3>1. catchup' = [catchup EXCEPT ![n] = <<Head(aggPut[n])>>] \/ catchup' = catchup
        BY <1>6 DEF BeaconAppended
      <3>2. <<Head(aggPut[n])>> \in Seq(Beacon)
        BY <2>1
      <3> QED
        BY <3>1, <3>2, Zenon DEF TypeOK
    <2>4. lastBeacon' \in [Honest -> Beacon] /\ aggPut' \in [Honest -> Seq(Beacon)]
      BY <1>6, <2>1 DEF BeaconAppended, TypeOK
    <2> QED
      BY <1>6, <2>2, <2>3, <2>4, Zenon DEF BeaconAppended, TypeOK
  <1>7. ASSUME NEW n \in Honest, BeaconStored(n)
        PROVE  TypeOK'
    <2>1. PICK i \in DOMAIN storedAgg[n] :
             /\ lastBeacon' = [lastBeacon EXCEPT ![n] = storedAgg[n][i]]
             /\ cache' = [cache EXCEPT ![n] = FlushRounds(@, storedAgg[n][i].round)]
             /\ storedAgg' = [storedAgg EXCEPT ![n] =
                   SubSeq(@, 1, i - 1) \o SubSeq(@, i + 1, Len(@))]
      BY <1>7, Zenon DEF BeaconStored
    <2>2. /\ storedAgg[n][i] \in Beacon
          /\ SubSeq(storedAgg[n], 1, i - 1) \o SubSeq(storedAgg[n], i + 1, Len(storedAgg[n]))
                \in Seq(Beacon)
      <3>1. storedAgg[n] \in Seq(Beacon)
        BY DEF TypeOK
      <3> QED
        BY <3>1, RemoveType
    <2>3. storedAgg' \in [Honest -> Seq(Beacon)]
      BY <2>1, <2>2, Zenon DEF TypeOK
    <2>4. lastBeacon' \in [Honest -> Beacon] /\ cache' \in [Honest -> SUBSET Partial]
      BY <2>1, <2>2, Zenon DEF TypeOK, FlushRounds
    <2> QED
      BY <1>7, <2>3, <2>4, Zenon DEF BeaconStored, TypeOK
  <1>8. ASSUME NEW n \in Honest, SyncBeacon(n)
        PROVE  TypeOK'
    <2>1. PICK b \in Offered(n) :
             /\ store' = [store EXCEPT ![n] = Append(@, b)]
             /\ syncPut' = [syncPut EXCEPT ![n] = <<b>>]
      BY <1>8, Zenon DEF SyncBeacon, Put
    <2>2. b \in Beacon
      BY OfferedType
    <2>3. store' \in [Honest -> Seq(Beacon)] /\ syncPut' \in [Honest -> Seq(Beacon)]
      <3>1. store \in [Honest -> Seq(Beacon)] /\ syncPut \in [Honest -> Seq(Beacon)]
        BY Zenon DEF TypeOK
      <3> QED
        BY <2>1, <2>2, <3>1
    <2> QED
      BY <1>8, <2>3, Zenon DEF SyncBeacon, TypeOK
  <1>9. ASSUME NEW n \in Honest, BeaconSynced(n)
        PROVE  TypeOK'
    <2>1. Head(syncPut[n]) \in Beacon
      BY <1>9, SeqHeadTail DEF BeaconSynced, TypeOK
    <2>2. storedAgg' \in [Honest -> Seq(Beacon)] /\ syncPut' \in [Honest -> Seq(Beacon)]
      <3>1. /\ storedAgg \in [Honest -> Seq(Beacon)] /\ syncPut \in [Honest -> Seq(Beacon)]
            /\ storedAgg' = [storedAgg EXCEPT ![n] = Append(@, Head(syncPut[n]))]
            /\ syncPut' = [syncPut EXCEPT ![n] = << >>]
        BY <1>9, Zenon DEF BeaconSynced, Queue, TypeOK
      <3> QED
        BY <2>1, <3>1
    <2>3. follow' \in [Honest -> Nat \cup {NotFollowing}]
      <3>1. follow' = [follow EXCEPT ![n] = NotFollowing] \/ follow' = follow
        BY <1>9 DEF BeaconSynced
      <3> QED
        BY <3>1, Zenon DEF TypeOK
    <2> QED
      BY <1>9, <2>2, <2>3, Zenon DEF BeaconSynced, TypeOK
  <1>10. ASSUME NEW n \in Honest, SyncEnd(n)
         PROVE  TypeOK'
    BY <1>10, Zenon DEF SyncEnd, TypeOK
  <1>11. ASSUME NEW n \in Honest, Crash(n)
         PROVE  TypeOK'
    <2>1. crashes' \in 0 .. MaxCrashes /\ 0 \in 0 .. MaxClock
      <3>1. crashes \in 0 .. MaxCrashes /\ crashes < MaxCrashes /\ crashes' = crashes + 1
        BY <1>11, Zenon DEF Crash, TypeOK
      <3> QED
        BY <3>1, NetworkAssumption
    <2>2. \A S : << >> \in Seq(S)
      OBVIOUS
    <2> QED
      BY <1>11, <2>1, <2>2, GenesisType, Zenon DEF Crash, TypeOK
  <1>12. ASSUME NEW n \in Honest, Restart(n)
         PROVE  TypeOK'
    <2>1. clock[n] + 1 \in Nat
      BY NetworkAssumption DEF TypeOK
    <2> QED
      BY <1>12, <2>1, LastType, Zenon DEF Restart, TypeOK
  <1>13. ASSUME NEW m \in msgs, Lose(m)
         PROVE  TypeOK'
    <2>1. losses' \in 0 .. MaxLosses
      <3>1. losses \in 0 .. MaxLosses
        BY Zenon DEF TypeOK
      <3>2. \/ UNCHANGED losses
            \/ losses < MaxLosses /\ losses' = losses + 1
        BY <1>13, Zenon DEF Lose
      <3> QED
        BY <3>1, <3>2, NetworkAssumption
    <2> QED
      BY <1>13, <2>1, Zenon DEF Lose, TypeOK, volatile
  <1> QED
    BY <1>0, <1>1, <1>2, <1>3, <1>4, <1>5, <1>6, <1>7, <1>8, <1>9, <1>10, <1>11,
       <1>12, <1>13 DEF Next, NodeStep

(* The types hold in every reachable state, with any timing and any number *)
(* of faults: no handler of node.go, chain.go or sync.go signs, caches,    *)
(* queues or stores a round 0 or a beacon that is none.                    *)
THEOREM TypeCorrect == Spec => []TypeOK
  BY TypeInit, TypeStep, PTL DEF Spec
-----------------------------------------------------------------------------
(***************************************************************************)
(* The stores.  Whatever a step does, it changes them only by the Put of a *)
(* verified beacon.                                                        *)
(***************************************************************************)
LEMMA StoreStep ==
    ASSUME TypeOK, [Next]_vars
    PROVE  \/ UNCHANGED store
           \/ \E n \in Honest, b \in Beacon : Put(n, b) /\ Verified(b)
  <1>1. ASSUME NEW n \in Honest, NEW p \in {m.p : m \in msgs} \cup FaultyPartial,
               AppendBeacon(n, p)
        PROVE  Put(n, Recovered(p)) /\ Verified(Recovered(p)) /\ Recovered(p) \in Beacon
    <2>1. p \in Partial
      BY SignatureAssumption DEF TypeOK
    <2> QED
      BY <1>1, <2>1, RecoveredType DEF AppendBeacon
  <1>2. ASSUME NEW n \in Honest, SyncBeacon(n)
        PROVE  \E b \in Beacon : Put(n, b) /\ Verified(b)
    BY <1>2, OfferedType DEF SyncBeacon
  <1>3. ASSUME NEW n \in Honest, NEW p \in {m.p : m \in msgs} \cup FaultyPartial,
               ReceivePartial(n, p), ~AppendBeacon(n, p)
        PROVE  UNCHANGED store
    BY <1>3, Zenon DEF ReceivePartial, DiscardPartial, CollectPartial, DropBeacon
  <1>4. ASSUME NEW n \in Honest,
               Tick(n) \/ RunTick(n) \/ RunCatchup(n) \/ CatchupBroadcast(n)
        PROVE  UNCHANGED store
    BY <1>4, Zenon DEF Tick, RunTick, RunCatchup, CatchupBroadcast
  <1>5. ASSUME NEW n \in Honest,
               BeaconAppended(n) \/ BeaconStored(n) \/ BeaconSynced(n) \/ SyncEnd(n)
                   \/ Crash(n) \/ Restart(n)
        PROVE  UNCHANGED store
    BY <1>5, Zenon DEF BeaconAppended, BeaconStored, BeaconSynced, SyncEnd, Crash, Restart
  <1>6. ASSUME NEW m \in msgs, Lose(m)
        PROVE  UNCHANGED store
    BY <1>6 DEF Lose
  <1>7. CASE UNCHANGED vars
    BY <1>7 DEF vars
  <1> QED
    BY <1>1, <1>2, <1>3, <1>4, <1>5, <1>6, <1>7, Zenon DEF Next, NodeStep

(* Every beacon of a store is the signature of its round and of the        *)
(* signature before it.                                                    *)
Linked ==
    \A n \in Honest : \A r \in 1 .. Len(store[n]) :
        /\ store[n][r].round = r
        /\ store[n][r].sig = Sig(r, store[n][r].prev)
        /\ store[n][r].prev = IF r = 1 THEN GenesisSig ELSE store[n][r - 1].sig

\* The last beacon of a linked store is its highest round.
LEMMA LastLinked ==
    ASSUME TypeOK, Linked, NEW n \in Honest
    PROVE  /\ Len(store[n]) \in Nat
           /\ Last(n).round = Len(store[n])
           /\ Last(n).sig = IF Len(store[n]) = 0 THEN GenesisSig
                            ELSE store[n][Len(store[n])].sig
           /\ store[n] = << >> <=> Len(store[n]) = 0
  <1>1. store[n] \in Seq(Beacon)
    BY DEF TypeOK
  <1>2. Len(store[n]) \in Nat /\ (store[n] = << >> <=> Len(store[n]) = 0)
    BY <1>1, SeqEmpty, SeqIsFunction
  <1>3. CASE store[n] = << >>
    BY <1>2, <1>3 DEF Last, Genesis
  <1>4. CASE store[n] # << >>
    BY <1>2, <1>4 DEF Last, Linked
  <1> QED
    BY <1>2, <1>3, <1>4

(* What a Put appends is determined by the store it is appended to.        *)
LEMMA PutAppends ==
    ASSUME TypeOK, Linked, NEW n \in Honest, NEW b \in Beacon, Put(n, b), Verified(b)
    PROVE  /\ b.round = Len(store[n]) + 1
           /\ b.prev = IF Len(store[n]) = 0 THEN GenesisSig
                       ELSE store[n][Len(store[n])].sig
           /\ b.sig = Sig(Len(store[n]) + 1, b.prev)
           /\ Len(store'[n]) = Len(store[n]) + 1
           /\ \A r \in 1 .. Len(store[n]) : store'[n][r] = store[n][r]
           /\ store'[n][Len(store[n]) + 1] = b
           /\ \A m \in Honest \ {n} : store'[m] = store[m]
  <1>1. store[n] \in Seq(Beacon) /\ store \in [Honest -> Seq(Beacon)]
    BY DEF TypeOK
  <1>2. b.round = Len(store[n]) + 1 /\ b.prev = Last(n).sig
    BY LastLinked DEF Put, Appendable
  <1>3. store'[n] = Append(store[n], b) /\ \A m \in Honest \ {n} : store'[m] = store[m]
    BY <1>1 DEF Put
  <1>4. /\ Len(Append(store[n], b)) = Len(store[n]) + 1
        /\ \A r \in 1 .. Len(store[n]) : Append(store[n], b)[r] = store[n][r]
        /\ Append(store[n], b)[Len(store[n]) + 1] = b
    BY <1>1, SeqAppend
  <1> QED
    BY <1>2, <1>3, <1>4, LastLinked, Zenon DEF Verified

\* Every step keeps stores linked.
LEMMA LinkedStep ==
    ASSUME TypeOK, Linked, [Next]_vars
    PROVE  Linked'
  <1>1. CASE UNCHANGED store
    BY <1>1 DEF Linked
  <1>2. ASSUME NEW n \in Honest, NEW b \in Beacon, Put(n, b), Verified(b)
        PROVE  Linked'
    <2>1. /\ Len(store[n]) \in Nat
          /\ b.round = Len(store[n]) + 1
          /\ b.prev = IF Len(store[n]) = 0 THEN GenesisSig
                      ELSE store[n][Len(store[n])].sig
          /\ b.sig = Sig(Len(store[n]) + 1, b.prev)
      BY <1>2, PutAppends, LastLinked, Zenon
    <2>2. /\ Len(store'[n]) = Len(store[n]) + 1
          /\ \A r \in 1 .. Len(store[n]) : store'[n][r] = store[n][r]
          /\ store'[n][Len(store[n]) + 1] = b
          /\ \A m \in Honest \ {n} : store'[m] = store[m]
      BY <1>2, PutAppends, Zenon
    <2> SUFFICES ASSUME NEW m \in Honest, NEW r \in 1 .. Len(store'[m])
                 PROVE  /\ store'[m][r].round = r
                        /\ store'[m][r].sig = Sig(r, store'[m][r].prev)
                        /\ store'[m][r].prev = IF r = 1 THEN GenesisSig
                                               ELSE store'[m][r - 1].sig
      BY Zenon DEF Linked
    <2>3. CASE m # n
      <3>1. store'[m] = store[m]
        BY <2>2, <2>3, Zenon
      <3>2. r \in 1 .. Len(store[m])
        BY <3>1
      <3>3. /\ store[m][r].round = r
            /\ store[m][r].sig = Sig(r, store[m][r].prev)
            /\ store[m][r].prev = IF r = 1 THEN GenesisSig ELSE store[m][r - 1].sig
        BY <3>2, Zenon DEF Linked
      <3> QED
        BY <3>1, <3>3
    <2>4. CASE m = n /\ r <= Len(store[n])
      <3>1. r \in 1 .. Len(store[n]) /\ (r # 1 => r - 1 \in 1 .. Len(store[n]))
        BY <2>1, <2>2, <2>4
      <3>2. store'[n][r] = store[n][r] /\ (r # 1 => store'[n][r - 1] = store[n][r - 1])
        BY <2>2, <3>1, Zenon
      <3>3. /\ store[n][r].round = r
            /\ store[n][r].sig = Sig(r, store[n][r].prev)
            /\ store[n][r].prev = IF r = 1 THEN GenesisSig ELSE store[n][r - 1].sig
        BY <3>1, Zenon DEF Linked
      <3> QED
        BY <2>4, <3>2, <3>3, Zenon
    <2>5. CASE m = n /\ ~(r <= Len(store[n]))
      <3>1. r = Len(store[n]) + 1
        BY <2>1, <2>2, <2>5
      <3>2. (r = 1 <=> Len(store[n]) = 0) /\ r - 1 = Len(store[n])
        BY <2>1, <3>1
      <3>3. r # 1 => Len(store[n]) \in 1 .. Len(store[n])
        BY <2>1, <3>2
      <3> QED
        BY <2>1, <2>2, <2>5, <3>1, <3>2, <3>3, Zenon
    <2> QED
      BY <2>3, <2>4, <2>5, Zenon
  <1> QED
    BY <1>1, <1>2, StoreStep, Zenon

\* A store holds the rounds 0 to its last.
LEMMA StoreDomains ==
    ASSUME TypeOK
    PROVE  \A m \in Honest : DOMAIN store[m] = 1 .. Len(store[m]) /\ Len(store[m]) \in Nat
  <1>1. \A m \in Honest : store[m] \in Seq(Beacon)
    BY Zenon DEF TypeOK
  <1> QED
    BY <1>1, SeqIsFunction, Zenon

\* The same of the next state.
LEMMA NextStoreDomains ==
    ASSUME TypeOK, [Next]_vars
    PROVE  \A m \in Honest : /\ DOMAIN store'[m] = 1 .. Len(store'[m])
                             /\ Len(store'[m]) \in Nat
  <1>1. TypeOK'
    BY TypeStep, Zenon
  <1>2. \A m \in Honest : store'[m] \in Seq(Beacon)
    BY <1>1, Zenon DEF TypeOK
  <1> QED
    BY <1>2, SeqIsFunction, Zenon

(* Two stores that agree still do after a Put to one of them: what it      *)
(* appends signs the same signature as what the other store holds there.   *)
LEMMA AgreementStep ==
    ASSUME TypeOK, Linked, Agreement, [Next]_vars
    PROVE  Agreement'
  <1>0. \A m \in Honest : DOMAIN store[m] = 1 .. Len(store[m]) /\ Len(store[m]) \in Nat
    BY StoreDomains, Zenon
  <1>1. CASE UNCHANGED store
    BY <1>1 DEF Agreement
  <1>2. ASSUME NEW n \in Honest, NEW b \in Beacon, Put(n, b), Verified(b)
        PROVE  Agreement'
    <2>1. \A m \in Honest : DOMAIN store'[m] = 1 .. Len(store'[m])
      BY NextStoreDomains, Zenon
    <2>2. /\ Len(store[n]) \in Nat
          /\ b.round = Len(store[n]) + 1
          /\ b.prev = IF Len(store[n]) = 0 THEN GenesisSig
                      ELSE store[n][Len(store[n])].sig
          /\ b.sig = Sig(Len(store[n]) + 1, b.prev)
      BY <1>2, PutAppends, LastLinked, Zenon
    <2>3. /\ Len(store'[n]) = Len(store[n]) + 1
          /\ \A r \in 1 .. Len(store[n]) : store'[n][r] = store[n][r]
          /\ store'[n][Len(store[n]) + 1] = b
          /\ \A m \in Honest \ {n} : store'[m] = store[m]
      BY <1>2, PutAppends, Zenon
    <2>4. ASSUME NEW m \in Honest, NEW r \in 1 .. Len(store[m]), r <= Len(store[n]) + 1
          PROVE  store'[n][r] = store[m][r]
      <3>1. CASE r <= Len(store[n])
        <4>1. r \in 1 .. Len(store[n])
          BY <2>2, <3>1
        <4>2. store[n][r] = store[m][r]
          BY <1>0, <4>1, Zenon DEF Agreement
        <4> QED
          BY <2>3, <4>1, <4>2, Zenon
      <3>2. CASE r = Len(store[n]) + 1
        <4>1. /\ store[m][r].round = r
              /\ store[m][r].sig = Sig(r, store[m][r].prev)
              /\ store[m][r].prev = IF r = 1 THEN GenesisSig ELSE store[m][r - 1].sig
          BY Zenon DEF Linked
        <4>2. b.prev = store[m][r].prev
          <5>1. CASE Len(store[n]) = 0
            <6>1. r = 1
              BY <3>2, <5>1
            <6> QED
              BY <2>2, <4>1, <5>1, <6>1, Zenon
          <5>2. CASE Len(store[n]) # 0
            <6>1. /\ r # 1 /\ r - 1 = Len(store[n])
                  /\ Len(store[n]) \in 1 .. Len(store[n])
                  /\ Len(store[n]) \in 1 .. Len(store[m])
              BY <1>0, <2>2, <3>2, <5>2
            <6>2. store[n][Len(store[n])] = store[m][Len(store[n])]
              BY <1>0, <6>1, Zenon DEF Agreement
            <6> QED
              BY <2>2, <4>1, <5>2, <6>1, <6>2, Zenon
          <5> QED
            BY <5>1, <5>2
        <4>3. b.round = store[m][r].round /\ b.sig = store[m][r].sig
          BY <2>2, <3>2, <4>1, <4>2, Zenon
        <4>4. store[m][r] \in Beacon
          <5>1. store[m] \in Seq(Beacon)
            BY Zenon DEF TypeOK
          <5> QED
            BY <5>1, SeqElement
        <4>5. b = store[m][r]
          BY <4>2, <4>3, <4>4 DEF Beacon
        <4> QED
          BY <2>3, <3>2, <4>5, Zenon
      <3>3. r <= Len(store[n]) \/ r = Len(store[n]) + 1
        BY <1>0, <2>2, <2>4
      <3> QED
        BY <3>1, <3>2, <3>3, Zenon
    <2> SUFFICES ASSUME NEW k \in Honest, NEW m \in Honest,
                        NEW r \in DOMAIN store'[k] \cap DOMAIN store'[m]
                 PROVE  store'[k][r] = store'[m][r]
      BY Zenon DEF Agreement
    <2>5. CASE k = m
      BY <2>5
    <2>6. CASE k = n /\ m # n
      <3>1. store'[m] = store[m]
        BY <2>3, <2>6, Zenon
      <3>2. r \in 1 .. Len(store[m]) /\ r <= Len(store[n]) + 1
        BY <2>1, <2>2, <2>3, <2>6, <3>1
      <3> QED
        BY <2>4, <2>6, <3>1, <3>2, Zenon
    <2>7. CASE k # n /\ m = n
      <3>1. store'[k] = store[k]
        BY <2>3, <2>7, Zenon
      <3>2. r \in 1 .. Len(store[k]) /\ r <= Len(store[n]) + 1
        BY <2>1, <2>2, <2>3, <2>7, <3>1
      <3> QED
        BY <2>4, <2>7, <3>1, <3>2, Zenon
    <2>8. CASE k # n /\ m # n
      <3>1. store'[k] = store[k] /\ store'[m] = store[m]
        BY <2>3, <2>8, Zenon
      <3>2. r \in DOMAIN store[k] \cap DOMAIN store[m]
        BY <3>1
      <3>3. store[k][r] = store[m][r]
        BY <3>2, Zenon DEF Agreement
      <3> QED
        BY <3>1, <3>3
    <2> QED
      BY <2>5, <2>6, <2>7, <2>8, Zenon
  <1> QED
    BY <1>1, <1>2, StoreStep

(* The inductive invariant of the stores.                                  *)
StoreInv == TypeOK /\ Linked /\ Agreement

\* It holds initially.
LEMMA StoreInvInit == Init => StoreInv
  <1> SUFFICES ASSUME Init
               PROVE  StoreInv
    OBVIOUS
  <1>1. TypeOK
    BY TypeInit, Zenon
  <1>2. \A n \in Honest : store[n] = << >> /\ Len(store[n]) = 0 /\ DOMAIN store[n] = {}
    BY DEF Init
  <1> QED
    BY <1>1, <1>2 DEF StoreInv, Linked, Agreement

\* Every step keeps it.
LEMMA StoreInvStep == StoreInv /\ [Next]_vars => StoreInv'
  BY TypeStep, LinkedStep, AgreementStep DEF StoreInv

(* For any number of nodes, any threshold above the number of faulty ones  *)
(* and any timing, crashes and losses, two honest nodes never hold         *)
(* different beacons for a round: the append check of appendStore.Put and  *)
(* the verification of the syncer are enough.                              *)
THEOREM HonestAgree == Spec => []Agreement
  <1>1. StoreInv => Agreement
    BY DEF StoreInv
  <1> QED
    BY <1>1, StoreInvInit, StoreInvStep, PTL DEF Spec
-----------------------------------------------------------------------------
(* A step of the network is, on the stores, a step of the abstract chain   *)
(* or none.                                                                *)
LEMMA RefinementStep ==
    ASSUME StoreInv, [Next]_vars
    PROVE  [Chain!Next]_store
  <1>1. CASE UNCHANGED store
    BY <1>1
  <1>2. ASSUME NEW n \in Honest, NEW b \in Beacon, Put(n, b), Verified(b)
        PROVE  Chain!Next
    <2>1. b.round = Len(store[n]) + 1 /\ b.prev = Last(n).sig
      BY <1>2, LastLinked, Zenon DEF Put, Appendable, StoreInv
    <2>2. Last(n).sig = Chain!LastSig(store[n])
      BY LastLinked DEF StoreInv, Chain!LastSig
    <2>3. b.sig = Sig(Len(store[n]) + 1, Chain!LastSig(store[n]))
      BY <1>2, <2>1, <2>2 DEF Verified
    <2>4. b = Chain!Successor(store[n])
      BY <2>1, <2>2, <2>3 DEF Chain!Successor, Beacon
    <2>5. store' = [store EXCEPT ![n] = Append(@, Chain!Successor(@))]
      BY <1>2, <2>4 DEF Put
    <2> QED
      BY <2>5, Zenon DEF Chain!Next, Chain!Extend
  <1> QED
    BY <1>1, <1>2, StoreStep DEF StoreInv

(* The network implements the abstract chain: the stores of the honest     *)
(* nodes only grow, each by the one beacon that can follow its last one,   *)
(* crashes and restarts included.                                          *)
THEOREM NetworkImplementsChain == Spec => ImplementsRandomChain
  <1>1. Init => Chain!Init
    BY DEF Init, Chain!Init
  <1>2. StoreInv /\ [Next]_vars => [Chain!Next]_store
    BY RefinementStep
  <1> QED
    BY <1>1, <1>2, StoreInvInit, StoreInvStep, PTL
       DEF Spec, ImplementsRandomChain, Chain!Spec
-----------------------------------------------------------------------------
(***************************************************************************)
(* The aggregator's view.  Besides the view itself, everything that may    *)
(* become the view is in the store: what a Put stored and has not queued,  *)
(* and the queued callbacks.                                               *)
(***************************************************************************)
Elements(s) == {s[i] : i \in DOMAIN s}

Views(n) ==
    ({lastBeacon[n]} \ {Genesis}) \cup Elements(aggPut[n]) \cup Elements(syncPut[n])
        \cup Elements(storedAgg[n])

Stored(n, b) == b.round \in DOMAIN store[n] /\ b = store[n][b.round]

ViewsAreStored == \A n \in Honest : \A b \in Views(n) : Stored(n, b)

(* What the operations on the queues do to their elements.                 *)
LEMMA ElementsOfOne == \A b : Elements(<<b>>) = {b}
  BY DEF Elements

\* The elements of no sequence.
LEMMA ElementsOfNone == Elements(<< >>) = {}
  BY DEF Elements

\* The elements after an append.
LEMMA ElementsOfAppend ==
    ASSUME NEW S, NEW s \in Seq(S), NEW b \in S
    PROVE  Elements(Append(s, b)) \subseteq Elements(s) \cup {b}
  <1>1. /\ Len(s) \in Nat /\ DOMAIN s = 1 .. Len(s)
        /\ DOMAIN Append(s, b) = 1 .. Len(s) + 1
        /\ \A i \in 1 .. Len(s) : Append(s, b)[i] = s[i]
        /\ Append(s, b)[Len(s) + 1] = b
    BY SeqAppend, SeqIsFunction
  <1> SUFFICES ASSUME NEW i \in 1 .. Len(s) + 1
               PROVE  Append(s, b)[i] \in Elements(s) \cup {b}
    BY <1>1, Zenon DEF Elements
  <1>2. i \in 1 .. Len(s) \/ i = Len(s) + 1
    BY <1>1
  <1> QED
    BY <1>1, <1>2, Zenon DEF Elements

\* The head of a sequence is one of its elements.
LEMMA HeadIsElement ==
    ASSUME NEW S, NEW s \in Seq(S), s # << >>
    PROVE  Head(s) \in Elements(s) /\ Head(s) \in S
  <1>1. Len(s) \in Nat /\ DOMAIN s = 1 .. Len(s) /\ Len(s) # 0
    BY SeqIsFunction, SeqEmpty
  <1>2. 1 \in DOMAIN s /\ Head(s) = s[1]
    BY <1>1
  <1>3. s[1] \in S
    BY <1>1, <1>2, SeqElement
  <1> QED
    BY <1>2, <1>3 DEF Elements

\* The rest of a sequence has no other elements.
LEMMA ElementsOfRest ==
    ASSUME NEW S, NEW s \in Seq(S), NEW i \in DOMAIN s
    PROVE  Elements(SubSeq(s, 1, i - 1) \o SubSeq(s, i + 1, Len(s))) \subseteq Elements(s)
  <1> DEFINE a == SubSeq(s, 1, i - 1)
             c == SubSeq(s, i + 1, Len(s))
  <1>1. Len(s) \in Nat /\ DOMAIN s = 1 .. Len(s) /\ i \in 1 .. Len(s)
        /\ \A j \in 1 .. Len(s) : s[j] \in S
    BY SeqIsFunction, SeqElement
  <1>2. a \in Seq(S) /\ Len(a) = i - 1 /\ \A j \in 1 .. i - 1 : a[j] = s[j]
    <2>1. \A j \in 1 .. i - 1 : s[j] \in S
      BY <1>1
    <2> QED
      BY <1>1, <2>1, SeqPart
  <1>3. c \in Seq(S) /\ Len(c) = Len(s) - i /\ \A j \in 1 .. Len(s) - i : c[j] = s[i + j]
    <2>1. \A j \in i + 1 .. Len(s) : s[j] \in S
      BY <1>1
    <2> QED
      BY <1>1, <2>1, SeqPart
  <1> HIDE DEF a, c
  <1>4. /\ DOMAIN (a \o c) = 1 .. Len(a) + Len(c)
        /\ \A j \in 1 .. Len(a) + Len(c) :
              (a \o c)[j] = IF j <= Len(a) THEN a[j] ELSE c[j - Len(a)]
    <2>1. /\ a \o c \in Seq(S) /\ Len(a \o c) = Len(a) + Len(c)
          /\ \A j \in 1 .. Len(a) + Len(c) :
                (a \o c)[j] = IF j <= Len(a) THEN a[j] ELSE c[j - Len(a)]
      BY <1>2, <1>3, SeqConcat, Zenon
    <2>2. DOMAIN (a \o c) = 1 .. Len(a \o c)
      BY <2>1, SeqIsFunction, Zenon
    <2> QED
      BY <2>1, <2>2, Zenon
  <1> SUFFICES ASSUME NEW j \in 1 .. Len(a) + Len(c)
               PROVE  (a \o c)[j] \in Elements(s)
    BY <1>4, Zenon DEF Elements, a, c
  <1>5. CASE j <= i - 1
    <2>1. j \in 1 .. i - 1 /\ j \in DOMAIN s /\ (a \o c)[j] = a[j]
      BY <1>1, <1>2, <1>4, <1>5
    <2> QED
      BY <1>2, <2>1, Zenon DEF Elements
  <1>6. CASE ~(j <= i - 1)
    <2> DEFINE k == j - (i - 1)
    <2>1. (a \o c)[j] = IF j <= Len(a) THEN a[j] ELSE c[j - Len(a)]
      BY <1>4, Zenon
    <2>2. ~(j <= Len(a)) /\ j - Len(a) = k
      BY <1>2, <1>6, Zenon
    <2>3. (a \o c)[j] = c[k]
      BY <2>1, <2>2, Zenon
    <2>4. k \in 1 .. Len(s) - i /\ i + k \in DOMAIN s
      <3>1. j \in 1 .. (i - 1) + (Len(s) - i)
        BY <1>2, <1>3, Zenon
      <3> QED
        BY <1>1, <1>6, <3>1
    <2> HIDE DEF k
    <2> QED
      BY <1>3, <2>3, <2>4, Zenon DEF Elements
  <1> QED
    BY <1>5, <1>6

(* The store only grows, so what it holds stays.                           *)
LEMMA StoredStays ==
    ASSUME StoreInv, [Next]_vars, NEW n \in Honest, NEW b, Stored(n, b)
    PROVE  Stored(n, b)'
  <1>1. CASE UNCHANGED store
    BY <1>1 DEF Stored
  <1>2. ASSUME NEW m \in Honest, NEW c \in Beacon, Put(m, c), Verified(c)
        PROVE  Stored(n, b)'
    <2>1. /\ Len(store'[m]) = Len(store[m]) + 1
          /\ \A r \in 1 .. Len(store[m]) : store'[m][r] = store[m][r]
          /\ \A k \in Honest \ {m} : store'[k] = store[k]
      BY <1>2, PutAppends, Zenon DEF StoreInv
    <2>2. /\ DOMAIN store[m] = 1 .. Len(store[m]) /\ Len(store[m]) \in Nat
          /\ DOMAIN store'[m] = 1 .. Len(store'[m])
      BY StoreDomains, NextStoreDomains, Zenon DEF StoreInv
    <2>3. CASE n # m
      BY <2>1, <2>3 DEF Stored
    <2>4. CASE n = m
      <3>1. b.round \in 1 .. Len(store[m]) /\ b = store[m][b.round]
        BY <2>2, <2>4, Zenon DEF Stored
      <3>2. b.round \in 1 .. Len(store'[m])
        BY <2>1, <2>2, <3>1
      <3> QED
        BY <2>1, <2>2, <2>4, <3>1, <3>2, Zenon DEF Stored
    <2> QED
      BY <2>3, <2>4
  <1> QED
    BY <1>1, <1>2, StoreStep DEF StoreInv

\* What Put stores is stored.
LEMMA PutIsStored ==
    ASSUME StoreInv, [Next]_vars, NEW n \in Honest, NEW b \in Beacon, Put(n, b), Verified(b)
    PROVE  Stored(n, b)'
  <1>1. /\ b.round = Len(store[n]) + 1
        /\ Len(store'[n]) = Len(store[n]) + 1
        /\ store'[n][Len(store[n]) + 1] = b
    BY PutAppends, Zenon DEF StoreInv
  <1>2. Len(store[n]) \in Nat /\ DOMAIN store'[n] = 1 .. Len(store'[n])
    BY StoreDomains, NextStoreDomains, Zenon DEF StoreInv
  <1>3. b.round \in DOMAIN store'[n] /\ store'[n][b.round] = b
    BY <1>1, <1>2
  <1> QED
    BY <1>3 DEF Stored

\* The last beacon is stored.
LEMMA LastIsStored ==
    ASSUME StoreInv, NEW n \in Honest, Last(n) # Genesis
    PROVE  Stored(n, Last(n))
  <1>1. store[n] # << >> /\ Last(n) = store[n][Len(store[n])]
    BY DEF Last
  <1>2. Last(n).round = Len(store[n]) /\ Len(store[n]) \in Nat /\ Len(store[n]) # 0
        /\ DOMAIN store[n] = 1 .. Len(store[n])
    BY <1>1, LastLinked, StoreDomains DEF StoreInv
  <1>3. Len(store[n]) \in DOMAIN store[n]
    BY <1>2
  <1> QED
    BY <1>1, <1>2, <1>3 DEF Stored

(* Where the view and what may become the view come from.                  *)
LEMMA ViewsStep ==
    ASSUME TypeOK, [Next]_vars, NEW n \in Honest, NEW b \in Views(n)'
    PROVE  \/ b \in Views(n)
           \/ b \in Beacon /\ Put(n, b) /\ Verified(b)
           \/ b = Last(n) /\ b # Genesis /\ UNCHANGED store
  <1> DEFINE Goal == \/ b \in Views(n)
                     \/ b \in Beacon /\ Put(n, b) /\ Verified(b)
                     \/ b = Last(n) /\ b # Genesis /\ UNCHANGED store
  <1>0. CASE UNCHANGED <<lastBeacon, aggPut, syncPut, storedAgg>>
    BY <1>0, Zenon DEF Views
  <1>t. /\ lastBeacon \in [Honest -> Beacon] /\ aggPut \in [Honest -> Seq(Beacon)]
        /\ syncPut \in [Honest -> Seq(Beacon)] /\ storedAgg \in [Honest -> Seq(Beacon)]
    BY Zenon DEF TypeOK
  <1>1. ASSUME NEW m \in Honest, NEW p \in {x.p : x \in msgs} \cup FaultyPartial,
               AppendBeacon(m, p)
        PROVE  Goal
    <2>1. /\ UNCHANGED <<lastBeacon, syncPut, storedAgg>>
          /\ aggPut' = [aggPut EXCEPT ![m] = <<Recovered(p)>>]
          /\ Put(m, Recovered(p))
      BY <1>1, Zenon DEF AppendBeacon, Receive
    <2>2. p \in Partial
      BY SignatureAssumption, Zenon DEF TypeOK
    <2>3. CASE n # m
      <3>1. aggPut'[n] = aggPut[n]
        BY <1>t, <2>1, <2>3
      <3> QED
        BY <2>1, <3>1, Zenon DEF Views
    <2>4. CASE n = m
      <3>1. aggPut'[n] = <<Recovered(p)>>
        BY <1>t, <2>1, <2>4
      <3>2. b \in Views(n) \/ b = Recovered(p)
        <4>1. Elements(aggPut'[n]) = {Recovered(p)}
          BY <3>1, ElementsOfOne, Zenon
        <4>2. /\ lastBeacon'[n] = lastBeacon[n] /\ syncPut'[n] = syncPut[n]
              /\ storedAgg'[n] = storedAgg[n]
          BY <2>1, Zenon
        <4>3. Elements(syncPut'[n]) = Elements(syncPut[n])
              /\ Elements(storedAgg'[n]) = Elements(storedAgg[n])
          BY <4>2, Zenon
        <4> QED
          BY <4>1, <4>2, <4>3, Zenon DEF Views
      <3> QED
        BY <2>1, <2>2, <2>4, <3>2, RecoveredType, Zenon
    <2> QED
      BY <2>3, <2>4
  <1>2. ASSUME NEW m \in Honest, BeaconAppended(m)
        PROVE  Goal
    <2> DEFINE c == Head(aggPut[m])
    <2>1. /\ aggPut[m] # << >> /\ UNCHANGED syncPut
          /\ storedAgg' = [storedAgg EXCEPT ![m] = Append(@, c)]
          /\ lastBeacon' = [lastBeacon EXCEPT ![m] = c]
          /\ aggPut' = [aggPut EXCEPT ![m] = << >>]
      BY <1>2, Zenon DEF BeaconAppended, Queue
    <2>2. c \in Elements(aggPut[m]) /\ c \in Beacon
      <3>1. aggPut[m] \in Seq(Beacon)
        BY <1>t
      <3> QED
        BY <2>1, <3>1, HeadIsElement, Zenon
    <2>3. CASE n # m
      <3>1. /\ storedAgg'[n] = storedAgg[n] /\ lastBeacon'[n] = lastBeacon[n]
            /\ aggPut'[n] = aggPut[n]
        BY <1>t, <2>1, <2>3
      <3> QED
        BY <2>1, <3>1, Zenon DEF Views
    <2>4. CASE n = m
      <3>1. /\ storedAgg'[n] = Append(storedAgg[n], c) /\ lastBeacon'[n] = c
            /\ aggPut'[n] = << >>
        BY <1>t, <2>1, <2>4
      <3>2. Elements(Append(storedAgg[n], c)) \subseteq Elements(storedAgg[n]) \cup {c}
        <4>1. storedAgg[n] \in Seq(Beacon)
          BY <1>t
        <4> QED
          BY <2>2, <4>1, ElementsOfAppend, Zenon
      <3> HIDE DEF c
      <3> QED
        BY <2>1, <2>2, <2>4, <3>1, <3>2, ElementsOfNone, Zenon DEF Views
    <2> QED
      BY <2>3, <2>4
  <1>3. ASSUME NEW m \in Honest, BeaconStored(m)
        PROVE  Goal
    <2>1. PICK i \in DOMAIN storedAgg[m] :
             /\ lastBeacon' = [lastBeacon EXCEPT ![m] = storedAgg[m][i]]
             /\ storedAgg' = [storedAgg EXCEPT ![m] =
                   SubSeq(@, 1, i - 1) \o SubSeq(@, i + 1, Len(@))]
             /\ UNCHANGED <<aggPut, syncPut>>
      BY <1>3, Zenon DEF BeaconStored
    <2>2. CASE n # m
      <3>1. storedAgg'[n] = storedAgg[n] /\ lastBeacon'[n] = lastBeacon[n]
        BY <1>t, <2>1, <2>2
      <3> QED
        BY <2>1, <3>1, Zenon DEF Views
    <2>3. CASE n = m
      <3> DEFINE s == storedAgg[n]
                 c == s[i]
                 rest == SubSeq(s, 1, i - 1) \o SubSeq(s, i + 1, Len(s))
      <3>1. s \in Seq(Beacon) /\ i \in DOMAIN s
        BY <1>t, <2>1, <2>3
      <3>2. storedAgg'[n] = rest /\ lastBeacon'[n] = c
        BY <1>t, <2>1, <2>3, Zenon
      <3>3. Elements(rest) \subseteq Elements(s) /\ c \in Elements(s)
        BY <3>1, ElementsOfRest, Zenon DEF Elements
      <3> HIDE DEF c, rest
      <3> QED
        BY <2>1, <3>2, <3>3, Zenon DEF Views
    <2> QED
      BY <2>2, <2>3
  <1>4. ASSUME NEW m \in Honest, SyncBeacon(m)
        PROVE  Goal
    <2>1. PICK c \in Offered(m) :
             /\ Verified(c) /\ Put(m, c)
             /\ syncPut' = [syncPut EXCEPT ![m] = <<c>>]
             /\ UNCHANGED <<lastBeacon, aggPut, storedAgg>>
      BY <1>4, Zenon DEF SyncBeacon
    <2>2. c \in Beacon
      BY OfferedType
    <2>3. CASE n # m
      <3>1. syncPut'[n] = syncPut[n]
        BY <1>t, <2>1, <2>3
      <3> QED
        BY <2>1, <3>1, Zenon DEF Views
    <2>4. CASE n = m
      <3>1. syncPut'[n] = <<c>>
        BY <1>t, <2>1, <2>4
      <3>2. b \in Views(n) \/ b = c
        <4>1. Elements(syncPut'[n]) = {c}
          BY <3>1, ElementsOfOne, Zenon
        <4>2. /\ lastBeacon'[n] = lastBeacon[n] /\ aggPut'[n] = aggPut[n]
              /\ storedAgg'[n] = storedAgg[n]
          BY <2>1, Zenon
        <4>3. Elements(aggPut'[n]) = Elements(aggPut[n])
              /\ Elements(storedAgg'[n]) = Elements(storedAgg[n])
          BY <4>2, Zenon
        <4> QED
          BY <4>1, <4>2, <4>3, Zenon DEF Views
      <3> QED
        BY <2>1, <2>2, <2>4, <3>2, Zenon
    <2> QED
      BY <2>3, <2>4
  <1>5. ASSUME NEW m \in Honest, BeaconSynced(m)
        PROVE  Goal
    <2> DEFINE c == Head(syncPut[m])
    <2>1. /\ syncPut[m] # << >> /\ UNCHANGED <<lastBeacon, aggPut>>
          /\ storedAgg' = [storedAgg EXCEPT ![m] = Append(@, c)]
          /\ syncPut' = [syncPut EXCEPT ![m] = << >>]
      BY <1>5, Zenon DEF BeaconSynced, Queue
    <2>2. c \in Elements(syncPut[m]) /\ c \in Beacon
      <3>1. syncPut[m] \in Seq(Beacon)
        BY <1>t
      <3> QED
        BY <2>1, <3>1, HeadIsElement, Zenon
    <2>3. CASE n # m
      <3>1. storedAgg'[n] = storedAgg[n] /\ syncPut'[n] = syncPut[n]
        BY <1>t, <2>1, <2>3
      <3> QED
        BY <2>1, <3>1, Zenon DEF Views
    <2>4. CASE n = m
      <3>1. storedAgg'[n] = Append(storedAgg[n], c) /\ syncPut'[n] = << >>
        BY <1>t, <2>1, <2>4
      <3>2. Elements(Append(storedAgg[n], c)) \subseteq Elements(storedAgg[n]) \cup {c}
        <4>1. storedAgg[n] \in Seq(Beacon)
          BY <1>t
        <4> QED
          BY <2>2, <4>1, ElementsOfAppend, Zenon
      <3> HIDE DEF c
      <3> QED
        BY <2>1, <2>2, <2>4, <3>1, <3>2, ElementsOfNone, Zenon DEF Views
    <2> QED
      BY <2>3, <2>4
  <1>6. ASSUME NEW m \in Honest, Crash(m)
        PROVE  Goal
    <2>1. /\ lastBeacon' = [lastBeacon EXCEPT ![m] = Genesis]
          /\ aggPut' = [aggPut EXCEPT ![m] = << >>]
          /\ syncPut' = [syncPut EXCEPT ![m] = << >>]
          /\ storedAgg' = [storedAgg EXCEPT ![m] = << >>]
      BY <1>6, Zenon DEF Crash
    <2>2. CASE n # m
      <3>1. /\ lastBeacon'[n] = lastBeacon[n] /\ aggPut'[n] = aggPut[n]
            /\ syncPut'[n] = syncPut[n] /\ storedAgg'[n] = storedAgg[n]
        BY <1>t, <2>1, <2>2
      <3> QED
        BY <3>1, Zenon DEF Views
    <2>3. CASE n = m
      <3>1. /\ lastBeacon'[n] = Genesis /\ aggPut'[n] = << >>
            /\ syncPut'[n] = << >> /\ storedAgg'[n] = << >>
        BY <1>t, <2>1, <2>3
      <3> QED
        BY <3>1, ElementsOfNone, Zenon DEF Views
    <2> QED
      BY <2>2, <2>3
  <1>7. ASSUME NEW m \in Honest, Restart(m)
        PROVE  Goal
    <2>1. /\ lastBeacon' = [lastBeacon EXCEPT ![m] = Last(m)]
          /\ UNCHANGED <<store, aggPut, syncPut, storedAgg>>
      BY <1>7, Zenon DEF Restart
    <2>2. CASE n # m
      <3>1. lastBeacon'[n] = lastBeacon[n]
        BY <1>t, <2>1, <2>2
      <3> QED
        BY <2>1, <3>1, Zenon DEF Views
    <2>3. CASE n = m
      <3>1. lastBeacon'[n] = Last(n)
        BY <1>t, <2>1, <2>3
      <3> QED
        BY <2>1, <3>1, Zenon DEF Views
    <2> QED
      BY <2>2, <2>3
  <1>8. ASSUME NEW m \in Honest, NEW p,
               DiscardPartial(m, p) \/ CollectPartial(m, p) \/ DropBeacon(m, p)
        PROVE  UNCHANGED <<lastBeacon, aggPut, syncPut, storedAgg>>
    BY <1>8, Zenon DEF DiscardPartial, CollectPartial, DropBeacon, Receive
  <1>9. ASSUME NEW m \in Honest,
               Tick(m) \/ RunTick(m) \/ RunCatchup(m) \/ CatchupBroadcast(m) \/ SyncEnd(m)
        PROVE  UNCHANGED <<lastBeacon, aggPut, syncPut, storedAgg>>
    BY <1>9, Zenon DEF Tick, RunTick, RunCatchup, CatchupBroadcast, SyncEnd
  <1>10. ASSUME NEW m \in msgs, Lose(m)
         PROVE  UNCHANGED <<lastBeacon, aggPut, syncPut, storedAgg>>
    BY <1>10, Zenon DEF Lose, volatile
  <1>11. CASE UNCHANGED vars
    BY <1>0, <1>11, Zenon DEF vars, volatile
  <1>12. ASSUME NEW m \in Honest, NodeStep(m)
         PROVE  Goal
    <2> HIDE DEF Goal
    <2>1. \/ \E p \in {x.p : x \in msgs} \cup FaultyPartial : AppendBeacon(m, p)
          \/ BeaconAppended(m) \/ BeaconStored(m) \/ SyncBeacon(m) \/ BeaconSynced(m)
          \/ Crash(m) \/ Restart(m)
          \/ UNCHANGED <<lastBeacon, aggPut, syncPut, storedAgg>>
      BY <1>8, <1>9, <1>12, Zenon DEF NodeStep, ReceivePartial
    <2>2. UNCHANGED <<lastBeacon, aggPut, syncPut, storedAgg>> => Goal
      BY <1>0 DEF Goal
    <2> QED
      BY <1>1, <1>2, <1>3, <1>4, <1>5, <1>6, <1>7, <2>1, <2>2, Zenon
  <1> QED
    BY <1>0, <1>10, <1>11, <1>12, Zenon DEF Next

\* Every step keeps that.
LEMMA ViewsAreStoredStep ==
    ASSUME StoreInv, ViewsAreStored, [Next]_vars
    PROVE  ViewsAreStored'
  <1> SUFFICES ASSUME NEW n \in Honest, NEW b \in Views(n)'
               PROVE  Stored(n, b)'
    BY Zenon DEF ViewsAreStored
  <1>1. CASE b \in Views(n)
    BY <1>1, StoredStays, Zenon DEF ViewsAreStored
  <1>2. CASE b \in Beacon /\ Put(n, b) /\ Verified(b)
    BY <1>2, PutIsStored, Zenon
  <1>3. CASE b = Last(n) /\ b # Genesis
    <2>1. Stored(n, b)
      BY <1>3, LastIsStored, Zenon
    <2> QED
      BY <2>1, StoredStays, Zenon
  <1> QED
    BY <1>1, <1>2, <1>3, ViewsStep, Zenon DEF StoreInv

(* Whatever the order in which aggregator, syncer and workers run, and     *)
(* across crashes, the last beacon the aggregator works with is one of the *)
(* store: it may be late, never ahead of the chain or beside it.           *)
THEOREM ViewInStore == Spec => []ViewIsStored
  <1>1. Init => ViewsAreStored
    <2> SUFFICES ASSUME Init, NEW n \in Honest
                 PROVE  Views(n) = {}
      BY Zenon DEF ViewsAreStored
    <2>1. /\ lastBeacon[n] = Genesis /\ aggPut[n] = << >> /\ syncPut[n] = << >>
          /\ storedAgg[n] = << >>
      BY DEF Init
    <2> QED
      BY <2>1, ElementsOfNone, Zenon DEF Views
  <1>2. StoreInv /\ ViewsAreStored /\ [Next]_vars => ViewsAreStored'
    BY ViewsAreStoredStep
  <1>3. ViewsAreStored => ViewIsStored
    BY Zenon DEF ViewsAreStored, ViewIsStored, Views, Stored
  <1> QED
    BY <1>1, <1>2, <1>3, StoreInvInit, StoreInvStep, PTL DEF Spec
-----------------------------------------------------------------------------
(***************************************************************************)
(* Timeliness.  A pending tick is the round its node is in, and no other   *)
(* clock is ahead of it; catchup broadcasts are for rounds already begun.  *)
(***************************************************************************)
Timing ==
    /\ \A m, n \in Honest : clock[m] <= clock[n] + 1
    /\ \A n \in Honest :
          \/ tick[n] = << >>
          \/ tick[n] = <<clock[n]>> /\ \A m \in Honest : clock[m] <= clock[n]
    /\ \A n \in Honest : current[n] <= clock[n]
    /\ \A n \in Honest : \A s \in sleeping[n] :
          s.upon.round < s.current /\ s.current <= clock[n]

(* Every partial of an honest index was signed by that node.               *)
Provenance ==
    /\ \A p \in signed : p.idx \in Honest
    /\ \A n \in Honest : cache[n] \subseteq signed \cup FaultyPartial
    /\ \A m \in msgs : m.p \in signed \cup FaultyPartial

\* What a step does to a clock.
LEMMA ClockStep ==
    ASSUME TypeOK, [Next]_vars
    PROVE  UNCHANGED clock \/ \E n \in Honest : Tick(n)
  <1>1. ASSUME NEW n \in Honest, NEW p, ReceivePartial(n, p)
        PROVE  UNCHANGED clock
    BY <1>1, Zenon DEF ReceivePartial, DiscardPartial, CollectPartial, AppendBeacon, DropBeacon,
       Receive
  <1>2. ASSUME NEW n \in Honest, RunTick(n) \/ RunCatchup(n) \/ CatchupBroadcast(n)
        PROVE  UNCHANGED clock
    BY <1>2, Zenon DEF RunTick, RunCatchup, CatchupBroadcast
  <1>3. ASSUME NEW n \in Honest,
               BeaconAppended(n) \/ BeaconStored(n) \/ SyncBeacon(n) \/ BeaconSynced(n)
                   \/ SyncEnd(n) \/ Crash(n) \/ Restart(n)
        PROVE  UNCHANGED clock
    BY <1>3, Zenon DEF BeaconAppended, BeaconStored, SyncBeacon, BeaconSynced, SyncEnd, Crash,
       Restart
  <1>4. ASSUME NEW m \in msgs, Lose(m)
        PROVE  UNCHANGED clock
    BY <1>4 DEF Lose
  <1>5. CASE UNCHANGED vars
    BY <1>5 DEF vars
  <1> QED
    BY <1>1, <1>2, <1>3, <1>4, <1>5, Zenon DEF Next, NodeStep

\* A clock never goes back.
LEMMA ClocksAdvance ==
    ASSUME TypeOK, [Next]_vars, NEW n \in Honest
    PROVE  clock[n] \in Nat /\ clock'[n] \in Nat /\ clock[n] <= clock'[n]
  <1>1. clock \in [Honest -> 0 .. MaxClock]
    BY DEF TypeOK
  <1>2. CASE UNCHANGED clock
    BY <1>1, <1>2, NetworkAssumption
  <1>3. ASSUME NEW m \in Honest, Tick(m)
        PROVE  clock[n] \in Nat /\ clock'[n] \in Nat /\ clock[n] <= clock'[n]
    <2>1. clock' = [clock EXCEPT ![m] = @ + 1]
      BY <1>3, Zenon DEF Tick
    <2> QED
      BY <1>1, <2>1, NetworkAssumption
  <1> QED
    BY <1>2, <1>3, ClockStep

\* Every timely step keeps it.
LEMMA TimingStep ==
    ASSUME TypeOK, Timing, [Next /\ TimelyTicks]_vars
    PROVE  Timing'
  <1>0. CASE UNCHANGED <<clock, tick, current, sleeping>>
    BY <1>0, Zenon DEF Timing
  <1>1. ASSUME NEW n \in Honest, Tick(n), TimelyTicks
        PROVE  Timing'
    <2>0. \A k, m \in Honest : clock[k] <= clock[m] + 1
      BY Zenon DEF Timing
    <2>1. clock \in [Honest -> Nat] /\ tick \in [Honest -> Seq(1 .. MaxClock)]
      <3>1. clock \in [Honest -> 0 .. MaxClock] /\ tick \in [Honest -> Seq(1 .. MaxClock)]
        BY Zenon DEF TypeOK
      <3> QED
        BY <3>1, NetworkAssumption
    <2>2. clock' = [clock EXCEPT ![n] = @ + 1] /\ \A m \in Honest : clock[n] <= clock[m]
      BY <1>1, Zenon DEF Tick
    <2>3. \A m \in Honest : tick[m] = << >> \/ clock[m] > clock[n]
      BY <1>1, <2>1, <2>2 DEF TimelyTicks
    <2>4. ASSUME NEW k \in Honest, NEW m \in Honest PROVE clock'[k] <= clock'[m] + 1
      <3>1. /\ clock[k] \in Nat /\ clock[m] \in Nat /\ clock[n] \in Nat
            /\ clock[k] <= clock[m] + 1 /\ clock[n] <= clock[m]
        BY <2>0, <2>1, <2>2
      <3>2. /\ clock'[k] = IF k = n THEN clock[n] + 1 ELSE clock[k]
            /\ clock'[m] = IF m = n THEN clock[n] + 1 ELSE clock[m]
        BY <2>1, <2>2, Zenon
      <3> QED
        BY <3>1, <3>2
    <2>5. ASSUME NEW k \in Honest
          PROVE  \/ tick'[k] = << >>
                 \/ tick'[k] = <<clock'[k]>> /\ \A m \in Honest : clock'[m] <= clock'[k]
      <3>1. CASE k = n
        <4>1. tick[n] = << >>
          BY <2>1, <2>3
        <4>2. tick'[n] = << >> \/ tick'[n] = <<clock[n] + 1>>
          <5>1. tick' = [tick EXCEPT ![n] = <<clock[n] + 1>>] \/ tick' = tick
            BY <1>1, Zenon DEF Tick
          <5> QED
            BY <2>1, <4>1, <5>1
        <4>3. clock'[n] = clock[n] + 1 /\ \A m \in Honest : clock'[m] <= clock'[n]
          BY <2>0, <2>1, <2>2
        <4> QED
          BY <3>1, <4>2, <4>3
      <3>2. CASE k # n
        <4>1. tick'[k] = tick[k] /\ clock'[k] = clock[k]
          <5>1. tick' = [tick EXCEPT ![n] = <<clock[n] + 1>>] \/ tick' = tick
            BY <1>1, Zenon DEF Tick
          <5> QED
            BY <2>1, <2>2, <3>2, <5>1, Zenon
        <4>2. CASE tick[k] = << >>
          BY <4>1, <4>2
        <4>3. CASE tick[k] # << >>
          <5>1. tick[k] = <<clock[k]>> /\ \A m \in Honest : clock[m] <= clock[k]
            BY <4>3, Zenon DEF Timing
          <5>2. clock[n] + 1 <= clock[k]
            BY <2>1, <2>3, <4>3
          <5>3. ASSUME NEW m \in Honest PROVE clock'[m] <= clock'[k]
            <6>1. clock'[m] = IF m = n THEN clock[n] + 1 ELSE clock[m]
              BY <2>1, <2>2, Zenon
            <6>2. clock[m] <= clock[k]
              BY <5>1, Zenon
            <6> QED
              BY <4>1, <5>2, <6>1, <6>2
          <5> QED
            BY <4>1, <5>1, <5>3, Zenon
        <4> QED
          BY <4>2, <4>3
      <3> QED
        BY <3>1, <3>2
    <2>6. /\ UNCHANGED <<current, sleeping>>
          /\ \A m \in Honest : clock[m] \in Nat /\ clock'[m] \in Nat /\ clock[m] <= clock'[m]
      <3>1. UNCHANGED <<current, sleeping>>
        BY <1>1, Zenon DEF Tick
      <3>2. \A m \in Honest : clock[m] \in Nat /\ clock'[m] \in Nat /\ clock[m] <= clock'[m]
        BY <2>1, <2>2
      <3> QED
        BY <3>1, <3>2, Zenon
    <2>7. \A m \in Honest : current'[m] <= clock'[m]
      <3>1. \A m \in Honest : current[m] \in 0 .. MaxClock
        BY Zenon DEF TypeOK
      <3>2. \A m \in Honest : current[m] <= clock[m]
        BY Zenon DEF Timing
      <3> QED
        BY <2>6, <3>1, <3>2
    <2>8. \A m \in Honest : \A s \in sleeping'[m] :
             s.upon.round < s.current /\ s.current <= clock'[m]
      <3>1. \A m \in Honest : \A s \in sleeping[m] : s.current \in Nat
        <4>1. \A m \in Honest : \A s \in sleeping[m] : s \in [current : 1 .. MaxClock, upon : Beacon]
          BY Zenon DEF TypeOK
        <4> QED
          BY <4>1, NetworkAssumption
      <3>2. \A m \in Honest : \A s \in sleeping[m] :
               s.upon.round < s.current /\ s.current <= clock[m]
        BY Zenon DEF Timing
      <3> QED
        BY <2>6, <3>1, <3>2
    <2> QED
      BY <2>4, <2>5, <2>7, <2>8, Zenon DEF Timing
  <1>2. ASSUME NEW n \in Honest, RunTick(n)
        PROVE  Timing'
    <2>1. tick[n] = <<clock[n]>>
      BY <1>2, Zenon DEF RunTick, Timing
    <2>2. /\ tick' = [tick EXCEPT ![n] = Tail(@)]
          /\ current' = [current EXCEPT ![n] = Head(tick[n])]
          /\ UNCHANGED <<clock, sleeping>>
      BY <1>2, Zenon DEF RunTick
    <2>3. /\ tick \in [Honest -> Seq(1 .. MaxClock)] /\ current \in [Honest -> 0 .. MaxClock]
          /\ clock \in [Honest -> 0 .. MaxClock]
      BY Zenon DEF TypeOK
    <2>4. Head(tick[n]) = clock[n] /\ Tail(tick[n]) = << >>
      BY <2>1
    <2>5. \A m \in Honest : tick'[m] = IF m = n THEN << >> ELSE tick[m]
      BY <2>2, <2>3, <2>4, Zenon
    <2>6. \A m \in Honest : current'[m] <= clock[m]
      <3>1. \A m \in Honest : current[m] <= clock[m]
        BY Zenon DEF Timing
      <3>2. \A m \in Honest : current'[m] = IF m = n THEN clock[m] ELSE current[m]
        BY <2>2, <2>3, <2>4, Zenon
      <3>3. clock[n] <= clock[n]
        BY <2>3
      <3> QED
        BY <3>1, <3>2, <3>3, Zenon
    <2> QED
      BY <2>2, <2>5, <2>6, Zenon DEF Timing
  <1>3. ASSUME NEW n \in Honest, RunCatchup(n)
        PROVE  Timing'
    <2>1. UNCHANGED <<clock, tick, current>>
      BY <1>3, Zenon DEF RunCatchup
    <2>2. \/ UNCHANGED sleeping
          \/ /\ Head(catchup[n]).round < current[n]
             /\ sleeping' = [sleeping EXCEPT ![n] =
                   @ \cup {[current |-> current[n], upon |-> Head(catchup[n])]}]
      BY <1>3, Zenon DEF RunCatchup
    <2>3. \A m \in Honest : \A s \in sleeping'[m] :
             s.upon.round < s.current /\ s.current <= clock[m]
      <3>1. \A m \in Honest : \A s \in sleeping[m] :
               s.upon.round < s.current /\ s.current <= clock[m]
        BY Zenon DEF Timing
      <3>2. sleeping \in [Honest -> SUBSET [current : 1 .. MaxClock, upon : Beacon]]
        BY Zenon DEF TypeOK
      <3>3. current[n] <= clock[n]
        BY DEF Timing
      <3>4. CASE UNCHANGED sleeping
        BY <3>1, <3>4, Zenon
      <3>5. CASE /\ Head(catchup[n]).round < current[n]
                 /\ sleeping' = [sleeping EXCEPT ![n] =
                       @ \cup {[current |-> current[n], upon |-> Head(catchup[n])]}]
        <4> DEFINE new == [current |-> current[n], upon |-> Head(catchup[n])]
        <4>1. new.upon.round < new.current /\ new.current <= clock[n]
          BY <3>3, <3>5, Zenon
        <4>2. \A m \in Honest : sleeping'[m] = IF m = n THEN sleeping[m] \cup {new}
                                               ELSE sleeping[m]
          BY <3>2, <3>5, Zenon
        <4> HIDE DEF new
        <4> QED
          BY <3>1, <4>1, <4>2, Zenon
      <3> QED
        BY <2>2, <3>4, <3>5, Zenon
    <2> QED
      BY <2>1, <2>3, Zenon DEF Timing
  <1>4. ASSUME NEW n \in Honest, CatchupBroadcast(n)
        PROVE  Timing'
    <2>1. UNCHANGED <<clock, tick, current>>
      BY <1>4 DEF CatchupBroadcast
    <2>2. \A m \in Honest : sleeping'[m] \subseteq sleeping[m]
      BY <1>4, Zenon DEF CatchupBroadcast, TypeOK
    <2> QED
      BY <2>1, <2>2, Zenon DEF Timing
  <1>5. ASSUME NEW n \in Honest, Crash(n)
        PROVE  Timing'
    <2>1. /\ UNCHANGED clock
          /\ tick' = [tick EXCEPT ![n] = << >>]
          /\ current' = [current EXCEPT ![n] = 0]
          /\ sleeping' = [sleeping EXCEPT ![n] = {}]
      BY <1>5, Zenon DEF Crash
    <2>2. 0 <= clock[n]
      <3>1. clock[n] \in 0 .. MaxClock
        BY Zenon DEF TypeOK
      <3> QED
        BY <3>1
    <2>3. \A m \in Honest : tick'[m] = IF m = n THEN << >> ELSE tick[m]
      BY <2>1, Zenon DEF TypeOK
    <2>4. \A m \in Honest : current'[m] = IF m = n THEN 0 ELSE current[m]
      BY <2>1, Zenon DEF TypeOK
    <2>5. \A m \in Honest : sleeping'[m] = IF m = n THEN {} ELSE sleeping[m]
      BY <2>1, Zenon DEF TypeOK
    <2>6. \A m \in Honest : current'[m] <= clock[m]
      BY <2>2, <2>4, Zenon DEF Timing
    <2>7. \A m \in Honest : \A s \in sleeping'[m] :
             s.upon.round < s.current /\ s.current <= clock[m]
      BY <2>5, Zenon DEF Timing
    <2>8. \A k \in Honest :
             \/ tick'[k] = << >>
             \/ tick'[k] = <<clock[k]>> /\ \A m \in Honest : clock[m] <= clock[k]
      BY <2>3, Zenon DEF Timing
    <2> QED
      BY <2>1, <2>6, <2>7, <2>8, Zenon DEF Timing
  <1>6. ASSUME NEW n \in Honest, NEW p, ReceivePartial(n, p)
        PROVE  UNCHANGED <<clock, tick, current, sleeping>>
    BY <1>6, Zenon DEF ReceivePartial, DiscardPartial, CollectPartial, AppendBeacon, DropBeacon,
       Receive
  <1>7. ASSUME NEW n \in Honest,
               BeaconAppended(n) \/ BeaconStored(n) \/ SyncBeacon(n) \/ BeaconSynced(n)
                   \/ SyncEnd(n) \/ Restart(n)
        PROVE  UNCHANGED <<clock, tick, current, sleeping>>
    BY <1>7, Zenon DEF BeaconAppended, BeaconStored, SyncBeacon, BeaconSynced, SyncEnd, Restart
  <1>8. ASSUME NEW m \in msgs, Lose(m)
        PROVE  UNCHANGED <<clock, tick, current, sleeping>>
    BY <1>8, Zenon DEF Lose, volatile
  <1>9. CASE UNCHANGED vars
    BY <1>0, <1>9 DEF vars, volatile
  <1> QED
    BY <1>0, <1>1, <1>2, <1>3, <1>4, <1>5, <1>6, <1>7, <1>8, <1>9, Zenon DEF Next, NodeStep

\* A broadcast keeps it: the node signs its own partial.
LEMMA BroadcastProvenance ==
    ASSUME Provenance, NEW n \in Honest, NEW c, NEW upon,
           broadcastNextPartial(n, c, upon), UNCHANGED cache
    PROVE  Provenance'
  <1>1. /\ NextPartial(n, c, upon).idx = n
        /\ signed' = signed \cup {NextPartial(n, c, upon)}
        /\ msgs' = msgs \cup [to : Honest, p : {NextPartial(n, c, upon)}]
    BY Zenon DEF broadcastNextPartial, NextPartial
  <1> QED
    BY <1>1, Zenon DEF Provenance

\* Every step keeps it.
LEMMA ProvenanceStep ==
    ASSUME TypeOK, Provenance, [Next]_vars
    PROVE  Provenance'
  <1>0. ASSUME UNCHANGED signed, msgs' \subseteq msgs,
               \A n \in Honest : cache'[n] \subseteq cache[n]
        PROVE  Provenance'
    BY <1>0 DEF Provenance
  <1>1. ASSUME NEW n \in Honest, RunTick(n)
        PROVE  Provenance'
    BY <1>1, BroadcastProvenance, Zenon DEF RunTick
  <1>2. ASSUME NEW n \in Honest, CatchupBroadcast(n)
        PROVE  Provenance'
    BY <1>2, BroadcastProvenance DEF CatchupBroadcast
  <1>3. ASSUME NEW n \in Honest, NEW p \in {m.p : m \in msgs} \cup FaultyPartial,
               CollectPartial(n, p)
        PROVE  Provenance'
    <2>1. p \in signed \cup FaultyPartial
      BY DEF Provenance
    <2>2. cache \in [Honest -> SUBSET Partial]
      BY Zenon DEF TypeOK
    <2> QED
      BY <1>3, <2>1, <2>2, Zenon DEF CollectPartial, Receive, Provenance
  <1>4. ASSUME NEW n \in Honest, NEW p,
               DiscardPartial(n, p) \/ AppendBeacon(n, p) \/ DropBeacon(n, p)
        PROVE  Provenance'
    <2>1. UNCHANGED signed /\ msgs' \subseteq msgs
      BY <1>4, Zenon DEF DiscardPartial, AppendBeacon, DropBeacon, Receive
    <2>2. UNCHANGED cache \/ cache' = [cache EXCEPT ![n] = FlushRounds(@, p.round)]
      BY <1>4, Zenon DEF DiscardPartial, AppendBeacon, DropBeacon, Completes
    <2>3. \A m \in Honest : cache'[m] \subseteq cache[m]
      BY <2>2, Zenon DEF TypeOK, FlushRounds
    <2> QED
      BY <1>0, <2>1, <2>3
  <1>5. ASSUME NEW n \in Honest, BeaconStored(n)
        PROVE  Provenance'
    <2>1. PICK r : cache' = [cache EXCEPT ![n] = FlushRounds(@, r)]
      BY <1>5, Zenon DEF BeaconStored
    <2>2. \A m \in Honest : cache'[m] \subseteq cache[m]
      BY <2>1, Zenon DEF TypeOK, FlushRounds
    <2> QED
      BY <1>0, <1>5, <2>2, Zenon DEF BeaconStored
  <1>6. ASSUME NEW n \in Honest, Crash(n)
        PROVE  Provenance'
    <2>1. UNCHANGED signed /\ msgs' \subseteq msgs
      BY <1>6, Zenon DEF Crash
    <2>2. \A m \in Honest : cache'[m] \subseteq cache[m]
      BY <1>6, Zenon DEF Crash, TypeOK
    <2> QED
      BY <1>0, <2>1, <2>2
  <1>7. ASSUME NEW m \in msgs, Lose(m)
        PROVE  Provenance'
    BY <1>0, <1>7, Zenon DEF Lose, volatile
  <1>8. ASSUME NEW n \in Honest,
               Tick(n) \/ RunCatchup(n) \/ BeaconAppended(n) \/ SyncBeacon(n)
                   \/ BeaconSynced(n) \/ SyncEnd(n) \/ Restart(n)
        PROVE  UNCHANGED <<signed, msgs, cache>>
    BY <1>8, Zenon DEF Tick, RunCatchup, BeaconAppended, SyncBeacon, BeaconSynced, SyncEnd, Restart
  <1>9. CASE UNCHANGED <<signed, msgs, cache>>
    BY <1>0, <1>9
  <1>10. CASE UNCHANGED vars
    BY <1>9, <1>10 DEF vars, volatile
  <1> QED
    BY <1>1, <1>2, <1>3, <1>4, <1>5, <1>6, <1>7, <1>8, <1>9, <1>10, Zenon
       DEF Next, NodeStep, ReceivePartial

(* Threshold partials over one message are not all from faulty nodes.      *)
LEMMA HonestSigner ==
    ASSUME NEW S, NEW p, Cardinality(Signers(S, p)) >= Threshold
    PROVE  \E i \in Honest : [p EXCEPT !.idx = i] \in S
  <1> SUFFICES ASSUME \A i \in Honest : [p EXCEPT !.idx = i] \notin S
               PROVE  FALSE
    OBVIOUS
  <1>1. Signers(S, p) \in SUBSET Faulty
    BY DEF Signers, Honest
  <1> QED
    BY <1>1, NetworkAssumption

(* A message with that many signers is of a round that has begun.          *)
LEMMA SignedRoundBegan ==
    ASSUME TypeOK, Provenance, NoEarlyPartial,
           NEW S \in SUBSET (signed \cup FaultyPartial), NEW p \in Partial,
           Cardinality(Signers(S, p)) >= Threshold
    PROVE  \E m \in Honest : p.round <= clock[m]
  <1>1. PICK i \in Honest : [p EXCEPT !.idx = i] \in S
    BY HonestSigner, Zenon
  <1>2. /\ [p EXCEPT !.idx = i].idx = i
        /\ [p EXCEPT !.idx = i].round = p.round
    BY DEF Partial
  <1>3. [p EXCEPT !.idx = i] \notin FaultyPartial
    BY <1>2, SignatureAssumption, Zenon DEF Honest
  <1>4. [p EXCEPT !.idx = i] \in signed
    BY <1>1, <1>3
  <1> QED
    BY <1>2, <1>4, Zenon DEF NoEarlyPartial

\* The round of a last beacon has begun.
LEMMA LastBegan ==
    ASSUME StoreInv, NoEarlyBeacon, NEW n \in Honest, NEW c \in Nat,
           \A m \in Honest : clock[m] <= c
    PROVE  Last(n).round \in Nat /\ Last(n).round <= c
  <1>1. Len(store[n]) \in Nat /\ Last(n).round = Len(store[n])
    BY LastLinked, Zenon DEF StoreInv
  <1>2. DOMAIN store[n] = 1 .. Len(store[n])
    BY SeqIsFunction, Zenon DEF StoreInv, TypeOK
  <1>3. CASE Len(store[n]) = 0
    BY <1>1, <1>3
  <1>4. CASE Len(store[n]) # 0
    <2>0. Len(store[n]) \in DOMAIN store[n]
      BY <1>1, <1>2, <1>4
    <2>1. PICK m \in Honest : Len(store[n]) <= clock[m]
      BY <2>0 DEF NoEarlyBeacon
    <2>2. clock[m] \in 0 .. MaxClock
      BY Zenon DEF StoreInv, TypeOK
    <2> QED
      BY <1>1, <2>1, <2>2
  <1> QED
    BY <1>3, <1>4

\* Every timely step keeps it.
LEMMA NoEarlyPartialStep ==
    ASSUME StoreInv, Timing, Provenance, NoEarlyPartial, NoEarlyBeacon, [Next]_vars
    PROVE  NoEarlyPartial'
  <1>0. TypeOK
    BY DEF StoreInv
  <1>1. \A n \in Honest : clock[n] \in Nat /\ clock'[n] \in Nat /\ clock[n] <= clock'[n]
    BY <1>0, ClocksAdvance, Zenon
  <1>2. \A p \in signed : p.round \in Nat /\ p.idx \in Honest /\ p.round <= clock'[p.idx]
    <2>1. \A p \in signed : p \in Partial /\ p.idx \in Honest /\ p.round <= clock[p.idx]
      BY <1>0, Zenon DEF TypeOK, Provenance, NoEarlyPartial
    <2>2. \A p \in Partial : p.round \in Nat
      BY NetworkAssumption DEF Partial
    <2> SUFFICES ASSUME NEW p \in signed
                 PROVE  p.round \in Nat /\ p.idx \in Honest /\ p.round <= clock'[p.idx]
      OBVIOUS
    <2>3. p.round \in Nat /\ p.idx \in Honest /\ p.round <= clock[p.idx]
      BY <2>1, <2>2, Zenon
    <2>4. /\ clock[p.idx] \in Nat /\ clock'[p.idx] \in Nat
          /\ clock[p.idx] <= clock'[p.idx]
      BY <1>1, <2>3, Zenon
    <2> QED
      BY <2>3, <2>4
  <1>3. CASE UNCHANGED signed
    BY <1>2, <1>3, Zenon DEF NoEarlyPartial
  <1>4. ASSUME NEW n \in Honest, NEW c \in Nat, NEW upon, upon.round \in Nat,
               upon.round <= c, c <= clock[n], broadcastNextPartial(n, c, upon)
        PROVE  NoEarlyPartial'
    <2>1. /\ NextPartial(n, c, upon).idx = n
          /\ NextPartial(n, c, upon).round \in Nat
          /\ NextPartial(n, c, upon).round <= c
      BY <1>4 DEF NextPartial
    <2>2. signed' = signed \cup {NextPartial(n, c, upon)}
      BY <1>4 DEF broadcastNextPartial
    <2>3. NextPartial(n, c, upon).round <= clock'[n]
      BY <1>1, <1>4, <2>1
    <2> QED
      BY <1>2, <2>1, <2>2, <2>3, Zenon DEF NoEarlyPartial
  <1>5. ASSUME NEW n \in Honest, RunTick(n)
        PROVE  NoEarlyPartial'
    <2>1. tick[n] = <<clock[n]>> /\ \A m \in Honest : clock[m] <= clock[n]
      BY <1>5, Zenon DEF RunTick, Timing
    <2>2. broadcastNextPartial(n, Head(tick[n]), Last(n)) /\ Head(tick[n]) = clock[n]
      <3>1. broadcastNextPartial(n, Head(tick[n]), Last(n))
        BY <1>5, Zenon DEF RunTick
      <3>2. Head(tick[n]) = clock[n]
        BY <2>1
      <3> QED
        BY <3>1, <3>2, Zenon
    <2>3. Last(n).round \in Nat /\ Last(n).round <= clock[n]
      BY <1>1, <2>1, LastBegan, Zenon
    <2>4. clock[n] \in Nat /\ clock[n] <= clock[n]
      BY <1>1
    <2> QED
      BY <1>4, <2>2, <2>3, <2>4, Zenon
  <1>6. ASSUME NEW n \in Honest, CatchupBroadcast(n)
        PROVE  NoEarlyPartial'
    <2>1. PICK s \in sleeping[n] : broadcastNextPartial(n, s.current, s.upon)
      BY <1>6 DEF CatchupBroadcast
    <2>2. s.upon.round < s.current /\ s.current <= clock[n]
      BY Zenon DEF Timing
    <2>3. s.current \in Nat /\ s.upon.round \in Nat /\ s.upon.round <= s.current
      <3>1. s \in [current : 1 .. MaxClock, upon : Beacon]
        BY <1>0, Zenon DEF TypeOK
      <3> QED
        BY <2>2, <3>1, NetworkAssumption DEF Beacon
    <2> QED
      BY <1>4, <2>1, <2>2, <2>3, Zenon
  <1>7. ASSUME NEW n \in Honest, NEW p, ReceivePartial(n, p)
        PROVE  UNCHANGED signed
    BY <1>7, Zenon DEF ReceivePartial, DiscardPartial, CollectPartial, AppendBeacon, DropBeacon,
       Receive
  <1>8. ASSUME NEW n \in Honest,
               Tick(n) \/ RunCatchup(n) \/ BeaconAppended(n) \/ BeaconStored(n)
                   \/ SyncBeacon(n) \/ BeaconSynced(n) \/ SyncEnd(n) \/ Crash(n) \/ Restart(n)
        PROVE  UNCHANGED signed
    BY <1>8, Zenon DEF Tick, RunCatchup, BeaconAppended, BeaconStored, SyncBeacon, BeaconSynced,
       SyncEnd, Crash, Restart
  <1>9. ASSUME NEW m \in msgs, Lose(m)
        PROVE  UNCHANGED signed
    BY <1>9 DEF Lose
  <1>10. CASE UNCHANGED vars
    BY <1>3, <1>10 DEF vars
  <1> QED
    BY <1>3, <1>5, <1>6, <1>7, <1>8, <1>9, <1>10, Zenon DEF Next, NodeStep

\* Every timely step keeps it.
LEMMA NoEarlyBeaconStep ==
    ASSUME StoreInv, Provenance, NoEarlyPartial, NoEarlyBeacon, [Next]_vars
    PROVE  NoEarlyBeacon'
  <1>0. TypeOK /\ Linked
    BY DEF StoreInv
  <1>1. \A n \in Honest : clock[n] \in Nat /\ clock'[n] \in Nat /\ clock[n] <= clock'[n]
    BY <1>0, ClocksAdvance, Zenon
  <1>2. \A n \in Honest : /\ Len(store[n]) \in Nat
                          /\ DOMAIN store[n] = 1 .. Len(store[n])
                          /\ DOMAIN store'[n] = 1 .. Len(store'[n])
    BY <1>0, StoreDomains, NextStoreDomains, Zenon
  <1>3. ASSUME NEW n \in Honest, NEW r \in DOMAIN store[n]
        PROVE  \E m \in Honest : r <= clock'[m]
    <2>1. PICK m \in Honest : r <= clock[m]
      BY DEF NoEarlyBeacon
    <2>2. r \in Nat
      BY <1>2
    <2> QED
      BY <1>1, <2>1, <2>2
  <1>4. CASE UNCHANGED store
    BY <1>3, <1>4 DEF NoEarlyBeacon
  <1>5. ASSUME NEW n \in Honest, NEW b \in Beacon, Put(n, b), Verified(b),
               \E m \in Honest : b.round <= clock[m]
        PROVE  NoEarlyBeacon'
    <2>1. \A m \in Honest \ {n} : store'[m] = store[m]
      BY <1>0, <1>5, PutAppends, Zenon
    <2>2. b.round = Len(store[n]) + 1 /\ Len(store'[n]) = Len(store[n]) + 1
      BY <1>0, <1>5, PutAppends, Zenon
    <2>3. \E m \in Honest : Len(store[n]) + 1 <= clock'[m]
      <3>1. PICK m \in Honest : b.round <= clock[m]
        BY <1>5, Zenon
      <3>2. /\ Len(store[n]) \in Nat /\ clock[m] \in Nat /\ clock'[m] \in Nat
            /\ clock[m] <= clock'[m]
        BY <1>1, <1>2, Zenon
      <3>3. Len(store[n]) + 1 <= clock'[m]
        BY <2>2, <3>1, <3>2
      <3> QED
        BY <3>3, Zenon
    <2>4. \A r \in DOMAIN store'[n] : r \in DOMAIN store[n] \/ r = Len(store[n]) + 1
      BY <1>2, <2>2
    <2>5. ASSUME NEW m \in Honest, NEW r \in DOMAIN store'[m]
          PROVE  \E k \in Honest : r <= clock'[k]
      <3>1. CASE m = n
        BY <1>3, <2>3, <2>4, <3>1, Zenon
      <3>2. CASE m # n
        <4>1. r \in DOMAIN store[m]
          BY <2>1, <3>2
        <4> QED
          BY <1>3, <4>1, Zenon
      <3> QED
        BY <3>1, <3>2
    <2> QED
      BY <2>5, Zenon DEF NoEarlyBeacon
  <1>6. ASSUME NEW n \in Honest, NEW p \in {m.p : m \in msgs} \cup FaultyPartial,
               AppendBeacon(n, p)
        PROVE  NoEarlyBeacon'
    <2>1. p \in Partial /\ p \in signed \cup FaultyPartial
      BY <1>0, SignatureAssumption, Zenon DEF TypeOK, Provenance
    <2>2. cache[n] \cup {p} \in SUBSET (signed \cup FaultyPartial)
      BY <2>1, Zenon DEF Provenance
    <2>3. Cardinality(Signers(cache[n] \cup {p}, p)) >= Threshold
      BY <1>6, Zenon DEF AppendBeacon, Completes
    <2>4. \E m \in Honest : p.round <= clock[m]
      BY <1>0, <2>1, <2>2, <2>3, SignedRoundBegan, Zenon
    <2>5. Recovered(p) \in Beacon /\ Verified(Recovered(p)) /\ Recovered(p).round = p.round
      BY <2>1, RecoveredType, Zenon DEF Recovered
    <2>6. Put(n, Recovered(p))
      BY <1>6, Zenon DEF AppendBeacon
    <2> QED
      BY <1>5, <2>4, <2>5, <2>6, Zenon
  <1>7. ASSUME NEW n \in Honest, SyncBeacon(n)
        PROVE  NoEarlyBeacon'
    <2>1. PICK b \in Offered(n) : Verified(b) /\ Put(n, b)
      BY <1>7, Zenon DEF SyncBeacon
    <2>2. b \in Beacon
      BY <1>0, OfferedType
    <2>3. \E m \in Honest : b.round <= clock[m]
      <3>1. CASE b \in Streamed(n)
        <4>1. PICK k \in Honest : Len(store[k]) > Len(store[n])
          BY <3>1 DEF Streamed
        <4>2. b.round = Len(store[n]) + 1
          BY <1>0, <2>1, <2>2, PutAppends, Zenon
        <4>3. b.round \in DOMAIN store[k]
          BY <1>2, <4>1, <4>2
        <4> QED
          BY <4>3, Zenon DEF NoEarlyBeacon
      <3>2. CASE b \in Known
        <4>1. PICK p \in signed \cup FaultyPartial :
                 /\ Cardinality(Signers(signed \cup FaultyPartial, p)) >= Threshold
                 /\ b = Recovered(p)
          BY <3>2 DEF Known
        <4>2. p \in Partial
          BY <1>0, SignatureAssumption, Zenon DEF TypeOK
        <4>3. \E m \in Honest : p.round <= clock[m]
          BY <1>0, <4>1, <4>2, SignedRoundBegan, Zenon
        <4> QED
          BY <4>1, <4>3, Zenon DEF Recovered
      <3>3. CASE b \in FaultyBeacon
        BY <2>1, <3>3, SignatureAssumption, Zenon DEF Verified
      <3> QED
        BY <3>1, <3>2, <3>3, Zenon DEF Offered
    <2> QED
      BY <1>5, <2>1, <2>2, <2>3
  <1>8. ASSUME NEW n \in Honest, NEW p, ReceivePartial(n, p), ~AppendBeacon(n, p)
        PROVE  UNCHANGED store
    BY <1>8, Zenon DEF ReceivePartial, DiscardPartial, CollectPartial, DropBeacon
  <1>9. ASSUME NEW n \in Honest,
               Tick(n) \/ RunTick(n) \/ RunCatchup(n) \/ CatchupBroadcast(n)
        PROVE  UNCHANGED store
    BY <1>9, Zenon DEF Tick, RunTick, RunCatchup, CatchupBroadcast
  <1>10. ASSUME NEW n \in Honest,
               BeaconAppended(n) \/ BeaconStored(n) \/ BeaconSynced(n) \/ SyncEnd(n)
                   \/ Crash(n) \/ Restart(n)
        PROVE  UNCHANGED store
    BY <1>10, Zenon DEF BeaconAppended, BeaconStored, BeaconSynced, SyncEnd, Crash, Restart
  <1>11. ASSUME NEW m \in msgs, Lose(m)
        PROVE  UNCHANGED store
    BY <1>11, Zenon DEF Lose
  <1>12. CASE UNCHANGED vars
    BY <1>4, <1>12 DEF vars
  <1> QED
    BY <1>4, <1>6, <1>7, <1>8, <1>9, <1>10, <1>11, <1>12, Zenon DEF Next, NodeStep

(* The inductive invariant of the timely network.                          *)
TimelyInv ==
    StoreInv /\ Timing /\ Provenance /\ NoEarlyPartial /\ NoEarlyBeacon

\* It holds initially.
LEMMA TimelyInvInit == Init => TimelyInv
  <1> SUFFICES ASSUME Init
               PROVE  TimelyInv
    OBVIOUS
  <1>1. Timing
    <2>1. \A n \in Honest : /\ clock[n] = 0 /\ current[n] = 0
                            /\ tick[n] = << >> /\ sleeping[n] = {}
      BY Zenon DEF Init
    <2> QED
      BY <2>1 DEF Timing
  <1>2. Provenance /\ NoEarlyPartial
    BY Zenon DEF Init, Provenance, NoEarlyPartial
  <1>3. NoEarlyBeacon
    <2>1. \A n \in Honest : DOMAIN store[n] = {}
      BY DEF Init
    <2> QED
      BY <2>1, Zenon DEF NoEarlyBeacon
  <1> QED
    BY <1>1, <1>2, <1>3, StoreInvInit, Zenon DEF TimelyInv

\* Every timely step keeps it.
LEMMA TimelyInvStep == TimelyInv /\ [Next /\ TimelyTicks]_vars => TimelyInv'
  <1> SUFFICES ASSUME TimelyInv, [Next /\ TimelyTicks]_vars
               PROVE  TimelyInv'
    OBVIOUS
  <1>1. TypeOK /\ [Next]_vars
    BY DEF TimelyInv, StoreInv
  <1> QED
    BY <1>1, StoreInvStep, TimingStep, ProvenanceStep, NoEarlyPartialStep, NoEarlyBeaconStep, Zenon
       DEF TimelyInv

(* When the run loops take their ticks in time, no honest node signs a     *)
(* round its own clock has not entered (broadcastNextPartial), on a tick   *)
(* or in catchup mode, however far its store is ahead or behind.           *)
THEOREM PartialsOnTime == TimelySpec => []NoEarlyPartial
  <1>1. TimelyInv => NoEarlyPartial
    BY DEF TimelyInv
  <1> QED
    BY <1>1, TimelyInvInit, TimelyInvStep, PTL DEF TimelySpec

(* And no beacon of a round is in any store before the round has begun for *)
(* some honest node, whatever the faulty nodes sign in advance.            *)
THEOREM BeaconsOnTime == TimelySpec => []NoEarlyBeacon
  <1>1. TimelyInv => NoEarlyBeacon
    BY DEF TimelyInv
  <1> QED
    BY <1>1, TimelyInvInit, TimelyInvStep, PTL DEF TimelySpec
=============================================================================
